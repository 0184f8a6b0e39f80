CONSTANTS
  Manifests <- MCManifests
  Slug <- MCSlug
  Outcomes <- MCOutcomes
  Edits <- MCEdits
  MaxCommits = 3
SPECIFICATION Spec
INVARIANTS TypeOK Attributed IndexShowsManifest
PROPERTIES SiblingsKept
CHECK_DEADLOCK FALSE
