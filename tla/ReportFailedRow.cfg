CONSTANTS
  Manifests <- Duplicated
  Slug <- MCSlug
  Outcomes <- AnyOutcomes
  Edits <- NoEdits
  MaxCommits = 2
SPECIFICATION Spec
INVARIANTS Attributed
CHECK_DEADLOCK FALSE
