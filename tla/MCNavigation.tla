---------------------------- MODULE MCNavigation ----------------------------
(* Navigation with headings on and between the edges of the heading's cases, *)
(* and estimates just beside them and as far off as they may be.             *)
EXTENDS Navigation

TurnSteps == {-180, -60, 120}
ErrorSteps == {-89, -30, 0, 30, 89}
Directions == {-180, -46, 90, 135}
=============================================================================
