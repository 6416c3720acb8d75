\* Two scripts, overlapping or one after the other's container, and two edits,
\* the second of which may take the first one back.
SPECIFICATION Spec
CONSTANTS
  Shell = {s1, s2}
  Profile = {p1, p2}
  Overlay <- MCOverlay
  Script = {"deploy", "up", "seed", "down"}
  MaxRuns = 2
  MaxEdits = 2
SYMMETRY Symmetry
INVARIANTS SeededIsLocal DeployIsGuarded ServesTheProfile
\* Nobody has to run anything.
CHECK_DEADLOCK FALSE
