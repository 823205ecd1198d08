SPECIFICATION Spec
CONSTANTS
  s1 = s1
  s2 = s2
  Sources <- MCSources
  NoSource = NoSource
  Settings <- MCSettings
  MaxRuns = 3
  MaxCrashes = 1
SYMMETRY MCSymmetry
INVARIANT NeverPromotedTwice
CHECK_DEADLOCK FALSE
