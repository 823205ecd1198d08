SPECIFICATION Spec
CONSTANTS
  b1 = b1
  b2 = b2
  g1 = g1
  g2 = g2
  g3 = g3
  Builders <- MCBuilders
  Gens <- MCGens
  None = None
  Left = Left
  Settings <- MCSettings
SYMMETRY MCSymmetry
INVARIANTS
  CurrentReadable
  StoreBounded
  OutcomesHold
  LostLockStops
CHECK_DEADLOCK FALSE
