SPECIFICATION Spec
CONSTANTS
  c1 = c1
  c2 = c2
  c3 = c3
  c4 = c4
  A = A
  B = B
  C = C
  Callers <- MCCallers
  Pids <- MCPids
  PidOf <- MCPidOf
  NoFile = NoFile
  Misjudged = FALSE
INVARIANTS
  Exclusive
CHECK_DEADLOCK FALSE
