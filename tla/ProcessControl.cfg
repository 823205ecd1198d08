SPECIFICATION MCSpec
CONSTANT MaxKids = 1
INVARIANT EndHonest
PROPERTIES
  PromiseKept
  ScopeEnds
  NoLateAuthorization
  ResultComes
CHECK_DEADLOCK FALSE
