SPECIFICATION FairSpec
CONSTANTS
  N = 3
  Concurrency = 2
  Absent = Absent
  Other = Other
  Before = Before
  MaxOps = 2
INVARIANTS
  PointerAfterObjects
  ReceiptHonest
PROPERTY OperationReturns
CHECK_DEADLOCK FALSE
