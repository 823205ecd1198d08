SPECIFICATION Spec
CONSTANTS
  Size = 3
  PathOf <- MCPathOf
  BackupPath <- MCBackupPath
INVARIANTS
  ResultHonest
  OriginalsKept
PROPERTY ForeignSurvives
CHECK_DEADLOCK FALSE
