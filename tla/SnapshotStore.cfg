SPECIFICATION Spec
CONSTANTS
  Procs = {p1, p2}
  Snaps = {1, 2}
  Objects = {1, 2}
  ObjectsOf <- MCObjectsOf2
  PinIds = {report}
  NoSnap = NoSnap
  Free = Free
  Dead = Dead
  KeepCounts = {1}
  Grace = 1
  MaxNow = 1
  MaxFaults = 1
  Width <- MCWidth
  Newline = "nl"
  Return = "cr"
  Null = "nul"
  Mark = "mark"
  HeaderBytes = 2
  PrefixBytes = 2
  FenceBytes = 1
  Overhead = 20
  TreeOf <- MCTreeOf
  StorePack <- MCStorePack
  StoreLimits <- MCStoreLimits
  ObjectPathOf <- MCObjectPathOf
  Samples <- MCSamples
  PackOptions <- MCPackOptions
  ReadLimits <- MCReadLimits
INVARIANTS
  CurrentReadable
  AbandonedOnlyByFaults
  AckedPinsHold
  LockHeldByWorker
  PackersAgree
  VerifiedReads
  SnapshotsUnpack
PROPERTIES
  OnlyRecordedOrphansGo
  ReaderSpec
