--------------------------- MODULE MCSnapshotLock ---------------------------
(* Four calls made by three processes, two of them in the same one.         *)
EXTENDS SnapshotLock, TLC

CONSTANTS c1, c2, c3, c4, A, B, C
MCCallers == {c1, c2, c3, c4}
MCPids == {A, B, C}
MCPidOf == c1 :> A @@ c2 :> A @@ c3 :> B @@ c4 :> C

==============================================================================
