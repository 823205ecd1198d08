--------------------------- MODULE CurrentSnapshot ---------------------------
(***************************************************************************)
(* What the snapshot store promises a reader that follows the entry file:  *)
(* the entry names a snapshot whose manifest and objects are all there,    *)
(* and only another available snapshot ever replaces it.  How snapshots    *)
(* become available, and when others are removed, is left open.            *)
(***************************************************************************)
CONSTANTS Snaps, NoSnap

VARIABLES
  current,  \* the snapshot the entry file names
  available \* snapshots a reader could read completely

Init == current = NoSnap /\ available = {}

(* One snapshot becomes readable.                                          *)
Complete ==
  /\ \E s \in Snaps \ available : available' = available \cup {s}
  /\ UNCHANGED current

(* A snapshot other than the current one stops being readable.             *)
Retire ==
  /\ \E s \in available \ {current} : available' = available \ {s}
  /\ UNCHANGED current

(* The entry is switched to a snapshot that is readable.                   *)
Activate ==
  /\ \E s \in available \ {current} : current' = s
  /\ UNCHANGED available

Next == Complete \/ Retire \/ Activate

Spec == Init /\ [][Next]_<<current, available>>

==============================================================================
