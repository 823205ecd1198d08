----------------------------- MODULE ScopePromise -----------------------------
(***************************************************************************)
(* What an owned process scope promises the one who started it.  The       *)
(* command runs only between its authorization and the completion; the     *)
(* completion says closed only of a scope that was never told to stop and  *)
(* whose processes are all gone, and says empty only when they are.        *)
(***************************************************************************)
VARIABLES
  authorized, \* the start of the command was authorized
  stopped,    \* terminate was called before the completion
  command,    \* its processes: "none" yet, "alive", or all "gone"
  completion  \* "none", or what was reported of them

(* closed is always reported together with empty.                          *)
Reports == {"closed", "empty", "unknown"}

Init ==
  /\ ~authorized /\ ~stopped
  /\ command = "none"
  /\ completion = "none"

Authorize ==
  /\ ~stopped /\ completion = "none"
  /\ authorized' = TRUE
  /\ UNCHANGED <<stopped, command, completion>>

(* The start may still be on its way when the scope is told to stop.       *)
Start ==
  /\ authorized /\ command = "none" /\ completion = "none"
  /\ command' \in {"alive", "gone"}
  /\ UNCHANGED <<authorized, stopped, completion>>

End ==
  /\ command = "alive"
  /\ command' = "gone"
  /\ UNCHANGED <<authorized, stopped, completion>>

Stop ==
  /\ completion = "none"
  /\ stopped' = TRUE
  /\ UNCHANGED <<authorized, command, completion>>

Complete(r) ==
  /\ completion = "none"
  /\ r # "unknown" => command # "alive"
  /\ r = "closed" => authorized /\ ~stopped /\ command = "gone"
  /\ completion' = r
  /\ UNCHANGED <<authorized, stopped, command>>

Next ==
  \/ Authorize \/ Start \/ End \/ Stop
  \/ \E r \in Reports : Complete(r)

Spec == Init /\ [][Next]_<<authorized, stopped, command, completion>>

==============================================================================
