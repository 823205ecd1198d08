------------------------- MODULE ArtifactPublication -------------------------
(***************************************************************************)
(* publishArtifactRelease and activateArtifactRelease of                   *)
(* @openge/forge-artifact-publish: immutable objects are created and read  *)
(* back by concurrent workers, then the pointer is replaced and read back, *)
(* all within one budget that a time limit or an abort may end.            *)
(*                                                                         *)
(* Operations on one pointer follow one another, as concurrencyControl     *)
(* demands; each works on the same objects and has a pointer of its own.   *)
(* A write that was sent and not answered may still take effect, even      *)
(* during a later operation and although its socket was closed.  Slot 0 is *)
(* the pointer, slot i the object with index i.                            *)
(***************************************************************************)
EXTENDS Naturals, FiniteSets

CONSTANTS
  N,            \* objects of the plan
  Concurrency,  \* upload workers
  MaxOps,       \* bound: operations on the pointer
  Absent, Other, Before  \* what may be at an object's key at first: nothing,
                         \* other bytes or metadata, the planned object

ASSUME PlanAssumption ==
  /\ N \in Nat \ {0} /\ Concurrency \in Nat \ {0} /\ MaxOps \in Nat
  /\ {Absent, Other, Before} \cap Nat = {}
  /\ Absent # Other /\ Absent # Before /\ Other # Before

VARIABLES
  op,        \* number of the operation under way, or of the last one
  kind,      \* "publish" or "activate"
  phase,     \* where run() is
  nextIndex, \* next object a worker takes
  stage,     \* what the worker of each object waits for
  flight,    \* the request of each slot, from run() until it settles
  write,     \* writeState of each receipt
  verify,    \* verificationState of each receipt
  failure,   \* phase of the first failure, or "none"
  stopped,   \* the budget has a reason
  closure,   \* the receipt's closure is "closed"
  store,     \* what is at each object's key; a number is the operation
             \* that created it
  pointer,   \* the operation whose pointer is at the remote, 0 for none
  late,      \* writes nobody waits for that may still take effect
  confirmed  \* no earlier receipt has a pointer write that is "unknown"

budget == <<failure, stopped>>
receipt == <<write, verify>>
remote == <<store, pointer>>
history == <<op, kind, confirmed>>
vars == <<op, kind, phase, nextIndex, stage, flight, write, verify, failure,
          stopped, closure, store, pointer, late, confirmed>>

Objects == 1..N
Slots == 0..N
Ops == 1..MaxOps
Waits == {"prepare", "replace", "verify"}

Init ==
  /\ op = 0 /\ kind = "publish" /\ phase = "idle" /\ nextIndex = 1
  /\ stage = [i \in Objects |-> "todo"]
  /\ flight = [i \in Slots |-> "none"]
  /\ write = [i \in Slots |-> "not-attempted"]
  /\ verify = [i \in Slots |-> "pending"]
  /\ failure = "none" /\ stopped = FALSE /\ closure = FALSE
  /\ store \in [Objects -> {Absent, Other, Before}]
  /\ pointer = 0 /\ late = {} /\ confirmed = TRUE

Good(i) == store[i] \in {Before} \cup Ops
Busy == {i \in Objects : stage[i] \in {"create", "read"}}
Pending == {i \in Slots : flight[i] # "none"}

(* A write on its way, which closing its socket does not take back.        *)
Unanswered(i) == flight[i] = "sent" /\ write[i] = "unknown"
GiveUp(i) ==
  /\ flight' = [flight EXCEPT ![i] = "none"]
  /\ late' = IF Unanswered(i) THEN late \cup {<<op, i>>} ELSE late

(* recordFailure: the first failure stays, and stops the budget.           *)
RecordFailure(at) ==
  /\ failure' = IF failure = "none" THEN at ELSE failure
  /\ stopped' = TRUE

------------------------------------------------------------------------------
(* An operation begins with a transport of its own; invalid input still    *)
(* closes it.                                                              *)
Start ==
  /\ phase \in {"idle", "returned"} /\ op < MaxOps
  /\ op' = op + 1
  /\ kind' \in {"publish", "activate"}
  /\ late' = late \cup {<<op, i>> : i \in {j \in Slots : Unanswered(j)}}
  /\ confirmed' = (confirmed /\ write[0] # "unknown")
  /\ nextIndex' = 1
  /\ stage' = [i \in Objects |-> "todo"]
  /\ write' = [i \in Slots |-> "not-attempted"]
  /\ verify' = [i \in Slots |-> "pending"]
  /\ closure' = FALSE
  /\ \/ /\ phase' = "prepare"
        /\ flight' = [i \in Slots |-> IF i = 0 THEN "queued" ELSE "none"]
        /\ failure' = "none" /\ stopped' = FALSE
     \/ /\ phase' = "closing"
        /\ flight' = [i \in Slots |-> "none"]
        /\ failure' = "validation" /\ stopped' = TRUE
  /\ UNCHANGED remote

(* OperationBudget.run: the request starts in a microtask, unless the      *)
(* budget was stopped before.                                              *)
Send(i) ==
  /\ flight[i] = "queued"
  /\ flight' = [flight EXCEPT ![i] = IF stopped THEN "none" ELSE "sent"]
  /\ UNCHANGED <<history, late, phase, nextIndex, stage, receipt, budget,
                 closure, remote>>

(* A create leaves an object that exists alone; a replace does not.        *)
Effect(k, i) ==
  IF i = 0
    THEN pointer' = k /\ UNCHANGED store
    ELSE /\ store' = [store EXCEPT ![i] = IF @ = Absent THEN k ELSE @]
         /\ UNCHANGED pointer

Land(i) ==
  /\ flight[i] = "sent"
  /\ flight' = [flight EXCEPT ![i] = "landed"]
  /\ IF write[i] = "unknown" THEN Effect(op, i) ELSE UNCHANGED remote
  /\ UNCHANGED <<history, late, phase, nextIndex, stage, receipt, budget,
                 closure>>

(* A request nobody waits for any more settles.                            *)
Settle(i) ==
  /\ flight[i] \in {"sent", "landed"}
  /\ i = 0 => phase \notin Waits
  /\ i # 0 => i \notin Busy
  /\ GiveUp(i)
  /\ UNCHANGED <<history, phase, nextIndex, stage, receipt, budget, closure,
                 remote>>

LateLands ==
  \E w \in late : Effect(w[1], w[2]) /\ late' = late \ {w}
                  /\ UNCHANGED <<op, kind, confirmed, phase, nextIndex, stage,
                                 flight, receipt, budget, closure>>

LateSettles ==
  \E w \in late : late' = late \ {w}
                  /\ UNCHANGED <<op, kind, confirmed, phase, nextIndex, stage,
                                 flight, receipt, budget, closure, remote>>

(* The time limit, and an abort by the caller; the limit no longer counts  *)
(* once the transfers are over.                                            *)
Timeout ==
  /\ phase \in Waits \cup {"objects"} /\ ~stopped
  /\ stopped' = TRUE
  /\ UNCHANGED <<history, late, phase, nextIndex, stage, flight, receipt,
                 failure, closure, remote>>

Abort ==
  /\ phase = "closing" /\ ~stopped
  /\ stopped' = TRUE
  /\ UNCHANGED <<history, late, phase, nextIndex, stage, flight, receipt,
                 failure, closure, remote>>

------------------------------------------------------------------------------
(* The workers.                                                            *)

(* Mutant: a write is recorded when it is answered, not when it is sent.   *)
TakeUnrecorded ==
  /\ phase = "objects" /\ failure = "none"
  /\ nextIndex <= N /\ Cardinality(Busy) < Concurrency
  /\ nextIndex' = nextIndex + 1
  /\ IF stopped
       THEN /\ verify' = [verify EXCEPT ![nextIndex] = "failed"]
            /\ stage' = [stage EXCEPT ![nextIndex] = "end"]
            /\ RecordFailure("objects")
            /\ UNCHANGED flight
       ELSE /\ stage' = [stage EXCEPT ![nextIndex] =
                           IF kind = "publish" THEN "create" ELSE "read"]
            /\ flight' = [flight EXCEPT ![nextIndex] = "queued"]
            /\ UNCHANGED <<verify, budget>>
  /\ UNCHANGED <<history, late, phase, write, closure, remote>>

(* A free worker takes the next object.                                    *)
Take ==
  /\ phase = "objects" /\ failure = "none"
  /\ nextIndex <= N /\ Cardinality(Busy) < Concurrency
  /\ nextIndex' = nextIndex + 1
  /\ IF stopped
       THEN /\ verify' = [verify EXCEPT ![nextIndex] = "failed"]
            /\ stage' = [stage EXCEPT ![nextIndex] = "end"]
            /\ RecordFailure("objects")
            /\ UNCHANGED <<flight, write>>
       ELSE /\ stage' = [stage EXCEPT ![nextIndex] =
                           IF kind = "publish" THEN "create" ELSE "read"]
            /\ write' = [write EXCEPT ![nextIndex] =
                           IF kind = "publish" THEN "unknown" ELSE @]
            /\ flight' = [flight EXCEPT ![nextIndex] = "queued"]
            /\ UNCHANGED <<verify, budget>>
  /\ UNCHANGED <<history, late, phase, closure, remote>>

Created(i) ==
  /\ ~stopped /\ stage[i] = "create" /\ flight[i] = "landed"
  /\ write' = [write EXCEPT ![i] = IF store[i] = op THEN "accepted"
                                                    ELSE "already-exists"]
  /\ stage' = [stage EXCEPT ![i] = "read"]
  /\ flight' = [flight EXCEPT ![i] = "queued"]
  /\ UNCHANGED <<history, late, phase, nextIndex, verify, budget, closure,
                 remote>>

(* verifyRemote: bytes, content type and cache control are the plan's.     *)
Verified(i) ==
  /\ ~stopped /\ stage[i] = "read" /\ flight[i] = "landed" /\ Good(i)
  /\ verify' = [verify EXCEPT ![i] = "succeeded"]
  /\ stage' = [stage EXCEPT ![i] = "end"]
  /\ flight' = [flight EXCEPT ![i] = "none"]
  /\ UNCHANGED <<history, late, phase, nextIndex, write, budget, closure,
                 remote>>

ObjectFails(i) ==
  /\ stage' = [stage EXCEPT ![i] = "end"]
  /\ verify' = [verify EXCEPT ![i] = "failed"]
  /\ RecordFailure("objects")
  /\ UNCHANGED <<history, phase, nextIndex, write, closure, remote>>

(* The transport rejects, or what was read is not what was planned.        *)
Rejected(i) ==
  /\ ~stopped /\ i \in Busy /\ flight[i] \in {"sent", "landed"}
  /\ GiveUp(i)
  /\ ObjectFails(i)

(* Mutant: a worker waits for its request, whatever became of the budget.  *)
AbandonedWhenSettled(i) ==
  stopped /\ i \in Busy /\ flight[i] = "none" /\ ObjectFails(i)
  /\ UNCHANGED <<flight, late>>

(* The budget was stopped: the worker goes on, its request may not.        *)
Abandoned(i) ==
  stopped /\ i \in Busy /\ ObjectFails(i) /\ UNCHANGED <<flight, late>>

------------------------------------------------------------------------------
(* run() itself.                                                           *)

Prepared ==
  /\ ~stopped /\ phase = "prepare" /\ flight[0] = "landed"
  /\ flight' = [flight EXCEPT ![0] = "none"]
  /\ phase' = "objects"
  /\ UNCHANGED <<history, late, nextIndex, stage, receipt, budget, closure,
                 remote>>

(* Mutant: the workers' failures are not looked at.                        *)
ObjectsDoneUnchecked ==
  /\ phase = "objects" /\ Busy = {}
  /\ failure # "none" \/ nextIndex > N
  /\ phase' = "replace"
  /\ write' = [write EXCEPT ![0] = "unknown"]
  /\ flight' = [flight EXCEPT ![0] = "sent"]
  /\ UNCHANGED <<budget, history, late, nextIndex, stage, verify, closure,
                 remote>>

(* Every worker has ended: the pointer comes next, unless the budget was   *)
(* stopped, which every failure does.                                      *)
ObjectsDone ==
  /\ phase = "objects" /\ Busy = {}
  /\ failure # "none" \/ nextIndex > N
  /\ IF stopped
       THEN /\ phase' = "closing"
            /\ RecordFailure("objects")
            /\ UNCHANGED <<flight, write>>
       ELSE /\ phase' = "replace"
            /\ write' = [write EXCEPT ![0] = "unknown"]
            /\ flight' = [flight EXCEPT ![0] = "queued"]
            /\ UNCHANGED budget
  /\ UNCHANGED <<history, late, nextIndex, stage, verify, closure, remote>>

Replaced ==
  /\ ~stopped /\ phase = "replace" /\ flight[0] = "landed"
  /\ write' = [write EXCEPT ![0] = "accepted"]
  /\ flight' = [flight EXCEPT ![0] = "queued"]
  /\ phase' = "verify"
  /\ UNCHANGED <<history, late, nextIndex, stage, verify, budget, closure,
                 remote>>

PointerVerified ==
  /\ ~stopped /\ phase = "verify" /\ flight[0] = "landed" /\ pointer = op
  /\ verify' = [verify EXCEPT ![0] = "succeeded"]
  /\ flight' = [flight EXCEPT ![0] = "none"]
  /\ phase' = "closing"
  /\ UNCHANGED <<history, late, nextIndex, stage, write, budget, closure,
                 remote>>

RunFails ==
  /\ RecordFailure(IF phase = "prepare" THEN "prepare" ELSE "pointer")
  /\ verify' = IF phase = "prepare" THEN verify
                                    ELSE [verify EXCEPT ![0] = "failed"]
  /\ phase' = "closing"
  /\ UNCHANGED <<history, nextIndex, stage, write, closure, remote>>

RunRejected ==
  /\ ~stopped /\ phase \in Waits /\ flight[0] \in {"sent", "landed"}
  /\ GiveUp(0)
  /\ RunFails

RunAbandoned ==
  stopped /\ phase \in Waits /\ RunFails /\ UNCHANGED <<flight, late>>

(* closeTransport gives up at its deadline, whatever is pending: only a    *)
(* transport that says so and no request of ours make a closure.  The      *)
(* receipt then succeeds unless something failed or stopped the budget.    *)
Return ==
  /\ phase = "closing"
  /\ \E says \in BOOLEAN : closure' = (says /\ Pending = {})
  /\ failure' = IF failure = "none" /\ (stopped \/ ~closure')
                  THEN "close" ELSE failure
  /\ phase' = "returned"
  /\ UNCHANGED <<history, late, nextIndex, stage, flight, receipt, stopped,
                 remote>>

Request(i) == Send(i) \/ Land(i) \/ Settle(i)
Work(i) == Created(i) \/ Verified(i) \/ Rejected(i) \/ Abandoned(i)
Main == \/ Prepared \/ ObjectsDone \/ Replaced \/ PointerVerified
        \/ RunRejected \/ RunAbandoned \/ Return

Next ==
  \/ Start \/ Timeout \/ Abort \/ LateLands \/ LateSettles
  \/ \E i \in Slots : Request(i)
  \/ Take \/ \E i \in Objects : Work(i)
  \/ Main

Spec == Init /\ [][Next]_vars

(* The timers run and promises are answered; the transport need not be.    *)
FairSpec ==
  /\ Spec /\ WF_vars(Timeout) /\ WF_vars(Take)
  /\ \A i \in Objects : WF_vars(Abandoned(i))
  /\ WF_vars(RunAbandoned) /\ WF_vars(ObjectsDone) /\ WF_vars(Return)

------------------------------------------------------------------------------
(* The receipt, the requests and the remote keep their types, and no more  *)
(* objects are under way than there are workers.                           *)
TypeOK ==
  /\ op \in 0..MaxOps /\ kind \in {"publish", "activate"}
  /\ phase \in Waits \cup {"idle", "objects", "closing", "returned"}
  /\ nextIndex \in 1..(N + 1)
  /\ stage \in [Objects -> {"todo", "create", "read", "end"}]
  /\ Cardinality(Busy) <= Concurrency
  /\ flight \in [Slots -> {"none", "queued", "sent", "landed"}]
  /\ write \in [Slots -> {"not-attempted", "unknown", "accepted",
                          "already-exists"}]
  /\ verify \in [Slots -> {"pending", "succeeded", "failed"}]
  /\ failure \in {"none", "validation", "prepare", "objects", "pointer",
                  "close"}
  /\ stopped \in BOOLEAN /\ closure \in BOOLEAN /\ confirmed \in BOOLEAN
  /\ store \in [Objects -> {Absent, Other, Before} \cup Ops]
  /\ pointer \in 0..MaxOps
  /\ late \subseteq Ops \X Slots

Succeeded == phase = "returned" /\ failure = "none"

(* The pointer never leads to a release with an object that is missing or  *)
(* not the planned one, even if the pointer's request lands late.          *)
PointerAfterObjects == pointer # 0 => \A i \in Objects : Good(i)

(* A receipt does not understate: what it calls not attempted was left     *)
(* alone, what it calls accepted or existing is there, and an operation    *)
(* that failed before the pointer's turn never touches it. A success is    *)
(* true when it is reported and stays true until the next operation, if no *)
(* earlier receipt left a write of the pointer unknown.                    *)
ReceiptHonest ==
  /\ \A i \in Objects :
       /\ op > 0 /\ store[i] = op => write[i] \in {"unknown", "accepted"}
       /\ write[i] = "accepted" => store[i] = op
       /\ write[i] = "already-exists" => store[i] \notin {Absent, op}
       /\ verify[i] = "succeeded" => Good(i)
  /\ pointer = op /\ op > 0 => write[0] \in {"unknown", "accepted"}
  /\ failure \in {"validation", "prepare", "objects"}
       => write[0] = "not-attempted"
  /\ Succeeded =>
       /\ closure /\ \A i \in Slots : verify[i] = "succeeded"
       /\ confirmed => pointer = op

(* Whatever the transport does or fails to do, the operation returns.      *)
OperationReturns == (phase # "idle") ~> (phase = "returned")
==============================================================================
