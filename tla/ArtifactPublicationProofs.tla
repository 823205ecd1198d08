---------------------- MODULE ArtifactPublicationProofs ----------------------
(***************************************************************************)
(* Proofs about artifact publication, for any number of objects, workers   *)
(* and operations: the pointer follows the objects, and receipts are true. *)
(***************************************************************************)
EXTENDS ArtifactPublication, TLAPS

(* Types, with the operations that a write can be of.                      *)
Types ==
  /\ op \in 0..MaxOps
  /\ phase \in Waits \cup {"idle", "objects", "closing", "returned"}
  /\ nextIndex \in 1..(N + 1)
  /\ stage \in [Objects -> {"todo", "create", "read", "end"}]
  /\ flight \in [Slots -> {"none", "queued", "sent", "landed"}]
  /\ write \in [Slots -> {"not-attempted", "unknown", "accepted",
                          "already-exists"}]
  /\ verify \in [Slots -> {"pending", "succeeded", "failed"}]
  /\ failure \in {"none", "validation", "prepare", "objects", "pointer",
                  "close"}
  /\ stopped \in BOOLEAN /\ closure \in BOOLEAN /\ confirmed \in BOOLEAN
  /\ store \in [Objects -> {Absent, Other, Before} \cup 1..op]
  /\ pointer \in 0..op
  /\ late \subseteq (Ops \cap 1..op) \X Slots

AllGood == \A i \in Objects : Good(i)

(* Where run() is, what that says of the budget and the receipt.           *)
PhaseInv ==
  /\ phase = "idle" <=> op = 0
  /\ phase = "idle" => \A i \in Slots : flight[i] = "none"
  /\ phase # "returned" /\ failure # "none" => stopped
  /\ phase \in Waits => failure = "none"
  /\ phase \in {"idle", "prepare", "objects"} => write[0] = "not-attempted"
  /\ phase \in {"replace", "verify"} => write[0] # "not-attempted"
  /\ Busy # {} => phase = "objects"
  /\ failure \in {"validation", "prepare", "objects"}
       => write[0] = "not-attempted"

(* What a worker that ended, or waits, knows of its object.                *)
WorkerInv ==
  \A i \in Objects :
    /\ i < nextIndex /\ phase # "idle" => stage[i] # "todo"
    /\ stage[i] # "todo" => i < nextIndex
    /\ stage[i] = "todo" => write[i] = "not-attempted"
    /\ stage[i] = "end" /\ ~stopped => verify[i] = "succeeded"
    /\ verify[i] = "succeeded" => Good(i)
    /\ stage[i] = "create" => write[i] = "unknown"
    /\ stage[i] = "create" /\ flight[i] = "landed" => store[i] # Absent
    /\ store[i] = op /\ op > 0 => write[i] \in {"unknown", "accepted"}
    /\ write[i] = "accepted" => store[i] = op
    /\ write[i] = "already-exists" => store[i] \notin {Absent, op}

(* A request for the pointer is made, or may still land, only when every   *)
(* object is good; then it stays so.                                       *)
PointerInv ==
  /\ pointer # 0 => AllGood
  /\ write[0] # "not-attempted" => AllGood
  /\ \A w \in late : w[2] = 0 => AllGood
  /\ pointer = op /\ op > 0 => write[0] \in {"unknown", "accepted"}

(* A write of this operation that nobody waits for stays unknown: what     *)
(* waited for it has ended.                                                *)
LateInv ==
  \A w \in late : w[1] = op =>
    /\ write[w[2]] = "unknown"
    /\ w[2] = 0 => phase \in {"closing", "returned"}
    /\ w[2] # 0 => stage[w[2]] = "end" /\ w[2] < nextIndex

(* What a success rests on: when every earlier pointer write is known, none *)
(* of them is late.                                                        *)
ClosureInv ==
  /\ closure => phase = "returned" /\ \A i \in Slots : flight[i] = "none"
  /\ confirmed => \A w \in late : w[2] = 0 => w[1] = op
  /\ phase = "closing" /\ ~stopped /\ failure = "none"
       => \A i \in Slots : verify[i] = "succeeded"
  /\ phase \in {"replace", "verify"} /\ ~stopped
       => \A i \in Objects : verify[i] = "succeeded"
  /\ verify[0] = "succeeded" /\ confirmed => pointer = op
  /\ Succeeded => closure /\ \A i \in Slots : verify[i] = "succeeded"

IInv == Types /\ PhaseInv /\ WorkerInv /\ PointerInv /\ LateInv /\ ClosureInv

USE PlanAssumption DEF Objects, Slots, Ops, Waits, Busy, Pending, history,
                       receipt, budget, remote, Unanswered, GiveUp

(* What is good stays good, for any write that lands.                      *)
LEMMA EffectKeepsGood ==
  ASSUME Types, NEW k \in 1..op, NEW i \in Slots, Effect(k, i)
  PROVE  /\ \A j \in Objects : Good(j) => store'[j] = store[j]
         /\ \A j \in Objects : store[j] # Absent => store'[j] = store[j]
         /\ \A j \in Objects : store[j] = Absent =>
              store'[j] = IF i = j THEN k ELSE Absent
         /\ pointer' = IF i = 0 THEN k ELSE pointer
         /\ store' \in [Objects -> {Absent, Other, Before} \cup 1..op]
         /\ pointer' \in 0..op
  BY DEF Types, Effect, Good

(* What is given up is a write of the operation under way.                 *)
LEMMA GivenUpIsOwn ==
  ASSUME Types, PhaseInv, NEW i \in Slots, GiveUp(i)
  PROVE  /\ late' \subseteq (Ops \cap 1..op) \X Slots
         /\ \A w \in late' : w \in late \/ (w = <<op, i>> /\ Unanswered(i))
         /\ flight' \in [Slots -> {"none", "queued", "sent", "landed"}]
<1>1. op \in Nat /\ (Unanswered(i) => op \in Ops \cap 1..op)
  BY DEF Types, PhaseInv
<1>2. late \subseteq (Ops \cap 1..op) \X Slots
  BY DEF Types
<1>3. flight \in [Slots -> {"none", "queued", "sent", "landed"}]
  BY DEF Types
<1> QED BY <1>1, <1>2, <1>3

LEMMA InitHolds == Init => IInv
<1> SUFFICES ASSUME Init PROVE IInv
  OBVIOUS
<1>1. store \in [Objects -> {Absent, Other, Before} \cup 1..op]
  BY DEF Init
<1>2. nextIndex \in 1..(N + 1) /\ op \in 0..MaxOps
  BY DEF Init
<1>3. Types
  <2>1. pointer \in 0..op /\ late \subseteq (Ops \cap 1..op) \X Slots
    BY DEF Init
  <2>2. /\ stage \in [Objects -> {"todo", "create", "read", "end"}]
        /\ flight \in [Slots -> {"none", "queued", "sent", "landed"}]
        /\ write \in [Slots -> {"not-attempted", "unknown", "accepted",
                                "already-exists"}]
        /\ verify \in [Slots -> {"pending", "succeeded", "failed"}]
    BY DEF Init
  <2> QED BY <1>1, <1>2, <2>1, <2>2 DEF Init, Types
<1>4. PhaseInv
  BY DEF Init, PhaseInv
<1>5. WorkerInv
  BY DEF Init, WorkerInv, Good
<1>6. PointerInv
  BY DEF Init, PointerInv
<1>7. LateInv
  BY DEF Init, LateInv
<1>8. ClosureInv
  BY DEF Init, ClosureInv, Succeeded
<1> QED BY <1>3, <1>4, <1>5, <1>6, <1>7, <1>8 DEF IInv

LEMMA StartStep ==
  ASSUME IInv, Start PROVE IInv'
<1> USE DEF Start
<1>1. Types'
  <2>1. op \in Nat /\ op' = op + 1 /\ op' \in 0..MaxOps
    BY DEF IInv, Types
  <2>2. 1..op \subseteq 1..op' /\ pointer' \in 0..op'
    BY <2>1 DEF IInv, Types
  <2>3. store' \in [Objects -> {Absent, Other, Before} \cup 1..op']
    BY <2>2 DEF IInv, Types
  <2>4. late \subseteq (Ops \cap 1..op') \X Slots
    BY <2>1 DEF IInv, Types
  <2>5. \A i \in Slots : flight[i] = "sent" => op \in Ops \cap 1..op'
    BY <2>1 DEF IInv, Types, PhaseInv
  <2>6. late' \subseteq (Ops \cap 1..op') \X Slots
    BY <2>4, <2>5
  <2>7. /\ nextIndex' \in 1..(N + 1) /\ confirmed' \in BOOLEAN
        /\ stage' \in [Objects -> {"todo", "create", "read", "end"}]
        /\ flight' \in [Slots -> {"none", "queued", "sent", "landed"}]
    BY DEF IInv, Types
  <2> QED BY <2>1, <2>2, <2>3, <2>6, <2>7 DEF Types
<1>2. PhaseInv'
  BY DEF IInv, Types, PhaseInv
<1>3. WorkerInv'
  <2>1. op' \in Nat /\ op' \notin 1..op
    BY DEF IInv, Types
  <2>2. \A i \in Objects : store[i] \in {Absent, Other, Before} \cup 1..op
    BY DEF IInv, Types
  <2>3. \A i \in Objects : store'[i] # op'
    BY <2>1, <2>2
  <2> QED BY <2>3 DEF IInv, Types, WorkerInv, Good
<1>4. PointerInv'
  BY DEF IInv, Types, PhaseInv, WorkerInv, PointerInv, AllGood, Good
<1>5. LateInv'
  BY DEF IInv, Types, PhaseInv, WorkerInv, LateInv
<1>0. confirmed' => \A w \in late' : w[2] # 0
  <2>1. \A w \in late : w[2] = 0 /\ w[1] = op => write[0] = "unknown"
    <3> SUFFICES ASSUME NEW w \in late, w[2] = 0, w[1] = op
                 PROVE  write[w[2]] = "unknown"
      OBVIOUS
    <3> QED BY DEF IInv, LateInv
  <2>2. confirmed' => /\ write[0] # "unknown"
                      /\ \A w \in late : w[2] = 0 => w[1] = op
    BY DEF IInv, ClosureInv, Types
  <2> QED BY <2>1, <2>2
<1>6. ClosureInv'
  BY <1>0 DEF IInv, Types, PhaseInv, WorkerInv, PointerInv, LateInv,
     ClosureInv, Succeeded
<1> QED BY <1>1, <1>2, <1>3, <1>4, <1>5, <1>6 DEF IInv

LEMMA SendStep ==
  ASSUME IInv, NEW i \in Slots, Send(i) PROVE IInv'
<1> USE DEF Send
<1>1. Types'
  BY DEF IInv, Types
<1>2. PhaseInv'
  BY DEF IInv, Types, PhaseInv
<1>3. WorkerInv'
  BY DEF IInv, Types, PhaseInv, WorkerInv, Good
<1>4. PointerInv'
  BY DEF IInv, Types, PhaseInv, WorkerInv, PointerInv, AllGood, Good
<1>5. LateInv'
  BY DEF IInv, Types, PhaseInv, WorkerInv, LateInv
<1>6. ClosureInv'
  BY DEF IInv, Types, PhaseInv, WorkerInv, PointerInv, LateInv,
     ClosureInv, Succeeded
<1> QED BY <1>1, <1>2, <1>3, <1>4, <1>5, <1>6 DEF IInv

LEMMA SettleStep ==
  ASSUME IInv, NEW i \in Slots, Settle(i) PROVE IInv'
<1> USE DEF Settle
<1>0. /\ late' \subseteq (Ops \cap 1..op) \X Slots
      /\ \A w \in late' : w \in late \/ (w = <<op, i>> /\ Unanswered(i))
      /\ flight' \in [Slots -> {"none", "queued", "sent", "landed"}]
  <2>1. Types /\ PhaseInv /\ i \in Slots /\ GiveUp(i)
    BY DEF IInv
  <2> QED BY <2>1, GivenUpIsOwn
<1>1. Types'
  BY <1>0 DEF IInv, Types
<1>2. PhaseInv'
  BY DEF IInv, Types, PhaseInv
<1>3. WorkerInv'
  BY DEF IInv, Types, PhaseInv, WorkerInv, Good
<1>4. PointerInv'
  BY <1>0 DEF IInv, Types, PhaseInv, WorkerInv, PointerInv, AllGood, Good
<1>5. LateInv'
  <2>1. Unanswered(i) => IF i = 0 THEN phase \in {"closing", "returned"}
                         ELSE stage[i] = "end" /\ i < nextIndex
    BY DEF IInv, Types, PhaseInv, WorkerInv
  <2> QED BY <1>0, <2>1 DEF IInv, LateInv
<1>6. ClosureInv'
  BY <1>0 DEF IInv, Types, PhaseInv, WorkerInv, PointerInv, LateInv,
     ClosureInv, Succeeded
<1> QED BY <1>1, <1>2, <1>3, <1>4, <1>5, <1>6 DEF IInv

LEMMA LateSettlesStep ==
  ASSUME IInv, LateSettles PROVE IInv'
<1> USE DEF LateSettles
<1>1. Types'
  BY DEF IInv, Types
<1>2. PhaseInv'
  BY DEF IInv, Types, PhaseInv
<1>3. WorkerInv'
  BY DEF IInv, Types, PhaseInv, WorkerInv, Good
<1>4. PointerInv'
  BY DEF IInv, Types, PhaseInv, WorkerInv, PointerInv, AllGood, Good
<1>5. LateInv'
  BY DEF IInv, Types, PhaseInv, WorkerInv, LateInv
<1>6. ClosureInv'
  BY DEF IInv, Types, PhaseInv, WorkerInv, PointerInv, LateInv,
     ClosureInv, Succeeded
<1> QED BY <1>1, <1>2, <1>3, <1>4, <1>5, <1>6 DEF IInv

LEMMA TimeoutStep ==
  ASSUME IInv, Timeout PROVE IInv'
<1> USE DEF Timeout
<1>1. Types'
  BY DEF IInv, Types
<1>2. PhaseInv'
  BY DEF IInv, Types, PhaseInv
<1>3. WorkerInv'
  BY DEF IInv, Types, PhaseInv, WorkerInv, Good
<1>4. PointerInv'
  BY DEF IInv, Types, PhaseInv, WorkerInv, PointerInv, AllGood, Good
<1>5. LateInv'
  BY DEF IInv, Types, PhaseInv, WorkerInv, LateInv
<1>6. ClosureInv'
  BY DEF IInv, Types, PhaseInv, WorkerInv, PointerInv, LateInv,
     ClosureInv, Succeeded
<1> QED BY <1>1, <1>2, <1>3, <1>4, <1>5, <1>6 DEF IInv

LEMMA AbortStep ==
  ASSUME IInv, Abort PROVE IInv'
<1> USE DEF Abort
<1>1. Types'
  BY DEF IInv, Types
<1>2. PhaseInv'
  BY DEF IInv, Types, PhaseInv
<1>3. WorkerInv'
  BY DEF IInv, Types, PhaseInv, WorkerInv, Good
<1>4. PointerInv'
  BY DEF IInv, Types, PhaseInv, WorkerInv, PointerInv, AllGood, Good
<1>5. LateInv'
  BY DEF IInv, Types, PhaseInv, WorkerInv, LateInv
<1>6. ClosureInv'
  BY DEF IInv, Types, PhaseInv, WorkerInv, PointerInv, LateInv,
     ClosureInv, Succeeded
<1> QED BY <1>1, <1>2, <1>3, <1>4, <1>5, <1>6 DEF IInv

LEMMA TakeStep ==
  ASSUME IInv, Take PROVE IInv'
<1> USE DEF Take, RecordFailure
<1>1. Types'
  <2>1. nextIndex \in Objects /\ nextIndex' \in 1..(N + 1)
    BY DEF IInv, Types
  <2>2. CASE stopped
    BY <2>1, <2>2 DEF IInv, Types
  <2>3. CASE ~stopped
    <3>1. stage' \in [Objects -> {"todo", "create", "read", "end"}]
      BY <2>1, <2>3 DEF IInv, Types
    <3>2. write' \in [Slots -> {"not-attempted", "unknown", "accepted",
                               "already-exists"}]
      BY <2>1, <2>3 DEF IInv, Types
    <3>3. flight' \in [Slots -> {"none", "queued", "sent", "landed"}]
      BY <2>1, <2>3 DEF IInv, Types
    <3> QED BY <2>1, <2>3, <3>1, <3>2, <3>3 DEF IInv, Types
  <2> QED BY <2>2, <2>3
<1>2. PhaseInv'
  BY DEF IInv, Types, PhaseInv
<1>3. WorkerInv'
  BY DEF IInv, Types, PhaseInv, WorkerInv, Good
<1>4. PointerInv'
  BY DEF IInv, Types, PhaseInv, WorkerInv, PointerInv, AllGood, Good
<1>5. LateInv'
  BY DEF IInv, Types, PhaseInv, WorkerInv, LateInv
<1>6. ClosureInv'
  BY DEF IInv, Types, PhaseInv, WorkerInv, PointerInv, LateInv,
     ClosureInv, Succeeded
<1> QED BY <1>1, <1>2, <1>3, <1>4, <1>5, <1>6 DEF IInv

LEMMA CreatedStep ==
  ASSUME IInv, NEW i \in Objects, Created(i) PROVE IInv'
<1> USE DEF Created
<1>1. Types'
  BY DEF IInv, Types
<1>2. PhaseInv'
  BY DEF IInv, Types, PhaseInv
<1>3. WorkerInv'
  <2>1. store[i] # Absent /\ op > 0 /\ i < nextIndex
    BY DEF IInv, Types, PhaseInv, WorkerInv
  <2>2. /\ stage'[i] = "read" /\ flight'[i] = "queued"
        /\ write'[i] = IF store[i] = op THEN "accepted" ELSE "already-exists"
        /\ verify' = verify /\ store' = store /\ op' = op
        /\ \A j \in Objects \ {i} : /\ stage'[j] = stage[j]
                                   /\ flight'[j] = flight[j]
                                   /\ write'[j] = write[j]
    BY DEF IInv, Types
  <2>3. verify[i] = "succeeded" => Good(i)
    BY DEF IInv, WorkerInv
  <2> QED BY <2>1, <2>2, <2>3 DEF IInv, WorkerInv, Good
<1>4. PointerInv'
  BY DEF IInv, Types, PhaseInv, WorkerInv, PointerInv, AllGood, Good
<1>5. LateInv'
  BY DEF IInv, Types, PhaseInv, WorkerInv, LateInv
<1>6. ClosureInv'
  BY DEF IInv, Types, PhaseInv, WorkerInv, PointerInv, LateInv,
     ClosureInv, Succeeded
<1> QED BY <1>1, <1>2, <1>3, <1>4, <1>5, <1>6 DEF IInv

LEMMA VerifiedStep ==
  ASSUME IInv, NEW i \in Objects, Verified(i) PROVE IInv'
<1> USE DEF Verified
<1>1. Types'
  BY DEF IInv, Types
<1>2. PhaseInv'
  BY DEF IInv, Types, PhaseInv
<1>3. WorkerInv'
  BY DEF IInv, Types, PhaseInv, WorkerInv, Good
<1>4. PointerInv'
  BY DEF IInv, Types, PhaseInv, WorkerInv, PointerInv, AllGood, Good
<1>5. LateInv'
  BY DEF IInv, Types, PhaseInv, WorkerInv, LateInv
<1>6. ClosureInv'
  BY DEF IInv, Types, PhaseInv, WorkerInv, PointerInv, LateInv,
     ClosureInv, Succeeded
<1> QED BY <1>1, <1>2, <1>3, <1>4, <1>5, <1>6 DEF IInv

LEMMA RejectedStep ==
  ASSUME IInv, NEW i \in Objects, Rejected(i) PROVE IInv'
<1> USE DEF Rejected, ObjectFails, RecordFailure
<1>0. /\ late' \subseteq (Ops \cap 1..op) \X Slots
      /\ \A w \in late' : w \in late \/ (w = <<op, i>> /\ Unanswered(i))
      /\ flight' \in [Slots -> {"none", "queued", "sent", "landed"}]
  <2>1. Types /\ PhaseInv /\ i \in Slots /\ GiveUp(i)
    BY DEF IInv
  <2> QED BY <2>1, GivenUpIsOwn
<1>1. Types'
  BY <1>0 DEF IInv, Types
<1>2. PhaseInv'
  BY DEF IInv, Types, PhaseInv
<1>3. WorkerInv'
  BY DEF IInv, Types, PhaseInv, WorkerInv, Good
<1>4. PointerInv'
  BY <1>0 DEF IInv, Types, PhaseInv, WorkerInv, PointerInv, AllGood, Good
<1>5. LateInv'
  BY <1>0 DEF IInv, Types, PhaseInv, WorkerInv, LateInv
<1>6. ClosureInv'
  BY <1>0 DEF IInv, Types, PhaseInv, WorkerInv, PointerInv, LateInv,
     ClosureInv, Succeeded
<1> QED BY <1>1, <1>2, <1>3, <1>4, <1>5, <1>6 DEF IInv

LEMMA AbandonedStep ==
  ASSUME IInv, NEW i \in Objects, Abandoned(i) PROVE IInv'
<1> USE DEF Abandoned, ObjectFails, RecordFailure
<1>1. Types'
  BY DEF IInv, Types
<1>2. PhaseInv'
  BY DEF IInv, Types, PhaseInv
<1>3. WorkerInv'
  BY DEF IInv, Types, PhaseInv, WorkerInv, Good
<1>4. PointerInv'
  BY DEF IInv, Types, PhaseInv, WorkerInv, PointerInv, AllGood, Good
<1>5. LateInv'
  BY DEF IInv, Types, PhaseInv, WorkerInv, LateInv
<1>6. ClosureInv'
  BY DEF IInv, Types, PhaseInv, WorkerInv, PointerInv, LateInv,
     ClosureInv, Succeeded
<1> QED BY <1>1, <1>2, <1>3, <1>4, <1>5, <1>6 DEF IInv

LEMMA PreparedStep ==
  ASSUME IInv, Prepared PROVE IInv'
<1> USE DEF Prepared
<1>1. Types'
  BY DEF IInv, Types
<1>2. PhaseInv'
  BY DEF IInv, Types, PhaseInv
<1>3. WorkerInv'
  BY DEF IInv, Types, PhaseInv, WorkerInv, Good
<1>4. PointerInv'
  BY DEF IInv, Types, PhaseInv, WorkerInv, PointerInv, AllGood, Good
<1>5. LateInv'
  BY DEF IInv, Types, PhaseInv, WorkerInv, LateInv
<1>6. ClosureInv'
  BY DEF IInv, Types, PhaseInv, WorkerInv, PointerInv, LateInv,
     ClosureInv, Succeeded
<1> QED BY <1>1, <1>2, <1>3, <1>4, <1>5, <1>6 DEF IInv

LEMMA ObjectsDoneStep ==
  ASSUME IInv, ObjectsDone PROVE IInv'
<1> USE DEF ObjectsDone, RecordFailure
<1>1. Types'
  BY DEF IInv, Types
<1>2. PhaseInv'
  BY DEF IInv, Types, PhaseInv
<1>3. WorkerInv'
  BY DEF IInv, Types, PhaseInv, WorkerInv, Good
<1>4. ~stopped => \A i \in Objects : verify[i] = "succeeded" /\ Good(i)
  <2> SUFFICES ASSUME ~stopped, NEW i \in Objects
               PROVE  verify[i] = "succeeded" /\ Good(i)
    OBVIOUS
  <2>1. i < nextIndex /\ phase = "objects"
    BY DEF IInv, Types, PhaseInv
  <2>2. stage[i] # "todo" /\ stage[i] \in {"todo", "create", "read", "end"}
    BY <2>1 DEF IInv, Types, WorkerInv
  <2>3. stage[i] = "end"
    BY <2>2
  <2> QED BY <2>3 DEF IInv, WorkerInv
<1>5. PointerInv'
  BY <1>4 DEF IInv, Types, PhaseInv, PointerInv, AllGood, Good
<1>6. LateInv'
  BY DEF IInv, Types, PhaseInv, WorkerInv, LateInv
<1>7. ClosureInv'
  BY <1>4 DEF IInv, Types, PhaseInv, ClosureInv, Succeeded
<1> QED BY <1>1, <1>2, <1>3, <1>5, <1>6, <1>7 DEF IInv

LEMMA ReplacedStep ==
  ASSUME IInv, Replaced PROVE IInv'
<1> USE DEF Replaced
<1>1. Types'
  BY DEF IInv, Types
<1>2. PhaseInv'
  BY DEF IInv, Types, PhaseInv
<1>3. WorkerInv'
  BY DEF IInv, Types, PhaseInv, WorkerInv, Good
<1>4. PointerInv'
  BY DEF IInv, Types, PhaseInv, WorkerInv, PointerInv, AllGood, Good
<1>5. LateInv'
  BY DEF IInv, Types, PhaseInv, WorkerInv, LateInv
<1>6. ClosureInv'
  BY DEF IInv, Types, PhaseInv, WorkerInv, PointerInv, LateInv,
     ClosureInv, Succeeded
<1> QED BY <1>1, <1>2, <1>3, <1>4, <1>5, <1>6 DEF IInv

LEMMA PointerVerifiedStep ==
  ASSUME IInv, PointerVerified PROVE IInv'
<1> USE DEF PointerVerified
<1>1. Types'
  BY DEF IInv, Types
<1>2. PhaseInv'
  BY DEF IInv, Types, PhaseInv
<1>3. WorkerInv'
  BY DEF IInv, Types, PhaseInv, WorkerInv, Good
<1>4. PointerInv'
  BY DEF IInv, Types, PhaseInv, WorkerInv, PointerInv, AllGood, Good
<1>5. LateInv'
  BY DEF IInv, Types, PhaseInv, WorkerInv, LateInv
<1>6. ClosureInv'
  BY DEF IInv, Types, PhaseInv, WorkerInv, PointerInv, LateInv,
     ClosureInv, Succeeded
<1> QED BY <1>1, <1>2, <1>3, <1>4, <1>5, <1>6 DEF IInv

LEMMA RunRejectedStep ==
  ASSUME IInv, RunRejected PROVE IInv'
<1> USE DEF RunRejected, RunFails, RecordFailure
<1>0. /\ late' \subseteq (Ops \cap 1..op) \X Slots
      /\ \A w \in late' : w \in late \/ (w = <<op, 0>> /\ Unanswered(0))
      /\ flight' \in [Slots -> {"none", "queued", "sent", "landed"}]
  <2>1. Types /\ PhaseInv /\ 0 \in Slots /\ GiveUp(0)
    BY DEF IInv
  <2> QED BY <2>1, GivenUpIsOwn
<1>1. Types'
  BY <1>0 DEF IInv, Types
<1>2. PhaseInv'
  BY DEF IInv, Types, PhaseInv
<1>3. WorkerInv'
  BY DEF IInv, Types, PhaseInv, WorkerInv, Good
<1>4. PointerInv'
  BY <1>0 DEF IInv, Types, PhaseInv, WorkerInv, PointerInv, AllGood, Good
<1>5. LateInv'
  BY <1>0 DEF IInv, Types, PhaseInv, WorkerInv, LateInv
<1>6. ClosureInv'
  BY <1>0 DEF IInv, Types, PhaseInv, WorkerInv, PointerInv, LateInv,
     ClosureInv, Succeeded
<1> QED BY <1>1, <1>2, <1>3, <1>4, <1>5, <1>6 DEF IInv

LEMMA RunAbandonedStep ==
  ASSUME IInv, RunAbandoned PROVE IInv'
<1> USE DEF RunAbandoned, RunFails, RecordFailure
<1>1. Types'
  BY DEF IInv, Types
<1>2. PhaseInv'
  BY DEF IInv, Types, PhaseInv
<1>3. WorkerInv'
  <2>1. Types /\ PhaseInv /\ WorkerInv
    BY DEF IInv
  <2>2. \A i \in Objects : verify'[i] = verify[i]
    BY <2>1, PlanAssumption DEF Types
  <2>3. \A i \in Objects : Good(i)' <=> Good(i)
    BY DEF Good
  <2>4. stopped'
    OBVIOUS
  <2>5. /\ nextIndex' = nextIndex /\ stage' = stage /\ write' = write
        /\ flight' = flight /\ store' = store /\ op' = op
        /\ phase # "idle" /\ phase' # "idle"
    BY <2>1 DEF PhaseInv
  <2> QED BY <2>1, <2>2, <2>3, <2>4, <2>5 DEF WorkerInv
<1>4. PointerInv'
  BY DEF IInv, Types, PhaseInv, WorkerInv, PointerInv, AllGood, Good
<1>5. LateInv'
  BY DEF IInv, Types, PhaseInv, WorkerInv, LateInv
<1>6. ClosureInv'
  BY DEF IInv, Types, PhaseInv, WorkerInv, PointerInv, LateInv,
     ClosureInv, Succeeded
<1> QED BY <1>1, <1>2, <1>3, <1>4, <1>5, <1>6 DEF IInv

LEMMA ReturnStep ==
  ASSUME IInv, Return PROVE IInv'
<1> USE DEF Return
<1>1. Types'
  BY DEF IInv, Types
<1>2. PhaseInv'
  BY DEF IInv, Types, PhaseInv
<1>3. WorkerInv'
  BY DEF IInv, Types, PhaseInv, WorkerInv, Good
<1>4. PointerInv'
  BY DEF IInv, Types, PhaseInv, WorkerInv, PointerInv, AllGood, Good
<1>5. LateInv'
  BY DEF IInv, Types, PhaseInv, WorkerInv, LateInv
<1>6. ClosureInv'
  BY DEF IInv, Types, PhaseInv, WorkerInv, PointerInv, LateInv,
     ClosureInv, Succeeded
<1> QED BY <1>1, <1>2, <1>3, <1>4, <1>5, <1>6 DEF IInv

LEMMA LandStep == ASSUME IInv, NEW i \in Slots, Land(i) PROVE IInv'
<1> USE DEF Land
<1>1. CASE write[i] # "unknown"
  <2>1. Types'
    BY <1>1 DEF IInv, Types
  <2>2. PhaseInv'
    BY <1>1 DEF IInv, Types, PhaseInv
  <2>3. WorkerInv'
    BY <1>1 DEF IInv, Types, PhaseInv, WorkerInv, Good
  <2>4. PointerInv'
    BY <1>1 DEF IInv, Types, PhaseInv, WorkerInv, PointerInv, AllGood, Good
  <2>5. LateInv'
    BY <1>1 DEF IInv, LateInv
  <2>6. ClosureInv'
    BY <1>1 DEF IInv, Types, PhaseInv, ClosureInv, Succeeded
  <2> QED BY <2>1, <2>2, <2>3, <2>4, <2>5, <2>6 DEF IInv
<1>2. CASE write[i] = "unknown"
  <2>1. op \in 1..op /\ op # Absent /\ Effect(op, i)
    <3>1. op \in Nat /\ op # 0
      BY DEF IInv, Types, PhaseInv
    <3> QED BY <1>2, <3>1
  <2>2. Types'
    BY <2>1, EffectKeepsGood DEF IInv, Types
  <2>3. PhaseInv'
    BY DEF IInv, Types, PhaseInv
  <2>4. \A j \in Objects : Good(j) => Good(j)'
    BY <2>1, EffectKeepsGood DEF IInv, Good
  <2>5. WorkerInv'
    BY <1>2, <2>1, <2>4, EffectKeepsGood DEF IInv, Types, PhaseInv, WorkerInv
  <2>6. PointerInv'
    BY <1>2, <2>1, <2>4, EffectKeepsGood DEF IInv, Types, PointerInv, AllGood
  <2>7. LateInv'
    BY DEF IInv, LateInv
  <2>8. ClosureInv'
    BY <1>2, <2>1, EffectKeepsGood DEF IInv, Types, PhaseInv, ClosureInv, Succeeded
  <2> QED BY <2>2, <2>3, <2>5, <2>6, <2>7, <2>8 DEF IInv
<1> QED BY <1>1, <1>2

(* A late write of this operation is one it does not know the fate of; one *)
(* of the pointer is of this operation if every earlier receipt knows.     *)
LEMMA LateLandsStep == ASSUME IInv, LateLands PROVE IInv'
<1> USE DEF LateLands
<1>1. PICK w \in late : Effect(w[1], w[2]) /\ late' = late \ {w}
  OBVIOUS
<1>2. /\ w[1] \in 1..op /\ w[1] # Absent /\ w[2] \in Slots /\ w[1] # 0
      /\ w[1] = op => write[w[2]] = "unknown"
  <2>1. w[1] \in 1..op /\ w[1] # Absent /\ w[2] \in Slots /\ w[1] # 0
    BY DEF IInv, Types
  <2> QED BY <2>1 DEF IInv, LateInv
<1>3. Types'
  BY <1>1, <1>2, EffectKeepsGood DEF IInv, Types
<1>4. PhaseInv'
  BY DEF IInv, Types, PhaseInv
<1>5. \A j \in Objects : Good(j) => Good(j)'
  BY <1>1, <1>2, EffectKeepsGood DEF IInv, Good
<1>6. WorkerInv'
  <2>1. Types /\ op \in Nat
    BY DEF IInv, Types
  <2>2. op # Absent
    BY <2>1
  <2>3. \A j \in Objects :
          store'[j] = store[j]
            \/ (store[j] = Absent /\ store'[j] = w[1] /\ w[2] = j)
    <3>1. w[1] \in 1..op /\ w[2] \in Slots /\ Effect(w[1], w[2])
      BY <1>1, <1>2
    <3>2. /\ \A j \in Objects : store[j] # Absent => store'[j] = store[j]
          /\ \A j \in Objects : store[j] = Absent =>
               store'[j] = IF w[2] = j THEN w[1] ELSE Absent
      BY <2>1, <3>1, EffectKeepsGood
    <3> QED BY <3>2
  <2>4. \A j \in Objects :
          store'[j] = store[j]
            \/ (store[j] = Absent /\ store'[j] # Absent /\
                 (store'[j] = op => write[j] = "unknown"))
    BY <1>2, <2>3
  <2> QED BY <1>5, <2>1, <2>2, <2>4 DEF IInv, WorkerInv
<1>7. PointerInv'
  BY <1>1, <1>2, <1>5, EffectKeepsGood DEF IInv, Types, PointerInv, AllGood
<1>8. LateInv'
  BY <1>1 DEF IInv, LateInv
<1>9. ClosureInv'
  <2>1. pointer' = IF w[2] = 0 THEN w[1] ELSE pointer
    BY <1>1 DEF Effect
  <2> QED BY <1>1, <2>1 DEF IInv, Types, PhaseInv, ClosureInv, Succeeded
<1> QED BY <1>3, <1>4, <1>6, <1>7, <1>8, <1>9 DEF IInv

LEMMA NextStep == IInv /\ [Next]_vars => IInv'
<1> SUFFICES ASSUME IInv, [Next]_vars PROVE IInv'
  OBVIOUS
<1>1. CASE \E i \in Slots : Request(i)
  BY <1>1, SendStep, LandStep, SettleStep DEF Request
<1>2. CASE \E i \in Objects : Work(i)
  BY <1>2, CreatedStep, VerifiedStep, RejectedStep, AbandonedStep DEF Work
<1>3. CASE Main
  BY <1>3, PreparedStep, ObjectsDoneStep, ReplacedStep, PointerVerifiedStep,
     RunRejectedStep, RunAbandonedStep, ReturnStep DEF Main
<1>4. CASE Start \/ Timeout \/ Abort \/ LateLands \/ LateSettles \/ Take
  BY <1>4, StartStep, TimeoutStep, AbortStep, LateLandsStep, LateSettlesStep,
     TakeStep
<1>5. CASE UNCHANGED vars
  BY <1>5 DEF IInv, vars, Types, PhaseInv, WorkerInv, PointerInv, LateInv,
              ClosureInv, AllGood, Good, Succeeded
<1> QED BY <1>1, <1>2, <1>3, <1>4, <1>5 DEF Next

(* The pointer never leads to a release with an object that is missing or  *)
(* not the planned one, whatever requests are lost, late or abandoned      *)
(* (publication.ts run and OperationBudget.run).                           *)
THEOREM PointerNeverDangles == Spec => []PointerAfterObjects
<1>1. IInv => PointerAfterObjects
  BY DEF IInv, PointerInv, AllGood, PointerAfterObjects
<1> QED BY <1>1, InitHolds, NextStep, PTL DEF Spec

(* What a receipt says of the remote is true, and a success stays so       *)
(* (createReceipt, recordFailure, closeTransport).                         *)
THEOREM ReceiptsAreHonest == Spec => []ReceiptHonest
<1>1. IInv => ReceiptHonest
  BY DEF IInv, Types, PhaseInv, WorkerInv, PointerInv, ClosureInv, Succeeded,
         ReceiptHonest
<1> QED BY <1>1, InitHolds, NextStep, PTL DEF Spec

==============================================================================
