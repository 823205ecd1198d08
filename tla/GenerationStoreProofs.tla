------------------------ MODULE GenerationStoreProofs ------------------------
(***************************************************************************)
(* Proofs about the generation store, for any builders and generations:    *)
(* what current.json names can be read, the store stays small, outcomes    *)
(* are true, and a builder that lost its lock stops.                       *)
(***************************************************************************)
EXTENDS GenerationStore, FiniteSetTheorems, TLAPS

(* With a careful operator one builder at most is at work: the one in the  *)
(* lock, or the one that is about to write its name there.                 *)
OneBuilder ==
  \A b \in Builders :
    /\ pc[b] = "owner" => lock = Left
    /\ pc[b] \notin {"idle", "owner"} => lock = b
    /\ \A a \in Builders : pc[a] = "owner" /\ pc[b] = "owner" => a = b

(* The pointer does not dangle; one generation besides it, and one         *)
(* temporary file, at most.                                                *)
StoreInv ==
  /\ current # None => current \in files
  /\ \A g, h \in files \ {current} : g = h
  /\ \A s, t \in staging : s = t

(* A builder that has switched the pointer, and one that has not.          *)
Switched(b) ==
  \/ pc[b] = "committed"
  \/ pc[b] \in {"list", "prune", "unlink"} /\ turn[b] = "committed"
Unswitched(b) ==
  \/ pc[b] \in {"owner", "build", "publish", "candidate", "staged", "written",
                "check", "switch"}
  \/ pc[b] \in {"list", "prune", "unlink"} /\ turn[b] # "committed"

(* What the builder at work knows of the store.                            *)
PruneInv(b) ==
  pc[b] \in {"prune", "unlink"} =>
    /\ <<"generation", current>> \notin todo[b]
    /\ \A g \in files \ {current} : <<"generation", g>> \in todo[b]
    /\ \A s \in staging : <<"staged", s>> \in todo[b]
CandidateInv(b) ==
  /\ pc[b] \in {"candidate", "staged"} => files \subseteq {current}
  /\ pc[b] \in {"candidate", "written"} => staging = {}
  /\ pc[b] = "staged" => staging \subseteq {<<b, "gen">>}
  /\ pc[b] \in {"check", "switch"} => staging \subseteq {<<b, "ptr">>}
  /\ pc[b] \in {"written", "check", "switch"} =>
       gen[b] \in files /\ files \subseteq {current, gen[b]}
SwitchInv(b) ==
  /\ Switched(b) => current = gen[b]
  /\ Unswitched(b) => current = before[b]
OutcomeInv(b) ==
  pc[b] = "release" =>
    /\ result[b] = "ok" =>
         current = gen[b] /\ files = {gen[b]} /\ staging = {}
    /\ result[b] = "rejected" => current = before[b]
    /\ result[b] = "cancelled" =>
         current = before[b] /\ files = {current} \ {None} /\ staging = {}
BuilderInv(b) ==
  PruneInv(b) /\ CandidateInv(b) /\ SwitchInv(b) /\ OutcomeInv(b)

(* Every pointer that the reader found stale stands for a switch of its    *)
(* own, made after it was read.                                            *)
ReaderInv ==
  /\ reader.at # "idle" /\ current # None => current \in reader.seen
  /\ reader.at \in {"pointer", "open"} => reader.commits >= reader.attempt
  /\ reader.at = "open" =>
       /\ reader.id \in reader.seen
       /\ reader.id = current \/ reader.commits >= reader.attempt + 1
       /\ reader.id # None
  /\ reader.at = "missing" => reader.commits = 3
  /\ reader.at = "read" => reader.id \in reader.seen

Careful ==
  OneBuilder /\ StoreInv /\ ReaderInv /\ \A b \in Builders : BuilderInv(b)

(* Whoever acted after it lost the lock never again gets to where it acts. *)
LostInv ==
  \A b \in Builders :
    /\ extra[b] <= 1
    /\ pc[b] \in {"idle", "owner"} => extra[b] = 0
    /\ extra[b] = 1 => lock # b /\ pc[b] \notin {"unlink", "check", "switch"}

(* Who is at work has a generation to publish.                             *)
Chosen == \A b \in Builders : pc[b] # "idle" => gen[b] \in Gens

IInv == TypeOK /\ Chosen /\ LostInv /\ (~setting.careless => Careful)

USE StoreAssumption DEF store, local, Temporary, Goto, Owns, Fails,
                        FailsPruning, Act

------------------------------------------------------------------------------
(* Types.                                                                  *)

LEMMA TypesBegin == Init => TypeOK
BY DEF Init, TypeOK, Reading, NotReading

LEMMA EndsTyped ==
  ASSUME TypeOK, NEW b \in Builders, Ends(b)
  PROVE  /\ pc' \in [Builders -> {"idle", "owner", "build", "publish", "list",
              "prune", "unlink", "candidate", "staged", "written", "check",
              "switch", "committed", "release"}]
         /\ gen' \in [Builders -> Gens \cup {None}]
         /\ turn' \in [Builders -> {"first", "failed", "committed"}]
         /\ todo' \in [Builders -> SUBSET ({"generation"} \X Gens
                                            \cup {"staged"} \X Temporary)]
         /\ result' \in [Builders -> {"none", "ok", "rejected", "cancelled",
                                      "lost", "cleanup"}]
         /\ before' \in [Builders -> Gens \cup {None}]
         /\ extra' \in [Builders -> 0..2]
BY DEF TypeOK, Ends

LEMMA FailureTyped ==
  ASSUME TypeOK, NEW b \in Builders
  PROVE  /\ \A r \in {"rejected", "lost", "cleanup"} : Fails(b, r) => TypeOK'
         /\ FailsPruning(b) => TypeOK'
BY DEF TypeOK

LEMMA ChosenStays ==
  ASSUME TypeOK, Chosen, [Next]_vars PROVE Chosen'
<1>1. ASSUME NEW b \in Builders, NEW g \in Gens, MakeLock(b, g) PROVE Chosen'
  BY <1>1 DEF Chosen, TypeOK, MakeLock
<1>2. ASSUME NEW b \in Builders, WriteOwner(b) \/ Release(b) \/ Crash(b)
      PROVE  Chosen'
  BY <1>2 DEF Chosen, TypeOK, WriteOwner, Release, Crash, Ends
<1>3. ASSUME NEW b \in Builders, UNCHANGED gen, pc[b] # "idle",
             NEW l, Goto(b, l)
      PROVE  Chosen'
  BY <1>3 DEF Chosen, TypeOK
<1>4. ASSUME NEW b \in Builders,
             \/ Build(b) \/ Publish(b) \/ List(b) \/ PruneCheck(b) \/ Unlink(b)
             \/ Pruned(b) \/ Candidate(b) \/ RenameCandidate(b) \/ Written(b)
             \/ SwitchCheck(b) \/ Switch(b) \/ Committed(b)
      PROVE  Chosen'
  BY <1>3, <1>4 DEF Build, Publish, List, PruneCheck, Unlink, Pruned, Candidate,
     RenameCandidate, Written, SwitchCheck, Switch, Committed
<1>5. ASSUME UNCHANGED <<pc, gen>> PROVE Chosen'
  BY <1>5 DEF Chosen
<1> QED BY <1>1, <1>2, <1>4, <1>5 DEF Next, Step, RemoveLock, ReadBegins,
           ReadPointer, OpenGeneration, vars

LEMMA TypesStay ==
  ASSUME TypeOK, Chosen, [Next]_vars PROVE TypeOK'
<1>1. ASSUME NEW b \in Builders, NEW g \in Gens, MakeLock(b, g) PROVE TypeOK'
  BY <1>1 DEF TypeOK, MakeLock
<1>2. ASSUME NEW b \in Builders, WriteOwner(b) PROVE TypeOK'
  <2>1. CASE Ends(b) /\ UNCHANGED lock
    BY <1>2, <2>1, EndsTyped DEF TypeOK, WriteOwner
  <2>2. CASE Goto(b, "build") /\ lock' = b /\ UNCHANGED <<local, result, extra>>
    BY <1>2, <2>2 DEF TypeOK, WriteOwner
  <2> QED BY <1>2, <2>1, <2>2 DEF WriteOwner
<1>3. ASSUME NEW b \in Builders, Build(b) PROVE TypeOK'
  BY <1>3 DEF TypeOK, Build
<1>4. ASSUME NEW b \in Builders, Publish(b) PROVE TypeOK'
  BY <1>4, FailureTyped DEF TypeOK, Publish
<1>5. ASSUME NEW b \in Builders, List(b) PROVE TypeOK'
  <2>1. Managed(b, Keep(b)) \subseteq
          ({"generation"} \X Gens \cup {"staged"} \X Temporary)
    BY DEF TypeOK, Managed
  <2> QED BY <1>5, <2>1, FailureTyped DEF TypeOK, List
<1>6. ASSUME NEW b \in Builders, PruneCheck(b) PROVE TypeOK'
  BY <1>6, FailureTyped DEF TypeOK, PruneCheck
<1>7. ASSUME NEW b \in Builders, Unlink(b) PROVE TypeOK'
  BY <1>7, FailureTyped DEF TypeOK, Unlink
<1>8. ASSUME NEW b \in Builders, Pruned(b) PROVE TypeOK'
  BY <1>8 DEF TypeOK, Pruned
<1>9. ASSUME NEW b \in Builders, Candidate(b) PROVE TypeOK'
  BY <1>9, FailureTyped DEF TypeOK, Candidate
<1>10. ASSUME NEW b \in Builders, RenameCandidate(b) PROVE TypeOK'
  <2>1. /\ files' \subseteq Gens \cup {gen[b]} /\ staging' \subseteq staging
        /\ UNCHANGED <<lock, current, gen, todo, result, before, extra, reader,
                       setting>>
    BY <1>10 DEF TypeOK, RenameCandidate
  <2>2. files' \subseteq Gens
    BY <1>10, <2>1 DEF TypeOK, Chosen, RenameCandidate
  <2>3. /\ \E l \in {"written", "list"} : Goto(b, l)
        /\ turn' \in {turn, [turn EXCEPT ![b] = "failed"]}
    BY <1>10 DEF RenameCandidate
  <2> QED BY <2>1, <2>2, <2>3 DEF TypeOK
<1>11. ASSUME NEW b \in Builders, Written(b) PROVE TypeOK'
  BY <1>11, FailureTyped DEF TypeOK, Written
<1>12. ASSUME NEW b \in Builders, SwitchCheck(b) PROVE TypeOK'
  BY <1>12, FailureTyped DEF TypeOK, SwitchCheck
<1>13. ASSUME NEW b \in Builders, Switch(b) PROVE TypeOK'
  <2>1. CASE FailsPruning(b)
    BY <2>1, FailureTyped
  <2>2. CASE Goto(b, "check") /\ UNCHANGED <<lock, store, local, result, extra,
                                            reader, setting>>
    BY <2>2 DEF TypeOK
  <2>3. CASE Goto(b, "committed")
    <3>1. /\ current' = gen[b] /\ staging' \subseteq staging
          /\ Act(b) /\ UNCHANGED <<lock, files, local, result, setting>>
      BY <1>13, <2>3 DEF Switch, TypeOK
    <3>2. /\ reader \in Reading /\ reader.commits \in 0..3 /\ gen[b] \in Gens
          /\ reader.seen \subseteq Gens
      BY <1>13 DEF TypeOK, Chosen, Reading, Switch
    <3>3. reader' = IF reader.at = "idle" THEN reader
            ELSE [reader EXCEPT !.commits = IF @ = 3 THEN @ ELSE @ + 1,
                                !.seen = @ \cup {gen[b]}]
      BY <1>13, <2>3 DEF Switch, TypeOK
    <3>4. ASSUME NEW c \in 0..3, NEW s \in SUBSET Gens
          PROVE  [reader EXCEPT !.commits = c, !.seen = s] \in Reading
      BY <3>2 DEF Reading
    <3>5. reader.seen \cup {gen[b]} \in SUBSET Gens
      BY <3>2
    <3>6. (IF reader.commits = 3 THEN 3 ELSE reader.commits + 1) \in 0..3
      BY <3>2
    <3>7. reader' = reader
            \/ reader' = [reader EXCEPT
                 !.commits = IF reader.commits = 3 THEN 3 ELSE reader.commits + 1,
                 !.seen = reader.seen \cup {gen[b]}]
      BY <3>3
    <3>8. reader' \in Reading
      BY <3>2, <3>4, <3>5, <3>6, <3>7
    <3> QED BY <2>3, <3>1, <3>8 DEF TypeOK
  <2> QED BY <1>13, <2>1, <2>2, <2>3 DEF Switch
<1>14. ASSUME NEW b \in Builders, Committed(b) PROVE TypeOK'
  BY <1>14, FailureTyped DEF TypeOK, Committed
<1>15. ASSUME NEW b \in Builders, Release(b) PROVE TypeOK'
  BY <1>15, EndsTyped DEF TypeOK, Release
<1>16. ASSUME NEW b \in Builders, Crash(b) PROVE TypeOK'
  BY <1>16, EndsTyped DEF TypeOK, Crash
<1>17. ASSUME RemoveLock PROVE TypeOK'
  BY <1>17 DEF TypeOK, RemoveLock
<1>18. ASSUME ReadBegins \/ ReadPointer \/ OpenGeneration PROVE TypeOK'
  <2>1. /\ reader \in Reading /\ reader.attempt \in 0..2
        /\ current \in Gens \cup {None}
    BY DEF TypeOK, Reading
  <2>2. NotReading \in Reading
    BY DEF Reading, NotReading
  <2>3. CASE ReadBegins
    <3>1. {current} \ {None} \subseteq Gens
      BY <2>1
    <3>2. reader' = [at |-> "pointer", attempt |-> 0, id |-> None, commits |-> 0,
                     seen |-> {current} \ {None}]
      BY <2>3 DEF ReadBegins, NotReading
    <3>3. reader' \in Reading
      BY <3>1, <3>2 DEF Reading
    <3> QED BY <2>3, <3>3 DEF ReadBegins, TypeOK
  <2>4. CASE ReadPointer
    <3>1. reader' \in Reading
      BY <2>1, <2>2, <2>4 DEF ReadPointer, Reading
    <3> QED BY <2>4, <3>1 DEF ReadPointer, TypeOK
  <2>5. CASE OpenGeneration
    <3>1. \/ \E l \in {"read", "missing"} : reader' = [reader EXCEPT !.at = l]
          \/ /\ reader.attempt < 2
             /\ reader' = [reader EXCEPT !.at = "pointer", !.attempt = @ + 1]
      BY <2>1, <2>5 DEF OpenGeneration
    <3>2. ASSUME NEW l \in {"read", "missing"},
                 reader' = [reader EXCEPT !.at = l]
          PROVE  reader' \in Reading
      BY <2>1, <3>2 DEF Reading
    <3>3. ASSUME NEW n \in 0..2,
                 reader' = [reader EXCEPT !.at = "pointer", !.attempt = n]
          PROVE  reader' \in Reading
      BY <2>1, <3>3 DEF Reading
    <3>4. reader' \in Reading
      <4>1. CASE \E l \in {"read", "missing"} : reader' = [reader EXCEPT !.at = l]
        BY <3>2, <4>1
      <4>2. CASE /\ reader.attempt < 2
                 /\ reader' = [reader EXCEPT !.at = "pointer", !.attempt = @ + 1]
        <5>1. reader.attempt + 1 \in 0..2
          BY <2>1, <4>2
        <5> QED BY <3>3, <4>2, <5>1
      <4> QED BY <3>1, <4>1, <4>2
    <3> QED BY <2>5, <3>4 DEF OpenGeneration, TypeOK
  <2> QED BY <1>18, <2>3, <2>4, <2>5
<1>19. ASSUME UNCHANGED vars PROVE TypeOK'
  BY <1>19 DEF TypeOK, vars
<1> QED BY <1>1, <1>2, <1>3, <1>4, <1>5, <1>6, <1>7, <1>8, <1>9, <1>10, <1>11,
           <1>12, <1>13, <1>14, <1>15, <1>16, <1>17, <1>18, <1>19
           DEF Next, Step

------------------------------------------------------------------------------
(* A builder that lost its lock.                                           *)

LEMMA LostStays ==
  ASSUME TypeOK, LostInv, [Next]_vars PROVE LostInv'
<1>1. ASSUME NEW b \in Builders, NEW g \in Gens, MakeLock(b, g) PROVE LostInv'
  BY <1>1 DEF LostInv, TypeOK, MakeLock
<1>2. ASSUME NEW b \in Builders, WriteOwner(b) PROVE LostInv'
  BY <1>2 DEF LostInv, TypeOK, WriteOwner, Ends
<1>3. ASSUME NEW b \in Builders, Build(b) \/ Publish(b) PROVE LostInv'
  BY <1>3 DEF LostInv, TypeOK, Build, Publish
<1>4. ASSUME NEW b \in Builders, List(b) \/ PruneCheck(b) \/ Pruned(b)
      PROVE LostInv'
  BY <1>4 DEF LostInv, TypeOK, List, PruneCheck, Pruned
<1>5. ASSUME NEW b \in Builders, Unlink(b) PROVE LostInv'
  BY <1>5 DEF LostInv, TypeOK, Unlink
<1>6. ASSUME NEW b \in Builders, Candidate(b) \/ RenameCandidate(b)
      PROVE LostInv'
  BY <1>6 DEF LostInv, TypeOK, Candidate, RenameCandidate
<1>7. ASSUME NEW b \in Builders, Written(b) \/ SwitchCheck(b) \/ Committed(b)
      PROVE LostInv'
  BY <1>7 DEF LostInv, TypeOK, Written, SwitchCheck, Committed
<1>8. ASSUME NEW b \in Builders, Switch(b) PROVE LostInv'
  BY <1>8 DEF LostInv, TypeOK, Switch
<1>9. ASSUME NEW b \in Builders, Release(b) \/ Crash(b) PROVE LostInv'
  BY <1>9 DEF LostInv, TypeOK, Release, Crash, Ends
<1>10. ASSUME RemoveLock PROVE LostInv'
  BY <1>10 DEF LostInv, TypeOK, RemoveLock
<1>11. ASSUME ReadBegins \/ ReadPointer \/ OpenGeneration \/ UNCHANGED vars
       PROVE LostInv'
  BY <1>11 DEF LostInv, ReadBegins, ReadPointer, OpenGeneration, vars
<1> QED BY <1>1, <1>2, <1>3, <1>4, <1>5, <1>6, <1>7, <1>8, <1>9, <1>10, <1>11
           DEF Next, Step

------------------------------------------------------------------------------
(* With a careful operator.                                                *)

(* The others do nothing while a builder is at work.                       *)
LEMMA OthersIdle ==
  ASSUME TypeOK, OneBuilder, NEW b \in Builders, pc[b] # "idle"
  PROVE  \A a \in Builders \ {b} : pc[a] = "idle"
BY DEF OneBuilder, TypeOK

LEMMA IdleKnowsNothing ==
  ASSUME NEW b \in Builders, pc[b] = "idle" PROVE BuilderInv(b)
BY DEF BuilderInv, PruneInv, CandidateInv, SwitchInv, OutcomeInv, Switched,
       Unswitched

(* So only its own knowledge must be kept by what it does.                 *)
LEMMA OwnStep ==
  ASSUME TypeOK, OneBuilder, NEW b \in Builders, pc[b] # "idle",
         NEW l, Goto(b, l), BuilderInv(b)'
  PROVE  \A a \in Builders : BuilderInv(a)'
<1> SUFFICES ASSUME NEW a \in Builders, a # b PROVE BuilderInv(a)'
  OBVIOUS
<1>1. pc[a] = "idle"
  BY OthersIdle
<1>2. pc'[a] = "idle"
  BY <1>1 DEF TypeOK
<1> QED BY <1>2 DEF BuilderInv, PruneInv, CandidateInv, SwitchInv, OutcomeInv,
                    Switched, Unswitched

(* An active builder goes on: the lock stays its own.                      *)
LEMMA LockStays ==
  ASSUME TypeOK, OneBuilder, NEW b \in Builders, pc[b] \notin {"idle", "owner"},
         NEW l, l \notin {"idle", "owner"}, Goto(b, l), UNCHANGED lock
  PROVE  lock = b /\ OneBuilder'
<1>1. lock = b /\ \A a \in Builders \ {b} : pc[a] = "idle"
  BY OthersIdle DEF OneBuilder
<1>2. pc'[b] = l /\ \A a \in Builders \ {b} : pc'[a] = "idle"
  BY <1>1 DEF TypeOK
<1> QED BY <1>1, <1>2 DEF OneBuilder

(* A reader that is left alone by what a builder does.                     *)
LEMMA ReaderStays ==
  ASSUME ReaderInv, UNCHANGED <<reader, current>> PROVE ReaderInv'
BY DEF ReaderInv

(* What fails keeps the store.                                             *)
LEMMA FailsStep ==
  ASSUME TypeOK, Careful, NEW b \in Builders, pc[b] \notin {"idle", "owner"},
         NEW r, r \notin {"ok", "rejected", "cancelled"}, Fails(b, r)
  PROVE  Careful'
<1>1. OneBuilder'
  BY LockStays DEF Careful
<1>2. StoreInv' /\ ReaderInv'
  BY ReaderStays DEF Careful, StoreInv
<1>3. BuilderInv(b)'
  BY DEF Careful, TypeOK, BuilderInv, PruneInv, CandidateInv, SwitchInv,
         OutcomeInv, Switched, Unswitched
<1> QED BY <1>1, <1>2, <1>3, OwnStep DEF Careful

LEMMA FailsPruningStep ==
  ASSUME TypeOK, Careful, NEW b \in Builders,
         pc[b] \in {"candidate", "staged", "written", "check", "switch"},
         FailsPruning(b)
  PROVE  Careful'
<1>1. OneBuilder'
  BY LockStays DEF Careful
<1>2. StoreInv' /\ ReaderInv'
  BY ReaderStays DEF Careful, StoreInv
<1>3. BuilderInv(b)'
  BY DEF Careful, TypeOK, BuilderInv, PruneInv, CandidateInv, SwitchInv,
         OutcomeInv, Switched, Unswitched
<1> QED BY <1>1, <1>2, <1>3, OwnStep DEF Careful

LEMMA MakeLockStep ==
  ASSUME TypeOK, Careful, NEW b \in Builders, NEW g \in Gens, MakeLock(b, g)
  PROVE  Careful'
<1>1. \A a \in Builders : pc[a] = "idle"
  BY DEF Careful, OneBuilder, MakeLock
<1>2. OneBuilder'
  BY <1>1 DEF OneBuilder, MakeLock, TypeOK
<1>3. StoreInv' /\ ReaderInv'
  BY ReaderStays DEF Careful, StoreInv, MakeLock
<1>4. BuilderInv(b)'
  BY DEF TypeOK, MakeLock, BuilderInv, PruneInv, CandidateInv, SwitchInv,
         OutcomeInv, Switched, Unswitched
<1>5. \A a \in Builders \ {b} : BuilderInv(a)'
  BY <1>1 DEF TypeOK, MakeLock, BuilderInv, PruneInv, CandidateInv, SwitchInv,
              OutcomeInv, Switched, Unswitched
<1> QED BY <1>2, <1>3, <1>4, <1>5 DEF Careful

(* A builder that ends leaves only the store behind.                       *)
LEMMA EndStep ==
  ASSUME TypeOK, Careful, NEW b \in Builders, pc[b] # "idle", Ends(b),
         UNCHANGED <<store, reader>>
  PROVE  Careful'
<1>1. \A a \in Builders : pc'[a] = "idle"
  BY OthersIdle DEF Careful, Ends, TypeOK
<1>2. OneBuilder'
  BY <1>1 DEF OneBuilder
<1>3. StoreInv' /\ ReaderInv'
  BY ReaderStays DEF Careful, StoreInv
<1>4. \A a \in Builders : BuilderInv(a)'
  BY <1>1 DEF BuilderInv, PruneInv, CandidateInv, SwitchInv, OutcomeInv,
              Switched, Unswitched
<1> QED BY <1>2, <1>3, <1>4 DEF Careful

LEMMA WriteOwnerStep ==
  ASSUME TypeOK, Careful, NEW b \in Builders, WriteOwner(b) PROVE Careful'
<1>1. CASE Ends(b) /\ UNCHANGED lock
  BY <1>1, EndStep DEF WriteOwner
<1>2. CASE lock' = b /\ Goto(b, "build") /\ UNCHANGED <<local, result, extra>>
  <2>1. pc[b] = "owner" /\ UNCHANGED <<store, reader>>
    BY DEF WriteOwner
  <2>2. \A a \in Builders \ {b} : pc[a] = "idle"
    BY <2>1, OthersIdle DEF Careful
  <2>3. pc'[b] = "build" /\ \A a \in Builders \ {b} : pc'[a] = "idle"
    BY <1>2, <2>2 DEF TypeOK
  <2>4. OneBuilder'
    BY <1>2, <2>3 DEF OneBuilder
  <2>5. StoreInv' /\ ReaderInv'
    BY <2>1, ReaderStays DEF Careful, StoreInv
  <2>6. BuilderInv(b)'
    BY <1>2, <2>1, <2>3 DEF Careful, BuilderInv, PruneInv, CandidateInv, SwitchInv,
                       OutcomeInv, Switched, Unswitched
  <2> QED BY <1>2, <2>1, <2>4, <2>5, <2>6, OwnStep DEF Careful
<1> QED BY <1>1, <1>2 DEF WriteOwner

LEMMA BuildStep ==
  ASSUME TypeOK, Careful, NEW b \in Builders, Build(b) PROVE Careful'
<1>1. PICK l \in {"publish", "release"} : Goto(b, l)
  BY DEF Build
<1>2. OneBuilder'
  BY <1>1, LockStays DEF Careful, Build
<1>3. StoreInv' /\ ReaderInv'
  BY ReaderStays DEF Careful, StoreInv, Build
<1>4. BuilderInv(b)'
  BY DEF Careful, TypeOK, Build, BuilderInv, PruneInv, CandidateInv, SwitchInv,
         OutcomeInv, Switched, Unswitched
<1> QED BY <1>1, <1>2, <1>3, <1>4, OwnStep DEF Careful, Build

LEMMA PublishStep ==
  ASSUME TypeOK, Careful, NEW b \in Builders, Publish(b) PROVE Careful'
<1>1. PICK l \in {"list", "release"} : Goto(b, l)
  BY DEF Publish
<1>2. OneBuilder' /\ Owns(b)
  BY <1>1, LockStays DEF Careful, Publish
<1>3. StoreInv' /\ ReaderInv'
  BY ReaderStays DEF Careful, StoreInv, Publish
<1>4. BuilderInv(b)'
  BY <1>2 DEF Careful, TypeOK, Publish, BuilderInv, PruneInv, CandidateInv,
              SwitchInv, OutcomeInv, Switched, Unswitched
<1> QED BY <1>1, <1>2, <1>3, <1>4, OwnStep DEF Careful, Publish

LEMMA ListStep ==
  ASSUME TypeOK, Careful, NEW b \in Builders, List(b) PROVE Careful'
<1>1. Owns(b)
  BY DEF Careful, OneBuilder, List
<1>2. Goto(b, "prune") /\ todo' = [todo EXCEPT ![b] = Managed(b, Keep(b))]
  BY <1>1 DEF List
<1>3. OneBuilder'
  BY <1>1, <1>2, LockStays DEF Careful, List
<1>4. StoreInv' /\ ReaderInv'
  BY <1>1, ReaderStays DEF Careful, StoreInv, List
<1>5. Keep(b) = current
  BY DEF Careful, BuilderInv, SwitchInv, Switched, List, Keep
<1>6. todo'[b] = {<<"generation", g>> : g \in files \ {current}}
                   \cup {<<"staged", s>> : s \in staging}
  BY <1>2, <1>5 DEF TypeOK, Managed
<1>7. UNCHANGED <<store, gen, turn, result, before>> /\ pc'[b] = "prune"
  BY <1>1, <1>2 DEF List, TypeOK
<1>8. BuilderInv(b)'
  <2>1. PruneInv(b)'
    BY <1>6, <1>7 DEF PruneInv
  <2>2. CandidateInv(b)' /\ OutcomeInv(b)'
    BY <1>7 DEF CandidateInv, OutcomeInv
  <2>3. SwitchInv(b)'
    BY <1>7 DEF Careful, BuilderInv, SwitchInv, Switched, Unswitched, List
  <2> QED BY <2>1, <2>2, <2>3 DEF BuilderInv
<1> QED BY <1>2, <1>3, <1>4, <1>8, OwnStep DEF Careful, List

LEMMA PruneCheckStep ==
  ASSUME TypeOK, Careful, NEW b \in Builders, PruneCheck(b) PROVE Careful'
<1>1. Owns(b)
  BY DEF Careful, OneBuilder, PruneCheck
<1>2. Goto(b, "unlink") /\ UNCHANGED <<lock, store, local, result, reader>>
  BY <1>1 DEF PruneCheck
<1>3. OneBuilder'
  BY <1>2, LockStays DEF Careful, PruneCheck
<1>4. StoreInv' /\ ReaderInv'
  BY <1>2, ReaderStays DEF Careful, StoreInv
<1>5. BuilderInv(b)'
  BY <1>2 DEF Careful, TypeOK, PruneCheck, BuilderInv, PruneInv, CandidateInv,
              SwitchInv, OutcomeInv, Switched, Unswitched
<1> QED BY <1>2, <1>3, <1>4, <1>5, OwnStep DEF Careful, PruneCheck

LEMMA UnlinkStep ==
  ASSUME TypeOK, Careful, NEW b \in Builders, Unlink(b) PROVE Careful'
<1>1. CASE Fails(b, "cleanup")
  BY <1>1, FailsStep DEF Unlink
<1>2. CASE ~Fails(b, "cleanup")
  <2>1. PICK e \in todo[b] :
          /\ files' = files \ {g \in Gens : e = <<"generation", g>>}
          /\ staging' = staging \ {s \in Builders \X {"gen", "ptr"} :
                                     e = <<"staged", s>>}
          /\ todo' = [todo EXCEPT ![b] = @ \ {e}]
    BY <1>2 DEF Unlink
  <2>2. /\ Goto(b, "prune") /\ pc[b] = "unlink"
        /\ UNCHANGED <<lock, current, gen, turn, result, before, reader>>
    BY <1>2 DEF Unlink
  <2>3. OneBuilder'
    BY <2>2, LockStays DEF Careful
  <2>4. PruneInv(b)
    BY DEF Careful, BuilderInv
  <2>5. StoreInv'
    BY <2>1, <2>2, <2>4 DEF Careful, StoreInv, PruneInv
  <2>6. ReaderInv'
    BY <2>2, ReaderStays DEF Careful
  <2>7. pc'[b] = "prune" /\ todo'[b] = todo[b] \ {e}
    BY <2>1, <2>2 DEF TypeOK
  <2>8. PruneInv(b)'
    <3>1. <<"generation", current>> \notin todo'[b]
      BY <2>2, <2>4, <2>7 DEF PruneInv
    <3>2. \A g \in files' \ {current} : <<"generation", g>> \in todo'[b]
      BY <2>1, <2>2, <2>4, <2>7 DEF PruneInv, TypeOK
    <3>3. \A s \in staging' : <<"staged", s>> \in todo'[b]
      BY <2>1, <2>2, <2>4, <2>7 DEF PruneInv, TypeOK
    <3> QED BY <2>2, <3>1, <3>2, <3>3 DEF PruneInv
  <2>9. CandidateInv(b)' /\ OutcomeInv(b)'
    BY <2>7 DEF CandidateInv, OutcomeInv
  <2>10. SwitchInv(b)'
    BY <2>2, <2>7 DEF Careful, BuilderInv, SwitchInv, Switched, Unswitched
  <2> QED BY <2>2, <2>3, <2>5, <2>6, <2>8, <2>9, <2>10, OwnStep
          DEF Careful, BuilderInv
<1> QED BY <1>1, <1>2

(* With nothing left to remove, the store holds the current generation.    *)
LEMMA PrunedStep ==
  ASSUME TypeOK, Chosen, Careful, NEW b \in Builders, Pruned(b) PROVE Careful'
<1>1. PICK l \in {"candidate", "release"} : Goto(b, l)
  BY DEF Pruned
<1>2. OneBuilder'
  BY <1>1, LockStays DEF Careful, Pruned
<1>3. StoreInv' /\ ReaderInv'
  BY ReaderStays DEF Careful, StoreInv, Pruned
<1>4. files \subseteq {current} /\ staging = {}
  BY DEF Careful, BuilderInv, PruneInv, Pruned
<1>5. files = {current} \ {None}
  BY <1>4 DEF Careful, StoreInv, TypeOK
<1>6. CASE turn[b] = "first"
  <2>1. pc'[b] = "candidate" /\ UNCHANGED <<store, local, result>>
    BY <1>6 DEF Pruned, TypeOK
  <2>2. BuilderInv(b)'
    BY <1>4, <1>6, <2>1 DEF Careful, Pruned, BuilderInv, PruneInv, CandidateInv,
                       SwitchInv, OutcomeInv, Switched, Unswitched
  <2> QED BY <1>1, <1>2, <1>3, <2>2, OwnStep DEF Careful, Pruned
<1>7. CASE turn[b] # "first"
  <2>1. /\ pc'[b] = "release" /\ UNCHANGED <<store, local>>
        /\ result'[b] = IF turn[b] = "committed" THEN "ok" ELSE "cancelled"
    BY <1>7 DEF Pruned, TypeOK
  <2>2. gen[b] \in Gens
    BY DEF Chosen, Pruned
  <2>3. OutcomeInv(b)'
    BY <1>4, <1>5, <1>7, <2>1, <2>2
       DEF Careful, Pruned, BuilderInv, OutcomeInv, SwitchInv, Switched, Unswitched
  <2>4. BuilderInv(b)'
    BY <2>1, <2>2, <2>3 DEF BuilderInv, PruneInv, CandidateInv, SwitchInv, Switched,
                       Unswitched
  <2> QED BY <1>1, <1>2, <1>3, <2>4, OwnStep DEF Careful, Pruned
<1> QED BY <1>6, <1>7

LEMMA CandidateStep ==
  ASSUME TypeOK, Careful, NEW b \in Builders, Candidate(b) PROVE Careful'
<1>1. CASE FailsPruning(b)
  BY <1>1, FailsPruningStep DEF Candidate
<1>2. CASE ~FailsPruning(b)
  <2>1. /\ pc[b] = "candidate"
        /\ UNCHANGED <<lock, current, files, local, result, reader>>
        /\ IF gen[b] \in files THEN Goto(b, "written") /\ UNCHANGED staging
           ELSE Goto(b, "staged") /\ staging' = staging \cup {<<b, "gen">>}
    BY <1>2 DEF Candidate
  <2>2. PICK l \in {"written", "staged"} : Goto(b, l)
    BY <2>1
  <2>3. OneBuilder'
    BY <2>1, <2>2, LockStays DEF Careful
  <2>4. CandidateInv(b) /\ SwitchInv(b)
    BY DEF Careful, BuilderInv
  <2>5. StoreInv' /\ ReaderInv'
    BY <2>1, <2>4, ReaderStays DEF Careful, StoreInv, CandidateInv
  <2>6. CandidateInv(b)'
    BY <2>1, <2>4 DEF CandidateInv, TypeOK
  <2>7. PruneInv(b)' /\ SwitchInv(b)' /\ OutcomeInv(b)'
    BY <2>1, <2>4 DEF PruneInv, SwitchInv, OutcomeInv, Switched, Unswitched, TypeOK
  <2> QED BY <2>1, <2>2, <2>3, <2>5, <2>6, <2>7, OwnStep DEF Careful, BuilderInv
<1> QED BY <1>1, <1>2

LEMMA RenameCandidateStep ==
  ASSUME TypeOK, Careful, NEW b \in Builders, RenameCandidate(b) PROVE Careful'
<1>1. PICK l \in {"written", "list"} : Goto(b, l)
  BY DEF RenameCandidate
<1>2. OneBuilder'
  BY <1>1, LockStays DEF Careful, RenameCandidate
<1>3. CandidateInv(b) /\ SwitchInv(b)
  BY DEF Careful, BuilderInv
<1>4. StoreInv' /\ ReaderInv'
  BY <1>3, ReaderStays DEF Careful, StoreInv, CandidateInv, RenameCandidate
<1>5. CandidateInv(b)'
  BY <1>3 DEF CandidateInv, TypeOK, RenameCandidate
<1>6. PruneInv(b)' /\ SwitchInv(b)' /\ OutcomeInv(b)'
  BY <1>3 DEF PruneInv, SwitchInv, OutcomeInv, Switched, Unswitched, TypeOK,
              RenameCandidate
<1> QED BY <1>1, <1>2, <1>4, <1>5, <1>6, OwnStep
        DEF Careful, BuilderInv, RenameCandidate

LEMMA WrittenStep ==
  ASSUME TypeOK, Careful, NEW b \in Builders, Written(b) PROVE Careful'
<1>1. CASE FailsPruning(b)
  BY <1>1, FailsPruningStep DEF Written
<1>2. CASE ~FailsPruning(b)
  <2>1. /\ pc[b] = "written" /\ staging' = staging \cup {<<b, "ptr">>}
        /\ Goto(b, "check")
        /\ UNCHANGED <<lock, current, files, local, result, reader>>
    BY <1>2 DEF Written
  <2>2. OneBuilder'
    BY <2>1, LockStays DEF Careful
  <2>3. CandidateInv(b) /\ SwitchInv(b)
    BY DEF Careful, BuilderInv
  <2>4. StoreInv' /\ ReaderInv'
    BY <2>1, <2>3, ReaderStays DEF Careful, StoreInv, CandidateInv
  <2>5. BuilderInv(b)'
    BY <2>1, <2>3 DEF BuilderInv, CandidateInv, PruneInv, SwitchInv, OutcomeInv,
                      Switched, Unswitched, TypeOK
  <2> QED BY <2>1, <2>2, <2>4, <2>5, OwnStep DEF Careful
<1> QED BY <1>1, <1>2

LEMMA SwitchCheckStep ==
  ASSUME TypeOK, Careful, NEW b \in Builders, SwitchCheck(b) PROVE Careful'
<1>1. CASE FailsPruning(b)
  BY <1>1, FailsPruningStep DEF SwitchCheck
<1>2. CASE ~FailsPruning(b)
  <2>1. /\ pc[b] = "check" /\ Goto(b, "switch")
        /\ UNCHANGED <<lock, store, local, result, reader>>
    BY <1>2 DEF SwitchCheck
  <2>2. OneBuilder'
    BY <2>1, LockStays DEF Careful
  <2>3. StoreInv' /\ ReaderInv'
    BY <2>1, ReaderStays DEF Careful, StoreInv
  <2>4. BuilderInv(b)'
    BY <2>1 DEF Careful, BuilderInv, CandidateInv, PruneInv, SwitchInv, OutcomeInv,
                Switched, Unswitched, TypeOK
  <2> QED BY <2>1, <2>2, <2>3, <2>4, OwnStep DEF Careful
<1> QED BY <1>1, <1>2

LEMMA SwitchStep ==
  ASSUME TypeOK, Careful, NEW b \in Builders, Switch(b) PROVE Careful'
<1>1. CASE FailsPruning(b)
  BY <1>1, FailsPruningStep DEF Switch
<1>2. CASE Goto(b, "check") /\ UNCHANGED <<lock, store, local, result, reader>>
  <2>1. OneBuilder'
    BY <1>2, LockStays DEF Careful, Switch
  <2>2. StoreInv' /\ ReaderInv'
    BY <1>2, ReaderStays DEF Careful, StoreInv
  <2>3. BuilderInv(b)'
    BY <1>2 DEF Careful, BuilderInv, CandidateInv, PruneInv, SwitchInv, OutcomeInv,
                Switched, Unswitched, TypeOK, Switch
  <2> QED BY <1>2, <2>1, <2>2, <2>3, OwnStep DEF Careful, Switch
<1>3. CASE Goto(b, "committed")
  <2>1. /\ pc[b] = "switch" /\ pc'[b] = "committed"
        /\ current' = gen[b] /\ staging' = staging \ {<<b, "ptr">>}
        /\ UNCHANGED <<lock, files, local, result>>
        /\ reader' = IF reader.at = "idle" THEN reader
                     ELSE [reader EXCEPT !.commits = IF @ = 3 THEN @ ELSE @ + 1,
                                         !.seen = @ \cup {gen[b]}]
    BY <1>3 DEF Switch, TypeOK
  <2>2. OneBuilder'
    BY <1>3, <2>1, LockStays DEF Careful
  <2>3. CandidateInv(b) /\ SwitchInv(b)
    BY DEF Careful, BuilderInv
  <2>4. StoreInv'
    BY <2>1, <2>3 DEF Careful, StoreInv, CandidateInv
  <2>5. ReaderInv'
    <3>1. /\ reader.commits \in 0..3 /\ reader.attempt \in 0..2
          /\ reader \in Reading
      BY DEF TypeOK, Reading
    <3>2. CASE reader.at = "idle"
      BY <2>1, <3>2 DEF ReaderInv
    <3>3. CASE reader.at # "idle"
      <4>1. /\ reader'.at = reader.at /\ reader'.id = reader.id
            /\ reader'.attempt = reader.attempt
            /\ reader'.commits = IF reader.commits = 3 THEN 3
                                 ELSE reader.commits + 1
            /\ reader'.seen = reader.seen \cup {gen[b]}
        BY <2>1, <3>1, <3>3 DEF Reading
      <4> QED BY <2>1, <3>1, <4>1 DEF Careful, ReaderInv
    <3> QED BY <3>2, <3>3
  <2>6. BuilderInv(b)'
    BY <2>1, <2>3 DEF BuilderInv, CandidateInv, PruneInv, SwitchInv, OutcomeInv,
                      Switched, Unswitched
  <2> QED BY <1>3, <2>1, <2>2, <2>4, <2>5, <2>6, OwnStep DEF Careful
<1> QED BY <1>1, <1>2, <1>3 DEF Switch

LEMMA CommittedStep ==
  ASSUME TypeOK, Careful, NEW b \in Builders, Committed(b) PROVE Careful'
<1>1. lock = b
  BY DEF Careful, OneBuilder, Committed
<1>2. /\ Goto(b, "list") /\ turn' = [turn EXCEPT ![b] = "committed"]
      /\ UNCHANGED <<lock, store, gen, todo, result, before, reader>>
  BY <1>1 DEF Committed
<1>3. OneBuilder'
  BY <1>2, LockStays DEF Careful, Committed
<1>4. StoreInv' /\ ReaderInv'
  BY <1>2, ReaderStays DEF Careful, StoreInv
<1>5. BuilderInv(b)'
  BY <1>2 DEF Careful, BuilderInv, CandidateInv, PruneInv, SwitchInv, OutcomeInv,
              Switched, Unswitched, TypeOK, Committed
<1> QED BY <1>2, <1>3, <1>4, <1>5, OwnStep DEF Careful, Committed

LEMMA RemoveLockStep ==
  ASSUME TypeOK, Careful, ~setting.careless, RemoveLock PROVE Careful'
<1>1. \A b \in Builders : pc[b] = "idle"
  BY DEF Careful, OneBuilder, RemoveLock
<1>2. OneBuilder'
  BY <1>1 DEF OneBuilder, RemoveLock
<1>3. StoreInv' /\ ReaderInv'
  BY ReaderStays DEF Careful, StoreInv, RemoveLock
<1>4. \A b \in Builders : BuilderInv(b)'
  BY <1>1 DEF BuilderInv, PruneInv, CandidateInv, SwitchInv, OutcomeInv,
              Switched, Unswitched, RemoveLock
<1> QED BY <1>2, <1>3, <1>4 DEF Careful

LEMMA ReadingStep ==
  ASSUME TypeOK, Careful, ReadBegins \/ ReadPointer \/ OpenGeneration
  PROVE  Careful'
<1>1. UNCHANGED <<lock, store, pc, local, result>>
  BY DEF ReadBegins, ReadPointer, OpenGeneration
<1>2. OneBuilder' /\ StoreInv' /\ \A b \in Builders : BuilderInv(b)'
  BY <1>1 DEF Careful, OneBuilder, StoreInv, BuilderInv, PruneInv, CandidateInv,
              SwitchInv, OutcomeInv, Switched, Unswitched
<1>3. ReaderInv'
  <2>1. /\ reader \in Reading /\ reader.commits \in 0..3
        /\ reader.attempt \in 0..2 /\ current \in Gens \cup {None}
    BY DEF TypeOK, Reading
  <2>2. CASE ReadBegins
    BY <1>1, <2>1, <2>2 DEF ReaderInv, ReadBegins, NotReading
  <2>3. CASE ReadPointer
    BY <1>1, <2>1, <2>3 DEF Careful, ReaderInv, ReadPointer, NotReading, Reading
  <2>4. CASE OpenGeneration
    BY <1>1, <2>1, <2>4 DEF Careful, StoreInv, ReaderInv, OpenGeneration, Reading
  <2> QED BY <2>2, <2>3, <2>4
<1> QED BY <1>2, <1>3 DEF Careful

LEMMA CarefulStays ==
  ASSUME TypeOK, Chosen, Careful, ~setting.careless, [Next]_vars
  PROVE  Careful'
<1>1. ASSUME NEW b \in Builders, Step(b) PROVE Careful'
  BY <1>1, MakeLockStep, WriteOwnerStep, BuildStep, PublishStep, ListStep,
     PruneCheckStep, UnlinkStep, PrunedStep, CandidateStep, RenameCandidateStep,
     WrittenStep, SwitchCheckStep, SwitchStep, CommittedStep, EndStep
     DEF Step, Release, Crash, Careful, OneBuilder
<1>2. CASE UNCHANGED vars
  BY <1>2 DEF vars, Careful, OneBuilder, StoreInv, ReaderInv, BuilderInv, PruneInv,
              CandidateInv, SwitchInv, OutcomeInv, Switched, Unswitched
<1> QED BY <1>1, <1>2, RemoveLockStep, ReadingStep DEF Next

------------------------------------------------------------------------------
LEMMA InitHolds == Init => IInv
<1> SUFFICES ASSUME Init PROVE IInv
  OBVIOUS
<1>1. LostInv
  BY DEF Init, LostInv
<1>2. Careful
  BY DEF Init, NotReading, Careful, OneBuilder, StoreInv, ReaderInv, BuilderInv,
         PruneInv, CandidateInv, SwitchInv, OutcomeInv, Switched, Unswitched
<1>3. Chosen
  BY DEF Init, Chosen
<1> QED BY <1>1, <1>2, <1>3, TypesBegin DEF IInv

LEMMA SettingStays == [Next]_vars => UNCHANGED setting
BY DEF Next, Step, MakeLock, WriteOwner, Build, Publish, List, PruneCheck, Unlink,
       Pruned, Candidate, RenameCandidate, Written, SwitchCheck, Switch,
       Committed, Release, Crash, RemoveLock, ReadBegins, ReadPointer,
       OpenGeneration, vars

LEMMA StepHolds == IInv /\ [Next]_vars => IInv'
BY TypesStay, ChosenStays, LostStays, CarefulStays, SettingStays DEF IInv

LEMMA AlwaysIInv == Spec => []IInv
<1> QED BY InitHolds, StepHolds, PTL DEF Spec

(* The store, the builders and the reader keep their types, for any        *)
(* builders and generations.                                               *)
THEOREM TypeCorrect == Spec => []TypeOK
<1>1. IInv => TypeOK
  BY DEF IInv
<1> QED BY <1>1, AlwaysIInv, PTL

(* Under an operator who removes only the locks of the dead, current.json  *)
(* names a generation that can be read, through crashes at any step; and a *)
(* reader, which takes no lock, gives up only when the pointer was         *)
(* switched three times while it read.                                     *)
THEOREM CurrentAlwaysReadable == Spec => []CurrentReadable
<1>1. IInv => CurrentReadable
  BY DEF IInv, Careful, StoreInv, ReaderInv, CurrentReadable
<1> QED BY <1>1, AlwaysIInv, PTL

(* However many builds are interrupted, one generation besides the current *)
(* one and one temporary file are all they leave.                          *)
THEOREM StoreStaysBounded == Spec => []StoreBounded
<1>1. ASSUME NEW S, \A x, y \in S : x = y PROVE Cardinality(S) <= 1
  <2>1. CASE S = {}
    BY <2>1, FS_EmptySet
  <2>2. CASE S # {}
    <3>1. PICK x \in S : TRUE
      BY <2>2
    <3>2. S = {x}
      BY <1>1, <3>1
    <3>3. Cardinality({x}) = 1
      BY FS_Singleton
    <3> QED BY <3>2, <3>3
  <2> QED BY <2>1, <2>2
<1>2. ASSUME IInv, ~setting.careless
      PROVE  /\ Cardinality(files \ {current}) <= 1
             /\ \A k \in {"gen", "ptr"} :
                  Cardinality({b \in Builders : <<b, k>> \in staging}) <= 1
  <2>1. \A g, h \in files \ {current} : g = h
    BY <1>2 DEF IInv, Careful, StoreInv
  <2>2. ASSUME NEW k \in {"gen", "ptr"}
        PROVE  \A a, b \in {c \in Builders : <<c, k>> \in staging} : a = b
    BY <1>2 DEF IInv, Careful, StoreInv
  <2> QED BY <1>1, <2>1, <2>2
<1>3. IInv => StoreBounded
  BY <1>2 DEF StoreBounded
<1> QED BY <1>3, AlwaysIInv, PTL

(* What a build reports is what it left of the store.                      *)
THEOREM OutcomesAreTrue == Spec => []OutcomesHold
<1>1. IInv => OutcomesHold
  BY DEF IInv, Careful, BuilderInv, OutcomeInv, OutcomesHold
<1> QED BY <1>1, AlwaysIInv, PTL

(* Even under a careless operator: a builder whose lock was removed        *)
(* changes one thing more at most before it notices.                       *)
THEOREM LosersStop == Spec => []LostLockStops
<1>1. IInv => LostLockStops
  BY DEF IInv, LostInv, LostLockStops
<1> QED BY <1>1, AlwaysIInv, PTL
==============================================================================
