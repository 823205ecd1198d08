------------------------- MODULE SnapshotStoreProofs -------------------------
(***************************************************************************)
(* Proofs about SnapshotStore, for any number of processes, snapshots,     *)
(* objects, pins and faults: its type invariant, that the current snapshot *)
(* can always be read, that no manifest is ever without its objects, that  *)
(* objects rest before they are deleted, that each fault abandons at most  *)
(* one directory, that confirmed pins hold, and that the store implements  *)
(* CurrentSnapshot.  And about the lock file the store is held by, module  *)
(* SnapshotLock.                                                           *)
(***************************************************************************)
EXTENDS SnapshotStore, FiniteSetTheorems, TLAPS

(* A publication under way has chosen its snapshot.                        *)
TargetChosen ==
  \A p \in Procs :
    pc[p] \in {"objects", "files", "activate"} => target[p] \in Snaps

TypeInv == TypeOK /\ TargetChosen

(* An absent pin is a value of the pins file.                              *)
LEMMA NoPinType == NoPin \in Pins
  BY BoundAssumption DEF NoPin, Pins, Never

(* What is written in the order of the paths is the snapshot's metadata.   *)
LEMMA FileOrderType == \A i \in 1..3 : FileOrder[i] \in MetaFiles
  BY DEF FileOrder, MetaFiles

(* The store starts well typed.                                            *)
LEMMA TypeInit == Init => TypeInv
  BY SnapAssumption, LockAssumption, BoundAssumption, NoPinType
  DEF Init, TypeInv, TypeOK, TargetChosen, NothingOrphaned, NothingPinned,
      Unobserved, Steps

(* A publication chooses its snapshot, or stops.                           *)
LEMMA PublishPlanType ==
  ASSUME TypeInv, NEW p \in Procs, PublishPlan(p) PROVE TypeInv'
<1>1. /\ entry \in Snaps \cup {NoSnap} /\ pc \in [Procs -> Steps]
      /\ target \in [Procs -> Snaps \cup {NoSnap}]
      /\ previous \in [Procs -> Snaps \cup {NoSnap}]
      /\ TargetChosen
  BY DEF TypeInv, TypeOK
<1>2. PICK s \in Snaps, step \in {"release", "activate", "objects"} :
        /\ Goto(p, step)
        /\ target' = [target EXCEPT ![p] = s] \/ step = "release"
        /\ target' = target \/ target' = [target EXCEPT ![p] = s]
        /\ previous' = previous \/ previous' = [previous EXCEPT ![p] = entry]
  BY DEF PublishPlan
<1>3. target' \in [Procs -> Snaps \cup {NoSnap}]
  BY <1>1, <1>2
<1>4. previous' \in [Procs -> Snaps \cup {NoSnap}]
  BY <1>1, <1>2
<1>5. pc' \in [Procs -> Steps] /\ TargetChosen'
  BY <1>1, <1>2 DEF TargetChosen, Goto, Steps, PublishSteps
<1>6. UNCHANGED <<disk, lock, now, removeSnaps, removeObjects, nextOrphaned,
                  pinId, nextPins, acked, faults>>
  BY DEF PublishPlan
<1> QED
  BY <1>3, <1>4, <1>5, <1>6 DEF TypeInv, TypeOK, disk

(* A prune plans to delete snapshots and objects, and to write a gc file.  *)
LEMMA PrunePlanType ==
  ASSUME TypeInv, NEW p \in Procs, PrunePlan(p) PROVE TypeInv'
<1>1. PICK step \in {"release", "deleting"} : Goto(p, step)
  BY DEF PrunePlan
<1>2. \/ UNCHANGED <<removeSnaps, removeObjects, nextOrphaned>>
      \/ \E S, O, E :
           /\ removeSnaps' = [removeSnaps EXCEPT ![p] = dirs \ S]
           /\ removeObjects' = [removeObjects EXCEPT ![p] =
                {o \in objects \ O : now - OrphanedSince(o) >= Grace}]
           /\ nextOrphaned' = [nextOrphaned EXCEPT ![p] =
                [o \in Objects |-> IF o \in E THEN OrphanedSince(o)
                                              ELSE Unobserved]]
  <2> DEFINE listed(k) == UNION {ObjectsOf[s] : s \in Retained(k)}
             expired(k) == {o \in objects \ listed(k) :
                              now - OrphanedSince(o) >= Grace}
             waiting(k) == (objects \ listed(k)) \ expired(k)
  <2>1. CASE ~UNCHANGED <<removeSnaps, removeObjects, nextOrphaned>>
    <3>1. PICK k \in KeepCounts :
            /\ removeSnaps' = [removeSnaps EXCEPT ![p] = dirs \ Retained(k)]
            /\ removeObjects' = [removeObjects EXCEPT ![p] = expired(k)]
            /\ nextOrphaned' = [nextOrphaned EXCEPT ![p] =
                 [o \in Objects |-> IF o \in waiting(k) THEN OrphanedSince(o)
                                                       ELSE Unobserved]]
      BY <2>1, Zenon DEF PrunePlan
    <3>2. expired(k) = {o \in objects \ listed(k) :
                          now - OrphanedSince(o) >= Grace}
      OBVIOUS
    <3> HIDE DEF listed, expired, waiting
    <3> QED
      BY <3>1, <3>2, Zenon
  <2> QED
    BY <2>1
<1>3. /\ dirs \subseteq Snaps /\ objects \subseteq Objects
      /\ removeSnaps \in [Procs -> SUBSET Snaps]
      /\ removeObjects \in [Procs -> SUBSET Objects]
      /\ nextOrphaned \in [Procs -> [Objects -> Unobserved..MaxNow]]
  BY DEF TypeInv, TypeOK
<1>4. removeSnaps' \in [Procs -> SUBSET Snaps]
  BY <1>2, <1>3
<1>5. removeObjects' \in [Procs -> SUBSET Objects]
  BY <1>2, <1>3
<1>6. \A o \in Objects : OrphanedSince(o) \in Unobserved..MaxNow
  BY BoundAssumption DEF TypeInv, TypeOK, OrphanedSince, Unobserved
<1>7. \A E : [o \in Objects |-> IF o \in E THEN OrphanedSince(o)
                                            ELSE Unobserved]
               \in [Objects -> Unobserved..MaxNow]
  BY <1>6, BoundAssumption DEF Unobserved
<1>8. nextOrphaned' \in [Procs -> [Objects -> Unobserved..MaxNow]]
  <2>1. CASE UNCHANGED nextOrphaned
    BY <2>1, <1>3
  <2>2. CASE \E E : nextOrphaned' = [nextOrphaned EXCEPT ![p] =
                [o \in Objects |-> IF o \in E THEN OrphanedSince(o)
                                              ELSE Unobserved]]
    <3>1. PICK since \in [Objects -> Unobserved..MaxNow] :
            nextOrphaned' = [nextOrphaned EXCEPT ![p] = since]
      BY <2>2, <1>7, Zenon
    <3> QED
      BY <3>1, <1>3
  <2> QED
    BY <1>2, <2>1, <2>2
<1>9. UNCHANGED <<disk, lock, now, target, previous, pinId, nextPins, acked,
                  faults>>
  BY DEF PrunePlan
<1>10. pc \in [Procs -> Steps] /\ TargetChosen
  BY DEF TypeInv, TypeOK
<1>11. pc' \in [Procs -> Steps]
  BY <1>1, <1>10 DEF Goto, Steps, PruneSteps
<1>12. TargetChosen'
  BY <1>1, <1>9, <1>10 DEF Goto, TargetChosen
<1> QED
  BY <1>4, <1>5, <1>8, <1>9, <1>11, <1>12 DEF TypeInv, TypeOK, disk

(* Deleting a snapshot takes files from it, and then its directory.        *)
LEMMA RemoveSnapshotType ==
  ASSUME TypeInv, NEW p \in Procs, RemoveSnapshot(p) PROVE TypeInv'
<1>1. /\ dirs \subseteq Snaps
      /\ files \in [Snaps -> SUBSET MetaFiles]
      /\ removeSnaps \in [Procs -> SUBSET Snaps]
  BY DEF TypeInv, TypeOK
<1>2. PICK s \in removeSnaps[p] :
        \/ /\ \E f \in files[s] :
                files' = [files EXCEPT ![s] = @ \ {f}]
           /\ UNCHANGED <<dirs, removeSnaps>>
        \/ /\ dirs' = dirs \ {s}
           /\ removeSnaps' = [removeSnaps EXCEPT ![p] = @ \ {s}]
           /\ UNCHANGED files
  BY DEF RemoveSnapshot
<1>3. s \in Snaps
  BY <1>1
<1>4. files' \in [Snaps -> SUBSET MetaFiles]
  BY <1>1, <1>2, <1>3
<1>5. removeSnaps' \in [Procs -> SUBSET Snaps] /\ dirs' \subseteq Snaps
  BY <1>1, <1>2
<1>6. UNCHANGED <<entry, changes, objects, orphanedSince, pins, lock, now, pc,
                  target, previous, removeObjects, nextOrphaned, pinId,
                  nextPins, acked, faults>>
  BY DEF RemoveSnapshot
<1> QED
  BY <1>4, <1>5, <1>6 DEF TypeInv, TypeOK, TargetChosen

(* The pins file an upsert is about to write.                              *)
LEMMA UpsertPlanType ==
  ASSUME TypeInv, NEW p \in Procs, UpsertPlan(p) PROVE TypeInv'
<1>1. /\ pins \in [PinIds -> Pins]
      /\ pinId \in [Procs -> PinIds \cup {NoSnap}]
      /\ nextPins \in [Procs -> [PinIds -> Pins]]
  BY DEF TypeInv, TypeOK
<1>2. \/ UNCHANGED <<pinId, nextPins>> /\ Goto(p, "release")
      \/ \E i \in PinIds, pin \in Pins :
           /\ Goto(p, "pinUpsert")
           /\ pinId' = [pinId EXCEPT ![p] = i]
           /\ nextPins' = [nextPins EXCEPT ![p] = [pins EXCEPT ![i] = pin]]
  <2>1. \A s \in Snaps, e \in {now + 1, Never} :
          [snap |-> s, expiresAt |-> e] \in Pins
    BY BoundAssumption DEF TypeInv, TypeOK, Pins, Never
  <2> QED
    BY <2>1 DEF UpsertPlan, WithPin
<1>3. \A i \in PinIds, pin \in Pins : [pins EXCEPT ![i] = pin] \in [PinIds -> Pins]
  BY <1>1
<1>4. nextPins' \in [Procs -> [PinIds -> Pins]]
  BY <1>1, <1>2, <1>3
<1>5. pinId' \in [Procs -> PinIds \cup {NoSnap}]
  BY <1>1, <1>2
<1>6. UNCHANGED <<disk, lock, now, target, previous, removeSnaps,
                  removeObjects, nextOrphaned, acked, faults>>
  BY DEF UpsertPlan
<1> QED
  BY ZenonT(60), <1>2, <1>4, <1>5, <1>6
  DEF TypeInv, TypeOK, TargetChosen, Goto, disk, Steps, PinWrites

(* The pins file a removal is about to write.                              *)
LEMMA RemovePlanType ==
  ASSUME TypeInv, NEW p \in Procs, RemovePlan(p) PROVE TypeInv'
<1>1. /\ pins \in [PinIds -> Pins]
      /\ pinId \in [Procs -> PinIds \cup {NoSnap}]
      /\ nextPins \in [Procs -> [PinIds -> Pins]]
  BY DEF TypeInv, TypeOK
<1>2. \/ UNCHANGED <<pinId, nextPins>> /\ Goto(p, "release")
      \/ \E i \in PinIds :
           /\ Goto(p, "pinRemove")
           /\ pinId' = [pinId EXCEPT ![p] = i]
           /\ nextPins' = [nextPins EXCEPT ![p] = [pins EXCEPT ![i] = NoPin]]
  BY DEF RemovePlan, WithPin
<1>3. \A i \in PinIds : [pins EXCEPT ![i] = NoPin] \in [PinIds -> Pins]
  BY <1>1, NoPinType
<1>4. nextPins' \in [Procs -> [PinIds -> Pins]]
  BY <1>1, <1>2, <1>3
<1>5. pinId' \in [Procs -> PinIds \cup {NoSnap}]
  BY <1>1, <1>2
<1>6. UNCHANGED <<disk, lock, now, target, previous, removeSnaps,
                  removeObjects, nextOrphaned, acked, faults>>
  BY DEF RemovePlan
<1> QED
  BY ZenonT(60), <1>2, <1>4, <1>5, <1>6
  DEF TypeInv, TypeOK, TargetChosen, Goto, disk, Steps, PinWrites

(* Acknowledging a pin, or forgetting one, keeps the history well typed.   *)
LEMMA AckedType ==
  ASSUME TypeOK, NEW i, NEW pin, i \in PinIds => pin \in Pins
  PROVE  [acked EXCEPT !.pins[i] = pin]
           \in [pins : [PinIds -> Pins], raced : BOOLEAN]
<1>1. /\ acked = [pins |-> acked.pins, raced |-> acked.raced]
      /\ acked.pins \in [PinIds -> Pins] /\ acked.raced \in BOOLEAN
  BY DEF TypeOK
<1>2. [acked.pins EXCEPT ![i] = pin] \in [PinIds -> Pins]
  BY <1>1
<1>3. [acked EXCEPT !.pins[i] = pin]
        = [pins |-> [acked.pins EXCEPT ![i] = pin], raced |-> acked.raced]
  BY <1>1
<1> QED
  BY <1>1, <1>2, <1>3

(* Every action keeps the state well typed.                                *)
LEMMA TypeStep == TypeInv /\ [Next]_vars => TypeInv'
<1> SUFFICES ASSUME TypeInv, [Next]_vars PROVE TypeInv'
  OBVIOUS
<1> USE SnapAssumption, LockAssumption, BoundAssumption
<1> USE DEF TypeInv, TypeOK, TargetChosen, Goto, disk, plan, Steps,
            PublishSteps, PruneSteps, PinSteps, PinWrites, Unobserved
<1>1. ASSUME NEW p \in Procs,
             NEW step \in {"publish", "prune", "upsert", "remove"},
             Acquire(p, step)
      PROVE  TypeInv'
  <2>1. acked' \in [pins : [PinIds -> Pins], raced : BOOLEAN]
    <3>1. acked \in [pins : [PinIds -> Pins], raced : BOOLEAN]
      OBVIOUS
    <3>2. PICK b \in BOOLEAN : acked' = [acked EXCEPT !.raced = b]
      BY <1>1 DEF Acquire
    <3> QED
      BY <3>1, <3>2
  <2>2. Goto(p, step) /\ lock' = p /\ UNCHANGED <<disk, now, plan, faults>>
    BY <1>1 DEF Acquire
  <2> QED
    BY <2>1, <2>2
<1>2. ASSUME NEW p \in Procs, PublishPlan(p) PROVE TypeInv'
  BY <1>2, PublishPlanType
<1>3. ASSUME NEW p \in Procs, WriteObject(p) PROVE TypeInv'
  <2>1. pc[p] = "objects" /\ target[p] \in Snaps
    BY <1>3 DEF WriteObject
  <2>2. ObjectsOf[target[p]] \subseteq Objects
    BY <2>1
  <2>3. objects' \subseteq Objects
    BY <1>3, <2>2 DEF WriteObject
  <2>4. UNCHANGED <<entry, dirs, files, changes, orphanedSince, pins, lock, now,
                    pc, plan, acked, faults>>
    BY <1>3 DEF WriteObject
  <2> QED
    BY <2>3, <2>4
<1>4. ASSUME NEW p \in Procs, ObjectsWritten(p) PROVE TypeInv'
  BY <1>4 DEF ObjectsWritten
<1>5. ASSUME NEW p \in Procs, MakeSnapshotDir(p) PROVE TypeInv'
  BY ZenonT(60), <1>5 DEF MakeSnapshotDir
<1>6. ASSUME NEW p \in Procs, WriteFile(p) PROVE TypeInv'
  <2>1. target[p] \in Snaps
    BY <1>6 DEF WriteFile
  <2>2. PICK i \in 1..3 :
          /\ files' = [files EXCEPT ![target[p]] = @ \cup {FileOrder[i]}]
          /\ changes' = IF FileOrder[i] = "CHANGES"
                          THEN [changes EXCEPT ![target[p]] = previous[p]]
                          ELSE changes
    BY <1>6 DEF WriteFile
  <2>3. FileOrder[i] \in MetaFiles
    BY <2>2, FileOrderType
  <2>4. files' \in [Snaps -> SUBSET MetaFiles]
    BY <2>1, <2>2, <2>3
  <2>5. changes' \in [Snaps -> Snaps \cup {NoSnap}]
    BY <2>2
  <2> QED
    BY <1>6, <2>4, <2>5 DEF WriteFile
<1>7. ASSUME NEW p \in Procs, FilesWritten(p) PROVE TypeInv'
  BY <1>7 DEF FilesWritten
<1>8. ASSUME NEW p \in Procs, WriteEntry(p) PROVE TypeInv'
  BY <1>8 DEF WriteEntry
<1>9. ASSUME NEW p \in Procs, PrunePlan(p) PROVE TypeInv'
  BY <1>9, PrunePlanType
<1>10. ASSUME NEW p \in Procs, RemoveSnapshot(p) PROVE TypeInv'
  BY <1>10, RemoveSnapshotType
<1>11. ASSUME NEW p \in Procs, RemoveObject(p) PROVE TypeInv'
  BY <1>11 DEF RemoveObject
<1>12. ASSUME NEW p \in Procs, WriteGcState(p) PROVE TypeInv'
  BY <1>12 DEF WriteGcState
<1>13. ASSUME NEW p \in Procs, UpsertPlan(p) PROVE TypeInv'
  BY <1>13, UpsertPlanType
<1>14. ASSUME NEW p \in Procs, RemovePlan(p) PROVE TypeInv'
  BY <1>14, RemovePlanType
<1>15. ASSUME NEW p \in Procs, ReleaseBeforeWrite(p) PROVE TypeInv'
  BY <1>15 DEF ReleaseBeforeWrite
<1>16. ASSUME NEW p \in Procs, WritePins(p) PROVE TypeInv'
  <2>1. acked' = [acked EXCEPT !.pins[pinId[p]] = NoPin]
    BY <1>16 DEF WritePins
  <2>2. pins' = nextPins[p]
          /\ (Goto(p, "pinUpserted") \/ Goto(p, "pinRemoved"))
          /\ UNCHANGED <<entry, dirs, files, changes, objects, orphanedSince,
                         lock, now, plan, faults>>
    BY <1>16 DEF WritePins
  <2>3. acked' \in [pins : [PinIds -> Pins], raced : BOOLEAN]
    BY <2>1, AckedType, NoPinType
  <2>4. pins' \in [PinIds -> Pins]
    BY <2>2
  <2> QED
    BY <2>2, <2>3, <2>4
<1>17. ASSUME NEW p \in Procs, ConfirmPins(p) PROVE TypeInv'
  <2>1. \/ acked' = acked
        \/ acked' = [acked EXCEPT !.pins[pinId[p]] = nextPins[p][pinId[p]]]
    BY <1>17 DEF ConfirmPins
  <2>3. pinId[p] \in PinIds => nextPins[p][pinId[p]] \in Pins
    OBVIOUS
  <2>2. Goto(p, "release") /\ UNCHANGED <<disk, lock, now, plan, faults>>
    BY <1>17 DEF ConfirmPins
  <2>4. acked' \in [pins : [PinIds -> Pins], raced : BOOLEAN]
    BY <2>1, <2>3, AckedType
  <2> QED
    BY <2>2, <2>4
<1>18. ASSUME NEW p \in Procs, Release(p) PROVE TypeInv'
  BY <1>18, NoPinType DEF Release, ForgetPlan, NothingOrphaned, NothingPinned
<1>19. ASSUME NEW p \in Procs, Fail(p) PROVE TypeInv'
  BY <1>19 DEF Fail
<1>20. ASSUME NEW p \in Procs, Crash(p) PROVE TypeInv'
  BY <1>20, NoPinType DEF Crash, ForgetPlan, NothingOrphaned, NothingPinned
<1>21. CASE Tick
  BY <1>21 DEF Tick
<1>22. ASSUME NEW p \in Procs, AcquireFails(p) PROVE TypeInv'
  BY <1>22 DEF AcquireFails
<1>23. ASSUME NEW p \in Procs, ReleaseFails(p) PROVE TypeInv'
  <2>1. UNCHANGED <<disk, now, acked>> /\ faults' \in 0..MaxFaults
        /\ lock' = Left(p)
    BY <1>23 DEF ReleaseFails
  <2>2. CASE UNCHANGED <<pc, plan>>
    BY <2>1, <2>2
  <2>3. CASE Goto(p, "idle") /\ ForgetPlan(p)
    BY <2>1, <2>3, NoPinType DEF ForgetPlan, NothingOrphaned, NothingPinned
  <2> QED
    BY <1>23, <2>2, <2>3 DEF ReleaseFails
<1>24. ASSUME NEW p \in Procs, Exit(p) \/ PidReused(p) PROVE TypeInv'
  BY <1>24 DEF Exit, PidReused
<1>25. CASE UNCHANGED vars
  BY <1>25 DEF vars
<1> QED
  BY <1>1, <1>2, <1>3, <1>4, <1>5, <1>6, <1>7, <1>8, <1>9, <1>10,
     <1>11, <1>12, <1>13, <1>14, <1>15, <1>16, <1>17, <1>18, <1>19,
     <1>20, <1>21, <1>22, <1>23, <1>24, <1>25
  DEF Next, Publish, Prune, Pin, LockFile

(* The state of the store, the lock and every process keeps its type.      *)
THEOREM TypeCorrect == Spec => []TypeOK
<1>1. TypeInv => TypeOK
  BY DEF TypeInv
<1> QED
  BY TypeInit, TypeStep, <1>1, PTL DEF Spec

------------------------------------------------------------------------------
(* Safety.  The lock keeps everybody else out of a publication and of a    *)
(* pruning, so what either has established stays true until its next step. *)

LockHeld ==
  /\ \A p \in Procs :
       pc[p] \in PublishSteps \cup PruneSteps \cup PinSteps => lock = p
  /\ \A p \in Procs : lock = p => pc[p] # "idle"
  /\ faults = 0 => lock \in Procs \cup {Free}

FilesInDirs == \A s \in Snaps : files[s] # {} => s \in dirs

(* A publication has its objects before it writes metadata, and the whole  *)
(* snapshot before it switches the entry file.                             *)
Publishing ==
  \A p \in Procs :
    /\ pc[p] \in {"objects", "files", "activate"} => entry # target[p]
    /\ pc[p] = "files" => ObjectsOf[target[p]] \subseteq objects
    /\ pc[p] = "activate" => Verified(target[p])

(* A pruning deletes neither the current snapshot nor an object that a     *)
(* manifest it keeps lists, nor an orphan before its time.                 *)
Pruning ==
  \A p \in Procs : pc[p] = "deleting" =>
    /\ entry \notin removeSnaps[p]
    /\ \A s \in Snaps \ removeSnaps[p] :
         "SNAPSHOT" \in files[s] => ObjectsOf[s] \cap removeObjects[p] = {}
    /\ Grace > 0 => \A o \in removeObjects[p] :
         orphanedSince[o] # Unobserved /\ now - orphanedSince[o] >= Grace

StoreInv ==
  FilesInDirs /\ Publishing /\ Pruning /\ NoDanglingManifest /\ CurrentReadable

SafeInv == TypeInv /\ LockHeld /\ StoreInv

(* Only the holder of the lock is between the first and the last step of a *)
(* publication or of a pruning.                                            *)
LEMMA LockStep == TypeInv /\ LockHeld /\ [Next]_vars => LockHeld'
<1> SUFFICES ASSUME TypeInv, LockHeld, [Next]_vars PROVE LockHeld'
  OBVIOUS
<1>0. lock \in Procs \cup {Left(p) : p \in Procs} \cup {Free, Dead} /\ pc \in [Procs -> Steps]
        /\ faults \in Nat
  BY BoundAssumption DEF TypeInv, TypeOK
<1> USE LockAssumption, <1>0
<1> USE DEF LockHeld, Goto, PublishSteps, PruneSteps, PinSteps
<1>1. ASSUME NEW p \in Procs,
             NEW step \in {"publish", "prune", "upsert", "remove"},
             Acquire(p, step)
      PROVE  LockHeld'
  BY <1>1 DEF Acquire
<1>2. ASSUME NEW p \in Procs, PublishPlan(p) PROVE LockHeld'
  BY <1>2 DEF PublishPlan
<1>3. ASSUME NEW p \in Procs, WriteObject(p) PROVE LockHeld'
  BY <1>3 DEF WriteObject
<1>4. ASSUME NEW p \in Procs, ObjectsWritten(p) PROVE LockHeld'
  BY <1>4 DEF ObjectsWritten
<1>5. ASSUME NEW p \in Procs, MakeSnapshotDir(p) PROVE LockHeld'
  BY <1>5 DEF MakeSnapshotDir
<1>6. ASSUME NEW p \in Procs, WriteFile(p) PROVE LockHeld'
  BY <1>6 DEF WriteFile
<1>7. ASSUME NEW p \in Procs, FilesWritten(p) PROVE LockHeld'
  BY <1>7 DEF FilesWritten
<1>8. ASSUME NEW p \in Procs, WriteEntry(p) PROVE LockHeld'
  BY <1>8 DEF WriteEntry
<1>9. ASSUME NEW p \in Procs, PrunePlan(p) PROVE LockHeld'
  BY <1>9 DEF PrunePlan
<1>10. ASSUME NEW p \in Procs, RemoveSnapshot(p) PROVE LockHeld'
  BY <1>10 DEF RemoveSnapshot
<1>11. ASSUME NEW p \in Procs, RemoveObject(p) PROVE LockHeld'
  BY <1>11 DEF RemoveObject
<1>12. ASSUME NEW p \in Procs, WriteGcState(p) PROVE LockHeld'
  BY <1>12 DEF WriteGcState
<1>13. ASSUME NEW p \in Procs, UpsertPlan(p) PROVE LockHeld'
  BY <1>13 DEF UpsertPlan
<1>14. ASSUME NEW p \in Procs, RemovePlan(p) PROVE LockHeld'
  BY <1>14 DEF RemovePlan
<1>15. ASSUME NEW p \in Procs, ReleaseBeforeWrite(p) PROVE LockHeld'
  BY <1>15 DEF ReleaseBeforeWrite, PinWrites
<1>16. ASSUME NEW p \in Procs, WritePins(p) PROVE LockHeld'
  BY <1>16 DEF WritePins
<1>17. ASSUME NEW p \in Procs, ConfirmPins(p) PROVE LockHeld'
  BY <1>17 DEF ConfirmPins
<1>18. ASSUME NEW p \in Procs, Release(p) PROVE LockHeld'
  BY <1>18 DEF Release
<1>19. ASSUME NEW p \in Procs, Fail(p) PROVE LockHeld'
  BY <1>19 DEF Fail
<1>20. ASSUME NEW p \in Procs, Crash(p) PROVE LockHeld'
  BY <1>20 DEF Crash
<1>21. CASE Tick
  BY <1>21 DEF Tick
<1>22. ASSUME NEW p \in Procs, AcquireFails(p) PROVE LockHeld'
  BY <1>22 DEF AcquireFails
<1>23. ASSUME NEW p \in Procs, ReleaseFails(p) PROVE LockHeld'
  BY <1>23 DEF ReleaseFails, PinWrites
<1>24. ASSUME NEW p \in Procs, Exit(p) PROVE LockHeld'
  BY <1>24 DEF Exit
<1>25. ASSUME NEW p \in Procs, PidReused(p) PROVE LockHeld'
  BY <1>25 DEF PidReused
<1>26. CASE UNCHANGED vars
  BY <1>26 DEF vars
<1> QED
  BY <1>1, <1>2, <1>3, <1>4, <1>5, <1>6, <1>7, <1>8, <1>9, <1>10,
     <1>11, <1>12, <1>13, <1>14, <1>15, <1>16, <1>17, <1>18, <1>19,
     <1>20, <1>21, <1>22, <1>23, <1>24, <1>25, <1>26
  DEF Next, Publish, Prune, Pin, LockFile

(* Every action keeps the store safe.                                      *)
LEMMA SafeStep == SafeInv /\ [Next]_vars => SafeInv'
<1> SUFFICES ASSUME SafeInv, [Next]_vars PROVE SafeInv'
  OBVIOUS
<1>a. TypeInv' /\ LockHeld'
  BY TypeStep, LockStep DEF SafeInv
<1>b. /\ files \in [Snaps -> SUBSET MetaFiles] /\ entry \in Snaps \cup {NoSnap}
      /\ pc \in [Procs -> Steps] /\ target \in [Procs -> Snaps \cup {NoSnap}]
      /\ removeSnaps \in [Procs -> SUBSET Snaps]
      /\ removeObjects \in [Procs -> SUBSET Objects]
      /\ dirs \subseteq Snaps /\ objects \subseteq Objects
      /\ ObjectsOf \in [Snaps -> SUBSET Objects] /\ NoSnap \notin Snaps
      /\ \A p \in Procs : pc[p] \in {"objects", "files", "activate"}
           => target[p] \in Snaps
  BY SnapAssumption DEF SafeInv, TypeInv, TypeOK, TargetChosen
<1>c. \A p, q \in Procs :
        /\ pc[p] \in {"objects", "files", "activate", "deleting", "prune", "publish"}
        /\ pc[q] \in {"objects", "files", "activate", "deleting", "prune", "publish"}
        => p = q
  BY DEF SafeInv, LockHeld, PublishSteps, PruneSteps
<1>d. StoreInv
  BY DEF SafeInv
<1> USE <1>b, <1>c, <1>d
<1> USE DEF StoreInv, FilesInDirs, Publishing, Pruning, NoDanglingManifest,
            CurrentReadable, Verified, Goto, disk, plan
<1>1. ASSUME NEW p \in Procs,
             NEW step \in {"publish", "prune", "upsert", "remove"},
             Acquire(p, step)
      PROVE  StoreInv'
  BY <1>1 DEF Acquire
<1>2. ASSUME NEW p \in Procs, PublishPlan(p) PROVE StoreInv'
  BY <1>2 DEF PublishPlan, PublishStops
<1>3. ASSUME NEW p \in Procs, WriteObject(p) PROVE StoreInv'
  BY <1>3 DEF WriteObject
<1>4. ASSUME NEW p \in Procs, ObjectsWritten(p) PROVE StoreInv'
  BY <1>4 DEF ObjectsWritten
<1>5. ASSUME NEW p \in Procs, MakeSnapshotDir(p) PROVE StoreInv'
  BY <1>5 DEF MakeSnapshotDir
<1>6. ASSUME NEW p \in Procs, WriteFile(p) PROVE StoreInv'
  BY <1>6 DEF WriteFile
<1>7. ASSUME NEW p \in Procs, FilesWritten(p) PROVE StoreInv'
  BY <1>7 DEF FilesWritten
<1>8. ASSUME NEW p \in Procs, WriteEntry(p) PROVE StoreInv'
  BY <1>8 DEF WriteEntry
<1>9. ASSUME NEW p \in Procs, PrunePlan(p) PROVE StoreInv'
  <2>1. UNCHANGED <<entry, dirs, files, objects, orphanedSince, now, target>>
          /\ (Goto(p, "release") \/ Goto(p, "deleting"))
    BY <1>9 DEF PrunePlan
  <2>2. CASE Goto(p, "release")
    <3>1. UNCHANGED <<removeSnaps, removeObjects>>
      BY <1>9, <2>2 DEF PrunePlan
    <3> QED
      BY <2>1, <2>2, <3>1
  <2>3. CASE Goto(p, "deleting")
    <3>1. PICK k \in KeepCounts :
            /\ ~PruneRefused(k)
            /\ removeSnaps' = [removeSnaps EXCEPT ![p] = dirs \ Retained(k)]
            /\ removeObjects' = [removeObjects EXCEPT ![p] =
                 {o \in objects \ UNION {ObjectsOf[s] : s \in Retained(k)} :
                    now - OrphanedSince(o) >= Grace}]
      BY <1>9, <2>3 DEF PrunePlan
    <3>2. entry # NoSnap /\ entry \in Retained(k)
      BY <3>1 DEF PruneRefused, Retained
    <3>3. entry' \notin removeSnaps'[p]
      BY <2>1, <3>1, <3>2
    <3>4. ASSUME NEW s \in Snaps \ removeSnaps'[p], "SNAPSHOT" \in files[s]
          PROVE  ObjectsOf[s] \cap removeObjects'[p] = {}
      <4>1. s \in Retained(k)
        BY <3>1, <3>4
      <4> QED
        BY <3>1, <4>1
    <3>5. ASSUME Grace > 0, NEW o \in removeObjects'[p]
          PROVE  orphanedSince[o] # Unobserved /\ now - orphanedSince[o] >= Grace
      <4>1. Grace \in Int /\ now \in Int /\ now - OrphanedSince(o) >= Grace
        BY <3>1, BoundAssumption DEF SafeInv, TypeInv, TypeOK
      <4> QED
        BY <3>5, <4>1 DEF OrphanedSince
    <3>6. Pruning'
      BY <2>1, <2>3, <3>1, <3>3, <3>4, <3>5
    <3> QED
      BY <2>1, <2>3, <3>6
  <2> QED
    BY <2>1, <2>2, <2>3
<1>10. ASSUME NEW p \in Procs, RemoveSnapshot(p) PROVE StoreInv'
  BY <1>10 DEF RemoveSnapshot
<1>11. ASSUME NEW p \in Procs, RemoveObject(p) PROVE StoreInv'
  BY <1>11 DEF RemoveObject
<1>12. ASSUME NEW p \in Procs, WriteGcState(p) PROVE StoreInv'
  BY <1>12 DEF WriteGcState
<1>13. ASSUME NEW p \in Procs, UpsertPlan(p) PROVE StoreInv'
  BY <1>13 DEF UpsertPlan
<1>14. ASSUME NEW p \in Procs, RemovePlan(p) PROVE StoreInv'
  BY <1>14 DEF RemovePlan
<1>15. ASSUME NEW p \in Procs, ReleaseBeforeWrite(p) PROVE StoreInv'
  BY <1>15 DEF ReleaseBeforeWrite
<1>16. ASSUME NEW p \in Procs, WritePins(p) PROVE StoreInv'
  BY <1>16 DEF WritePins
<1>17. ASSUME NEW p \in Procs, ConfirmPins(p) PROVE StoreInv'
  BY <1>17 DEF ConfirmPins
<1>18. ASSUME NEW p \in Procs, Release(p) PROVE StoreInv'
  BY <1>18 DEF Release, ForgetPlan
<1>19. ASSUME NEW p \in Procs, Fail(p) PROVE StoreInv'
  BY <1>19 DEF Fail
<1>20. ASSUME NEW p \in Procs, Crash(p) PROVE StoreInv'
  BY <1>20 DEF Crash, ForgetPlan
<1>21. ASSUME Tick PROVE StoreInv'
  <2>1. UNCHANGED <<disk, pc, plan>> /\ now' = now + 1
    BY <1>21 DEF Tick
  <2>2. /\ Grace \in Int /\ now \in Int /\ \A o \in Objects : orphanedSince[o] \in Int
        /\ \A p \in Procs : removeObjects[p] \subseteq Objects
    BY BoundAssumption DEF SafeInv, TypeInv, TypeOK, Unobserved
  <2>3. Pruning'
    BY <2>1, <2>2
  <2> QED
    BY <2>1, <2>3
<1>22. ASSUME NEW p \in Procs, LockFile(p) PROVE StoreInv'
  BY <1>22 DEF LockFile, AcquireFails, ReleaseFails, Exit, PidReused, ForgetPlan
<1>23. ASSUME UNCHANGED vars PROVE StoreInv'
  <2>1. UNCHANGED <<disk, pc, plan, now>>
    BY <1>23 DEF vars
  <2> QED
    BY <2>1
<1> HIDE DEF StoreInv, Goto, disk, plan
<1>e. StoreInv'
  BY <1>1, <1>2, <1>3, <1>4, <1>5, <1>6, <1>7, <1>8, <1>9, <1>10,
     <1>11, <1>12, <1>13, <1>14, <1>15, <1>16, <1>17, <1>18, <1>19,
     <1>20, <1>21, <1>22, <1>23
  DEF Next, Publish, Prune, Pin
<1> QED
  BY <1>a, <1>e DEF SafeInv

(* An empty store is safe.                                                 *)
LEMMA SafeInit == Init => SafeInv
<1> SUFFICES ASSUME Init PROVE SafeInv
  OBVIOUS
<1>1. TypeInv
  BY TypeInit
<1>2. LockHeld
  BY LockAssumption
  DEF Init, LockHeld, PublishSteps, PruneSteps, PinSteps
<1>3. StoreInv
  BY DEF Init, StoreInv, FilesInDirs, Publishing, Pruning,
         NoDanglingManifest, CurrentReadable
<1> QED
  BY <1>1, <1>2, <1>3 DEF SafeInv

LEMMA SafeAlways == Spec => []SafeInv
  BY SafeInit, SafeStep, PTL DEF Spec

(* The lock file is accounted for, whatever an operation refuses, throws   *)
(* or dies of, the taking and the releasing of the lock included: it is    *)
(* with an operation under way, or left by a call of the lock that failed, *)
(* and then nobody works beside it.                                        *)
THEOREM LockAccountedFor == Spec => []LockHeldByWorker
<1>1. ASSUME SafeInv PROVE LockHeldByWorker
  <2>1. /\ pc \in [Procs -> Steps]
        /\ \A p \in Procs : Left(p) \notin Procs
    BY <1>1, LockAssumption DEF SafeInv, TypeInv, TypeOK
  <2>2. ASSUME NEW p \in Procs, lock = Left(p), NEW q \in Procs
        PROVE  pc[q] \in {"idle", "release"} \cup PinWrites
    <3>1. lock # q
      BY <2>1, <2>2
    <3> QED
      BY <1>1, <2>1, <3>1 DEF SafeInv, LockHeld, Steps
  <2> QED
    BY <1>1, <2>2 DEF SafeInv, LockHeld, LockHeldByWorker
<1> QED
  BY SafeAlways, <1>1, PTL

(* Whatever is published, pruned, refused or cut short by crashes, the     *)
(* entry file names a snapshot whose manifest and objects are all there.   *)
THEOREM CurrentAlwaysReadable == Spec => []CurrentReadable
<1>1. SafeInv => CurrentReadable
  BY DEF SafeInv, StoreInv
<1> QED
  BY SafeAlways, <1>1, PTL

(* No manifest on disk is without an object it lists, not even between the *)
(* steps of a publication or a pruning.                                    *)
THEOREM ManifestsHaveObjects == Spec => []NoDanglingManifest
<1>1. SafeInv => NoDanglingManifest
  BY DEF SafeInv, StoreInv
<1> QED
  BY SafeAlways, <1>1, PTL

(* Only a pruning deletes an object, only one that the gc file recorded as *)
(* an orphan a grace period ago or earlier, and none that a manifest lists.*)
(* Whether a snapshot has listed it in between is not asked.               *)
THEOREM OnlyRecordedObjectsGo == Spec => OnlyRecordedOrphansGo
<1>1. ASSUME SafeInv, [Next]_vars, NEW o \in objects \ objects'
      PROVE  /\ Grace > 0 => /\ orphanedSince[o] # Unobserved
                            /\ now - orphanedSince[o] >= Grace
             /\ \A s \in Snaps : "SNAPSHOT" \in files[s] => o \notin ObjectsOf[s]
  <2>1. PICK p \in Procs : RemoveObject(p)
    BY <1>1
    DEF Next, vars, Publish, Prune, Pin, disk, Acquire, Release, PublishPlan,
        WriteObject, ObjectsWritten, MakeSnapshotDir, WriteFile,
        FilesWritten, WriteEntry, PrunePlan, RemoveSnapshot, WriteGcState,
        UpsertPlan, RemovePlan, ReleaseBeforeWrite, WritePins, ConfirmPins,
        Fail, Crash, Tick, LockFile, AcquireFails, ReleaseFails, Exit,
        PidReused
  <2>2. pc[p] = "deleting" /\ removeSnaps[p] = {} /\ o \in removeObjects[p]
    BY <1>1, <2>1 DEF RemoveObject
  <2> QED
    BY <1>1, <2>2 DEF SafeInv, StoreInv, Pruning
<1>2. SafeInv /\ [Next]_vars =>
        [\A o \in objects \ objects' :
           /\ Grace > 0 => /\ orphanedSince[o] # Unobserved
                          /\ now - orphanedSince[o] >= Grace
           /\ \A s \in Snaps :
                "SNAPSHOT" \in files[s] => o \notin ObjectsOf[s]]_vars
  BY <1>1, Zenon
<1> QED
  BY SafeAlways, <1>2, PTL DEF Spec, OnlyRecordedOrphansGo

------------------------------------------------------------------------------
(* Abandoned directories.  Without a fault nobody leaves a directory that  *)
(* has no manifest: a publication leaves with the manifest written, and a  *)
(* pruning with every directory of its plan removed.  With one, only the   *)
(* directory at hand stays: a pruning takes its snapshots one by one, the  *)
(* newest first, and starts only when every directory has a manifest.      *)

NewestFirst ==
  \A p \in Procs : pc[p] = "deleting" =>
    \A s, t \in removeSnaps[p] : s < t => "SNAPSHOT" \in files[s]

DirectoryInv ==
  NewestFirst /\ IsFiniteSet(Abandoned) /\ AbandonedOnlyByFaults

(* What every step may rely on.                                            *)
LEMMA DirectoryFacts ==
  ASSUME SafeInv
  PROVE  /\ files \in [Snaps -> SUBSET MetaFiles] /\ dirs \subseteq Snaps
         /\ pc \in [Procs -> Steps] /\ target \in [Procs -> Snaps \cup {NoSnap}]
         /\ removeSnaps \in [Procs -> SUBSET Snaps]
         /\ lock \in Procs \cup {Left(p) : p \in Procs} \cup {Free, Dead}
         /\ faults \in Nat /\ Snaps \subseteq Nat
         /\ \A p \in Procs : pc[p] \in {"objects", "files", "activate"}
              => target[p] \in Snaps
         /\ \A p \in Procs :
              pc[p] \in {"publish", "objects", "files", "activate", "prune",
                         "deleting"} => lock = p
BY BoundAssumption, SnapAssumption
DEF SafeInv, TypeInv, TypeOK, TargetChosen, LockHeld, PublishSteps, PruneSteps

LEMMA NewestFirstStep ==
  ASSUME SafeInv, NewestFirst, [Next]_vars PROVE NewestFirst'
<1> USE DirectoryFacts
<1> USE DEF NewestFirst, Goto
<1>1. ASSUME NEW p \in Procs, PrunePlan(p) PROVE NewestFirst'
  <2>1. UNCHANGED files /\ (Goto(p, "release") \/ Goto(p, "deleting"))
    BY <1>1 DEF PrunePlan, disk
  <2>2. CASE Goto(p, "release")
    <3>1. UNCHANGED removeSnaps
      BY <1>1, <2>2 DEF PrunePlan
    <3> QED
      BY <2>1, <2>2, <3>1
  <2>3. CASE Goto(p, "deleting")
    <3>1. PICK k \in KeepCounts :
            ~PruneRefused(k)
              /\ removeSnaps' = [removeSnaps EXCEPT ![p] = dirs \ Retained(k)]
      BY <1>1, <2>3 DEF PrunePlan
    <3>2. \A s \in dirs : "SNAPSHOT" \in files[s]
      BY <3>1 DEF PruneRefused
    <3> QED
      BY <2>1, <2>3, <3>1, <3>2
  <2> QED
    BY <2>1, <2>2, <2>3
<1>2. ASSUME NEW p \in Procs, RemoveSnapshot(p) PROVE NewestFirst'
  <2>1. PICK s \in removeSnaps[p] :
          /\ \A t \in removeSnaps[p] : t <= s
          /\ \/ /\ \E f \in files[s] : files' = [files EXCEPT ![s] = @ \ {f}]
                /\ UNCHANGED removeSnaps
             \/ /\ removeSnaps' = [removeSnaps EXCEPT ![p] = @ \ {s}]
                /\ UNCHANGED files
    BY <1>2 DEF RemoveSnapshot
  <2>2. pc' = pc /\ pc[p] = "deleting"
    BY <1>2 DEF RemoveSnapshot
  <2>3. \A q \in Procs : pc[q] = "deleting" => q = p
    BY <2>2
  <2>4. ASSUME NEW r \in removeSnaps'[p], NEW t \in removeSnaps'[p], r < t
        PROVE  "SNAPSHOT" \in files'[r]
    <3>1. r \in removeSnaps[p] /\ t \in removeSnaps[p]
      BY <2>1, <2>4
    <3>2. r # s
      BY <2>1, <2>4, <3>1
    <3>3. "SNAPSHOT" \in files[r]
      BY <2>2, <2>4, <3>1
    <3> QED
      BY <2>1, <3>1, <3>2, <3>3
  <2> QED
    BY <2>2, <2>3, <2>4
<1>3. ASSUME NEW p \in Procs, WriteFile(p) PROVE NewestFirst'
  <2>1. PICK f : files' = [files EXCEPT ![target[p]] = @ \cup {f}]
    BY <1>3 DEF WriteFile
  <2>2. UNCHANGED <<pc, removeSnaps>>
    BY <1>3 DEF WriteFile, plan
  <2> QED
    BY <2>1, <2>2
<1>4. ASSUME NEW p \in Procs, Release(p) \/ Crash(p) \/ ReleaseFails(p)
      PROVE  NewestFirst'
  <2>1. UNCHANGED files
    BY <1>4 DEF Release, Crash, ReleaseFails, disk
  <2>2. \/ UNCHANGED <<pc, removeSnaps>>
        \/ /\ pc' = [pc EXCEPT ![p] = "idle"]
           /\ removeSnaps' = [removeSnaps EXCEPT ![p] = {}]
    BY <1>4 DEF Release, Crash, ReleaseFails, ForgetPlan, plan
  <2> QED
    BY <2>1, <2>2
<1>5. ASSUME UNCHANGED <<files, removeSnaps>>,
             \A p \in Procs : pc'[p] = "deleting" => pc[p] = "deleting"
      PROVE  NewestFirst'
  BY <1>5
<1>6. \/ \E p \in Procs : PrunePlan(p) \/ RemoveSnapshot(p) \/ WriteFile(p)
           \/ Release(p) \/ Crash(p) \/ ReleaseFails(p)
      \/ /\ UNCHANGED <<files, removeSnaps>>
         /\ \A p \in Procs : pc'[p] = "deleting" => pc[p] = "deleting"
  <2>1. CASE UNCHANGED vars
    BY <2>1 DEF vars, disk, plan
  <2>2. CASE Tick
    BY <2>2 DEF Tick, disk, plan
  <2>3. ASSUME NEW p \in Procs,
               \/ PublishPlan(p) \/ WriteObject(p) \/ ObjectsWritten(p)
               \/ MakeSnapshotDir(p) \/ FilesWritten(p) \/ WriteEntry(p)
               \/ RemoveObject(p) \/ WriteGcState(p)
        PROVE  /\ UNCHANGED <<files, removeSnaps>>
               /\ \A q \in Procs : pc'[q] = "deleting" => pc[q] = "deleting"
    BY <2>3 DEF PublishPlan, WriteObject, ObjectsWritten, MakeSnapshotDir,
                FilesWritten, WriteEntry, RemoveObject, WriteGcState, disk, plan
  <2>4. ASSUME NEW p \in Procs,
               \/ UpsertPlan(p) \/ RemovePlan(p) \/ ReleaseBeforeWrite(p)
               \/ WritePins(p) \/ ConfirmPins(p) \/ Fail(p)
               \/ AcquireFails(p) \/ Exit(p) \/ PidReused(p)
        PROVE  /\ UNCHANGED <<files, removeSnaps>>
               /\ \A q \in Procs : pc'[q] = "deleting" => pc[q] = "deleting"
    BY <2>4 DEF UpsertPlan, RemovePlan, ReleaseBeforeWrite, WritePins,
                ConfirmPins, Fail, AcquireFails, Exit, PidReused, disk, plan
  <2>5. ASSUME NEW p \in Procs, NEW step \in {"publish", "prune", "upsert", "remove"},
               Acquire(p, step)
        PROVE  /\ UNCHANGED <<files, removeSnaps>>
               /\ \A q \in Procs : pc'[q] = "deleting" => pc[q] = "deleting"
    BY <2>5 DEF Acquire, disk, plan
  <2> QED
    BY <2>1, <2>2, <2>3, <2>4, <2>5 DEF Next, Publish, Prune, Pin, LockFile
<1> QED
  BY <1>1, <1>2, <1>3, <1>4, <1>5, <1>6

(* Only a failed step or a death abandons a directory.                     *)
LEMMA NobodyElseAbandons ==
  ASSUME SafeInv, [Next]_vars, ~\E p \in Procs : Fail(p) \/ Crash(p)
  PROVE  Abandoned' \subseteq Abandoned
<1> SUFFICES Abandoned' \subseteq Abandoned
  OBVIOUS
<1> USE DirectoryFacts, LockAssumption
<1> USE DEF Abandoned, WorkedOn, Goto, disk, plan
<1>1. ASSUME NEW p \in Procs,
             NEW step \in {"publish", "prune", "upsert", "remove"},
             Acquire(p, step)
      PROVE  Abandoned' \subseteq Abandoned
  BY <1>1 DEF Acquire
<1>2. ASSUME NEW p \in Procs, PublishPlan(p) PROVE Abandoned' \subseteq Abandoned
  BY <1>2 DEF PublishPlan
<1>3. ASSUME NEW p \in Procs, WriteObject(p) PROVE Abandoned' \subseteq Abandoned
  BY <1>3 DEF WriteObject
<1>4. ASSUME NEW p \in Procs, ObjectsWritten(p) PROVE Abandoned' \subseteq Abandoned
  BY <1>4 DEF ObjectsWritten
<1>5. ASSUME NEW p \in Procs, MakeSnapshotDir(p) PROVE Abandoned' \subseteq Abandoned
  BY <1>5 DEF MakeSnapshotDir
<1>6. ASSUME NEW p \in Procs, WriteFile(p) PROVE Abandoned' \subseteq Abandoned
  BY <1>6 DEF WriteFile
<1>7. ASSUME NEW p \in Procs, FilesWritten(p) PROVE Abandoned' \subseteq Abandoned
  BY <1>7 DEF FilesWritten, Current, MetaFiles
<1>8. ASSUME NEW p \in Procs, WriteEntry(p) PROVE Abandoned' \subseteq Abandoned
  BY <1>8 DEF WriteEntry
<1>9. ASSUME NEW p \in Procs, PrunePlan(p) PROVE Abandoned' \subseteq Abandoned
  BY <1>9 DEF PrunePlan
<1>10. ASSUME NEW p \in Procs, RemoveSnapshot(p) PROVE Abandoned' \subseteq Abandoned
  BY <1>10 DEF RemoveSnapshot
<1>11. ASSUME NEW p \in Procs, RemoveObject(p) PROVE Abandoned' \subseteq Abandoned
  BY <1>11 DEF RemoveObject
<1>12. ASSUME NEW p \in Procs, WriteGcState(p) PROVE Abandoned' \subseteq Abandoned
  BY <1>12 DEF WriteGcState
<1>13. ASSUME NEW p \in Procs, UpsertPlan(p) PROVE Abandoned' \subseteq Abandoned
  BY <1>13 DEF UpsertPlan
<1>14. ASSUME NEW p \in Procs, RemovePlan(p) PROVE Abandoned' \subseteq Abandoned
  BY <1>14 DEF RemovePlan
<1>15. ASSUME NEW p \in Procs, ReleaseBeforeWrite(p) PROVE Abandoned' \subseteq Abandoned
  BY <1>15 DEF ReleaseBeforeWrite, PinWrites
<1>16. ASSUME NEW p \in Procs, WritePins(p) PROVE Abandoned' \subseteq Abandoned
  BY <1>16 DEF WritePins
<1>17. ASSUME NEW p \in Procs, ConfirmPins(p) PROVE Abandoned' \subseteq Abandoned
  BY <1>17 DEF ConfirmPins
<1>18. ASSUME NEW p \in Procs, Release(p) PROVE Abandoned' \subseteq Abandoned
  BY <1>18 DEF Release, ForgetPlan
<1>19. ASSUME NEW p \in Procs, ReleaseFails(p) PROVE Abandoned' \subseteq Abandoned
  BY <1>19 DEF ReleaseFails, ForgetPlan, PinWrites
<1>20. ASSUME NEW p \in Procs, AcquireFails(p) PROVE Abandoned' \subseteq Abandoned
  BY <1>20 DEF AcquireFails
<1>21. ASSUME NEW p \in Procs, Exit(p) PROVE Abandoned' \subseteq Abandoned
  BY <1>21 DEF Exit
<1>22. ASSUME NEW p \in Procs, PidReused(p) PROVE Abandoned' \subseteq Abandoned
  BY <1>22 DEF PidReused
<1>23. CASE Tick
  BY <1>23 DEF Tick
<1>24. CASE UNCHANGED vars
  BY <1>24 DEF vars
<1> HIDE DEF Abandoned
<1> QED
  BY <1>1, <1>2, <1>3, <1>4, <1>5, <1>6, <1>7, <1>8, <1>9, <1>10, <1>11, <1>12,
     <1>13, <1>14, <1>15, <1>16, <1>17, <1>18, <1>19, <1>20, <1>21, <1>22,
     <1>23, <1>24
  DEF Next, Publish, Prune, Pin, LockFile

(* A failed step or a death abandons what its operation was at work on,    *)
(* which is one directory without a manifest at most.                      *)
LEMMA FaultAbandonsOne ==
  ASSUME SafeInv, NewestFirst, NEW p \in Procs, Fail(p) \/ Crash(p)
  PROVE  \E s : Abandoned' \subseteq Abandoned \cup {s}
<1> USE DirectoryFacts, LockAssumption
<1>1. UNCHANGED <<files, dirs>> /\ lock' \in {lock, Dead}
        /\ \A q \in Procs \ {p} : pc'[q] = pc[q] /\ target'[q] = target[q]
                                  /\ removeSnaps'[q] = removeSnaps[q]
  BY DEF Fail, Crash, ForgetPlan, Goto, disk, plan
<1>2. lock' = Dead => lock \in {p, Left(p), Dead}
  BY DEF Fail, Crash
<1>3. ASSUME NEW s \in Abandoned' \ Abandoned
      PROVE  /\ s \in Snaps /\ "SNAPSHOT" \notin files[s]
             /\ \/ pc[p] = "files" /\ target[p] = s
                \/ pc[p] = "deleting" /\ s \in removeSnaps[p]
  <2>1. s \in Snaps /\ "SNAPSHOT" \notin files[s] /\ WorkedOn(s) /\ ~WorkedOn(s)'
    BY <1>1, <1>3 DEF Abandoned
  <2>2. PICK q \in Procs :
          /\ lock = q
          /\ \/ pc[q] = "files" /\ target[q] = s
             \/ pc[q] = "deleting" /\ s \in removeSnaps[q]
    BY <2>1 DEF WorkedOn
  <2>3. q = p
    BY <1>1, <1>2, <2>1, <2>2 DEF WorkedOn
  <2> QED
    BY <2>1, <2>2, <2>3
<1>4. ASSUME NEW s \in Abandoned' \ Abandoned, NEW t \in Abandoned' \ Abandoned
      PROVE  s = t
  BY <1>3, <1>4 DEF NewestFirst
<1>5. CASE Abandoned' \subseteq Abandoned
  BY <1>5
<1>6. CASE ~(Abandoned' \subseteq Abandoned)
  <2>1. PICK s \in Abandoned' : s \notin Abandoned
    BY <1>6
  <2> QED
    BY <1>4, <2>1
<1> QED
  BY <1>5, <1>6

LEMMA DirectoryStep ==
  ASSUME SafeInv, DirectoryInv, [Next]_vars PROVE DirectoryInv'
<1>1. NewestFirst'
  BY NewestFirstStep DEF DirectoryInv
<1>2. IsFiniteSet(Abandoned) /\ Cardinality(Abandoned) <= faults /\ faults \in Nat
  BY DirectoryFacts DEF DirectoryInv, AbandonedOnlyByFaults
<1>3. CASE \E p \in Procs : Fail(p) \/ Crash(p)
  <2>1. faults' = faults + 1
    BY <1>3 DEF Fail, Crash
  <2>2. PICK s : Abandoned' \subseteq Abandoned \cup {s}
    BY <1>3, FaultAbandonsOne DEF DirectoryInv
  <2>6. Cardinality(Abandoned) \in Nat
    BY <1>2, FS_CardinalityType
  <2>7. /\ IsFiniteSet(Abandoned \cup {s})
        /\ \/ Cardinality(Abandoned \cup {s}) = Cardinality(Abandoned)
           \/ Cardinality(Abandoned \cup {s}) = Cardinality(Abandoned) + 1
    <3> HIDE DEF Abandoned
    <3> QED
      BY <1>2, FS_AddElement
  <2>3. /\ IsFiniteSet(Abandoned \cup {s})
        /\ Cardinality(Abandoned \cup {s}) <= Cardinality(Abandoned) + 1
        /\ Cardinality(Abandoned) \in Nat /\ Cardinality(Abandoned \cup {s}) \in Nat
    BY <2>6, <2>7
  <2>4. /\ IsFiniteSet(Abandoned') /\ Cardinality(Abandoned') \in Nat
        /\ Cardinality(Abandoned') <= Cardinality(Abandoned \cup {s})
    BY <2>2, <2>3, FS_Subset, FS_CardinalityType
  <2>5. Cardinality(Abandoned') <= faults'
    BY <1>2, <2>1, <2>3, <2>4
  <2> QED
    BY <1>1, <2>4, <2>5 DEF DirectoryInv, AbandonedOnlyByFaults
<1>4. CASE ~\E p \in Procs : Fail(p) \/ Crash(p)
  <2>1. Abandoned' \subseteq Abandoned
    BY <1>4, NobodyElseAbandons
  <2>2. /\ IsFiniteSet(Abandoned') /\ Cardinality(Abandoned') \in Nat
        /\ Cardinality(Abandoned) \in Nat
        /\ Cardinality(Abandoned') <= Cardinality(Abandoned)
    BY <1>2, <2>1, FS_Subset, FS_CardinalityType
  <2>3. faults' \in Nat /\ faults' >= faults
    BY <1>2, DirectoryFacts
    DEF Next, vars, Publish, Prune, Pin, LockFile, Acquire, Release, PublishPlan,
        WriteObject, ObjectsWritten, MakeSnapshotDir, WriteFile,
        FilesWritten, WriteEntry, PrunePlan, RemoveSnapshot, RemoveObject,
        WriteGcState, UpsertPlan, RemovePlan, ReleaseBeforeWrite, WritePins,
        ConfirmPins, AcquireFails, ReleaseFails, Exit, PidReused, Fail, Crash, Tick
  <2>4. Cardinality(Abandoned') <= faults'
    BY <1>2, <2>2, <2>3
  <2> QED
    BY <1>1, <2>2, <2>4 DEF DirectoryInv, AbandonedOnlyByFaults
<1> QED
  BY <1>3, <1>4

(* However operations interleave, fail and die, the directories without a  *)
(* manifest that nobody is at work on are not more than the faults so far; *)
(* without any, every prune and every inspection can read all of them.     *)
THEOREM DirectoriesAreComplete == Spec => []AbandonedOnlyByFaults
<1>1. Init => DirectoryInv
  <2> SUFFICES ASSUME Init PROVE DirectoryInv
    OBVIOUS
  <2>1. Abandoned = {} /\ NewestFirst /\ faults = 0
    BY DEF Init, Abandoned, NewestFirst
  <2> QED
    BY <2>1, FS_EmptySet DEF DirectoryInv, AbandonedOnlyByFaults
<1>2. SafeInv /\ DirectoryInv /\ [Next]_vars => DirectoryInv'
  BY DirectoryStep
<1>3. DirectoryInv => AbandonedOnlyByFaults
  BY DEF DirectoryInv
<1> QED
  BY SafeAlways, <1>1, <1>2, <1>3, PTL DEF Spec

------------------------------------------------------------------------------
(* Pins.  Until the lock is taken while a pin operation that let go of it  *)
(* is still writing, that operation is alone with the pins file and with   *)
(* the snapshots: nobody else plans from what it is about to replace.      *)

PinWriterAlone ==
  \A p \in Procs : pc[p] \in PinWrites =>
    /\ lock \notin Procs \ {p}
    /\ \A q \in Procs : pc[q] \in PinWrites => q = p

(* What a pin operation writes differs from the file in its own pin only,  *)
(* and the snapshot of an upsert stays verified while it is being written. *)
PinWriterKnows ==
  \A p \in Procs : pc[p] \in PinWrites =>
    /\ pinId[p] \in PinIds
    /\ pc[p] \in {"pinUpsert", "pinRemove"} =>
         \A i \in PinIds \ {pinId[p]} : nextPins[p][i] = pins[i]
    /\ pc[p] \in {"pinUpserted", "pinRemoved"} =>
         pins = nextPins[p] /\ acked.pins[pinId[p]] = NoPin
    /\ pc[p] \in {"pinUpsert", "pinUpserted"} =>
         LET s == nextPins[p][pinId[p]].snap IN s \in Snaps /\ Verified(s)

(* A pruning spares what an active pin protects.                           *)
PinsSpared ==
  \A p \in Procs : pc[p] = "deleting" =>
    \A i \in PinIds : Active(i) => pins[i].snap \notin removeSnaps[p]

AckedAreUpserts ==
  \A i \in PinIds : acked.pins[i] # NoPin => acked.pins[i].snap \in Snaps

PinInv ==
  ~acked.raced =>
    /\ PinWriterAlone /\ PinWriterKnows /\ PinsSpared
    /\ AckedAreUpserts /\ AckedPinsAlwaysHold

(* What every step may rely on.                                            *)
LEMMA PinFacts ==
  ASSUME SafeInv
  PROVE  /\ files \in [Snaps -> SUBSET MetaFiles]
         /\ pc \in [Procs -> Steps] /\ target \in [Procs -> Snaps \cup {NoSnap}]
         /\ removeSnaps \in [Procs -> SUBSET Snaps]
         /\ removeObjects \in [Procs -> SUBSET Objects]
         /\ pins \in [PinIds -> Pins]
         /\ pinId \in [Procs -> PinIds \cup {NoSnap}]
         /\ nextPins \in [Procs -> [PinIds -> Pins]]
         /\ acked \in [pins : [PinIds -> Pins], raced : BOOLEAN]
         /\ now \in Nat
         /\ lock \in Procs \cup {Left(p) : p \in Procs} \cup {Free, Dead}
         /\ ObjectsOf \in [Snaps -> SUBSET Objects] /\ NoSnap \notin Snaps
         /\ \A p \in Procs : pc[p] \in {"objects", "files", "activate"}
              => target[p] \in Snaps
         /\ \A p \in Procs :
              pc[p] \in {"publish", "objects", "files", "activate", "prune",
                         "deleting", "upsert", "remove"} => lock = p
BY SnapAssumption
DEF SafeInv, TypeInv, TypeOK, TargetChosen, LockHeld, PublishSteps, PruneSteps,
    PinSteps

(* A step that leaves the pins, their writers and the clock alone keeps    *)
(* PinInv if it deletes nothing an acknowledged or planned pin protects.   *)
LEMMA PinsUntouched ==
  ASSUME SafeInv, PinInv,
         UNCHANGED <<pins, pinId, nextPins, acked, now, removeSnaps>>,
         \A s \in Snaps : Verified(s) => Verified(s)',
         \A p \in Procs : pc'[p] \in PinWrites \cup {"deleting"}
           => pc'[p] = pc[p] /\ (lock' \in Procs \ {p} => lock' = lock)
  PROVE  PinInv'
BY PinFacts
DEF PinInv, PinWriterAlone, PinWriterKnows, PinsSpared, AckedAreUpserts,
    AckedPinsAlwaysHold, Active, PinWrites

(* A publication adds to what can be verified, and writes no pins.         *)
LEMMA PublishKeepsPins ==
  ASSUME SafeInv, PinInv, NEW p \in Procs,
         \/ PublishPlan(p) \/ WriteObject(p) \/ ObjectsWritten(p)
         \/ MakeSnapshotDir(p) \/ WriteFile(p) \/ FilesWritten(p)
         \/ WriteEntry(p)
  PROVE  PinInv'
<1>1. UNCHANGED <<pins, pinId, nextPins, acked, now, removeSnaps, lock>>
  BY DEF PublishPlan, WriteObject, ObjectsWritten, MakeSnapshotDir, WriteFile,
         FilesWritten, WriteEntry, disk, plan
<1>2. \A s \in Snaps : Verified(s) => Verified(s)'
  BY PinFacts
  DEF PublishPlan, WriteObject, ObjectsWritten, MakeSnapshotDir, WriteFile,
      FilesWritten, WriteEntry, disk, plan, Verified
<1>3. \A q \in Procs : pc'[q] \in PinWrites \cup {"deleting"} => pc'[q] = pc[q]
  BY PinFacts
  DEF PublishPlan, WriteObject, ObjectsWritten, MakeSnapshotDir, WriteFile,
      FilesWritten, WriteEntry, disk, plan, Goto, PinWrites
<1> QED
  BY <1>1, <1>2, <1>3, PinsUntouched

(* A pruning spares the snapshots of active pins, and what it deletes is   *)
(* listed by none of the manifests it keeps.                               *)
LEMMA PruneKeepsPins ==
  ASSUME SafeInv, PinInv, NEW p \in Procs,
         PrunePlan(p) \/ RemoveSnapshot(p) \/ RemoveObject(p) \/ WriteGcState(p)
  PROVE  PinInv'
<1> USE PinFacts
<1> USE DEF PinInv, PinWriterAlone, PinWriterKnows, PinsSpared,
            AckedAreUpserts, AckedPinsAlwaysHold, Active
<1>1. CASE PrunePlan(p)
  <2>1. UNCHANGED <<entry, dirs, files, changes, objects, orphanedSince, pins,
                    lock, now, target, previous, pinId, nextPins, acked>>
    BY <1>1 DEF PrunePlan, disk
  <2>2. \/ Goto(p, "release") /\ UNCHANGED removeSnaps
        \/ /\ Goto(p, "deleting")
           /\ \E k \in KeepCounts : removeSnaps' =
                [removeSnaps EXCEPT ![p] = dirs \ Retained(k)]
    BY <1>1 DEF PrunePlan
  <2>3. CASE Goto(p, "release") /\ UNCHANGED removeSnaps
    BY <2>1, <2>3, PinsUntouched DEF Goto, PinWrites, Verified
  <2>4. ASSUME NEW k \in KeepCounts, Goto(p, "deleting"),
               removeSnaps' = [removeSnaps EXCEPT ![p] = dirs \ Retained(k)],
               ~acked'.raced
        PROVE  /\ PinWriterAlone' /\ PinWriterKnows' /\ PinsSpared'
               /\ AckedAreUpserts' /\ AckedPinsAlwaysHold'
    <3>1. \A i \in PinIds : Active(i) => pins[i].snap \in Retained(k)
      BY DEF Retained
    <3>2. pc' = [pc EXCEPT ![p] = "deleting"] /\ pc[p] = "prune" /\ lock = p
      BY <1>1, <2>4 DEF PrunePlan, Goto
    <3>3. \A q \in Procs : pc[q] \notin PinWrites /\ pc'[q] \notin PinWrites
      BY <2>1, <2>4, <3>2, LockAssumption DEF PinWrites
    <3>4. PinsSpared'
      BY <2>1, <2>4, <3>1, <3>2
    <3>5. \A s \in Snaps : Verified(s)' <=> Verified(s)
      BY <2>1 DEF Verified
    <3>6. AckedAreUpserts' /\ AckedPinsAlwaysHold'
      BY <2>1, <2>4, <3>5
    <3> QED
      BY <3>3, <3>4, <3>6
  <2> QED
    BY <2>2, <2>3, <2>4
<1>2. CASE RemoveSnapshot(p)
  <2>1. PICK s \in removeSnaps[p] :
          \/ /\ \E f \in files[s] : files' = [files EXCEPT ![s] = @ \ {f}]
             /\ UNCHANGED <<dirs, removeSnaps>>
          \/ /\ removeSnaps' = [removeSnaps EXCEPT ![p] = @ \ {s}]
             /\ UNCHANGED files
    BY <1>2 DEF RemoveSnapshot
  <2>2. UNCHANGED <<entry, objects, pins, lock, now, pc, pinId, nextPins, acked>>
          /\ pc[p] = "deleting" /\ lock = p
    BY <1>2 DEF RemoveSnapshot
  <2>3. \A t \in Snaps \ {s} : Verified(t) => Verified(t)'
    BY <2>1, <2>2 DEF Verified
  <2>4. ~acked.raced => \A q \in Procs : pc[q] \notin PinWrites
    BY <2>2, LockAssumption DEF PinWrites
  <2> QED
    BY <2>1, <2>2, <2>3, <2>4
<1>3. CASE RemoveObject(p)
  <2>1. PICK o \in removeObjects[p] : objects' = objects \ {o}
    BY <1>3 DEF RemoveObject
  <2>2. UNCHANGED <<entry, files, pins, lock, now, pc, removeSnaps, pinId,
                    nextPins, acked>>
          /\ pc[p] = "deleting" /\ lock = p /\ removeSnaps[p] = {}
    BY <1>3 DEF RemoveObject
  <2>3. \A t \in Snaps : Verified(t) => Verified(t)'
    BY <2>1, <2>2 DEF Verified, SafeInv, StoreInv, Pruning
  <2> QED
    BY <2>2, <2>3, PinsUntouched
<1>4. CASE WriteGcState(p)
  <2>1. UNCHANGED <<pins, pinId, nextPins, acked, now, removeSnaps, lock, files,
                    objects>>
    BY <1>4 DEF WriteGcState, plan
  <2>2. \A q \in Procs : pc'[q] \in PinWrites \cup {"deleting"} => pc'[q] = pc[q]
    BY <1>4 DEF WriteGcState, Goto, PinWrites
  <2> QED
    BY <2>1, <2>2, PinsUntouched DEF Verified
<1> QED
  BY <1>1, <1>2, <1>3, <1>4

(* An upsert refuses, or plans to add a pin of a snapshot it has verified. *)
LEMMA UpsertPlans ==
  ASSUME NEW p \in Procs, UpsertPlan(p)
  PROVE  \E i \in PinIds, s \in Snaps, e \in {now + 1, Never} :
           \/ Goto(p, "release") /\ UNCHANGED <<pinId, nextPins>>
           \/ /\ Verified(s) /\ Goto(p, "pinUpsert")
              /\ pinId' = [pinId EXCEPT ![p] = i]
              /\ nextPins' = [nextPins EXCEPT ![p] =
                   [pins EXCEPT ![i] = [snap |-> s, expiresAt |-> e]]]
BY DEF UpsertPlan, WithPin

(* A pin operation under way is the only one to write the pins file.       *)
LEMMA PinOperationsKeepPins ==
  ASSUME SafeInv, PinInv, NEW p \in Procs,
         \/ UpsertPlan(p) \/ RemovePlan(p) \/ ReleaseBeforeWrite(p)
         \/ WritePins(p) \/ ConfirmPins(p)
  PROVE  PinInv'
<1> USE PinFacts, LockAssumption
<1> USE DEF PinInv, PinWriterAlone, PinWriterKnows, PinsSpared,
            AckedAreUpserts, AckedPinsAlwaysHold, Active, Goto, PinWrites
<1>a. ASSUME pc[p] \in {"upsert", "remove"}, ~acked.raced
      PROVE  \A q \in Procs : pc[q] \notin PinWrites
  BY <1>a
<1>1. CASE UpsertPlan(p)
  <2>1. UNCHANGED <<disk, lock, now, removeSnaps, acked>> /\ pc[p] = "upsert"
    BY <1>1 DEF UpsertPlan
  <2>2. PICK i \in PinIds, s \in Snaps, e \in {now + 1, Never} :
          \/ Goto(p, "release") /\ UNCHANGED <<pinId, nextPins>>
          \/ /\ Verified(s) /\ Goto(p, "pinUpsert")
             /\ pinId' = [pinId EXCEPT ![p] = i]
             /\ nextPins' = [nextPins EXCEPT ![p] =
                  [pins EXCEPT ![i] = [snap |-> s, expiresAt |-> e]]]
    BY <1>1, UpsertPlans
  <2>3. \A t \in Snaps : Verified(t)' <=> Verified(t)
    BY <2>1 DEF disk, Verified
  <2>4. CASE Goto(p, "release") /\ UNCHANGED <<pinId, nextPins>>
    BY <2>1, <2>3, <2>4, PinsUntouched DEF disk
  <2>5. ASSUME Verified(s), pc' = [pc EXCEPT ![p] = "pinUpsert"],
               pinId' = [pinId EXCEPT ![p] = i],
               nextPins' = [nextPins EXCEPT ![p] =
                 [pins EXCEPT ![i] = [snap |-> s, expiresAt |-> e]]],
               ~acked.raced
        PROVE  /\ PinWriterAlone' /\ PinWriterKnows' /\ PinsSpared'
               /\ AckedAreUpserts' /\ AckedPinsAlwaysHold'
    <3>1. PinWriterAlone'
      BY <1>a, <2>1, <2>5
    <3>2. PinWriterKnows'
      BY <1>a, <2>1, <2>3, <2>5 DEF disk
    <3>3. PinsSpared' /\ AckedAreUpserts' /\ AckedPinsAlwaysHold'
      BY <2>1, <2>3, <2>5 DEF disk
    <3> QED
      BY <3>1, <3>2, <3>3
  <2> QED
    BY <2>1, <2>2, <2>4, <2>5
<1>2. CASE RemovePlan(p)
  <2>1. UNCHANGED <<disk, lock, now, removeSnaps, acked>> /\ pc[p] = "remove"
    BY <1>2 DEF RemovePlan
  <2>2. PICK i \in PinIds :
          \/ Goto(p, "release") /\ UNCHANGED <<pinId, nextPins>>
          \/ /\ Goto(p, "pinRemove")
             /\ pinId' = [pinId EXCEPT ![p] = i]
             /\ nextPins' = [nextPins EXCEPT ![p] = [pins EXCEPT ![i] = NoPin]]
    BY <1>2 DEF RemovePlan, WithPin
  <2>3. \A t \in Snaps : Verified(t)' <=> Verified(t)
    BY <2>1 DEF disk, Verified
  <2>4. CASE Goto(p, "release") /\ UNCHANGED <<pinId, nextPins>>
    BY <2>1, <2>3, <2>4, PinsUntouched DEF disk
  <2>5. ASSUME pc' = [pc EXCEPT ![p] = "pinRemove"],
               pinId' = [pinId EXCEPT ![p] = i],
               nextPins' = [nextPins EXCEPT ![p] = [pins EXCEPT ![i] = NoPin]],
               ~acked.raced
        PROVE  /\ PinWriterAlone' /\ PinWriterKnows' /\ PinsSpared'
               /\ AckedAreUpserts' /\ AckedPinsAlwaysHold'
    <3>1. PinWriterAlone'
      BY <1>a, <2>1, <2>5
    <3>2. PinWriterKnows'
      BY <1>a, <2>1, <2>3, <2>5 DEF disk
    <3>3. PinsSpared' /\ AckedAreUpserts' /\ AckedPinsAlwaysHold'
      BY <2>1, <2>3, <2>5 DEF disk
    <3> QED
      BY <3>1, <3>2, <3>3
  <2> QED
    BY <2>1, <2>2, <2>4, <2>5
<1>3. CASE ReleaseBeforeWrite(p)
  BY <1>3 DEF ReleaseBeforeWrite, disk, plan, Verified
<1>4. CASE WritePins(p)
  BY <1>4 DEF WritePins, plan, Verified
<1>5. CASE ConfirmPins(p)
  BY <1>5 DEF ConfirmPins, disk, plan, Verified
<1> QED
  BY <1>1, <1>2, <1>3, <1>4, <1>5

LEMMA PinStep == SafeInv /\ PinInv /\ [Next]_vars => PinInv'
<1> SUFFICES ASSUME SafeInv, PinInv, [Next]_vars PROVE PinInv'
  OBVIOUS
<1> USE PinFacts, LockAssumption
<1>1. ASSUME NEW p \in Procs,
             NEW step \in {"publish", "prune", "upsert", "remove"},
             Acquire(p, step)
      PROVE  PinInv'
  BY <1>1
  DEF Acquire, PinInv, PinWriterAlone, PinWriterKnows, PinsSpared,
      AckedAreUpserts, AckedPinsAlwaysHold, Active, Goto, PinWrites, disk,
      plan, Verified
<1>2. ASSUME NEW p \in Procs, Release(p) PROVE PinInv'
  BY <1>2
  DEF Release, ForgetPlan, PinInv, PinWriterAlone, PinWriterKnows, PinsSpared,
      AckedAreUpserts, AckedPinsAlwaysHold, Active, Goto, PinWrites, disk,
      Verified
<1>3. ASSUME NEW p \in Procs, Fail(p) PROVE PinInv'
  BY <1>3, PinsUntouched
  DEF Fail, Goto, PinWrites, disk, plan, Verified
<1>4. ASSUME NEW p \in Procs, Crash(p) PROVE PinInv'
  BY <1>4
  DEF Crash, ForgetPlan, PinInv, PinWriterAlone, PinWriterKnows, PinsSpared,
      AckedAreUpserts, AckedPinsAlwaysHold, Active, Goto, PinWrites, disk,
      Verified
<1>5. ASSUME Tick PROVE PinInv'
  BY <1>5
  DEF Tick, PinInv, PinWriterAlone, PinWriterKnows, PinsSpared, Pins,
      AckedAreUpserts, AckedPinsAlwaysHold, Active, PinWrites, disk, plan,
      Verified
<1>6. CASE UNCHANGED vars
  BY <1>6, PinsUntouched DEF vars, disk, plan, Verified
<1>7. ASSUME NEW p \in Procs, AcquireFails(p) PROVE PinInv'
  BY <1>7
  DEF AcquireFails, PinInv, PinWriterAlone, PinWriterKnows, PinsSpared,
      AckedAreUpserts, AckedPinsAlwaysHold, Active, PinWrites, disk, plan,
      Verified
<1>8. ASSUME NEW p \in Procs, ReleaseFails(p) PROVE PinInv'
  <2>1. UNCHANGED <<disk, now, acked>> /\ lock' \notin Procs
    BY <1>8 DEF ReleaseFails
  <2>2. CASE UNCHANGED <<pc, plan>>
    BY <2>1, <2>2, PinsUntouched DEF disk, plan, Verified
  <2>3. CASE Goto(p, "idle") /\ ForgetPlan(p)
    BY <2>1, <2>3
    DEF ForgetPlan, PinInv, PinWriterAlone, PinWriterKnows, PinsSpared,
        AckedAreUpserts, AckedPinsAlwaysHold, Active, Goto, PinWrites, disk,
        Verified
  <2> QED
    BY <1>8, <2>2, <2>3 DEF ReleaseFails
<1>9. ASSUME NEW p \in Procs, Exit(p) \/ PidReused(p) PROVE PinInv'
  BY <1>9
  DEF Exit, PidReused, PinInv, PinWriterAlone, PinWriterKnows, PinsSpared,
      AckedAreUpserts, AckedPinsAlwaysHold, Active, PinWrites, disk, plan,
      Verified
<1> QED
  BY <1>1, <1>2, <1>3, <1>4, <1>5, <1>6, <1>7, <1>8, <1>9, PublishKeepsPins, PruneKeepsPins,
     PinOperationsKeepPins
  DEF Next, Publish, Prune, Pin, LockFile

(* An acknowledged pin stays in the pins file and protects its snapshot    *)
(* until it expires or another operation writes that pin, unless the lock  *)
(* was taken while a pin operation that had let go of it was writing.      *)
THEOREM AckedPinsAreKept == Spec => []AckedPinsHold
<1>1. Init => PinInv
  BY DEF Init, PinInv, PinWriterAlone, PinWriterKnows, PinsSpared, PinWrites,
         AckedAreUpserts, AckedPinsAlwaysHold, NothingPinned
<1>2. SafeInv /\ PinInv /\ [Next]_vars => PinInv'
  BY PinStep
<1>3. PinInv => AckedPinsHold
  BY DEF PinInv, AckedPinsHold
<1> QED
  BY SafeAlways, <1>1, <1>2, <1>3, PTL DEF Spec

------------------------------------------------------------------------------
(* Refinement.  Because no manifest dangles, a snapshot is available when  *)
(* its manifest exists, so only the writing and the deleting of a manifest *)
(* are steps of Reader that change the available snapshots.                *)

Available == {s \in Snaps : Verified(s)}

LEMMA AvailableIsManifest ==
  SafeInv => \A s \in Snaps : s \in Available <=> "SNAPSHOT" \in files[s]
BY DEF SafeInv, StoreInv, NoDanglingManifest, Available, Verified

LEMMA ReaderStep ==
  ASSUME SafeInv, SafeInv', [Next]_vars
  PROVE  [Reader!Next]_<<entry, Available>>
<1> SUFFICES \/ Reader!Next
             \/ UNCHANGED entry /\ Available' = Available
  OBVIOUS
<1>1. /\ \A s \in Snaps : s \in Available <=> "SNAPSHOT" \in files[s]
      /\ \A s \in Snaps : s \in Available' <=> "SNAPSHOT" \in files'[s]
      /\ Available \subseteq Snaps /\ Available' \subseteq Snaps
  <2>1. \A s \in Snaps : s \in Available' <=> "SNAPSHOT" \in files'[s]
    BY DEF SafeInv, StoreInv, NoDanglingManifest, Available, Verified
  <2> QED
    BY <2>1, AvailableIsManifest DEF Available
<1>2. files \in [Snaps -> SUBSET MetaFiles] /\ files' \in [Snaps -> SUBSET MetaFiles]
  BY DEF SafeInv, TypeInv, TypeOK
<1>3. CASE UNCHANGED <<entry, files>>
  BY <1>1, <1>3
<1>4. ASSUME NEW p \in Procs, WriteFile(p)
      PROVE  Reader!Next \/ (UNCHANGED entry /\ Available' = Available)
  <2>1. target[p] \in Snaps
    BY <1>4 DEF WriteFile, SafeInv, TypeInv, TargetChosen
  <2>2. PICK f : /\ f \notin files[target[p]] \/ f # "SNAPSHOT"
                 /\ files' = [files EXCEPT ![target[p]] = @ \cup {f}]
                 /\ UNCHANGED entry
    BY <1>4 DEF WriteFile, Current, FileOrder
  <2>3. CASE f = "SNAPSHOT"
    <3>1. target[p] \in Snaps \ Available
      BY <1>1, <2>1, <2>2, <2>3
    <3>2. Available' = Available \cup {target[p]}
      BY <1>1, <1>2, <2>1, <2>2, <2>3
    <3> QED
      BY <2>2, <3>1, <3>2 DEF Reader!Next, Reader!Complete, Available
  <2>4. CASE f # "SNAPSHOT"
    BY <1>1, <1>2, <2>1, <2>2, <2>4
  <2> QED
    BY <2>3, <2>4
<1>5. ASSUME NEW p \in Procs, WriteEntry(p) PROVE Reader!Next
  <2>1. /\ entry' = target[p] /\ target[p] # entry /\ target[p] \in Available
        /\ files' = files
    BY <1>5 DEF WriteEntry, SafeInv, TypeInv, TargetChosen, StoreInv,
                Publishing, Available
  <2>2. Available' = Available
    BY <1>1, <2>1
  <2> QED
    BY <2>1, <2>2 DEF Reader!Next, Reader!Activate, Available
<1>6. ASSUME NEW p \in Procs, RemoveSnapshot(p)
      PROVE  Reader!Next \/ (UNCHANGED entry /\ Available' = Available)
  <2>1. PICK s \in removeSnaps[p] :
          \/ \E f \in files[s] : files' = [files EXCEPT ![s] = @ \ {f}]
          \/ UNCHANGED files
    BY <1>6 DEF RemoveSnapshot
  <2>2. UNCHANGED entry /\ s \in Snaps /\ s # entry
    BY <1>6 DEF RemoveSnapshot, SafeInv, TypeInv, TypeOK, StoreInv, Pruning
  <2>3. CASE UNCHANGED files
    BY <1>1, <2>2, <2>3
  <2>4. ASSUME NEW f \in files[s], files' = [files EXCEPT ![s] = @ \ {f}],
               f = "SNAPSHOT"
        PROVE  Reader!Next
    <3>1. s \in Available
      BY <1>1, <2>2, <2>4
    <3>2. Available' = Available \ {s}
      BY <1>1, <1>2, <2>2, <2>4
    <3> QED
      BY <2>2, <3>1, <3>2 DEF Reader!Next, Reader!Retire, Available
  <2>5. ASSUME NEW f \in files[s], files' = [files EXCEPT ![s] = @ \ {f}],
               f # "SNAPSHOT"
        PROVE  Available' = Available
    BY <1>1, <1>2, <2>2, <2>5
  <2> QED
    BY <2>1, <2>2, <2>3, <2>4, <2>5
<1>7. \/ UNCHANGED <<entry, files>>
      \/ \E p \in Procs : WriteFile(p) \/ WriteEntry(p) \/ RemoveSnapshot(p)
  BY DEF Next, vars, Publish, Prune, Pin, disk, Acquire, Release, PublishPlan,
         WriteObject, ObjectsWritten, MakeSnapshotDir, FilesWritten,
         PrunePlan, RemoveObject, WriteGcState, UpsertPlan, RemovePlan,
         ReleaseBeforeWrite, WritePins, ConfirmPins, Fail, Crash, Tick,
         LockFile, AcquireFails, ReleaseFails, Exit, PidReused
<1> QED
  BY <1>3, <1>4, <1>5, <1>6, <1>7

(* The store implements CurrentSnapshot: a reader that follows the entry   *)
(* file only ever sees it move between complete snapshots, and never sees  *)
(* the current one go away.                                                *)
THEOREM StoreImplementsReader == Spec => ReaderSpec
<1>1. Init => Reader!Init
  BY DEF Init, Reader!Init, Verified
<1>2. SafeInv /\ SafeInv' /\ [Next]_vars => [Reader!Next]_<<entry, Available>>
  BY ReaderStep
<1>3. Spec => Reader!Spec
  BY <1>1, <1>2, SafeAlways, PTL DEF Spec, Reader!Spec, Available
<1> QED
  BY <1>3 DEF ReaderSpec

------------------------------------------------------------------------------
(***************************************************************************)
(* The lock file, for any calls of any processes: as long as acquisitions  *)
(* did not overlap and no file was misjudged it excludes, as the store's   *)
(* own model takes for granted, and who refuses others is a holder, or a   *)
(* call that failed or died with its file written.  The invariant says     *)
(* what the file says of each call.                                        *)
(***************************************************************************)
CONSTANTS Callers, Pids, PidOf, NoFile, Misjudged
VARIABLES lockFile, callerAt, attempt, running, quiet

Lock == INSTANCE SnapshotLock WITH pc <- callerAt

(* Only running processes make calls.                                      *)
CallersRun ==
  \A c \in Callers :
    callerAt[c] \in Lock!Acquiring \cup Lock!Holding => Lock!Alive(c)

(* One call at a time is inside acquire.                                   *)
OneAcquires ==
  \A c, d \in Callers :
    callerAt[c] \in Lock!Acquiring /\ callerAt[d] \in Lock!Acquiring => c = d

(* The file of a call that writes it, or holds the lock, is its own.       *)
FileIsOwn ==
  \A c \in Callers :
    /\ callerAt[c] = "write" => lockFile = [owner |-> c, written |-> FALSE]
    /\ callerAt[c] \in Lock!Holding =>
         lockFile = [owner |-> c, written |-> TRUE]

(* A file with content belongs to a holder, or to a call that failed or    *)
(* died with it.                                                           *)
FileIsHeld ==
  lockFile # NoFile /\ lockFile.written =>
    callerAt[lockFile.owner] \in Lock!Holding \cup {"failed", "dead"}

(* A call that takes over meets no holder, and then no file.               *)
TakeOverIsSafe ==
  \A c \in Callers :
    /\ callerAt[c] = "takeover" =>
         \A d \in Callers : callerAt[d] \notin Lock!Holding
    /\ callerAt[c] \in {"inspect", "takeover"} => attempt[c] = 1
    /\ callerAt[c] = "open" => attempt[c] = 1 \/ lockFile = NoFile

QuietInv == OneAcquires /\ FileIsOwn /\ FileIsHeld /\ TakeOverIsSafe
LockInv == Lock!TypeOK /\ CallersRun /\ (quiet => QuietInv)

USE DEF Lock!Acquiring, Lock!Holding, Lock!Ended, Lock!Alive, Lock!Attempts,
    Lock!LockFiles

LEMMA LockInitHolds == ASSUME Lock!ConstantsOK PROVE Lock!Init => LockInv
  BY DEF Lock!ConstantsOK, Lock!Init, LockInv, Lock!TypeOK, CallersRun,
     QuietInv, OneAcquires, FileIsOwn, FileIsHeld, TakeOverIsSafe

LEMMA LockFilesExist ==
  ASSUME Lock!ConstantsOK, NEW c \in Callers, NEW b \in BOOLEAN
  PROVE  [owner |-> c, written |-> b] \in Lock!LockFiles \ {NoFile}
<1>1. [owner |-> c, written |-> b] \in Lock!LockFiles
  OBVIOUS
<1> QED BY <1>1 DEF Lock!ConstantsOK

LEMMA LockTypeKept ==
  ASSUME Lock!ConstantsOK, Lock!TypeOK, CallersRun, [Lock!Next]_(Lock!vars)
  PROVE  Lock!TypeOK' /\ CallersRun'
<1>1. ASSUME NEW c \in Callers, Lock!Begin(c) PROVE Lock!TypeOK' /\ CallersRun'
  BY <1>1 DEF Lock!Begin, Lock!Goto, Lock!TypeOK, CallersRun
<1>2. ASSUME NEW c \in Callers, Lock!Step(c) PROVE Lock!TypeOK' /\ CallersRun'
  <2>1. CASE Lock!Create(c)
    <3>1. lockFile' \in Lock!LockFiles \cup {NoFile}
      BY <2>1, LockFilesExist DEF Lock!Create, Lock!TypeOK
    <3>2. callerAt' \in [Callers -> {"idle"} \cup Lock!Acquiring \cup Lock!Holding \cup Lock!Ended]
      BY <2>1 DEF Lock!Create, Lock!Goto, Lock!TypeOK
    <3> QED BY <2>1, <3>1, <3>2 DEF Lock!Create, Lock!Goto, Lock!TypeOK,
               CallersRun
  <2>2. CASE Lock!WriteContent(c)
    <3>1. CASE lockFile = NoFile
      BY <2>2, <3>1 DEF Lock!WriteContent, Lock!Goto, Lock!TypeOK, CallersRun
    <3>2. CASE lockFile # NoFile
      <4>1. lockFile' \in Lock!LockFiles
        BY <2>2, <3>2 DEF Lock!WriteContent, Lock!TypeOK
      <4>2. callerAt' \in [Callers -> {"idle"} \cup Lock!Acquiring \cup Lock!Holding \cup Lock!Ended]
        BY <2>2 DEF Lock!WriteContent, Lock!Goto, Lock!TypeOK
      <4> QED BY <2>2, <4>1, <4>2 DEF Lock!WriteContent, Lock!Goto,
                 Lock!TypeOK, CallersRun
    <3> QED BY <3>1, <3>2
  <2>3. CASE Lock!WriteFails(c)
    <3>1. CASE UNCHANGED lockFile
      BY <2>3, <3>1 DEF Lock!WriteFails, Lock!Goto, Lock!TypeOK, CallersRun
    <3>2. CASE lockFile # NoFile /\ lockFile' = [lockFile EXCEPT !.written = TRUE]
      <4>1. lockFile' \in Lock!LockFiles
        BY <3>2 DEF Lock!TypeOK
      <4>2. callerAt' \in [Callers -> {"idle"} \cup Lock!Acquiring \cup Lock!Holding \cup Lock!Ended]
        BY <2>3 DEF Lock!WriteFails, Lock!Goto, Lock!TypeOK
      <4> QED BY <2>3, <4>1, <4>2 DEF Lock!WriteFails, Lock!Goto,
                 Lock!TypeOK, CallersRun
    <3> QED BY <2>3, <3>1, <3>2 DEF Lock!WriteFails
  <2>8. CASE Lock!Misjudge(c)
    BY <2>8 DEF Lock!Misjudge, Lock!Goto, Lock!TypeOK, CallersRun
  <2>9. CASE Lock!CallFails(c)
    BY <2>9 DEF Lock!CallFails, Lock!Goto, Lock!TypeOK, CallersRun
  <2>6. CASE Lock!Inspect(c)
    BY <2>6 DEF Lock!Inspect, Lock!Goto, Lock!TypeOK, CallersRun
  <2>7. CASE Lock!ReadToken(c)
    BY <2>7 DEF Lock!ReadToken, Lock!Goto, Lock!TypeOK, CallersRun
  <2>4. CASE Lock!TakeOver(c)
    BY <2>4 DEF Lock!TakeOver, Lock!Goto, Lock!TypeOK, CallersRun
  <2>5. CASE Lock!Unlink(c)
    BY <2>5 DEF Lock!Unlink, Lock!Goto, Lock!TypeOK, CallersRun
  <2> QED BY <1>2, <2>1, <2>2, <2>3, <2>4, <2>5, <2>6, <2>7, <2>8, <2>9 DEF Lock!Step
<1>3. ASSUME NEW pid \in Pids, Lock!Die(pid) PROVE Lock!TypeOK' /\ CallersRun'
  BY <1>3 DEF Lock!Die, Lock!TypeOK, CallersRun
<1>4. CASE UNCHANGED Lock!vars
  BY <1>4 DEF Lock!vars, Lock!TypeOK, CallersRun
<1>5. ASSUME NEW pid \in Pids, Lock!Reuse(pid) PROVE Lock!TypeOK' /\ CallersRun'
  BY <1>5 DEF Lock!Reuse, Lock!TypeOK, CallersRun
<1> QED BY <1>1, <1>2, <1>3, <1>4, <1>5 DEF Lock!Next

(* A step from a quiet state keeps what the file says, or ends the quiet.  *)
LEMMA QuietKept ==
  ASSUME Lock!ConstantsOK, Lock!TypeOK, CallersRun, quiet, QuietInv,
         [Lock!Next]_(Lock!vars)
  PROVE  quiet' => QuietInv'
<1> USE DEF QuietInv
<1>1. ASSUME NEW c \in Callers, Lock!Begin(c), quiet' PROVE QuietInv'
  BY <1>1 DEF Lock!Begin, Lock!Goto, Lock!TypeOK, OneAcquires, FileIsOwn,
     FileIsHeld, TakeOverIsSafe
<1>2. ASSUME NEW c \in Callers, Lock!Step(c), quiet' PROVE QuietInv'
  <2>1. CASE Lock!Create(c)
    <3>1. CASE lockFile = NoFile
      <4>1. lockFile' = [owner |-> c, written |-> FALSE] /\ Lock!Goto(c, "write")
            /\ UNCHANGED <<attempt, running>>
        BY <2>1, <3>1 DEF Lock!Create
      <4>2. lockFile' # NoFile /\ ~lockFile'.written
        BY <4>1, LockFilesExist
      <4>3. \A d \in Callers : callerAt[d] \notin Lock!Holding \cup {"write"}
        BY <3>1, LockFilesExist DEF FileIsOwn
      <4>4. OneAcquires' /\ FileIsHeld' /\ TakeOverIsSafe'
        BY <2>1, <4>1, <4>2, <4>3
           DEF Lock!Create, Lock!Goto, Lock!TypeOK, OneAcquires, FileIsHeld, TakeOverIsSafe
      <4>5. FileIsOwn'
        BY <4>1, <4>3 DEF Lock!Goto, Lock!TypeOK, FileIsOwn
      <4> QED BY <4>4, <4>5
    <3>2. CASE lockFile # NoFile
      <4>1. Lock!Goto(c, "inspect") /\ UNCHANGED <<lockFile, attempt, running>>
        BY <2>1, <3>2 DEF Lock!Create
      <4>2. attempt[c] = 1 /\ callerAt[c] = "open"
        BY <2>1, <3>2 DEF Lock!Create, TakeOverIsSafe
      <4> QED BY <4>1, <4>2 DEF Lock!Goto, Lock!TypeOK, OneAcquires, FileIsOwn,
                   FileIsHeld, TakeOverIsSafe
    <3> QED BY <3>1, <3>2
  <2>2. CASE Lock!WriteContent(c)
    <3>1. lockFile = [owner |-> c, written |-> FALSE]
      BY <2>2 DEF Lock!WriteContent, FileIsOwn
    <3>2. lockFile' = [owner |-> c, written |-> TRUE]
      BY <2>2, <3>1, LockFilesExist DEF Lock!WriteContent
    <3>3. \A d \in Callers : callerAt[d] \notin Lock!Holding
      BY <3>1 DEF FileIsOwn
    <3> QED BY <2>2, <3>2, <3>3 DEF Lock!WriteContent, Lock!Goto, Lock!TypeOK,
               OneAcquires, FileIsOwn, FileIsHeld, TakeOverIsSafe
  <2>3. CASE Lock!WriteFails(c)
    <3>1. lockFile = [owner |-> c, written |-> FALSE]
      BY <2>3 DEF Lock!WriteFails, FileIsOwn
    <3>2. lockFile' \in {[owner |-> c, written |-> b] : b \in BOOLEAN}
      BY <2>3, <3>1 DEF Lock!WriteFails
    <3>3. lockFile'.owner = c
      BY <3>2
    <3>4. \A d \in Callers : callerAt[d] \notin Lock!Holding /\ (callerAt[d] = "write" => d = c)
      BY <3>1 DEF FileIsOwn
    <3> QED BY <2>3, <3>3, <3>4 DEF Lock!WriteFails, Lock!Goto, Lock!TypeOK, OneAcquires,
       FileIsOwn, FileIsHeld, TakeOverIsSafe
  <2>8. CASE Lock!CallFails(c)
    BY <2>8 DEF Lock!CallFails, Lock!Goto, Lock!TypeOK, OneAcquires,
       FileIsOwn, FileIsHeld, TakeOverIsSafe
  <2>4. CASE Lock!Inspect(c)
    <3>1. ASSUME NEW d \in Callers, callerAt[d] \in Lock!Holding PROVE Lock!NamesRunning
      BY <3>1, LockFilesExist DEF Lock!NamesRunning, FileIsOwn, CallersRun
    <3> QED BY <2>4, <3>1 DEF Lock!Inspect, Lock!Goto, Lock!TypeOK,
               OneAcquires, FileIsOwn, FileIsHeld, TakeOverIsSafe
  <2>5. CASE Lock!TakeOver(c)
    BY <2>5 DEF Lock!TakeOver, Lock!Goto, Lock!TypeOK, OneAcquires, FileIsOwn,
       FileIsHeld, TakeOverIsSafe
  <2>6. CASE Lock!ReadToken(c)
    <3>1. lockFile = [owner |-> c, written |-> TRUE]
      BY <2>6 DEF Lock!ReadToken, FileIsOwn
    <3>2. Lock!Goto(c, "unlink") /\ UNCHANGED <<lockFile, attempt, running>>
      BY <2>6, <3>1, LockFilesExist DEF Lock!ReadToken
    <3> QED BY <2>6, <3>1, <3>2 DEF Lock!ReadToken, Lock!Goto, Lock!TypeOK,
               OneAcquires, FileIsOwn, FileIsHeld, TakeOverIsSafe
  <2>7. CASE Lock!Unlink(c)
    <3>1. \A d \in Callers : callerAt[d] \in Lock!Holding \cup {"write"} => d = c
      BY <2>7 DEF Lock!Unlink, FileIsOwn
    <3> QED BY <2>7, <3>1 DEF Lock!Unlink, Lock!Goto, Lock!TypeOK, OneAcquires,
               FileIsOwn, FileIsHeld, TakeOverIsSafe
  <2> QED BY <1>2, <2>1, <2>2, <2>3, <2>4, <2>5, <2>6, <2>7, <2>8
          DEF Lock!Step, Lock!Misjudge
<1>3. ASSUME NEW pid \in Pids, Lock!Die(pid) PROVE QuietInv'
  BY <1>3 DEF Lock!Die, Lock!TypeOK, OneAcquires, FileIsOwn, FileIsHeld,
              TakeOverIsSafe, CallersRun
<1>4. CASE UNCHANGED Lock!vars
  BY <1>4 DEF Lock!vars, OneAcquires, FileIsOwn, FileIsHeld, TakeOverIsSafe
<1>5. ASSUME NEW pid \in Pids, Lock!Reuse(pid) PROVE QuietInv'
  BY <1>5 DEF Lock!Reuse, OneAcquires, FileIsOwn, FileIsHeld, TakeOverIsSafe
<1> QED BY <1>1, <1>2, <1>3, <1>4, <1>5 DEF Lock!Next

LEMMA QuietStaysLost ==
  ASSUME [Lock!Next]_(Lock!vars), quiet' PROVE quiet
  BY DEF Lock!Next, Lock!Begin, Lock!Step, Lock!Create, Lock!WriteContent,
     Lock!WriteFails, Lock!Inspect, Lock!TakeOver, Lock!ReadToken, Lock!Unlink,
     Lock!Misjudge, Lock!CallFails, Lock!Die, Lock!Reuse, Lock!vars

LEMMA LockStepHolds ==
  ASSUME Lock!ConstantsOK PROVE LockInv /\ [Lock!Next]_(Lock!vars) => LockInv'
  BY LockTypeKept, QuietKept, QuietStaysLost DEF LockInv

LEMMA AlwaysLockInv == ASSUME Lock!ConstantsOK PROVE Lock!Spec => []LockInv
  BY LockInitHolds, LockStepHolds, PTL DEF Lock!Spec

(* As long as acquisitions do not overlap and no file is misjudged, at most*)
(* one call holds the lock, whatever processes died while they held it or  *)
(* were about to, and whatever of its own calls failed.                    *)
THEOREM QuietLockExcludes ==
  ASSUME Lock!ConstantsOK PROVE Lock!Spec => []Lock!ExclusiveWhenQuiet
<1>1. LockInv => Lock!ExclusiveWhenQuiet
  BY DEF LockInv, QuietInv, FileIsOwn, Lock!ExclusiveWhenQuiet, Lock!Exclusive
<1> QED BY <1>1, AlwaysLockInv, PTL

(* A call that met no other acquisition is refused only by the written     *)
(* file of a call that holds the lock, that failed after writing it, or    *)
(* whose dead process has left its pid to another.                         *)
THEOREM WhoRefuses ==
  ASSUME Lock!ConstantsOK PROVE Lock!Spec => Lock!RefusedOnlyByHolder
<1> DEFINE Refuses(c) ==
             /\ lockFile # NoFile /\ lockFile.written
             /\ lockFile.owner # c /\ Lock!Alive(lockFile.owner)
             /\ callerAt[lockFile.owner] \in Lock!Holding \cup {"failed", "dead"}
           Refused == \A c \in Callers :
             callerAt[c] # "refused" /\ callerAt'[c] = "refused" /\ quiet
               => Refuses(c)
<1>1. ASSUME LockInv, Lock!Next PROVE Refused
  <2> SUFFICES ASSUME NEW c \in Callers,
                      callerAt[c] # "refused", callerAt'[c] = "refused", quiet
               PROVE  Refuses(c)
    OBVIOUS
  <2>1. PICK e \in Callers : Lock!Begin(e) \/ Lock!Step(e)
    BY <1>1 DEF Lock!Next, Lock!Die, Lock!Reuse, LockInv, Lock!TypeOK
  <2>2. e = c /\ (Lock!Inspect(c) \/ Lock!TakeOver(c))
    BY <1>1, <2>1 DEF Lock!Begin, Lock!Step, Lock!Create, Lock!WriteContent,
       Lock!WriteFails, Lock!Inspect, Lock!Misjudge, Lock!TakeOver,
       Lock!ReadToken, Lock!Unlink, Lock!CallFails, Lock!Goto, LockInv,
       Lock!TypeOK
  <2>3. Lock!Inspect(c)
    <3>1. ASSUME Lock!TakeOver(c) PROVE FALSE
      <4>1. attempt[c] = 1
        BY <1>1, <3>1 DEF Lock!TakeOver, LockInv, QuietInv, TakeOverIsSafe
      <4>2. Lock!Goto(c, "open")
        BY <3>1, <4>1 DEF Lock!TakeOver
      <4> QED BY <1>1, <4>2 DEF Lock!Goto, LockInv, Lock!TypeOK
    <3> QED BY <2>2, <3>1
  <2>4. Lock!NamesRunning
    BY <1>1, <2>3 DEF Lock!Inspect, Lock!Goto, LockInv, Lock!TypeOK
  <2>5. /\ lockFile.owner \in Callers
        /\ callerAt[lockFile.owner] \in Lock!Holding \cup {"failed", "dead"}
    BY <1>1, <2>4 DEF Lock!NamesRunning, LockInv, Lock!TypeOK, QuietInv,
       FileIsHeld
  <2>6. lockFile.owner # c
    BY <2>3, <2>5 DEF Lock!Inspect
  <2> QED BY <2>4, <2>5, <2>6 DEF Lock!NamesRunning
<1>2. LockInv /\ [Lock!Next]_(Lock!vars) => [Refused]_(Lock!vars)
  BY <1>1
<1> QED BY <1>2, AlwaysLockInv, PTL DEF Lock!Spec, Lock!RefusedOnlyByHolder

==============================================================================
