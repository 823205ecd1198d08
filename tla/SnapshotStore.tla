---------------------------- MODULE SnapshotStore ----------------------------
(***************************************************************************)
(* The managed snapshot store of @openge/forge-source-snapshot: publishing *)
(* a snapshot, pruning old ones with their content objects, and the pin    *)
(* registry, run by processes that share one target directory and one lock *)
(* file.  Every write to the directory is a step of its own, because a     *)
(* crash or a failing write can stop an operation between any two of them. *)
(* Reads made under the lock are one step with the decision they lead to.  *)
(*                                                                         *)
(* The lock is taken as exclusive here; module SnapshotLock models the     *)
(* lock file itself and says when it is.  What taking it and giving it     *)
(* back leave behind when they fail is modelled in both.                   *)
(***************************************************************************)
EXTENDS Integers, FiniteSets

CONSTANTS
  Procs,      \* processes that call the package on the same target root
  Snaps,      \* snapshot ids, numbered from the oldest publishedAt on
  Objects,    \* content objects, numbered in the order of their paths
  ObjectsOf,  \* the objects each snapshot's manifest lists
  PinIds,     \* pin identities
  NoSnap,     \* "no snapshot": no entry file, no previous, no pin
  Free,       \* the lock file does not exist
  Dead,       \* the lock file names a process that no longer runs
  KeepCounts, \* the keepCount values callers pass
  Grace,      \* orphanGraceMs, in ticks of the clock
  MaxNow,     \* bound: the last value of the clock
  MaxFaults   \* bound: crashes and failed operations together

ASSUME SnapAssumption ==
  /\ Snaps \subseteq Nat /\ NoSnap \notin Snaps
  /\ Objects \subseteq Nat
  /\ ObjectsOf \in [Snaps -> SUBSET Objects]

(* The lock file of a process that runs but works on nothing under it.     *)
Left(p) == <<"left", p>>

ASSUME LockAssumption ==
  /\ Free \notin Procs /\ Dead \notin Procs /\ Free # Dead
  /\ \A p \in Procs : Left(p) \notin Procs \cup {Free, Dead}
ASSUME BoundAssumption ==
  /\ KeepCounts \subseteq Nat \ {0}
  /\ Grace \in Nat /\ MaxNow \in Nat /\ MaxFaults \in Nat

VARIABLES
  entry,         \* snapshot named by the entry file
  dirs,          \* snapshots/<id> directories that exist
  files,         \* metadata files in each snapshots/<id>
  changes,       \* previous snapshot recorded in each CHANGES.json
  objects,       \* object files that exist
  orphanedSince, \* the gc file: when each orphan was first observed
  pins,          \* the pins file
  lock,          \* the lock file: its holder, Left(p), Dead or Free
  now,           \* wall clock
  pc,            \* where each process is
  target,        \* the snapshot a process publishes
  previous,      \* the current snapshot a publication started from
  removeSnaps,   \* the prune plan: snapshots still to delete
  removeObjects, \* the prune plan: objects still to delete
  nextOrphaned,  \* the prune plan: the next gc file
  pinId,         \* the pin an upsert or removal is about
  nextPins,      \* the pins file a pin operation is writing
  acked,         \* history: the pins whose upsert confirmed its write,
                 \* until changed again, and whether the lock was ever taken
                 \* while a pin operation without it was still writing
  faults         \* history: crashes and failed operations so far

disk == <<entry, dirs, files, changes, objects, orphanedSince, pins>>
plan == <<target, previous, removeSnaps, removeObjects, nextOrphaned, pinId,
          nextPins>>
vars == <<disk, lock, now, pc, plan, acked, faults>>

(* INDEX stands for INDEX.md and READ-INDEX.json, both functions of the    *)
(* manifest; the files are written in the order of their paths.            *)
FileOrder == <<"CHANGES", "INDEX", "SNAPSHOT">>
MetaFiles == {"CHANGES", "INDEX", "SNAPSHOT"}

Never == MaxNow + 1        \* an absent expiresAt
Unobserved == -1           \* no orphanedSince entry
NoPin == [snap |-> NoSnap, expiresAt |-> 0]
Pins == [snap : Snaps \cup {NoSnap}, expiresAt : 0..Never]

PublishSteps == {"publish", "objects", "files", "activate"}
PruneSteps == {"prune", "deleting"}
PinSteps == {"upsert", "remove"}
PinWrites == {"pinUpsert", "pinRemove", "pinUpserted", "pinRemoved"}
Steps == PublishSteps \cup PruneSteps \cup PinSteps \cup PinWrites
           \cup {"idle", "release"}

(* The disk, the lock and the plan of each process keep their types.       *)
TypeOK ==
  /\ entry \in Snaps \cup {NoSnap}
  /\ dirs \subseteq Snaps
  /\ files \in [Snaps -> SUBSET MetaFiles]
  /\ changes \in [Snaps -> Snaps \cup {NoSnap}]
  /\ objects \subseteq Objects
  /\ orphanedSince \in [Objects -> Unobserved..MaxNow]
  /\ pins \in [PinIds -> Pins]
  /\ lock \in Procs \cup {Left(p) : p \in Procs} \cup {Free, Dead}
  /\ now \in 0..MaxNow
  /\ pc \in [Procs -> Steps]
  /\ target \in [Procs -> Snaps \cup {NoSnap}]
  /\ previous \in [Procs -> Snaps \cup {NoSnap}]
  /\ removeSnaps \in [Procs -> SUBSET Snaps]
  /\ removeObjects \in [Procs -> SUBSET Objects]
  /\ nextOrphaned \in [Procs -> [Objects -> Unobserved..MaxNow]]
  /\ pinId \in [Procs -> PinIds \cup {NoSnap}]
  /\ nextPins \in [Procs -> [PinIds -> Pins]]
  /\ acked \in [pins : [PinIds -> Pins], raced : BOOLEAN]
  /\ faults \in 0..MaxFaults

NothingOrphaned == [o \in Objects |-> Unobserved]
NothingPinned == [i \in PinIds |-> NoPin]

Init ==
  /\ entry = NoSnap /\ dirs = {} /\ objects = {}
  /\ files = [s \in Snaps |-> {}]
  /\ changes = [s \in Snaps |-> NoSnap]
  /\ orphanedSince = NothingOrphaned
  /\ pins = NothingPinned
  /\ lock = Free /\ now = 0 /\ faults = 0
  /\ pc = [p \in Procs |-> "idle"]
  /\ target = [p \in Procs |-> NoSnap]
  /\ previous = [p \in Procs |-> NoSnap]
  /\ removeSnaps = [p \in Procs |-> {}]
  /\ removeObjects = [p \in Procs |-> {}]
  /\ nextOrphaned = [p \in Procs |-> NothingOrphaned]
  /\ pinId = [p \in Procs |-> NoSnap]
  /\ nextPins = [p \in Procs |-> NothingPinned]
  /\ acked = [pins |-> NothingPinned, raced |-> FALSE]

Goto(p, step) == pc' = [pc EXCEPT ![p] = step]
(* A process forgets the plan of the operation it leaves.                  *)
ForgetPlan(p) ==
  /\ target' = [target EXCEPT ![p] = NoSnap]
  /\ previous' = [previous EXCEPT ![p] = NoSnap]
  /\ removeSnaps' = [removeSnaps EXCEPT ![p] = {}]
  /\ removeObjects' = [removeObjects EXCEPT ![p] = {}]
  /\ nextOrphaned' = [nextOrphaned EXCEPT ![p] = NothingOrphaned]
  /\ pinId' = [pinId EXCEPT ![p] = NoSnap]
  /\ nextPins' = [nextPins EXCEPT ![p] = NothingPinned]

------------------------------------------------------------------------------
(* The lock: a file that names a live process refuses everybody at once    *)
(* (SNAPSHOT_LOCKED changes nothing), a dead one is taken over; every      *)
(* operation releases it in its finally clause.                            *)

Acquire(p, step) ==
  /\ pc[p] = "idle"
  /\ lock \in {Free, Dead}
  /\ lock' = p
  /\ acked' = [acked EXCEPT !.raced = @ \/ \E q \in Procs : pc[q] \in PinWrites]
  /\ Goto(p, step)
  /\ UNCHANGED <<disk, now, plan, faults>>

(* acquireSourceSnapshotLock throws.  Whatever it has done to the lock     *)
(* file stays: a stale one removed, its own created but empty, which names *)
(* nobody, or its own with the pid in it when sync or close fails.         *)
AcquireFails(p) ==
  /\ pc[p] = "idle"
  /\ lock \in {Free, Dead}
  /\ faults < MaxFaults
  /\ faults' = faults + 1
  /\ lock' \in {Free, Dead, Left(p)}
  /\ UNCHANGED <<disk, now, pc, plan, acked>>

Release(p) ==
  /\ pc[p] = "release"
  /\ lock' = IF lock = p THEN Free ELSE lock
  /\ Goto(p, "idle")
  /\ ForgetPlan(p)
  /\ UNCHANGED <<disk, now, acked, faults>>

(* Reading the token or unlinking the file throws: the operation ends, and *)
(* its file stays.  A pin operation goes on with the write it never awaits.*)
ReleaseFails(p) ==
  /\ pc[p] \in {"release"} \cup PinWrites
  /\ lock = p
  /\ faults < MaxFaults
  /\ faults' = faults + 1
  /\ lock' = Left(p)
  /\ \/ /\ pc[p] = "release"
        /\ Goto(p, "idle")
        /\ ForgetPlan(p)
     \/ /\ pc[p] # "release"
        /\ UNCHANGED <<pc, plan>>
  /\ UNCHANGED <<disk, now, acked>>

(* Only the end of the process it names makes a file left behind stale.    *)
Exit(p) ==
  /\ pc[p] = "idle"
  /\ lock = Left(p)
  /\ lock' = Dead
  /\ UNCHANGED <<disk, now, pc, plan, acked, faults>>

(* A process is given the pid the file of a dead one names.                *)
PidReused(p) ==
  /\ pc[p] = "idle"
  /\ lock = Dead
  /\ lock' = Left(p)
  /\ UNCHANGED <<disk, now, pc, plan, acked, faults>>

------------------------------------------------------------------------------
(* publishSourceSnapshot, and publishPreparedSourceSnapshot alike.         *)

(* verifyPublishedSourceSnapshot: the manifest and every object it lists   *)
(* are there.                                                              *)
Verified(s) == "SNAPSHOT" \in files[s] /\ ObjectsOf[s] \subseteq objects

(* NO_CHANGES and every refusal leave through the finally clause.          *)
PublishStops(s) ==
  \/ entry # NoSnap /\ ~Verified(entry)
  \/ entry = s
  \/ "SNAPSHOT" \in files[s] /\ ~Verified(s)

(* Mutant: a refusal returns without the finally clause.                   *)
PublishPlanKeepingLock(p) ==
  /\ pc[p] = "publish"
  /\ \E s \in Snaps :
       \/ /\ PublishStops(s)
          /\ Goto(p, "idle")
          /\ UNCHANGED <<target, previous>>
       \/ /\ ~PublishStops(s)
          /\ Goto(p, IF Verified(s) THEN "activate" ELSE "objects")
          /\ target' = [target EXCEPT ![p] = s]
          /\ previous' = [previous EXCEPT ![p] = entry]
  /\ UNCHANGED <<disk, lock, now, removeSnaps, removeObjects, nextOrphaned,
                 pinId, nextPins, acked, faults>>

PublishPlan(p) ==
  /\ pc[p] = "publish"
  /\ \E s \in Snaps :
       \/ /\ PublishStops(s)
          /\ Goto(p, "release")
          /\ UNCHANGED <<target, previous>>
       \/ /\ ~PublishStops(s)
          /\ Goto(p, IF Verified(s) THEN "activate" ELSE "objects")
          /\ target' = [target EXCEPT ![p] = s]
          /\ previous' = [previous EXCEPT ![p] = entry]
  /\ UNCHANGED <<disk, lock, now, removeSnaps, removeObjects, nextOrphaned,
                 pinId, nextPins, acked, faults>>

(* Objects are content addressed: one that exists is left unchanged.       *)
WriteObject(p) ==
  /\ pc[p] = "objects"
  /\ \E o \in ObjectsOf[target[p]] \ objects :
       /\ \A x \in ObjectsOf[target[p]] \ objects : o <= x
       /\ objects' = objects \cup {o}
  /\ UNCHANGED <<entry, dirs, files, changes, orphanedSince, pins, lock, now,
                 pc, plan, acked, faults>>

(* Mutant: the metadata is written while objects are still missing.        *)
ObjectsWrittenEarly(p) ==
  /\ pc[p] = "objects"
  /\ Goto(p, "files")
  /\ UNCHANGED <<disk, lock, now, plan, acked, faults>>

(* writeImmutable inspects the metadata already there before it writes any *)
(* of it: a CHANGES.json with another previous snapshot is a collision.    *)
ObjectsWritten(p) ==
  /\ pc[p] = "objects"
  /\ ObjectsOf[target[p]] \subseteq objects
  /\ LET s == target[p]
         collision == "CHANGES" \in files[s] /\ changes[s] # previous[p]
     IN  Goto(p, IF collision THEN "release" ELSE "files")
  /\ UNCHANGED <<disk, lock, now, plan, acked, faults>>

MakeSnapshotDir(p) ==
  /\ pc[p] = "files"
  /\ target[p] \notin dirs
  /\ dirs' = dirs \cup {target[p]}
  /\ UNCHANGED <<entry, files, changes, objects, orphanedSince, pins, lock,
                 now, pc, plan, acked, faults>>

(* A file is written when it is missing or its content differs.            *)
Current(p, f) ==
  /\ f \in files[target[p]]
  /\ f = "CHANGES" => changes[target[p]] = previous[p]

WriteFile(p) ==
  /\ pc[p] = "files"
  /\ target[p] \in dirs
  /\ \E i \in 1..3 :
       /\ ~Current(p, FileOrder[i])
       /\ \A j \in 1..(i - 1) : Current(p, FileOrder[j])
       /\ files' = [files EXCEPT ![target[p]] = @ \cup {FileOrder[i]}]
       /\ changes' = IF FileOrder[i] = "CHANGES"
                       THEN [changes EXCEPT ![target[p]] = previous[p]]
                       ELSE changes
  /\ UNCHANGED <<entry, dirs, objects, orphanedSince, pins, lock, now, pc,
                 plan, acked, faults>>

(* Mutant: the entry is switched while the metadata is being written.      *)
FilesWrittenEarly(p) ==
  /\ pc[p] = "files"
  /\ target[p] \in dirs
  /\ Goto(p, "activate")
  /\ UNCHANGED <<disk, lock, now, plan, acked, faults>>

FilesWritten(p) ==
  /\ pc[p] = "files"
  /\ target[p] \in dirs
  /\ \A f \in MetaFiles : Current(p, f)
  /\ Goto(p, IF Verified(target[p]) THEN "activate" ELSE "release")
  /\ UNCHANGED <<disk, lock, now, plan, acked, faults>>

(* The entry file is switched last, by an atomic rename.                   *)
WriteEntry(p) ==
  /\ pc[p] = "activate"
  /\ entry' = target[p]
  /\ Goto(p, "release")
  /\ UNCHANGED <<dirs, files, changes, objects, orphanedSince, pins, lock,
                 now, plan, acked, faults>>

------------------------------------------------------------------------------
(* pruneSourceSnapshots.                                                   *)

(* Mutant: a pin without an expiry counts as expired.                      *)
ActiveUntilExpiry(i) ==
  /\ pins[i].snap # NoSnap
  /\ pins[i].expiresAt # Never /\ pins[i].expiresAt > now

Active(i) == pins[i].snap # NoSnap /\ pins[i].expiresAt > now

(* Mutant: the newest snapshots are retained, whichever is current.        *)
RetainedNewest(keepCount) ==
  {s \in dirs : Cardinality({t \in dirs : t > s}) < keepCount}
    \cup {pins[i].snap : i \in {j \in PinIds : Active(j)}}

(* planSnapshotRetention: the current snapshot, the newest keepCount - 1   *)
(* others, and every actively pinned one.                                  *)
Retained(keepCount) ==
  LET others == dirs \ {entry}
  IN  {entry}
        \cup {s \in others :
               Cardinality({t \in others : t > s}) < keepCount - 1}
        \cup {pins[i].snap : i \in {j \in PinIds : Active(j)}}

(* buildRetentionState, planSnapshotRetention and verifyRetained throw.    *)
PruneRefused(keepCount) ==
  \/ entry = NoSnap
  \/ \E s \in dirs : "SNAPSHOT" \notin files[s]
  \/ \E s \in Retained(keepCount) : s \notin dirs \/ ~Verified(s)

(* Mutant: an orphan seen for the first time counts as old.                *)
OrphanedSinceEver(o) == IF orphanedSince[o] # Unobserved THEN orphanedSince[o]
                        ELSE 0

(* An orphan keeps the time it was first observed.                         *)
OrphanedSince(o) == IF orphanedSince[o] # Unobserved THEN orphanedSince[o]
                    ELSE now

PrunePlan(p) ==
  /\ pc[p] = "prune"
  /\ \E keepCount \in KeepCounts, dryRun \in BOOLEAN :
       LET retained == Retained(keepCount)
           orphans == objects \ UNION {ObjectsOf[s] : s \in retained}
           expired == {o \in orphans : now - OrphanedSince(o) >= Grace}
       IN  IF PruneRefused(keepCount) \/ dryRun
             THEN Goto(p, "release")
                  /\ UNCHANGED <<removeSnaps, removeObjects, nextOrphaned>>
             ELSE /\ Goto(p, "deleting")
                  /\ removeSnaps' = [removeSnaps EXCEPT ![p] = dirs \ retained]
                  /\ removeObjects' = [removeObjects EXCEPT ![p] = expired]
                  /\ nextOrphaned' = [nextOrphaned EXCEPT ![p] =
                       [o \in Objects |-> IF o \in orphans \ expired
                                             THEN OrphanedSince(o)
                                             ELSE Unobserved]]
  /\ UNCHANGED <<disk, lock, now, target, previous, pinId, nextPins, acked,
                 faults>>

(* Mutant: a snapshot counts as deleted before its directory is gone.      *)
RemoveSnapshotUnconfirmed(p) ==
  /\ pc[p] = "deleting"
  /\ \E s \in removeSnaps[p] :
       \/ /\ \E f \in files[s] : files' = [files EXCEPT ![s] = @ \ {f}]
          /\ UNCHANGED removeSnaps
       \/ /\ files[s] = {}
          /\ removeSnaps' = [removeSnaps EXCEPT ![p] = @ \ {s}]
          /\ UNCHANGED files
  /\ UNCHANGED <<entry, dirs, changes, objects, orphanedSince, pins, lock, now,
                 pc, target, previous, removeObjects, nextOrphaned, pinId,
                 nextPins, acked, faults>>

(* Snapshots go first, newest first; a recursive removal deletes the files *)
(* of a directory one by one, in any order, and then the directory.        *)
RemoveSnapshot(p) ==
  /\ pc[p] = "deleting"
  /\ \E s \in removeSnaps[p] :
       /\ \A t \in removeSnaps[p] : t <= s
       /\ \/ /\ \E f \in files[s] :
                  files' = [files EXCEPT ![s] = @ \ {f}]
             /\ UNCHANGED <<dirs, removeSnaps>>
          \/ /\ files[s] = {}
             /\ dirs' = dirs \ {s}
             /\ removeSnaps' = [removeSnaps EXCEPT ![p] = @ \ {s}]
             /\ UNCHANGED files
  /\ UNCHANGED <<entry, changes, objects, orphanedSince, pins, lock, now, pc,
                 target, previous, removeObjects, nextOrphaned, pinId,
                 nextPins, acked, faults>>

RemoveObject(p) ==
  /\ pc[p] = "deleting"
  /\ removeSnaps[p] = {}
  /\ \E o \in removeObjects[p] :
       /\ \A x \in removeObjects[p] : o <= x
       /\ objects' = objects \ {o}
       /\ removeObjects' = [removeObjects EXCEPT ![p] = @ \ {o}]
  /\ UNCHANGED <<entry, dirs, files, changes, orphanedSince, pins, lock, now,
                 pc, target, previous, removeSnaps, nextOrphaned, pinId,
                 nextPins, acked, faults>>

(* The gc file is written last; the verification after it only reads.      *)
WriteGcState(p) ==
  /\ pc[p] = "deleting"
  /\ removeSnaps[p] = {} /\ removeObjects[p] = {}
  /\ orphanedSince' = nextOrphaned[p]
  /\ Goto(p, "release")
  /\ UNCHANGED <<entry, dirs, files, changes, objects, pins, lock, now, plan,
                 acked, faults>>

------------------------------------------------------------------------------
(* upsertSourceSnapshotPin and removeSourceSnapshotPin.  Both return the   *)
(* promise of writeState without awaiting it, so their finally clause may  *)
(* release the lock while the new pins file is still being written.        *)

WithPin(i, pin) == [pins EXCEPT ![i] = pin]

(* PIN_TARGET_MISSING refuses a snapshot that cannot be verified.          *)
UpsertPlan(p) ==
  /\ pc[p] = "upsert"
  /\ \E i \in PinIds, s \in Snaps, expiresAt \in {now + 1, Never} :
       \/ /\ ~Verified(s)
          /\ Goto(p, "release")
          /\ UNCHANGED <<pinId, nextPins>>
       \/ /\ Verified(s)
          /\ Goto(p, "pinUpsert")
          /\ pinId' = [pinId EXCEPT ![p] = i]
          /\ nextPins' = [nextPins EXCEPT ![p] =
               WithPin(i, [snap |-> s, expiresAt |-> expiresAt])]
  /\ UNCHANGED <<disk, lock, now, target, previous, removeSnaps,
                 removeObjects, nextOrphaned, acked, faults>>

RemovePlan(p) ==
  /\ pc[p] = "remove"
  /\ \E i \in PinIds :
       \/ /\ pins[i] = NoPin
          /\ Goto(p, "release")
          /\ UNCHANGED <<pinId, nextPins>>
       \/ /\ pins[i] # NoPin
          /\ Goto(p, "pinRemove")
          /\ pinId' = [pinId EXCEPT ![p] = i]
          /\ nextPins' = [nextPins EXCEPT ![p] = WithPin(i, NoPin)]
  /\ UNCHANGED <<disk, lock, now, target, previous, removeSnaps,
                 removeObjects, nextOrphaned, acked, faults>>

ReleaseBeforeWrite(p) ==
  /\ pc[p] \in PinWrites
  /\ lock = p
  /\ lock' = Free
  /\ UNCHANGED <<disk, now, pc, plan, acked, faults>>

WritePins(p) ==
  /\ pc[p] \in {"pinUpsert", "pinRemove"}
  /\ pins' = nextPins[p]
  /\ acked' = [acked EXCEPT !.pins[pinId[p]] = NoPin]
  /\ Goto(p, IF pc[p] = "pinUpsert" THEN "pinUpserted" ELSE "pinRemoved")
  /\ UNCHANGED <<entry, dirs, files, changes, objects, orphanedSince, lock,
                 now, plan, faults>>

(* writeState reads the file back and compares the revisions.              *)
ConfirmPins(p) ==
  /\ pc[p] \in {"pinUpserted", "pinRemoved"}
  /\ acked' = IF pins = nextPins[p] /\ pc[p] = "pinUpserted"
                THEN [acked EXCEPT !.pins[pinId[p]] = nextPins[p][pinId[p]]]
                ELSE acked
  /\ Goto(p, "release")
  /\ UNCHANGED <<disk, lock, now, plan, faults>>

------------------------------------------------------------------------------
(* Any step may throw: an I/O error, a budget, a stale expectedRevision.   *)
Fail(p) ==
  /\ pc[p] \notin {"idle", "release"}
  /\ faults < MaxFaults
  /\ faults' = faults + 1
  /\ Goto(p, "release")
  /\ UNCHANGED <<disk, lock, now, plan, acked>>

(* A process dies and is started again: what it wrote stays, and so does   *)
(* its lock file, which now names a process that no longer runs.           *)
Crash(p) ==
  /\ pc[p] # "idle"
  /\ faults < MaxFaults
  /\ faults' = faults + 1
  /\ lock' = IF lock \in {p, Left(p)} THEN Dead ELSE lock
  /\ Goto(p, "idle")
  /\ ForgetPlan(p)
  /\ UNCHANGED <<disk, now, acked>>

Tick ==
  /\ now < MaxNow
  /\ now' = now + 1
  /\ UNCHANGED <<disk, lock, pc, plan, acked, faults>>

Publish(p) ==
  \/ Acquire(p, "publish") \/ PublishPlan(p) \/ WriteObject(p)
  \/ ObjectsWritten(p) \/ MakeSnapshotDir(p) \/ WriteFile(p)
  \/ FilesWritten(p) \/ WriteEntry(p)
Prune(p) ==
  \/ Acquire(p, "prune") \/ PrunePlan(p) \/ RemoveSnapshot(p)
  \/ RemoveObject(p) \/ WriteGcState(p)
Pin(p) ==
  \/ Acquire(p, "upsert") \/ UpsertPlan(p)
  \/ Acquire(p, "remove") \/ RemovePlan(p)
  \/ ReleaseBeforeWrite(p) \/ WritePins(p) \/ ConfirmPins(p)

(* The lock file beyond its being taken and given back.                    *)
LockFile(p) == AcquireFails(p) \/ ReleaseFails(p) \/ Exit(p) \/ PidReused(p)

Next ==
  \/ \E p \in Procs : Publish(p) \/ Prune(p) \/ Pin(p) \/ Release(p)
                        \/ LockFile(p) \/ Fail(p) \/ Crash(p)
  \/ Tick

Spec == Init /\ [][Next]_vars

------------------------------------------------------------------------------
(* The snapshot the entry file names can always be read: its manifest and  *)
(* every object it lists exist, whatever was published, pruned or cut      *)
(* short by a crash (README "Safety boundary", publish.ts and              *)
(* retention.ts).                                                          *)
CurrentReadable == entry # NoSnap => Verified(entry)

(* A manifest on disk is never without its objects, not even between two   *)
(* steps or after a crash: publish writes the objects before the metadata, *)
(* prune deletes the metadata before the objects.                          *)
NoDanglingManifest ==
  \A s \in Snaps : "SNAPSHOT" \in files[s] => ObjectsOf[s] \subseteq objects

(* A snapshot directory without its manifest makes listSnapshotManifests   *)
(* throw, so that no later prune or inspection succeeds until the snapshot *)
(* is published again.  The holder of the lock is at work on some of them; *)
(* the others are abandoned.                                               *)
WorkedOn(s) ==
  \E p \in Procs :
    /\ lock = p
    /\ \/ pc[p] = "files" /\ target[p] = s
       \/ pc[p] = "deleting" /\ s \in removeSnaps[p]
Abandoned == {s \in dirs : "SNAPSHOT" \notin files[s] /\ ~WorkedOn(s)}

(* Each failed step and each death abandons at most one directory, however *)
(* many snapshots the prune it ends was about to delete, and nothing else  *)
(* abandons any.                                                           *)
AbandonedOnlyByFaults == Cardinality(Abandoned) <= faults

(* A pin whose upsert returned is in the pins file until another operation *)
(* on that pin writes it, and protects its snapshot until it expires       *)
(* (README "Safety boundary": active explicit pins extend the retention    *)
(* set and are mutated under the store lock).                              *)
AckedPinsAlwaysHold ==
  \A i \in PinIds : acked.pins[i] # NoPin =>
    /\ pins[i] = acked.pins[i]
    /\ acked.pins[i].expiresAt > now => Verified(acked.pins[i].snap)

(* The same, as long as nobody took the lock while a pin operation that no *)
(* longer held it was still writing the pins file.                         *)
AckedPinsHold == ~acked.raced => AckedPinsAlwaysHold

(* Prune deletes an object only if the gc file has recorded it as an       *)
(* orphan for the grace period, and no manifest on disk lists it any more. *)
(* The record may be older than the object's last use: ReferencedRestAnew. *)
OnlyRecordedOrphansGo ==
  [][\A o \in objects \ objects' :
       /\ Grace > 0 => /\ orphanedSince[o] # Unobserved
                      /\ now - orphanedSince[o] >= Grace
       /\ \A s \in Snaps : "SNAPSHOT" \in files[s] => o \notin ObjectsOf[s]]_vars

(* An object that a snapshot has listed again after it was seen orphaned   *)
(* rests anew: the prune that starts while a manifest still lists it may   *)
(* record it as an orphan but not delete it (source-snapshot.md:60: the    *)
(* orphan state of an object is cleared when it is referenced again).  The *)
(* code breaks this: the state is cleared only by a prune that runs while  *)
(* a retained snapshot lists the object.                                   *)
ReferencedRestAnew ==
  [][\A p \in Procs : \A o \in removeObjects'[p] \ removeObjects[p] :
       Grace > 0 =>
         \A s \in Snaps : "SNAPSHOT" \in files[s] => o \notin ObjectsOf[s]]_vars

(* The lock file is accounted for, whatever fails.  The lock of a process  *)
(* that did not fail to give it back is with an operation of it that has   *)
(* not returned: refusals, early returns and failed steps all release it.  *)
(* Without a fault the file never stays behind.  And one that does stay    *)
(* fails closed: nobody works in the store beside it, except for what a    *)
(* pin operation writes after its release.                                 *)
LockHeldByWorker ==
  /\ \A p \in Procs : lock = p => pc[p] # "idle"
  /\ faults = 0 => lock \in Procs \cup {Free}
  /\ lock \in {Left(p) : p \in Procs} =>
       \A p \in Procs : pc[p] \in {"idle", "release"} \cup PinWrites

(* The store implements the promise of CurrentSnapshot.                    *)
Reader == INSTANCE CurrentSnapshot WITH
  current <- entry, available <- {s \in Snaps : Verified(s)}
ReaderSpec == Reader!Spec

==============================================================================
