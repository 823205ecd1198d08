--------------------------- MODULE GenerationStore ---------------------------
(***************************************************************************)
(* The generation store of @openge/forge-repository-context: builders      *)
(* publish a generation under the build lock and switch current.json to    *)
(* it, a reader follows current.json without any lock.                     *)
(*                                                                         *)
(* A builder reads the lock's owner again before each change; reading it   *)
(* and changing the store are two steps.  A builder may be cancelled       *)
(* wherever the code looks at its signal, any file operation may fail, and *)
(* any builder may die; what it leaves of the lock stays until an operator *)
(* removes it.  Generations are complete files: they appear by a rename.   *)
(***************************************************************************)
EXTENDS Naturals, FiniteSets

CONSTANTS
  Builders, Gens,
  None,
  Left,      \* the owner of a lock directory whose maker is gone
  Settings   \* who else there is, and the generations that get built

ASSUME StoreAssumption ==
  /\ None \notin Gens /\ {None, Left} \cap Builders = {} /\ None # Left
  /\ Settings \subseteq
       [careless : BOOLEAN, reads : BOOLEAN, gens : SUBSET Gens]

VARIABLES
  lock,      \* owner of .build-lock, None without one
  current,   \* generationId of current.json
  files,     \* generations/<id>.json
  staging,   \* temporary files of a builder: <<builder, "gen" or "ptr">>
  pc, gen,   \* each builder's next step and the generation it publishes
  turn,      \* what the builder prunes for: "first", "failed", "committed"
  todo,      \* entries its pruning has listed and not yet reached
  result,    \* how its publication ended
  before,    \* history: current when it took the lock
  extra,     \* history: what it removed or switched after losing the lock
  reader,    \* the reader's own state (see Reading)
  setting    \* whether the operator may remove the lock of a live builder,
             \* whether there is a reader, and the generations to build

store == <<current, files, staging>>
local == <<gen, turn, todo, before>>
vars == <<lock, current, files, staging, pc, gen, turn, todo, result, before,
          extra, reader, setting>>

Temporary == Builders \X {"gen", "ptr"}

(* attempt: reads of the pointer so far; id: the one read last; commits    *)
(* and seen: history, the switches during the read (up to 3) and every     *)
(* generation that was current during it.                                  *)
Reading == [at : {"idle", "pointer", "open", "read", "missing"},
            attempt : 0..2, id : Gens \cup {None}, commits : 0..3,
            seen : SUBSET Gens]
NotReading == [at |-> "idle", attempt |-> 0, id |-> None, commits |-> 0,
               seen |-> {}]

Init ==
  /\ lock = None /\ current = None /\ files = {} /\ staging = {}
  /\ pc = [b \in Builders |-> "idle"]
  /\ gen = [b \in Builders |-> None]
  /\ turn = [b \in Builders |-> "first"]
  /\ todo = [b \in Builders |-> {}]
  /\ result = [b \in Builders |-> "none"]
  /\ before = [b \in Builders |-> None]
  /\ extra = [b \in Builders |-> 0]
  /\ reader = NotReading
  /\ setting \in Settings

Goto(b, l) == pc' = [pc EXCEPT ![b] = l]
Owns(b) == lock = b

------------------------------------------------------------------------------
(* A builder that is idle again remembers nothing.                         *)
Ends(b) ==
  /\ Goto(b, "idle")
  /\ gen' = [gen EXCEPT ![b] = None]
  /\ turn' = [turn EXCEPT ![b] = "first"]
  /\ todo' = [todo EXCEPT ![b] = {}]
  /\ result' = [result EXCEPT ![b] = "none"]
  /\ before' = [before EXCEPT ![b] = None]
  /\ extra' = [extra EXCEPT ![b] = 0]

(* acquireBuildLock: the directory is made, then the owner is written into *)
(* whatever directory is there; an existing one is never taken over.       *)
MakeLock(b, g) ==
  /\ pc[b] = "idle" /\ lock = None /\ g \in setting.gens
  /\ lock' = Left
  /\ Goto(b, "owner")
  /\ gen' = [gen EXCEPT ![b] = g]
  /\ before' = [before EXCEPT ![b] = current]
  /\ UNCHANGED <<store, turn, todo, result, extra, reader, setting>>

WriteOwner(b) ==
  /\ pc[b] = "owner"
  /\ \/ /\ lock # None /\ lock' = b
        /\ Goto(b, "build")
        /\ UNCHANGED <<local, result, extra>>
     \/ UNCHANGED lock /\ Ends(b)
  /\ UNCHANGED <<store, reader, setting>>

(* The extraction: nothing of it touches the store.  A rejected, stale or  *)
(* cancelled build goes straight to the release.                           *)
Build(b) ==
  /\ pc[b] = "build"
  /\ \/ Goto(b, "publish") /\ UNCHANGED result
     \/ Goto(b, "release") /\ result' = [result EXCEPT ![b] = "rejected"]
  /\ UNCHANGED <<lock, store, local, extra, reader, setting>>

(* Where a failure leads: to the release, or first to a pruning.           *)
Fails(b, r) ==
  /\ Goto(b, "release")
  /\ result' = [result EXCEPT ![b] = r]
  /\ UNCHANGED <<lock, store, local, extra, reader, setting>>

(* Mutant: a failed publication leaves its candidate.                      *)
FailsKeeping(b) == Fails(b, "cancelled")

FailsPruning(b) ==
  /\ Goto(b, "list")
  /\ turn' = [turn EXCEPT ![b] = "failed"]
  /\ UNCHANGED <<lock, store, gen, todo, result, before, extra, reader,
                 setting>>

(* publishRepositoryGeneration begins: the signal, then the lock.          *)
Publish(b) ==
  /\ pc[b] = "publish"
  /\ \/ /\ Owns(b)
        /\ Goto(b, "list")
        /\ turn' = [turn EXCEPT ![b] = "first"]
        /\ UNCHANGED <<lock, store, gen, todo, result, before, extra, reader,
                       setting>>
     \/ Fails(b, "rejected")
     \/ ~Owns(b) /\ Fails(b, "lost")

------------------------------------------------------------------------------
(* pruneGenerations.                                                       *)

(* Mutant: what an interrupted build left is not recognised.               *)
ManagedFinished(b, keep) ==
  {<<"generation", g>> : g \in files \ {keep}}

(* What it removes: every generation but the kept one, and every           *)
(* temporary file.                                                         *)
Managed(b, keep) ==
  {<<"generation", g>> : g \in files \ {keep}}
    \cup {<<"staged", s>> : s \in staging}

(* Mutant: the candidate is kept, not the generation it may replace.       *)
KeepOwn(b) == gen[b]

Keep(b) == IF turn[b] = "committed" THEN gen[b] ELSE current

(* The pointer is read, the lock checked and the directories listed; the   *)
(* two directories are one here.                                           *)
List(b) ==
  /\ pc[b] = "list"
  /\ \/ /\ Owns(b)
        /\ todo' = [todo EXCEPT ![b] = Managed(b, Keep(b))]
        /\ Goto(b, "prune")
        /\ UNCHANGED <<lock, store, gen, turn, result, before, extra, reader,
                       setting>>
     \/ ~Owns(b) /\ Fails(b, "lost")

(* Mutant: the lock is looked at when the entries are listed only.         *)
PruneUnchecked(b) ==
  /\ pc[b] = "prune" /\ todo[b] # {}
  /\ Goto(b, "unlink")
  /\ UNCHANGED <<lock, store, local, result, extra, reader, setting>>

(* The lock is read again before every entry.                              *)
PruneCheck(b) ==
  /\ pc[b] = "prune" /\ todo[b] # {}
  /\ \/ Owns(b) /\ Goto(b, "unlink")
                /\ UNCHANGED <<lock, store, local, result, extra, reader,
                               setting>>
     \/ ~Owns(b) /\ Fails(b, "lost")

(* History: an act of a builder that has lost the lock.                    *)
Act(b) == extra' = [extra EXCEPT ![b] = IF Owns(b) \/ @ = 2 THEN @ ELSE @ + 1]

Unlink(b) ==
  /\ pc[b] = "unlink"
  /\ \/ /\ \E e \in todo[b] :
             /\ files' = files \ {g \in Gens : e = <<"generation", g>>}
             /\ staging' = staging \ {s \in Temporary : e = <<"staged", s>>}
             /\ todo' = [todo EXCEPT ![b] = @ \ {e}]
        /\ Act(b)
        /\ Goto(b, "prune")
        /\ UNCHANGED <<lock, current, gen, turn, result, before, reader,
                       setting>>
     \/ Fails(b, "cleanup")

(* Nothing is left to remove: on to the candidate, or to the release.      *)
Pruned(b) ==
  /\ pc[b] = "prune" /\ todo[b] = {}
  /\ IF turn[b] = "first"
       THEN Goto(b, "candidate") /\ UNCHANGED result
       ELSE /\ Goto(b, "release")
            /\ result' = [result EXCEPT ![b] =
                 IF turn[b] = "committed" THEN "ok" ELSE "cancelled"]
  /\ UNCHANGED <<lock, store, local, extra, reader, setting>>

------------------------------------------------------------------------------
(* publish of the candidate: an identical file is left as it is.           *)
Candidate(b) ==
  /\ pc[b] = "candidate"
  /\ \/ FailsPruning(b)
     \/ /\ IF gen[b] \in files
             THEN Goto(b, "written") /\ UNCHANGED staging
             ELSE Goto(b, "staged") /\ staging' = staging \cup {<<b, "gen">>}
        /\ UNCHANGED <<lock, current, files, local, result, extra, reader,
                       setting>>

(* atomicWriteArtifact renames the temporary file, or fails and removes it *)
(* if it can.                                                              *)
RenameCandidate(b) ==
  /\ pc[b] = "staged"
  /\ \/ /\ files' = files \cup {gen[b]}
        /\ staging' = staging \ {<<b, "gen">>}
        /\ Goto(b, "written")
        /\ UNCHANGED <<lock, current, local, result, extra, reader, setting>>
     \/ /\ staging' \in {staging, staging \ {<<b, "gen">>}}
        /\ Goto(b, "list")
        /\ turn' = [turn EXCEPT ![b] = "failed"]
        /\ UNCHANGED <<lock, current, files, gen, todo, result, before, extra,
                       reader, setting>>

(* The lock and the signal, then the pointer's own temporary file.         *)
Written(b) ==
  /\ pc[b] = "written"
  /\ \/ /\ Owns(b)
        /\ staging' = staging \cup {<<b, "ptr">>}
        /\ Goto(b, "check")
        /\ UNCHANGED <<lock, current, files, local, result, extra, reader,
                       setting>>
     \/ FailsPruning(b)

(* publishCurrent: the lock and the signal again, right before the rename. *)
SwitchCheck(b) ==
  /\ pc[b] = "check"
  /\ \/ /\ Owns(b)
        /\ Goto(b, "switch")
        /\ UNCHANGED <<lock, store, local, result, extra, reader, setting>>
     \/ FailsPruning(b)

(* The rename is the commit point; Windows may refuse it for a while, and  *)
(* the checks are then made again.                                         *)
Switch(b) ==
  /\ pc[b] = "switch"
  /\ \/ /\ current' = gen[b]
        /\ staging' = staging \ {<<b, "ptr">>}
        /\ Act(b)
        /\ Goto(b, "committed")
        /\ reader' = IF reader.at = "idle" THEN reader
                     ELSE [reader EXCEPT !.commits = IF @ = 3 THEN @ ELSE @ + 1,
                                         !.seen = @ \cup {gen[b]}]
        /\ UNCHANGED <<lock, files, local, result, setting>>
     \/ Goto(b, "check") /\ UNCHANGED <<lock, store, local, result, extra,
                                        reader, setting>>
     \/ FailsPruning(b)

(* After the commit nothing is cancelled any more.                         *)
Committed(b) ==
  /\ pc[b] = "committed"
  /\ \/ /\ Owns(b)
        /\ Goto(b, "list")
        /\ turn' = [turn EXCEPT ![b] = "committed"]
        /\ UNCHANGED <<lock, store, gen, todo, result, before, extra, reader,
                       setting>>
     \/ ~Owns(b) /\ Fails(b, "lost")

(* releaseBuildLock: only its own.                                         *)
Release(b) ==
  /\ pc[b] = "release"
  /\ lock' = IF Owns(b) THEN None ELSE lock
  /\ Ends(b)
  /\ UNCHANGED <<store, reader, setting>>

------------------------------------------------------------------------------
(* The process dies; its lock, if it has one, stays.                       *)
Crash(b) ==
  /\ pc[b] # "idle"
  /\ lock' = IF Owns(b) THEN Left ELSE lock
  /\ Ends(b)
  /\ UNCHANGED <<store, reader, setting>>

(* The operator removes a lock once its maker is gone, as the              *)
(* documentation asks; a careless one does not look.                       *)
RemoveLock ==
  /\ lock # None
  /\ setting.careless \/ (lock = Left /\ \A b \in Builders : pc[b] # "owner")
  /\ lock' = None
  /\ UNCHANGED <<store, pc, local, result, extra, reader, setting>>

------------------------------------------------------------------------------
(* loadCurrentGeneration: the pointer, then the file it names.             *)

ReadBegins ==
  /\ setting.reads /\ reader.at \in {"idle", "read", "missing"}
  /\ reader' = [NotReading EXCEPT !.at = "pointer", !.seen = {current} \ {None}]
  /\ UNCHANGED <<lock, store, pc, local, result, extra, setting>>

ReadPointer ==
  /\ reader.at = "pointer"
  /\ reader' = IF current = None THEN NotReading
               ELSE [reader EXCEPT !.at = "open", !.id = current]
  /\ UNCHANGED <<lock, store, pc, local, result, extra, setting>>

(* A file that is gone makes it read the pointer again, twice at most.     *)
OpenGeneration ==
  /\ reader.at = "open"
  /\ reader' =
       IF reader.id \in files THEN [reader EXCEPT !.at = "read"]
       ELSE IF reader.attempt >= 2 THEN [reader EXCEPT !.at = "missing"]
       ELSE [reader EXCEPT !.at = "pointer", !.attempt = @ + 1]
  /\ UNCHANGED <<lock, store, pc, local, result, extra, setting>>

Step(b) ==
  \/ \E g \in Gens : MakeLock(b, g)
  \/ WriteOwner(b) \/ Build(b) \/ Publish(b)
  \/ List(b) \/ PruneCheck(b) \/ Unlink(b) \/ Pruned(b)
  \/ Candidate(b) \/ RenameCandidate(b) \/ Written(b)
  \/ SwitchCheck(b) \/ Switch(b) \/ Committed(b)
  \/ Release(b) \/ Crash(b)

Next ==
  \/ \E b \in Builders : Step(b)
  \/ RemoveLock
  \/ ReadBegins \/ ReadPointer \/ OpenGeneration

Spec == Init /\ [][Next]_vars

------------------------------------------------------------------------------
(* The store, the builders and the reader keep their types.                *)
TypeOK ==
  /\ lock \in Builders \cup {None, Left}
  /\ current \in Gens \cup {None} /\ files \subseteq Gens
  /\ staging \subseteq Temporary
  /\ pc \in [Builders -> {"idle", "owner", "build", "publish", "list",
       "prune", "unlink", "candidate", "staged", "written", "check", "switch",
       "committed", "release"}]
  /\ gen \in [Builders -> Gens \cup {None}]
  /\ turn \in [Builders -> {"first", "failed", "committed"}]
  /\ todo \in [Builders -> SUBSET ({"generation"} \X Gens
                                     \cup {"staged"} \X Temporary)]
  /\ result \in [Builders -> {"none", "ok", "rejected", "cancelled", "lost",
                          "cleanup"}]
  /\ before \in [Builders -> Gens \cup {None}]
  /\ extra \in [Builders -> 0..2]
  /\ reader \in Reading
  /\ setting \in Settings

(* With an operator that removes only the locks of the dead, as the        *)
(* documentation asks:                                                     *)
(* Whoever reads current.json finds the generation it names, whatever was  *)
(* interrupted, and a reader gives up only after three switches during its *)
(* one read; what it returns was current at some time during it.           *)
CurrentReadable ==
  ~setting.careless =>
    /\ current # None => current \in files
    /\ reader.at = "missing" => reader.commits = 3
    /\ reader.at = "read" => reader.id \in reader.seen

(* Besides the current generation there is one candidate at most, and no   *)
(* more than one temporary file of each kind: interrupted builds do not    *)
(* accumulate.                                                             *)
StoreBounded ==
  ~setting.careless =>
    /\ Cardinality(files \ {current}) <= 1
    /\ \A k \in {"gen", "ptr"} :
         Cardinality({b \in Builders : <<b, k>> \in staging}) <= 1

(* A build that reports success leaves its generation and nothing else;    *)
(* one that was cancelled or failed before the switch leaves what was      *)
(* current before and nothing else; one that never began to publish leaves *)
(* the pointer alone.                                                      *)
OutcomesHold ==
  ~setting.careless => \A b \in Builders : pc[b] = "release" =>
    /\ result[b] = "ok" =>
         current = gen[b] /\ files = {gen[b]} /\ staging = {}
    /\ result[b] = "rejected" => current = before[b]
    /\ result[b] = "cancelled" =>
         current = before[b] /\ files = {current} \ {None} /\ staging = {}

(* A builder whose lock was taken away removes or switches one thing more  *)
(* at most, the one it had just checked for.                               *)
LostLockStops == \A b \in Builders : extra[b] <= 1
==============================================================================
