---------------------------- MODULE ConfigImport ----------------------------
(***************************************************************************)
(* applyConfigBundleImport of @openge/forge-config-bundle: every changed   *)
(* entry is staged beside its target, backed up when the policy asks for   *)
(* it, and renamed into place; a failure undoes the renames in reverse,    *)
(* and temporary files and new directories are removed at the end.         *)
(*                                                                         *)
(* A version of a file stands for its bytes, inode and time of change.     *)
(* Any call may throw, and somebody else may change a target or put a file *)
(* at a backup's place between two calls; what they write to a target may  *)
(* be the very bytes the import has for it.                                *)
(***************************************************************************)
EXTENDS Integers, Sequences, SequencesExt, FiniteSets

CONSTANTS
  Size,       \* number of entries of the bundle
  PathOf,     \* the directories of each entry's target, outermost first
  BackupPath  \* the same of its backup

ASSUME SizeAssumption == Size \in Nat \ {0}
ASSUME PathAssumption ==
  /\ DOMAIN PathOf = 1..Size /\ DOMAIN BackupPath = 1..Size
  /\ \A path \in Range(PathOf) \cup Range(BackupPath) : path \in Seq(Range(path))

Paths == Range(PathOf) \cup Range(BackupPath)
AllDirs == UNION {Range(path) : path \in Paths}

(* Directories form a tree: one has the same depth and the same parent in  *)
(* every path it is on.                                                    *)
ASSUME TreeAssumption ==
  \A p, q \in Paths : \A i \in DOMAIN p, j \in DOMAIN q :
    p[i] = q[j] => i = j /\ (i > 1 => p[i - 1] = q[j - 1])

Entries == 1..Size
Policies == {"reject", "overwrite", "backup"}

(* "new" has the bytes of the bundle and is what the import put there or   *)
(* what it found; "same" has those bytes too and is somebody else's.       *)
Versions == {"none", "old", "new", "other", "same"}
BundleBytes == {"new", "same"}

(* The temporary files: the stage of an entry, that of its undoing, and a  *)
(* backup that is not complete yet.                                        *)
Kinds == {"stage", "undo", "backup"}
Temps == Kinds \X Entries

VARIABLES
  policy,    \* options.conflictPolicy
  target,    \* the file at each target
  original,  \* what preparing saw there
  backup,    \* the file at each backup's place
  temps,     \* stages that exist
  owned,     \* temporary files to remove in the end
  dirs,      \* directories that exist
  made,      \* those the import made, in order
  pc, at,    \* the step under way and its entry, or place in committed
  committed, \* entries renamed into place, in order
  seen,      \* current, the file the undo found at its target
  result,    \* what the import reports
  foreign    \* history: what somebody else made of a target, or when

vars == <<policy, target, original, backup, temps, owned, dirs, made, pc, at,
          committed, seen, result, foreign>>
files == <<target, backup, temps, owned, dirs, made>>

TypeOK ==
  /\ policy \in Policies
  /\ target \in [Entries -> Versions]
  /\ original \in [Entries -> Versions]
  /\ backup \in [Entries -> Versions \cup {"part"}]
  /\ temps \subseteq Temps
  /\ owned \subseteq Temps
  /\ at \in Nat
  /\ committed \in Seq(Entries)
  /\ seen \in Versions
  /\ foreign \in [Entries -> {"no", "other", "none", "same", "window", "mistaken"}]

Nothing == [failed |-> "no", backups |-> {}, restored |-> {},
            unrestored |-> {}, uncleaned |-> {}, keptDirs |-> {}]

Init ==
  /\ policy \in Policies
  /\ target \in [Entries -> {"none", "old", "new"}]
  /\ original = [e \in Entries |-> "none"]
  /\ backup = [e \in Entries |-> "none"]
  /\ temps = {} /\ owned = {}
  /\ dirs \in SUBSET AllDirs /\ made = <<>>
  /\ \A path \in Paths : \A i \in 1..Len(path) - 1 :
       path[i + 1] \in dirs => path[i] \in dirs
  /\ \A e \in Entries : target[e] # "none" => Range(PathOf[e]) \subseteq dirs
  /\ pc = "prepare" /\ at = 0
  /\ committed = <<>> /\ seen = "none"
  /\ result = Nothing
  /\ foreign = [e \in Entries |-> "no"]

Unchanged(e) == original[e] = "new"
BacksUp(e) == policy = "backup" /\ original[e] = "old"

(* recheck: the target is as preparing saw it.                             *)
Rechecked(e) == target[e] = original[e]

Go(step, n) == pc' = step /\ at' = n
Report(field, value) == result' = [result EXCEPT ![field] = value]

(* prepareImport, which writes nothing.                                    *)
Prepare ==
  /\ pc = "prepare"
  /\ original' = target
  /\ LET refused ==
           \E e \in Entries :
             /\ target[e] \notin {"none", "new"}
             /\ policy = "reject" \/ (policy = "backup" /\ backup[e] # "none")
     IN \/ /\ ~refused
           /\ Go("stage", 1)
           /\ UNCHANGED result
        \/ /\ Go("done", 0)
           /\ Report("failed", "preflight")
  /\ UNCHANGED <<policy, files, committed, seen, foreign>>

(* The catch block: undo from the last committed entry, then clean up.     *)
Throw(phase) ==
  /\ Report("failed", phase)
  /\ IF committed = <<>> THEN Go("clean", 0) ELSE Go("undoRead", Len(committed))

(* ensureDirectories walks up from the last directory of the path to one   *)
(* that exists, the n-th, and makes those below it: all, or up to the m-th.*)
Make(path, m) ==
  \E n \in 0..m :
    /\ n > 0 => path[n] \in dirs
    /\ \A i \in n + 1..Len(path) : path[i] \notin dirs
    /\ dirs' = dirs \cup {path[i] : i \in n + 1..m}
    /\ made' = made \o SubSeq(path, n + 1, m)
MakeAll(path) == Make(path, Len(path))
MakeSome(path) == \E m \in 0..Len(path) : Make(path, m)

(* stageFile: it may fail before the file exists or after.                 *)
StageFile(kind, e) ==
  /\ MakeAll(PathOf[e])
  /\ temps' = temps \cup {<<kind, e>>} /\ owned' = owned \cup {<<kind, e>>}
  /\ UNCHANGED <<target, backup>>

StageFails(kind, e) ==
  \/ StageFile(kind, e)
  \/ /\ MakeSome(PathOf[e])
     /\ UNCHANGED <<target, backup, temps, owned>>

Following(step) == IF at < Size THEN Go(pc, at + 1) ELSE Go(step, 1)
Stage ==
  /\ pc = "stage"
  /\ \/ /\ Unchanged(at)
        /\ Following("backup") /\ UNCHANGED <<files, result>>
     \/ /\ ~Unchanged(at) /\ Rechecked(at)
        /\ StageFile("stage", at)
        /\ Following("backup") /\ UNCHANGED result
     \/ /\ ~Unchanged(at) /\ Rechecked(at)
        /\ StageFails("stage", at)
        /\ Throw("staging")
     \/ /\ ~Unchanged(at)
        /\ Throw("staging") /\ UNCHANGED files
  /\ UNCHANGED <<policy, original, committed, seen, foreign>>

(* Mutant: a complete backup stays among the temporary files.              *)
BackupKeepsOwned ==
  /\ pc = "backup"
  /\ \/ ~BacksUp(at) /\ Following("recheck") /\ UNCHANGED <<files, result>>
     \/ /\ BacksUp(at) /\ Rechecked(at) /\ backup[at] = "none"
        /\ MakeAll(BackupPath[at])
        /\ backup' = [backup EXCEPT ![at] = "old"]
        /\ Report("backups", result.backups \cup {at})
        /\ Following("recheck")
        /\ owned' = owned \cup {<<"backup", at>>}
        /\ UNCHANGED <<target, temps>>
  /\ UNCHANGED <<policy, original, committed, seen, foreign>>

(* A backup is owned until it is complete: until then, cleaning removes it.*)
Backup ==
  /\ pc = "backup"
  /\ \/ /\ ~BacksUp(at)
        /\ Following("recheck") /\ UNCHANGED <<files, result>>
     \/ /\ BacksUp(at) /\ Rechecked(at) /\ backup[at] = "none"
        /\ MakeAll(BackupPath[at])
        /\ \/ /\ backup' = [backup EXCEPT ![at] = "old"]
              /\ Report("backups", result.backups \cup {at})
              /\ Following("recheck")
              /\ UNCHANGED owned
           \/ /\ \E b \in {"part", "old"} : backup' = [backup EXCEPT ![at] = b]
              /\ owned' = owned \cup {<<"backup", at>>}
              /\ Throw("backup")
        /\ UNCHANGED <<target, temps>>
     \/ /\ BacksUp(at)
        /\ MakeSome(BackupPath[at])
        /\ Throw("backup") /\ UNCHANGED <<target, backup, temps, owned>>
  /\ UNCHANGED <<policy, original, committed, seen, foreign>>

(* Before the first rename, every target is looked at once more.           *)
Recheck ==
  /\ pc = "recheck"
  /\ \/ Rechecked(at) /\ Following("check") /\ UNCHANGED result
     \/ Throw("commit")
  /\ UNCHANGED <<policy, original, files, committed, seen, foreign>>

Check ==
  /\ pc = "check"
  /\ \/ /\ Unchanged(at)
        /\ IF at < Size THEN Go("check", at + 1) ELSE Go("clean", 0)
        /\ UNCHANGED result
     \/ /\ ~Unchanged(at) /\ Rechecked(at)
        /\ Go("rename", at) /\ UNCHANGED result
     \/ ~Unchanged(at) /\ Throw("commit")
  /\ UNCHANGED <<policy, original, files, committed, seen, foreign>>

(* rename(stage, target) replaces whatever is there by now.                *)
Rename ==
  /\ pc = "rename"
  /\ \/ /\ target' = [target EXCEPT ![at] = "new"]
        /\ temps' = temps \ {<<"stage", at>>}
        /\ owned' = owned \ {<<"stage", at>>}
        /\ committed' = Append(committed, at)
        /\ IF at < Size THEN Go("check", at + 1) ELSE Go("clean", 0)
        /\ UNCHANGED <<backup, dirs, made, result>>
     \/ Throw("commit") /\ UNCHANGED <<files, committed>>
  /\ UNCHANGED <<policy, original, seen, foreign>>

Undone == committed[at]

(* Mutant: the loop over the committed entries stops one short.            *)
NextUndoShort ==
  /\ IF at > 2 THEN Go("undoRead", at - 1) ELSE Go("clean", 0)
  /\ seen' = "none"

NextUndo ==
  /\ IF at > 1 THEN Go("undoRead", at - 1) ELSE Go("clean", 0)
  /\ seen' = "none"
NotRestored ==
  /\ Report("unrestored", result.unrestored \cup {Undone})
  /\ NextUndo

(* A target with other bytes than the bundle's is not restored.  The same  *)
(* bytes of somebody else are taken for the import's.                      *)
UndoRead ==
  /\ pc = "undoRead"
  /\ \/ /\ target[Undone] \in BundleBytes
        /\ seen' = target[Undone]
        /\ foreign' = [foreign EXCEPT ![Undone] =
                        IF target[Undone] = "same" THEN "mistaken" ELSE @]
        /\ Go(IF original[Undone] = "none" THEN "undoCheck" ELSE "undoStage", at)
        /\ UNCHANGED result
     \/ NotRestored /\ UNCHANGED foreign
  /\ UNCHANGED <<policy, original, files, committed>>

UndoStage ==
  /\ pc = "undoStage"
  /\ \/ StageFile("undo", Undone) /\ Go("undoCheck", at)
        /\ UNCHANGED <<seen, result>>
     \/ StageFails("undo", Undone) /\ NotRestored
  /\ UNCHANGED <<policy, original, committed, foreign>>

(* Mutant: the target is not looked at again before it is replaced.        *)
UndoUnchecked ==
  /\ pc = "undoCheck"
  /\ Go("undo", at)
  /\ UNCHANGED <<result, policy, original, files, committed, seen, foreign>>

UndoCheck ==
  /\ pc = "undoCheck"
  /\ \/ target[Undone] = seen /\ Go("undo", at) /\ UNCHANGED <<seen, result>>
     \/ NotRestored
  /\ UNCHANGED <<policy, original, files, committed, foreign>>

(* rename(rollback, target), or unlink(target) for a new file.             *)
Undo ==
  /\ pc = "undo"
  /\ \/ /\ original[Undone] # "none" \/ target[Undone] # "none"
        /\ target' = [target EXCEPT ![Undone] = original[Undone]]
        /\ temps' = temps \ {<<"undo", Undone>>}
        /\ owned' = owned \ {<<"undo", Undone>>}
        /\ Report("restored", result.restored \cup {Undone})
        /\ NextUndo
        /\ UNCHANGED <<backup, dirs, made>>
     \/ NotRestored /\ UNCHANGED files
  /\ UNCHANGED <<policy, original, committed, foreign>>

(* Each owned file is removed, or its removal fails and is reported.       *)
Clean ==
  /\ pc = "clean"
  /\ \E left \in SUBSET owned :
       /\ temps' = temps \ (owned \ left)
       /\ backup' = [e \in Entries |->
            IF <<"backup", e>> \in owned \ left THEN "none" ELSE backup[e]]
       /\ Report("uncleaned", left)
  /\ owned' = {}
  /\ Go("rmdir", Len(made))
  /\ UNCHANGED <<policy, original, target, dirs, made, committed, seen, foreign>>

(* What lies in directory d, other directories included.                   *)
Inside(d, path, isThere) == isThere /\ path # <<>> /\ Last(path) = d
Empty(d) ==
  /\ \A e \in Entries :
       /\ ~Inside(d, PathOf[e], target[e] # "none")
       /\ \A kind \in Kinds : ~Inside(d, PathOf[e], <<kind, e>> \in temps)
       /\ ~Inside(d, BackupPath[e], backup[e] # "none")
  /\ \A path \in Paths : \A i \in 1..Len(path) - 1 :
       path[i] = d => path[i + 1] \notin dirs

(* Mutant: the directories are visited in the order they were made.        *)
RmdirInOrder ==
  /\ pc = "rmdir"
  /\ IF at = 0 THEN Go("done", 0) /\ UNCHANGED dirs
     ELSE /\ Go("rmdir", at - 1)
          /\ LET d == made[Len(made) + 1 - at]
             IN dirs' = IF Empty(d) THEN dirs \ {d} ELSE dirs
  /\ UNCHANGED <<policy, original, target, backup, temps, owned, made,
                 committed, seen, result, foreign>>

(* New directories are removed where they are empty, the last one first.   *)
Rmdir ==
  /\ pc = "rmdir"
  /\ IF at = 0 THEN Go("done", 0) /\ UNCHANGED <<dirs, result>>
     ELSE /\ Go("rmdir", at - 1)
          /\ \/ /\ dirs' = IF Empty(made[at]) THEN dirs \ {made[at]} ELSE dirs
                /\ UNCHANGED result
             \/ /\ Report("keptDirs", result.keptDirs \cup {made[at]})
                /\ UNCHANGED dirs
  /\ UNCHANGED <<policy, original, target, backup, temps, owned, made,
                 committed, seen, foreign>>

(* Somebody else replaces, creates or deletes a target, once.              *)
InWindow(e) ==
  \/ pc = "rename" /\ at = e
  \/ pc = "undo" /\ Undone = e

ChangeTarget(e) ==
  /\ pc \notin {"prepare", "done"} /\ foreign[e] = "no"
  /\ Range(PathOf[e]) \subseteq dirs
  /\ \E v \in {"other", "none", "same"} \ {target[e]} :
       /\ target' = [target EXCEPT ![e] = v]
       /\ foreign' = [foreign EXCEPT ![e] = IF InWindow(e) THEN "window" ELSE v]
  /\ UNCHANGED <<policy, original, backup, temps, owned, dirs, made, pc, at,
                 committed, seen, result>>

PlaceBackup(e) ==
  /\ policy = "backup" /\ pc # "done" /\ backup[e] = "none"
  /\ Range(BackupPath[e]) \subseteq dirs
  /\ backup' = [backup EXCEPT ![e] = "other"]
  /\ UNCHANGED <<policy, target, original, temps, owned, dirs, made, pc, at,
                 committed, seen, result, foreign>>

Import ==
  \/ Prepare \/ Stage \/ Backup \/ Recheck \/ Check \/ Rename \/ UndoRead
  \/ UndoStage \/ UndoCheck \/ Undo \/ Clean \/ Rmdir
Others == \E e \in Entries : ChangeTarget(e) \/ PlaceBackup(e)
Next == Import \/ Others

Spec == Init /\ [][Next]_vars

------------------------------------------------------------------------------
(* At the end a target nobody else changed is new exactly when it was      *)
(* committed and not restored, and has its first content otherwise;        *)
(* without an error every changed entry was committed, and after one each  *)
(* commit was restored or reported as not restored.                        *)
TargetsAsReported ==
  pc = "done" =>
    /\ \A e \in Entries : foreign[e] = "no" /\ original[e] # "new" =>
         (target[e] = "new" <=> e \in Range(committed) \ result.restored)
         /\ target[e] \in {"new", original[e]}
    /\ IF result.failed = "no"
         THEN \A e \in Entries : Unchanged(e) \/ e \in Range(committed)
         ELSE Range(committed) = result.restored \cup result.unrestored

(* At the end no temporary file, incomplete backup or empty new directory  *)
(* is left that the diagnostics do not name.                               *)
LeftoversReported ==
  pc = "done" =>
    /\ temps \subseteq result.uncleaned
    /\ \A e \in Entries :
         backup[e] = "part" => <<"backup", e>> \in result.uncleaned
    /\ (\A e \in Entries : foreign[e] = "no") =>
         \A d \in Range(made) \cap dirs : Empty(d) => d \in result.keptDirs

(* What the import reports is what it did, of its targets and of what it   *)
(* left behind.                                                            *)
ResultHonest == TargetsAsReported /\ LeftoversReported

(* Under the backup policy no target is replaced before its content is in  *)
(* a complete backup, which from then on stays, whatever fails later: a    *)
(* crash at any moment loses nothing.                                      *)
OriginalsKept ==
  /\ \A e \in result.backups : backup[e] = "old"
  /\ \A e \in Range(committed) : BacksUp(e) => e \in result.backups

(* A change somebody else makes to a target survives the import, its undo  *)
(* included, unless it falls between the last look at that target and the  *)
(* rename or unlink that follows, or it gave the target the bytes of the   *)
(* bundle and the undo takes them for the import's: then the target stays  *)
(* or is reported as restored.  A file placed where a backup should go is  *)
(* neither overwritten nor cleaned up.                                     *)
ForeignSurvives ==
  [][\A e \in Entries :
       /\ foreign'[e] \in {"other", "none", "same"} => target'[e] = foreign'[e]
       /\ foreign'[e] = "mistaken" =>
            target'[e] = "same" \/ e \in result'.restored
       /\ backup[e] = "other" => backup'[e] = "other"]_vars

==============================================================================
