-------------------------- MODULE ConfigImportProofs --------------------------
(***************************************************************************)
(* For bundles of any size, in any directories, whatever calls fail and    *)
(* whoever else is at work: an import under the backup policy loses no     *)
(* original, it undoes nobody's change but for the gap between a look at a *)
(* target and the call that replaces it and for the bytes of its own       *)
(* bundle, and what it reports is true.                                    *)
(***************************************************************************)
EXTENDS ConfigImport, SequenceTheorems, TLAPS

Looping == {"stage", "backup", "recheck", "check", "rename"}
Undoing == {"undoRead", "undoStage", "undoCheck", "undo"}
Foreign == {"other", "none", "same"}

(* A loop over the entries is at one of them, the undo at a committed one. *)
Shape ==
  /\ original \in [Entries -> {"none", "old", "new"}]
  /\ target \in [Entries -> Versions]
  /\ backup \in [Entries -> Versions \cup {"part"}]
  /\ foreign \in [Entries -> Foreign \cup {"no", "window", "mistaken"}]
  /\ committed \in Seq(Entries)
  /\ result = [failed |-> result.failed, backups |-> result.backups,
               restored |-> result.restored, unrestored |-> result.unrestored,
               uncleaned |-> result.uncleaned, keptDirs |-> result.keptDirs]
  /\ pc \in Looping => at \in Entries
  /\ pc \in Undoing => at \in 1..Len(committed)
  /\ pc = "prepare" =>
       /\ target \in [Entries -> {"none", "old", "new"}]
       /\ foreign = [e \in Entries |-> "no"]
       /\ committed = <<>>

(* The entry is still to be committed.                                     *)
Ahead(e) ==
  pc \in {"stage", "backup", "recheck"} \/ (pc \in {"check", "rename"} /\ at <= e)

(* A target still to be committed is as it was prepared, unless somebody   *)
(* changed it, and then it is not.                                         *)
AheadIsKept ==
  \A e \in Entries : Ahead(e) =>
    /\ foreign[e] = "no" => target[e] = original[e]
    /\ foreign[e] \in Foreign => original[e] # foreign[e]
    /\ foreign[e] # "mistaken"

(* Nobody had changed the target that is about to be replaced.             *)
WindowIsOpen ==
  /\ pc = "rename" => foreign[at] \notin Foreign
  /\ pc = "undo" => foreign[Undone] \notin Foreign

(* What the undo took for the import's own is, or was noted.               *)
ReadIsOwn ==
  pc \in {"undoStage", "undoCheck"} =>
    seen \in BundleBytes /\ (seen = "same" => foreign[Undone] = "mistaken")

Survives ==
  \A e \in Entries :
    /\ foreign[e] \in Foreign => target[e] = foreign[e]
    /\ foreign[e] = "mistaken" => target[e] = "same" \/ e \in result.restored

ForeignInv == AheadIsKept /\ WindowIsOpen /\ ReadIsOwn /\ Survives

(* A backup is owned or reported, and complete once it is reported.        *)
Told(e) ==
  /\ <<"backup", e>> \in owned =>
       backup[e] \in {"part", "old"} /\ e \notin result.backups
  /\ e \in result.backups => backup[e] = "old"

BackupsAreTold ==
  /\ result.backups \subseteq Entries
  /\ \A e \in Entries : Told(e)

IsCommitted(e) == \E i \in 1..Len(committed) : committed[i] = e

(* What was committed, or soon may be, has its backup.                     *)
BackupsComeFirst ==
  \A e \in Entries :
    /\ BacksUp(e)
    /\ \/ IsCommitted(e) \/ pc \in {"recheck", "check", "rename"}
       \/ pc = "backup" /\ e < at
    => e \in result.backups

BackupInv == BackupsAreTold /\ BackupsComeFirst
IInv == Shape /\ ForeignInv /\ BackupInv

USE SizeAssumption DEF Entries, Looping, Undoing, Foreign

LEMMA InitHolds == Init => IInv
  BY DEF Init, Nothing, IInv, Shape, ForeignInv, AheadIsKept, WindowIsOpen,
         ReadIsOwn, Survives, Ahead, BackupInv, BackupsAreTold, Told, BackupsComeFirst,
         IsCommitted, Versions

(* Where an exception leads to, and the next entry or commit.              *)
LEMMA ThrowGoes ==
  ASSUME NEW phase, Throw(phase), committed \in Seq(Entries)
  PROVE  /\ pc' \in {"clean", "undoRead"}
         /\ pc' = "undoRead" => at' \in 1..Len(committed)
  BY DEF Throw, Go

LEMMA FollowingGoes ==
  ASSUME NEW step, Following(step), at \in Entries
  PROVE  \/ at < Size /\ pc' = pc /\ at' = at + 1 /\ at' \in Entries
         \/ at = Size /\ pc' = step /\ at' = 1
  BY DEF Following, Go

LEMMA NextUndoGoes ==
  ASSUME NextUndo, at \in 1..Len(committed), committed \in Seq(Entries)
  PROVE  /\ pc' \in {"clean", "undoRead"}
         /\ pc' = "undoRead" => at' \in 1..Len(committed)
  BY DEF NextUndo, Go

(* Whatever changes neither targets nor who changed them keeps ForeignInv, *)
(* if it leaves the loops or goes on in them.                              *)
LEMMA LookingKeeps ==
  ASSUME Shape, ForeignInv, UNCHANGED <<target, foreign, original, committed>>,
         result'.restored = result.restored,
         \/ pc' \in {"clean", "undoRead", "rmdir", "done"}
         \/ pc = "undoStage" /\ pc' = "undoCheck" /\ at' = at /\ seen' = seen
         \/ pc \in {"stage", "backup"} /\ pc' \in {"stage", "backup", "recheck"}
         \/ pc = "recheck" /\ pc' \in {"recheck", "check"}
         \/ pc = "check" /\ pc' = "check" /\ at' = at + 1
  PROVE  ForeignInv'
<1>1. Survives'
  BY DEF ForeignInv, Survives
<1>2. WindowIsOpen'
  BY DEF WindowIsOpen
<1>3. AheadIsKept'
  BY DEF Shape, ForeignInv, AheadIsKept, Ahead
<1>4. ReadIsOwn'
  BY DEF ForeignInv, ReadIsOwn, Undone
<1> QED BY <1>1, <1>2, <1>3, <1>4 DEF ForeignInv

(* Whatever changes no backup and nothing that tells of them keeps         *)
(* BackupInv, if it does not go on to the next phase too soon.             *)
LEMMA BackupsStay ==
  ASSUME Shape, BackupInv,
         UNCHANGED <<backup, original, policy, committed>>,
         result'.backups = result.backups,
         \A e \in Entries : <<"backup", e>> \in owned' => <<"backup", e>> \in owned,
         \/ pc' \in {"stage", "done"} \cup Undoing \cup {"clean", "rmdir"}
         \/ pc = "stage" /\ pc' = "backup" /\ at' = 1
         \/ pc \in {"recheck", "check", "rename"}
  PROVE  BackupInv'
<1>1. BackupsAreTold'
  BY DEF BackupInv, BackupsAreTold, Told
<1>2. BackupsComeFirst'
  BY DEF BackupInv, BackupsComeFirst, IsCommitted, BacksUp
<1> QED BY <1>1, <1>2 DEF BackupInv

(* Steps that only look, or report: Shape needs to know where they lead.   *)
LEMMA ShapeStays ==
  ASSUME Shape, UNCHANGED <<original, target, backup, foreign, committed>>,
         result' = result \/ \E f \in {"failed", "unrestored", "keptDirs"} :
                               \E v : Report(f, v),
         pc' \in Looping => at' \in Entries,
         pc' \in Undoing => at' \in 1..Len(committed),
         pc' # "prepare"
  PROVE  /\ Shape' /\ result'.backups = result.backups
         /\ result'.restored = result.restored
<1>1. result' = [failed |-> result'.failed, backups |-> result'.backups,
               restored |-> result'.restored, unrestored |-> result'.unrestored,
               uncleaned |-> result'.uncleaned, keptDirs |-> result'.keptDirs]
      /\ result'.backups = result.backups /\ result'.restored = result.restored
  BY DEF Shape, Report
<1> QED BY <1>1 DEF Shape

LEMMA PrepareStep == ASSUME IInv, Prepare PROVE IInv'
<1>1. /\ UNCHANGED <<target, backup, foreign, committed, owned, policy>>
      /\ original' = target /\ committed = <<>>
      /\ \/ pc' = "stage" /\ at' = 1 /\ result' = result
         \/ pc' = "done" /\ Report("failed", "preflight")
      /\ target \in [Entries -> {"none", "old", "new"}]
      /\ foreign = [e \in Entries |-> "no"]
  BY DEF Prepare, Go, IInv, Shape, files
<1>2. Shape' /\ result'.backups = result.backups /\ result'.restored = result.restored
  BY <1>1 DEF IInv, Shape, Report
<1>3. ForeignInv'
  BY <1>1 DEF IInv, ForeignInv, AheadIsKept, WindowIsOpen, ReadIsOwn, Survives,
              Ahead
<1>4. BackupInv'
  BY <1>1, <1>2 DEF IInv, BackupInv, BackupsAreTold, Told, BackupsComeFirst,
                    IsCommitted, BacksUp
<1> QED BY <1>2, <1>3, <1>4 DEF IInv

LEMMA StageStep == ASSUME IInv, Stage PROVE IInv'
<1>1. /\ UNCHANGED <<original, target, backup, foreign, committed, policy>>
      /\ pc = "stage" /\ at \in Entries /\ committed \in Seq(Entries)
      /\ \A e \in Entries : <<"backup", e>> \in owned' => <<"backup", e>> \in owned
      /\ \/ Following("backup") /\ result' = result
         \/ Throw("staging")
  BY DEF Stage, StageFile, StageFails, IInv, Shape, files
<1>2. \/ pc' = "stage" /\ at' \in Entries /\ result' = result
      \/ pc' = "backup" /\ at' = 1 /\ result' = result
      \/ /\ pc' \in {"clean", "undoRead"} /\ Report("failed", "staging")
         /\ pc' = "undoRead" => at' \in 1..Len(committed)
  BY <1>1, FollowingGoes, ThrowGoes DEF Throw
<1>3. Shape' /\ result'.backups = result.backups /\ result'.restored = result.restored
  BY <1>1, <1>2, ShapeStays DEF IInv
<1>4. ForeignInv'
  BY <1>1, <1>2, <1>3, LookingKeeps DEF IInv
<1>5. BackupInv'
  BY <1>1, <1>2, <1>3, BackupsStay DEF IInv
<1> QED BY <1>3, <1>4, <1>5 DEF IInv

LEMMA RecheckStep == ASSUME IInv, Recheck PROVE IInv'
<1>1. /\ UNCHANGED <<original, target, backup, foreign, committed, policy, owned>>
      /\ pc = "recheck" /\ at \in Entries /\ committed \in Seq(Entries)
      /\ \/ Following("check") /\ result' = result
         \/ Throw("commit")
  BY DEF Recheck, IInv, Shape, files
<1>2. \/ pc' \in {"recheck", "check"} /\ at' \in Entries /\ result' = result
      \/ /\ pc' \in {"clean", "undoRead"} /\ Report("failed", "commit")
         /\ pc' = "undoRead" => at' \in 1..Len(committed)
  BY <1>1, FollowingGoes, ThrowGoes DEF Throw
<1>3. Shape' /\ result'.backups = result.backups /\ result'.restored = result.restored
  BY <1>1, <1>2, ShapeStays DEF IInv
<1>4. ForeignInv'
  BY <1>1, <1>2, <1>3, LookingKeeps DEF IInv
<1>5. BackupInv'
  BY <1>1, <1>2, <1>3, BackupsStay DEF IInv
<1> QED BY <1>3, <1>4, <1>5 DEF IInv

LEMMA CheckStep == ASSUME IInv, Check PROVE IInv'
<1>1. /\ UNCHANGED <<original, target, backup, foreign, committed, policy, owned>>
      /\ pc = "check" /\ at \in Entries /\ committed \in Seq(Entries)
      /\ \/ /\ (at < Size /\ pc' = "check" /\ at' = at + 1) \/ pc' = "clean"
            /\ result' = result
         \/ pc' = "rename" /\ at' = at /\ Rechecked(at) /\ result' = result
         \/ Throw("commit")
  BY DEF Check, Go, IInv, Shape, files
<1>2. \/ at < Size /\ pc' = "check" /\ at' = at + 1 /\ result' = result
      \/ pc' = "clean" /\ result' = result
      \/ pc' = "rename" /\ at' = at /\ Rechecked(at) /\ result' = result
      \/ /\ pc' \in {"clean", "undoRead"} /\ Report("failed", "commit")
         /\ pc' = "undoRead" => at' \in 1..Len(committed)
  BY <1>1, ThrowGoes DEF Throw
<1>3. Shape' /\ result'.backups = result.backups /\ result'.restored = result.restored
  BY <1>1, <1>2, ShapeStays DEF IInv
<1>4. ForeignInv'
  <2>1. CASE pc' = "rename"
    <3>1. at' = at /\ Rechecked(at)
      BY <1>2, <2>1
    <3>2. foreign[at] \notin Foreign
      BY <1>1, <3>1 DEF IInv, ForeignInv, AheadIsKept, Survives, Ahead, Rechecked
    <3>3. AheadIsKept' /\ WindowIsOpen' /\ ReadIsOwn'
      BY <1>1, <2>1, <3>1, <3>2 DEF IInv, ForeignInv, AheadIsKept, Ahead,
         WindowIsOpen, ReadIsOwn
    <3>4. Survives'
      BY <1>1, <1>3 DEF IInv, ForeignInv, Survives
    <3> QED BY <3>3, <3>4 DEF ForeignInv
  <2>2. CASE pc' # "rename"
    BY <1>1, <1>2, <1>3, <2>2, LookingKeeps DEF IInv
  <2> QED BY <2>1, <2>2
<1>5. BackupInv'
  BY <1>1, <1>3, BackupsStay DEF IInv
<1> QED BY <1>3, <1>4, <1>5 DEF IInv

(* A backup that is written is owned unless it is complete and reported.   *)
LEMMA BackupStep == ASSUME IInv, Backup PROVE IInv'
<1>1. /\ UNCHANGED <<original, target, foreign, committed, policy>>
      /\ pc = "backup" /\ at \in Entries /\ committed \in Seq(Entries)
  BY DEF Backup, IInv, Shape, files
<1>2. CASE UNCHANGED <<backup, owned>>
  <2>1. \/ Following("recheck") /\ result' = result /\ ~BacksUp(at)
        \/ Throw("backup")
    BY <1>1, <1>2 DEF Backup, IInv, Shape, files
  <2>2. \/ /\ pc' = "backup" /\ at' = at + 1 /\ at' \in Entries
           /\ result' = result /\ ~BacksUp(at)
        \/ /\ pc' = "recheck" /\ at' = 1 /\ at = Size
           /\ result' = result /\ ~BacksUp(at)
        \/ /\ pc' \in {"clean", "undoRead"} /\ Report("failed", "backup")
           /\ pc' = "undoRead" => at' \in 1..Len(committed)
    BY <1>1, <2>1, FollowingGoes, ThrowGoes DEF Throw
  <2>3. Shape' /\ result'.backups = result.backups /\ result'.restored = result.restored
    BY <1>1, <1>2, <2>2, ShapeStays DEF IInv
  <2>4. ForeignInv'
    BY <1>1, <2>2, <2>3, LookingKeeps DEF IInv
  <2>5. BackupsAreTold'
    BY <1>2, <2>3 DEF IInv, BackupInv, BackupsAreTold, Told
  <2>6. BackupsComeFirst'
    BY <1>1, <2>2, <2>3 DEF IInv, BackupInv, BackupsComeFirst, IsCommitted, BacksUp
  <2> QED BY <2>3, <2>4, <2>5, <2>6 DEF IInv, BackupInv
<1>3. CASE ~UNCHANGED <<backup, owned>>
  <2>1. /\ BacksUp(at) /\ backup[at] = "none"
        /\ \/ /\ backup' = [backup EXCEPT ![at] = "old"]
              /\ Report("backups", result.backups \cup {at})
              /\ Following("recheck") /\ owned' = owned
           \/ /\ \E b \in {"part", "old"} : backup' = [backup EXCEPT ![at] = b]
              /\ owned' = owned \cup {<<"backup", at>>}
              /\ Throw("backup")
    BY <1>1, <1>3 DEF Backup, files
  <2>2. \/ /\ result' = [failed |-> result.failed,
                         backups |-> result.backups \cup {at},
                         restored |-> result.restored,
                         unrestored |-> result.unrestored,
                         uncleaned |-> result.uncleaned,
                         keptDirs |-> result.keptDirs]
           /\ backup' = [backup EXCEPT ![at] = "old"] /\ owned' = owned
           /\ \/ pc' = "backup" /\ at' = at + 1 /\ at' \in Entries
              \/ pc' = "recheck" /\ at' = 1 /\ at = Size
        \/ /\ result' = [failed |-> "backup", backups |-> result.backups,
                         restored |-> result.restored,
                         unrestored |-> result.unrestored,
                         uncleaned |-> result.uncleaned,
                         keptDirs |-> result.keptDirs]
           /\ \E b \in {"part", "old"} : backup' = [backup EXCEPT ![at] = b]
           /\ owned' = owned \cup {<<"backup", at>>}
           /\ pc' \in {"clean", "undoRead"}
           /\ pc' = "undoRead" => at' \in 1..Len(committed)
    <3>1. result = [failed |-> result.failed, backups |-> result.backups,
               restored |-> result.restored, unrestored |-> result.unrestored,
               uncleaned |-> result.uncleaned, keptDirs |-> result.keptDirs]
      BY DEF IInv, Shape
    <3>2. CASE /\ \E b \in {"part", "old"} : backup' = [backup EXCEPT ![at] = b]
               /\ owned' = owned \cup {<<"backup", at>>}
               /\ Throw("backup")
      <4>1. /\ Report("failed", "backup") /\ pc' \in {"clean", "undoRead"}
            /\ pc' = "undoRead" => at' \in 1..Len(committed)
        BY <3>2, <1>1, ThrowGoes DEF Throw
      <4> QED BY <3>1, <3>2, <4>1 DEF Report
    <3>3. CASE /\ backup' = [backup EXCEPT ![at] = "old"] /\ owned' = owned
               /\ Report("backups", result.backups \cup {at})
               /\ Following("recheck")
      <4>1. \/ pc' = "backup" /\ at' = at + 1 /\ at' \in Entries
            \/ pc' = "recheck" /\ at' = 1 /\ at = Size
        BY <3>3, <1>1, FollowingGoes
      <4> QED BY <3>1, <3>3, <4>1 DEF Report
    <3> QED BY <2>1, <3>2, <3>3
  <2>3. backup' \in [Entries -> Versions \cup {"part"}]
    BY <1>1, <2>2 DEF IInv, Shape, Versions
  <2>4. Shape'
    <3>1. result' = [failed |-> result'.failed, backups |-> result'.backups,
               restored |-> result'.restored, unrestored |-> result'.unrestored,
               uncleaned |-> result'.uncleaned, keptDirs |-> result'.keptDirs]
      BY <2>2
    <3>2. /\ pc' \in Looping => at' \in Entries
          /\ pc' \in Undoing => at' \in 1..Len(committed)
          /\ pc' # "prepare"
      BY <2>2
    <3> QED BY <1>1, <2>3, <3>1, <3>2 DEF IInv, Shape
  <2>5. ForeignInv'
    BY <1>1, <2>2, LookingKeeps DEF IInv
  <2>6. BackupsAreTold'
    <3>1. result'.backups \subseteq Entries
      BY <1>1, <2>2 DEF IInv, BackupInv, BackupsAreTold
    <3> SUFFICES ASSUME NEW e \in Entries PROVE Told(e)'
      BY <3>1 DEF BackupsAreTold
    <3>2. CASE e = at
      <4>1. <<"backup", e>> \notin owned /\ e \notin result.backups
        BY <2>1, <3>2 DEF IInv, BackupInv, BackupsAreTold, Told
      <4>2. \A b : backup' = [backup EXCEPT ![at] = b] => backup'[e] = b
        BY <3>2 DEF IInv, Shape
      <4>3. CASE /\ result'.backups = result.backups \cup {at}
                 /\ backup' = [backup EXCEPT ![at] = "old"] /\ owned' = owned
        <5>1. backup'[e] = "old"
          BY <4>2, <4>3
        <5> QED BY <4>1, <4>3, <5>1 DEF Told
      <4>4. CASE /\ result'.backups = result.backups
                 /\ \E b \in {"part", "old"} : backup' = [backup EXCEPT ![at] = b]
        <5>1. backup'[e] \in {"part", "old"}
          BY <4>2, <4>4
        <5> QED BY <4>1, <4>4, <5>1 DEF Told
      <4> QED BY <2>2, <4>3, <4>4
    <3>3. CASE e # at
      BY <1>1, <2>2, <3>3 DEF IInv, Shape, BackupInv, BackupsAreTold, Told
    <3> QED BY <3>2, <3>3
  <2>7. BackupsComeFirst'
    BY <1>1, <2>2 DEF IInv, BackupInv, BackupsComeFirst, IsCommitted, BacksUp
  <2> QED BY <2>4, <2>5, <2>6, <2>7 DEF IInv, BackupInv
<1> QED BY <1>2, <1>3

LEMMA RenameStep == ASSUME IInv, Rename PROVE IInv'
<1>1. /\ pc = "rename" /\ at \in Entries /\ committed \in Seq(Entries)
      /\ UNCHANGED <<policy, original, foreign, backup>>
      /\ foreign[at] \notin Foreign
      /\ \A e \in Entries : <<"backup", e>> \in owned' => <<"backup", e>> \in owned
  BY DEF Rename, files, IInv, Shape, ForeignInv, WindowIsOpen
<1>2. CASE Throw("commit") /\ UNCHANGED <<files, committed>>
  <2>1. /\ pc' \in {"clean", "undoRead"} /\ Report("failed", "commit")
        /\ pc' = "undoRead" => at' \in 1..Len(committed)
        /\ UNCHANGED target
    BY <1>1, <1>2, ThrowGoes DEF Throw, files
  <2>2. Shape' /\ result'.backups = result.backups /\ result'.restored = result.restored
    BY <1>1, <1>2, <2>1, ShapeStays DEF IInv
  <2>3. ForeignInv'
    BY <1>1, <1>2, <2>1, <2>2, LookingKeeps DEF IInv
  <2>4. BackupInv'
    BY <1>1, <1>2, <2>2, BackupsStay DEF IInv
  <2> QED BY <2>2, <2>3, <2>4 DEF IInv
<1>3. CASE /\ target' = [target EXCEPT ![at] = "new"]
           /\ committed' = Append(committed, at) /\ result' = result
           /\ IF at < Size THEN Go("check", at + 1) ELSE Go("clean", 0)
  <2>1. \/ pc' = "check" /\ at' = at + 1 /\ at' \in Entries
        \/ pc' = "clean" /\ at' = 0
    BY <1>1, <1>3 DEF Go
  <2>2. committed' \in Seq(Entries)
    BY <1>1, <1>3
  <2>3. target' \in [Entries -> Versions]
    BY <1>3 DEF IInv, Shape, Versions
  <2>4. Shape'
    BY <1>1, <1>3, <2>1, <2>2, <2>3 DEF IInv, Shape
  <2>5. \A e \in Entries : target'[e] = IF e = at THEN "new" ELSE target[e]
    BY <1>3 DEF IInv, Shape
  <2>6. AheadIsKept'
    BY <1>1, <2>1, <2>5 DEF IInv, ForeignInv, AheadIsKept, Ahead
  <2>7. WindowIsOpen' /\ ReadIsOwn'
    BY <2>1 DEF WindowIsOpen, ReadIsOwn
  <2>8. Survives'
    <3>1. foreign[at] # "mistaken"
      BY <1>1 DEF IInv, ForeignInv, AheadIsKept, Ahead
    <3> QED BY <1>1, <1>3, <2>5, <3>1 DEF IInv, ForeignInv, Survives
  <2>9. BackupsAreTold'
    BY <1>1, <1>3 DEF IInv, BackupInv, BackupsAreTold, Told
  <2>10. BackupsComeFirst'
    BY <1>1, <1>3 DEF IInv, BackupInv, BackupsComeFirst, BacksUp
  <2> QED BY <2>4, <2>6, <2>7, <2>8, <2>9, <2>10 DEF IInv, ForeignInv, BackupInv
<1> QED BY <1>2, <1>3 DEF Rename

(* Of the undo, only Undo itself changes a target.                         *)
LEMMA UndoLooks ==
  ASSUME IInv, pc \in Undoing,
         UNCHANGED <<policy, original, target, backup, committed, foreign>>,
         \A e \in Entries : <<"backup", e>> \in owned' => <<"backup", e>> \in owned,
         \/ /\ pc = "undoStage" /\ pc' = "undoCheck" /\ at' = at
            /\ UNCHANGED <<seen, result>>
         \/ NotRestored
  PROVE  IInv'
<1>1. at \in 1..Len(committed) /\ committed \in Seq(Entries)
  BY DEF IInv, Shape
<1>2. \/ /\ pc = "undoStage" /\ pc' = "undoCheck" /\ at' = at
         /\ UNCHANGED <<seen, result>>
      \/ /\ pc' \in {"clean", "undoRead"}
         /\ pc' = "undoRead" => at' \in 1..Len(committed)
         /\ \E v : Report("unrestored", v)
  BY <1>1, NextUndoGoes DEF NotRestored
<1>3. Shape' /\ result'.backups = result.backups /\ result'.restored = result.restored
  BY <1>1, <1>2, ShapeStays DEF IInv
<1>4. ForeignInv'
  BY <1>2, <1>3, LookingKeeps DEF IInv
<1>5. BackupInv'
  BY <1>2, <1>3, BackupsStay DEF IInv
<1> QED BY <1>3, <1>4, <1>5 DEF IInv

(* What it finds with the bytes of the bundle is the import's or noted.    *)
LEMMA UndoReadStep == ASSUME IInv, UndoRead PROVE IInv'
<1>1. CASE NotRestored /\ UNCHANGED foreign
  BY <1>1, UndoLooks DEF UndoRead, files
<1>2. CASE ~(NotRestored /\ UNCHANGED foreign)
  <2>1. /\ UNCHANGED <<policy, original, target, backup, committed, owned>>
        /\ at \in 1..Len(committed) /\ committed \in Seq(Entries)
        /\ pc' \in {"undoStage", "undoCheck"} /\ at' = at /\ result' = result
        /\ Undone \in Entries /\ target[Undone] \in BundleBytes
        /\ seen' = target[Undone]
        /\ foreign' = [foreign EXCEPT ![Undone] =
                        IF target[Undone] = "same" THEN "mistaken" ELSE @]
    BY <1>2 DEF UndoRead, Go, files, IInv, Shape, Undone
  <2>2. /\ foreign' \in [Entries -> Foreign \cup {"no", "window", "mistaken"}]
        /\ \A e \in Entries \ {Undone} : foreign'[e] = foreign[e]
        /\ foreign'[Undone] = IF target[Undone] = "same" THEN "mistaken"
                                                        ELSE foreign[Undone]
    BY <2>1 DEF IInv, Shape
  <2>3. Shape'
    BY <2>1, <2>2 DEF IInv, Shape
  <2>4. Survives'
    BY <2>1, <2>2 DEF IInv, ForeignInv, Survives
  <2>5. ReadIsOwn'
    BY <2>1, <2>2 DEF ReadIsOwn, Undone
  <2>6. AheadIsKept' /\ WindowIsOpen'
    BY <2>1 DEF AheadIsKept, Ahead, WindowIsOpen
  <2>7. BackupInv'
    BY <2>1, BackupsStay DEF IInv
  <2> QED BY <2>3, <2>4, <2>5, <2>6, <2>7 DEF IInv, ForeignInv
<1> QED BY <1>1, <1>2

LEMMA UndoStageStep == ASSUME IInv, UndoStage PROVE IInv'
<1>1. /\ UNCHANGED <<policy, original, target, backup, committed, foreign>>
      /\ \A e \in Entries : <<"backup", e>> \in owned' => <<"backup", e>> \in owned
  BY DEF UndoStage, StageFile, StageFails
<1>2. \/ /\ pc = "undoStage" /\ pc' = "undoCheck" /\ at' = at
         /\ UNCHANGED <<seen, result>>
      \/ NotRestored
  BY DEF UndoStage, Go
<1> QED BY <1>1, <1>2, UndoLooks DEF UndoStage

(* Nobody has changed a target that is as the undo read it, but who wrote  *)
(* the bytes that were mistaken.                                           *)
LEMMA UndoCheckStep == ASSUME IInv, UndoCheck PROVE IInv'
<1>1. CASE NotRestored
  BY <1>1, UndoLooks DEF UndoCheck, files
<1>2. CASE target[Undone] = seen /\ Go("undo", at) /\ UNCHANGED <<seen, result>>
  <2>1. /\ UNCHANGED <<policy, original, target, backup, committed, foreign, owned>>
        /\ at \in 1..Len(committed) /\ committed \in Seq(Entries)
        /\ pc' = "undo" /\ at' = at /\ result' = result
    BY <1>2 DEF UndoCheck, Go, files, IInv, Shape
  <2>2. Shape' /\ result'.backups = result.backups /\ result'.restored = result.restored
    BY <2>1, ShapeStays DEF IInv
  <2>3. foreign[Undone] \notin Foreign
    <3>1. Undone \in Entries /\ pc = "undoCheck"
      BY <2>1 DEF Undone, UndoCheck
    <3> QED BY <1>2, <3>1 DEF IInv, ForeignInv, ReadIsOwn, Survives, BundleBytes
  <2>4. ForeignInv'
    BY <2>1, <2>3 DEF IInv, ForeignInv, AheadIsKept, Ahead, WindowIsOpen, Survives,
                      ReadIsOwn, Undone
  <2>5. BackupInv'
    BY <2>1, <2>2, BackupsStay DEF IInv
  <2> QED BY <2>2, <2>4, <2>5 DEF IInv
<1> QED BY <1>1, <1>2 DEF UndoCheck

LEMMA UndoStep == ASSUME IInv, Undo PROVE IInv'
<1>1. CASE NotRestored /\ UNCHANGED files
  BY <1>1, UndoLooks DEF Undo, files
<1>2. CASE ~(NotRestored /\ UNCHANGED files)
  <2>1. /\ UNCHANGED <<policy, original, backup, committed, foreign>>
        /\ pc = "undo" /\ at \in 1..Len(committed) /\ committed \in Seq(Entries)
        /\ Undone \in Entries /\ foreign[Undone] \notin Foreign
        /\ target' = [target EXCEPT ![Undone] = original[Undone]]
        /\ \A e \in Entries : <<"backup", e>> \in owned' => <<"backup", e>> \in owned
        /\ Report("restored", result.restored \cup {Undone}) /\ NextUndo
    BY <1>2 DEF Undo, IInv, Shape, ForeignInv, WindowIsOpen, Undone
  <2>2. /\ pc' \in {"clean", "undoRead"}
        /\ pc' = "undoRead" => at' \in 1..Len(committed)
    BY <2>1, NextUndoGoes
  <2>3. /\ result' = [failed |-> result'.failed, backups |-> result'.backups,
               restored |-> result'.restored, unrestored |-> result'.unrestored,
               uncleaned |-> result'.uncleaned, keptDirs |-> result'.keptDirs]
        /\ result'.backups = result.backups
        /\ result'.restored = result.restored \cup {Undone}
    BY <2>1 DEF IInv, Shape, Report
  <2>4. target' \in [Entries -> Versions]
    BY <2>1 DEF IInv, Shape, Versions
  <2>5. Shape'
    BY <2>1, <2>2, <2>3, <2>4 DEF IInv, Shape
  <2>6. ForeignInv'
    <3>1. \A e \in Entries : e # Undone => target'[e] = target[e]
      BY <2>1 DEF IInv, Shape
    <3> QED BY <2>1, <2>2, <2>3, <3>1 DEF IInv, ForeignInv, AheadIsKept, Ahead,
                                   WindowIsOpen, ReadIsOwn, Survives
  <2>7. BackupInv'
    BY <2>1, <2>2, <2>3, BackupsStay DEF IInv
  <2> QED BY <2>5, <2>6, <2>7 DEF IInv
<1> QED BY <1>1, <1>2

(* Only owned backups are removed, and those are not reported.             *)
LEMMA CleanStep == ASSUME IInv, Clean PROVE IInv'
<1>1. /\ UNCHANGED <<policy, original, target, committed, foreign>>
      /\ pc' = "rmdir" /\ owned' = {} /\ \E v : Report("uncleaned", v)
  BY DEF Clean, Go
<1>2. PICK gone \in SUBSET owned :
        backup' = [e \in Entries |-> IF <<"backup", e>> \in gone THEN "none"
                                                              ELSE backup[e]]
  BY DEF Clean
<1>3. /\ result' = [failed |-> result'.failed, backups |-> result'.backups,
             restored |-> result'.restored, unrestored |-> result'.unrestored,
             uncleaned |-> result'.uncleaned, keptDirs |-> result'.keptDirs]
      /\ result'.backups = result.backups /\ result'.restored = result.restored
  BY <1>1 DEF IInv, Shape, Report
<1>4. backup' \in [Entries -> Versions \cup {"part"}]
  BY <1>2 DEF IInv, Shape, Versions
<1>5. Shape'
  BY <1>1, <1>3, <1>4 DEF IInv, Shape
<1>6. ForeignInv'
  BY <1>1, <1>3, LookingKeeps DEF IInv
<1>7. BackupsAreTold'
  BY <1>1, <1>2, <1>3 DEF IInv, BackupInv, BackupsAreTold, Told
<1>8. BackupsComeFirst'
  BY <1>1, <1>3 DEF IInv, BackupInv, BackupsComeFirst, IsCommitted, BacksUp
<1> QED BY <1>5, <1>6, <1>7, <1>8 DEF IInv, BackupInv

LEMMA RmdirStep == ASSUME IInv, Rmdir PROVE IInv'
<1>1. /\ UNCHANGED <<policy, original, target, backup, owned, committed, foreign>>
      /\ pc' \in {"rmdir", "done"}
      /\ result' = result \/ \E v : Report("keptDirs", v)
  BY DEF Rmdir, Go
<1>2. Shape' /\ result'.backups = result.backups /\ result'.restored = result.restored
  BY <1>1, ShapeStays DEF IInv
<1>3. ForeignInv'
  BY <1>1, <1>2, LookingKeeps DEF IInv
<1>4. BackupInv'
  BY <1>1, <1>2, BackupsStay DEF IInv
<1> QED BY <1>2, <1>3, <1>4 DEF IInv

(* A change of a target that was as prepared makes it differ from that.    *)
LEMMA ChangeTargetStep ==
  ASSUME IInv, NEW c \in Entries, ChangeTarget(c) PROVE IInv'
<1>1. /\ UNCHANGED <<policy, original, backup, owned, committed, pc, at, seen,
                     result>>
      /\ pc # "prepare" /\ foreign[c] = "no"
  BY DEF ChangeTarget
<1>2. PICK v \in Foreign \ {target[c]} :
        /\ target' = [target EXCEPT ![c] = v]
        /\ foreign' = [foreign EXCEPT ![c] = IF InWindow(c) THEN "window" ELSE v]
  BY DEF ChangeTarget
<1>3. target' \in [Entries -> Versions]
  BY <1>2 DEF IInv, Shape, Versions
<1>4. foreign' \in [Entries -> Foreign \cup {"no", "window", "mistaken"}]
  BY <1>2 DEF IInv, Shape
<1>5. Shape'
  BY <1>1, <1>3, <1>4 DEF IInv, Shape
<1>6. \A e \in Entries \ {c} : target'[e] = target[e] /\ foreign'[e] = foreign[e]
  BY <1>2 DEF IInv, Shape
<1>7. target'[c] = v /\ foreign'[c] = IF InWindow(c) THEN "window" ELSE v
  BY <1>2 DEF IInv, Shape
<1>8. AheadIsKept'
  BY <1>1, <1>2, <1>6, <1>7 DEF IInv, ForeignInv, AheadIsKept, Ahead
<1>9. WindowIsOpen'
  <2>1. Undone' = Undone
    BY <1>1 DEF Undone
  <2>2. pc = "undo" => Undone \in Entries
    BY DEF IInv, Shape, Undone
  <2>3. pc = "rename" => at \in Entries
    BY DEF IInv, Shape
  <2> QED BY <1>1, <1>6, <1>7, <2>1, <2>2, <2>3 DEF IInv, ForeignInv, WindowIsOpen,
                                                   InWindow
<1>10. Survives'
  BY <1>1, <1>6, <1>7 DEF IInv, ForeignInv, Survives
<1>12. ReadIsOwn'
  <2>1. Undone' = Undone /\ (pc \in Undoing => Undone \in Entries)
    BY <1>1 DEF IInv, Shape, Undone
  <2> QED BY <1>1, <1>6, <2>1 DEF IInv, ForeignInv, ReadIsOwn
<1>11. BackupInv'
  BY <1>1 DEF IInv, BackupInv, BackupsAreTold, Told, BackupsComeFirst, IsCommitted,
              BacksUp
<1> QED BY <1>5, <1>8, <1>9, <1>10, <1>11, <1>12
       DEF IInv, ForeignInv

LEMMA PlaceBackupStep ==
  ASSUME IInv, NEW c \in Entries, PlaceBackup(c) PROVE IInv'
<1>1. /\ UNCHANGED <<policy, original, target, foreign, owned, committed, pc, at,
                     seen, result>>
      /\ backup[c] = "none" /\ backup' = [backup EXCEPT ![c] = "other"]
  BY DEF PlaceBackup
<1>2. backup' \in [Entries -> Versions \cup {"part"}]
  BY <1>1 DEF IInv, Shape, Versions
<1>3. Shape'
  BY <1>1, <1>2 DEF IInv, Shape
<1>4. ForeignInv'
  BY <1>1 DEF IInv, ForeignInv, AheadIsKept, Ahead, WindowIsOpen, ReadIsOwn, Survives,
              Undone
<1>5. BackupsAreTold'
  BY <1>1 DEF IInv, Shape, BackupInv, BackupsAreTold, Told
<1>6. BackupsComeFirst'
  BY <1>1 DEF IInv, BackupInv, BackupsComeFirst, IsCommitted, BacksUp
<1> QED BY <1>3, <1>4, <1>5, <1>6 DEF IInv, BackupInv

LEMMA StepHolds == IInv /\ [Next]_vars => IInv'
<1> SUFFICES ASSUME IInv, [Next]_vars PROVE IInv'
  OBVIOUS
<1>1. CASE Import
  BY <1>1, PrepareStep, StageStep, BackupStep, RecheckStep, CheckStep, RenameStep,
     UndoReadStep, UndoStageStep, UndoCheckStep, UndoStep, CleanStep, RmdirStep
     DEF Import
<1>2. CASE Others
  BY <1>2, ChangeTargetStep, PlaceBackupStep DEF Others
<1>3. CASE UNCHANGED vars
  BY <1>3 DEF vars, IInv, Shape, ForeignInv, AheadIsKept, Ahead, WindowIsOpen,
              ReadIsOwn, Survives, BackupInv, BackupsAreTold, Told, BackupsComeFirst,
              IsCommitted, BacksUp, Undone
<1> QED BY <1>1, <1>2, <1>3 DEF Next

LEMMA AlwaysIInv == Spec => []IInv
  BY InitHolds, StepHolds, PTL DEF Spec

(* Under the backup policy no target is replaced before its content is in  *)
(* a complete backup, which from then on stays, whatever call fails and    *)
(* whoever else changes files: a crash at any moment loses no original.    *)
THEOREM OriginalsNeverLost == Spec => []OriginalsKept
<1>1. IInv => OriginalsKept
  <2> SUFFICES ASSUME IInv PROVE OriginalsKept
    OBVIOUS
  <2>1. committed \in Seq(Entries)
    BY DEF IInv, Shape
  <2>2. \A e \in Range(committed) : e \in Entries /\ IsCommitted(e)
    BY <2>1 DEF Range, IsCommitted
  <2>3. \A e \in Range(committed) : BacksUp(e) => e \in result.backups
    BY <2>2 DEF IInv, BackupInv, BackupsComeFirst
  <2> QED BY <2>3 DEF OriginalsKept, IInv, BackupInv, BackupsAreTold, Told
<1> QED BY <1>1, AlwaysIInv, PTL

(* What somebody else makes of a target survives the import and its undo,  *)
(* unless it falls between the last look at the target and the call that   *)
(* replaces it, or has the bytes of the bundle and is there when the undo  *)
(* reads the target: then it stays, or its target is reported as restored. *)
(* A file found where a backup should go is neither written over nor       *)
(* cleaned up.                                                             *)
THEOREM NobodysChangeUndone == Spec => ForeignSurvives
<1>1. IInv /\ IInv' /\ [Next]_vars =>
        [\A e \in Entries :
          /\ foreign'[e] \in {"other", "none", "same"} => target'[e] = foreign'[e]
          /\ foreign'[e] = "mistaken" =>
               target'[e] = "same" \/ e \in result'.restored
          /\ backup[e] = "other" => backup'[e] = "other"]_vars
  <2> SUFFICES ASSUME IInv, IInv', Next, NEW e \in Entries
               PROVE  /\ foreign'[e] \in Foreign => target'[e] = foreign'[e]
                      /\ foreign'[e] = "mistaken" =>
                           target'[e] = "same" \/ e \in result'.restored
                      /\ backup[e] = "other" => backup'[e] = "other"
    BY DEF vars
  <2>1. /\ foreign'[e] \in Foreign => target'[e] = foreign'[e]
        /\ foreign'[e] = "mistaken" => target'[e] = "same" \/ e \in result'.restored
    BY DEF IInv, ForeignInv, Survives
  <2>2. backup[e] = "other" => backup'[e] = "other"
    <3> HAVE backup[e] = "other"
    <3>1. CASE backup' = backup
      BY <3>1
    <3>2. CASE Backup
      BY <3>2 DEF Backup, files, IInv, Shape
    <3>3. CASE Clean
      BY <3>3 DEF Clean, IInv, BackupInv, BackupsAreTold, Told
    <3>4. CASE \E c \in Entries : PlaceBackup(c)
      BY <3>4 DEF PlaceBackup, IInv, Shape
    <3> QED BY <3>1, <3>2, <3>3, <3>4 DEF Next, Import, Others, Prepare, Stage,
               StageFile, StageFails, Recheck, Check, Rename, UndoRead, UndoStage,
               UndoCheck, Undo, Rmdir, ChangeTarget, files
  <2> QED BY <2>1, <2>2
<1> QED BY <1>1, AlwaysIInv, PTL DEF Spec, ForeignSurvives

------------------------------------------------------------------------------
(* What the import reports of its targets.                                 *)

Ended == {"clean", "rmdir", "done"}

(* Nobody else's target is new while it is committed and not restored, and *)
(* has its first content otherwise.                                        *)
TargetsFollow ==
  pc # "prepare" =>
    \A e \in Entries : foreign[e] = "no" =>
      target[e] = IF IsCommitted(e) /\ e \notin result.restored THEN "new"
                                                               ELSE original[e]

(* Nothing is undone without a failure; with one, the undo has dealt with  *)
(* the commits behind its place, and in the end with all of them.          *)
UndoneSoFar ==
  LET undone == result.restored \cup result.unrestored IN
  /\ pc \in Looping \cup {"prepare"} => undone = {} /\ result.failed = "no"
  /\ pc \in Undoing =>
       /\ result.failed # "no"
       /\ undone = {committed[i] : i \in at + 1..Len(committed)}
  /\ pc \in Ended /\ result.failed # "no" =>
       undone = {committed[i] : i \in 1..Len(committed)}

(* Every changed entry the loop of commits has passed is committed.        *)
CommittedSoFar ==
  \A e \in Entries :
    \/ pc \in {"check", "rename"} /\ e < at
    \/ pc \in Ended /\ result.failed = "no"
    => Unchanged(e) \/ IsCommitted(e)

Steps == Looping \cup Undoing \cup Ended \cup {"prepare"}
ReportInv == pc \in Steps /\ TargetsFollow /\ UndoneSoFar /\ CommittedSoFar

USE DEF Ended

(* A failure leads to the undo of all commits, or to the end if there are  *)
(* none.                                                                   *)
LEMMA ThrowReports ==
  ASSUME Shape, ReportInv, pc \in Looping, NEW phase, phase # "no", Throw(phase),
         UNCHANGED <<original, target, committed, foreign>>
  PROVE  ReportInv'
<1>1. /\ result'.failed = phase /\ UNCHANGED <<result.restored, result.unrestored>>
      /\ \/ committed = <<>> /\ pc' = "clean"
         \/ pc' = "undoRead" /\ at' = Len(committed)
      /\ committed \in Seq(Entries)
  BY DEF Throw, Go, Report, Shape
<1>2. TargetsFollow'
  BY <1>1 DEF ReportInv, TargetsFollow, IsCommitted
<1>3. UndoneSoFar'
  BY <1>1 DEF ReportInv, UndoneSoFar
<1>4. CommittedSoFar'
  BY <1>1 DEF CommittedSoFar
<1> QED BY <1>1, <1>2, <1>3, <1>4 DEF ReportInv, Steps

(* A step of the loops, or after the undo, that decides nothing.           *)
LEMMA GoingOnReports ==
  ASSUME Shape, ReportInv, UNCHANGED <<original, target, committed>>,
         \A e \in Entries : foreign'[e] = "no" => foreign[e] = "no",
         UNCHANGED <<result.failed, result.restored, result.unrestored>>,
         \/ pc \in Looping /\ pc' \in {"stage", "backup", "recheck"}
         \/ pc \in Looping /\ pc' = "check" /\ at' = 1
         \/ pc = "check" /\ pc' = "rename" /\ at' = at
         \/ pc \in Undoing /\ pc' \in Undoing /\ at' = at
         \/ pc \in Ended /\ pc' \in Ended
  PROVE  ReportInv'
<1>1. TargetsFollow'
  BY DEF ReportInv, TargetsFollow, IsCommitted
<1>2. UndoneSoFar'
  BY DEF ReportInv, UndoneSoFar
<1>3. CommittedSoFar'
  BY DEF ReportInv, CommittedSoFar, IsCommitted, Unchanged
<1> QED BY <1>1, <1>2, <1>3 DEF ReportInv, Steps

(* One more commit is undone, or reported as not restored.                 *)
LEMMA NextUndoReports ==
  ASSUME Shape, ReportInv, pc \in Undoing, NextUndo,
         UNCHANGED <<original, committed, foreign, result.failed>>,
         result'.restored \cup result'.unrestored =
           result.restored \cup result.unrestored \cup {committed[at]},
         TargetsFollow'
  PROVE  ReportInv'
<1>1. /\ at \in 1..Len(committed) /\ committed \in Seq(Entries)
      /\ \/ pc' = "undoRead" /\ at' = at - 1 /\ at > 1
         \/ pc' = "clean" /\ at = 1
  BY DEF NextUndo, Go, Shape
<1>2. {committed[i] : i \in at + 1..Len(committed)} \cup {committed[at]}
        = {committed[i] : i \in (at - 1) + 1..Len(committed)}
  BY <1>1
<1>3. UndoneSoFar'
  BY <1>1, <1>2 DEF ReportInv, UndoneSoFar
<1>4. CommittedSoFar'
  BY <1>1 DEF ReportInv, UndoneSoFar, CommittedSoFar
<1> QED BY <1>1, <1>3, <1>4 DEF ReportInv, Steps

LEMMA NotRestoredReports ==
  ASSUME Shape, ReportInv, pc \in Undoing, NotRestored,
         UNCHANGED <<original, target, committed, foreign>>
  PROVE  ReportInv'
<1>1. /\ UNCHANGED <<result.failed, result.restored>> /\ NextUndo
      /\ result'.unrestored = result.unrestored \cup {committed[at]}
      /\ pc' # "prepare"
  BY DEF NotRestored, Report, Undone, Shape, NextUndo, Go
<1>2. TargetsFollow'
  BY <1>1 DEF ReportInv, TargetsFollow, IsCommitted
<1> QED BY <1>1, <1>2, NextUndoReports

LEMMA ReportStep == ASSUME IInv, ReportInv, [Next]_vars PROVE ReportInv'
<1>0. Shape
  BY DEF IInv
<1>1. CASE Prepare
  <2>1. /\ original' = target /\ UNCHANGED <<target, committed, foreign>>
        /\ committed = <<>> /\ UNCHANGED <<result.restored, result.unrestored>>
        /\ \/ pc' = "stage" /\ result' = result
           \/ pc' = "done" /\ result'.failed = "preflight"
        /\ pc = "prepare"
    BY <1>0, <1>1 DEF Prepare, Go, files, Shape, Report
  <2> QED BY <2>1 DEF ReportInv, TargetsFollow, UndoneSoFar, CommittedSoFar,
                      IsCommitted, Steps
<1>2. ASSUME Stage \/ Backup \/ Recheck PROVE ReportInv'
  <2>1. /\ pc \in {"stage", "backup", "recheck"} /\ at \in Entries
        /\ UNCHANGED <<original, target, committed, foreign>>
        /\ \/ Throw("staging") \/ Throw("backup") \/ Throw("commit")
           \/ /\ \E step \in {"backup", "recheck", "check"} : Following(step)
              /\ UNCHANGED <<result.failed, result.restored, result.unrestored>>
    BY <1>0, <1>2 DEF Stage, StageFile, StageFails, Backup, Recheck, files, Shape,
                      Report
  <2>2. ASSUME NEW step \in {"backup", "recheck", "check"}, Following(step)
        PROVE  pc' \in {"stage", "backup", "recheck"} \/ (pc' = "check" /\ at' = 1)
    BY <2>1, <2>2, FollowingGoes
  <2> QED BY <1>0, <2>1, <2>2, ThrowReports, GoingOnReports
<1>3. CASE Check
  <2>1. /\ pc = "check" /\ at \in Entries
        /\ UNCHANGED <<original, target, committed, foreign>>
        /\ \/ Throw("commit")
           \/ pc' = "rename" /\ at' = at /\ result' = result
           \/ /\ Unchanged(at) /\ result' = result
              /\ \/ at < Size /\ pc' = "check" /\ at' = at + 1
                 \/ at = Size /\ pc' = "clean"
    BY <1>0, <1>3 DEF Check, Go, files, Shape
  <2>2. CASE /\ Unchanged(at) /\ result' = result
             /\ \/ at < Size /\ pc' = "check" /\ at' = at + 1
                \/ at = Size /\ pc' = "clean"
    <3>1. TargetsFollow' /\ UndoneSoFar'
      BY <2>1, <2>2 DEF ReportInv, TargetsFollow, UndoneSoFar, IsCommitted
    <3>2. CommittedSoFar'
      BY <2>1, <2>2 DEF ReportInv, UndoneSoFar, CommittedSoFar, IsCommitted,
                        Unchanged
    <3> QED BY <2>2, <3>1, <3>2 DEF ReportInv, Steps
  <2> QED BY <1>0, <2>1, <2>2, ThrowReports, GoingOnReports
<1>4. CASE Rename
  <2>1. CASE Throw("commit") /\ UNCHANGED <<files, committed>>
    BY <1>0, <1>4, <2>1, ThrowReports DEF Rename, files
  <2>2. CASE ~(Throw("commit") /\ UNCHANGED <<files, committed>>)
    <3>1. /\ pc = "rename" /\ at \in Entries /\ committed \in Seq(Entries)
          /\ target' = [target EXCEPT ![at] = "new"]
          /\ committed' = Append(committed, at)
          /\ \/ at < Size /\ pc' = "check" /\ at' = at + 1
             \/ at = Size /\ pc' = "clean"
          /\ UNCHANGED <<original, foreign, result>>
      BY <1>0, <1>4, <2>2 DEF Rename, Go, Shape
    <3>2. \A e \in Entries : IsCommitted(e)' <=> IsCommitted(e) \/ e = at
      BY <3>1 DEF IsCommitted
    <3>3. result.restored = {} /\ result.failed = "no"
      BY <3>1 DEF ReportInv, UndoneSoFar
    <3>4. \A e \in Entries : target'[e] = IF e = at THEN "new" ELSE target[e]
      BY <1>0, <3>1 DEF Shape
    <3>5. TargetsFollow'
      BY <3>1, <3>2, <3>3, <3>4 DEF ReportInv, TargetsFollow
    <3>6. UndoneSoFar'
      BY <3>1, <3>3 DEF ReportInv, UndoneSoFar
    <3>7. CommittedSoFar'
      BY <3>1, <3>2, <3>3 DEF ReportInv, CommittedSoFar, Unchanged
    <3> QED BY <3>1, <3>5, <3>6, <3>7 DEF ReportInv, Steps
  <2> QED BY <2>1, <2>2
<1>5. ASSUME UndoRead \/ UndoStage \/ UndoCheck PROVE ReportInv'
  <2>1. /\ pc \in Undoing /\ UNCHANGED <<original, target, committed>>
        /\ \/ NotRestored /\ UNCHANGED foreign
           \/ pc' \in Undoing /\ at' = at /\ result' = result
    BY <1>5 DEF UndoRead, UndoStage, UndoCheck, StageFile, StageFails, Go, files
  <2>2. \A e \in Entries : foreign'[e] = "no" => foreign[e] = "no"
    <3>1. CASE UndoRead
      BY <1>0, <3>1 DEF UndoRead, Shape
    <3>2. CASE UndoStage \/ UndoCheck
      BY <3>2 DEF UndoStage, UndoCheck
    <3> QED BY <1>5, <3>1, <3>2
  <2> QED BY <1>0, <2>1, <2>2, NotRestoredReports, GoingOnReports
<1>6. CASE Undo
  <2>1. CASE NotRestored /\ UNCHANGED files
    BY <1>0, <1>6, <2>1, NotRestoredReports DEF Undo, files
  <2>2. CASE ~(NotRestored /\ UNCHANGED files)
    <3>1. /\ pc = "undo" /\ at \in 1..Len(committed) /\ committed \in Seq(Entries)
          /\ target' = [target EXCEPT ![Undone] = original[Undone]]
          /\ UNCHANGED <<original, committed, foreign, result.failed,
                         result.unrestored>>
          /\ result'.restored = result.restored \cup {Undone}
          /\ NextUndo /\ pc' # "prepare"
      BY <1>0, <1>6, <2>2 DEF Undo, Shape, Report, NextUndo, Go
    <3>2. Undone \in Entries
      BY <3>1 DEF Undone
    <3>3. \A e \in Entries :
            target'[e] = IF e = Undone THEN original[e] ELSE target[e]
      BY <1>0, <3>1, <3>2 DEF Shape
    <3>4. TargetsFollow'
      BY <3>1, <3>2, <3>3 DEF ReportInv, TargetsFollow, IsCommitted
    <3> QED BY <1>0, <3>1, <3>4, NextUndoReports DEF Undone
  <2> QED BY <2>1, <2>2
<1>7. ASSUME Clean \/ Rmdir PROVE ReportInv'
  <2>1. /\ pc \in Ended /\ pc' \in Ended
        /\ UNCHANGED <<original, target, committed, foreign>>
        /\ UNCHANGED <<result.failed, result.restored, result.unrestored>>
    BY <1>0, <1>7 DEF Clean, Rmdir, Go, Report, Shape
  <2> QED BY <1>0, <2>1, GoingOnReports
<1>8. ASSUME NEW c \in Entries, ChangeTarget(c) PROVE ReportInv'
  <2>1. /\ UNCHANGED <<original, pc, at, committed, result>>
        /\ foreign'[c] # "no"
        /\ \A e \in Entries \ {c} : target'[e] = target[e] /\ foreign'[e] = foreign[e]
    BY <1>0, <1>8 DEF ChangeTarget, Shape
  <2> QED BY <2>1 DEF ReportInv, TargetsFollow, UndoneSoFar, CommittedSoFar,
                      IsCommitted, Unchanged
<1>9. ASSUME NEW c \in Entries, PlaceBackup(c) PROVE ReportInv'
  BY <1>9 DEF PlaceBackup, ReportInv, TargetsFollow, UndoneSoFar, CommittedSoFar,
              IsCommitted, Unchanged
<1>10. CASE UNCHANGED vars
  BY <1>10 DEF vars, ReportInv, TargetsFollow, UndoneSoFar, CommittedSoFar,
              IsCommitted, Unchanged
<1> QED BY <1>1, <1>2, <1>3, <1>4, <1>5, <1>6, <1>7, <1>8, <1>9, <1>10
        DEF Next, Import, Others

------------------------------------------------------------------------------
(* What the import leaves behind.                                          *)

Cleaned == {"rmdir", "done"}

(* Temporary files and incomplete backups are owned until the cleaning,    *)
(* and named as not cleaned after it.                                      *)
LeftIn(S) ==
  /\ temps \subseteq S
  /\ \A e \in Entries : backup[e] = "part" => <<"backup", e>> \in S

FilesAreTold ==
  /\ pc = "prepare" => LeftIn({})
  /\ pc \notin Cleaned => LeftIn(owned)
  /\ pc \in Cleaned => LeftIn(result.uncleaned)

LEMMA FilesStep == ASSUME IInv, FilesAreTold, [Next]_vars PROVE FilesAreTold'
<1> USE DEF Cleaned
<1>0. Shape
  BY DEF IInv
<1>1. CASE Prepare
  BY <1>1 DEF Prepare, Go, files, FilesAreTold, LeftIn
<1>2. ASSUME Stage \/ UndoStage PROVE FilesAreTold'
  <2>1. /\ pc \notin Cleaned /\ pc' \notin Cleaned \cup {"prepare"}
        /\ backup' = backup
        /\ \/ UNCHANGED <<temps, owned>>
           \/ \E kind \in Kinds, e \in Entries :
                /\ temps' = temps \cup {<<kind, e>>}
                /\ owned' = owned \cup {<<kind, e>>}
    <3>1. CASE Stage
      <4>1. /\ pc = "stage" /\ at \in Entries /\ backup' = backup
            /\ pc' \in {"stage", "backup", "clean", "undoRead"}
            /\ \/ StageFile("stage", at) \/ UNCHANGED <<temps, owned>>
        BY <1>0, <3>1 DEF Stage, StageFails, StageFile, Following, Throw, Go, files,
                          Shape
      <4> QED BY <4>1 DEF StageFile, Kinds
    <3>2. CASE UndoStage
      <4>1. /\ pc = "undoStage" /\ Undone \in Entries /\ backup' = backup
            /\ pc' \in {"undoCheck", "clean", "undoRead"}
            /\ \/ StageFile("undo", Undone) \/ UNCHANGED <<temps, owned>>
        BY <1>0, <3>2 DEF UndoStage, StageFails, StageFile, NotRestored, NextUndo,
                          Go, Undone, Shape
      <4> QED BY <4>1 DEF StageFile, Kinds
    <3> QED BY <1>2, <3>1, <3>2
  <2> QED BY <2>1 DEF FilesAreTold, LeftIn
<1>3. CASE Backup
  <2>1. /\ pc = "backup" /\ at \in Entries
        /\ pc' \notin Cleaned \cup {"prepare"} /\ temps' = temps
        /\ \/ UNCHANGED <<backup, owned>>
           \/ backup' = [backup EXCEPT ![at] = "old"] /\ owned' = owned
           \/ /\ \E b : backup' = [backup EXCEPT ![at] = b]
              /\ owned' = owned \cup {<<"backup", at>>}
    BY <1>0, <1>3 DEF Backup, Following, Throw, Go, files, Shape
  <2>2. backup \in [Entries -> Versions \cup {"part"}]
    BY <1>0 DEF Shape
  <2> QED BY <2>1, <2>2 DEF FilesAreTold, LeftIn
<1>4. ASSUME Rename \/ Undo PROVE FilesAreTold'
  <2>1. /\ pc \notin Cleaned /\ pc' \notin Cleaned \cup {"prepare"}
        /\ backup' = backup
        /\ \/ UNCHANGED <<temps, owned>>
           \/ \E kind \in {"stage", "undo"} : \E e :
                /\ temps' = temps \ {<<kind, e>>}
                /\ owned' = owned \ {<<kind, e>>}
    BY <1>4 DEF Rename, Undo, Throw, NotRestored, NextUndo, Go, files
  <2> QED BY <2>1 DEF FilesAreTold, LeftIn
<1>5. ASSUME Recheck \/ Check \/ UndoRead \/ UndoCheck PROVE FilesAreTold'
  <2>1. /\ pc \notin Cleaned /\ pc' \notin Cleaned \cup {"prepare"}
        /\ UNCHANGED <<backup, temps, owned>>
    BY <1>5 DEF Recheck, Check, UndoRead, UndoCheck, Following, Throw,
       NotRestored, NextUndo, Go, files
  <2> QED BY <2>1 DEF FilesAreTold, LeftIn
<1>6. CASE Clean
  <2>1. PICK left \in SUBSET owned :
          /\ temps' = temps \ (owned \ left)
          /\ backup' = [e \in Entries |->
               IF <<"backup", e>> \in owned \ left THEN "none" ELSE backup[e]]
          /\ result' = [result EXCEPT !.uncleaned = left]
          /\ pc = "clean" /\ pc' = "rmdir"
    BY <1>6 DEF Clean, Go, Report
  <2>2. result'.uncleaned = left
    BY <1>0, <2>1 DEF Shape
  <2>3. LeftIn(owned)
    BY <2>1 DEF FilesAreTold
  <2>4. temps' \subseteq left
    BY <2>1, <2>3 DEF LeftIn
  <2>5. \A e \in Entries : backup'[e] = "part" => <<"backup", e>> \in left
    BY <2>1, <2>3 DEF LeftIn
  <2> QED BY <2>1, <2>2, <2>4, <2>5 DEF FilesAreTold, LeftIn
<1>7. CASE Rmdir
  <2>1. /\ pc = "rmdir" /\ pc' \in Cleaned /\ UNCHANGED <<temps, backup>>
        /\ result'.uncleaned = result.uncleaned
    BY <1>0, <1>7 DEF Rmdir, Go, Report, Shape
  <2> QED BY <2>1 DEF FilesAreTold, LeftIn
<1>8. ASSUME NEW c \in Entries, ChangeTarget(c) PROVE FilesAreTold'
  BY <1>8 DEF ChangeTarget, FilesAreTold, LeftIn
<1>9. ASSUME NEW c \in Entries, PlaceBackup(c) PROVE FilesAreTold'
  <2>1. /\ UNCHANGED <<pc, temps, owned, result>>
        /\ backup' = [backup EXCEPT ![c] = "other"]
        /\ backup \in [Entries -> Versions \cup {"part"}]
    BY <1>0, <1>9 DEF PlaceBackup, Shape
  <2> QED BY <2>1 DEF FilesAreTold, LeftIn
<1>10. CASE UNCHANGED vars
  BY <1>10 DEF vars, FilesAreTold, LeftIn
<1> QED BY <1>1, <1>2, <1>3, <1>4, <1>5, <1>6, <1>7, <1>8, <1>9, <1>10
        DEF Next, Import, Others

------------------------------------------------------------------------------
(* The directories the import made.                                        *)

IsParent(d, c) ==
  \E path \in Paths : \E i \in 1..Len(path) - 1 : path[i] = d /\ path[i + 1] = c

(* A directory that exists has its parent.                                 *)
Rooted == \A d, c : IsParent(d, c) /\ c \in dirs => d \in dirs

(* Parents were made before their children.                                *)
ParentsFirst ==
  \A i, j \in 1..Len(made) : IsParent(made[i], made[j]) => i < j

MadeThere == \A i \in 1..Len(made) : made[i] \in dirs

(* What the removal of directories has passed is gone, in use or reported. *)
PassedAreTold ==
  (\A e \in Entries : foreign[e] = "no") =>
    \A i \in at + 1..Len(made) :
      made[i] \in dirs /\ Empty(made[i]) => made[i] \in result.keptDirs

DirsInv ==
  /\ made \in Seq(AllDirs) /\ ParentsFirst
  /\ pc = "prepare" => made = <<>>
  /\ pc \notin Cleaned => Rooted /\ MadeThere
  /\ pc \in Cleaned => at \in 0..Len(made) /\ PassedAreTold
  /\ pc = "done" => at = 0

(* A path is a sequence of directories, each the parent of the next.       *)
LEMMA PathsAreSequences ==
  \A path \in Paths : /\ Len(path) \in Nat /\ DOMAIN path = 1..Len(path)
                      /\ path \in Seq(AllDirs)
<1> TAKE path \in Paths
<1>1. path \in Seq(Range(path))
  BY PathAssumption DEF Paths
<1>2. Range(path) \subseteq AllDirs
  BY DEF AllDirs
<1> QED BY <1>1, <1>2

LEMMA PathsAreInTree ==
  \A p, q \in Paths : \A i \in 1..Len(p), j \in 1..Len(q) :
    p[i] = q[j] => i = j /\ (i > 1 => p[i - 1] = q[j - 1])
<1> TAKE p, q \in Paths
<1> TAKE i \in 1..Len(p), j \in 1..Len(q)
<1> HAVE p[i] = q[j]
<1>1. i \in DOMAIN p /\ j \in DOMAIN q
  BY PathsAreSequences
<1>2. \A a \in DOMAIN p, b \in DOMAIN q :
        p[a] = q[b] => a = b /\ (a > 1 => p[a - 1] = q[b - 1])
  BY TreeAssumption
<1> QED BY <1>1, <1>2

(* Making the missing directories of a path keeps the order.               *)
LEMMA MakeKeeps ==
  ASSUME made \in Seq(AllDirs), ParentsFirst, Rooted, MadeThere,
         NEW path \in Paths, NEW m \in 0..Len(path), Make(path, m)
  PROVE  made' \in Seq(AllDirs) /\ ParentsFirst' /\ Rooted' /\ MadeThere'
<1>1. PICK n \in 0..m :
        /\ n > 0 => path[n] \in dirs
        /\ \A i \in n + 1..Len(path) : path[i] \notin dirs
        /\ dirs' = dirs \cup {path[i] : i \in n + 1..m}
        /\ made' = made \o SubSeq(path, n + 1, m)
  BY DEF Make
<1>2. /\ Len(path) \in Nat /\ DOMAIN path = 1..Len(path) /\ path \in Seq(AllDirs)
      /\ n \in Nat /\ m \in Nat /\ m <= Len(path) /\ n <= m
  BY PathsAreSequences
<1> DEFINE new == SubSeq(path, n + 1, m)
<1>3. /\ new \in Seq(AllDirs) /\ Len(new) = m - n
      /\ \A k \in 1..m - n : new[k] = path[n + k]
  BY <1>2
<1>4. /\ made' \in Seq(AllDirs) /\ Len(made') = Len(made) + (m - n)
      /\ \A i \in 1..Len(made) : made'[i] = made[i]
      /\ \A i \in Len(made) + 1..Len(made) + (m - n) :
           made'[i] = path[n + (i - Len(made))]
  <2>1. made' = made \o new
    BY <1>1
  <2> HIDE DEF new
  <2>2. made \in Seq(AllDirs) /\ Len(made) \in Nat
    OBVIOUS
  <2>3. made' \in Seq(AllDirs) /\ Len(made') = Len(made) + (m - n)
    <3>1. new \in Seq(AllDirs) /\ Len(new) = m - n
      BY <1>3
    <3> QED BY <2>1, <2>2, <3>1, ConcatProperties
  <2>4. \A i \in 1..Len(made) : made'[i] = made[i]
    BY <1>3, <2>1, <2>2
  <2>5. ASSUME NEW i \in Len(made) + 1..Len(made) + (m - n)
        PROVE  made'[i] = path[n + (i - Len(made))]
    <3>1. i - Len(made) \in 1..m - n
      BY <1>2, <2>2
    <3>2. made'[i] = new[i - Len(made)]
      BY <1>2, <1>3, <2>1, <2>2
    <3> QED BY <1>3, <3>1, <3>2
  <2> QED BY <2>3, <2>4, <2>5
<1> HIDE DEF new
(* The parent of the i-th directory of the path is the one before it.      *)
<1>5. ASSUME NEW d, NEW i \in 1..Len(path), IsParent(d, path[i])
      PROVE  i > 1 /\ d = path[i - 1]
  <2>0. PICK q \in Paths : \E j \in 1..Len(q) - 1 : q[j] = d /\ q[j + 1] = path[i]
    BY <1>5 DEF IsParent
  <2>1. PICK j \in 1..Len(q) - 1 : q[j] = d /\ q[j + 1] = path[i]
    BY <2>0
  <2>2. Len(q) \in Nat /\ DOMAIN q = 1..Len(q)
    BY PathsAreSequences
  <2>3. j + 1 \in 1..Len(q)
    BY <2>2
  <2>4. j + 1 = i /\ (j + 1 > 1 => q[(j + 1) - 1] = path[i - 1])
    BY <2>1, <2>3, PathsAreInTree
  <2> QED BY <2>1, <2>2, <2>4
<1>6. Rooted'
  <2> SUFFICES ASSUME NEW d, NEW c, IsParent(d, c), c \in dirs', c \notin dirs
               PROVE  d \in dirs'
    BY <1>1 DEF Rooted, IsParent
  <2>1. PICK i \in n + 1..m : c = path[i]
    BY <1>1
  <2>2. i \in 1..Len(path) /\ i > 1 /\ d = path[i - 1]
    BY <1>2, <1>5, <2>1
  <2>3. CASE i = n + 1
    BY <1>1, <1>2, <2>2, <2>3
  <2>4. CASE i > n + 1
    <3>1. i - 1 \in n + 1..m
      BY <1>2, <2>1, <2>4
    <3> QED BY <1>1, <2>2, <3>1
  <2> QED BY <1>2, <2>1, <2>3, <2>4
<1>7. MadeThere'
  <2> SUFFICES ASSUME NEW i \in 1..Len(made') PROVE made'[i] \in dirs'
    BY DEF MadeThere
  <2>1. CASE i <= Len(made)
    BY <1>1, <1>4, <2>1 DEF MadeThere
  <2>2. CASE i > Len(made)
    <3>1. i - Len(made) \in 1..m - n
      BY <1>2, <1>4, <2>2
    <3>2. n + (i - Len(made)) \in n + 1..m
      BY <1>2, <3>1
    <3> QED BY <1>1, <1>4, <2>2, <3>2
  <2> QED BY <1>4, <2>1, <2>2
<1>8. ParentsFirst'
  <2> SUFFICES ASSUME NEW i \in 1..Len(made'), NEW j \in 1..Len(made'),
                      IsParent(made'[i], made'[j])
               PROVE  i < j
    BY DEF ParentsFirst, IsParent
  <2>1. CASE j <= Len(made)
    <3>1. made'[j] \in dirs /\ made'[j] = made[j]
      BY <1>4, <2>1 DEF MadeThere
    <3>2. made'[i] \in dirs
      BY <3>1 DEF Rooted
    <3>3. i <= Len(made)
      <4> SUFFICES ASSUME i > Len(made) PROVE FALSE
        BY <1>4
      <4>1. /\ n + (i - Len(made)) \in n + 1..Len(path)
            /\ i \in Len(made) + 1..Len(made) + (m - n)
        BY <1>2, <1>4
      <4>2. made'[i] = path[n + (i - Len(made))]
        BY <1>4, <4>1
      <4> QED BY <1>1, <3>2, <4>1, <4>2
    <3> QED BY <1>4, <2>1, <3>1, <3>3 DEF ParentsFirst
  <2>2. CASE j > Len(made) /\ i <= Len(made)
    BY <1>4, <2>2
  <2>3. CASE j > Len(made) /\ i > Len(made)
    <3> DEFINE a == n + (i - Len(made))
               b == n + (j - Len(made))
    <3>1. /\ a \in 1..Len(path) /\ b \in 1..Len(path)
          /\ made'[i] = path[a] /\ made'[j] = path[b]
      <4>1. /\ i \in Len(made) + 1..Len(made) + (m - n)
            /\ j \in Len(made) + 1..Len(made) + (m - n)
        BY <1>4, <2>3
      <4>2. made'[i] = path[a] /\ made'[j] = path[b]
        BY <1>4, <4>1
      <4>3. a \in 1..Len(path) /\ b \in 1..Len(path)
        BY <1>2, <4>1
      <4> QED BY <4>2, <4>3
    <3>2. b > 1 /\ path[a] = path[b - 1]
      BY <1>5, <3>1
    <3>3. a = b - 1
      <4> HIDE DEF a, b
      <4>1. Len(path) \in Nat /\ b > 1
        BY <1>2, <3>2
      <4> DEFINE c == b - 1
      <4>2. c \in 1..Len(path)
        BY <3>1, <4>1
      <4>3. a \in 1..Len(path) /\ path[a] = path[c]
        BY <3>1, <3>2
      <4> HIDE DEF c
      <4>4. a = c
        BY <4>2, <4>3, PathsAreInTree
      <4> QED BY <4>4 DEF c
    <3> QED BY <1>2, <1>4, <2>3, <3>3
  <2> QED BY <1>4, <2>1, <2>2, <2>3
<1> QED BY <1>4, <1>6, <1>7, <1>8

(* Up to the cleaning, directories are only ever made along a path.        *)
LEMMA DirsStay ==
  ASSUME DirsInv, pc \notin Cleaned, pc' \notin Cleaned \cup {"prepare"},
         \/ UNCHANGED <<dirs, made>>
         \/ \E path \in Paths : MakeSome(path)
  PROVE  DirsInv'
<1>1. CASE UNCHANGED <<dirs, made>>
  <2>1. made \in Seq(AllDirs) /\ ParentsFirst /\ Rooted /\ MadeThere
    BY DEF DirsInv
  <2>2. ParentsFirst' /\ Rooted' /\ MadeThere'
    BY <1>1, <2>1 DEF ParentsFirst, IsParent, Rooted, MadeThere
  <2> QED BY <1>1, <2>1, <2>2 DEF DirsInv, Cleaned
<1>2. ASSUME NEW path \in Paths, MakeSome(path) PROVE DirsInv'
  <2>1. made \in Seq(AllDirs) /\ ParentsFirst /\ Rooted /\ MadeThere
    BY DEF DirsInv
  <2>2. PICK m \in 0..Len(path) : Make(path, m)
    BY <1>2 DEF MakeSome
  <2>3. made' \in Seq(AllDirs) /\ ParentsFirst' /\ Rooted' /\ MadeThere'
    BY <2>1, <2>2, MakeKeeps
  <2> QED BY <2>3 DEF DirsInv, Cleaned
<1> QED BY <1>1, <1>2

LEMMA MakeAllIsSome ==
  \A path \in Paths : MakeAll(path) => MakeSome(path)
BY PathsAreSequences DEF MakeAll, MakeSome

LEMMA EntryPaths ==
  \A e \in Entries : PathOf[e] \in Paths /\ BackupPath[e] \in Paths
BY PathAssumption DEF Paths, Range

LEMMA DirsStep == ASSUME IInv, DirsInv, [Next]_vars PROVE DirsInv'
<1> USE DEF Cleaned
<1>0. Shape
  BY DEF IInv
<1>1. CASE Prepare
  BY <1>1 DEF Prepare, Go, files, DirsInv, ParentsFirst, IsParent, Rooted,
              MadeThere, PassedAreTold
<1>2. ASSUME Stage \/ UndoStage \/ Backup PROVE DirsInv'
  <2>1. /\ pc \notin Cleaned /\ pc' \notin Cleaned \cup {"prepare"}
        /\ \/ UNCHANGED <<dirs, made>>
           \/ \E e \in Entries : \/ MakeAll(PathOf[e]) \/ MakeSome(PathOf[e])
                                 \/ MakeAll(BackupPath[e]) \/ MakeSome(BackupPath[e])
    <3>1. ASSUME Stage PROVE pc = "stage" /\ at \in Entries
      BY <1>0, <3>1 DEF Stage, Shape
    <3>2. ASSUME UndoStage PROVE pc = "undoStage" /\ Undone \in Entries
      BY <1>0, <3>2 DEF UndoStage, Undone, Shape
    <3>3. ASSUME Backup PROVE pc = "backup" /\ at \in Entries
      BY <1>0, <3>3 DEF Backup, Shape
    <3>4. /\ Stage \/ Backup => pc' \in {"stage", "backup", "recheck", "clean",
                                         "undoRead"}
          /\ UndoStage => pc' \in {"undoCheck", "undoRead", "clean"}
      BY <3>1, <3>3 DEF Stage, UndoStage, Backup, Following, Throw, NotRestored,
                        NextUndo, Go
    <3>5. /\ Stage => \/ UNCHANGED <<dirs, made>>
                      \/ MakeAll(PathOf[at]) \/ MakeSome(PathOf[at])
          /\ UndoStage => \/ UNCHANGED <<dirs, made>>
                          \/ MakeAll(PathOf[Undone]) \/ MakeSome(PathOf[Undone])
          /\ Backup => \/ UNCHANGED <<dirs, made>>
                       \/ MakeAll(BackupPath[at]) \/ MakeSome(BackupPath[at])
      BY Zenon DEF Stage, UndoStage, Backup, StageFile, StageFails, files
    <3> QED BY <1>2, <3>1, <3>2, <3>3, <3>4, <3>5
  <2>2. UNCHANGED <<dirs, made>> \/ \E path \in Paths : MakeSome(path)
    BY <2>1, EntryPaths, MakeAllIsSome
  <2> QED BY <2>1, <2>2, DirsStay
<1>3. ASSUME Recheck \/ Check \/ Rename \/ UndoRead \/ UndoCheck \/ Undo
      PROVE  DirsInv'
  <2>1. /\ pc \notin Cleaned /\ pc' \notin Cleaned \cup {"prepare"}
        /\ UNCHANGED <<dirs, made>>
    <3>1. NotRestored => pc' \in {"undoRead", "clean"}
      BY DEF NotRestored, NextUndo, Go
    <3>2. CASE UndoRead \/ UndoCheck
      BY <3>1, <3>2 DEF UndoRead, UndoCheck, Go, files
    <3>3. CASE Undo
      BY <3>1, <3>3 DEF Undo, NextUndo, Go, files
    <3>4. CASE Recheck \/ Check \/ Rename
      BY <3>4 DEF Recheck, Check, Rename, Following, Throw, Go, files
    <3> QED BY <1>3, <3>2, <3>3, <3>4
  <2> QED BY <2>1, DirsStay
<1>4. CASE Clean
  <2>1. UNCHANGED <<dirs, made>> /\ pc' = "rmdir" /\ at' = Len(made)
    BY <1>4 DEF Clean, Go
  <2>2. Len(made) \in Nat
    BY DEF DirsInv
  <2> QED BY <2>1, <2>2 DEF DirsInv, ParentsFirst, IsParent, PassedAreTold
<1>5. CASE Rmdir
  <2>1. /\ UNCHANGED <<target, backup, temps, made, foreign>> /\ pc = "rmdir"
        /\ at \in 0..Len(made) /\ Len(made) \in Nat /\ ParentsFirst
        /\ PassedAreTold /\ made \in Seq(AllDirs)
    BY <1>5 DEF Rmdir, DirsInv
  <2>2. ParentsFirst'
    <3>1. made' = made
      BY <2>1
    <3> QED BY <2>1, <3>1 DEF ParentsFirst, IsParent
  <2>3. CASE at = 0
    <3>1. /\ pc' = "done" /\ at' = 0 /\ UNCHANGED <<dirs, result>>
      BY <1>5, <2>3 DEF Rmdir, Go
    <3>2. PassedAreTold'
      BY <2>1, <2>3, <3>1 DEF PassedAreTold, Empty, Inside
    <3> QED BY <2>1, <2>2, <3>1, <3>2 DEF DirsInv
  <2>4. CASE at > 0
    <3>1. /\ pc' = "rmdir" /\ at' = at - 1 /\ at \in 1..Len(made)
          /\ \/ /\ dirs' = IF Empty(made[at]) THEN dirs \ {made[at]} ELSE dirs
                /\ UNCHANGED result
             \/ /\ Report("keptDirs", result.keptDirs \cup {made[at]})
                /\ UNCHANGED dirs
      BY <1>5, <2>1, <2>4 DEF Rmdir, Go
    <3>2. /\ result.keptDirs \subseteq result'.keptDirs
          /\ \/ made[at] \in result'.keptDirs /\ dirs' = dirs
             \/ dirs' = dirs /\ ~Empty(made[at])
             \/ dirs' = dirs \ {made[at]}
      BY <1>0, <3>1 DEF Shape, Report
    (* A directory becomes empty only by the removal of one inside it.     *)
    <3>3. ASSUME NEW d, Empty(d)', ~Empty(d)
          PROVE  IsParent(d, made[at])
      <4>1. \A path \in Paths : \A i \in 1..Len(path) - 1 :
              path[i] = d => path[i + 1] \notin dirs'
        BY <3>3 DEF Empty
      <4>2. \A e \in Entries :
              /\ ~Inside(d, PathOf[e], target[e] # "none")
              /\ \A kind \in Kinds : ~Inside(d, PathOf[e], <<kind, e>> \in temps)
              /\ ~Inside(d, BackupPath[e], backup[e] # "none")
        BY <2>1, <3>3 DEF Empty, Inside
      <4>3. \E path \in Paths : \E i \in 1..Len(path) - 1 :
              path[i] = d /\ path[i + 1] \in dirs
        BY <3>3, <4>2 DEF Empty
      <4> QED BY <3>2, <4>1, <4>3 DEF IsParent
    <3>4. PassedAreTold'
      <4> SUFFICES ASSUME \A e \in Entries : foreign[e] = "no",
                          NEW i \in (at - 1) + 1..Len(made),
                          made[i] \in dirs', Empty(made[i])'
                   PROVE  made[i] \in result'.keptDirs
        BY <2>1, <3>1 DEF PassedAreTold
      <4>1. i \in 1..Len(made) /\ at \in 1..Len(made) /\ ~(i < at)
        BY <2>1, <3>1
      <4>2. Empty(made[i])
        BY <3>3, <2>1, <4>1 DEF ParentsFirst
      <4>3. CASE i = at
        BY <3>2, <4>2, <4>3
      <4>4. CASE i # at
        <5>1. i \in at + 1..Len(made) /\ made[i] \in dirs
          BY <2>1, <3>2, <4>1, <4>4
        <5> QED BY <2>1, <3>2, <4>2, <5>1 DEF PassedAreTold
      <4> QED BY <4>3, <4>4
    <3>5. at' \in 0..Len(made)
      BY <2>1, <3>1
    <3> QED BY <2>1, <2>2, <3>1, <3>4, <3>5 DEF DirsInv
  <2> QED BY <2>1, <2>3, <2>4
<1>6. ASSUME NEW c \in Entries, ChangeTarget(c) PROVE DirsInv'
  <2>1. /\ UNCHANGED <<dirs, made, pc, at>> /\ foreign'[c] # "no"
    BY <1>0, <1>6 DEF ChangeTarget, Shape
  <2> QED BY <2>1 DEF DirsInv, ParentsFirst, IsParent, Rooted, MadeThere,
                      PassedAreTold
<1>7. ASSUME NEW c \in Entries, PlaceBackup(c) PROVE DirsInv'
  <2>1. /\ UNCHANGED <<target, temps, dirs, made, pc, at, result, foreign>>
        /\ \A e \in Entries : backup[e] # "none" => backup'[e] # "none"
    BY <1>0, <1>7 DEF PlaceBackup, Shape
  <2>2. \A d : Empty(d)' => Empty(d)
    BY <2>1 DEF Empty, Inside
  <2> QED BY <2>1, <2>2 DEF DirsInv, ParentsFirst, IsParent, Rooted, MadeThere,
                            PassedAreTold
<1>8. CASE UNCHANGED vars
  BY <1>8 DEF vars, DirsInv, ParentsFirst, IsParent, Rooted, MadeThere,
              PassedAreTold, Empty, Inside
<1> QED BY <1>1, <1>2, <1>3, <1>4, <1>5, <1>6, <1>7, <1>8
        DEF Next, Import, Others

------------------------------------------------------------------------------
LEMMA HonestInit == Init => ReportInv /\ FilesAreTold /\ DirsInv
<1> SUFFICES ASSUME Init PROVE ReportInv /\ FilesAreTold /\ DirsInv
  OBVIOUS
<1>1. ReportInv
  BY DEF Init, Nothing, ReportInv, Steps, TargetsFollow, UndoneSoFar,
         CommittedSoFar
<1>2. FilesAreTold
  BY DEF Init, FilesAreTold, LeftIn, Cleaned
<1>3. Rooted
  BY DEF Init, Rooted, IsParent
<1>4. DirsInv
  BY <1>3 DEF Init, DirsInv, ParentsFirst, MadeThere, Cleaned
<1> QED BY <1>1, <1>2, <1>4

(* What an import reports is what it did, whatever call failed: which      *)
(* targets are new, which commits were undone or could not be, and every   *)
(* temporary file, incomplete backup and empty new directory it left.      *)
THEOREM ResultsAreHonest == Spec => []ResultHonest
<1>1. IInv /\ ReportInv /\ FilesAreTold /\ DirsInv => ResultHonest
  <2> SUFFICES ASSUME IInv, ReportInv, FilesAreTold, DirsInv, pc = "done"
               PROVE  ResultHonest
    BY DEF ResultHonest, TargetsAsReported, LeftoversReported
  <2>0. committed \in Seq(Entries)
    BY DEF IInv, Shape
  <2>1. Range(committed) = {committed[i] : i \in 1..Len(committed)}
    BY <2>0 DEF Range
  <2>2. \A e \in Entries : IsCommitted(e) <=> e \in Range(committed)
    BY <2>1 DEF IsCommitted
  <2>3. original \in [Entries -> {"none", "old", "new"}]
    BY DEF IInv, Shape
  <2>4. TargetsAsReported
    <3>1. ASSUME NEW e \in Entries, foreign[e] = "no", original[e] # "new"
          PROVE  /\ target[e] = "new" <=> e \in Range(committed) \ result.restored
                 /\ target[e] \in {"new", original[e]}
      BY <2>2, <3>1 DEF ReportInv, TargetsFollow
    <3>2. IF result.failed = "no"
            THEN \A e \in Entries : Unchanged(e) \/ e \in Range(committed)
            ELSE Range(committed) = result.restored \cup result.unrestored
      BY <2>1, <2>2 DEF ReportInv, UndoneSoFar, CommittedSoFar
    <3> QED BY <3>1, <3>2 DEF TargetsAsReported
  <2>5. LeftoversReported
    <3>1. at = 0 /\ made \in Seq(AllDirs) /\ PassedAreTold
      BY DEF DirsInv, Cleaned
    <3>2. \A d \in Range(made) : \E i \in 0 + 1..Len(made) : made[i] = d
      BY <3>1 DEF Range
    <3> QED BY <3>1, <3>2 DEF LeftoversReported, FilesAreTold, LeftIn, Cleaned,
                              PassedAreTold
  <2> QED BY <2>4, <2>5 DEF ResultHonest
<1>2. /\ IInv /\ ReportInv /\ [Next]_vars => ReportInv'
      /\ IInv /\ FilesAreTold /\ [Next]_vars => FilesAreTold'
      /\ IInv /\ DirsInv /\ [Next]_vars => DirsInv'
  BY ReportStep, FilesStep, DirsStep
<1> QED BY <1>1, <1>2, HonestInit, AlwaysIInv, PTL DEF Spec
=============================================================================
