---------------------------- MODULE SnapshotLock ----------------------------
(***************************************************************************)
(* acquireSourceSnapshotLock of @openge/forge-source-snapshot and the      *)
(* release function it returns, as the file-system calls they are made of. *)
(* A caller creates the lock file (open with 'wx'), then writes its pid    *)
(* and a random token into it; one that finds a file reads it and, unless  *)
(* it names a running process, unlinks it and tries once more.             *)
(*                                                                         *)
(* A caller is one call of the function; callers with the same pid live in *)
(* one process and die together.                                           *)
(***************************************************************************)
EXTENDS Integers, FiniteSets

CONSTANTS
  Callers,  \* the calls made
  Pids,     \* the processes that make them
  PidOf,    \* the process of each call
  NoFile,   \* the lock file does not exist
  Misjudged \* whether reading the file or asking for its process may fail

Attempts == 2

VARIABLES
  lockFile, \* the file: who created it and whether its content is written
  pc,       \* where each call is
  attempt,  \* the attempts each call has begun
  running,  \* processes that run
  quiet     \* history: no two calls were ever inside acquire together,
            \* and no live call's file was ever misjudged

vars == <<lockFile, pc, attempt, running, quiet>>

LockFiles == [owner : Callers, written : BOOLEAN]

(* What is asked of the constants.                                         *)
ConstantsOK == PidOf \in [Callers -> Pids] /\ NoFile \notin LockFiles

Acquiring == {"open", "write", "inspect", "takeover"}
Holding == {"held", "unlink"}
Ended == {"released", "refused", "failed", "dead"}

(* The file, the callers and the history keep their types; no call makes   *)
(* more than two attempts (the loop in lock.ts:9).                         *)
TypeOK ==
  /\ lockFile \in LockFiles \cup {NoFile}
  /\ pc \in [Callers -> {"idle"} \cup Acquiring \cup Holding \cup Ended]
  /\ attempt \in [Callers -> 0..Attempts]
  /\ running \subseteq Pids
  /\ quiet \in BOOLEAN

Init ==
  /\ lockFile = NoFile
  /\ pc = [c \in Callers |-> "idle"]
  /\ attempt = [c \in Callers |-> 0]
  /\ running = Pids
  /\ quiet = TRUE

Goto(c, step) == pc' = [pc EXCEPT ![c] = step]

(* running asks whether the pid exists, not whether it is still the process*)
(* that made the call: a pid can have been given away again.               *)
Alive(c) == PidOf[c] \in running

Begin(c) ==
  /\ pc[c] = "idle" /\ Alive(c)
  /\ Goto(c, "open")
  /\ attempt' = [attempt EXCEPT ![c] = 1]
  /\ quiet' = (quiet /\ \A d \in Callers : pc[d] \notin Acquiring)
  /\ UNCHANGED <<lockFile, running>>

(* open(lockPath, 'wx'): created, or EEXIST.                               *)
Create(c) ==
  /\ pc[c] = "open"
  /\ \/ /\ lockFile = NoFile
        /\ lockFile' = [owner |-> c, written |-> FALSE]
        /\ Goto(c, "write")
     \/ /\ lockFile # NoFile
        /\ Goto(c, "inspect")
        /\ UNCHANGED lockFile
  /\ UNCHANGED <<attempt, running, quiet>>

(* The content goes to the file this call created; if that file has been   *)
(* unlinked, nobody will ever read it, and the call succeeds all the same. *)
WriteContent(c) ==
  /\ pc[c] = "write"
  /\ lockFile' = IF lockFile # NoFile /\ lockFile.owner = c
                   THEN [lockFile EXCEPT !.written = TRUE] ELSE lockFile
  /\ Goto(c, "held")
  /\ UNCHANGED <<attempt, running, quiet>>

(* The write throws and leaves the file empty, or sync or close does after *)
(* it: the file stays behind with the pid of a process that may live on.   *)
WriteFails(c) ==
  /\ pc[c] = "write"
  /\ \/ UNCHANGED lockFile
     \/ /\ lockFile # NoFile /\ lockFile.owner = c
        /\ lockFile' = [lockFile EXCEPT !.written = TRUE]
  /\ Goto(c, "failed")
  /\ UNCHANGED <<attempt, running, quiet>>

(* Only a file with the pid of a running process refuses; one that cannot  *)
(* be read or parsed counts as left behind.                                *)
NamesRunning ==
  lockFile # NoFile /\ lockFile.written /\ Alive(lockFile.owner)

Inspect(c) ==
  /\ pc[c] = "inspect"
  /\ Goto(c, IF NamesRunning THEN "refused" ELSE "takeover")
  /\ UNCHANGED <<lockFile, attempt, running, quiet>>

(* Reading the file throws, or kill does because the process it names is   *)
(* another user's: a live call's file counts as left behind.               *)
Misjudge(c) ==
  /\ Misjudged
  /\ pc[c] = "inspect"
  /\ Goto(c, "takeover")
  /\ quiet' = FALSE
  /\ UNCHANGED <<lockFile, attempt, running>>

(* unlink(lockPath) removes whatever file is there by now.                 *)
TakeOver(c) ==
  /\ pc[c] = "takeover"
  /\ lockFile' = NoFile
  /\ \/ /\ attempt[c] < Attempts
        /\ attempt' = [attempt EXCEPT ![c] = @ + 1]
        /\ Goto(c, "open")
     \/ /\ attempt[c] = Attempts
        /\ Goto(c, "refused")
        /\ UNCHANGED attempt
  /\ UNCHANGED <<running, quiet>>

(* release: a missing file or another token ends it, and an empty file     *)
(* makes JSON.parse throw.                                                 *)
ReadToken(c) ==
  /\ pc[c] = "held"
  /\ Goto(c, IF lockFile = NoFile THEN "released"
             ELSE IF ~lockFile.written THEN "failed"
             ELSE IF lockFile.owner = c THEN "unlink" ELSE "released")
  /\ UNCHANGED <<lockFile, attempt, running, quiet>>

Unlink(c) ==
  /\ pc[c] = "unlink"
  /\ lockFile' = NoFile
  /\ Goto(c, "released")
  /\ UNCHANGED <<attempt, running, quiet>>

(* open, an unlink or the reading of the token throws something that is    *)
(* neither EEXIST nor ENOENT: the call ends, and the file stays as it is.  *)
CallFails(c) ==
  /\ pc[c] \in {"open", "takeover", "held", "unlink"}
  /\ Goto(c, "failed")
  /\ UNCHANGED <<lockFile, attempt, running, quiet>>

Die(pid) ==
  /\ pid \in running
  /\ running' = running \ {pid}
  /\ pc' = [c \in Callers |-> IF PidOf[c] = pid /\ pc[c] \notin Ended
                                THEN "dead" ELSE pc[c]]
  /\ UNCHANGED <<lockFile, attempt, quiet>>

(* The system gives the pid of a dead process to a new one.                *)
Reuse(pid) ==
  /\ pid \in Pids \ running
  /\ running' = running \cup {pid}
  /\ UNCHANGED <<lockFile, pc, attempt, quiet>>

Step(c) ==
  \/ Create(c) \/ WriteContent(c) \/ WriteFails(c) \/ Inspect(c) \/ Misjudge(c)
  \/ TakeOver(c) \/ ReadToken(c) \/ Unlink(c) \/ CallFails(c)

Next ==
  \/ \E c \in Callers : Begin(c) \/ Step(c)
  \/ \E pid \in Pids : Die(pid) \/ Reuse(pid)

Spec == Init /\ [][Next]_vars

------------------------------------------------------------------------------
(* At most one call holds the lock (README "Capabilities": exclusive locks;*)
(* "Safety boundary": live locks fail closed).                             *)
Exclusive ==
  \A c, d \in Callers : pc[c] \in Holding /\ pc[d] \in Holding => c = d

(* As long as no two calls were inside acquire at the same time and every  *)
(* file was judged rightly, the lock is exclusive, whatever processes died *)
(* while they held it or were about to, and whatever of the lock's own     *)
(* calls failed: this is what module SnapshotStore takes for granted.      *)
ExclusiveWhenQuiet == quiet => Exclusive

(* Who is refused, and by what.  A call that met no other acquisition is   *)
(* refused only by the written file of another call that holds the lock,   *)
(* that failed after writing it (sync, close, or the release itself), or   *)
(* whose process died and left its pid to a new one.  A call that released *)
(* the lock or was refused itself, a dead pid and an empty file refuse     *)
(* nobody.                                                                 *)
RefusedOnlyByHolder ==
  [][\A c \in Callers : pc[c] # "refused" /\ pc'[c] = "refused" /\ quiet
       => /\ lockFile # NoFile /\ lockFile.written
          /\ lockFile.owner # c /\ Alive(lockFile.owner)
          /\ pc[lockFile.owner] \in Holding \cup {"failed", "dead"}]_vars

==============================================================================
