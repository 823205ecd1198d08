---------------------------- MODULE RunningCommand ----------------------------
(***************************************************************************)
(* One command of @openge/forge-command-runner from its start to its       *)
(* result: a child process of its own (direct), terminated through the     *)
(* process control provider, or a command in an owned process scope, of    *)
(* which only the promise (ScopePromise) is known.                         *)
(*                                                                         *)
(* Each step of the command is what the event loop runs between two        *)
(* awaits.  Timers may fire at any time their order allows.  The provider  *)
(* may fail or never answer, a pid that is free may be given to another    *)
(* process, descendants may hold the output open for as long as they like. *)
(***************************************************************************)
EXTENDS Naturals

VARIABLES
  c,          \* the command's state (see Command)
  child,      \* direct: the process, "none", "runs", "dead"
  descends,   \* direct: whether a descendant in its group is alive
  pid,        \* direct: who has its pid, "own", "free", "stranger"
  prov,       \* direct: where terminateProcessTree is (see Provider)
  scopeAuth, scopeCommand, completion,  \* owned: the scope's state
  stray       \* history: signals that hit a process never checked

scope == <<scopeAuth, scopeCommand, completion>>
system == <<child, descends, pid>>
vars == <<c, system, prov, scope, stray>>

Requested == {"abort", "timeout", "output-overflow"}
Failures == {"start-failure", "termination-failure"}

(* at: not yet started, started, spawned; reason, exited, closed,          *)
(* finished, identity: as in the code; known: the identity promise; ready, *)
(* auth: the two promises of the start gate; acquire: where the search for *)
(* the identity is; term: where the termination is; closure: ownedClosure; *)
(* told: terminate of the scope was called before its completion;          *)
(* reaping: the deadline of a process that was killed unidentified;        *)
(* streams: the deadline of the output; sigkill: direct cleanup's signal;  *)
(* cleaned: cleanupAttempted.                                              *)
Command == [
  mode : {"direct", "automatic", "manual"},
  at : {"new", "started", "spawned"},
  reason : {"none"} \cup Requested \cup Failures,
  exited : BOOLEAN, closed : BOOLEAN, finished : BOOLEAN,
  identity : BOOLEAN, known : {"pending", "null", "known"},
  ready : {"pending", "resolved", "rejected"},
  auth : {"none", "waits", "asked", "granted", "failed"},
  acquire : {"no", "polls", "binds", "done"},
  term : {"none", "identity", "provider", "scope", "exit", "done"},
  closure : {"none", "closed", "unknown"}, told : BOOLEAN,
  reaping : BOOLEAN, streams : BOOLEAN, sigkill : BOOLEAN,
  cleaned : BOOLEAN]

(* at: the provider's next step, checked: whether the pid has had the      *)
(* same process since the identity was last read.                          *)
Provider == [at : {"idle", "check", "term", "poll", "kill", "done", "failed"},
             checked : BOOLEAN, aborted : BOOLEAN]

Init ==
  /\ \E m \in {"direct", "automatic", "manual"} :
       c = [mode |-> m, at |-> "new", reason |-> "none", exited |-> FALSE,
            closed |-> FALSE, finished |-> FALSE, identity |-> FALSE,
            known |-> "pending", ready |-> "pending", auth |-> "none",
            acquire |-> "no", term |-> "none", closure |-> "none",
            told |-> FALSE, reaping |-> FALSE, streams |-> FALSE,
            sigkill |-> FALSE, cleaned |-> FALSE]
  /\ child = "none" /\ descends = FALSE /\ pid = "free"
  /\ prov = [at |-> "idle", checked |-> FALSE, aborted |-> FALSE]
  /\ scopeAuth = FALSE /\ scopeCommand = "none" /\ completion = "none"
  /\ stray = FALSE

Owned == c.mode # "direct"
Pending(s) == s.term \notin {"none", "done"}
Resolve(now, v) == IF now = "pending" THEN v ELSE now

------------------------------------------------------------------------------
(* The functions of the code, as functions of the command's state.         *)
Finish(s) ==
  IF s.finished THEN s ELSE
  [s EXCEPT !.finished = TRUE,
            !.reason = IF Owned /\ s.at # "new" /\ s.closure = "none"
                       THEN "termination-failure" ELSE @,
            !.known = Resolve(@, IF s.identity THEN "known" ELSE "null"),
            !.ready = Resolve(@, "rejected"),
            !.reaping = FALSE, !.streams = FALSE]

RequestTermination(s, r) ==
  IF s.term # "none" \/ s.finished \/ (s.exited /\ ~Owned) THEN s
  ELSE [s EXCEPT !.reason = r,
                 !.term = IF Owned THEN "scope" ELSE "identity",
                 !.told = @ \/ (Owned /\ completion = "none")]

(* directCleanup: of a scope, its termination, which is under way.         *)
Cleanup(s) ==
  IF Owned \/ s.at # "spawned" \/ s.exited \/ s.cleaned THEN s
  ELSE [s EXCEPT !.cleaned = TRUE, !.sigkill = TRUE]

FailTermination(s) == Cleanup([s EXCEPT !.reason = "termination-failure"])

EndedWithoutFinish(s) == [s EXCEPT !.term = "done"]

(* The end of a termination: the finally of its body.                      *)
Ended(s) == LET ended == [s EXCEPT !.term = "done"]
            IN  IF s.closed THEN Finish(ended) ELSE ended

Exited(s) ==
  [s EXCEPT !.exited = TRUE, !.reaping = FALSE,
            !.streams = @ \/ (~s.exited /\ ~s.closed)]

OnClose(s) ==
  LET closed == [Exited([s EXCEPT !.closed = TRUE]) EXCEPT
                   !.known = Resolve(@, IF s.identity THEN "known"
                                        ELSE "null")]
  IN  IF Pending(s) THEN closed ELSE Finish(closed)

(* authorizeStart: refused once there is a reason to end.                  *)
AuthorizeStart(s) ==
  IF s.finished \/ s.exited \/ s.reason # "none" \/ s.auth # "none" THEN s
  ELSE [s EXCEPT !.auth = "waits"]

Becomes(s) == c' = s /\ UNCHANGED <<system, prov, scope, stray>>

------------------------------------------------------------------------------
(* startCommand, and the start of the process or of the scope.             *)
Start ==
  /\ c.at = "new" /\ ~c.finished
  /\ \/ Becomes([c EXCEPT !.at = "started"])
     \/ Becomes(Finish([c EXCEPT !.reason = "abort"]))

(* onSpawn; a direct command exists from then on.                          *)
Spawned ==
  /\ c.at = "started" /\ ~c.finished
  /\ \E throws \in {FALSE, Owned} :
       LET s == [c EXCEPT !.at = "spawned", !.acquire = "polls"]
       IN  c' = IF throws THEN RequestTermination(s, "abort") ELSE s
  /\ IF Owned THEN UNCHANGED system
     ELSE child' = "runs" /\ pid' = "own" /\ UNCHANGED descends
  /\ UNCHANGED <<prov, scope, stray>>

(* No process: onError before the spawn, or the scope's root fails.        *)
NotSpawned ==
  /\ c.at = "started" /\ ~c.finished
  /\ LET none == [c EXCEPT !.known = Resolve(@, "null")] IN
     \/ /\ ~Owned
        /\ Becomes(Finish([none EXCEPT !.reason = "start-failure"]))
     \/ /\ Owned
        /\ Becomes([RequestTermination(
                      [none EXCEPT !.ready = Resolve(@, "rejected"),
                                   !.reason = "termination-failure"],
                      "abort") EXCEPT !.at = "spawned", !.acquire = "done"])

(* The search for the identity ends: found, out of time, or given up.      *)
Identified(s, throws) ==
  LET known == [s EXCEPT !.identity = TRUE, !.known = Resolve(@, "known"),
                         !.acquire = "done"]
      seen == IF throws THEN RequestTermination(known, "abort") ELSE known
      gate == [seen EXCEPT !.ready = Resolve(@, "resolved")]
  IN  IF s.mode = "automatic" THEN AuthorizeStart(gate)
      ELSE IF Owned THEN gate ELSE known

NotIdentified(s) == [s EXCEPT !.known = Resolve(@, "null"),
                              !.acquire = "done"]

Acquire ==
  /\ c.acquire = "polls"
  /\ \/ (c.finished \/ c.exited) /\ Becomes(NotIdentified(c))
     \/ /\ ~c.finished /\ ~c.exited
        /\ Becomes(IF Owned THEN [c EXCEPT !.acquire = "binds"]
                   ELSE Identified(c, FALSE))
     \/ /\ ~c.finished /\ ~c.exited
        /\ LET s == [NotIdentified(c) EXCEPT !.reason = "start-failure"] IN
           Becomes(IF Owned
                   THEN RequestTermination(
                          [s EXCEPT !.ready = Resolve(@, "rejected")],
                          "abort")
                   ELSE [Cleanup(s) EXCEPT !.reaping = TRUE])

(* owned.bind of the identity that was found.                              *)
BindEnds ==
  /\ c.acquire = "binds"
  /\ \/ /\ c.finished \/ c.reason # "none"
        /\ Becomes(NotIdentified(c))
     \/ /\ ~c.finished /\ c.reason = "none" /\ completion = "none"
        /\ \E throws \in BOOLEAN : Becomes(Identified(c, throws))
     \/ Becomes(RequestTermination(
                  [NotIdentified(c) EXCEPT !.ready = Resolve(@, "rejected")],
                  "abort"))

------------------------------------------------------------------------------
(* The caller: abort, terminate, a timeout, too much output; the start     *)
(* gate of a manual command.                                               *)
Ends ==
  /\ c.at # "new" /\ ~c.finished
  /\ \/ Becomes(RequestTermination(c, "abort"))
     \/ /\ Owned \/ (c.at = "spawned" /\ ~c.exited)
        /\ Becomes(RequestTermination(c, "timeout"))
     \/ /\ c.at = "spawned"
        /\ LET r == IF c.reason = "none" THEN "output-overflow" ELSE c.reason
           IN  Becomes(RequestTermination([c EXCEPT !.reason = r],
                                          "output-overflow"))

Permits ==
  /\ c.mode = "manual" /\ c.at # "new"
  /\ Becomes(AuthorizeStart(c))

AuthorizationUnchecked ==
  /\ c.auth = "waits" /\ c.ready = "resolved" /\ completion = "none"
  /\ c' = [c EXCEPT !.auth = "asked"]
  /\ scopeAuth' = TRUE
  /\ UNCHANGED <<system, prov, scopeCommand, completion, stray>>

(* After the gate is ready the state is looked at again.                   *)
Authorization ==
  \/ /\ c.auth = "waits" /\ c.ready # "pending"
     /\ IF c.ready = "resolved" /\ ~c.finished /\ ~c.exited
           /\ c.reason = "none" /\ completion = "none"
        THEN /\ c' = [c EXCEPT !.auth = "asked"]
             /\ scopeAuth' = TRUE
             /\ UNCHANGED <<system, prov, scopeCommand, completion, stray>>
        ELSE Becomes([c EXCEPT !.auth = "failed"])
  \/ /\ c.auth = "asked"
     /\ \/ Becomes([c EXCEPT !.auth = "granted"])
        \/ Becomes(RequestTermination([c EXCEPT !.auth = "failed"], "abort"))

------------------------------------------------------------------------------
(* The termination, one action per await.                                  *)
AfterIdentity ==
  /\ c.term = "identity" /\ c.known # "pending"
  /\ IF c.known = "null" \/ c.exited \/ c.finished
     THEN Becomes(Ended(c))
     ELSE /\ c' = [c EXCEPT !.term = "provider"]
          /\ prov' = [prov EXCEPT !.at = "check"]
          /\ UNCHANGED <<system, scope, stray>>

AfterProvider ==
  /\ c.term = "provider" /\ prov.at \in {"done", "failed"}
  /\ LET s == IF prov.at = "failed" THEN FailTermination(c) ELSE c IN
     Becomes(IF s.exited THEN Ended(s) ELSE [s EXCEPT !.term = "exit"])

AfterScope ==
  /\ c.term = "scope" /\ completion # "none"
  /\ Becomes(IF c.closed \/ c.finished THEN Ended(c)
             ELSE [c EXCEPT !.term = "exit"])

AfterExit ==
  /\ c.term = "exit" /\ (c.exited \/ c.finished)
  /\ Becomes(Ended(c))

(* The deadline of a termination, which finish() takes away with it.       *)
Deadline ==
  /\ Pending(c) /\ ~c.finished
  /\ c' = Ended(Finish(FailTermination(c)))
  /\ prov' = [prov EXCEPT !.aborted = TRUE]
  /\ UNCHANGED <<system, scope, stray>>

(* The deadlines of the output of an exited process, later than that of a  *)
(* termination requested before, and of one that was never identified.     *)
StreamDeadline ==
  /\ c.streams /\ ~c.finished /\ ~Pending(c)
  /\ Becomes(Finish([c EXCEPT !.reason = "termination-failure"]))

ReapDeadline ==
  /\ c.reaping /\ ~c.finished
  /\ Becomes(Finish(c))

------------------------------------------------------------------------------
(* Direct: the child's events, its processes, the pid.                     *)
OnExit ==
  /\ child = "dead" /\ ~c.exited /\ ~c.finished
  /\ c' = Exited(c)
  /\ pid' = "free"
  /\ UNCHANGED <<child, descends, prov, scope, stray>>

ChildCloses ==
  /\ c.exited /\ ~c.closed /\ ~c.finished /\ ~Owned
  /\ Becomes(OnClose(c))

(* An error event of a child that was spawned: a signal not delivered.     *)
ChildErrors ==
  /\ c.sigkill /\ ~c.finished
  /\ Becomes(Finish([c EXCEPT !.sigkill = FALSE,
                              !.reason = "termination-failure"]))

(* child.kill('SIGKILL') takes effect.                                     *)
KillDelivered ==
  /\ c.sigkill
  /\ c' = [c EXCEPT !.sigkill = FALSE]
  /\ child' = "dead"
  /\ UNCHANGED <<descends, pid, prov, scope, stray>>

ChildEnds ==
  /\ child = "runs" /\ child' = "dead"
  /\ UNCHANGED <<c, descends, pid, prov, scope, stray>>

Descends ==
  /\ child = "runs" \/ descends
  /\ descends' = ~descends
  /\ UNCHANGED <<c, child, pid, prov, scope, stray>>

(* Once reaped, and with no group of that number, the pid may be reused;   *)
(* after finish() the child is reaped unseen.                              *)
PidReused ==
  /\ child = "dead" /\ ~descends /\ (c.exited \/ c.finished)
  /\ pid \in {"own", "free"}
  /\ pid' = "stranger"
  /\ prov' = [prov EXCEPT !.checked = FALSE]
  /\ UNCHANGED <<c, child, descends, scope, stray>>

------------------------------------------------------------------------------
(* terminateProcess of the provider, for a tree: the identity is read      *)
(* again before each signal, and the signal goes to the group of the pid.  *)
At(l) == [prov EXCEPT !.at = l]
Goes(p) == prov' = p /\ UNCHANGED <<c, system, scope, stray>>

SamePid == pid # "free"

(* Whoever has the pid: nobody, the child (a zombie until reaped), or      *)
(* another process, whose start token differs.                             *)
SameProcess == pid = "own"

Check ==
  /\ prov.at = "check"
  /\ \/ /\ SameProcess /\ ~prov.aborted
        /\ \E l \in {"term", "kill"} : Goes([At(l) EXCEPT !.checked = TRUE])
     \/ Goes(At("failed"))

Hit(l) ==
  /\ stray' = (stray \/ (pid = "stranger" /\ prov.checked))
  /\ prov' = At(l)
  /\ UNCHANGED <<c, scope, pid>>

(* A signal that is on its way is delivered even after an abort.           *)
SendTerm ==
  /\ prov.at = "term"
  /\ \/ /\ \E l \in {"poll", "done"} : Hit(l)
        /\ child' \in {child, IF child = "runs" THEN "dead" ELSE child}
        /\ descends' \in {descends, FALSE}
     \/ Goes(At("failed"))

Poll ==
  /\ prov.at = "poll"
  /\ \/ pid = "free" /\ Goes(At("done"))
     \/ /\ SameProcess /\ ~prov.aborted
        /\ Goes([At("kill") EXCEPT !.checked = TRUE])
     \/ Goes(At("failed"))

SendKill ==
  /\ prov.at = "kill"
  /\ \/ /\ Hit("done")
        /\ child' = IF child = "runs" THEN "dead" ELSE child
        /\ descends' = FALSE
     \/ Goes(At("failed"))

------------------------------------------------------------------------------
(* The scope behind an owned command, and its adapter.                     *)
Promise == INSTANCE ScopePromise WITH
  authorized <- scopeAuth, stopped <- c.told, command <- scopeCommand

ScopeSteps ==
  /\ Owned /\ c.at # "new"
  /\ UNCHANGED <<c, system, prov, stray>>
  /\ \/ Promise!Start \/ Promise!End
     \/ \E r \in Promise!Reports : Promise!Complete(r)

CompletedByExitAlone ==
  /\ completion # "none" /\ ~c.closed /\ ~c.finished
  /\ Becomes(OnClose([c EXCEPT !.closure = IF completion = "closed"
                                          THEN "closed" ELSE "unknown"]))

(* completed(): after dispose(), whose failure leaves the closure unknown. *)
Completed ==
  /\ completion # "none" /\ ~c.closed /\ ~c.finished
  /\ \E closure \in {"unknown"}
                      \cup (IF completion = "closed" THEN {"closed"} ELSE {}) :
       LET s == [c EXCEPT !.closure = closure] IN
       Becomes(OnClose(IF closure = "closed" /\ s.identity THEN s
                       ELSE [s EXCEPT !.reason = "termination-failure"]))

Lifecycle ==
  \/ Start \/ Spawned \/ NotSpawned \/ Acquire \/ BindEnds
  \/ Authorization \/ AfterIdentity \/ AfterProvider \/ AfterScope
  \/ AfterExit \/ Deadline \/ StreamDeadline \/ ReapDeadline \/ Completed
Caller == Ends \/ Permits
Child == OnExit \/ ChildCloses \/ ChildErrors \/ KillDelivered
System == ChildEnds \/ Descends \/ PidReused
ProviderSteps == Check \/ SendTerm \/ Poll \/ SendKill

Next == Lifecycle \/ Caller \/ Child \/ System \/ ProviderSteps \/ ScopeSteps

Spec == Init /\ [][Next]_vars

(* The event loop runs and timers fire; the provider need not answer, a    *)
(* command need not end, its output need not close.                        *)
Fairness ==
  /\ WF_vars(Spawned) /\ WF_vars(Acquire) /\ WF_vars(BindEnds)
  /\ WF_vars(AfterIdentity) /\ WF_vars(AfterProvider) /\ WF_vars(AfterScope)
  /\ WF_vars(AfterExit) /\ WF_vars(Deadline)
  /\ WF_vars(StreamDeadline) /\ WF_vars(ReapDeadline)
  /\ WF_vars(Completed) /\ WF_vars(OnExit)
FairSpec == Spec /\ Fairness

------------------------------------------------------------------------------
Result == IF c.finished THEN IF c.reason = "none" THEN "exit" ELSE c.reason
          ELSE "none"

TypeOK ==
  /\ c \in Command
  /\ prov \in Provider
  /\ child \in {"none", "runs", "dead"} /\ descends \in BOOLEAN
  /\ pid \in {"own", "free", "stranger"}
  /\ scopeAuth \in BOOLEAN /\ scopeCommand \in {"none", "alive", "gone"}
  /\ completion \in {"none"} \cup Promise!Reports
  /\ stray \in BOOLEAN

(* An owned command is reported as ended, aborted or timed out only with   *)
(* the closed closure of its scope; without one it is a termination        *)
(* failure, and an exit is reported only when none of it is left.          *)
OwnedHonest ==
  Owned /\ c.at # "new" /\ c.finished =>
    /\ c.closure # "closed" => Result = "termination-failure"
    /\ Result = "exit" => completion = "closed" /\ scopeCommand = "gone"

(* A direct command that was identified is reported as ended, aborted or   *)
(* timed out only when its process is dead.                                *)
DirectHonest ==
  /\ ~Owned /\ c.at = "spawned"
  /\ Result = "exit" \/ (Result \in Requested /\ c.identity)
  => child = "dead"

(* What is reported of the end of a command is true of its processes,      *)
(* owned by a scope or direct: nothing is said to be over that may not be; *)
(* and no signal goes to a process that took over the pid before the check *)
(* that precedes this signal (it still may between the two).               *)
EndHonest == OwnedHonest /\ DirectHonest /\ ~stray

(* The start gate never opens after there was a reason to end the command, *)
(* nor for a helper whose identity is not bound.                           *)
NoLateAuthorization ==
  [][scopeAuth' # scopeAuth =>
       c.reason = "none" /\ c.identity /\ ~c.told /\ ~c.finished]_vars

(* Once a termination is under way, the process has exited or its scope is *)
(* complete, there is a result, and terminate() returns, even if the       *)
(* provider never answers and the output stays open.                       *)
ResultComes ==
  (Pending(c) \/ c.exited \/ (c.at # "new" /\ completion # "none"))
    ~> (c.finished /\ ~Pending(c))
==============================================================================
