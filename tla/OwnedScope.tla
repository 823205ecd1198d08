------------------------------ MODULE OwnedScope ------------------------------
(***************************************************************************)
(* An owned process scope of @openge/forge-process-control-node on Linux:  *)
(* the supervisor in the calling process, the helper process it spawns (a  *)
(* subreaper that starts the command), the two queues of the IPC channel   *)
(* between them, and the processes of the command.                         *)
(*                                                                         *)
(* Each step of the supervisor is what its event loop runs between two     *)
(* awaits.  A timer of the supervisor may run out at any time; the         *)
(* deadline of closing, once over, fails every later call to the helper.   *)
(* The helper may be killed, and the calling process may die.              *)
(***************************************************************************)
EXTENDS Naturals, Sequences

CONSTANT MaxKids  \* descendants of the command alive at once

ASSUME ScopeAssumption == MaxKids \in Nat

VARIABLES
  sup,    \* the supervisor's state (see Supervisor)
  toSup,  \* frames on their way to it
  helper, \* the helper's state (see Helper)
  root,   \* the command's process: "none", "runs", "dead"
  kids,   \* its descendants alive
  owner,  \* whether the calling process lives
  told    \* history: terminate was called before the completion

scopeVars == <<sup, toSup, helper, root, kids, owner, told>>
processes == <<root, kids>>
outside == <<toSup, helper, processes, owner, told>>

Requests == {"bind", "start", "inspect", "stop", "finish"}
Frames == {<<"ready">>, <<"direct-exit">>}
            \cup ({"reply"} \X Requests \X BOOLEAN)
Reasons == {"normal", "terminated", "provider-failed", "owner-lost",
            "descendants-remained"}

(* init: where initialization waits; fin: where finish waits; entered: the *)
(* reason finish was entered with; final: finalReason; backend, fd,        *)
(* proven, gone: the back end, its pidfd, provenEmpty and its rootExited;  *)
(* late: closingDeadline is over; closed: rootExited of the supervisor;    *)
(* clean: the helper's exit code was 0; sigterm: a SIGTERM on its way to   *)
(* the helper; pending: requests without an answer; out: frames on their   *)
(* way to the helper.                                                      *)
Supervisor == [
  init : {"backend", "spawn", "attach", "boot", "ready", "failed"},
  boot : {"pending", "ready", "rejected"},
  fin : {"none", "init", "inspect", "goodbye", "force", "close", "caught",
         "close2", "dispose", "settle", "done"},
  entered : Reasons, final : Reasons,
  binding : {"none", "rpc", "bound", "failed"},
  identity : BOOLEAN, authorized : BOOLEAN, directExit : BOOLEAN,
  forced : {"no", "stop", "finish", "ok", "failed"},
  backend : BOOLEAN, fd : BOOLEAN, proven : BOOLEAN, gone : BOOLEAN,
  late : BOOLEAN, closed : BOOLEAN, clean : BOOLEAN, sigterm : BOOLEAN,
  connected : BOOLEAN, empty : {"yes", "no", "unknown"},
  completion : {"none", "closed", "empty", "unknown"},
  pending : SUBSET Requests, out : Seq(Requests)]

(* state: of the process; op: the request it is busy with; bound, started, *)
(* exited: as in scope-host.ts; drain: the direct exit is not yet sent;    *)
(* abandon: it is cleaning up to exit with 125.                            *)
Helper == [
  state : {"none", "boots", "runs", "exited", "failed", "killed"},
  op : {"none", "stop", "leave"},
  bound : BOOLEAN, started : BOOLEAN, exited : BOOLEAN, drain : BOOLEAN,
  abandon : BOOLEAN]

ScopeUnused ==
  /\ sup = [init |-> "backend", boot |-> "pending", fin |-> "none",
            entered |-> "normal", final |-> "normal", binding |-> "none",
            identity |-> FALSE, authorized |-> FALSE, directExit |-> FALSE,
            forced |-> "no", backend |-> FALSE, fd |-> FALSE,
            proven |-> FALSE, gone |-> FALSE, late |-> FALSE,
            closed |-> FALSE, clean |-> FALSE, sigterm |-> FALSE,
            connected |-> FALSE, empty |-> "unknown", completion |-> "none",
            pending |-> {}, out |-> <<>>]
  /\ helper = [state |-> "none", op |-> "none", bound |-> FALSE,
               started |-> FALSE, exited |-> FALSE, drain |-> FALSE,
               abandon |-> FALSE]
  /\ toSup = <<>> /\ root = "none" /\ kids = 0
  /\ told = FALSE
ScopeInit == ScopeUnused /\ owner = TRUE

HelperLives == helper.state \in {"boots", "runs"}
HelperGone == helper.state \in {"exited", "failed", "killed"}

------------------------------------------------------------------------------
(* The parts of the supervisor's steps, as functions of its state.         *)
Finishing(s) == s.fin # "none"

(* rpc: refused without a channel or after the closing deadline.           *)
CanAsk(s) == s.connected /\ ~s.late
Ask(s, t) == [s EXCEPT !.pending = @ \cup {t}, !.out = Append(@, t)]

(* backend.force(): stop is asked at once; failing, it sends SIGTERM.      *)
ForceFails(s) == [s EXCEPT !.forced = "failed", !.sigterm = @ \/ s.fd]
ForceOnce(s) ==
  IF s.forced # "no" \/ ~s.backend THEN s
  ELSE IF s.gone THEN [s EXCEPT !.forced = "ok"]
  ELSE IF CanAsk(s) THEN Ask([s EXCEPT !.forced = "stop"], "stop")
  ELSE ForceFails(s)

RejectBoot(s) == [s EXCEPT !.boot = IF @ = "pending" THEN "rejected" ELSE @]

WorseAtFirstOnly(s, r) == s

(* finish(reason): entered again, it only ever makes the reason worse.     *)
Worse(s, r) == [s EXCEPT !.final = IF @ = "normal" THEN r ELSE @]
FinishScope(s, r) ==
  IF s.fin = "none"
  THEN LET entered == [s EXCEPT !.fin = "init", !.entered = r, !.final = r]
       IN  IF r = "normal" THEN entered ELSE RejectBoot(entered)
  ELSE IF s.fin # "done" /\ r # "normal" THEN ForceOnce(Worse(s, r))
  ELSE s

(* The catch of finish.                                                    *)
Catch(s) == ForceOnce(Worse([s EXCEPT !.fin = "caught"], "provider-failed"))

InitFails(s) == FinishScope(RejectBoot([s EXCEPT !.init = "failed"]),
                            "provider-failed")

(* A step of the supervisor alone.                                         *)
Steps(s) == owner /\ sup' = s /\ UNCHANGED outside

------------------------------------------------------------------------------
(* Initialization: the back end, the helper process, its instance held by  *)
(* a pidfd, its first frame.                                               *)
CreateBackend ==
  /\ sup.init = "backend"
  /\ \/ Steps(InitFails(sup))
     \/ /\ Finishing(sup)
        /\ Steps(InitFails([sup EXCEPT !.backend = TRUE]))
     \/ /\ ~Finishing(sup) /\ owner
        /\ sup' = [sup EXCEPT !.init = "spawn", !.backend = TRUE,
                              !.connected = TRUE]
        /\ helper' = [helper EXCEPT !.state = "boots"]
        /\ UNCHANGED <<toSup, processes, owner, told>>

(* A helper that cannot be spawned reports an error and closes at once.    *)
SpawnHelper ==
  /\ sup.init = "spawn"
  /\ \/ Steps([sup EXCEPT !.init = "attach"])
     \/ /\ helper.state = "boots" /\ owner
        /\ sup' = InitFails(sup)
        /\ helper' = [helper EXCEPT !.state = "failed"]
        /\ UNCHANGED <<toSup, processes, owner, told>>

Attach ==
  /\ sup.init = "attach"
  /\ \/ /\ HelperLives /\ ~sup.closed
        /\ Steps([sup EXCEPT !.init = "boot", !.fd = TRUE])
     \/ Steps(InitFails(sup))

Booted ==
  /\ sup.init = "boot" /\ sup.boot # "pending"
  /\ Steps(IF sup.boot = "ready" /\ ~Finishing(sup)
             THEN [sup EXCEPT !.init = "ready"] ELSE InitFails(sup))

StartupTimeout ==
  /\ sup.init \notin {"ready", "failed"} /\ ~Finishing(sup)
  /\ Steps(FinishScope(RejectBoot(sup), "provider-failed"))

------------------------------------------------------------------------------
(* The caller: bind, authorize, terminate (or dispose).  A call that finds *)
(* the scope inactive is refused and changes nothing.                      *)
BindFails(s) == FinishScope([s EXCEPT !.binding = "failed"], "provider-failed")
Bind ==
  /\ sup.init = "ready" /\ sup.binding = "none" /\ ~Finishing(sup)
  /\ \/ LET s == [sup EXCEPT !.identity = TRUE, !.binding = "rpc"] IN
        /\ HelperLives
        /\ Steps(IF CanAsk(s) THEN Ask(s, "bind") ELSE BindFails(s))
     \/ Steps(BindFails(sup))

Authorize ==
  /\ sup.binding = "bound" /\ ~sup.authorized /\ ~Finishing(sup)
  /\ LET s == [sup EXCEPT !.authorized = TRUE] IN
     Steps(IF CanAsk(s) THEN Ask(s, "start")
           ELSE FinishScope(s, "provider-failed"))

Terminate ==
  /\ ~told /\ sup.fin # "done" /\ owner
  /\ sup' = FinishScope(sup, "terminated")
  /\ told' = TRUE
  /\ UNCHANGED <<toSup, helper, processes, owner>>

(* The observer of the command's output throws.                            *)
OutputThrows ==
  /\ root # "none" /\ ~Finishing(sup)
  /\ Steps(FinishScope(sup, "provider-failed"))

------------------------------------------------------------------------------
(* The answer to a request.  bind looks at the state again; force goes on  *)
(* from stop to finish, a natural end from inspect to finish.              *)
Inspected(s, empty) ==
  IF s.final # "normal" THEN ForceOnce([s EXCEPT !.fin = "force"])
  ELSE IF ~empty
  THEN ForceOnce([s EXCEPT !.fin = "force",
                           !.final = "descendants-remained"])
  ELSE IF CanAsk(s) THEN Ask([s EXCEPT !.fin = "goodbye"], "finish")
  ELSE Catch(s)

Answered(s, t, empty) ==
  CASE t = "bind" /\ Finishing(s) -> BindFails(s)
    [] t = "bind" /\ ~Finishing(s) -> [s EXCEPT !.binding = "bound"]
    [] t = "start" -> s
    [] t = "inspect" -> Inspected([s EXCEPT !.proven = empty], empty)
    [] t = "stop" ->
         LET known == [s EXCEPT !.proven = empty] IN
         IF empty /\ CanAsk(s) THEN Ask([known EXCEPT !.forced = "finish"],
                                        "finish")
         ELSE ForceFails(known)
    [] t = "finish" /\ s.forced = "finish" -> [s EXCEPT !.forced = "ok"]
    [] t = "finish" /\ s.forced # "finish" -> [s EXCEPT !.fin = "close"]

Rejected(s, t) ==
  CASE t = "bind" -> BindFails(s)
    [] t = "start" -> FinishScope(s, "provider-failed")
    [] t = "stop" \/ (t = "finish" /\ s.forced = "finish") -> ForceFails(s)
    [] OTHER -> Catch(s)

Settled(t) == [sup EXCEPT !.pending = @ \ {t}]

(* child.on('message').  An answer nobody waits for, or a direct exit      *)
(* before the start was authorized, breaks the protocol.                   *)
Handled(f) ==
  CASE f[1] = "ready" ->
         [sup EXCEPT !.boot = IF @ = "pending" THEN "ready" ELSE @]
    [] f[1] = "reply" /\ f[2] \in sup.pending ->
         Answered(Settled(f[2]), f[2], f[3])
    [] f[1] = "direct-exit" /\ sup.authorized /\ ~sup.directExit ->
         FinishScope([sup EXCEPT !.directExit = TRUE], "normal")
    [] OTHER -> FinishScope(RejectBoot(sup), "provider-failed")

Receive ==
  /\ toSup # <<>> /\ sup.fin # "done" /\ owner
  /\ sup' = Handled(Head(toSup))
  /\ toSup' = Tail(toSup)
  /\ UNCHANGED <<helper, processes, owner, told>>

(* No answer in time, or the channel broke.  bind and start have a         *)
(* deadline of their own, the others that of closing.                      *)
RequestFails ==
  \E t \in sup.pending :
    /\ t \in {"bind", "start"} \/ sup.late \/ HelperGone
    /\ sup.fin # "done"
    /\ Steps(Rejected(Settled(t), t))

(* child.once('close').                                                    *)
HelperCloses ==
  /\ HelperGone /\ ~sup.closed /\ sup.fin # "done"
  /\ LET s == [sup EXCEPT !.closed = TRUE, !.connected = FALSE,
                          !.clean = helper.state = "exited"]
     IN Steps(IF Finishing(s) THEN s
                ELSE FinishScope(RejectBoot(s), "owner-lost"))

ClosingDeadline ==
  /\ Finishing(sup) /\ sup.fin # "done" /\ ~sup.late
  /\ Steps([sup EXCEPT !.late = TRUE])

ForceSettledWell == sup.forced = "ok" \/ ~sup.backend

------------------------------------------------------------------------------
(* The body of finish, one action per await.                               *)
FinishStarts ==
  /\ sup.fin = "init" /\ sup.init \in {"ready", "failed"}
  /\ LET forcing == ForceOnce([sup EXCEPT !.fin = "force"]) IN
     Steps(
       IF sup.entered # "normal" THEN forcing
       ELSE IF ~(sup.identity /\ sup.authorized /\ sup.directExit)
               \/ ~CanAsk(sup)
       THEN Catch(sup)
       ELSE Ask([sup EXCEPT !.fin = "inspect"], "inspect"))

ForceSettled == sup.forced \in {"ok", "failed"} \/ ~sup.backend

(* The await of forceOnce in the body, and the one in its catch.           *)
AfterForce ==
  /\ ForceSettled
  /\ \/ /\ sup.fin = "force"
        /\ Steps(IF sup.forced = "failed" THEN Catch(sup)
                   ELSE [sup EXCEPT !.fin = "close"])
     \/ /\ sup.fin = "caught"
        /\ Steps([sup EXCEPT !.fin = "close2"])

(* waitClose: there is nothing to wait for without a helper process.       *)
Closed == sup.closed \/ helper.state = "none"

(* The result of backend.empty(true), where there is a back end.           *)
Looked(s) ==
  IF s.backend
  THEN [s EXCEPT !.gone = TRUE, !.fin = "dispose",
                 !.empty = IF s.proven THEN "yes" ELSE "no"]
  ELSE [s EXCEPT !.fin = "dispose"]

AfterClose ==
  \/ /\ sup.fin = "close" /\ Closed
     /\ LET left == IF sup.clean THEN sup ELSE Worse(sup, "owner-lost")
            s == Looked(left)
        IN Steps(IF s.empty = "yes" THEN s ELSE Worse(s, "provider-failed"))
  \/ /\ sup.fin = "close" /\ ~Closed /\ sup.late
     /\ Steps(Catch(sup))
  \/ /\ sup.fin = "close2" /\ Closed
     /\ Steps(Looked(sup))
  \/ /\ sup.fin = "close2" /\ ~Closed /\ sup.late
     /\ Steps([sup EXCEPT !.fin = "dispose", !.empty = "unknown"])

(* backend.dispose() kills a helper that was not seen to close.            *)
Dispose ==
  /\ sup.fin = "dispose" /\ owner
  /\ \/ sup' = [sup EXCEPT !.fin = "settle", !.fd = FALSE]
     \/ sup' = [sup EXCEPT !.fin = "settle", !.fd = FALSE,
                           !.final = "provider-failed", !.empty = "unknown"]
  /\ helper' = IF sup.fd /\ ~sup.gone /\ HelperLives
               THEN [helper EXCEPT !.state = "killed"] ELSE helper
  /\ UNCHANGED <<toSup, processes, owner, told>>

(* The completion: closed only of a natural end proved empty.              *)
Report(s) ==
  IF s.final = "normal" /\ s.identity /\ s.empty = "yes" THEN "closed"
  ELSE IF s.empty = "yes" THEN "empty" ELSE "unknown"
Complete ==
  /\ sup.fin = "settle"
  /\ Steps([sup EXCEPT !.fin = "done", !.completion = Report(sup),
                         !.pending = {}, !.connected = FALSE])

------------------------------------------------------------------------------
(* The helper.  Its own steps leave the supervisor's state alone, except   *)
(* for taking a frame of the queue.                                        *)
aside == <<sup, owner, told>>

(* Whether it can still be talked to, and the sending of a frame.          *)
Connected == sup.connected /\ owner
Says(h, f) ==
  IF Connected THEN toSup' = Append(toSup, f) /\ helper' = h
  ELSE UNCHANGED toSup /\ helper' = [h EXCEPT !.abandon = TRUE]

(* createLinuxReaper may fail; then it says that it is ready.              *)
HelperBoots ==
  /\ helper.state = "boots"
  /\ \/ Says([helper EXCEPT !.state = "runs"], <<"ready">>)
     \/ helper' = [helper EXCEPT !.state = "failed"] /\ UNCHANGED toSup
  /\ UNCHANGED <<processes, aside>>

Runs == helper.state = "runs"
Stopping == helper.abandon \/ helper.op = "leave"

(* reaper.empty(): no process is left to wait for.                         *)
NoProcess == root # "runs" /\ kids = 0
ReaperEmpty == (~helper.started \/ helper.exited) /\ NoProcess

Reply(t, empty) == <<"reply", t, empty>>

(* receive(): the next request, while no earlier one is being handled.     *)
HelperReceives ==
  /\ Runs /\ helper.op = "none" /\ sup.out # <<>>
  /\ sup' = [sup EXCEPT !.out = Tail(@)]
  /\ LET t == Head(sup.out)
         abandons == /\ helper' = [helper EXCEPT !.abandon = TRUE]
                     /\ UNCHANGED <<toSup, root>>
     IN
     \/ Stopping /\ UNCHANGED <<helper, toSup, root>>
     \/ /\ ~Stopping /\ t = "bind" /\ ~helper.bound /\ ~helper.started
        /\ Says([helper EXCEPT !.bound = TRUE], Reply(t, TRUE))
        /\ UNCHANGED root
     \/ /\ ~Stopping /\ t = "start" /\ helper.bound /\ ~helper.started
        /\ Says([helper EXCEPT !.started = TRUE], Reply(t, TRUE))
        /\ root' \in {"runs", "dead"}
     \/ /\ ~Stopping /\ t = "inspect"
        /\ \/ Says(helper, Reply(t, ReaperEmpty)) /\ UNCHANGED root
           \/ abandons
     \/ /\ ~Stopping /\ t = "stop"
        /\ helper' = [helper EXCEPT !.op = "stop"]
        /\ UNCHANGED <<toSup, root>>
     \/ /\ ~Stopping /\ t = "finish" /\ (helper.exited \/ ~helper.started)
        /\ Says([helper EXCEPT !.op = "leave"], Reply(t, TRUE))
        /\ UNCHANGED root
     \/ /\ ~Stopping
        /\ \/ t = "bind" /\ (helper.bound \/ helper.started)
           \/ t = "start" /\ (~helper.bound \/ helper.started)
           \/ t = "finish" /\ helper.started /\ ~helper.exited
        /\ abandons
  /\ UNCHANGED <<kids, owner, told>>

(* The command's close event, then its exit is sent once the output is     *)
(* flushed.  Descendants that hold its output may delay the event.         *)
CommandCloses ==
  /\ Runs /\ helper.started /\ root = "dead" /\ ~helper.exited
  /\ helper' = [helper EXCEPT !.exited = TRUE, !.drain = TRUE]
  /\ UNCHANGED <<toSup, processes, aside>>

OutputDrained ==
  /\ Runs /\ helper.drain
  /\ \/ Says([helper EXCEPT !.drain = FALSE], <<"direct-exit">>)
     \/ /\ helper' = [helper EXCEPT !.drain = FALSE, !.abandon = TRUE]
        /\ UNCHANGED toSup
  /\ UNCHANGED <<processes, aside>>

(* A round of reaper.stop(): the command and some of its descendants are   *)
(* killed, those that are the helper's own children by now.                *)
ReaperKills ==
  /\ Runs /\ (helper.op = "stop" \/ helper.abandon) /\ ~NoProcess
  /\ root' = IF root = "runs" THEN "dead" ELSE root
  /\ kids' \in IF root = "runs" THEN 0..kids ELSE 0..(kids - 1)
  /\ UNCHANGED <<toSup, helper, aside>>

(* stop is answered when nothing is left or its time is over; it may fail. *)
StopEnds ==
  /\ Runs /\ helper.op = "stop"
  /\ \/ Says([helper EXCEPT !.op = "none"], Reply("stop", ReaperEmpty))
     \/ /\ helper' = [helper EXCEPT !.op = "none", !.abandon = TRUE]
        /\ UNCHANGED toSup
  /\ UNCHANGED <<processes, aside>>

(* abandon(): on SIGTERM, on losing the channel, after a failure.          *)
Abandon ==
  /\ Runs /\ ~Stopping /\ (sup.sigterm \/ ~Connected)
  /\ helper' = [helper EXCEPT !.abandon = TRUE]
  /\ UNCHANGED <<toSup, processes, aside>>

(* The exits: 0 after a finish, 125 after an abandon, whose cleaning may   *)
(* run out of time.                                                        *)
HelperExits ==
  /\ Runs
  /\ \/ /\ helper.op = "leave"
        /\ helper' = [helper EXCEPT !.state = "exited"]
     \/ /\ helper.abandon
        /\ helper' = [helper EXCEPT !.state = "failed"]
  /\ UNCHANGED <<toSup, processes, aside>>

(* It is killed, or terminated before it handles SIGTERM.                  *)
HelperDies ==
  /\ HelperLives
  /\ helper' = [helper EXCEPT !.state = "killed"]
  /\ UNCHANGED <<toSup, processes, aside>>

------------------------------------------------------------------------------
(* The processes of the command and the death of the calling process.      *)
Fork ==
  /\ root = "runs" \/ kids > 0
  /\ kids < MaxKids
  /\ kids' = kids + 1
  /\ UNCHANGED <<sup, toSup, helper, root, owner, told>>

ProcessEnds ==
  /\ \/ root = "runs" /\ root' = "dead" /\ UNCHANGED kids
     \/ kids > 0 /\ kids' = kids - 1 /\ UNCHANGED root
  /\ UNCHANGED <<sup, toSup, helper, owner, told>>

OwnerDies ==
  /\ owner
  /\ owner' = FALSE
  /\ UNCHANGED <<sup, toSup, helper, processes, told>>

SupervisorSteps ==
  \/ CreateBackend \/ SpawnHelper \/ Attach \/ Booted \/ Receive
  \/ RequestFails \/ HelperCloses \/ ClosingDeadline
  \/ FinishStarts \/ AfterForce \/ AfterClose \/ Dispose \/ Complete
HelperSteps ==
  \/ HelperBoots \/ HelperReceives \/ CommandCloses \/ OutputDrained
  \/ ReaperKills \/ StopEnds \/ Abandon \/ HelperExits
ScopeCaller == Bind \/ Authorize \/ Terminate \/ OutputThrows
Environment == StartupTimeout \/ HelperDies \/ Fork \/ ProcessEnds \/ OwnerDies

ScopeNext == SupervisorSteps \/ HelperSteps \/ ScopeCaller \/ Environment

ScopeSpec == ScopeInit /\ [][ScopeNext]_scopeVars

(* The event loops of both processes run, and the timers of closing do.    *)
ScopeFairness ==
  /\ WF_scopeVars(CreateBackend) /\ WF_scopeVars(SpawnHelper)
  /\ WF_scopeVars(Attach) /\ WF_scopeVars(Booted)
  /\ WF_scopeVars(Receive) /\ WF_scopeVars(RequestFails)
  /\ WF_scopeVars(HelperCloses) /\ WF_scopeVars(ClosingDeadline)
  /\ WF_scopeVars(FinishStarts) /\ WF_scopeVars(AfterForce)
  /\ WF_scopeVars(AfterClose) /\ WF_scopeVars(Dispose)
  /\ WF_scopeVars(Complete) /\ WF_scopeVars(HelperBoots)
  /\ WF_scopeVars(HelperReceives) /\ WF_scopeVars(OutputDrained)
  /\ WF_scopeVars(StopEnds) /\ WF_scopeVars(Abandon)
  /\ WF_scopeVars(HelperExits)
FairScopeSpec == ScopeSpec /\ ScopeFairness

------------------------------------------------------------------------------
ScopeTypeOK ==
  /\ sup \in Supervisor
  /\ helper \in Helper
  /\ toSup \in Seq(Frames)
  /\ root \in {"none", "runs", "dead"} /\ kids \in 0..MaxKids
  /\ owner \in BOOLEAN /\ told \in BOOLEAN

(* The scope keeps its promise: the command starts only between its        *)
(* authorization and the completion, the completion says closed only of a  *)
(* scope that was not told to stop, and empty only when nothing is left.   *)
Promised == INSTANCE ScopePromise WITH
  authorized <- sup.authorized, stopped <- told,
  command <- IF root = "none" THEN "none"
             ELSE IF NoProcess THEN "gone" ELSE "alive",
  completion <- sup.completion
PromiseKept == Promised!Spec

(* Whatever starts the closing of the scope, it is completed, unless the   *)
(* calling process dies; and no helper outlives its scope: after the       *)
(* completion, or after the death of the calling process, it ends.         *)
ScopeEnds ==
  /\ sup.fin = "init" ~> sup.fin = "done" \/ ~owner
  /\ (sup.fin = "done" \/ ~owner) ~> ~HelperLives
==============================================================================
