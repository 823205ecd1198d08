---------------------------- MODULE CallbackProofs ----------------------------
(***************************************************************************)
(* Proofs about the components that are driven by callbacks: a running     *)
(* command, the peer dial scheduler and an owned process scope.            *)
(*                                                                         *)
(* A command, direct or owned, in any order of its events, timers and      *)
(* answers: what it reports of its processes is true and its start gate    *)
(* never opens late.  A scheduler, for any peers, dial states and number   *)
(* of retries: whom it takes for connected is, and no connection it        *)
(* dialled is forgotten.  A scope, for any number of processes: it         *)
(* implements ScopePromise.                                                *)
(***************************************************************************)
EXTENDS RunningCommand, PeerDialScheduler, OwnedScope, SequenceTheorems, TLAPS

------------------------------------------------------------------------------
(* The command.                                                            *)

(* What is known of a command's state s: a request to stop leaves a reason,*)
(* an open gate an identity; what has closed has exited; who is looked for *)
(* was spawned; only a scope completes, and only a child can be killed.    *)
Reasoned(s) ==
  /\ s.told => s.reason # "none"
  /\ s.ready = "resolved" => s.identity
  /\ s.closed => s.exited
  /\ s.exited => s.at # "new"
  /\ s.identity => s.acquire = "done"
  /\ s.acquire # "no" => s.at = "spawned"
  /\ s.acquire = "binds" => Owned
  /\ completion # "none" => Owned /\ s.at # "new"
  /\ child # "none" \/ s.sigkill => ~Owned /\ s.at = "spawned"

(* Owned: what the closure says of the scope, and what is reported without *)
(* one.                                                                    *)
ScopeTold(s) ==
  /\ s.closure # "none" => s.closed
  /\ s.closure = "unknown" => s.reason = "termination-failure"
  /\ s.closure = "closed" => completion = "closed"
  /\ s.finished /\ s.at # "new" /\ s.closure = "none" =>
       s.reason = "termination-failure"

(* Direct: a command is finished before its process has exited only after  *)
(* a failure, or with a reason and without an identity.                    *)
Excused(s) == s.reason \in Failures \/ (~s.identity /\ s.reason # "none")
ChildTold(s) ==
  /\ s.exited => child = "dead"
  /\ s.reaping => ~s.identity /\ s.acquire = "done" /\ s.reason # "none"
  /\ s.finished /\ s.at = "spawned" => s.exited \/ Excused(s)

Told(s) ==
  /\ s \in Command /\ s.mode = c.mode /\ Reasoned(s)
  /\ IF Owned THEN ScopeTold(s) ELSE ChildTold(s)

(* What has closed and is not finished waits for its termination to end.   *)
Awaits(s) == s.closed => s.finished \/ Pending(s)

Good(s) == Told(s) /\ Awaits(s)

ScopeClosed == completion = "closed" => scopeCommand = "gone"

(* The pid of a process that was checked has not passed to another one.    *)
Checked == ~stray /\ (prov.checked => pid # "stranger")

IInv == TypeOK /\ Good(c) /\ ScopeClosed /\ Checked

------------------------------------------------------------------------------
(* What the functions of the code do to a command's state.                 *)

USE DEF Owned

(* What a function of the code leaves alone of the command.                *)
Alike(s, f) ==
  /\ f.mode = s.mode /\ f.at = s.at /\ f.exited = s.exited
  /\ f.closed = s.closed /\ f.identity = s.identity
  /\ f.acquire = s.acquire /\ f.closure = s.closure

LEMMA FinishEffect ==
  ASSUME NEW s \in Command
  PROVE  /\ Finish(s) \in Command /\ Alike(s, Finish(s))
         /\ Finish(s).finished
         /\ s.finished => Finish(s) = s
         /\ Finish(s).term = s.term /\ Finish(s).told = s.told
         /\ Finish(s).sigkill = s.sigkill
         /\ Finish(s).ready = "resolved" => s.ready = "resolved"
         /\ ~s.finished => ~Finish(s).reaping
         /\ Finish(s).reason =
              IF ~s.finished /\ Owned /\ s.at # "new" /\ s.closure = "none"
              THEN "termination-failure" ELSE s.reason
<1>1. CASE s.finished
  BY <1>1 DEF Finish, Alike
<1>2. CASE ~s.finished
  <2> DEFINE reason == IF Owned /\ s.at # "new" /\ s.closure = "none"
                       THEN "termination-failure" ELSE s.reason
             known == Resolve(s.known, IF s.identity THEN "known" ELSE "null")
             ready == Resolve(s.ready, "rejected")
  <2>1. Finish(s) =
          [s EXCEPT !.finished = TRUE, !.reason = reason, !.known = known,
                    !.ready = ready, !.reaping = FALSE, !.streams = FALSE]
    BY <1>2 DEF Finish
  <2>2. /\ reason \in {"none"} \cup Requested \cup Failures
        /\ known \in {"pending", "null", "known"}
        /\ ready \in {"pending", "resolved", "rejected"}
        /\ ready = "resolved" => s.ready = "resolved"
    BY DEF Command, Resolve, Failures
  <2> HIDE DEF reason, known, ready
  <2>3. Finish(s) \in Command
    <3> DEFINE a1 == [s EXCEPT !.finished = TRUE]
               a2 == [a1 EXCEPT !.reason = reason]
               a3 == [a2 EXCEPT !.known = known]
               a4 == [a3 EXCEPT !.ready = ready]
               a5 == [a4 EXCEPT !.reaping = FALSE]
               a6 == [a5 EXCEPT !.streams = FALSE]
    <3>0. Finish(s) = a6
      BY <2>1
    <3>1. a1 \in Command
      BY <2>2 DEF Command
    <3> HIDE DEF a1
    <3>2. a2 \in Command
      BY <2>2, <3>1 DEF Command
    <3> HIDE DEF a2
    <3>3. a3 \in Command
      BY <2>2, <3>2 DEF Command
    <3> HIDE DEF a3
    <3>4. a4 \in Command
      BY <2>2, <3>3 DEF Command
    <3> HIDE DEF a4
    <3>5. a5 \in Command
      BY <2>2, <3>4 DEF Command
    <3> HIDE DEF a5
    <3>6. a6 \in Command
      BY <2>2, <3>5 DEF Command
    <3> HIDE DEF a6
    <3> QED BY <3>0, <3>6
  <2>4. /\ Finish(s).reason = reason /\ Finish(s).ready = ready
        /\ Finish(s).finished /\ ~Finish(s).reaping
        /\ Finish(s).term = s.term /\ Finish(s).told = s.told
        /\ Finish(s).sigkill = s.sigkill /\ Alike(s, Finish(s))
    BY <2>1 DEF Command, Alike
  <2> QED BY <1>2, <2>2, <2>3, <2>4 DEF reason
<1> QED BY <1>1, <1>2

LEMMA RequestEffect ==
  ASSUME NEW s \in Command, NEW r \in Requested
  PROVE  /\ RequestTermination(s, r) \in Command
         /\ Alike(s, RequestTermination(s, r))
         /\ RequestTermination(s, r).finished = s.finished
         /\ RequestTermination(s, r).ready = s.ready
         /\ RequestTermination(s, r).reaping = s.reaping
         /\ RequestTermination(s, r).sigkill = s.sigkill
         /\ \/ RequestTermination(s, r) = s
            \/ /\ s.term = "none" /\ ~s.finished /\ (s.exited => Owned)
               /\ RequestTermination(s, r).reason = r
               /\ Pending(RequestTermination(s, r))
<1>1. CASE s.term # "none" \/ s.finished \/ (s.exited /\ ~Owned)
  BY <1>1 DEF RequestTermination, Alike
<1>2. CASE ~(s.term # "none" \/ s.finished \/ (s.exited /\ ~Owned))
  <2> DEFINE term == IF Owned THEN "scope" ELSE "identity"
             requested == s.told \/ (Owned /\ completion = "none")
  <2>1. RequestTermination(s, r) =
          [s EXCEPT !.reason = r, !.term = term, !.told = requested]
    BY <1>2 DEF RequestTermination
  <2>2. /\ term \in {"none", "identity", "provider", "scope", "exit", "done"}
        /\ term \in {"scope", "identity"} /\ requested \in BOOLEAN
        /\ r \in {"none"} \cup Requested \cup Failures
    BY DEF Command
  <2> HIDE DEF term, requested
  <2>3. RequestTermination(s, r) \in Command
    <3> DEFINE a1 == [s EXCEPT !.reason = r]
               a2 == [a1 EXCEPT !.term = term]
               a3 == [a2 EXCEPT !.told = requested]
    <3>0. RequestTermination(s, r) = a3
      BY <2>1
    <3>1. a1 \in Command
      BY <2>2 DEF Command
    <3> HIDE DEF a1
    <3>2. a2 \in Command
      BY <2>2, <3>1 DEF Command
    <3> HIDE DEF a2
    <3>3. a3 \in Command
      BY <2>2, <3>2 DEF Command
    <3> HIDE DEF a3
    <3> QED BY <3>0, <3>3
  <2> QED BY <1>2, <2>1, <2>2, <2>3 DEF Command, Alike, Pending
<1> QED BY <1>1, <1>2

LEMMA CleanupEffect ==
  ASSUME NEW s \in Command
  PROVE  /\ Cleanup(s) \in Command /\ Alike(s, Cleanup(s))
         /\ Cleanup(s).finished = s.finished /\ Cleanup(s).reason = s.reason
         /\ Cleanup(s).term = s.term /\ Cleanup(s).told = s.told
         /\ Cleanup(s).ready = s.ready /\ Cleanup(s).reaping = s.reaping
         /\ Cleanup(s).sigkill => s.sigkill \/ (s.at = "spawned" /\ ~Owned)
<1>1. CASE Owned \/ s.at # "spawned" \/ s.exited \/ s.cleaned
  BY <1>1 DEF Cleanup, Alike
<1>2. CASE ~(Owned \/ s.at # "spawned" \/ s.exited \/ s.cleaned)
  <2>1. Cleanup(s) = [s EXCEPT !.cleaned = TRUE, !.sigkill = TRUE]
    BY <1>2 DEF Cleanup
  <2> QED BY <1>2, <2>1 DEF Command, Alike
<1> QED BY <1>1, <1>2

LEMMA FailEffect ==
  ASSUME NEW s \in Command
  PROVE  LET f == FailTermination(s) IN
         /\ f \in Command /\ Alike(s, f)
         /\ f.finished = s.finished /\ f.reason = "termination-failure"
         /\ f.term = s.term /\ f.told = s.told
         /\ f.ready = s.ready /\ f.reaping = s.reaping
         /\ f.sigkill => s.sigkill \/ (s.at = "spawned" /\ ~Owned)
<1> DEFINE failed == [s EXCEPT !.reason = "termination-failure"]
<1>1. /\ failed \in Command /\ Alike(s, failed)
      /\ failed.finished = s.finished /\ failed.reason = "termination-failure"
      /\ failed.term = s.term /\ failed.told = s.told
      /\ failed.ready = s.ready /\ failed.reaping = s.reaping
      /\ failed.sigkill = s.sigkill
  BY DEF Command, Failures, Alike
<1> HIDE DEF failed
<1>2. FailTermination(s) = Cleanup(failed)
  BY DEF FailTermination, failed
<1> QED BY <1>1, <1>2, CleanupEffect DEF Alike

LEMMA KnownEffect ==
  ASSUME NEW s \in Command, NEW known \in {"pending", "null", "known"},
         NEW f, f = [s EXCEPT !.known = known]
  PROVE  /\ f \in Command /\ Alike(s, f) /\ f.reason = s.reason
         /\ f.finished = s.finished /\ f.term = s.term
         /\ f.told = s.told /\ f.ready = s.ready
         /\ f.reaping = s.reaping /\ f.sigkill = s.sigkill
BY DEF Command, Alike

Placed(s, at, acquire) == [s EXCEPT !.at = at, !.acquire = acquire]

LEMMA PlacedEffect ==
  ASSUME NEW s \in Command, NEW at \in {"new", "started", "spawned"},
         NEW acquire \in {"no", "polls", "binds", "done"}
  PROVE  \A f : f = Placed(s, at, acquire) =>
         /\ f \in Command
         /\ f.mode = s.mode /\ f.at = at /\ f.exited = s.exited
         /\ f.closed = s.closed /\ f.identity = s.identity
         /\ f.acquire = acquire /\ f.closure = s.closure
         /\ f.reason = s.reason /\ f.finished = s.finished
         /\ f.term = s.term /\ f.told = s.told /\ f.ready = s.ready
         /\ f.reaping = s.reaping /\ f.sigkill = s.sigkill
<1> DEFINE a == [s EXCEPT !.at = at]
           f == [a EXCEPT !.acquire = acquire]
<1>1. Placed(s, at, acquire) = f
  BY DEF Placed, Command
<1>2. /\ a \in Command /\ a.at = at
      /\ a.mode = s.mode /\ a.exited = s.exited
      /\ a.closed = s.closed /\ a.identity = s.identity
      /\ a.closure = s.closure
      /\ a.reason = s.reason /\ a.finished = s.finished
      /\ a.term = s.term /\ a.told = s.told /\ a.ready = s.ready
      /\ a.reaping = s.reaping /\ a.sigkill = s.sigkill
  BY DEF Command
<1> HIDE DEF a
<1>3. /\ f \in Command /\ f.acquire = acquire
      /\ f.mode = a.mode /\ f.at = a.at /\ f.exited = a.exited
      /\ f.closed = a.closed /\ f.identity = a.identity
      /\ f.closure = a.closure
      /\ f.reason = a.reason /\ f.finished = a.finished
      /\ f.term = a.term /\ f.told = a.told /\ f.ready = a.ready
      /\ f.reaping = a.reaping /\ f.sigkill = a.sigkill
  BY <1>2 DEF Command
<1> HIDE DEF f
<1> QED BY <1>1, <1>2, <1>3

LEMMA ExitedEffect ==
  ASSUME NEW s \in Command
  PROVE  /\ Exited(s) \in Command
         /\ Exited(s).exited /\ ~Exited(s).reaping
         /\ Exited(s).mode = s.mode /\ Exited(s).at = s.at
         /\ Exited(s).closed = s.closed /\ Exited(s).identity = s.identity
         /\ Exited(s).acquire = s.acquire /\ Exited(s).closure = s.closure
         /\ Exited(s).reason = s.reason /\ Exited(s).term = s.term
         /\ Exited(s).told = s.told /\ Exited(s).ready = s.ready
         /\ Exited(s).finished = s.finished /\ Exited(s).sigkill = s.sigkill
         /\ Exited(s).known = s.known
BY DEF Exited, Command

------------------------------------------------------------------------------
(* They keep what is known of it.                                          *)

(* finish() may be called when there is something to report.               *)
LEMMA FinishGood ==
  ASSUME NEW s, Told(s),
         ~Owned /\ s.at = "spawned" => s.exited \/ Excused(s)
  PROVE  Good(Finish(s)) /\ Finish(s).finished
<1> DEFINE f == Finish(s)
<1>1. s \in Command
  BY DEF Told
<1>2. /\ f \in Command /\ Alike(s, f) /\ f.finished
      /\ s.finished => f = s
      /\ f.told = s.told /\ f.sigkill = s.sigkill
      /\ f.ready = "resolved" => s.ready = "resolved"
      /\ ~s.finished => ~f.reaping
      /\ f.reason =
           IF ~s.finished /\ Owned /\ s.at # "new" /\ s.closure = "none"
           THEN "termination-failure" ELSE s.reason
  BY <1>1, FinishEffect
<1> HIDE DEF f
<1>3. CASE s.finished
  BY <1>2, <1>3 DEF Good, Awaits, f
<1>4. CASE ~s.finished /\ Owned
  <2>1. Reasoned(f) /\ ScopeTold(f)
    BY <1>2, <1>4 DEF Told, Reasoned, ScopeTold, Alike
  <2> QED BY <1>2, <1>4, <2>1 DEF Told, Good, Awaits, Alike, f
<1>5. CASE ~s.finished /\ ~Owned
  <2>1. Reasoned(f) /\ ChildTold(f)
    BY <1>2, <1>5 DEF Told, Reasoned, ChildTold, Alike, Excused
  <2> QED BY <1>2, <1>5, <2>1 DEF Told, Good, Awaits, Alike, f
<1> QED BY <1>3, <1>4, <1>5

LEMMA RequestGood ==
  ASSUME NEW s, Good(s), NEW r \in Requested
  PROVE  Good(RequestTermination(s, r))
<1> DEFINE f == RequestTermination(s, r)
<1>1. s \in Command /\ Reasoned(s) /\ Awaits(s) /\ s.mode = c.mode
  BY DEF Good, Told
<1>2. /\ f \in Command /\ Alike(s, f) /\ f.finished = s.finished
      /\ f.ready = s.ready /\ f.reaping = s.reaping /\ f.sigkill = s.sigkill
      /\ \/ f = s
         \/ /\ s.term = "none" /\ ~s.finished /\ (s.exited => Owned)
            /\ f.reason = r /\ Pending(f)
  BY <1>1, RequestEffect
<1> HIDE DEF f
<1>3. CASE f = s
  BY <1>3 DEF f
<1>4. CASE f # s
  <2>1. /\ ~s.closed /\ r # "none" /\ ~f.finished /\ f.reason = r /\ Pending(f)
    BY <1>1, <1>2, <1>4 DEF Awaits, Pending, Requested
  <2>2. Reasoned(f) /\ Awaits(f)
    BY <1>1, <1>2, <2>1 DEF Reasoned, Awaits, Alike
  <2>3. CASE Owned
    <3>1. ScopeTold(f)
      BY <1>2, <2>1, <2>3 DEF Good, Told, ScopeTold, Alike
    <3> QED BY <1>1, <1>2, <2>2, <2>3, <3>1 DEF Good, Told, Alike, f
  <2>4. CASE ~Owned
    <3>1. ChildTold(f)
      BY <1>2, <2>1, <2>4 DEF Good, Told, ChildTold, Alike
    <3> QED BY <1>1, <1>2, <2>2, <2>4, <3>1 DEF Good, Told, Alike, f
  <2> QED BY <2>3, <2>4
<1> QED BY <1>3, <1>4

(* A failed termination, and the clean-up after any failure.               *)
LEMMA CleanupGood ==
  ASSUME NEW s, Good(s) PROVE Good(Cleanup(s))
<1> DEFINE f == Cleanup(s)
<1>1. /\ s \in Command /\ f \in Command /\ Alike(s, f)
      /\ f.finished = s.finished /\ f.reason = s.reason /\ f.term = s.term
      /\ f.told = s.told /\ f.ready = s.ready /\ f.reaping = s.reaping
      /\ f.sigkill => s.sigkill \/ (s.at = "spawned" /\ ~Owned)
  BY CleanupEffect DEF Good, Told
<1> HIDE DEF f
<1>2. Reasoned(f) /\ Awaits(f) /\ (ScopeTold(s) => ScopeTold(f))
      /\ (ChildTold(s) => ChildTold(f))
  BY <1>1 DEF Good, Told, Reasoned, Awaits, Pending, ScopeTold, ChildTold,
              Excused, Alike
<1> QED BY <1>1, <1>2 DEF Good, Told, Alike, f

LEMMA FailGood ==
  ASSUME NEW s, Good(s)
  PROVE  /\ Good(FailTermination(s))
         /\ FailTermination(s).reason = "termination-failure"
<1> DEFINE f == FailTermination(s)
<1>1. /\ s \in Command /\ f \in Command /\ Alike(s, f)
      /\ f.finished = s.finished /\ f.reason = "termination-failure"
      /\ f.term = s.term /\ f.told = s.told
      /\ f.ready = s.ready /\ f.reaping = s.reaping
      /\ f.sigkill => s.sigkill \/ (s.at = "spawned" /\ ~Owned)
  BY FailEffect DEF Good, Told
<1> HIDE DEF f
<1>2. Reasoned(f) /\ Awaits(f) /\ (ScopeTold(s) => ScopeTold(f))
      /\ (ChildTold(s) => ChildTold(f))
  BY <1>1 DEF Good, Told, Reasoned, Awaits, Pending, ScopeTold, ChildTold,
              Excused, Failures, Alike
<1> QED BY <1>1, <1>2 DEF Good, Told, Alike, f

LEMMA EndedGood ==
  ASSUME NEW s, Told(s) PROVE Good(Ended(s))
<1> DEFINE ended == [s EXCEPT !.term = "done"]
<1>1. s \in Command
  BY DEF Told
<1>2. /\ ended \in Command /\ Alike(s, ended)
      /\ ended.finished = s.finished /\ ended.reason = s.reason
      /\ ended.told = s.told /\ ended.ready = s.ready
      /\ ended.reaping = s.reaping /\ ended.sigkill = s.sigkill
  BY <1>1 DEF Command, Alike
<1> HIDE DEF ended
<1>3. Ended(s) = IF s.closed THEN Finish(ended) ELSE ended
  BY DEF Ended, ended
<1>4. Reasoned(ended) /\ (ScopeTold(s) => ScopeTold(ended))
      /\ (ChildTold(s) => ChildTold(ended))
  BY <1>2 DEF Told, Reasoned, ScopeTold, ChildTold, Excused, Alike
<1>5. Told(ended)
  BY <1>2, <1>4 DEF Told, Alike
<1>6. CASE s.closed
  <2>1. ended.exited
    BY <1>2, <1>6 DEF Told, Reasoned, Alike
  <2> QED BY <1>3, <1>5, <1>6, <2>1, FinishGood
<1>7. CASE ~s.closed
  BY <1>2, <1>3, <1>5, <1>7 DEF Good, Awaits, Alike
<1> QED BY <1>6, <1>7

(* Closing: of a direct command its process is dead by then.               *)
LEMMA CloseGood ==
  ASSUME NEW s \in Command, s.mode = c.mode, Reasoned(s), s.at # "new",
         IF Owned
         THEN /\ s.closure \in {"closed", "unknown"}
              /\ s.closure = "closed" => completion = "closed"
              /\ s.closure = "unknown" => s.reason = "termination-failure"
         ELSE ChildTold(s) /\ child = "dead"
  PROVE  Good(OnClose(s))
<1> DEFINE e == Exited([s EXCEPT !.closed = TRUE])
           known == Resolve(e.known, IF s.identity THEN "known" ELSE "null")
           f == [e EXCEPT !.known = known]
<1>1. [s EXCEPT !.closed = TRUE] \in Command
  BY DEF Command
<1>2. /\ e \in Command /\ e.exited /\ ~e.reaping /\ e.closed
      /\ e.mode = s.mode /\ e.at = s.at /\ e.identity = s.identity
      /\ e.acquire = s.acquire /\ e.closure = s.closure
      /\ e.reason = s.reason /\ e.told = s.told /\ e.ready = s.ready
      /\ e.sigkill = s.sigkill /\ e.term = s.term
  BY <1>1, ExitedEffect DEF Command
<1> HIDE DEF e
<1>3. known \in {"pending", "null", "known"}
  BY <1>2 DEF Resolve, Command
<1> HIDE DEF known
<1>4. /\ f \in Command /\ Alike(e, f) /\ f.reason = e.reason
      /\ f.told = e.told /\ f.ready = e.ready /\ f.reaping = e.reaping
      /\ f.sigkill = e.sigkill /\ f.term = e.term
  BY <1>2, <1>3, KnownEffect
<1>5. OnClose(s) = IF Pending(s) THEN f ELSE Finish(f)
  BY DEF OnClose, f, e, known
<1> HIDE DEF f
<1>6. f.exited /\ f.closed /\ Reasoned(f)
  BY <1>2, <1>4 DEF Reasoned, Alike
<1>7. CASE Owned
  BY <1>2, <1>4, <1>5, <1>6, <1>7, FinishGood
  DEF Told, ScopeTold, Good, Awaits, Pending, Alike
<1>8. CASE ~Owned
  <2>1. ChildTold(f)
    BY <1>2, <1>4, <1>6, <1>8 DEF ChildTold, Excused, Alike
  <2> QED BY <1>2, <1>4, <1>5, <1>6, <1>8, <2>1, FinishGood
          DEF Told, Good, Awaits, Pending, Alike
<1> QED BY <1>7, <1>8

------------------------------------------------------------------------------
(* The steps.                                                              *)

LEMMA BecomesKeeps ==
  ASSUME IInv, NEW s, Good(s), Becomes(s)
  PROVE  IInv'
<1>1. c' = s /\ UNCHANGED <<child, descends, pid, prov, stray,
                            scopeAuth, scopeCommand, completion>>
  BY DEF Becomes, system, scope
<1>2. TypeOK'
  BY <1>1 DEF IInv, TypeOK, Good, Told, Promise!Reports
<1>3. Good(c)'
  BY <1>1 DEF Good, Told, Awaits, Reasoned, ScopeTold, ChildTold, Excused,
              Pending
<1>4. ScopeClosed' /\ Checked'
  BY <1>1 DEF IInv, ScopeClosed, Checked
<1> QED BY <1>2, <1>3, <1>4 DEF IInv

LEMMA CommandFacts ==
  ASSUME IInv
  PROVE  /\ c \in Command /\ Good(c) /\ Told(c) /\ Reasoned(c) /\ Awaits(c)
         /\ IF Owned THEN ScopeTold(c) ELSE ChildTold(c)
BY DEF IInv, Good, Told

LEMMA StartStep == ASSUME IInv, Start PROVE IInv'
<1> USE CommandFacts
<1>1. CASE Becomes([c EXCEPT !.at = "started"])
  <2> DEFINE s == [c EXCEPT !.at = "started"]
  <2>1. c.at = "new" /\ ~c.finished
    BY DEF Start
  <2>2. Good(s)
    BY <2>1 DEF Command, Good, Told, Reasoned, Awaits, Pending, ScopeTold,
                ChildTold, Excused
  <2> QED BY <1>1, <2>2, BecomesKeeps
<1>2. CASE Becomes(Finish([c EXCEPT !.reason = "abort"]))
  <2> DEFINE s == [c EXCEPT !.reason = "abort"]
  <2>1. c.at = "new" /\ ~c.finished
    BY DEF Start
  <2>2. Told(s) /\ s.at # "spawned"
    BY <2>1 DEF Command, Told, Reasoned, ScopeTold, Awaits,
                ChildTold, Excused, Requested
  <2> QED BY <1>2, <2>2, FinishGood, BecomesKeeps
<1> QED BY <1>1, <1>2 DEF Start

LEMMA SpawnedStep == ASSUME IInv, Spawned PROVE IInv'
<1> DEFINE s == Placed(c, "spawned", "polls")
<1>1. c.at = "started" /\ ~c.finished
  BY DEF Spawned
<1>2. ~c.identity /\ ~c.sigkill /\ child = "none" /\ c.acquire = "no"
  BY <1>1, CommandFacts DEF Reasoned, Command, IInv, TypeOK
<1>3. c \in Command
  BY CommandFacts
<1>4. /\ s \in Command
      /\ s.mode = c.mode /\ s.at = "spawned" /\ s.exited = c.exited
      /\ s.closed = c.closed /\ s.identity = c.identity
      /\ s.acquire = "polls" /\ s.closure = c.closure /\ s.reason = c.reason
      /\ s.finished = c.finished /\ s.term = c.term /\ s.told = c.told
      /\ s.ready = c.ready /\ s.reaping = c.reaping /\ s.sigkill = c.sigkill
  BY <1>3, PlacedEffect
<1>5. c' = s \/ (Owned /\ c' = RequestTermination(s, "abort"))
  BY DEF Spawned, Placed
<1> HIDE DEF s
<1>6. Reasoned(s) /\ Awaits(s)
  BY <1>1, <1>2, <1>4, CommandFacts DEF Reasoned, Awaits, Pending
<1>7. CASE Owned
  <2>1. Good(s)
    BY <1>1, <1>3, <1>4, <1>6, <1>7, CommandFacts DEF Good, Told, ScopeTold
  <2>2. Good(RequestTermination(s, "abort"))
    BY <2>1, RequestGood DEF Requested
  <2>3. Becomes(s) \/ Becomes(RequestTermination(s, "abort"))
    BY <1>5, <1>7 DEF Spawned, Becomes
  <2> QED BY <2>1, <2>2, <2>3, BecomesKeeps
<1>8. CASE ~Owned
  <2>1. /\ c' = s /\ child' = "runs" /\ pid' = "own"
        /\ UNCHANGED <<descends, prov, stray, scopeAuth, scopeCommand,
                       completion>>
    BY <1>5, <1>8 DEF Spawned, scope
  <2>2. TypeOK'
    BY <1>4, <2>1 DEF IInv, TypeOK, Promise!Reports
  <2>3. ~c.exited /\ ~c.reaping
    BY <1>2, <1>8, CommandFacts DEF ChildTold
  <2>4. Good(c)'
    BY <1>1, <1>2, <1>3, <1>4, <1>6, <1>8, <2>1, <2>3
    DEF Good, Told, Reasoned, Awaits, Pending, ChildTold
  <2> QED BY <2>1, <2>2, <2>4 DEF IInv, ScopeClosed, Checked
<1> QED BY <1>7, <1>8

LEMMA NotSpawnedStep == ASSUME IInv, NotSpawned PROVE IInv'
<1> DEFINE none == [c EXCEPT !.known = Resolve(@, "null")]
<1>1. c.at = "started" /\ ~c.finished /\ c \in Command
  BY CommandFacts DEF NotSpawned
<1>2. Resolve(c.known, "null") \in {"pending", "null", "known"}
  BY <1>1 DEF Resolve, Command
<1>3. /\ none \in Command /\ Alike(c, none) /\ none.reason = c.reason
      /\ none.finished = c.finished /\ none.term = c.term
      /\ none.told = c.told /\ none.ready = c.ready
      /\ none.reaping = c.reaping /\ none.sigkill = c.sigkill
  BY <1>1, <1>2, KnownEffect
<1> HIDE DEF none
<1>4. CASE /\ ~Owned
           /\ Becomes(Finish([none EXCEPT !.reason = "start-failure"]))
  <2> DEFINE s == [none EXCEPT !.reason = "start-failure"]
  <2>1. /\ s \in Command /\ Alike(none, s) /\ s.reason = "start-failure"
        /\ s.finished = none.finished
        /\ s.told = none.told /\ s.ready = none.ready
        /\ s.reaping = none.reaping /\ s.sigkill = none.sigkill
    BY <1>3 DEF Command, Failures, Alike
  <2> HIDE DEF s
  <2>2. Told(s) /\ s.at # "spawned"
    BY <1>1, <1>3, <1>4, <2>1, CommandFacts
    DEF Told, Reasoned, ChildTold, Alike
  <2>3. Becomes(Finish(s))
    BY <1>4 DEF s
  <2> QED BY <2>2, <2>3, FinishGood, BecomesKeeps
<1>5. CASE /\ Owned
           /\ Becomes([RequestTermination(
                      [none EXCEPT !.ready = Resolve(@, "rejected"),
                                   !.reason = "termination-failure"],
                      "abort") EXCEPT !.at = "spawned", !.acquire = "done"])
  <2> DEFINE ready == Resolve(none.ready, "rejected")
             s == [none EXCEPT !.ready = ready,
                               !.reason = "termination-failure"]
             r == RequestTermination(s, "abort")
             f == Placed(r, "spawned", "done")
  <2>0. /\ ready \in {"pending", "resolved", "rejected"}
        /\ ready = "resolved" => none.ready = "resolved"
    BY <1>3 DEF Resolve, Command
  <2>1. Becomes(f)
    BY <1>5 DEF Placed
  <2> HIDE DEF ready
  <2>2. /\ s \in Command /\ Alike(none, s)
        /\ s.reason = "termination-failure" /\ s.ready = ready
        /\ s.finished = none.finished /\ s.told = none.told
        /\ s.sigkill = none.sigkill /\ s.term = none.term
    BY <1>3, <2>0 DEF Command, Failures, Alike
  <2> HIDE DEF s
  <2>3. Good(s)
    BY <1>1, <1>3, <1>5, <2>0, <2>2, CommandFacts
    DEF Good, Told, Reasoned, ScopeTold, Awaits, Pending, Alike
  <2>4. /\ Good(r) /\ r \in Command /\ r.at = s.at /\ r.finished = s.finished
    BY <2>2, <2>3, RequestGood, RequestEffect DEF Requested, Alike
  <2> HIDE DEF r
  <2>5. /\ f \in Command
        /\ f.mode = r.mode /\ f.at = "spawned" /\ f.exited = r.exited
        /\ f.closed = r.closed /\ f.identity = r.identity
        /\ f.acquire = "done" /\ f.closure = r.closure /\ f.reason = r.reason
        /\ f.finished = r.finished /\ f.term = r.term /\ f.told = r.told
        /\ f.ready = r.ready /\ f.sigkill = r.sigkill
    BY <2>4, PlacedEffect
  <2> HIDE DEF f
  <2>6. Good(f)
    BY <1>1, <1>3, <1>5, <2>2, <2>4, <2>5
    DEF Good, Told, Reasoned, ScopeTold, Awaits, Pending
  <2> QED BY <2>1, <2>6, BecomesKeeps
<1> QED BY <1>4, <1>5 DEF NotSpawned, none

(* The search for the identity ends without one.                           *)
LEMMA NotIdentifiedGood ==
  ASSUME NEW s, Good(s), s.at = "spawned"
  PROVE  /\ Good(NotIdentified(s)) /\ NotIdentified(s).at = "spawned"
         /\ NotIdentified(s).finished = s.finished
         /\ NotIdentified(s).exited = s.exited
         /\ NotIdentified(s).identity = s.identity
         /\ NotIdentified(s).closure = s.closure
         /\ NotIdentified(s).acquire = "done"
<1> DEFINE known == Resolve(s.known, "null")
           k == [s EXCEPT !.known = known]
           f == [k EXCEPT !.acquire = "done"]
<1>1. s \in Command
  BY DEF Good, Told
<1>2. known \in {"pending", "null", "known"}
  BY <1>1 DEF Resolve, Command
<1>3. NotIdentified(s) = f
  BY <1>1 DEF NotIdentified, Command
<1> HIDE DEF known
<1>4. /\ k \in Command /\ Alike(s, k) /\ k.reason = s.reason
      /\ k.finished = s.finished /\ k.term = s.term
      /\ k.told = s.told /\ k.ready = s.ready
      /\ k.reaping = s.reaping /\ k.sigkill = s.sigkill
  BY <1>1, <1>2, KnownEffect
<1> HIDE DEF k
<1>5. /\ f \in Command
      /\ f.mode = k.mode /\ f.at = k.at /\ f.exited = k.exited
      /\ f.closed = k.closed /\ f.identity = k.identity
      /\ f.acquire = "done" /\ f.closure = k.closure /\ f.reason = k.reason
      /\ f.finished = k.finished /\ f.term = k.term /\ f.told = k.told
      /\ f.ready = k.ready /\ f.sigkill = k.sigkill /\ f.reaping = k.reaping
  BY <1>4 DEF Command
<1> HIDE DEF f
<1>6. Reasoned(f) /\ Awaits(f) /\ (ScopeTold(s) => ScopeTold(f))
      /\ (ChildTold(s) => ChildTold(f))
  BY <1>4, <1>5 DEF Good, Told, Reasoned, ScopeTold, ChildTold, Awaits,
     Pending, Excused, Alike
<1> QED BY <1>3, <1>4, <1>5, <1>6 DEF Good, Told, Alike

LEMMA AuthorizeStartGood ==
  ASSUME NEW s, Good(s) PROVE Good(AuthorizeStart(s))
<1> DEFINE f == [s EXCEPT !.auth = "waits"]
<1>1. s \in Command
  BY DEF Good, Told
<1>2. /\ f \in Command /\ Alike(s, f) /\ f.reason = s.reason
      /\ f.finished = s.finished /\ f.term = s.term
      /\ f.told = s.told /\ f.ready = s.ready
      /\ f.reaping = s.reaping /\ f.sigkill = s.sigkill
  BY <1>1 DEF Command, Alike
<1>3. AuthorizeStart(s) \in {s, f}
  BY DEF AuthorizeStart
<1> HIDE DEF f
<1>4. Reasoned(f) /\ Awaits(f) /\ (ScopeTold(s) => ScopeTold(f))
      /\ (ChildTold(s) => ChildTold(f))
  BY <1>2 DEF Good, Told, Reasoned, ScopeTold, ChildTold, Awaits, Pending,
              Excused, Alike
<1>5. Good(f)
  BY <1>2, <1>4 DEF Good, Told, Alike
<1> QED BY <1>3, <1>5

(* The search finds the identity of a command that has not ended.          *)
LEMMA IdentifiedGood ==
  ASSUME NEW s, Good(s), s.at = "spawned", ~s.finished, s.acquire # "done",
         NEW throws \in BOOLEAN, throws => Owned
  PROVE  Good(Identified(s, throws))
<1> DEFINE promise == Resolve(s.known, "known")
           known == [s EXCEPT !.identity = TRUE, !.known = promise,
                              !.acquire = "done"]
           seen == IF throws THEN RequestTermination(known, "abort") ELSE known
           ready == Resolve(seen.ready, "resolved")
           gate == [seen EXCEPT !.ready = ready]
<1>1. s \in Command /\ s.mode = c.mode
  BY DEF Good, Told
<1>2. Identified(s, throws) =
        IF s.mode = "automatic" THEN AuthorizeStart(gate)
        ELSE IF Owned THEN gate ELSE known
  BY DEF Identified
<1>3. promise \in {"pending", "null", "known"}
  BY <1>1 DEF Resolve, Command
<1> HIDE DEF promise
<1> DEFINE a == [s EXCEPT !.identity = TRUE, !.known = promise]
<1>a. a \in Command
  BY <1>1, <1>3 DEF Command
<1>b. /\ a.identity /\ a.acquire = s.acquire
      /\ a.mode = s.mode /\ a.at = s.at /\ a.exited = s.exited
      /\ a.closed = s.closed /\ a.closure = s.closure
      /\ a.reason = s.reason /\ a.finished = s.finished
      /\ a.term = s.term /\ a.told = s.told /\ a.ready = s.ready
      /\ a.reaping = s.reaping /\ a.sigkill = s.sigkill
  BY <1>1 DEF Command
<1>c. known = [a EXCEPT !.acquire = "done"]
  OBVIOUS
<1> HIDE DEF a, known
<1>4. /\ known \in Command /\ known.identity /\ known.acquire = "done"
      /\ known.mode = s.mode /\ known.at = s.at /\ known.exited = s.exited
      /\ known.closed = s.closed /\ known.closure = s.closure
      /\ known.reason = s.reason /\ known.finished = s.finished
      /\ known.term = s.term /\ known.told = s.told /\ known.ready = s.ready
      /\ known.reaping = s.reaping /\ known.sigkill = s.sigkill
  BY <1>a, <1>b, <1>c DEF Command
<1>5. Reasoned(known) /\ Awaits(known) /\ (ScopeTold(s) => ScopeTold(known))
      /\ (ChildTold(s) => ChildTold(known))
  BY <1>4 DEF Good, Told, Reasoned, ScopeTold, ChildTold, Awaits, Pending
<1>6. Good(known)
  BY <1>1, <1>4, <1>5 DEF Good, Told
<1>7. CASE ~Owned
  BY <1>1, <1>2, <1>6, <1>7
<1>8. CASE Owned
  <2>1. /\ Good(seen) /\ seen \in Command /\ seen.identity
        /\ seen.mode = s.mode
    <3>1. "abort" \in Requested
      BY DEF Requested
    <3> QED BY <1>4, <1>6, <3>1, RequestGood, RequestEffect DEF Alike
  <2> HIDE DEF seen
  <2>2. ready \in {"pending", "resolved", "rejected"}
    BY <2>1 DEF Resolve, Command
  <2> HIDE DEF ready
  <2>3. /\ gate \in Command /\ Alike(seen, gate) /\ gate.reason = seen.reason
        /\ gate.finished = seen.finished /\ gate.term = seen.term
        /\ gate.told = seen.told
        /\ gate.reaping = seen.reaping /\ gate.sigkill = seen.sigkill
    BY <2>1, <2>2 DEF Command, Alike
  <2> HIDE DEF gate
  <2>4. Good(gate)
    BY <1>8, <2>1, <2>3 DEF Good, Told, Reasoned, ScopeTold, Awaits, Pending,
                            Alike
  <2>5. Good(AuthorizeStart(gate))
    BY <2>4, AuthorizeStartGood
  <2> QED BY <1>2, <1>8, <2>4, <2>5
<1> QED BY <1>7, <1>8

(* A new reason, and a start gate that will not open.                      *)
LEMMA ReasonGood ==
  ASSUME NEW s, Good(s), NEW reason \in {"none"} \cup Requested \cup Failures,
         reason # "none",
         \/ reason = "termination-failure"
         \/ ~s.finished /\ (Owned => s.closure # "unknown")
  PROVE  LET f == [s EXCEPT !.reason = reason] IN
         /\ Good(f) /\ f \in Command /\ Alike(s, f)
         /\ f.reason = reason /\ f.finished = s.finished
<1> DEFINE f == [s EXCEPT !.reason = reason]
<1>1. s \in Command
  BY DEF Good, Told
<1>2. /\ f \in Command /\ Alike(s, f) /\ f.reason = reason
      /\ f.finished = s.finished /\ f.term = s.term
      /\ f.told = s.told /\ f.ready = s.ready
      /\ f.reaping = s.reaping /\ f.sigkill = s.sigkill
  BY <1>1 DEF Command, Alike
<1> HIDE DEF f
<1>3. Reasoned(f) /\ Awaits(f)
  BY <1>2 DEF Good, Told, Reasoned, Awaits, Pending, Alike
<1>4. IF Owned THEN ScopeTold(f) ELSE ChildTold(f)
  BY <1>2 DEF Good, Told, ScopeTold, ChildTold, Excused, Failures, Alike
<1>5. Good(f)
  BY <1>2, <1>3, <1>4 DEF Good, Told, Alike
<1> QED BY <1>2, <1>5 DEF f

LEMMA RejectGood ==
  ASSUME NEW s, Good(s)
  PROVE  LET f == [s EXCEPT !.ready = Resolve(@, "rejected")] IN
         /\ Good(f) /\ Alike(s, f) /\ f.finished = s.finished
         /\ f.reason = s.reason
<1> DEFINE ready == Resolve(s.ready, "rejected")
           f == [s EXCEPT !.ready = ready]
<1>1. s \in Command
  BY DEF Good, Told
<1>2. /\ ready \in {"pending", "resolved", "rejected"}
      /\ ready = "resolved" => s.ready = "resolved"
  BY <1>1 DEF Resolve, Command
<1> HIDE DEF ready
<1>3. /\ f \in Command /\ Alike(s, f) /\ f.reason = s.reason
      /\ f.finished = s.finished /\ f.term = s.term
      /\ f.told = s.told /\ f.ready = ready
      /\ f.reaping = s.reaping /\ f.sigkill = s.sigkill
  BY <1>1, <1>2 DEF Command, Alike
<1> HIDE DEF f
<1>4. Reasoned(f) /\ Awaits(f) /\ (ScopeTold(s) => ScopeTold(f))
      /\ (ChildTold(s) => ChildTold(f))
  BY <1>2, <1>3 DEF Good, Told, Reasoned, ScopeTold, ChildTold, Awaits,
     Pending, Excused, Alike
<1>5. Good(f)
  BY <1>3, <1>4 DEF Good, Told, Alike
<1> QED BY <1>3, <1>5 DEF f, ready

LEMMA AcquireStep == ASSUME IInv, Acquire PROVE IInv'
<1> USE CommandFacts
<1>1. c.acquire = "polls" /\ c.at = "spawned"
  BY DEF Acquire, Reasoned
<1>2. Good(NotIdentified(c)) /\ NotIdentified(c).finished = c.finished
      /\ NotIdentified(c).exited = c.exited
      /\ NotIdentified(c).at = "spawned"
      /\ NotIdentified(c).identity = c.identity
      /\ NotIdentified(c).acquire = "done"
      /\ NotIdentified(c).closure = c.closure
  BY <1>1, NotIdentifiedGood
<1>3. CASE (c.finished \/ c.exited) /\ Becomes(NotIdentified(c))
  BY <1>2, <1>3, BecomesKeeps
<1>4. CASE /\ ~c.finished /\ ~c.exited
           /\ Becomes(IF Owned THEN [c EXCEPT !.acquire = "binds"]
                      ELSE Identified(c, FALSE))
  <2>1. CASE Owned
    <3> DEFINE f == [c EXCEPT !.acquire = "binds"]
    <3>1. /\ f \in Command /\ f.acquire = "binds"
          /\ f.mode = c.mode /\ f.at = c.at /\ f.exited = c.exited
          /\ f.closed = c.closed /\ f.closure = c.closure
          /\ f.identity = c.identity
          /\ f.reason = c.reason /\ f.finished = c.finished
          /\ f.term = c.term /\ f.told = c.told /\ f.ready = c.ready
          /\ f.reaping = c.reaping /\ f.sigkill = c.sigkill
      BY DEF Command
    <3> HIDE DEF f
    <3>2. Good(f)
      BY <1>1, <2>1, <3>1 DEF Good, Told, Reasoned, ScopeTold, Awaits, Pending
    <3>3. Becomes(f)
      BY <1>4, <2>1 DEF f
    <3> QED BY <3>2, <3>3, BecomesKeeps
  <2>2. CASE ~Owned
    <3>1. Good(Identified(c, FALSE))
      BY <1>1, <1>4, IdentifiedGood
    <3> QED BY <1>4, <2>2, <3>1, BecomesKeeps
  <2> QED BY <2>1, <2>2
<1>5. ASSUME ~c.finished, ~c.exited,
             LET s == [NotIdentified(c) EXCEPT !.reason = "start-failure"] IN
             Becomes(IF Owned
                     THEN RequestTermination(
                            [s EXCEPT !.ready = Resolve(@, "rejected")],
                            "abort")
                     ELSE [Cleanup(s) EXCEPT !.reaping = TRUE])
      PROVE  IInv'
  <2> DEFINE n == NotIdentified(c)
             s == [n EXCEPT !.reason = "start-failure"]
             g == [s EXCEPT !.ready = Resolve(@, "rejected")]
             f == [Cleanup(s) EXCEPT !.reaping = TRUE]
  <2>1. "start-failure" \in {"none"} \cup Requested \cup Failures
    BY DEF Failures
  <2>2. Owned => c.closure # "unknown"
    BY <1>1, <1>5 DEF ScopeTold, Reasoned
  <2> HIDE DEF n
  <2>3. Good(n) /\ n.finished = c.finished /\ n.at = "spawned"
        /\ n.identity = c.identity /\ n.acquire = "done"
        /\ n.closure = c.closure
    BY <1>2 DEF n
  <2>4. Good(s) /\ s \in Command /\ Alike(n, s) /\ s.finished = n.finished
        /\ s.reason = "start-failure"
    BY <1>5, <2>1, <2>2, <2>3, ReasonGood
  <2>5. CASE Owned
    <3>1. Good(g)
      BY <2>4, RejectGood
    <3>2. Good(RequestTermination(g, "abort"))
      BY <3>1, RequestGood DEF Requested
    <3>3. Becomes(RequestTermination(g, "abort"))
      BY <1>5, <2>5 DEF n
    <3> QED BY <3>2, <3>3, BecomesKeeps
  <2>6. CASE ~Owned
    <3>1. Becomes(f)
      BY <1>5, <2>6 DEF n
    <3> DEFINE k == Cleanup(s)
    <3> HIDE DEF s
    <3>2. Good(k) /\ k \in Command /\ Alike(s, k) /\ k.finished = s.finished
          /\ k.reason = s.reason
      BY <2>4, CleanupGood, CleanupEffect
    <3> HIDE DEF k
    <3>3. /\ f \in Command /\ Alike(k, f) /\ f.finished = k.finished
          /\ f.reason = k.reason /\ f.term = k.term /\ f.told = k.told
          /\ f.ready = k.ready /\ f.reaping /\ f.sigkill = k.sigkill
      BY <3>2 DEF Command, Alike, k
    <3> HIDE DEF f
    <3>4. ~f.identity /\ f.acquire = "done" /\ f.reason # "none"
      BY <1>1, <2>3, <2>4, <3>2, <3>3 DEF Alike, Reasoned
    <3>5. Good(f)
      BY <2>6, <3>2, <3>3, <3>4
      DEF Good, Told, Reasoned, ChildTold, Awaits, Pending, Excused, Alike
    <3> QED BY <3>1, <3>5, BecomesKeeps
  <2> QED BY <2>5, <2>6
<1> QED BY <1>3, <1>4, <1>5 DEF Acquire

LEMMA BindEndsStep == ASSUME IInv, BindEnds PROVE IInv'
<1> USE CommandFacts
<1>1. c.acquire = "binds" /\ c.at = "spawned"
  BY DEF BindEnds, Reasoned
<1>2. Good(NotIdentified(c))
  BY <1>1, NotIdentifiedGood
<1>3. CASE Becomes(NotIdentified(c))
  BY <1>2, <1>3, BecomesKeeps
<1>4. ASSUME ~c.finished, NEW throws \in BOOLEAN, throws => Owned,
             Becomes(Identified(c, throws))
      PROVE  IInv'
  BY <1>1, <1>4, IdentifiedGood, BecomesKeeps
<1>5. CASE Becomes(RequestTermination(
             [NotIdentified(c) EXCEPT !.ready = Resolve(@, "rejected")],
             "abort"))
  <2> DEFINE g == [NotIdentified(c) EXCEPT !.ready = Resolve(@, "rejected")]
  <2>1. Good(g)
    BY <1>2, RejectGood
  <2>2. Good(RequestTermination(g, "abort"))
    BY <2>1, RequestGood DEF Requested
  <2> QED BY <1>5, <2>2, BecomesKeeps
<1>6. Owned
  BY <1>1 DEF Reasoned
<1> QED BY <1>3, <1>4, <1>5, <1>6 DEF BindEnds

LEMMA EndsStep == ASSUME IInv, Ends PROVE IInv'
<1> USE CommandFacts
<1>1. "abort" \in Requested /\ "timeout" \in Requested
      /\ "output-overflow" \in Requested
  BY DEF Requested
<1>2. CASE \E r \in Requested : Becomes(RequestTermination(c, r))
  BY <1>2, RequestGood, BecomesKeeps
<1>3. ASSUME c.at = "spawned", ~c.finished,
             LET r == IF c.reason = "none" THEN "output-overflow"
                      ELSE c.reason
             IN  Becomes(RequestTermination([c EXCEPT !.reason = r],
                                            "output-overflow"))
      PROVE  IInv'
  <2> DEFINE r == IF c.reason = "none" THEN "output-overflow" ELSE c.reason
             s == [c EXCEPT !.reason = r]
  <2>1. Becomes(RequestTermination(s, "output-overflow"))
    BY <1>3
  <2>2. Good(s)
    <3>1. CASE c.reason = "none"
      <4>1. "output-overflow" \in {"none"} \cup Requested \cup Failures
        BY DEF Requested
      <4>2. Owned => c.closure # "unknown"
        BY <3>1 DEF ScopeTold
      <4>3. Good([c EXCEPT !.reason = "output-overflow"])
        BY <1>3, <4>1, <4>2, ReasonGood
      <4> QED BY <3>1, <4>3
    <3>2. CASE c.reason # "none"
      BY <3>2 DEF Command
    <3> QED BY <3>1, <3>2
  <2> QED BY <1>1, <2>1, <2>2, RequestGood, BecomesKeeps
<1> QED BY <1>1, <1>2, <1>3 DEF Ends

LEMMA PermitsStep == ASSUME IInv, Permits PROVE IInv'
BY CommandFacts, AuthorizeStartGood, BecomesKeeps DEF Permits

LEMMA AuthorizationStep == ASSUME IInv, Authorization PROVE IInv'
<1> USE CommandFacts
<1>1. ASSUME NEW auth \in {"asked", "failed", "granted"}
      PROVE  /\ Good([c EXCEPT !.auth = auth])
             /\ [c EXCEPT !.auth = auth] \in Command
  <2> DEFINE f == [c EXCEPT !.auth = auth]
  <2>1. /\ f \in Command /\ Alike(c, f) /\ f.reason = c.reason
        /\ f.finished = c.finished /\ f.term = c.term
        /\ f.told = c.told /\ f.ready = c.ready
        /\ f.reaping = c.reaping /\ f.sigkill = c.sigkill
    BY DEF Command, Alike
  <2> HIDE DEF f
  <2>2. Reasoned(f) /\ Awaits(f) /\ (ScopeTold(c) => ScopeTold(f))
        /\ (ChildTold(c) => ChildTold(f))
    BY <2>1 DEF Good, Told, Reasoned, ScopeTold, ChildTold, Awaits, Pending,
                Excused, Alike
  <2>3. Good(f)
    BY <2>1, <2>2 DEF Good, Told, Alike
  <2> QED BY <2>1, <2>3 DEF f
<1>2. CASE /\ c' = [c EXCEPT !.auth = "asked"] /\ scopeAuth' = TRUE
           /\ UNCHANGED <<system, prov, scopeCommand, completion, stray>>
  <2> DEFINE s == [c EXCEPT !.auth = "asked"]
  <2>1. Good(s) /\ s \in Command
    BY <1>1
  <2>2. /\ c' = s /\ scopeAuth' = TRUE
        /\ UNCHANGED <<child, descends, pid, prov, scopeCommand, completion,
                       stray>>
    BY <1>2 DEF system
  <2> HIDE DEF s
  <2>3. TypeOK'
    BY <2>1, <2>2 DEF IInv, TypeOK, Promise!Reports
  <2>4. Good(c)'
    BY <2>1, <2>2
    DEF Good, Told, Awaits, Reasoned, ScopeTold, ChildTold, Excused, Pending
  <2> QED BY <2>2, <2>3, <2>4 DEF IInv, ScopeClosed, Checked
<1>3. CASE \E auth \in {"failed", "granted"} :
             Becomes([c EXCEPT !.auth = auth])
  BY <1>1, <1>3, BecomesKeeps
<1>4. CASE Becomes(RequestTermination([c EXCEPT !.auth = "failed"], "abort"))
  <2>1. Good(RequestTermination([c EXCEPT !.auth = "failed"], "abort"))
    BY <1>1, RequestGood DEF Requested
  <2> QED BY <1>4, <2>1, BecomesKeeps
<1> QED BY <1>2, <1>3, <1>4 DEF Authorization

(* The steps of a termination.                                             *)
LEMMA TermGood ==
  ASSUME NEW s, Good(s), NEW term \in {"provider", "exit"}
  PROVE  /\ Good([s EXCEPT !.term = term])
         /\ [s EXCEPT !.term = term] \in Command
<1> DEFINE f == [s EXCEPT !.term = term]
<1>1. s \in Command
  BY DEF Good, Told
<1>2. /\ f \in Command /\ Alike(s, f) /\ f.reason = s.reason
      /\ f.finished = s.finished /\ f.term = term
      /\ f.told = s.told /\ f.ready = s.ready
      /\ f.reaping = s.reaping /\ f.sigkill = s.sigkill
  BY <1>1 DEF Command, Alike
<1> HIDE DEF f
<1>3. Reasoned(f) /\ Awaits(f) /\ (ScopeTold(s) => ScopeTold(f))
      /\ (ChildTold(s) => ChildTold(f))
  BY <1>2 DEF Good, Told, Reasoned, ScopeTold, ChildTold, Awaits, Pending,
              Excused, Alike
<1>4. Good(f)
  BY <1>2, <1>3 DEF Good, Told, Alike
<1> QED BY <1>2, <1>4 DEF f

LEMMA AfterIdentityStep == ASSUME IInv, AfterIdentity PROVE IInv'
<1> USE CommandFacts
<1>1. CASE Becomes(Ended(c))
  BY <1>1, EndedGood, BecomesKeeps
<1>2. CASE /\ c' = [c EXCEPT !.term = "provider"]
           /\ prov' = [prov EXCEPT !.at = "check"]
           /\ UNCHANGED <<system, scope, stray>>
  <2> DEFINE s == [c EXCEPT !.term = "provider"]
  <2>1. Good(s) /\ s \in Command
    BY TermGood
  <2>2. /\ c' = s
        /\ UNCHANGED <<child, descends, pid, scopeAuth, scopeCommand,
                       completion, stray>>
    BY <1>2 DEF system, scope
  <2>3. prov' \in Provider /\ prov'.checked = prov.checked
    BY <1>2 DEF IInv, TypeOK, Provider
  <2> HIDE DEF s
  <2>4. TypeOK'
    BY <2>1, <2>2, <2>3 DEF IInv, TypeOK, Promise!Reports
  <2>5. Good(c)'
    BY <2>1, <2>2
    DEF Good, Told, Awaits, Reasoned, ScopeTold, ChildTold, Excused, Pending
  <2> QED BY <2>2, <2>3, <2>4, <2>5 DEF IInv, ScopeClosed, Checked
<1> QED BY <1>1, <1>2 DEF AfterIdentity

LEMMA AfterProviderStep == ASSUME IInv, AfterProvider PROVE IInv'
<1> DEFINE s == IF prov.at = "failed" THEN FailTermination(c) ELSE c
<1>1. Good(s)
  BY CommandFacts, FailGood
<1>2. Becomes(IF s.exited THEN Ended(s) ELSE [s EXCEPT !.term = "exit"])
  BY DEF AfterProvider
<1> HIDE DEF s
<1>3. Good(Ended(s)) /\ Good([s EXCEPT !.term = "exit"])
  BY <1>1, EndedGood, TermGood DEF Good
<1> QED BY <1>2, <1>3, BecomesKeeps

LEMMA AfterScopeStep == ASSUME IInv, AfterScope PROVE IInv'
BY CommandFacts, EndedGood, TermGood, BecomesKeeps DEF AfterScope

LEMMA AfterExitStep == ASSUME IInv, AfterExit PROVE IInv'
BY CommandFacts, EndedGood, BecomesKeeps DEF AfterExit

(* The deadlines.                                                          *)
LEMMA DeadlineStep == ASSUME IInv, Deadline PROVE IInv'
<1> DEFINE f == FailTermination(c)
           s == Ended(Finish(f))
<1>1. Good(f) /\ f.reason = "termination-failure"
  BY CommandFacts, FailGood
<1>2. c' = s /\ prov' = [prov EXCEPT !.aborted = TRUE]
      /\ UNCHANGED <<child, descends, pid, scopeAuth, scopeCommand,
                     completion, stray>>
  BY DEF Deadline, system, scope
<1> HIDE DEF f
<1>3. Good(Finish(f))
  BY <1>1, FinishGood DEF Good, Excused, Failures
<1>4. Good(s)
  BY <1>3, EndedGood DEF Good
<1>5. prov' \in Provider /\ prov'.checked = prov.checked
  BY <1>2 DEF IInv, TypeOK, Provider
<1> HIDE DEF s
<1>6. TypeOK'
  BY <1>2, <1>4, <1>5 DEF IInv, TypeOK, Promise!Reports, Good, Told
<1>7. Good(c)'
  BY <1>2, <1>4
  DEF Good, Told, Awaits, Reasoned, ScopeTold, ChildTold, Excused, Pending
<1> QED BY <1>2, <1>5, <1>6, <1>7 DEF IInv, ScopeClosed, Checked

LEMMA StreamDeadlineStep == ASSUME IInv, StreamDeadline PROVE IInv'
<1> DEFINE s == [c EXCEPT !.reason = "termination-failure"]
<1>1. "termination-failure" \in {"none"} \cup Requested \cup Failures
  BY DEF Failures
<1>2. Good(s) /\ s.reason = "termination-failure"
  BY <1>1, CommandFacts, ReasonGood
<1>3. Becomes(Finish(s))
  BY DEF StreamDeadline
<1> HIDE DEF s
<1>4. Good(Finish(s))
  BY <1>2, FinishGood DEF Good, Excused, Failures
<1> QED BY <1>3, <1>4, BecomesKeeps

LEMMA ReapDeadlineStep == ASSUME IInv, ReapDeadline PROVE IInv'
<1>1. ~Owned => Excused(c)
  BY CommandFacts DEF ReapDeadline, ChildTold, Excused
<1>2. Good(Finish(c))
  BY <1>1, CommandFacts, FinishGood
<1> QED BY <1>2, BecomesKeeps DEF ReapDeadline

------------------------------------------------------------------------------
(* The child, its processes and the provider.                              *)

LEMMA OnExitStep == ASSUME IInv, OnExit PROVE IInv'
<1> DEFINE s == Exited(c)
<1>1. /\ child = "dead" /\ ~c.exited /\ ~c.finished /\ c' = s /\ pid' = "free"
      /\ UNCHANGED <<child, descends, prov, stray, scopeAuth, scopeCommand,
                     completion>>
  BY DEF OnExit, scope
<1>2. /\ s \in Command /\ s.exited /\ ~s.reaping
      /\ s.mode = c.mode /\ s.at = c.at
      /\ s.closed = c.closed /\ s.identity = c.identity
      /\ s.acquire = c.acquire /\ s.closure = c.closure
      /\ s.reason = c.reason /\ s.term = c.term
      /\ s.told = c.told /\ s.ready = c.ready
      /\ s.finished = c.finished /\ s.sigkill = c.sigkill
  BY CommandFacts, ExitedEffect
<1> HIDE DEF s
<1>3. ~Owned /\ c.at = "spawned" /\ ~c.closed
  BY <1>1, CommandFacts DEF Reasoned
<1>4. Good(c)'
  BY <1>1, <1>2, <1>3, CommandFacts
  DEF Good, Told, Reasoned, Awaits, ChildTold, Excused, Pending
<1>5. TypeOK'
  BY <1>1, <1>2 DEF IInv, TypeOK, Promise!Reports
<1> QED BY <1>1, <1>4, <1>5 DEF IInv, ScopeClosed, Checked

LEMMA ChildClosesStep == ASSUME IInv, ChildCloses PROVE IInv'
<1>1. ~Owned /\ c.exited /\ Becomes(OnClose(c))
  BY DEF ChildCloses
<1>2. /\ c \in Command /\ Reasoned(c) /\ ChildTold(c) /\ child = "dead"
      /\ c.at # "new"
  BY <1>1, CommandFacts DEF ChildTold, Reasoned
<1>3. Good(OnClose(c))
  BY <1>1, <1>2, CloseGood
<1> QED BY <1>1, <1>3, BecomesKeeps

LEMMA SigkillGood ==
  ASSUME NEW s, Good(s)
  PROVE  LET f == [s EXCEPT !.sigkill = FALSE] IN
         Good(f) /\ f \in Command /\ Alike(s, f) /\ f.finished = s.finished
<1> DEFINE f == [s EXCEPT !.sigkill = FALSE]
<1>1. s \in Command
  BY DEF Good, Told
<1>2. /\ f \in Command /\ Alike(s, f) /\ f.reason = s.reason
      /\ f.finished = s.finished /\ f.term = s.term
      /\ f.told = s.told /\ f.ready = s.ready
      /\ f.reaping = s.reaping /\ ~f.sigkill
  BY <1>1 DEF Command, Alike
<1> HIDE DEF f
<1>3. Reasoned(f) /\ Awaits(f) /\ (ScopeTold(s) => ScopeTold(f))
      /\ (ChildTold(s) => ChildTold(f))
  BY <1>2 DEF Good, Told, Reasoned, ScopeTold, ChildTold, Awaits, Pending,
              Excused, Alike
<1>4. Good(f)
  BY <1>2, <1>3 DEF Good, Told, Alike
<1> QED BY <1>2, <1>4 DEF f

LEMMA ChildErrorsStep == ASSUME IInv, ChildErrors PROVE IInv'
<1> DEFINE k == [c EXCEPT !.sigkill = FALSE]
           s == [k EXCEPT !.reason = "termination-failure"]
<1>1. Becomes(Finish(s))
  <2>1. [c EXCEPT !.sigkill = FALSE, !.reason = "termination-failure"] = s
    BY CommandFacts DEF Command
  <2> QED BY <2>1 DEF ChildErrors
<1>2. Good(k)
  BY CommandFacts, SigkillGood
<1> HIDE DEF k
<1>3. "termination-failure" \in {"none"} \cup Requested \cup Failures
  BY DEF Failures
<1>4. Good(s) /\ s.reason = "termination-failure"
  BY <1>2, <1>3, ReasonGood
<1> HIDE DEF s
<1>5. Good(Finish(s))
  BY <1>4, FinishGood DEF Good, Excused, Failures
<1> QED BY <1>1, <1>5, BecomesKeeps

(* Processes only die.                                                     *)
LEMMA ChildDies ==
  ASSUME NEW s, Good(s), c' = s, UNCHANGED completion,
         child \in {"none", "runs", "dead"}, child' \in {child, "dead"},
         child' # child => ~Owned /\ s.at = "spawned"
  PROVE  Good(c)'
BY DEF Good, Told, Awaits, Reasoned, ScopeTold, ChildTold, Excused, Pending

LEMMA KillDeliveredStep == ASSUME IInv, KillDelivered PROVE IInv'
<1> DEFINE s == [c EXCEPT !.sigkill = FALSE]
<1>1. /\ c.sigkill /\ c' = s /\ child' = "dead"
      /\ UNCHANGED <<descends, pid, prov, stray, scopeAuth, scopeCommand,
                     completion>>
  BY DEF KillDelivered, scope
<1>2. Good(s) /\ s \in Command /\ Alike(c, s)
  BY CommandFacts, SigkillGood
<1> HIDE DEF s
<1>3. ~Owned /\ s.at = "spawned"
  BY <1>1, <1>2, CommandFacts DEF Reasoned, Alike
<1>4. Good(c)'
  BY <1>1, <1>2, <1>3, ChildDies DEF IInv, TypeOK
<1>5. TypeOK'
  BY <1>1, <1>2 DEF IInv, TypeOK, Promise!Reports
<1> QED BY <1>1, <1>4, <1>5 DEF IInv, ScopeClosed, Checked

LEMMA SystemStep == ASSUME IInv, System PROVE IInv'
<1>1. /\ UNCHANGED <<c, stray, scopeAuth, scopeCommand, completion>>
      /\ child' \in {child, "dead"} /\ (child' # child => child = "runs")
      /\ descends' \in BOOLEAN
      /\ pid' \in {"own", "free", "stranger"}
      /\ prov' \in Provider /\ (prov'.checked => prov.checked /\ pid' = pid)
  BY DEF System, ChildEnds, Descends, PidReused, IInv, TypeOK, Provider, scope
<1>2. Good(c)'
  BY <1>1, CommandFacts, ChildDies DEF IInv, TypeOK, Reasoned
<1>3. TypeOK'
  BY <1>1 DEF IInv, TypeOK, Promise!Reports
<1> QED BY <1>1, <1>2, <1>3 DEF IInv, ScopeClosed, Checked

(* Where the provider goes; only a look at the process checks its pid.     *)
Sites == {"term", "poll", "kill", "done", "failed"}

LEMMA SiteEffect ==
  ASSUME prov \in Provider, NEW l \in Sites
  PROVE  /\ At(l) \in Provider /\ At(l).checked = prov.checked
         /\ [At(l) EXCEPT !.checked = TRUE] \in Provider
<1>1. At(l) \in Provider /\ At(l).checked = prov.checked
  BY DEF At, Provider, Sites
<1> QED BY <1>1 DEF Provider

LEMMA ProviderStep == ASSUME IInv, ProviderSteps PROVE IInv'
<1> DEFINE Kept == UNCHANGED <<c, pid, scopeAuth, scopeCommand, completion>>
           Dies == /\ child' \in {child, "dead"}
                   /\ child' # child => child = "runs"
                   /\ descends' \in BOOLEAN
           Looks == /\ prov' \in Provider
                    /\ prov'.checked => prov.checked \/ pid = "own"
<1>1. /\ prov \in Provider /\ stray = FALSE /\ descends \in BOOLEAN
      /\ prov.checked => pid # "stranger"
  BY DEF IInv, TypeOK, Checked
<1>2. /\ \A l \in Sites : /\ At(l) \in Provider /\ At(l).checked = prov.checked
                         /\ [At(l) EXCEPT !.checked = TRUE] \in Provider
      /\ Sites = {"term", "poll", "kill", "done", "failed"}
  BY <1>1, SiteEffect DEF Sites
<1>3. ASSUME NEW l \in Sites, Goes(At(l))
      PROVE  Kept /\ Dies /\ Looks /\ stray' = FALSE
  BY <1>1, <1>2, <1>3 DEF Goes, system, scope
<1>4. ASSUME NEW l \in Sites, pid = "own",
             Goes([At(l) EXCEPT !.checked = TRUE])
      PROVE  Kept /\ Dies /\ Looks /\ stray' = FALSE
  BY <1>1, <1>2, <1>4 DEF Goes, system, scope
<1>5. ASSUME NEW l \in Sites, Hit(l) PROVE Kept /\ Looks /\ stray' = FALSE
  BY <1>1, <1>2, <1>5 DEF Hit, scope
<1>6. Kept /\ Dies /\ Looks /\ stray' = FALSE
  <2>1. CASE Check
    BY <1>2, <1>3, <1>4, <2>1 DEF Check, SameProcess
  <2>2. CASE SendTerm
    BY <1>1, <1>2, <1>3, <1>5, <2>2 DEF SendTerm
  <2>3. CASE Poll
    BY <1>2, <1>3, <1>4, <2>3 DEF Poll, SameProcess
  <2>4. CASE SendKill
    BY <1>1, <1>2, <1>3, <1>5, <2>4 DEF SendKill
  <2> QED BY <2>1, <2>2, <2>3, <2>4 DEF ProviderSteps
<1>7. Good(c)'
  BY <1>6, CommandFacts, ChildDies DEF IInv, TypeOK, Reasoned
<1>8. TypeOK'
  BY <1>6 DEF IInv, TypeOK, Promise!Reports
<1> QED BY <1>1, <1>6, <1>7, <1>8 DEF IInv, ScopeClosed, Checked

------------------------------------------------------------------------------
(* The scope and its completion.                                           *)

LEMMA ScopeStep == ASSUME IInv, ScopeSteps PROVE IInv'
<1>1. /\ Owned /\ c.at # "new"
      /\ UNCHANGED <<c, child, descends, pid, prov, stray>>
  BY DEF ScopeSteps, system
<1>2. /\ UNCHANGED scopeAuth
      /\ scopeCommand' \in {"none", "alive", "gone"}
      /\ completion' \in {"none"} \cup Promise!Reports
      /\ completion # "none" => completion' = completion
      /\ completion' = "closed" => scopeCommand' = "gone"
  <2>1. CASE Promise!Start
    BY <2>1 DEF Promise!Start, IInv, TypeOK
  <2>2. CASE Promise!End
    BY <2>2 DEF Promise!End, IInv, TypeOK
  <2>3. CASE \E r \in Promise!Reports : Promise!Complete(r)
    BY <2>3 DEF Promise!Complete, Promise!Reports, IInv, TypeOK
  <2> QED BY <2>1, <2>2, <2>3 DEF ScopeSteps
<1>3. Good(c)'
  BY <1>1, <1>2, CommandFacts
  DEF Good, Told, Awaits, Reasoned, ScopeTold, Pending
<1>4. TypeOK'
  BY <1>1, <1>2 DEF IInv, TypeOK
<1> QED BY <1>1, <1>2, <1>3, <1>4 DEF IInv, ScopeClosed, Checked

LEMMA CompletedStep == ASSUME IInv, Completed PROVE IInv'
<1>1. /\ completion # "none" /\ Owned /\ c.at # "new"
      /\ c \in Command /\ Reasoned(c)
  BY CommandFacts DEF Completed, Reasoned
<1>2. PICK closure \in {"closed", "unknown"} :
        /\ closure = "closed" => completion = "closed"
        /\ LET s == [c EXCEPT !.closure = closure] IN
           Becomes(OnClose(IF closure = "closed" /\ s.identity THEN s
                           ELSE [s EXCEPT !.reason = "termination-failure"]))
  BY DEF Completed
<1> DEFINE s == [c EXCEPT !.closure = closure]
           f == [s EXCEPT !.reason = "termination-failure"]
<1>3. /\ s \in Command /\ s.mode = c.mode /\ s.closure = closure
      /\ s.at = c.at /\ s.exited = c.exited /\ s.closed = c.closed
      /\ s.identity = c.identity /\ s.acquire = c.acquire
      /\ s.reason = c.reason /\ s.told = c.told /\ s.ready = c.ready
      /\ s.sigkill = c.sigkill
  BY <1>1 DEF Command
<1>4. \/ Becomes(OnClose(s)) /\ closure = "closed"
      \/ Becomes(OnClose(f))
  BY <1>2
<1> HIDE DEF s
<1>5. /\ f \in Command /\ Alike(s, f) /\ f.reason = "termination-failure"
      /\ f.told = s.told /\ f.ready = s.ready /\ f.sigkill = s.sigkill
  BY <1>3 DEF Command, Failures, Alike
<1> HIDE DEF f
<1>6. Reasoned(s) /\ Reasoned(f)
  BY <1>1, <1>3, <1>5 DEF Reasoned, Alike
<1>7. closure = "closed" => Good(OnClose(s))
  BY <1>1, <1>2, <1>3, <1>6, CloseGood
<1>8. Good(OnClose(f))
  BY <1>1, <1>2, <1>3, <1>5, <1>6, CloseGood DEF Alike
<1> QED BY <1>4, <1>7, <1>8, BecomesKeeps

------------------------------------------------------------------------------
LEMMA InitHolds == Init => IInv
<1> SUFFICES ASSUME Init PROVE IInv
  OBVIOUS
<1>1. c \in Command
  BY DEF Init, Command
<1>2. TypeOK
  BY <1>1 DEF Init, TypeOK, Provider
<1>3. Reasoned(c) /\ ScopeTold(c) /\ ChildTold(c) /\ Awaits(c)
  BY DEF Init, Reasoned, ScopeTold, ChildTold, Awaits
<1>4. ScopeClosed /\ Checked
  BY DEF Init, ScopeClosed, Checked
<1> QED BY <1>1, <1>2, <1>3, <1>4 DEF IInv, Good, Told

LEMMA NextKeeps == ASSUME IInv, [Next]_vars PROVE IInv'
<1>1. CASE Lifecycle
  BY <1>1, StartStep, SpawnedStep, NotSpawnedStep, AcquireStep, BindEndsStep,
     AuthorizationStep, AfterIdentityStep, AfterProviderStep, AfterScopeStep,
     AfterExitStep, DeadlineStep, StreamDeadlineStep, ReapDeadlineStep,
     CompletedStep DEF Lifecycle
<1>2. CASE Caller
  BY <1>2, EndsStep, PermitsStep DEF Caller
<1>3. CASE Child
  BY <1>3, OnExitStep, ChildClosesStep, ChildErrorsStep, KillDeliveredStep
  DEF Child
<1>4. CASE System \/ ProviderSteps \/ ScopeSteps
  BY <1>4, SystemStep, ProviderStep, ScopeStep
<1>5. CASE UNCHANGED vars
  <2>1. Becomes(c)
    BY <1>5 DEF vars, Becomes
  <2> QED BY <2>1, CommandFacts, BecomesKeeps
<1> QED BY <1>1, <1>2, <1>3, <1>4, <1>5 DEF Next

LEMMA Invariant == Spec => []IInv
<1>1. Init => IInv
  BY InitHolds
<1>2. IInv /\ [Next]_vars => IInv'
  BY NextKeeps
<1> QED BY <1>1, <1>2, PTL DEF Spec

(* The command, its processes, the provider and the scope keep their types.*)
THEOREM TypeCorrect == Spec => []TypeOK
<1>1. IInv => TypeOK
  BY DEF IInv
<1> QED BY <1>1, Invariant, PTL

(* What is reported of the end of a command is true of its processes,      *)
(* whatever timers, aborts, failures of the provider and pids handed on    *)
(* come between, and no signal goes to a process that took over the pid    *)
(* before the check that precedes it.                                      *)
THEOREM EndsAreHonest == Spec => []EndHonest
<1>1. IInv => EndHonest
  <2> SUFFICES ASSUME IInv PROVE EndHonest
    OBVIOUS
  <2>1. OwnedHonest
    BY CommandFacts DEF OwnedHonest, Result, ScopeTold, IInv, ScopeClosed,
                        Reasoned, Command, Requested, Failures
  <2>2. DirectHonest
    <3>1. c.reason \in {"none"} \cup Requested \cup Failures
      BY CommandFacts DEF Command
    <3> QED BY <3>1, CommandFacts DEF DirectHonest, Result, ChildTold, Excused,
                                      Requested, Failures
  <2> QED BY <2>1, <2>2 DEF EndHonest, IInv, Checked
<1> QED BY <1>1, Invariant, PTL

(* Once there was a reason to end the command, the identity of its helper  *)
(* is not bound, or its result is known, the start gate stays shut.        *)
THEOREM StartGateNeverLate == Spec => NoLateAuthorization
<1> DEFINE Permitted == scopeAuth' # scopeAuth =>
             c.reason = "none" /\ c.identity /\ ~c.told /\ ~c.finished
<1>1. IInv /\ Next => Permitted
  <2> SUFFICES ASSUME IInv, Next, scopeAuth' # scopeAuth
      PROVE  c.reason = "none" /\ c.identity /\ ~c.told /\ ~c.finished
    OBVIOUS
  <2>1. Authorization
    <3> USE DEF Becomes, scope
    <3>1. ~System /\ ~ProviderSteps /\ ~Child /\ ~Caller
      <4>1. ~System
        BY DEF System, ChildEnds, Descends, PidReused
      <4>2. ~ProviderSteps
        BY DEF ProviderSteps, Check, SendTerm, Poll, SendKill, Goes, Hit
      <4>3. ~Child
        BY DEF Child, OnExit, ChildCloses, ChildErrors, KillDelivered
      <4>4. ~Caller
        BY DEF Caller, Ends, Permits
      <4> QED BY <4>1, <4>2, <4>3, <4>4
    <3>2. ~ScopeSteps
      BY DEF ScopeSteps, Promise!Start, Promise!End, Promise!Complete
    <3>3. ~(Start \/ Spawned \/ NotSpawned \/ Acquire \/ BindEnds)
      BY DEF Start, Spawned, NotSpawned, Acquire, BindEnds
    <3>4. ~(AfterIdentity \/ AfterProvider \/ AfterScope \/ AfterExit
            \/ Deadline \/ StreamDeadline \/ ReapDeadline \/ Completed)
      BY DEF AfterIdentity, AfterProvider, AfterScope, AfterExit, Deadline,
             StreamDeadline, ReapDeadline, Completed
    <3> QED BY <3>1, <3>2, <3>3, <3>4 DEF Next, Lifecycle
  <2>2. c.ready = "resolved" /\ ~c.finished /\ c.reason = "none"
    BY <2>1 DEF Authorization, Becomes, scope
  <2> QED BY <2>2, CommandFacts DEF Reasoned, Command
<1>2. IInv /\ [Next]_vars => [Permitted]_vars
  BY <1>1
<1> QED BY <1>2, Invariant, PTL DEF Spec, NoLateAuthorization

------------------------------------------------------------------------------
(* The dial scheduler.                                                     *)

(* The state a peer is mapped to was made for it.                          *)
MappedOwn ==
  \A p \in Peers : current[p] # None =>
    peer[current[p]] = p /\ pc[current[p]] # "new"

MadeForPeer == \A i \in Ids : pc[i] # "new" => peer[i] \in Peers

(* As long as the state is its peer's, the connection it waits to hand over *)
(* stands: its end would have dropped the state.                           *)
StillLinked ==
  \A i \in Ids :
    pc[i] \in {"dialled", "setup"} /\ ~closed /\ IsCurrent(i)
      => peer[i] \in up \cup inbound

(* The timer of a state that is dropped is cleared.                        *)
TimersCurrent == \A i \in Ids : pc[i] = "timer" => ~closed /\ IsCurrent(i)

DialKept == MappedOwn /\ MadeForPeer /\ StillLinked /\ TimersCurrent
DialInv ==
  DialTypeOK /\ DialKept /\ ConnectedIsUp /\ NoneForgotten /\ StaleAborted

USE DEF DialKept, MappedOwn, MadeForPeer, StillLinked, TimersCurrent,
    ConnectedIsUp, NoneForgotten, StaleAborted, Running, Holding, IsCurrent,
    Overtaken, DialTypeOK, Waits

LEMMA DialInitHolds == DialInit => DialInv
<1> SUFFICES ASSUME DialInit PROVE DialInv
  OBVIOUS
<1>1. next \in [Ids -> 0..Attempts]
  BY DialAssumption DEF DialInit
<1>2. DialTypeOK
  BY <1>1, DialAssumption DEF DialInit
<1>3. DialKept /\ ConnectedIsUp /\ NoneForgotten /\ StaleAborted
  BY DialAssumption DEF DialInit
<1> QED BY <1>2, <1>3 DEF DialInv

LEMMA ConsiderStep ==
  ASSUME DialInv, NEW p \in Peers, NEW i \in Ids, Consider(p, i)
  PROVE  DialInv'
  BY DialAssumption DEF DialInv, Consider, network

LEMMA ConnectStep ==
  ASSUME DialInv, NEW i \in Ids, Connect(i) PROVE DialInv'
  BY DialAssumption DEF DialInv, Connect, network

LEMMA DialFailsStep ==
  ASSUME DialInv, NEW i \in Ids, DialFails(i) PROVE DialInv'
  BY DialAssumption DEF DialInv, DialFails, ScheduleNext, network

LEMMA DialledStep ==
  ASSUME DialInv, NEW i \in Ids, Dialled(i) PROVE DialInv'
  BY DialAssumption DEF DialInv, Dialled

LEMMA EstablishedStep ==
  ASSUME DialInv, NEW i \in Ids, Established(i) PROVE DialInv'
  BY DialAssumption DEF DialInv, Established, network

LEMMA SetUpStep ==
  ASSUME DialInv, NEW i \in Ids, SetUp(i) PROVE DialInv'
  BY DialAssumption DEF DialInv, SetUp

LEMMA SetUpFailsStep ==
  ASSUME DialInv, NEW i \in Ids, SetUpFails(i) PROVE DialInv'
  BY DialAssumption DEF DialInv, SetUpFails, network

LEMMA HangUpFailsStep ==
  ASSUME DialInv, NEW i \in Ids, HangUpFails(i) PROVE DialInv'
  BY DialAssumption DEF DialInv, HangUpFails, Closing, AfterClosing

LEMMA HungUpStep ==
  ASSUME DialInv, NEW i \in Ids, HungUp(i) PROVE DialInv'
  BY DialAssumption DEF DialInv, HungUp, ScheduleNext, network

LEMMA CloseStep == ASSUME DialInv, Close PROVE DialInv'
  BY DialAssumption DEF DialInv, Close, network

LEMMA RemoteConnectsStep ==
  ASSUME DialInv, NEW p \in Dialers, RemoteConnects(p) PROVE DialInv'
  BY DialAssumption DEF DialInv, RemoteConnects, scheduler

(* What closes a connection: the peer, or a state that hangs up.           *)
LEMMA RemoteDisconnectsStep ==
  ASSUME DialInv, NEW p \in Peers, RemoteDisconnects(p) PROVE DialInv'
<1>1. CASE p \in up /\ Down(p, {p}, {}, pc)
  BY <1>1, DialAssumption DEF DialInv, Down, Disconnected
<1>2. CASE p \in inbound /\ Down(p, {}, {p}, pc)
  BY <1>2, DialAssumption DEF DialInv, Down, Disconnected
<1> QED BY <1>1, <1>2 DEF RemoteDisconnects

LEMMA HangUpStep ==
  ASSUME DialInv, NEW i \in Ids, HangUp(i) PROVE DialInv'
  BY DialAssumption DEF DialInv, HangUp, Closing, AfterClosing, Down,
     Disconnected

LEMMA DialNextStep == DialInv /\ [DialNext]_dialVars => DialInv'
<1> SUFFICES ASSUME DialInv, [DialNext]_dialVars PROVE DialInv'
  OBVIOUS
<1>1. CASE \E p \in Peers, i \in Ids : Consider(p, i)
  BY <1>1, ConsiderStep
<1>2. CASE \E i \in Ids : Run(i)
  BY <1>2, ConnectStep, DialFailsStep, DialledStep, EstablishedStep, SetUpStep,
     SetUpFailsStep, HangUpStep, HangUpFailsStep, HungUpStep DEF Run
<1>3. CASE \E p \in Dialers : RemoteConnects(p)
  BY <1>3, RemoteConnectsStep
<1>4. CASE \E p \in Peers : RemoteDisconnects(p)
  BY <1>4, RemoteDisconnectsStep
<1>5. CASE Close
  BY <1>5, CloseStep
<1>6. CASE UNCHANGED dialVars
  BY <1>6 DEF DialInv, dialVars
<1> QED BY <1>1, <1>2, <1>3, <1>4, <1>5, <1>6 DEF DialNext

(* The scheduler and the network keep their types.                         *)
THEOREM DialTypeCorrect == DialSpec => []DialTypeOK
<1>1. DialInv => DialTypeOK
  BY DEF DialInv
<1> QED BY <1>1, DialInitHolds, DialNextStep, PTL DEF DialSpec

(* A peer the scheduler takes for connected is connected, however its      *)
(* disconnects interleave with dials and set-ups (network.onEvent and the  *)
(* checks after each await of connect).                                    *)
THEOREM ConnectedPeersAreUp == DialSpec => []ConnectedIsUp
<1>1. DialInv => ConnectedIsUp
  BY DEF DialInv
<1> QED BY <1>1, DialInitHolds, DialNextStep, PTL DEF DialSpec

(* No connection that was dialled is forgotten, and no dial goes on that   *)
(* nobody aborted and no peer is waiting for (closeAfterFailedSetup).      *)
THEOREM ConnectionsAreOwned == DialSpec => []EveryConnectionOwned
<1>1. DialInv => EveryConnectionOwned
  BY DEF DialInv, EveryConnectionOwned
<1> QED BY <1>1, DialInitHolds, DialNextStep, PTL DEF DialSpec

------------------------------------------------------------------------------
(* The owned scope.                                                        *)

Has(q, t) == \E i \in 1..Len(q) : q[i] = t

(* What is asked for once a scope is closing; no start comes behind it.    *)
Farewells == {"inspect", "stop", "finish"}
Ordered(q) ==
  \A i, j \in 1..Len(q) : i < j /\ q[i] \in Farewells => q[j] # "start"

(* No start is or will be on its way, and with it no process.              *)
Shut(s) == Finishing(s) /\ ~Has(s.out, "start")
Over(s) == Shut(s) /\ NoProcess

(* Its reason is still normal only after the command's own exit.           *)
Natural(s) == s.final = "normal" => s.authorized /\ s.directExit

(* What a supervisor's state s says of itself: whom it asked and when.     *)
Asks(s) ==
  /\ Ordered(s.out)
  /\ \A t \in Farewells : Has(s.out, t) \/ t \in s.pending => Finishing(s)
  /\ s.fin \notin {"none", "init"} \/ s.pending \cap Farewells # {} =>
       Natural(s)
  /\ Has(s.out, "start") => s.authorized
  /\ s.binding # "none" \/ "bind" \in s.pending \/ s.authorized =>
       s.init = "ready"
  /\ s.init \in {"boot", "ready"} /\ s.fin \notin {"settle", "done"} => s.fd
  /\ Finishing(s) /\ s.entered # "normal" => s.final # "normal"
  /\ s.completion # "none" <=> s.fin = "done"
  /\ s.gone => Finishing(s)

(* The body of finish, and forceOnce, wait for the answers they asked for. *)
Listens(s) ==
  /\ "inspect" \in s.pending => s.fin = "inspect"
  /\ "finish" \in s.pending /\ s.forced # "finish" => s.fin = "goodbye"
  /\ "stop" \in s.pending => s.forced = "stop"

(* And of the others: the helper, the processes and the answers.           *)
Knows(s) ==
  /\ s.directExit => root = "dead"
  /\ s.proven \/ s.empty = "yes" => Over(s)
  /\ helper.op = "stop" => Shut(s)
  /\ \A i \in 1..Len(toSup) :
       toSup[i][1] = "reply" /\ toSup[i][2] \in {"inspect", "stop"}
       /\ toSup[i][3] => Over(s)
  /\ s.init = "backend" => helper.state = "none"
  /\ s.gone \/ s.closed => ~HelperLives
  /\ s.closed => HelperGone
  /\ s.fin \in {"settle", "done"} /\ s.authorized => ~HelperLives
  /\ told => Finishing(s) /\ s.final # "normal"

Minds(s) == s \in Supervisor /\ Asks(s) /\ Listens(s) /\ Knows(s)

HelperKnows ==
  /\ helper.started <=> root # "none"
  /\ helper.exited => root = "dead"
  /\ helper.drain => helper.exited
  /\ kids > 0 => root # "none"
  /\ \A i \in 1..Len(toSup) : toSup[i] = <<"direct-exit">> => root = "dead"

ScopeInv == ScopeTypeOK /\ Minds(sup) /\ HelperKnows

------------------------------------------------------------------------------
(* Queues of requests.                                                     *)
LEMMA AskedBehind ==
  ASSUME NEW q \in Seq(Requests), NEW t \in Requests
  PROVE  /\ Append(q, t) \in Seq(Requests)
         /\ \A r : Has(Append(q, t), r) <=> Has(q, r) \/ r = t
         /\ Ordered(q) /\ (t = "start" => \A r \in Farewells : ~Has(q, r)) =>
              Ordered(Append(q, t))
<1> DEFINE p == Append(q, t)
<1>1. /\ p \in Seq(Requests) /\ Len(q) \in Nat /\ Len(p) = Len(q) + 1
      /\ p[Len(q) + 1] = t
      /\ \A i \in 1..Len(q) : p[i] = q[i]
  BY AppendProperties
<1> HIDE DEF p
<1>2. \A i \in 1..Len(p) : i \in 1..Len(q) \/ i = Len(q) + 1
  BY <1>1
<1>3. \A r : Has(p, r) <=> Has(q, r) \/ r = t
  <2> TAKE r
  <2>1. Has(p, r) => Has(q, r) \/ r = t
    BY <1>1, <1>2 DEF Has
  <2>2. Has(q, r) => Has(p, r)
    <3> SUFFICES ASSUME NEW i \in 1..Len(q), q[i] = r PROVE Has(p, r)
      BY DEF Has
    <3>1. i \in 1..Len(p) /\ p[i] = r
      BY <1>1
    <3> QED BY <3>1 DEF Has
  <2>3. Has(p, t)
    <3>1. Len(q) + 1 \in 1..Len(p)
      BY <1>1
    <3> QED BY <1>1, <3>1 DEF Has
  <2> QED BY <2>1, <2>2, <2>3
<1>4. ASSUME Ordered(q), t = "start" => \A r \in Farewells : ~Has(q, r)
      PROVE  Ordered(p)
  <2> SUFFICES ASSUME NEW i \in 1..Len(p), NEW j \in 1..Len(p), i < j,
                      p[i] \in Farewells, p[j] = "start"
      PROVE  FALSE
    BY DEF Ordered
  <2>1. i \in 1..Len(q) /\ q[i] \in Farewells
    BY <1>1, <1>2
  <2>2. j \in 1..Len(q)
    BY <1>1, <1>2, <1>4, <2>1 DEF Has
  <2> QED BY <1>1, <1>4, <2>1, <2>2 DEF Ordered
<1> QED BY <1>1, <1>3, <1>4 DEF p

LEMMA TakenFirst ==
  ASSUME NEW q \in Seq(Requests), q # <<>>
  PROVE  /\ Head(q) \in Requests /\ Has(q, Head(q))
         /\ Tail(q) \in Seq(Requests)
         /\ \A r : Has(Tail(q), r) => Has(q, r)
         /\ Ordered(q) => /\ Ordered(Tail(q))
                          /\ Head(q) \in Farewells => ~Has(Tail(q), "start")
<1> DEFINE p == Tail(q)
<1>1. /\ p \in Seq(Requests) /\ Len(q) \in Nat /\ Len(p) = Len(q) - 1
      /\ \A i \in 1..Len(p) : p[i] = q[i + 1]
      /\ 1 \in 1..Len(q) /\ q[1] = Head(q) /\ Head(q) \in Requests
  BY HeadTailProperties
<1> HIDE DEF p
<1>2. \A i \in 1..Len(p) : i + 1 \in 1..Len(q)
  BY <1>1
<1>3. Has(q, Head(q))
  BY <1>1 DEF Has
<1>4. \A r : Has(p, r) => Has(q, r)
  BY <1>1, <1>2 DEF Has
<1>5. ASSUME Ordered(q) PROVE Ordered(p)
  <2> SUFFICES ASSUME NEW i \in 1..Len(p), NEW j \in 1..Len(p), i < j,
                      p[i] \in Farewells, p[j] = "start"
      PROVE  FALSE
    BY DEF Ordered
  <2>1. i + 1 < j + 1
    OBVIOUS
  <2> QED BY <1>1, <1>2, <1>5, <2>1 DEF Ordered
<1>6. ASSUME Ordered(q), Head(q) \in Farewells PROVE ~Has(p, "start")
  <2> SUFFICES ASSUME NEW i \in 1..Len(p), p[i] = "start" PROVE FALSE
    BY DEF Has
  <2>1. 1 < i + 1
    OBVIOUS
  <2> QED BY <1>1, <1>2, <1>6, <2>1 DEF Ordered
<1> QED BY <1>1, <1>3, <1>4, <1>5, <1>6 DEF p

------------------------------------------------------------------------------
(* What the functions of the supervisor do to its state.                   *)

(* A change that starts, completes or learns nothing.                      *)
Moved(s, t) ==
  Minds(t) /\ t.authorized = s.authorized /\ t.completion = s.completion

(* A change of nothing but the place of finish, its reason, the progress   *)
(* of forceOnce, and what is not spoken of.                                *)
Like(s, t) ==
  /\ t \in Supervisor
  /\ t.init = s.init /\ t.binding = s.binding /\ t.identity = s.identity
  /\ t.authorized = s.authorized /\ t.directExit = s.directExit
  /\ t.fd = s.fd /\ t.proven = s.proven /\ t.gone = s.gone
  /\ t.closed = s.closed /\ t.empty = s.empty
  /\ t.completion = s.completion /\ t.out = s.out /\ t.pending = s.pending

LEMMA LikeMoves ==
  ASSUME NEW s, Minds(s), NEW t, Like(s, t), Listens(t),
         Finishing(s) => Finishing(t),
         Finishing(s) /\ t.final = "normal" => s.final = "normal",
         Finishing(t) /\ t.entered # "normal" => t.final # "normal",
         t.fin \notin {"none", "init"} \/ s.pending \cap Farewells # {} =>
           Natural(t),
         t.fin \in {"settle", "done"} <=> s.fin \in {"settle", "done"},
         t.fin = "done" <=> s.fin = "done"
  PROVE  Moved(s, t)
BY DEF Minds, Asks, Knows, Shut, Over, Finishing, Natural, Moved, Like

(* What is known of a state that stays where it is.                        *)
Same(s, t) == t.fin = s.fin /\ t.final = s.final /\ t.entered = s.entered

LEMMA SameMoves ==
  ASSUME NEW s, Minds(s), NEW t, Like(s, t), Same(s, t), Listens(t)
  PROVE  Moved(s, t)
BY LikeMoves DEF Same, Minds, Asks, Finishing, Natural, Like

LEMMA RejectBootMoves ==
  ASSUME NEW s, Minds(s)
  PROVE  Moved(s, RejectBoot(s)) /\ Same(s, RejectBoot(s))
<1> DEFINE t == RejectBoot(s)
<1>1. t \in Supervisor /\ Like(s, t) /\ Same(s, t) /\ t.forced = s.forced
  BY DEF Minds, RejectBoot, Supervisor, Like, Same
<1> HIDE DEF t
<1>2. Listens(t)
  BY <1>1 DEF Minds, Listens, Like, Same
<1> QED BY <1>1, <1>2, SameMoves DEF t

(* Nothing that finish waits for is lost when it goes on.                  *)
Free(s) ==
  "inspect" \notin s.pending /\ ("finish" \in s.pending => s.forced = "finish")

LEMMA WorseMoves ==
  ASSUME NEW s, Minds(s), Finishing(s), NEW r \in Reasons, r # "normal"
  PROVE  /\ Moved(s, Worse(s, r)) /\ Worse(s, r).fin = s.fin
         /\ Worse(s, r).final # "normal"
<1> DEFINE t == Worse(s, r)
<1>1. /\ Like(s, t) /\ t.fin = s.fin /\ t.final # "normal"
      /\ t.forced = s.forced
  BY DEF Minds, Worse, Supervisor, Like
<1> HIDE DEF t
<1>2. Listens(t)
  BY <1>1 DEF Minds, Listens, Like
<1>3. Moved(s, t)
  BY <1>1, <1>2, LikeMoves DEF Finishing, Natural
<1> QED BY <1>1, <1>3 DEF t

LEMMA ForceFailsMoves ==
  ASSUME NEW s, Minds(s), "stop" \notin s.pending,
         "finish" \in s.pending => s.fin = "goodbye"
  PROVE  Moved(s, ForceFails(s)) /\ Same(s, ForceFails(s))
<1> DEFINE sent == s.sigterm \/ s.fd  t == ForceFails(s)
<1>1. t = [s EXCEPT !.forced = "failed", !.sigterm = sent] /\ s \in Supervisor
  BY DEF ForceFails, Minds
<1>2. sent \in BOOLEAN
  OBVIOUS
<1> HIDE DEF sent, t
<1>3. t \in Supervisor
  BY <1>1, <1>2 DEF Supervisor
<1>4. Like(s, t) /\ Same(s, t)
  BY <1>1, <1>3 DEF Like, Same, Supervisor
<1>5. Listens(t)
  BY <1>4 DEF Listens, Like, Same, Minds
<1> QED BY <1>4, <1>5, SameMoves DEF t

(* A request of a scope that closes.                                       *)
LEMMA AskMoves ==
  ASSUME NEW s, Minds(s), NEW t \in Farewells, Finishing(s), Natural(s),
         t = "inspect" => s.fin = "inspect",
         t = "finish" => s.fin = "goodbye" \/ s.forced = "finish",
         t = "stop" => s.forced = "stop"
  PROVE  Moved(s, Ask(s, t)) /\ Same(s, Ask(s, t))
<1> DEFINE a == Ask(s, t)
<1>1. s \in Supervisor /\ t \in Requests
  BY DEF Minds, Farewells, Requests
<1>2. a = [s EXCEPT !.pending = s.pending \cup {t}, !.out = Append(s.out, t)]
  BY <1>1 DEF Ask, Supervisor
<1>3. /\ Append(s.out, t) \in Seq(Requests)
      /\ \A r : Has(Append(s.out, t), r) <=> Has(s.out, r) \/ r = t
      /\ Ordered(Append(s.out, t))
  BY <1>1, AskedBehind DEF Supervisor, Minds, Asks, Farewells
<1>4. a \in Supervisor /\ a.out = Append(s.out, t)
      /\ a.pending = s.pending \cup {t}
  <2> DEFINE p == s.pending \cup {t}  q == Append(s.out, t)
  <2>1. p \in SUBSET Requests /\ q \in Seq(Requests)
    BY <1>1, <1>3 DEF Supervisor
  <2>2. a = [s EXCEPT !.pending = p, !.out = q]
    BY <1>2
  <2> HIDE DEF p, q, a
  <2>3. a \in Supervisor /\ a.out = q /\ a.pending = p
    BY <1>1, <2>1, <2>2 DEF Supervisor
  <2> QED BY <2>3 DEF p, q
<1>5. /\ a.fin = s.fin /\ a.final = s.final /\ a.entered = s.entered
      /\ a.authorized = s.authorized
      /\ a.directExit = s.directExit /\ a.binding = s.binding
      /\ a.init = s.init /\ a.fd = s.fd /\ a.completion = s.completion
      /\ a.gone = s.gone /\ a.identity = s.identity /\ a.proven = s.proven
      /\ a.empty = s.empty /\ a.closed = s.closed /\ a.forced = s.forced
  BY <1>1, <1>2 DEF Supervisor
<1> HIDE DEF a
<1>6. Asks(a)
  BY <1>3, <1>4, <1>5 DEF Minds, Asks, Finishing, Natural, Farewells
<1>7. Knows(a)
  BY <1>3, <1>4, <1>5 DEF Minds, Knows, Finishing, Shut, Over, Farewells
<1>8. Listens(a)
  BY <1>4, <1>5 DEF Minds, Listens, Farewells
<1> QED BY <1>4, <1>5, <1>6, <1>7, <1>8 DEF Minds, Moved, Same, a

LEMMA ForceOnceMoves ==
  ASSUME NEW s, Minds(s), Finishing(s), Natural(s)
  PROVE  Moved(s, ForceOnce(s)) /\ Same(s, ForceOnce(s))
<1>1. CASE s.forced # "no" \/ ~s.backend
  BY <1>1 DEF ForceOnce, Moved, Same
<1>2. CASE ~(s.forced # "no" \/ ~s.backend)
  <2>1. "stop" \notin s.pending /\ ("finish" \in s.pending => s.fin = "goodbye")
    BY <1>2 DEF Minds, Listens
  <2>2. CASE s.gone
    <3> DEFINE t == [s EXCEPT !.forced = "ok"]
    <3>1. Like(s, t) /\ Same(s, t)
      BY DEF Minds, Like, Same, Supervisor
    <3> HIDE DEF t
    <3>2. Listens(t)
      BY <2>1, <3>1 DEF Listens, Like, Same, Minds
    <3>3. ForceOnce(s) = t
      BY <1>2, <2>2 DEF ForceOnce, t
    <3> QED BY <3>1, <3>2, <3>3, SameMoves
  <2>3. CASE ~s.gone /\ CanAsk(s)
    <3> DEFINE t == [s EXCEPT !.forced = "stop"]
    <3>1. Like(s, t) /\ Same(s, t) /\ t.forced = "stop"
      BY DEF Minds, Like, Same, Supervisor
    <3>2. ForceOnce(s) = Ask(t, "stop")
      BY <1>2, <2>3 DEF ForceOnce
    <3> HIDE DEF t
    <3>3. Listens(t)
      BY <2>1, <3>1 DEF Listens, Like, Same, Minds
    <3>4. Moved(s, t) /\ Finishing(t) /\ Natural(t)
      BY <3>1, <3>3, SameMoves DEF Finishing, Natural, Same, Like
    <3>5. Moved(t, Ask(t, "stop")) /\ Same(t, Ask(t, "stop"))
      BY <3>1, <3>4, AskMoves DEF Moved, Farewells
    <3> QED BY <3>1, <3>2, <3>4, <3>5 DEF Moved, Same
  <2>4. CASE ~s.gone /\ ~CanAsk(s)
    BY <1>2, <2>1, <2>4, ForceFailsMoves DEF ForceOnce
  <2> QED BY <2>2, <2>3, <2>4
<1> QED BY <1>1, <1>2

(* finish(reason).                                                         *)
LEMMA FinishScopeMoves ==
  ASSUME NEW s, Minds(s), NEW r \in Reasons
  PROVE  LET t == FinishScope(s, r) IN
         /\ Moved(s, t) /\ Finishing(t)
         /\ r # "normal" /\ s.fin # "done" => t.final # "normal"
<1> DEFINE t == FinishScope(s, r)
<1>1. CASE s.fin = "none"
  <2> DEFINE e == [s EXCEPT !.fin = "init", !.entered = r, !.final = r]
  <2>1. Like(s, e) /\ e.fin = "init" /\ e.final = r /\ e.forced = s.forced
      /\ e.entered = r
    BY DEF Minds, Like, Supervisor
  <2>2. t = IF r = "normal" THEN e ELSE RejectBoot(e)
    BY <1>1 DEF FinishScope
  <2> HIDE DEF e, t
  <2>3. s.pending \cap Farewells = {}
    BY <1>1 DEF Minds, Asks, Finishing
  <2>4. Listens(e)
    BY <1>1, <2>1, <2>3 DEF Listens, Like, Minds, Farewells
  <2>5. Moved(s, e)
    BY <1>1, <2>1, <2>3, <2>4, LikeMoves DEF Finishing
  <2>6. Moved(e, RejectBoot(e)) /\ Same(e, RejectBoot(e))
    BY <2>5, RejectBootMoves DEF Moved
  <2>7. CASE r = "normal"
    BY <2>1, <2>2, <2>5, <2>7 DEF Finishing, t
  <2>8. CASE r # "normal"
    BY <2>1, <2>2, <2>5, <2>6, <2>8 DEF Finishing, Same, Moved, t
  <2> QED BY <2>7, <2>8
<1>2. CASE s.fin \notin {"none", "done"} /\ r # "normal"
  <2>1. t = ForceOnce(Worse(s, r))
    BY <1>2 DEF FinishScope
  <2>2. Moved(s, Worse(s, r)) /\ Worse(s, r).fin = s.fin
        /\ Worse(s, r).final # "normal"
    BY <1>2, WorseMoves DEF Finishing
  <2>3. Natural(Worse(s, r)) /\ Finishing(Worse(s, r))
    BY <1>2, <2>2 DEF Natural, Finishing
  <2>4. Moved(Worse(s, r), t) /\ Same(Worse(s, r), t)
    BY <2>1, <2>2, <2>3, ForceOnceMoves DEF Moved
  <2> HIDE DEF t
  <2>5. Moved(s, t) /\ Finishing(t) /\ t.final # "normal"
    BY <1>2, <2>2, <2>4 DEF Moved, Same, Finishing
  <2> QED BY <2>5 DEF t
<1>3. CASE s.fin # "none" /\ ~(s.fin # "done" /\ r # "normal")
  BY <1>3 DEF FinishScope, Moved, Finishing
<1> QED BY <1>1, <1>2, <1>3

(* The catch of finish: from wherever it waits.                            *)
LEMMA CatchMoves ==
  ASSUME NEW s, Minds(s), Finishing(s), Free(s), s.fin \notin {"settle", "done"}
  PROVE  Moved(s, Catch(s))
<1> DEFINE t == Worse([s EXCEPT !.fin = "caught"], "provider-failed")
<1>1. /\ Like(s, t) /\ t.fin = "caught" /\ t.final # "normal"
      /\ t.forced = s.forced
  <2> DEFINE a == [s EXCEPT !.fin = "caught"]
  <2>1. Like(s, a) /\ a.fin = "caught" /\ a.forced = s.forced
    BY DEF Minds, Like, Supervisor
  <2> HIDE DEF a
  <2>2. t = Worse(a, "provider-failed")
    BY DEF a
  <2> HIDE DEF t
  <2>3. /\ Like(a, t) /\ t.fin = a.fin /\ t.forced = a.forced
        /\ t.final # "normal"
    BY <2>1, <2>2 DEF Like, Supervisor, Worse, Reasons
  <2> QED BY <2>1, <2>3 DEF Like
<1>2. Catch(s) = ForceOnce(t)
  BY DEF Catch
<1> HIDE DEF t
<1>3. Listens(t)
  BY <1>1 DEF Listens, Like, Minds, Free
<1>4. Moved(s, t) /\ Finishing(t) /\ Natural(t)
  BY <1>1, <1>3, LikeMoves DEF Finishing, Natural
<1>5. Moved(t, ForceOnce(t))
  BY <1>4, ForceOnceMoves DEF Moved
<1> QED BY <1>2, <1>4, <1>5 DEF Moved

(* InitFails, after the initialization; BindFails, while the scope lives.  *)
Booting == {"backend", "spawn", "attach", "boot"}
LEMMA InitFailsMoves ==
  ASSUME NEW s, Minds(s), s.init \in Booting
  PROVE  Moved(s, InitFails(s))
<1> DEFINE a == [s EXCEPT !.init = "failed"]
<1>1. a \in Supervisor /\ a = [s EXCEPT !.init = "failed"]
  BY DEF Minds, Supervisor
<1>2. /\ a.fin = s.fin /\ a.final = s.final /\ a.entered = s.entered
      /\ a.authorized = s.authorized
      /\ a.directExit = s.directExit /\ a.binding = s.binding
      /\ a.init = "failed" /\ a.fd = s.fd /\ a.completion = s.completion
      /\ a.gone = s.gone /\ a.identity = s.identity /\ a.proven = s.proven
      /\ a.empty = s.empty /\ a.closed = s.closed /\ a.forced = s.forced
      /\ a.pending = s.pending /\ a.out = s.out
  BY <1>1 DEF Supervisor, Minds
<1>3. InitFails(s) = FinishScope(RejectBoot(a), "provider-failed")
  BY DEF InitFails
<1> HIDE DEF a
<1>4. Moved(s, a)
  BY <1>1, <1>2 DEF Minds, Moved, Asks, Listens, Knows, Shut, Over, Finishing,
     Natural, Booting
<1>5. Moved(a, RejectBoot(a))
  BY <1>4, RejectBootMoves DEF Moved
<1>6. Moved(RejectBoot(a), InitFails(s))
  BY <1>3, <1>5, FinishScopeMoves DEF Moved, Reasons
<1> QED BY <1>4, <1>5, <1>6 DEF Moved

LEMMA BindFailsMoves ==
  ASSUME NEW s, Minds(s), s.init = "ready"
  PROVE  Moved(s, BindFails(s))
<1> DEFINE a == [s EXCEPT !.binding = "failed"]
<1>1. a \in Supervisor /\ a = [s EXCEPT !.binding = "failed"]
  BY DEF Minds, Supervisor
<1>2. /\ a.fin = s.fin /\ a.final = s.final /\ a.entered = s.entered
      /\ a.authorized = s.authorized
      /\ a.directExit = s.directExit /\ a.binding = "failed"
      /\ a.init = s.init /\ a.fd = s.fd /\ a.completion = s.completion
      /\ a.gone = s.gone /\ a.identity = s.identity /\ a.proven = s.proven
      /\ a.empty = s.empty /\ a.closed = s.closed /\ a.forced = s.forced
      /\ a.pending = s.pending /\ a.out = s.out
  BY <1>1 DEF Supervisor, Minds
<1>3. BindFails(s) = FinishScope(a, "provider-failed")
  BY DEF BindFails
<1> HIDE DEF a
<1>4. Moved(s, a)
  BY <1>1, <1>2 DEF Minds, Moved, Asks, Listens, Knows, Shut, Over, Finishing,
     Natural
<1>5. Moved(a, BindFails(s))
  BY <1>3, <1>4, FinishScopeMoves DEF Moved, Reasons
<1> QED BY <1>4, <1>5 DEF Moved

(* An answer is taken: nothing that waits for it is left behind.           *)
Taken(s, t) == [s EXCEPT !.pending = @ \ {t}]
LEMMA TakenMoves ==
  ASSUME NEW s, Minds(s), NEW t \in s.pending
  PROVE  LET a == Taken(s, t) IN
         /\ Moved(s, a) /\ Same(s, a) /\ a.forced = s.forced /\ a.init = s.init
         /\ a.pending = s.pending \ {t}
<1> DEFINE a == Taken(s, t)  p == s.pending \ {t}
<1>1. a = [s EXCEPT !.pending = p] /\ p \in SUBSET Requests /\ s \in Supervisor
  BY DEF Taken, Minds, Supervisor
<1>2. p \subseteq s.pending
  OBVIOUS
<1> SUFFICES /\ Moved(s, a) /\ Same(s, a) /\ a.forced = s.forced
             /\ a.init = s.init /\ a.pending = p
  OBVIOUS
<1> HIDE DEF a, p
<1>3. a \in Supervisor /\ a.pending = p
  BY <1>1 DEF Supervisor
<1>4. /\ a.fin = s.fin /\ a.final = s.final /\ a.entered = s.entered
      /\ a.authorized = s.authorized
      /\ a.directExit = s.directExit /\ a.binding = s.binding
      /\ a.init = s.init /\ a.fd = s.fd /\ a.completion = s.completion
      /\ a.gone = s.gone /\ a.identity = s.identity /\ a.proven = s.proven
      /\ a.empty = s.empty /\ a.closed = s.closed /\ a.forced = s.forced
      /\ a.out = s.out
  BY <1>1 DEF Supervisor
<1>5. Moved(s, a)
  BY <1>2, <1>3, <1>4 DEF Minds, Moved, Asks, Listens, Knows, Shut, Over,
     Finishing, Natural
<1> QED BY <1>3, <1>4, <1>5 DEF Same

(* The answer to inspect: the end is natural, or what is left is killed.   *)
LEMMA InspectedMoves ==
  ASSUME NEW s, Minds(s), s.fin = "inspect", Free(s), NEW empty \in BOOLEAN
  PROVE  Moved(s, Inspected(s, empty))
<1>1. /\ Finishing(s) /\ s.fin \notin {"settle", "done"} /\ Natural(s)
      /\ s.entered # "normal" => s.final # "normal"
  BY DEF Finishing, Minds, Asks
<1>2. CASE s.final # "normal"
  <2> DEFINE a == [s EXCEPT !.fin = "force"]
  <2>1. Like(s, a) /\ a.fin = "force" /\ a.forced = s.forced
      /\ a.final = s.final
      /\ a.entered = s.entered
    BY DEF Minds, Like, Supervisor
  <2>2. Inspected(s, empty) = ForceOnce(a)
    BY <1>2 DEF Inspected
  <2> HIDE DEF a
  <2>3. Listens(a)
    BY <2>1 DEF Minds, Listens, Free, Like
  <2>4. Moved(s, a) /\ Finishing(a) /\ Natural(a)
    BY <1>1, <1>2, <2>1, <2>3, LikeMoves DEF Finishing, Natural
  <2> QED BY <2>2, <2>4, ForceOnceMoves DEF Moved
<1>3. CASE s.final = "normal" /\ ~empty
  <2> DEFINE a == [s EXCEPT !.fin = "force", !.final = "descendants-remained"]
  <2>1. /\ Like(s, a) /\ a.fin = "force" /\ a.forced = s.forced
        /\ a.final = "descendants-remained"
    BY DEF Minds, Like, Supervisor, Reasons
  <2>2. Inspected(s, empty) = ForceOnce(a)
    BY <1>3 DEF Inspected
  <2> HIDE DEF a
  <2>3. Listens(a)
    BY <2>1 DEF Minds, Listens, Free, Like
  <2>4. Moved(s, a) /\ Finishing(a) /\ Natural(a)
    BY <1>1, <2>1, <2>3, LikeMoves DEF Finishing, Natural
  <2> QED BY <2>2, <2>4, ForceOnceMoves DEF Moved
<1>4. CASE s.final = "normal" /\ empty /\ CanAsk(s)
  <2> DEFINE a == [s EXCEPT !.fin = "goodbye"]
  <2>1. /\ Like(s, a) /\ a.fin = "goodbye" /\ a.forced = s.forced
        /\ a.final = s.final /\ a.entered = s.entered
    BY DEF Minds, Like, Supervisor
  <2>2. Inspected(s, empty) = Ask(a, "finish")
    BY <1>4 DEF Inspected
  <2> HIDE DEF a
  <2>3. Listens(a)
    BY <2>1 DEF Minds, Listens, Free, Like
  <2>4. Moved(s, a) /\ Finishing(a) /\ Natural(a)
    BY <1>1, <2>1, <2>3, LikeMoves DEF Finishing, Natural, Like
  <2> QED BY <2>1, <2>2, <2>4, AskMoves DEF Moved, Farewells
<1>5. CASE s.final = "normal" /\ empty /\ ~CanAsk(s)
  BY <1>1, <1>5, CatchMoves DEF Inspected
<1> QED BY <1>2, <1>3, <1>4, <1>5

LEMMA ProvenMoves ==
  ASSUME NEW s, Minds(s), NEW empty \in BOOLEAN, empty => Over(s)
  PROVE  LET a == [s EXCEPT !.proven = empty] IN
         /\ Moved(s, a) /\ Same(s, a) /\ a.forced = s.forced
         /\ a.pending = s.pending
<1> DEFINE a == [s EXCEPT !.proven = empty]
<1>1. a = [s EXCEPT !.proven = empty] /\ s \in Supervisor
  BY DEF Minds
<1> SUFFICES /\ Moved(s, a) /\ Same(s, a) /\ a.forced = s.forced
             /\ a.pending = s.pending
  OBVIOUS
<1> HIDE DEF a
<1>2. a \in Supervisor /\ a.proven = empty
  BY <1>1 DEF Supervisor
<1>3. /\ a.fin = s.fin /\ a.final = s.final /\ a.entered = s.entered
      /\ a.authorized = s.authorized
      /\ a.directExit = s.directExit /\ a.binding = s.binding
      /\ a.init = s.init /\ a.fd = s.fd /\ a.completion = s.completion
      /\ a.gone = s.gone /\ a.empty = s.empty /\ a.closed = s.closed
      /\ a.forced = s.forced /\ a.out = s.out /\ a.pending = s.pending
  BY <1>1 DEF Supervisor
<1>4. Moved(s, a)
  BY <1>2, <1>3 DEF Minds, Moved, Asks, Listens, Knows, Shut, Over,
     Finishing, Natural
<1> QED BY <1>3, <1>4 DEF Same

(* What is known of a scope whose request t is answered or fails.          *)
LEMMA PendingFacts ==
  ASSUME NEW s, Minds(s), NEW t \in s.pending, s.fin # "done"
  PROVE  LET a == Taken(s, t) IN
         /\ t \in Requests /\ Moved(s, a) /\ Same(s, a) /\ a.forced = s.forced
         /\ a.pending = s.pending \ {t} /\ a.fin # "done"
         /\ t = "bind" => a.init = "ready"
         /\ t \in Farewells => Finishing(a) /\ Natural(a)
         /\ t = "inspect" => a.fin = "inspect" /\ Free(a)
         /\ t = "finish" /\ a.forced # "finish" => a.fin = "goodbye" /\ Free(a)
         /\ t = "stop" => /\ a.forced = "stop" /\ "stop" \notin a.pending
                          /\ "finish" \in a.pending => a.fin = "goodbye"
         /\ t = "finish" /\ a.forced = "finish" =>
              "stop" \notin a.pending /\ "finish" \notin a.pending
<1> DEFINE a == Taken(s, t)
<1>1. /\ Moved(s, a) /\ Same(s, a) /\ a.forced = s.forced
      /\ a.init = s.init /\ a.pending = s.pending \ {t}
  BY TakenMoves
<1>2. t \in Requests
  BY DEF Minds, Supervisor
<1>3. /\ t = "bind" => s.init = "ready"
      /\ t \in Farewells => Finishing(s) /\ Natural(s)
  BY DEF Minds, Asks
<1>4. t \in Farewells => Finishing(a) /\ Natural(a)
  <2>1. Minds(a) /\ a.authorized = s.authorized /\ a.final = s.final
        /\ a.fin = s.fin
    BY <1>1 DEF Moved, Same
  <2>2. a.directExit = s.directExit
    BY DEF Taken, Minds, Supervisor
  <2> HIDE DEF a
  <2> QED BY <1>3, <2>1, <2>2 DEF Finishing, Natural
<1> HIDE DEF a
<1>5. /\ t = "inspect" => s.fin = "inspect"
      /\ t = "finish" /\ s.forced # "finish" => s.fin = "goodbye"
      /\ t = "stop" => s.forced = "stop"
      /\ "inspect" \in s.pending => s.fin = "inspect"
      /\ "finish" \in s.pending /\ s.forced # "finish" => s.fin = "goodbye"
      /\ "stop" \in s.pending => s.forced = "stop"
  BY DEF Minds, Listens
<1>6. t = "inspect" => a.fin = "inspect" /\ Free(a)
  BY <1>1, <1>5 DEF Same, Free
<1>7. t = "finish" /\ a.forced # "finish" => a.fin = "goodbye" /\ Free(a)
  BY <1>1, <1>5 DEF Same, Free
<1> QED BY <1>1, <1>2, <1>3, <1>4, <1>5, <1>6, <1>7 DEF Same, a

LEMMA AnsweredMoves ==
  ASSUME NEW s, Minds(s), NEW t \in s.pending, s.fin # "done",
         NEW empty \in BOOLEAN, t \in {"inspect", "stop"} /\ empty => Over(s)
  PROVE  Moved(s, Answered(Taken(s, t), t, empty))
<1> DEFINE a == Taken(s, t)  b == Answered(a, t, empty)
           p == [a EXCEPT !.proven = empty]
<1>1. /\ t \in Requests /\ Moved(s, a) /\ Same(s, a) /\ a.forced = s.forced
      /\ a.pending = s.pending \ {t} /\ a.fin # "done"
      /\ t = "bind" => a.init = "ready"
      /\ t \in Farewells => Finishing(a) /\ Natural(a)
      /\ t = "inspect" => a.fin = "inspect" /\ Free(a)
      /\ t = "finish" /\ a.forced # "finish" => a.fin = "goodbye" /\ Free(a)
      /\ t = "stop" => /\ a.forced = "stop" /\ "stop" \notin a.pending
                       /\ "finish" \in a.pending => a.fin = "goodbye"
      /\ t = "finish" /\ a.forced = "finish" =>
           "stop" \notin a.pending /\ "finish" \notin a.pending
  BY PendingFacts
<1>2. Over(s) => Over(a)
  BY <1>1 DEF Over, Shut, Taken, Finishing, Same, Minds, Supervisor
<1>3. t \in {"inspect", "stop"} =>
        /\ Moved(a, p) /\ Same(a, p)
        /\ p.forced = a.forced /\ p.pending = a.pending
  BY <1>1, <1>2, ProvenMoves DEF Moved
<1>4. p.directExit = a.directExit
  BY <1>1 DEF Moved, Minds, Supervisor
<1> SUFFICES Moved(a, b)
  BY <1>1 DEF Moved
<1>5. CASE t = "bind" /\ Finishing(a)
  <2>1. b = BindFails(a)
    BY <1>5 DEF Answered
  <2> QED BY <1>1, <1>5, <2>1, BindFailsMoves DEF Moved
<1>6. CASE t = "bind" /\ ~Finishing(a)
  <2>1. b = [a EXCEPT !.binding = "bound"]
    BY <1>6 DEF Answered
  <2> HIDE DEF a, b
  <2>2. a \in Supervisor /\ Minds(a) /\ a.init = "ready"
    BY <1>1, <1>6 DEF Moved, Minds
  <2>3. b \in Supervisor /\ b.binding = "bound"
    BY <2>1, <2>2 DEF Supervisor
  <2>4. /\ b.fin = a.fin /\ b.final = a.final /\ b.entered = a.entered
      /\ b.authorized = a.authorized
        /\ b.directExit = a.directExit /\ b.proven = a.proven
        /\ b.init = a.init /\ b.fd = a.fd /\ b.completion = a.completion
        /\ b.gone = a.gone /\ b.empty = a.empty /\ b.closed = a.closed
        /\ b.forced = a.forced /\ b.out = a.out /\ b.pending = a.pending
    BY <2>1, <2>2 DEF Supervisor
  <2> QED BY <2>2, <2>3, <2>4 DEF Minds, Moved, Asks, Listens, Knows, Shut,
             Over, Finishing, Natural
<1>7. CASE t = "start"
  BY <1>1, <1>7 DEF Answered, Moved
<1>8. CASE t = "inspect"
  <2>1. b = Inspected(p, empty)
    BY <1>8 DEF Answered
  <2>2. p.fin = "inspect" /\ Free(p)
    BY <1>1, <1>3, <1>8 DEF Same, Free
  <2> HIDE DEF p, b
  <2>3. Moved(p, b)
    BY <1>3, <1>8, <2>1, <2>2, InspectedMoves DEF Moved
  <2> QED BY <1>3, <1>8, <2>3 DEF Moved
<1>9. CASE t = "stop"
  <2>1. Moved(a, p) /\ p.forced = "stop" /\ "stop" \notin p.pending
        /\ Finishing(p) /\ Natural(p)
        /\ ("finish" \in p.pending => p.fin = "goodbye")
    BY <1>1, <1>3, <1>4, <1>9 DEF Same, Moved, Finishing, Natural, Farewells
  <2>2. CASE empty /\ CanAsk(a)
    <3> DEFINE q == [p EXCEPT !.forced = "finish"]
    <3>1. b = Ask(q, "finish")
      BY <1>9, <2>2 DEF Answered
    <3> HIDE DEF p
    <3>2. Like(p, q) /\ Same(p, q) /\ q.forced = "finish"
      BY <2>1 DEF Moved, Minds, Like, Same, Supervisor
    <3> HIDE DEF q
    <3>3. Listens(q)
      BY <2>1, <3>2 DEF Listens, Like, Same, Moved, Minds
    <3>4. Moved(p, q) /\ Finishing(q) /\ Natural(q)
      BY <2>1, <3>2, <3>3, SameMoves DEF Moved, Finishing, Natural, Same, Like
    <3>5. Moved(q, Ask(q, "finish"))
      BY <3>2, <3>4, AskMoves DEF Moved, Farewells
    <3> QED BY <2>1, <3>1, <3>4, <3>5 DEF Moved
  <2>3. CASE ~(empty /\ CanAsk(a))
    <3>1. b = ForceFails(p)
      BY <1>9, <2>3 DEF Answered
    <3>2. Moved(p, ForceFails(p))
      BY <2>1, ForceFailsMoves DEF Moved
    <3> QED BY <2>1, <3>1, <3>2 DEF Moved
  <2> QED BY <2>2, <2>3
<1>10. CASE t = "finish" /\ a.forced = "finish"
  <2>1. b = [a EXCEPT !.forced = "ok"]
    BY <1>10 DEF Answered
  <2> HIDE DEF a, b
  <2>2. Like(a, b) /\ Same(a, b) /\ b.forced = "ok"
    <3>1. a \in Supervisor
      BY <1>1 DEF Moved, Minds
    <3>2. b \in Supervisor
      BY <2>1, <3>1 DEF Supervisor
    <3> QED BY <2>1, <3>1, <3>2 DEF Like, Same, Supervisor
  <2>3. Listens(b)
    BY <1>1, <1>10, <2>2 DEF Listens, Like, Same, Moved, Minds
  <2> QED BY <1>1, <2>2, <2>3, SameMoves DEF Moved
<1>11. CASE t = "finish" /\ a.forced # "finish"
  <2>1. b = [a EXCEPT !.fin = "close"]
    BY <1>11 DEF Answered
  <2> HIDE DEF a, b
  <2>2. Like(a, b) /\ b.fin = "close" /\ b.final = a.final
      /\ b.forced = a.forced
      /\ b.entered = a.entered
    BY <1>1, <2>1 DEF Moved, Minds, Like, Supervisor
  <2>3. Listens(b)
    BY <1>1, <1>11, <2>2 DEF Listens, Like, Free, Moved, Minds
  <2>4. Natural(b) /\ (b.entered # "normal" => b.final # "normal")
    BY <1>1, <1>11, <2>2 DEF Natural, Like, Farewells, Moved, Minds, Asks
  <2> QED BY <1>1, <1>11, <2>2, <2>3, <2>4, LikeMoves DEF Moved, Finishing
<1>12. t \in {"bind", "start", "inspect", "stop", "finish"}
  BY <1>1 DEF Requests
<1> QED BY <1>5, <1>6, <1>7, <1>8, <1>9, <1>10, <1>11, <1>12

LEMMA RejectedMoves ==
  ASSUME NEW s, Minds(s), NEW t \in s.pending, s.fin # "done"
  PROVE  Moved(s, Rejected(Taken(s, t), t))
<1> DEFINE a == Taken(s, t)
<1>1. /\ t \in Requests /\ Moved(s, a) /\ a.fin # "done"
      /\ t = "bind" => a.init = "ready"
      /\ t \in Farewells => Finishing(a)
      /\ t = "inspect" => a.fin = "inspect" /\ Free(a)
      /\ t = "finish" /\ a.forced # "finish" => a.fin = "goodbye" /\ Free(a)
      /\ t = "stop" => /\ "stop" \notin a.pending
                       /\ "finish" \in a.pending => a.fin = "goodbye"
      /\ t = "finish" /\ a.forced = "finish" =>
           "stop" \notin a.pending /\ "finish" \notin a.pending
  BY PendingFacts
<1> HIDE DEF a
<1> SUFFICES Moved(a, Rejected(a, t))
  BY <1>1 DEF Moved, a
<1>2. CASE t = "bind"
  BY <1>1, <1>2, BindFailsMoves DEF Rejected, Moved
<1>3. CASE t = "start"
  BY <1>1, <1>3, FinishScopeMoves DEF Rejected, Moved, Reasons
<1>4. CASE t = "stop" \/ (t = "finish" /\ a.forced = "finish")
  BY <1>1, <1>4, ForceFailsMoves DEF Rejected, Moved
<1>5. CASE t = "inspect" \/ (t = "finish" /\ a.forced # "finish")
  BY <1>1, <1>5, CatchMoves DEF Rejected, Moved, Farewells
<1> QED BY <1>1, <1>2, <1>3, <1>4, <1>5 DEF Requests

(* A message of the helper.                                                *)
LEMMA FrameFacts ==
  ASSUME NEW f \in Frames
  PROVE  /\ f[1] = "reply" => f[2] \in Requests /\ f[3] \in BOOLEAN
         /\ f[1] = "direct-exit" => f = <<"direct-exit">>
BY DEF Frames

LEMMA HandledMoves ==
  ASSUME Minds(sup), sup.fin # "done", NEW f \in Frames,
         f = <<"direct-exit">> => root = "dead",
         f[1] = "reply" /\ f[2] \in {"inspect", "stop"} /\ f[3] => Over(sup)
  PROVE  Moved(sup, Handled(f))
<1>1. CASE f[1] = "ready"
  <2> DEFINE b == IF sup.boot = "pending" THEN "ready" ELSE sup.boot
             a == [sup EXCEPT !.boot = b]
  <2>1. b \in {"pending", "ready", "rejected"} /\ sup \in Supervisor
    BY DEF Minds, Supervisor
  <2>2. Handled(f) = a
    BY <1>1, <2>1 DEF Handled, Supervisor
  <2> HIDE DEF b
  <2>3. Like(sup, a) /\ Same(sup, a) /\ a.forced = sup.forced
    BY <2>1 DEF Like, Same, Supervisor
  <2> HIDE DEF a
  <2>4. Listens(a)
    BY <2>3 DEF Listens, Like, Same, Minds
  <2> QED BY <2>2, <2>3, <2>4, SameMoves
<1>2. CASE f[1] = "reply" /\ f[2] \in sup.pending
  <2>1. Handled(f) = Answered(Taken(sup, f[2]), f[2], f[3])
    BY <1>2 DEF Handled, Settled, Taken
  <2>2. f[3] \in BOOLEAN
    BY <1>2, FrameFacts
  <2> QED BY <1>2, <2>1, <2>2, AnsweredMoves
<1>3. CASE f[1] = "direct-exit" /\ sup.authorized /\ ~sup.directExit
  <2> DEFINE a == [sup EXCEPT !.directExit = TRUE]
  <2>1. Handled(f) = FinishScope(a, "normal")
    BY <1>3 DEF Handled
  <2>2. a = [sup EXCEPT !.directExit = TRUE] /\ sup \in Supervisor
    BY DEF Minds
  <2> HIDE DEF a
  <2>3. a \in Supervisor /\ a.directExit
    BY <2>2 DEF Supervisor
  <2>4. /\ a.fin = sup.fin /\ a.final = sup.final /\ a.entered = sup.entered
        /\ a.authorized = sup.authorized /\ a.binding = sup.binding
        /\ a.init = sup.init /\ a.fd = sup.fd /\ a.completion = sup.completion
        /\ a.gone = sup.gone /\ a.empty = sup.empty /\ a.closed = sup.closed
        /\ a.forced = sup.forced /\ a.out = sup.out /\ a.pending = sup.pending
        /\ a.proven = sup.proven
    BY <2>2 DEF Supervisor
  <2>5. root = "dead"
    BY <1>3, FrameFacts
  <2>6. Moved(sup, a)
    BY <2>3, <2>4, <2>5 DEF Minds, Moved, Asks, Listens, Knows, Shut, Over,
       Finishing, Natural
  <2> QED BY <2>1, <2>6, FinishScopeMoves DEF Moved, Reasons
<1>4. CASE /\ f[1] # "ready"
           /\ ~(f[1] = "reply" /\ f[2] \in sup.pending)
           /\ ~(f[1] = "direct-exit" /\ sup.authorized /\ ~sup.directExit)
  <2>1. Handled(f) = FinishScope(RejectBoot(sup), "provider-failed")
    BY <1>4 DEF Handled
  <2>2. Moved(sup, RejectBoot(sup))
    BY RejectBootMoves
  <2> QED BY <2>1, <2>2, FinishScopeMoves DEF Moved, Reasons
<1> QED BY <1>1, <1>2, <1>3, <1>4

(* The look at what is left, when the helper is gone or never came.        *)
LEMMA LookedMoves ==
  ASSUME NEW s, Minds(s), s.fin \in {"close", "close2"}, ~HelperLives
  PROVE  Moved(s, Looked(s)) /\ Looked(s).fin = "dispose"
<1> DEFINE a == Looked(s)
           found == IF ~s.backend THEN s.empty
                    ELSE IF s.proven THEN "yes" ELSE "no"
           left == s.gone \/ s.backend
<1>1. s \in Supervisor /\ found \in {"yes", "no", "unknown"}
      /\ left \in BOOLEAN
  BY DEF Minds, Supervisor
<1>2. a = [s EXCEPT !.gone = left, !.fin = "dispose", !.empty = found]
  BY <1>1 DEF Looked, Supervisor
<1>3. found = "yes" => Over(s)
  BY DEF Minds, Knows
<1> HIDE DEF found, left, a
<1>4. a \in Supervisor /\ a.fin = "dispose" /\ a.empty = found
  <2> DEFINE b == [s EXCEPT !.gone = left]
             d == [b EXCEPT !.fin = "dispose"]
             e == [d EXCEPT !.empty = found]
  <2>1. b \in Supervisor
    BY <1>1 DEF Supervisor
  <2>2. a = e
    BY <1>2
  <2> HIDE DEF b
  <2>3. d \in Supervisor /\ d.fin = "dispose"
    BY <2>1 DEF Supervisor
  <2> HIDE DEF d
  <2>4. e \in Supervisor /\ e.fin = "dispose" /\ e.empty = found
    BY <1>1, <2>3 DEF Supervisor
  <2> QED BY <2>2, <2>4
<1>5. /\ a.final = s.final /\ a.entered = s.entered
      /\ a.authorized = s.authorized
      /\ a.binding = s.binding /\ a.directExit = s.directExit
      /\ a.init = s.init /\ a.fd = s.fd /\ a.completion = s.completion
      /\ a.closed = s.closed /\ a.forced = s.forced /\ a.out = s.out
      /\ a.pending = s.pending /\ a.proven = s.proven
  BY <1>1, <1>2 DEF Supervisor
<1>6. Asks(a)
  BY <1>4, <1>5 DEF Minds, Asks, Finishing, Natural
<1>7. Listens(a)
  BY <1>4, <1>5 DEF Minds, Listens
<1>8. Knows(a)
  BY <1>3, <1>4, <1>5 DEF Minds, Knows, Shut, Over, Finishing
<1> QED BY <1>4, <1>5, <1>6, <1>7, <1>8 DEF Minds, Moved, a

------------------------------------------------------------------------------
(* The steps.                                                              *)

(* The processes of the command, as the promise speaks of them.            *)
Processes == IF root = "none" THEN "none"
             ELSE IF NoProcess THEN "gone" ELSE "alive"
Seen == <<sup.authorized, told, Processes, sup.completion>>
Allowed == ScopeInv' /\ [Promised!Next]_Seen

LEMMA SupervisorKeeps ==
  ASSUME ScopeInv, NEW t, Steps(t), Minds(t)
  PROVE  ScopeInv' /\ UNCHANGED <<told, Processes>> /\ sup' = t
<1>1. sup' = t /\ UNCHANGED outside
  BY DEF Steps
<1>2. Minds(sup)'
  BY <1>1 DEF Minds, Asks, Listens, Knows, Shut, Over, Finishing, Natural,
     NoProcess, HelperLives, HelperGone, outside, processes
<1>3. ScopeTypeOK'
  BY <1>1, <1>2 DEF ScopeInv, ScopeTypeOK, Minds, outside, processes
<1>4. HelperKnows'
  BY <1>1 DEF ScopeInv, HelperKnows, outside, processes
<1>5. UNCHANGED <<told, Processes>>
  BY <1>1 DEF Processes, NoProcess, outside, processes
<1> QED BY <1>1, <1>2, <1>3, <1>4, <1>5 DEF ScopeInv

LEMMA SupervisorStep ==
  ASSUME ScopeInv, NEW t, Steps(t), Moved(sup, t)
  PROVE  Allowed
BY SupervisorKeeps DEF Allowed, Seen, Moved

LEMMA CreateBackendStep == ASSUME ScopeInv, CreateBackend PROVE Allowed
<1>1. Minds(sup) /\ sup.init = "backend" /\ sup.init \in Booting
  BY DEF ScopeInv, CreateBackend, Booting
<1>2. CASE Steps(InitFails(sup))
  BY <1>1, <1>2, InitFailsMoves, SupervisorStep
<1>3. CASE Finishing(sup) /\ Steps(InitFails([sup EXCEPT !.backend = TRUE]))
  <2> DEFINE a == [sup EXCEPT !.backend = TRUE]
  <2>1. Like(sup, a) /\ Same(sup, a) /\ a.forced = sup.forced
    BY <1>1 DEF Minds, Like, Same, Supervisor
  <2> HIDE DEF a
  <2>2. Listens(a)
    BY <1>1, <2>1 DEF Listens, Like, Same, Minds
  <2>3. Moved(sup, a) /\ a.init \in Booting
    BY <1>1, <2>1, <2>2, SameMoves DEF Like
  <2>4. Moved(sup, InitFails(a))
    BY <2>3, InitFailsMoves DEF Moved
  <2>5. Steps(InitFails(a))
    BY <1>3 DEF a
  <2> QED BY <2>4, <2>5, SupervisorStep
<1>4. CASE /\ ~Finishing(sup) /\ owner
           /\ sup' = [sup EXCEPT !.init = "spawn", !.backend = TRUE,
                                 !.connected = TRUE]
           /\ helper' = [helper EXCEPT !.state = "boots"]
           /\ UNCHANGED <<toSup, processes, owner, told>>
  <2>1. sup' \in Supervisor
    BY <1>1, <1>4 DEF Minds, Supervisor
  <2>2. /\ sup'.init = "spawn" /\ sup'.fin = sup.fin /\ sup'.final = sup.final
        /\ sup'.entered = sup.entered
        /\ sup'.authorized = sup.authorized /\ sup'.binding = sup.binding
        /\ sup'.directExit = sup.directExit /\ sup'.fd = sup.fd
        /\ sup'.completion = sup.completion /\ sup'.gone = sup.gone
        /\ sup'.closed = sup.closed /\ sup'.forced = sup.forced
        /\ sup'.out = sup.out /\ sup'.pending = sup.pending
        /\ sup'.proven = sup.proven /\ sup'.empty = sup.empty
    BY <1>1, <1>4 DEF Minds, Supervisor
  <2>3. /\ helper' \in Helper /\ helper'.state = "boots"
        /\ helper'.op = helper.op /\ helper'.started = helper.started
        /\ helper'.exited = helper.exited /\ helper'.drain = helper.drain
    BY <1>4 DEF ScopeInv, ScopeTypeOK, Helper
  <2>4. helper.state = "none" /\ ~sup.gone /\ ~sup.closed /\ sup.fin = "none"
    BY <1>1, <1>4 DEF Minds, Asks, Knows, HelperGone, Finishing
  <2>5. Asks(sup') /\ Listens(sup')
    BY <1>1, <2>2 DEF Minds, Asks, Listens, Finishing, Natural
  <2>6. Minds(sup)'
    BY <1>1, <1>4, <2>1, <2>2, <2>3, <2>4, <2>5
       DEF Minds, Asks, Listens, Knows, Shut, Over, Finishing, Natural,
           NoProcess, HelperLives, HelperGone, processes
  <2>7. ScopeTypeOK' /\ HelperKnows' /\ UNCHANGED Seen
    BY <1>4, <2>1, <2>2, <2>3 DEF ScopeInv, ScopeTypeOK, HelperKnows, Seen,
       Processes, NoProcess, processes
  <2> QED BY <2>6, <2>7 DEF Allowed, ScopeInv
<1> QED BY <1>1, <1>2, <1>3, <1>4 DEF CreateBackend

(* Another place of the initialization.                                    *)
LEMMA InitMoves ==
  ASSUME NEW s, Minds(s), s.init \in Booting,
         NEW i \in {"attach", "boot", "ready"}, NEW fd \in BOOLEAN,
         i \in {"boot", "ready"} => fd, s.fd => fd
  PROVE  Moved(s, [s EXCEPT !.init = i, !.fd = fd])
<1> DEFINE a == [s EXCEPT !.init = i, !.fd = fd]
<1>1. a = [s EXCEPT !.init = i, !.fd = fd] /\ s \in Supervisor
  BY DEF Minds
<1> HIDE DEF a
<1>2. a \in Supervisor /\ a.init = i /\ a.fd = fd
  BY <1>1 DEF Supervisor
<1>3. /\ a.fin = s.fin /\ a.final = s.final /\ a.entered = s.entered
      /\ a.authorized = s.authorized
      /\ a.directExit = s.directExit /\ a.binding = s.binding
      /\ a.completion = s.completion /\ a.proven = s.proven
      /\ a.gone = s.gone /\ a.empty = s.empty /\ a.closed = s.closed
      /\ a.forced = s.forced /\ a.out = s.out /\ a.pending = s.pending
  BY <1>1 DEF Supervisor
<1>4. Asks(a)
  BY <1>2, <1>3 DEF Minds, Asks, Finishing, Natural, Booting
<1>5. Listens(a)
  BY <1>3 DEF Minds, Listens
<1>6. Knows(a)
  BY <1>2, <1>3 DEF Minds, Knows, Shut, Over, Finishing
<1> QED BY <1>2, <1>3, <1>4, <1>5, <1>6 DEF Minds, Moved, a

(* The helper process ends while its supervisor goes on to t.              *)
LEMMA HelperEnds ==
  ASSUME ScopeInv, NEW t, Moved(sup, t), HelperLives,
         sup' = t, NEW st \in {"exited", "failed", "killed"},
         helper' = [helper EXCEPT !.state = st],
         UNCHANGED <<toSup, processes, owner, told>>
  PROVE  Allowed
<1>1. /\ helper' \in Helper /\ helper'.state = st
      /\ helper'.op = helper.op /\ helper'.started = helper.started
      /\ helper'.exited = helper.exited /\ helper'.drain = helper.drain
  BY DEF ScopeInv, ScopeTypeOK, Helper
<1>2. t.init # "backend"
  BY DEF Moved, Minds, Knows, HelperLives
<1>3. Knows(sup)'
  BY <1>1, <1>2 DEF Moved, Minds, Knows, Shut, Over, Finishing, NoProcess,
     HelperLives, HelperGone, processes
<1>4. Minds(sup)'
  BY <1>3 DEF Moved, Minds, Asks, Listens, Finishing, Natural
<1>5. ScopeTypeOK'
  BY <1>1, <1>4 DEF ScopeInv, ScopeTypeOK, Minds, processes
<1>6. HelperKnows' /\ UNCHANGED Seen
  BY <1>1 DEF ScopeInv, HelperKnows, Seen, Moved, Processes, NoProcess,
     processes
<1> QED BY <1>4, <1>5, <1>6 DEF Allowed, ScopeInv

LEMMA SpawnHelperStep == ASSUME ScopeInv, SpawnHelper PROVE Allowed
<1>1. Minds(sup) /\ sup.init \in Booting
  BY DEF ScopeInv, SpawnHelper, Booting
<1>2. CASE Steps([sup EXCEPT !.init = "attach"])
  <2> DEFINE t == [sup EXCEPT !.init = "attach"]
  <2>1. t = [sup EXCEPT !.init = "attach", !.fd = sup.fd]
    BY <1>1 DEF Minds, Supervisor
  <2>2. sup.fd \in BOOLEAN
    BY <1>1 DEF Minds, Supervisor
  <2> HIDE DEF t
  <2>3. Moved(sup, t)
    BY <1>1, <2>1, <2>2, InitMoves
  <2> QED BY <1>2, <2>3, SupervisorStep DEF t
<1>3. CASE /\ helper.state = "boots" /\ owner
           /\ sup' = InitFails(sup)
           /\ helper' = [helper EXCEPT !.state = "failed"]
           /\ UNCHANGED <<toSup, processes, owner, told>>
  BY <1>1, <1>3, InitFailsMoves, HelperEnds DEF HelperLives
<1> QED BY <1>2, <1>3 DEF SpawnHelper

LEMMA AttachStep == ASSUME ScopeInv, Attach PROVE Allowed
<1>1. Minds(sup) /\ sup.init \in Booting
  BY DEF ScopeInv, Attach, Booting
<1>2. CASE Steps([sup EXCEPT !.init = "boot", !.fd = TRUE])
  <2>1. Moved(sup, [sup EXCEPT !.init = "boot", !.fd = TRUE])
    BY <1>1, InitMoves
  <2> QED BY <1>2, <2>1, SupervisorStep
<1>3. CASE Steps(InitFails(sup))
  BY <1>1, <1>3, InitFailsMoves, SupervisorStep
<1> QED BY <1>2, <1>3 DEF Attach

LEMMA BootedStep == ASSUME ScopeInv, Booted PROVE Allowed
<1>1. Minds(sup) /\ sup.init \in Booting /\ sup.init = "boot"
  BY DEF ScopeInv, Booted, Booting
<1>2. CASE sup.boot = "ready" /\ ~Finishing(sup)
  <2> DEFINE t == [sup EXCEPT !.init = "ready"]
  <2>1. sup.fd
    BY <1>1, <1>2 DEF Minds, Asks, Finishing
  <2>2. t = [sup EXCEPT !.init = "ready", !.fd = TRUE]
    BY <1>1, <2>1 DEF Minds, Supervisor
  <2>3. Steps(t)
    BY <1>2 DEF Booted
  <2> HIDE DEF t
  <2>4. Moved(sup, t)
    BY <1>1, <2>2, InitMoves
  <2> QED BY <2>3, <2>4, SupervisorStep
<1>3. CASE ~(sup.boot = "ready" /\ ~Finishing(sup))
  <2>1. Steps(InitFails(sup))
    BY <1>3 DEF Booted
  <2> QED BY <1>1, <2>1, InitFailsMoves, SupervisorStep
<1> QED BY <1>2, <1>3

LEMMA StartupTimeoutStep == ASSUME ScopeInv, StartupTimeout PROVE Allowed
<1> DEFINE t == FinishScope(RejectBoot(sup), "provider-failed")
<1>1. Moved(sup, RejectBoot(sup))
  BY RejectBootMoves DEF ScopeInv
<1>2. Moved(RejectBoot(sup), t)
  BY <1>1, FinishScopeMoves DEF Moved, Reasons
<1>3. Moved(sup, t) /\ Steps(t)
  BY <1>1, <1>2 DEF Moved, StartupTimeout
<1> HIDE DEF t
<1> QED BY <1>3, SupervisorStep

(* A request of a scope that is not closing.                               *)
LEMMA AskEarlyMoves ==
  ASSUME NEW s, Minds(s), NEW t \in {"bind", "start"}, ~Finishing(s),
         s.init = "ready", t = "start" => s.authorized
  PROVE  Moved(s, Ask(s, t))
<1> DEFINE p == s.pending \cup {t}  q == Append(s.out, t)  a == Ask(s, t)
<1>1. s \in Supervisor /\ t \in Requests
  BY DEF Minds, Requests
<1>2. /\ q \in Seq(Requests) /\ Ordered(q)
      /\ \A r : Has(q, r) <=> Has(s.out, r) \/ r = t
  BY <1>1, AskedBehind DEF Supervisor, Minds, Asks
<1>3. p \in SUBSET Requests
  BY <1>1 DEF Supervisor
<1>4. a = [s EXCEPT !.pending = p, !.out = q]
  BY <1>1 DEF Ask, Supervisor
<1>5. \A r \in Farewells : r \in p => r \in s.pending
  BY DEF Farewells
<1>6. "bind" \in p \/ "start" \in p
  OBVIOUS
<1> HIDE DEF q, a
<1>7. a \in Supervisor /\ a.out = q /\ a.pending = p
  <2> HIDE DEF p
  <2> QED BY <1>1, <1>2, <1>3, <1>4 DEF Supervisor
<1>8. /\ a.fin = s.fin /\ a.final = s.final /\ a.entered = s.entered
      /\ a.authorized = s.authorized /\ a.proven = s.proven
      /\ a.directExit = s.directExit /\ a.binding = s.binding
      /\ a.init = s.init /\ a.fd = s.fd /\ a.completion = s.completion
      /\ a.gone = s.gone /\ a.empty = s.empty /\ a.closed = s.closed
      /\ a.forced = s.forced
  BY <1>1, <1>4 DEF Supervisor
<1> HIDE DEF p
<1>9. Asks(a)
  BY <1>2, <1>5, <1>7, <1>8 DEF Minds, Asks, Finishing, Natural, Farewells
<1>10. Listens(a)
  BY <1>5, <1>7, <1>8 DEF Minds, Listens, Farewells
<1>11. Knows(a)
  BY <1>7, <1>8 DEF Minds, Knows, Shut, Over, Finishing
<1> QED BY <1>7, <1>8, <1>9, <1>10, <1>11 DEF Minds, Moved, a

LEMMA BindStep == ASSUME ScopeInv, Bind PROVE Allowed
<1> DEFINE s == [sup EXCEPT !.identity = TRUE, !.binding = "rpc"]
<1>1. Minds(sup) /\ sup.init = "ready" /\ ~Finishing(sup) /\ sup \in Supervisor
  BY DEF ScopeInv, Bind, Minds
<1>2. CASE Steps(BindFails(sup))
  BY <1>1, <1>2, BindFailsMoves, SupervisorStep
<1>3. CASE Steps(IF CanAsk(s) THEN Ask(s, "bind") ELSE BindFails(s))
  <2>1. s \in Supervisor
    BY <1>1 DEF Supervisor
  <2>2. /\ s.fin = sup.fin /\ s.final = sup.final /\ s.entered = sup.entered
        /\ s.authorized = sup.authorized /\ s.proven = sup.proven
        /\ s.directExit = sup.directExit /\ s.init = sup.init
        /\ s.fd = sup.fd /\ s.completion = sup.completion
        /\ s.gone = sup.gone /\ s.empty = sup.empty /\ s.closed = sup.closed
        /\ s.forced = sup.forced /\ s.out = sup.out /\ s.pending = sup.pending
    BY <1>1 DEF Supervisor
  <2>3. Steps(Ask(s, "bind")) \/ Steps(BindFails(s))
    BY <1>3
  <2> HIDE DEF s
  <2>4. Moved(sup, s) /\ s.init = "ready" /\ ~Finishing(s)
    BY <1>1, <2>1, <2>2 DEF Minds, Moved, Asks, Listens, Knows, Shut, Over,
       Finishing, Natural
  <2>5. Moved(s, Ask(s, "bind")) /\ Moved(s, BindFails(s))
    BY <2>4, AskEarlyMoves, BindFailsMoves DEF Moved
  <2>6. Moved(sup, Ask(s, "bind")) /\ Moved(sup, BindFails(s))
    BY <2>4, <2>5 DEF Moved
  <2> QED BY <2>3, <2>6, SupervisorStep
<1> QED BY <1>2, <1>3 DEF Bind

LEMMA AuthorizeStep == ASSUME ScopeInv, Authorize PROVE Allowed
<1> DEFINE s == [sup EXCEPT !.authorized = TRUE]
           t == IF CanAsk(s) THEN Ask(s, "start")
                ELSE FinishScope(s, "provider-failed")
<1>1. /\ Minds(sup) /\ sup.binding = "bound" /\ ~Finishing(sup)
      /\ sup \in Supervisor /\ sup.init = "ready" /\ Steps(t)
  BY DEF ScopeInv, Authorize, Minds, Asks
<1>2. s \in Supervisor /\ s.authorized
  BY <1>1 DEF Supervisor
<1>3. /\ s.fin = sup.fin /\ s.final = sup.final /\ s.entered = sup.entered
      /\ s.binding = sup.binding /\ s.proven = sup.proven
      /\ s.directExit = sup.directExit /\ s.init = sup.init
      /\ s.fd = sup.fd /\ s.completion = sup.completion
      /\ s.gone = sup.gone /\ s.empty = sup.empty /\ s.closed = sup.closed
      /\ s.forced = sup.forced /\ s.out = sup.out /\ s.pending = sup.pending
  BY <1>1 DEF Supervisor
<1> HIDE DEF s
<1>4. Minds(s) /\ s.init = "ready" /\ ~Finishing(s)
  BY <1>1, <1>2, <1>3 DEF Minds, Asks, Listens, Knows, Shut, Over,
     Finishing, Natural
<1>5. Moved(s, t)
  BY <1>2, <1>4, AskEarlyMoves, FinishScopeMoves DEF Reasons
<1> HIDE DEF t
<1>6. /\ ScopeInv' /\ told' = told /\ Processes' = Processes
      /\ sup'.authorized = TRUE /\ sup'.completion = sup.completion
  BY <1>1, <1>2, <1>3, <1>5, SupervisorKeeps DEF Moved
<1>7. ~told /\ sup.completion = "none"
  BY <1>1 DEF Minds, Asks, Knows, Finishing
<1>8. Promised!Authorize
  BY <1>6, <1>7 DEF Promised!Authorize, Processes
<1> QED BY <1>6, <1>8 DEF Allowed, Promised!Next

LEMMA TerminateStep == ASSUME ScopeInv, Terminate PROVE Allowed
<1> DEFINE t == FinishScope(sup, "terminated")
<1>1. /\ Minds(sup) /\ sup.fin # "done" /\ sup' = t /\ told' = TRUE
      /\ UNCHANGED <<toSup, helper, processes, owner>>
  BY DEF ScopeInv, Terminate
<1>2. Moved(sup, t) /\ Finishing(t) /\ t.final # "normal"
  BY <1>1, FinishScopeMoves DEF Reasons
<1> HIDE DEF t
<1>3. Minds(sup)'
  BY <1>1, <1>2 DEF Moved, Minds, Asks, Listens, Knows, Shut, Over, Finishing,
     Natural, NoProcess, HelperLives, HelperGone, processes
<1>4. ScopeTypeOK' /\ HelperKnows' /\ UNCHANGED Processes
  BY <1>1, <1>3 DEF ScopeInv, ScopeTypeOK, Minds, HelperKnows, Processes,
     NoProcess, processes
<1>5. sup.completion = "none"
  BY <1>1 DEF Minds, Asks
<1>6. Promised!Stop
  BY <1>1, <1>2, <1>4, <1>5 DEF Promised!Stop, Moved, Processes
<1> QED BY <1>3, <1>4, <1>6 DEF Allowed, ScopeInv, Promised!Next

LEMMA OutputThrowsStep == ASSUME ScopeInv, OutputThrows PROVE Allowed
<1>1. Moved(sup, FinishScope(sup, "provider-failed"))
  BY FinishScopeMoves DEF ScopeInv, Reasons
<1> QED BY <1>1, SupervisorStep DEF OutputThrows

LEMMA ReceiveStep == ASSUME ScopeInv, Receive PROVE Allowed
<1> DEFINE f == Head(toSup)  t == Handled(f)
<1>1. /\ Minds(sup) /\ sup.fin # "done" /\ sup' = t /\ toSup' = Tail(toSup)
      /\ toSup \in Seq(Frames) /\ toSup # <<>>
      /\ UNCHANGED <<helper, processes, owner, told>>
  BY DEF ScopeInv, ScopeTypeOK, Receive
<1>2. /\ f \in Frames /\ f = toSup[1] /\ 1 \in 1..Len(toSup)
      /\ toSup' \in Seq(Frames)
      /\ \A i \in 1..Len(toSup') : i + 1 \in 1..Len(toSup)
                                   /\ toSup'[i] = toSup[i + 1]
  BY <1>1, HeadTailProperties
<1> HIDE DEF f
<1>3. /\ f = <<"direct-exit">> => root = "dead"
      /\ f[1] = "reply" /\ f[2] \in {"inspect", "stop"} /\ f[3] => Over(sup)
  BY <1>1, <1>2 DEF ScopeInv, HelperKnows, Minds, Knows
<1>4. Moved(sup, t)
  BY <1>1, <1>2, <1>3, HandledMoves
<1> HIDE DEF t
<1>5. Knows(sup)'
  <2>1. \A i \in 1..Len(toSup') :
          toSup'[i][1] = "reply" /\ toSup'[i][2] \in {"inspect", "stop"}
          /\ toSup'[i][3] => Over(t)
    BY <1>2, <1>4 DEF Moved, Minds, Knows
  <2>2. Over(t) => Over(sup)'
    BY <1>1 DEF Over, Shut, Finishing, NoProcess, processes
  <2>3. Shut(t) => Shut(sup)'
    BY <1>1 DEF Shut, Finishing
  <2> QED BY <1>1, <1>4, <2>1, <2>2, <2>3 DEF Moved, Minds, Knows, Finishing,
             HelperLives, HelperGone, processes
<1>6. Minds(sup)'
  BY <1>1, <1>4, <1>5 DEF Moved, Minds, Asks, Listens, Finishing, Natural
<1>7. ScopeTypeOK'
  BY <1>1, <1>2, <1>6 DEF ScopeInv, ScopeTypeOK, Minds, processes
<1>8. HelperKnows'
  BY <1>1, <1>2 DEF ScopeInv, HelperKnows, processes
<1>9. UNCHANGED Seen
  BY <1>1, <1>4 DEF Seen, Moved, Processes, NoProcess, processes
<1> QED BY <1>6, <1>7, <1>8, <1>9 DEF Allowed, ScopeInv

LEMMA RequestFailsStep == ASSUME ScopeInv, RequestFails PROVE Allowed
<1>1. PICK t \in sup.pending :
        sup.fin # "done" /\ Steps(Rejected(Settled(t), t))
  BY DEF RequestFails
<1>2. Moved(sup, Rejected(Taken(sup, t), t))
  BY <1>1, RejectedMoves DEF ScopeInv
<1>3. Settled(t) = Taken(sup, t)
  BY DEF Settled, Taken
<1> QED BY <1>1, <1>2, <1>3, SupervisorStep

LEMMA HelperClosesStep == ASSUME ScopeInv, HelperCloses PROVE Allowed
<1> DEFINE clean == helper.state = "exited"
           s == [sup EXCEPT !.closed = TRUE, !.connected = FALSE,
                            !.clean = clean]
           t == IF Finishing(s) THEN s
                ELSE FinishScope(RejectBoot(s), "owner-lost")
<1>1. Minds(sup) /\ HelperGone /\ Steps(t) /\ sup \in Supervisor
  BY DEF ScopeInv, HelperCloses, Minds
<1>2. clean \in BOOLEAN
  OBVIOUS
<1> HIDE DEF clean
<1>3. s \in Supervisor
  <2> DEFINE a == [sup EXCEPT !.closed = TRUE, !.connected = FALSE]
  <2>1. a \in Supervisor
    BY <1>1 DEF Supervisor
  <2>2. s = [a EXCEPT !.clean = clean]
    BY <1>1 DEF Supervisor
  <2> HIDE DEF a, s
  <2> QED BY <1>2, <2>1, <2>2 DEF Supervisor
<1>4. /\ s.fin = sup.fin /\ s.final = sup.final /\ s.entered = sup.entered
      /\ s.binding = sup.binding /\ s.proven = sup.proven
      /\ s.directExit = sup.directExit /\ s.init = sup.init
      /\ s.fd = sup.fd /\ s.completion = sup.completion
      /\ s.gone = sup.gone /\ s.empty = sup.empty
      /\ s.authorized = sup.authorized
      /\ s.forced = sup.forced /\ s.out = sup.out /\ s.pending = sup.pending
  BY <1>1 DEF Supervisor
<1> HIDE DEF s
<1>5. ~HelperLives
  BY <1>1 DEF HelperGone, HelperLives
<1>6. Moved(sup, s)
  <2>1. Asks(s) /\ Listens(s)
    BY <1>1, <1>4 DEF Minds, Asks, Listens, Finishing, Natural
  <2>2. Knows(s)
    BY <1>1, <1>4, <1>5 DEF Minds, Knows, Shut, Over, Finishing
  <2> QED BY <1>3, <1>4, <2>1, <2>2 DEF Moved, Minds
<1>7. Moved(s, RejectBoot(s))
  BY <1>6, RejectBootMoves DEF Moved
<1>8. Moved(RejectBoot(s), FinishScope(RejectBoot(s), "owner-lost"))
  BY <1>7, FinishScopeMoves DEF Moved, Reasons
<1>9. Moved(sup, t)
  BY <1>6, <1>7, <1>8 DEF Moved
<1> HIDE DEF t
<1> QED BY <1>1, <1>9, SupervisorStep

LEMMA ClosingDeadlineStep == ASSUME ScopeInv, ClosingDeadline PROVE Allowed
<1> DEFINE t == [sup EXCEPT !.late = TRUE]
<1>1. Like(sup, t) /\ Same(sup, t) /\ t.forced = sup.forced
  BY DEF ScopeInv, Minds, Like, Same, Supervisor
<1>2. Steps(t) /\ Minds(sup)
  BY DEF ClosingDeadline, ScopeInv
<1> HIDE DEF t
<1>3. Listens(t)
  BY <1>1, <1>2 DEF Minds, Listens, Like, Same
<1> QED BY <1>1, <1>2, <1>3, SameMoves, SupervisorStep

(* finish goes on to another place p, where it waits for nothing yet.      *)
Places == {"inspect", "force", "close", "close2"}
LEMMA PlaceMoves ==
  ASSUME NEW s, Minds(s), Finishing(s), s.fin \in {"init", "force", "caught"},
         NEW p \in Places, Natural(s)
  PROVE  LET t == [s EXCEPT !.fin = p] IN
         /\ Moved(s, t) /\ t.fin = p /\ Finishing(t) /\ Natural(t)
<1> DEFINE t == [s EXCEPT !.fin = p]
<1>1. Like(s, t) /\ t.fin = p /\ t.final = s.final /\ t.forced = s.forced
      /\ t.entered = s.entered
  <2>1. t \in Supervisor
    BY DEF Minds, Supervisor, Places
  <2> QED BY <2>1 DEF Minds, Like, Supervisor
<1> HIDE DEF t
<1>2. Listens(t)
  BY <1>1 DEF Minds, Listens, Like
<1>3. Finishing(t) /\ Natural(t) /\ p \notin {"none", "init", "settle", "done"}
  BY <1>1 DEF Finishing, Natural, Like, Places
<1>4. t.entered # "normal" => t.final # "normal"
  BY <1>1 DEF Minds, Asks, Finishing
<1>5. Moved(s, t)
  BY <1>1, <1>2, <1>3, <1>4, LikeMoves
<1> QED BY <1>1, <1>3, <1>5 DEF t

LEMMA FinishStartsStep == ASSUME ScopeInv, FinishStarts PROVE Allowed
<1>1. Minds(sup) /\ sup.fin = "init" /\ Finishing(sup) /\ Free(sup)
  BY DEF ScopeInv, FinishStarts, Finishing, Minds, Listens, Free
<1>2. sup.entered # "normal" => sup.final # "normal"
  BY <1>1 DEF Minds, Asks
<1>3. CASE sup.entered # "normal"
  <2> DEFINE a == [sup EXCEPT !.fin = "force"]
  <2>1. Steps(ForceOnce(a))
    BY <1>3 DEF FinishStarts
  <2>2. Natural(sup)
    BY <1>2, <1>3 DEF Natural
  <2>3. Moved(sup, a) /\ Finishing(a) /\ Natural(a)
    BY <1>1, <2>2, PlaceMoves DEF Places
  <2> HIDE DEF a
  <2>4. Moved(a, ForceOnce(a))
    BY <2>3, ForceOnceMoves DEF Moved
  <2>5. Moved(sup, ForceOnce(a))
    BY <2>3, <2>4 DEF Moved
  <2> QED BY <2>1, <2>5, SupervisorStep
<1> DEFINE stops == ~(sup.identity /\ sup.authorized /\ sup.directExit)
                    \/ ~CanAsk(sup)
<1>4. CASE sup.entered = "normal" /\ stops
  <2>1. Steps(Catch(sup))
    BY <1>4 DEF FinishStarts
  <2>2. Moved(sup, Catch(sup))
    BY <1>1, CatchMoves
  <2> QED BY <2>1, <2>2, SupervisorStep
<1>5. CASE sup.entered = "normal" /\ ~stops
  <2> DEFINE a == [sup EXCEPT !.fin = "inspect"]
  <2>1. Steps(Ask(a, "inspect"))
    BY <1>5 DEF FinishStarts
  <2>2. Natural(sup)
    BY <1>5 DEF Natural
  <2>3. Moved(sup, a) /\ a.fin = "inspect" /\ Finishing(a) /\ Natural(a)
    BY <1>1, <2>2, PlaceMoves DEF Places
  <2> HIDE DEF a
  <2>4. Moved(a, Ask(a, "inspect"))
    BY <2>3, AskMoves DEF Moved, Farewells
  <2>5. Moved(sup, Ask(a, "inspect"))
    BY <2>3, <2>4 DEF Moved
  <2> QED BY <2>1, <2>5, SupervisorStep
<1> QED BY <1>3, <1>4, <1>5

LEMMA AfterForceStep == ASSUME ScopeInv, AfterForce PROVE Allowed
<1>1. Minds(sup) /\ sup.fin \in {"force", "caught"}
  BY DEF ScopeInv, AfterForce
<1>2. Natural(sup) /\ Finishing(sup) /\ Free(sup)
  BY <1>1 DEF Minds, Asks, Listens, Finishing, Free
<1>3. ASSUME NEW p \in Places, Steps([sup EXCEPT !.fin = p]) PROVE Allowed
  <2>1. Moved(sup, [sup EXCEPT !.fin = p])
    BY <1>1, <1>2, PlaceMoves
  <2> QED BY <1>3, <2>1, SupervisorStep
<1>4. CASE Steps(Catch(sup))
  BY <1>1, <1>2, <1>4, CatchMoves, SupervisorStep
<1> QED BY <1>3, <1>4 DEF AfterForce, Places

LEMMA AfterCloseStep == ASSUME ScopeInv, AfterClose PROVE Allowed
<1>1. /\ Minds(sup) /\ sup.fin \in {"close", "close2"} /\ sup \in Supervisor
      /\ Natural(sup) /\ Finishing(sup) /\ Free(sup)
  BY DEF ScopeInv, AfterClose, Minds, Asks, Listens, Finishing, Free
<1>2. Closed => ~HelperLives
  BY <1>1 DEF Minds, Knows, Closed, HelperLives
<1>3. CASE sup.fin = "close" /\ Closed
  <2> DEFINE left == IF sup.clean THEN sup ELSE Worse(sup, "owner-lost")
             s == Looked(left)
             t == IF s.empty = "yes" THEN s ELSE Worse(s, "provider-failed")
  <2>1. Steps(t)
    BY <1>3 DEF AfterClose
  <2>2. Moved(sup, left) /\ left.fin = "close"
    BY <1>1, <1>3, WorseMoves DEF Moved, Reasons
  <2> HIDE DEF left
  <2>3. Moved(left, s) /\ s.fin = "dispose"
    BY <1>2, <1>3, <2>2, LookedMoves DEF Moved
  <2> HIDE DEF s
  <2>4. Moved(s, t)
    BY <2>3, WorseMoves DEF Moved, Finishing, Reasons
  <2> HIDE DEF t
  <2>5. Moved(sup, t)
    BY <2>2, <2>3, <2>4 DEF Moved
  <2> QED BY <2>1, <2>5, SupervisorStep
<1>4. CASE Steps(Catch(sup))
  BY <1>1, <1>4, CatchMoves, SupervisorStep
<1>5. CASE sup.fin = "close2" /\ Closed /\ Steps(Looked(sup))
  BY <1>1, <1>2, <1>5, LookedMoves, SupervisorStep
<1>6. CASE sup.fin = "close2"
           /\ Steps([sup EXCEPT !.fin = "dispose", !.empty = "unknown"])
  <2> DEFINE t == [sup EXCEPT !.fin = "dispose", !.empty = "unknown"]
  <2>1. t \in Supervisor /\ t.fin = "dispose" /\ t.empty = "unknown"
    <3>1. [sup EXCEPT !.fin = "dispose"] \in Supervisor
      BY <1>1 DEF Supervisor
    <3> DEFINE a == [sup EXCEPT !.fin = "dispose"]
    <3>2. t = [a EXCEPT !.empty = "unknown"] /\ a.fin = "dispose"
      BY <1>1 DEF Supervisor
    <3> HIDE DEF a, t
    <3>3. a \in Supervisor
      BY <3>1 DEF a
    <3> QED BY <3>2, <3>3 DEF Supervisor
  <2>2. /\ t.final = sup.final /\ t.entered = sup.entered
        /\ t.binding = sup.binding /\ t.proven = sup.proven
        /\ t.directExit = sup.directExit /\ t.init = sup.init
        /\ t.fd = sup.fd /\ t.completion = sup.completion
        /\ t.gone = sup.gone /\ t.closed = sup.closed
        /\ t.authorized = sup.authorized
        /\ t.forced = sup.forced /\ t.out = sup.out /\ t.pending = sup.pending
    BY <1>1 DEF Supervisor
  <2>3. Steps(t)
    BY <1>6
  <2> HIDE DEF t
  <2>4. Moved(sup, t)
    BY <1>1, <1>6, <2>1, <2>2 DEF Moved, Minds, Asks, Listens, Knows, Shut,
       Over, Finishing, Natural
  <2> QED BY <2>3, <2>4, SupervisorStep
<1> QED BY <1>3, <1>4, <1>5, <1>6 DEF AfterClose

LEMMA DisposeStep == ASSUME ScopeInv, Dispose PROVE Allowed
<1>1. /\ Minds(sup) /\ sup.fin = "dispose" /\ sup \in Supervisor
      /\ UNCHANGED <<toSup, processes, owner, told>>
  BY DEF ScopeInv, Dispose, Minds
<1>2. /\ sup' \in Supervisor /\ sup'.fin = "settle" /\ ~sup'.fd
      /\ sup'.final \in {sup.final, "provider-failed"}
      /\ sup'.empty \in {sup.empty, "unknown"}
      /\ sup'.entered = sup.entered /\ sup'.binding = sup.binding
      /\ sup'.proven = sup.proven /\ sup'.directExit = sup.directExit
      /\ sup'.init = sup.init /\ sup'.completion = sup.completion
      /\ sup'.gone = sup.gone /\ sup'.closed = sup.closed
      /\ sup'.authorized = sup.authorized /\ sup'.forced = sup.forced
      /\ sup'.out = sup.out /\ sup'.pending = sup.pending
  <2>1. CASE sup' = [sup EXCEPT !.fin = "settle", !.fd = FALSE]
    BY <1>1, <2>1 DEF Supervisor
  <2>2. CASE sup' = [sup EXCEPT !.fin = "settle", !.fd = FALSE,
                       !.final = "provider-failed", !.empty = "unknown"]
    <3> DEFINE a == [sup EXCEPT !.fin = "settle", !.fd = FALSE]
               b == [a EXCEPT !.final = "provider-failed"]
    <3>1. a \in Supervisor /\ a.fin = "settle" /\ ~a.fd
      BY <1>1 DEF Supervisor
    <3>2. /\ a.final = sup.final /\ a.empty = sup.empty
          /\ a.entered = sup.entered /\ a.binding = sup.binding
          /\ a.proven = sup.proven /\ a.directExit = sup.directExit
          /\ a.init = sup.init /\ a.completion = sup.completion
          /\ a.gone = sup.gone /\ a.closed = sup.closed
          /\ a.authorized = sup.authorized /\ a.forced = sup.forced
          /\ a.out = sup.out /\ a.pending = sup.pending
      BY <1>1 DEF Supervisor
    <3>3. sup' = [b EXCEPT !.empty = "unknown"]
      BY <2>2
    <3> HIDE DEF a
    <3>4. b \in Supervisor /\ b.final = "provider-failed"
      BY <3>1 DEF Supervisor, Reasons
    <3>5. /\ b.fin = a.fin /\ b.fd = a.fd /\ b.empty = a.empty
          /\ b.entered = a.entered /\ b.binding = a.binding
          /\ b.proven = a.proven /\ b.directExit = a.directExit
          /\ b.init = a.init /\ b.completion = a.completion
          /\ b.gone = a.gone /\ b.closed = a.closed
          /\ b.authorized = a.authorized /\ b.forced = a.forced
          /\ b.out = a.out /\ b.pending = a.pending
      BY <3>1 DEF Supervisor
    <3> HIDE DEF b
    <3>6. sup' \in Supervisor
      BY <3>3, <3>4 DEF Supervisor
    <3>7. /\ sup'.fin = b.fin /\ sup'.fd = b.fd /\ sup'.empty = "unknown"
          /\ sup'.final = b.final
          /\ sup'.entered = b.entered /\ sup'.binding = b.binding
          /\ sup'.proven = b.proven /\ sup'.directExit = b.directExit
          /\ sup'.init = b.init /\ sup'.completion = b.completion
          /\ sup'.gone = b.gone /\ sup'.closed = b.closed
          /\ sup'.authorized = b.authorized /\ sup'.forced = b.forced
          /\ sup'.out = b.out /\ sup'.pending = b.pending
      BY <3>3, <3>4 DEF Supervisor
    <3> QED BY <3>1, <3>2, <3>4, <3>5, <3>6, <3>7
  <2> QED BY <2>1, <2>2 DEF Dispose
<1>3. /\ helper' \in Helper /\ helper'.op = helper.op
      /\ helper'.started = helper.started /\ helper'.exited = helper.exited
      /\ helper'.drain = helper.drain
      /\ helper'.state = helper.state
         \/ (HelperLives /\ helper'.state = "killed")
      /\ sup.fd /\ ~sup.gone => helper'.state \notin {"boots", "runs"}
  BY DEF ScopeInv, ScopeTypeOK, Dispose, Helper, HelperLives
<1>4. sup.authorized => helper'.state \notin {"boots", "runs"}
  <2>1. CASE sup.gone
    BY <1>1, <1>3, <2>1 DEF Minds, Knows, HelperLives
  <2>2. CASE ~sup.gone
    BY <1>1, <1>3, <2>2 DEF Minds, Asks
  <2> QED BY <2>1, <2>2
<1>5. Asks(sup') /\ Listens(sup')
  BY <1>1, <1>2 DEF Minds, Asks, Listens, Finishing, Natural
<1>6. Knows(sup)'
  BY <1>1, <1>2, <1>3, <1>4 DEF Minds, Knows, Shut, Over, Finishing,
     NoProcess, HelperLives, HelperGone, processes
<1>7. Minds(sup)'
  BY <1>2, <1>5, <1>6 DEF Minds, Asks, Listens, Finishing, Natural
<1>8. ScopeTypeOK' /\ HelperKnows' /\ UNCHANGED Seen
  BY <1>1, <1>2, <1>3 DEF ScopeInv, ScopeTypeOK, HelperKnows, Seen,
     Processes, NoProcess, processes
<1> QED BY <1>7, <1>8 DEF Allowed, ScopeInv

LEMMA CompleteStep == ASSUME ScopeInv, Complete PROVE Allowed
<1> DEFINE r == Report(sup)
           t == [sup EXCEPT !.fin = "done", !.completion = r,
                            !.pending = {}, !.connected = FALSE]
<1>1. Minds(sup) /\ sup.fin = "settle" /\ sup \in Supervisor /\ Steps(t)
  BY DEF ScopeInv, Complete, Minds
<1>2. r \in {"closed", "empty", "unknown"}
  BY DEF Report
<1>3. /\ r # "unknown" => sup.empty = "yes"
      /\ r = "closed" => sup.final = "normal"
  BY DEF Report
<1> HIDE DEF r
<1>4. /\ t \in Supervisor /\ t.fin = "done" /\ t.completion = r
      /\ t.pending = {}
  <2> DEFINE a == [sup EXCEPT !.fin = "done", !.completion = r]
             none == {}
  <2>1. a \in Supervisor /\ a.fin = "done" /\ a.completion = r
    <3> DEFINE d == [sup EXCEPT !.fin = "done"]
    <3>1. d \in Supervisor /\ d.fin = "done" /\ a = [d EXCEPT !.completion = r]
      BY <1>1 DEF Supervisor
    <3> HIDE DEF d, a
    <3> QED BY <1>2, <3>1 DEF Supervisor
  <2>2. t = [a EXCEPT !.pending = none, !.connected = FALSE]
        /\ none \in SUBSET Requests
    OBVIOUS
  <2> HIDE DEF a, t, none
  <2>3. t \in Supervisor /\ t.fin = "done" /\ t.completion = r
        /\ t.pending = none
    BY <2>1, <2>2 DEF Supervisor
  <2> QED BY <2>3 DEF none
<1>5. /\ t.final = sup.final /\ t.entered = sup.entered
      /\ t.binding = sup.binding /\ t.proven = sup.proven
      /\ t.directExit = sup.directExit /\ t.init = sup.init
      /\ t.fd = sup.fd /\ t.empty = sup.empty
      /\ t.gone = sup.gone /\ t.closed = sup.closed
      /\ t.authorized = sup.authorized
      /\ t.forced = sup.forced /\ t.out = sup.out
  BY <1>1 DEF Supervisor
<1> HIDE DEF t
<1>6. Minds(t)
  BY <1>1, <1>2, <1>4, <1>5 DEF Minds, Asks, Listens, Knows, Shut, Over,
     Finishing, Natural
<1>7. ScopeInv' /\ UNCHANGED <<told, Processes>> /\ sup' = t
  BY <1>1, <1>6, SupervisorKeeps
<1>8. sup.completion = "none"
  BY <1>1 DEF Minds, Asks
<1>9. r # "unknown" => NoProcess
  BY <1>1, <1>3 DEF Minds, Knows, Over
<1>10. r = "closed" => sup.authorized /\ ~told /\ root = "dead"
  BY <1>1, <1>3 DEF Minds, Asks, Knows, Natural
<1>11. Promised!Complete(r)
  BY <1>4, <1>5, <1>7, <1>8, <1>9, <1>10
     DEF Promised!Complete, Processes
<1> QED BY <1>2, <1>7, <1>11 DEF Allowed, Promised!Next, Promised!Reports

(* A helper that runs goes on to helper', and may send a frame that is     *)
(* true; its supervisor's state is t.                                      *)
Truthful(f, t) ==
  /\ f = <<"direct-exit">> => root = "dead"
  /\ f[1] = "reply" /\ f[2] \in {"inspect", "stop"} /\ f[3] => Over(t)
Sends(t) == \/ toSup' = toSup
            \/ \E f \in Frames : toSup' = Append(toSup, f) /\ Truthful(f, t)

LEMMA HelperStep ==
  ASSUME ScopeInv, HelperLives, NEW t, Moved(sup, t), sup' = t,
         UNCHANGED <<processes, owner, told>>, Sends(t),
         helper' \in Helper, helper'.state # "none",
         helper'.started = helper.started,
         helper'.exited => root = "dead", helper'.drain => helper'.exited,
         helper'.op = "stop" => Shut(t)
  PROVE  Allowed
<1>1. toSup \in Seq(Frames) /\ Minds(t) /\ HelperKnows
  BY DEF ScopeInv, ScopeTypeOK, Moved
<1>2. /\ toSup' \in Seq(Frames)
      /\ \A i \in 1..Len(toSup') : Truthful(toSup'[i], t)
  <2>1. \A i \in 1..Len(toSup) : Truthful(toSup[i], t)
    BY <1>1 DEF Truthful, HelperKnows, Minds, Knows
  <2>2. CASE toSup' = toSup
    BY <1>1, <2>1, <2>2
  <2>3. ASSUME NEW f \in Frames, toSup' = Append(toSup, f), Truthful(f, t)
        PROVE  /\ toSup' \in Seq(Frames)
               /\ \A i \in 1..Len(toSup') : Truthful(toSup'[i], t)
    <3>1. /\ toSup' \in Seq(Frames) /\ Len(toSup) \in Nat
          /\ Len(toSup') = Len(toSup) + 1 /\ toSup'[Len(toSup) + 1] = f
          /\ \A i \in 1..Len(toSup) : toSup'[i] = toSup[i]
      BY <1>1, <2>3, AppendProperties
    <3>2. \A i \in 1..Len(toSup') : i \in 1..Len(toSup) \/ i = Len(toSup) + 1
      BY <3>1
    <3> QED BY <2>1, <2>3, <3>1, <3>2
  <2> QED BY <2>2, <2>3 DEF Sends
<1>3. Knows(sup)'
  <2>1. \A i \in 1..Len(toSup') :
          toSup'[i][1] = "reply" /\ toSup'[i][2] \in {"inspect", "stop"}
          /\ toSup'[i][3] => Over(t)
    BY <1>2 DEF Truthful
  <2>2. (Over(t) => Over(sup)') /\ (Shut(t) => Shut(sup)')
    BY DEF Over, Shut, Finishing, NoProcess, processes
  <2>3. /\ ~t.gone /\ ~t.closed /\ t.init # "backend"
        /\ ~(t.fin \in {"settle", "done"} /\ t.authorized)
    BY <1>1 DEF Minds, Knows, HelperLives, HelperGone
  <2> QED BY <1>1, <2>1, <2>2, <2>3 DEF Minds, Knows, Finishing, processes
<1>4. Minds(sup)'
  BY <1>1, <1>3 DEF Minds, Asks, Listens, Finishing, Natural
<1>5. ScopeTypeOK'
  BY <1>2, <1>4 DEF ScopeInv, ScopeTypeOK, Minds, processes
<1>6. HelperKnows'
  BY <1>1, <1>2 DEF HelperKnows, Truthful, processes
<1>7. UNCHANGED Seen
  BY DEF Seen, Moved, Processes, NoProcess, processes
<1> QED BY <1>4, <1>5, <1>6, <1>7 DEF Allowed, ScopeInv

(* What is known of a helper that lives.                                   *)
LEMMA HelperFacts ==
  ASSUME ScopeInv, HelperLives
  PROVE  /\ helper \in Helper /\ Moved(sup, sup)
         /\ helper.exited => root = "dead"
         /\ helper.drain => helper.exited
         /\ helper.op = "stop" => Shut(sup)
         /\ helper.started <=> root # "none"
BY DEF ScopeInv, ScopeTypeOK, HelperKnows, Minds, Knows, Moved

LEMMA TrueFrames ==
  /\ <<"ready">> \in Frames /\ <<"direct-exit">> \in Frames
  /\ \A t \in Requests, b \in BOOLEAN : Reply(t, b) \in Frames
BY DEF Frames, Reply

(* Says: what is sent, or the helper gives up.                             *)
LEMMA SaysSends ==
  ASSUME NEW h, NEW f \in Frames, Says(h, f), NEW t, Truthful(f, t)
  PROVE  /\ Sends(t)
         /\ helper' = h \/ helper' = [h EXCEPT !.abandon = TRUE]
BY DEF Says, Sends

LEMMA HelperBootsStep == ASSUME ScopeInv, HelperBoots PROVE Allowed
<1>1. HelperLives /\ UNCHANGED <<processes, aside>>
  BY DEF HelperBoots, HelperLives
<1> USE HelperFacts
<1>2. CASE Says([helper EXCEPT !.state = "runs"], <<"ready">>)
  <2>1. Truthful(<<"ready">>, sup)
    BY DEF Truthful
  <2>2. Sends(sup)
    BY <1>2, <2>1, TrueFrames, SaysSends
  <2>3. /\ helper' \in Helper /\ helper'.state = "runs"
        /\ helper'.started = helper.started /\ helper'.exited = helper.exited
        /\ helper'.drain = helper.drain /\ helper'.op = helper.op
    BY <1>1, <1>2 DEF Says, Helper
  <2> QED BY <1>1, <2>2, <2>3, HelperStep DEF aside
<1>3. CASE helper' = [helper EXCEPT !.state = "failed"] /\ UNCHANGED toSup
  BY <1>1, <1>3, HelperEnds DEF aside
<1> QED BY <1>2, <1>3 DEF HelperBoots

LEMMA CommandClosesStep == ASSUME ScopeInv, CommandCloses PROVE Allowed
<1>1. HelperLives /\ UNCHANGED <<toSup, processes, aside>> /\ root = "dead"
  BY DEF CommandCloses, HelperLives, Runs
<1>2. /\ helper' \in Helper /\ helper'.state = helper.state
      /\ helper'.started = helper.started /\ helper'.exited
      /\ helper'.op = helper.op
  BY <1>1, HelperFacts DEF CommandCloses, Helper
<1> QED BY <1>1, <1>2, HelperFacts, HelperStep DEF aside, Sends, HelperLives

LEMMA OutputDrainedStep == ASSUME ScopeInv, OutputDrained PROVE Allowed
<1>1. HelperLives /\ UNCHANGED <<processes, aside>> /\ root = "dead"
      /\ helper.state = "runs"
  BY HelperFacts DEF OutputDrained, HelperLives, Runs
<1>2. /\ helper' \in Helper /\ helper'.state = helper.state
      /\ helper'.started = helper.started /\ helper'.exited = helper.exited
      /\ ~helper'.drain /\ helper'.op = helper.op
  BY <1>1, HelperFacts DEF OutputDrained, Says, Helper
<1>3. Sends(sup)
  <2>1. Truthful(<<"direct-exit">>, sup)
    BY <1>1 DEF Truthful
  <2>2. CASE Says([helper EXCEPT !.drain = FALSE], <<"direct-exit">>)
    BY <2>1, <2>2, TrueFrames, SaysSends
  <2> QED BY <2>2 DEF OutputDrained, Sends
<1> QED BY <1>1, <1>2, <1>3, HelperFacts, HelperStep DEF aside

LEMMA StopEndsStep == ASSUME ScopeInv, StopEnds PROVE Allowed
<1>1. HelperLives /\ UNCHANGED <<processes, aside>> /\ helper.op = "stop"
      /\ helper.state = "runs"
  BY DEF StopEnds, HelperLives, Runs
<1>2. /\ helper' \in Helper /\ helper'.state = helper.state
      /\ helper'.started = helper.started /\ helper'.exited = helper.exited
      /\ helper'.drain = helper.drain /\ helper'.op = "none"
  BY <1>1, HelperFacts DEF StopEnds, Says, Helper
<1>3. Sends(sup)
  <2> DEFINE empty == ReaperEmpty
  <2>1. empty \in BOOLEAN /\ (empty => Over(sup))
    BY <1>1, HelperFacts DEF ReaperEmpty, Over
  <2>2. CASE Says([helper EXCEPT !.op = "none"], Reply("stop", empty))
    <3> HIDE DEF empty
    <3>1. Truthful(Reply("stop", empty), sup)
      BY <2>1 DEF Truthful, Reply
    <3>2. Reply("stop", empty) \in Frames
      BY <2>1, TrueFrames DEF Requests
    <3> QED BY <2>2, <3>1, <3>2, SaysSends
  <2> QED BY <2>2 DEF StopEnds, Sends
<1> QED BY <1>1, <1>2, <1>3, HelperFacts, HelperStep DEF aside

LEMMA AbandonStep == ASSUME ScopeInv, Abandon PROVE Allowed
<1>1. HelperLives /\ UNCHANGED <<toSup, processes, aside>>
      /\ helper.state = "runs"
  BY DEF Abandon, HelperLives, Runs
<1>2. /\ helper' \in Helper /\ helper'.state = helper.state
      /\ helper'.started = helper.started /\ helper'.exited = helper.exited
      /\ helper'.drain = helper.drain /\ helper'.op = helper.op
  BY <1>1, HelperFacts DEF Abandon, Helper
<1> QED BY <1>1, <1>2, HelperFacts, HelperStep DEF aside, Sends

LEMMA HelperExitsStep == ASSUME ScopeInv, HelperExits PROVE Allowed
<1>1. HelperLives /\ UNCHANGED <<toSup, processes, aside>>
  BY DEF HelperExits, HelperLives, Runs
<1> QED BY <1>1, HelperFacts, HelperEnds DEF HelperExits, aside

LEMMA HelperDiesStep == ASSUME ScopeInv, HelperDies PROVE Allowed
<1>1. HelperLives /\ UNCHANGED <<toSup, processes, aside>>
  BY DEF HelperDies
<1> QED BY <1>1, HelperFacts, HelperEnds DEF HelperDies, aside

(* A request is taken from the queue.                                      *)
LEMMA TakenRequest ==
  ASSUME ScopeInv, sup.out # <<>>,
         NEW t, t = [sup EXCEPT !.out = Tail(sup.out)]
  PROVE  /\ Moved(sup, t) /\ Head(sup.out) \in Requests
         /\ t.fin = sup.fin /\ t.directExit = sup.directExit
         /\ Shut(sup) => Shut(t)
         /\ Head(sup.out) \in Farewells => Shut(t)
         /\ Head(sup.out) = "start" => sup.authorized /\ ~Shut(sup)
<1> DEFINE q == Tail(sup.out)
<1>1. Minds(sup) /\ sup \in Supervisor /\ sup.out \in Seq(Requests)
  BY DEF ScopeInv, Minds, Supervisor
<1>2. /\ Head(sup.out) \in Requests /\ Has(sup.out, Head(sup.out))
      /\ q \in Seq(Requests) /\ Ordered(q)
      /\ \A r : Has(q, r) => Has(sup.out, r)
      /\ Head(sup.out) \in Farewells => ~Has(q, "start")
  BY <1>1, TakenFirst DEF Minds, Asks
<1>3. t = [sup EXCEPT !.out = q]
  OBVIOUS
<1> HIDE DEF q
<1>4. t \in Supervisor /\ t.out = q
  BY <1>1, <1>2, <1>3 DEF Supervisor
<1>5. /\ t.fin = sup.fin /\ t.final = sup.final /\ t.entered = sup.entered
      /\ t.authorized = sup.authorized
      /\ t.directExit = sup.directExit /\ t.binding = sup.binding
      /\ t.init = sup.init /\ t.fd = sup.fd /\ t.completion = sup.completion
      /\ t.gone = sup.gone /\ t.proven = sup.proven
      /\ t.empty = sup.empty /\ t.closed = sup.closed
      /\ t.forced = sup.forced /\ t.pending = sup.pending
  BY <1>1, <1>3 DEF Supervisor
<1>6. Asks(t)
  BY <1>1, <1>2, <1>4, <1>5 DEF Minds, Asks, Finishing, Natural
<1>7. Listens(t)
  BY <1>1, <1>5 DEF Minds, Listens
<1>8. Shut(sup) => Shut(t)
  BY <1>2, <1>4, <1>5 DEF Shut, Finishing
<1>9. Knows(t)
  BY <1>1, <1>5, <1>8 DEF Minds, Knows, Over, Finishing
<1>10. Head(sup.out) \in Farewells => Shut(t)
  BY <1>1, <1>2, <1>4, <1>5 DEF Minds, Asks, Shut, Finishing
<1>11. Head(sup.out) = "start" => sup.authorized /\ ~Shut(sup)
  BY <1>1, <1>2 DEF Minds, Asks, Shut
<1> QED BY <1>2, <1>4, <1>5, <1>6, <1>7, <1>8, <1>9, <1>10, <1>11
           DEF Minds, Moved

(* The command is started: nothing claims that there is no process.        *)
LEMMA StartedStep ==
  ASSUME ScopeInv, Runs, helper.op = "none", sup.out # <<>>,
         Head(sup.out) = "start", ~helper.started,
         sup' = [sup EXCEPT !.out = Tail(sup.out)],
         Says([helper EXCEPT !.started = TRUE], Reply("start", TRUE)),
         root' \in {"runs", "dead"}, UNCHANGED <<kids, owner, told>>
  PROVE  Allowed
<1> DEFINE t == [sup EXCEPT !.out = Tail(sup.out)]
<1>1. /\ Moved(sup, t) /\ sup.authorized /\ ~Shut(sup)
      /\ t.fin = sup.fin /\ t.directExit = sup.directExit /\ sup' = t
  BY TakenRequest
<1> HIDE DEF t
<1>2. /\ helper \in Helper /\ HelperLives /\ root = "none" /\ kids = 0
      /\ toSup \in Seq(Frames) /\ ~helper.exited /\ ~helper.drain
      /\ ~sup.directExit /\ kids \in 0..MaxKids
  BY ScopeAssumption DEF ScopeInv, ScopeTypeOK, HelperKnows, Runs, HelperLives,
     Minds, Knows
<1>3. /\ helper' \in Helper /\ helper'.state = "runs" /\ helper'.started
      /\ helper'.op = "none" /\ ~helper'.exited /\ ~helper'.drain
  BY <1>2 DEF Says, Helper, Runs
<1>4. \A i \in 1..Len(toSup) :
        /\ toSup[i] # <<"direct-exit">>
        /\ ~(toSup[i][1] = "reply" /\ toSup[i][2] \in {"inspect", "stop"}
             /\ toSup[i][3])
  BY <1>1, <1>2 DEF ScopeInv, HelperKnows, Minds, Knows, Over
<1>5. /\ toSup' \in Seq(Frames)
      /\ \A i \in 1..Len(toSup') :
           /\ toSup'[i] # <<"direct-exit">>
           /\ ~(toSup'[i][1] = "reply" /\ toSup'[i][2] \in {"inspect", "stop"}
                /\ toSup'[i][3])
  <2> DEFINE f == Reply("start", TRUE)
  <2>1. CASE toSup' = toSup
    BY <1>2, <1>4, <2>1
  <2>2. CASE toSup' = Append(toSup, f)
    <3>1. f \in Frames
      BY TrueFrames DEF Requests
    <3>2. f # <<"direct-exit">> /\ f[2] \notin {"inspect", "stop"}
      BY DEF Reply
    <3> HIDE DEF f
    <3>3. /\ toSup' \in Seq(Frames) /\ Len(toSup) \in Nat
          /\ Len(toSup') = Len(toSup) + 1 /\ toSup'[Len(toSup) + 1] = f
          /\ \A i \in 1..Len(toSup) : toSup'[i] = toSup[i]
      BY <1>2, <2>2, <3>1, AppendProperties
    <3>4. \A i \in 1..Len(toSup') : i \in 1..Len(toSup) \/ i = Len(toSup) + 1
      BY <3>3
    <3> QED BY <1>4, <3>2, <3>3, <3>4
  <2> QED BY <2>1, <2>2 DEF Says
<1>6. /\ sup.fin \notin {"settle", "done"} /\ sup.completion = "none"
      /\ ~t.proven /\ t.empty # "yes"
  <2>1. sup.fin \notin {"settle", "done"}
    BY <1>1, <1>2 DEF ScopeInv, Minds, Knows
  <2>2. sup.completion = "none"
    BY <2>1 DEF ScopeInv, Minds, Asks
  <2>3. ~sup.proven /\ sup.empty # "yes"
    BY <1>1 DEF ScopeInv, Minds, Knows, Over
  <2>4. t.proven = sup.proven /\ t.empty = sup.empty
    BY DEF ScopeInv, Minds, Supervisor, t
  <2> QED BY <2>1, <2>2, <2>3, <2>4
<1>7. Knows(sup)'
  BY <1>1, <1>2, <1>3, <1>5, <1>6 DEF Moved, Minds, Knows, Finishing,
     HelperLives, HelperGone
<1>8. Minds(sup)'
  BY <1>1, <1>7 DEF Moved, Minds, Asks, Listens, Finishing, Natural
<1>9. ScopeTypeOK'
  BY <1>2, <1>3, <1>5, <1>8 DEF ScopeInv, ScopeTypeOK, Minds
<1>10. HelperKnows'
  BY <1>2, <1>3, <1>5 DEF HelperKnows
<1>11. Promised!Start
  BY <1>1, <1>2, <1>6 DEF Promised!Start, Moved, NoProcess
<1> QED BY <1>8, <1>9, <1>10, <1>11 DEF Allowed, ScopeInv, Promised!Next

LEMMA HelperReceivesStep == ASSUME ScopeInv, HelperReceives PROVE Allowed
<1> DEFINE t == [sup EXCEPT !.out = Tail(sup.out)]  r == Head(sup.out)
           abandons == /\ helper' = [helper EXCEPT !.abandon = TRUE]
                       /\ UNCHANGED <<toSup, root>>
<1>1. /\ Runs /\ HelperLives /\ helper.op = "none" /\ sup.out # <<>>
      /\ helper.state = "runs" /\ UNCHANGED <<kids, owner, told>>
  BY DEF HelperReceives, Runs, HelperLives
<1>2. sup' = t
  BY DEF HelperReceives
<1>3. /\ Moved(sup, t) /\ r \in Requests
      /\ r \in Farewells => Shut(t)
  BY <1>1, TakenRequest
<1>4. helper \in Helper /\ (helper.exited => root = "dead")
      /\ (helper.drain => helper.exited)
  BY <1>1, HelperFacts
<1> DEFINE keeps == /\ helper' \in Helper /\ helper'.state = "runs"
                    /\ helper'.started = helper.started
                    /\ helper'.exited = helper.exited
                    /\ helper'.drain = helper.drain
<1>5. ASSUME keeps, helper'.op = "stop" => r = "stop", Sends(t), root' = root
      PROVE  Allowed
  <2>1. helper'.op = "stop" => Shut(t)
    BY <1>3, <1>5 DEF Farewells
  <2>2. UNCHANGED <<processes, owner, told>>
    BY <1>1, <1>5 DEF processes
  <2> HIDE DEF t, r
  <2> QED BY <1>1, <1>2, <1>3, <1>4, <1>5, <2>1, <2>2, HelperStep
<1>6. CASE Stopping /\ UNCHANGED <<helper, toSup, root>>
  BY <1>1, <1>4, <1>5, <1>6 DEF Sends
<1>7. ASSUME NEW b \in BOOLEAN,
             r = "inspect" /\ b => NoProcess, r # "stop",
             NEW h \in {helper, [helper EXCEPT !.bound = TRUE],
                        [helper EXCEPT !.op = "leave"]},
             Says(h, Reply(r, b)), root' = root
      PROVE  Allowed
  <2>1. Truthful(Reply(r, b), t)
    BY <1>3, <1>7 DEF Truthful, Reply, Over, Farewells
  <2>2. Reply(r, b) \in Frames
    BY <1>3, TrueFrames
  <2> HIDE DEF t, r
  <2>3. Sends(t) /\ (helper' = h \/ helper' = [h EXCEPT !.abandon = TRUE])
    BY <1>7, <2>1, <2>2, SaysSends
  <2>4. h \in Helper /\ h.state = "runs" /\ h.started = helper.started
        /\ h.exited = helper.exited /\ h.drain = helper.drain
        /\ h.op # "stop"
    BY <1>1, <1>4, <1>7 DEF Helper
  <2>5. keeps /\ helper'.op # "stop"
    BY <2>3, <2>4 DEF Helper
  <2> HIDE DEF keeps
  <2> QED BY <1>5, <1>7, <2>3, <2>5
<1>8. ASSUME abandons PROVE Allowed
  <2>1. keeps /\ helper'.op = "none"
    BY <1>1, <1>4, <1>8 DEF Helper
  <2> QED BY <1>5, <1>8, <2>1 DEF Sends
<1>9. CASE r = "stop" /\ helper' = [helper EXCEPT !.op = "stop"]
           /\ UNCHANGED <<toSup, root>>
  <2>1. keeps
    BY <1>1, <1>4, <1>9 DEF Helper
  <2> QED BY <1>5, <1>9, <2>1 DEF Sends
<1>10. CASE r = "start" /\ ~helper.started
            /\ Says([helper EXCEPT !.started = TRUE], Reply(r, TRUE))
            /\ root' \in {"runs", "dead"}
  BY <1>1, <1>2, <1>10, StartedStep
<1>11. CASE r = "bind" /\ Says([helper EXCEPT !.bound = TRUE], Reply(r, TRUE))
            /\ UNCHANGED root
  BY <1>7, <1>11
<1>12. CASE r = "inspect" /\ Says(helper, Reply(r, ReaperEmpty))
            /\ UNCHANGED root
  <2> DEFINE b == ReaperEmpty
  <2>1. b \in BOOLEAN /\ (b => NoProcess)
    BY DEF ReaperEmpty
  <2>2. Says(helper, Reply(r, b)) /\ root' = root /\ r = "inspect"
    BY <1>12
  <2> HIDE DEF b, r, t, keeps
  <2> QED BY <1>7, <2>1, <2>2
<1>13. CASE r = "finish" /\ Says([helper EXCEPT !.op = "leave"], Reply(r, TRUE))
            /\ UNCHANGED root
  BY <1>7, <1>13
<1> HIDE DEF keeps
<1> QED BY <1>6, <1>8, <1>9, <1>10, <1>11, <1>12, <1>13 DEF HelperReceives

(* Processes come and go.                                                  *)
LEMMA ProcessesStep ==
  ASSUME ScopeInv, UNCHANGED <<sup, toSup, helper, owner, told>>,
         root' \in {"runs", "dead"}, root # "none",
         root = "dead" => root' = "dead",
         kids' \in 0..MaxKids, NoProcess => NoProcess'
  PROVE  Allowed
<1>1. Minds(sup)'
  BY DEF ScopeInv, Minds, Asks, Listens, Knows, Shut, Over, Finishing, Natural,
     HelperLives, HelperGone
<1>2. ScopeTypeOK' /\ HelperKnows'
  BY DEF ScopeInv, ScopeTypeOK, HelperKnows
<1>3. Promised!End \/ UNCHANGED Seen
  BY DEF Promised!End, Seen, Processes
<1> QED BY <1>1, <1>2, <1>3 DEF Allowed, ScopeInv, Promised!Next

LEMMA ReaperKillsStep == ASSUME ScopeInv, ReaperKills PROVE Allowed
<1>1. /\ root \in {"none", "runs", "dead"} /\ kids \in 0..MaxKids
      /\ kids > 0 => root # "none"
  BY DEF ScopeInv, ScopeTypeOK, HelperKnows
<1>2. root # "none" /\ ~NoProcess
  BY <1>1, ScopeAssumption DEF ReaperKills, NoProcess
<1>3. root' \in {"runs", "dead"} /\ (root = "dead" => root' = "dead")
      /\ UNCHANGED <<sup, toSup, helper, owner, told>>
  BY <1>1, <1>2 DEF ReaperKills, aside
<1>4. kids' \in 0..MaxKids
  BY <1>1, ScopeAssumption DEF ReaperKills
<1> QED BY <1>2, <1>3, <1>4, ProcessesStep

LEMMA ForkStep == ASSUME ScopeInv, Fork PROVE Allowed
<1>1. /\ root \in {"none", "runs", "dead"} /\ kids \in 0..MaxKids
      /\ kids > 0 => root # "none"
  BY DEF ScopeInv, ScopeTypeOK, HelperKnows
<1>2. root # "none" /\ ~NoProcess /\ kids' \in 0..MaxKids /\ root' = root
      /\ UNCHANGED <<sup, toSup, helper, owner, told>>
  BY <1>1, ScopeAssumption DEF Fork, NoProcess
<1> QED BY <1>1, <1>2, ProcessesStep

LEMMA ProcessEndsStep == ASSUME ScopeInv, ProcessEnds PROVE Allowed
<1>1. /\ root \in {"none", "runs", "dead"} /\ kids \in 0..MaxKids
      /\ kids > 0 => root # "none"
  BY DEF ScopeInv, ScopeTypeOK, HelperKnows
<1>2. root # "none" /\ ~NoProcess /\ kids' \in 0..MaxKids
      /\ UNCHANGED <<sup, toSup, helper, owner, told>>
      /\ root' \in {"runs", "dead"} /\ (root = "dead" => root' = "dead")
  BY <1>1, ScopeAssumption DEF ProcessEnds, NoProcess
<1> QED BY <1>2, ProcessesStep

LEMMA OwnerDiesStep == ASSUME ScopeInv, OwnerDies PROVE Allowed
<1>1. UNCHANGED <<sup, toSup, helper, root, kids, told>> /\ owner' = FALSE
  BY DEF OwnerDies, processes
<1>2. Minds(sup)'
  BY <1>1 DEF ScopeInv, Minds, Asks, Listens, Knows, Shut, Over, Finishing,
     Natural, NoProcess, HelperLives, HelperGone
<1>3. ScopeTypeOK' /\ HelperKnows' /\ UNCHANGED Seen
  BY <1>1 DEF ScopeInv, ScopeTypeOK, HelperKnows, Seen, Processes, NoProcess
<1> QED BY <1>2, <1>3 DEF Allowed, ScopeInv

LEMMA ScopeInitInv == ASSUME ScopeInit PROVE ScopeInv
<1>1. /\ helper \in Helper /\ toSup = <<>> /\ toSup \in Seq(Frames)
      /\ root = "none" /\ kids = 0 /\ kids \in 0..MaxKids
      /\ owner \in BOOLEAN /\ told = FALSE
      /\ ~helper.started /\ ~helper.exited /\ ~helper.drain
      /\ helper.state = "none" /\ helper.op = "none"
  BY ScopeAssumption DEF ScopeInit, ScopeUnused, Helper
<1>2. /\ sup \in Supervisor /\ sup.out = <<>> /\ sup.pending = {}
      /\ sup.init = "backend" /\ sup.fin = "none" /\ sup.final = "normal"
      /\ ~sup.authorized /\ ~sup.directExit /\ sup.binding = "none"
      /\ ~sup.fd /\ ~sup.proven /\ ~sup.gone /\ ~sup.closed
      /\ sup.empty = "unknown" /\ sup.completion = "none"
  BY DEF ScopeInit, ScopeUnused, Supervisor, Reasons
<1>3. \A r : ~Has(sup.out, r)
  BY <1>2 DEF Has
<1>4. Ordered(sup.out)
  BY <1>2 DEF Ordered
<1>5. Asks(sup) /\ Listens(sup)
  BY <1>2, <1>3, <1>4 DEF Asks, Listens, Finishing, Natural
<1>6. Knows(sup)
  BY <1>1, <1>2 DEF Knows, HelperLives, HelperGone
<1>7. ScopeTypeOK
  BY <1>1, <1>2 DEF ScopeTypeOK
<1>8. HelperKnows
  BY <1>1 DEF HelperKnows
<1> QED BY <1>2, <1>5, <1>6, <1>7, <1>8 DEF ScopeInv, Minds

LEMMA OwnedScopeStep == ASSUME ScopeInv, [ScopeNext]_scopeVars PROVE Allowed
<1>1. CASE SupervisorSteps
  BY <1>1, CreateBackendStep, SpawnHelperStep, AttachStep, BootedStep,
     ReceiveStep, RequestFailsStep, HelperClosesStep, ClosingDeadlineStep,
     FinishStartsStep, AfterForceStep, AfterCloseStep, DisposeStep,
     CompleteStep DEF SupervisorSteps
<1>2. CASE HelperSteps
  BY <1>2, HelperBootsStep, HelperReceivesStep, CommandClosesStep,
     OutputDrainedStep, ReaperKillsStep, StopEndsStep, AbandonStep,
     HelperExitsStep DEF HelperSteps
<1>3. CASE ScopeCaller
  BY <1>3, BindStep, AuthorizeStep, TerminateStep, OutputThrowsStep
     DEF ScopeCaller
<1>4. CASE Environment
  BY <1>4, StartupTimeoutStep, HelperDiesStep, ForkStep, ProcessEndsStep,
     OwnerDiesStep DEF Environment
<1>5. CASE UNCHANGED scopeVars
  <2>1. UNCHANGED <<sup, toSup, helper, root, kids, owner, told>>
    BY <1>5 DEF scopeVars
  <2>2. Minds(sup)'
    BY <2>1 DEF ScopeInv, Minds, Asks, Listens, Knows, Shut, Over, Finishing,
       Natural, NoProcess, HelperLives, HelperGone
  <2>3. ScopeTypeOK' /\ HelperKnows' /\ UNCHANGED Seen
    BY <2>1 DEF ScopeInv, ScopeTypeOK, HelperKnows, Seen, Processes, NoProcess
  <2> QED BY <2>2, <2>3 DEF Allowed, ScopeInv
<1> QED BY <1>1, <1>2, <1>3, <1>4, <1>5 DEF ScopeNext

LEMMA ScopeInvariant == ScopeSpec => []ScopeInv
<1>1. ScopeInit => ScopeInv
  BY ScopeInitInv
<1>2. ScopeInv /\ [ScopeNext]_scopeVars => ScopeInv'
  BY OwnedScopeStep DEF Allowed
<1> QED BY <1>1, <1>2, PTL DEF ScopeSpec

(* The state of an owned scope has its type: every frame, reason and place *)
(* of finish is one that the supervisor and its helper know.               *)
THEOREM ScopeTypeCorrect == ScopeSpec => []ScopeTypeOK
<1>1. ScopeInv => ScopeTypeOK
  BY DEF ScopeInv
<1> QED BY <1>1, ScopeInvariant, PTL

(* Whatever fails, is late or is killed, and in whatever order: a command  *)
(* is started only after authorize and before the completion, which is     *)
(* reported once; the completion says closed only of a scope nobody told   *)
(* to stop, and closed or empty only when no process of it is left, though *)
(* the reaper looked before the completion and the start may have been on  *)
(* its way.                                                                *)
THEOREM ScopeKeepsPromise == ScopeSpec => PromiseKept
<1>1. ScopeInit => Promised!Init
  BY DEF ScopeInit, ScopeUnused, Promised!Init
<1>2. ScopeInv /\ [ScopeNext]_scopeVars => [Promised!Next]_Seen
  BY OwnedScopeStep DEF Allowed
<1>3. ScopeInv /\ [ScopeNext]_scopeVars =>
        [Promised!Next]_<<sup.authorized, told,
                          IF root = "none" THEN "none"
                          ELSE IF NoProcess THEN "gone" ELSE "alive",
                          sup.completion>>
  BY <1>2 DEF Seen, Processes
<1> QED BY <1>1, <1>3, ScopeInvariant, PTL
           DEF ScopeSpec, PromiseKept, Promised!Spec

==============================================================================
