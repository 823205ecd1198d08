----------------------------- MODULE ManagedRelease -----------------------------
(***************************************************************************)
(* A managed release of @openge/forge-release-vercel: check, publish and   *)
(* verify, run one after the other on one slot, and the recovery of a run  *)
(* whose coordinator died.  A run builds a candidate of one source, has    *)
(* the cloud create its deployment, binds the source's version alias,      *)
(* promotes it to production and runs the completion job.                  *)
(*                                                                         *)
(* The slot on disk outlives a coordinator: the state of the last run, the *)
(* archive of earlier runs, the receipt of the last publish, the anchor    *)
(* and the run lock.  Every step of a coordinator ends with a write to it. *)
(* A request to the cloud may arrive late, after the coordinator gave up   *)
(* waiting or died, or stay on its way for ever; its answer may be lost.   *)
(*                                                                         *)
(* A run is named by its number, and so is the deployment it creates.  The *)
(* lock admits one coordinator; a second invocation is refused while it    *)
(* lives, so at most one is modelled at a time.                            *)
(***************************************************************************)
EXTENDS Naturals, Sequences, FiniteSets

CONSTANTS
  Sources,    \* the commits one may release
  NoSource,   \* no candidate
  Settings,   \* [alias, completion]: whether the configuration has them
  MaxRuns, MaxCrashes

ASSUME ReleaseAssumption ==
  /\ NoSource \notin Sources
  /\ Settings \subseteq [alias : BOOLEAN, completion : BOOLEAN]
  /\ MaxRuns \in Nat /\ MaxCrashes \in Nat

VARIABLES
  setting,   \* the configuration
  co,        \* the coordinator (Idle when there is none)
  state,     \* state.json, the state of the last run (ManagedState)
  history,   \* run -> its archive (ManagedDisposition)
  receipt,   \* latest-publish.json (run 0: none)
  anchor,    \* the anchor's latestPublish (run 0: none)
  lock,      \* the run that run.lock names (0: none)
  runs, crashes,  \* how many there were
  cloud,     \* the deployments, version aliases, production, lastAliasRequest
  requests,  \* what was sent to the cloud and has not arrived
  posts,     \* history: the deployments promoted, in the order of the POSTs
  served     \* history: the deployments that were in production

slot == <<state, history, receipt, anchor, lock>>
remote == <<cloud, requests, posts, served>>
vars == <<setting, co, slot, runs, crashes, remote>>

Runs == 1..MaxRuns
Effects == {"not-attempted", "unknown", "accepted"}

(* id: deploymentId; bound: versionAlias.verified; accepted:               *)
(* acceptanceVerified; promoted: promotionVerified.                        *)
Candidate == [source : Sources \cup {NoSource}, id : 0..MaxRuns,
  create : Effects, alias : Effects, bound : BOOLEAN,
  accepted : BOOLEAN, promote : Effects, promoted : BOOLEAN]
Fresh(s) == [source |-> s, id |-> 0, create |-> "not-attempted",
  alias |-> "not-attempted", bound |-> FALSE, accepted |-> FALSE,
  promote |-> "not-attempted", promoted |-> FALSE]
NoCandidate == Fresh(NoSource)

(* origin: publicationRunId (0: no completion); id: of the context; one    *)
(* attempt per run.                                                        *)
NoCompletion == [origin |-> 0, id |-> 0, status |-> "none", attempts |-> <<>>]
NoReceipt == [run |-> 0, source |-> NoSource, prebuilt |-> NoCandidate,
              completion |-> NoCompletion]
Idle == [pc |-> "none", run |-> 0, command |-> "none", source |-> NoSource,
         retry |-> FALSE, selected |-> NoReceipt, answered |-> FALSE,
         ok |-> TRUE]

Init ==
  /\ setting \in Settings
  /\ co = Idle
  /\ state = [run |-> 0, command |-> "none", source |-> NoSource,
              status |-> "none", prebuilt |-> NoCandidate, proofs |-> {},
              completion |-> NoCompletion]
  /\ history = <<>> /\ receipt = NoReceipt
  /\ anchor = [run |-> 0, source |-> NoSource]
  /\ lock = 0 /\ runs = 0 /\ crashes = 0
  /\ cloud = [deployed |-> {}, alias |-> [s \in Sources |-> 0],
              production |-> 0, job |-> [to |-> 0, status |-> "none"]]
  /\ requests = {} /\ posts = <<>> /\ served = {}

------------------------------------------------------------------------------
(* What a run may conclude from the cloud.                                 *)

BoundTo(p) == setting.alias => cloud.alias[p.source] = p.id

(* Not this: a promotion under way counts as done.                         *)
InProductionSoon(p) == cloud.job.to = p.id /\ cloud.job.status # "failed"

(* alias(): the last alias request promoted it and production serves it.   *)
InProduction(p) ==
  cloud.job = [to |-> p.id, status |-> "succeeded"] /\ cloud.production = p.id

PromotionFailed(p) == cloud.job = [to |-> p.id, status |-> "failed"]

Uncertain(effect, verified) ==
  effect = "unknown" \/ (effect = "accepted" /\ ~verified)
PendingAlias(p) == Uncertain(p.alias, p.bound)

(* hasUnresolvedPrebuiltEffect *)
Unresolved(s) ==
  \/ s.prebuilt.create = "unknown" \/ PendingAlias(s.prebuilt)
  \/ Uncertain(s.prebuilt.promote, s.prebuilt.promoted)

(* assertPrebuiltEffectObserved, and the proof it returns.                 *)
Observable(s) ==
  LET p == s.prebuilt IN
  /\ p.id # 0
  /\ p.alias # "not-attempted" => cloud.alias[p.source] = p.id
  /\ p.promote # "not-attempted" => PromotionFailed(p) \/ InProduction(p)
Proof(s) ==
  [run |-> s.run, id |-> s.prebuilt.id,
   alias |-> s.prebuilt.alias # "not-attempted",
   promotion |-> IF s.prebuilt.promote = "not-attempted" THEN "not-attempted"
                 ELSE IF PromotionFailed(s.prebuilt) THEN "failed"
                 ELSE "succeeded"]

(* matchesPrebuiltResolution *)
Matches(s, proof) ==
  /\ proof.run = s.run /\ proof.id = s.prebuilt.id
  /\ proof.alias = (s.prebuilt.alias # "not-attempted")
  /\ (proof.promotion = "not-attempted")
       = (s.prebuilt.promote = "not-attempted")

Archived(r) == history[r].stopped
Proofs == state.proofs \cup
          UNION {Archived(r).proofs : r \in DOMAIN history}
Settled(r) == Unresolved(Archived(r)) =>
                \E proof \in Proofs : Matches(Archived(r), proof)

(* Not this: the guard looks at the latest archived run only.              *)
MutationGuardLatest ==
  /\ lock = co.run
  /\ \A r \in DOMAIN history :
       (\A q \in DOMAIN history : q <= r) => Settled(r)
  /\ cloud.job.status # "running"

(* mutationGuard and guard: the lock is held, every archived intent is     *)
(* resolved, every proof has its intent, no promotion is under way.        *)
MutationGuard ==
  /\ lock = co.run
  /\ \A r \in DOMAIN history : Settled(r)
  /\ \A proof \in Proofs :
       \E r \in DOMAIN history : Matches(Archived(r), proof)
  /\ cloud.job.status # "running"

------------------------------------------------------------------------------
(* Completion of earlier publications.                                     *)

Records == {Archived(r) : r \in DOMAIN history} \cup {state}
Origins == {s.completion.origin : s \in Records} \ {0}

(* Not this: a retry continues the publication's own record.               *)
CurrentOrigin(o) ==
  CHOOSE s \in Records : s.completion.origin = o /\ s.run = o

(* The record of a publication with most attempts.                         *)
Current(o) ==
  CHOOSE s \in Records : /\ s.completion.origin = o
    /\ \A t \in Records : t.completion.origin = o =>
         Len(t.completion.attempts) <= Len(s.completion.attempts)
Pending == {o \in Origins : Current(o).completion.status # "completed"}
Resumable(s) == {o \in Origins : Current(o).source = s}

(* Not this: only a completion of the same source is looked at.            *)
AdmittedOwnSource ==
  /\ Cardinality(Resumable(co.source)) <= 1
  /\ \A o \in Pending \cap Resumable(co.source) : co.command = "verify"

(* admitCompletionSlot *)
Admitted ==
  /\ Cardinality(Resumable(co.source)) <= 1
  /\ \A o \in Pending :
       /\ Cardinality(Pending) = 1
       /\ co.command = "verify" /\ Current(o).source = co.source

Interrupted(completion) ==
  IF completion.status = "running"
  THEN [completion EXCEPT !.status = "unknown"] ELSE completion

------------------------------------------------------------------------------
(* A coordinator's writes.                                                 *)

(* parsePrebuiltState and parseCompletionState.                            *)
Valid(s) ==
  LET p == s.prebuilt IN
  /\ p.source # NoSource =>
     /\ p.create = "accepted" => p.id # 0
     /\ p.create = "not-attempted" => p.id = 0
     /\ p.accepted => p.create = "accepted"
     /\ p.promote # "not-attempted" => p.accepted /\ p.create = "accepted"
     /\ p.promoted => p.promote = "accepted"
     /\ p.bound => p.alias = "accepted"
     /\ p.alias # "not-attempted" => p.create = "accepted"
     /\ setting.alias /\ (p.accepted \/ p.promote # "not-attempted") => p.bound
  /\ IF s.completion.origin = 0
     THEN ~(setting.completion /\ p.promote # "not-attempted")
     ELSE p.promote # "not-attempted" /\ s.completion.id = p.id

(* A state that does not parse is not written: the run ends, and what it   *)
(* does last cannot be written either, so its lock stays.                  *)
Persist(s, pc) ==
  IF Valid(s) THEN state' = s /\ co' = [co EXCEPT !.pc = pc, !.answered = FALSE]
  ELSE state' = state /\ co' = Idle

(* The save of managedPrebuiltContext: the first promotion of a publish    *)
(* records its completion with it.                                         *)
WithCandidate(p) ==
  IF /\ setting.completion /\ p.promote # "not-attempted"
     /\ state.completion.origin = 0 /\ state.command = "publish"
  THEN [state EXCEPT !.prebuilt = p,
          !.completion = [origin |-> state.run, id |-> p.id,
                          status |-> "not-started", attempts |-> <<>>]]
  ELSE [state EXCEPT !.prebuilt = p]
Save(p, pc) == Persist(WithCandidate(p), pc)

At(pc) == co.pc = pc
Go(pc) == co' = [co EXCEPT !.pc = pc] /\ UNCHANGED state
p0 == state.prebuilt

Quiet == UNCHANGED <<setting, runs, crashes>>
SlotElse == UNCHANGED <<history, receipt, anchor, lock>>
Local == Quiet /\ SlotElse /\ UNCHANGED remote
Send(kind) ==
  /\ requests' = requests \cup
       {[kind |-> kind, run |-> co.run,
         to |-> IF kind = "create" THEN co.run ELSE p0.id,
         source |-> co.source]}
  /\ UNCHANGED <<cloud, served>>

------------------------------------------------------------------------------
(* Admission.                                                              *)

(* loadManagedPublication: the receipt of the publish the anchor names, or *)
(* that publish's archived intent when it has a completion.                *)
Intent ==
  LET s == Archived(anchor.run) IN
  [run |-> s.run, source |-> s.source, prebuilt |-> s.prebuilt,
   completion |-> s.completion]
Publications ==
  IF anchor.run = 0 THEN {}
  ELSE IF receipt.run = anchor.run THEN {receipt}
  ELSE IF /\ anchor.run \in DOMAIN history
          /\ Archived(anchor.run).completion.origin # 0
       THEN {Intent} ELSE {}

(* settleManagedSlot finds nothing to recover, openManagedSlot takes the   *)
(* lock.                                                                   *)
Open(command, source, retry, selected) ==
  /\ At("none") /\ lock = 0 /\ runs < MaxRuns
  /\ runs' = runs + 1 /\ lock' = runs'
  /\ co' = [Idle EXCEPT !.pc = "opened", !.run = runs', !.command = command,
              !.source = source, !.retry = retry, !.selected = selected]
  /\ UNCHANGED <<setting, state, history, receipt, anchor, crashes, remote>>
OpenPublish == \E s \in Sources, command \in {"check", "publish"} :
                 Open(command, s, FALSE, NoReceipt)
OpenVerify == \E retry \in {FALSE, setting.completion}, p \in Publications :
                Open("verify", p.source, retry, p)

OpenRefused ==
  /\ At("opened") /\ ~Admitted
  /\ lock' = 0 /\ co' = Idle
  /\ Quiet /\ UNCHANGED <<state, history, receipt, anchor, remote>>

(* createManagedSession, with the completion it resumes.                   *)
CreateSession ==
  /\ At("opened") /\ Admitted
  /\ \E origins \in {Resumable(co.source)} :
       LET resumed == co.command # "check" /\ origins # {}
           last == Current(CHOOSE o \in origins : TRUE)
       IN Persist([run |-> co.run, command |-> co.command,
                   source |-> co.source, status |-> "running",
                   prebuilt |-> IF resumed THEN last.prebuilt ELSE NoCandidate,
                   proofs |-> {},
                   completion |-> IF resumed THEN Interrupted(last.completion)
                                  ELSE NoCompletion], "session")
  /\ Local

(* resumeVerifiedAlias: a proof of the original intent, from a verify run  *)
(* that succeeded.                                                         *)
AliasProofs ==
  {proof \in UNION {Archived(r).proofs : r \in
                      {q \in DOMAIN history : /\ history[q].ok
                         /\ Archived(q).command = "verify"}} :
     proof.alias /\ Matches(Archived(receipt.run), proof)}
Original(r) == r.run \in DOMAIN history /\ Archived(r.run).prebuilt = r.prebuilt

(* A publish of the source of the last receipt continues its candidate.    *)
Resume ==
  /\ At("session") /\ co.command # "verify"
  /\ IF /\ co.command = "publish" /\ receipt.run # 0
        /\ receipt.source = co.source /\ receipt.prebuilt.source # NoSource
     THEN IF PendingAlias(receipt.prebuilt) /\ ~Original(receipt)
          THEN co' = [co EXCEPT !.pc = "close", !.ok = FALSE]
               /\ UNCHANGED state
          ELSE IF PendingAlias(receipt.prebuilt) /\ AliasProofs # {}
          THEN \E proof \in AliasProofs :
                 Persist([state EXCEPT !.proofs = {proof}, !.prebuilt =
                   [receipt.prebuilt EXCEPT !.alias = "accepted",
                                            !.bound = TRUE]], "anchor")
          ELSE Persist([state EXCEPT !.prebuilt = receipt.prebuilt], "anchor")
     ELSE Go("anchor")
  /\ Local

(* A verify run takes the candidate of the selected publication.           *)
Select ==
  /\ At("session") /\ co.command = "verify"
  /\ Persist([state EXCEPT !.prebuilt =
       IF co.selected.prebuilt.source = NoSource THEN @
       ELSE co.selected.prebuilt], "verify")
  /\ Local

WriteAnchor ==
  /\ At("anchor")
  /\ anchor' = IF co.command = "publish"
               THEN [run |-> co.run, source |-> co.source] ELSE anchor
  /\ Go("checks")
  /\ Quiet /\ UNCHANGED <<history, receipt, lock, remote>>

------------------------------------------------------------------------------
(* publishPrebuiltCandidate.                                               *)

(* The checks pass and the artifact is the recorded one; a check ends.     *)
Checked ==
  /\ At("checks")
  /\ ~(p0.create = "unknown" /\ p0.id = 0)
  /\ ~(co.command = "publish" /\ PendingAlias(p0))
  /\ Save(IF p0.source = NoSource THEN Fresh(co.source) ELSE p0,
          IF co.command = "check" THEN "close"
          ELSE IF p0.id # 0 THEN "candidate"
          ELSE IF setting.alias THEN "available" ELSE "create")
  /\ Local

(* The guard's observation of an archived intent, recorded as a proof.     *)
RecordProof ==
  /\ co.pc \in {"available", "create", "assign", "promote"}
  /\ \E r \in DOMAIN history :
       /\ ~Settled(r) /\ Observable(Archived(r))
       /\ Persist([state EXCEPT !.proofs = @ \cup {Proof(Archived(r))}],
                  co.pc)
  /\ Local

AliasAvailable ==
  /\ At("available") /\ MutationGuard /\ cloud.alias[co.source] = 0
  /\ Go("create") /\ Local

SendCreate ==
  /\ At("create") /\ MutationGuard
  /\ Save([p0 EXCEPT !.create = "unknown"], "creating")
  /\ Send("create") /\ Quiet /\ SlotElse /\ UNCHANGED posts

Created ==
  /\ At("creating") /\ co.answered
  /\ Save([p0 EXCEPT !.create = "accepted", !.id = co.run], "candidate")
  /\ Local

(* The candidate is ready.  A promotion that was ever attempted is only    *)
(* observed.                                                               *)
CandidateReady ==
  /\ At("candidate") /\ p0.id \in cloud.deployed
  /\ IF p0.promote = "not-attempted"
     THEN Go(IF setting.alias THEN "alias" ELSE "acceptance")
     ELSE /\ BoundTo(p0) /\ InProduction(p0)
          /\ Save([p0 EXCEPT !.promote = "accepted", !.promoted = TRUE],
                  "completion")
  /\ Local

(* bindVersionAlias *)
AliasResumed ==
  /\ At("alias")
  /\ IF p0.alias = "not-attempted" THEN Go("assign")
     ELSE /\ BoundTo(p0)
          /\ Save([p0 EXCEPT !.alias = "accepted", !.bound = TRUE],
                  "acceptance")
  /\ Local

AlreadyBound ==
  /\ At("assign") /\ MutationGuard /\ BoundTo(p0)
  /\ Go("assigned") /\ Local

SendAlias ==
  /\ At("assign") /\ MutationGuard /\ cloud.alias[co.source] = 0
  /\ Save([p0 EXCEPT !.alias = "unknown", !.bound = FALSE], "assigning")
  /\ Send("alias") /\ Quiet /\ SlotElse /\ UNCHANGED posts

Assigned ==
  /\ At("assigning") /\ co.answered
  /\ Save([p0 EXCEPT !.alias = "accepted"], "assigned")
  /\ Local

AliasSeen ==
  /\ At("assigned") /\ BoundTo(p0)
  /\ Save([p0 EXCEPT !.alias = "accepted", !.bound = TRUE], "acceptance")
  /\ Local

Accepted ==
  /\ At("acceptance")
  /\ Save([p0 EXCEPT !.accepted = TRUE], "promote")
  /\ Local

SendPromote ==
  /\ At("promote") /\ MutationGuard
  /\ p0.id \in cloud.deployed /\ BoundTo(p0)
  /\ Save([p0 EXCEPT !.promote = "unknown"], "promoting")
  /\ Send("promote") /\ posts' = Append(posts, p0.id)
  /\ Quiet /\ SlotElse

PromoteAnswered ==
  /\ At("promoting") /\ co.answered
  /\ Save([p0 EXCEPT !.promote = "accepted"], "promoted")
  /\ Local

PromotionSeen ==
  /\ At("promoted") /\ InProduction(p0) /\ BoundTo(p0)
  /\ Save([p0 EXCEPT !.promoted = TRUE], "completion")
  /\ Local

(* observePrebuiltCandidate *)
Observed(p) ==
  /\ p.id \in cloud.deployed /\ BoundTo(p)
  /\ p.promote # "not-attempted" => InProduction(p)
Observation(p) ==
  [p EXCEPT !.create = "accepted",
            !.alias = IF setting.alias THEN "accepted" ELSE @,
            !.bound = setting.alias,
            !.promoted = p.promote # "not-attempted",
            !.promote = IF p.promote # "not-attempted" THEN "accepted" ELSE @]

VerifyObserved ==
  /\ At("verify") /\ p0.id # 0 /\ Observed(p0)
  /\ Save(Observation(p0), "completion")
  /\ Local

------------------------------------------------------------------------------
(* runCompletion.                                                          *)

NothingToComplete ==
  /\ At("completion") /\ state.completion.origin = 0
  /\ setting.completion => /\ co.command = "verify" /\ ~co.retry
                           /\ p0.promote = "not-attempted"
  /\ Go("finish") /\ Local

AlreadyCompleted ==
  /\ At("completion") /\ state.completion.status = "completed"
  /\ p0.promote # "not-attempted" /\ Observed(p0)
  /\ Save(Observation(p0), "finish")
  /\ Local

LastAttempt(s, status) ==
  [s EXCEPT !.completion.status = status,
            !.completion.attempts[Len(s.completion.attempts)].status = status]

StartAttempt ==
  /\ At("completion")
  /\ state.completion.origin # 0 /\ state.completion.status # "completed"
  /\ co.command = "verify" => co.retry
  /\ p0.promote # "not-attempted" /\ Observed(p0)
  /\ Persist([WithCandidate(Observation(p0)) EXCEPT
                !.completion.status = "running",
                !.completion.attempts =
                   Append(@, [run |-> co.run, status |-> "running"])], "job")
  /\ Local

JobCompleted ==
  /\ At("job") /\ Observed(p0)
  /\ Persist(LastAttempt(state, "completed"), "finish")
  /\ Local

JobFailed ==
  /\ At("job")
  /\ \E status \in {"failed", "unknown"} :
       /\ state' = LastAttempt(state, status)
       /\ co' = [co EXCEPT !.pc = "close", !.ok = FALSE]
  /\ Local

(* recordVerifiedAlias, for the receipt of a publish that left its alias   *)
(* unresolved.                                                             *)
Finish ==
  /\ At("finish")
  /\ IF co.command = "verify" /\ PendingAlias(co.selected.prebuilt)
     THEN /\ Original(co.selected) /\ Observable(Archived(co.selected.run))
          /\ Persist([state EXCEPT !.proofs =
                        {Proof(Archived(co.selected.run))}], "close")
     ELSE Go("close")
  /\ Local

(* A check, a command, an answer or an observation fails, times out or is  *)
(* cancelled: the run goes on to close.                                    *)
Fail ==
  /\ co.pc \in {"session", "anchor", "checks", "available", "create",
                "creating", "candidate", "alias", "assign", "assigning",
                "assigned", "acceptance", "promote", "promoting", "promoted",
                "verify", "completion", "finish"}
  /\ co' = [co EXCEPT !.pc = "close", !.ok = FALSE]
  /\ UNCHANGED state /\ Local

------------------------------------------------------------------------------
(* The end of a run.                                                       *)

(* Whether its processes are known to have stopped.                        *)
Close ==
  /\ At("close")
  /\ \E status \in {"closed", "unknown"} :
       Persist([state EXCEPT !.status = status],
               IF co.command = "verify" THEN "archive" ELSE "receipt")
  /\ Local

WriteReceipt ==
  /\ At("receipt")
  /\ receipt' = IF co.command = "publish"
                THEN [run |-> co.run, source |-> co.source, prebuilt |-> p0,
                      completion |-> state.completion] ELSE receipt
  /\ Go("archive")
  /\ Quiet /\ UNCHANGED <<history, anchor, lock, remote>>

Extended(ok) ==
  [r \in DOMAIN history \cup {state.run} |->
     IF r \in DOMAIN history THEN history[r] ELSE [stopped |-> state, ok |-> ok]]

(* A run whose processes may still live keeps its lock and is archived by  *)
(* the recovery.                                                           *)
Archive ==
  /\ At("archive")
  /\ IF state.status = "closed"
     THEN history' = Extended(co.ok) /\ Go("unlock")
     ELSE UNCHANGED <<history, state>> /\ co' = Idle
  /\ Quiet /\ UNCHANGED <<receipt, anchor, lock, remote>>

Unlock ==
  /\ At("unlock") /\ lock = co.run
  /\ lock' = 0 /\ co' = Idle
  /\ Quiet /\ UNCHANGED <<state, history, receipt, anchor, remote>>

Crash ==
  /\ ~At("none") /\ crashes < MaxCrashes
  /\ crashes' = crashes + 1 /\ co' = Idle
  /\ UNCHANGED <<setting, slot, runs, remote>>

(* recoverManagedPublication, once the coordinator is gone and its         *)
(* processes are closed: the lock must name the run of the state.          *)
Recover ==
  /\ At("none") /\ lock # 0 /\ lock = state.run
  /\ history' = Extended(FALSE)
  /\ state.run \notin DOMAIN history
  /\ Quiet /\ UNCHANGED <<co, state, receipt, anchor, lock, remote>>

RecoverUnlocks ==
  /\ At("none") /\ lock # 0 /\ lock = state.run
  /\ state.run \in DOMAIN history
  /\ lock' = 0
  /\ Quiet /\ UNCHANGED <<co, state, history, receipt, anchor, remote>>

------------------------------------------------------------------------------
(* The cloud.                                                              *)

Waiting(q) == /\ q.run = co.run
              /\ \/ q.kind = "create" /\ At("creating")
                 \/ q.kind = "alias" /\ At("assigning")
                 \/ q.kind = "promote" /\ At("promoting")

Arrive ==
  \E q \in requests, heard \in BOOLEAN :
    /\ requests' = requests \ {q}
    /\ cloud' = CASE q.kind = "create" ->
                       [cloud EXCEPT !.deployed = @ \cup {q.to}]
                  [] q.kind = "alias" ->
                       [cloud EXCEPT !.alias[q.source] = q.to]
                  [] q.kind = "promote" ->
                       [cloud EXCEPT !.job = [to |-> q.to,
                                              status |-> "running"]]
    /\ co' = IF heard /\ Waiting(q) THEN [co EXCEPT !.answered = TRUE] ELSE co
    /\ Quiet /\ UNCHANGED <<slot, posts, served>>

JobEnds ==
  /\ cloud.job.status = "running"
  /\ \/ /\ cloud' = [cloud EXCEPT !.job.status = "succeeded",
                                  !.production = cloud.job.to]
        /\ served' = served \cup {cloud.job.to}
     \/ /\ cloud' = [cloud EXCEPT !.job.status = "failed"]
        /\ UNCHANGED served
  /\ Quiet /\ UNCHANGED <<co, slot, requests, posts>>

------------------------------------------------------------------------------
Admission == OpenPublish \/ OpenVerify \/ OpenRefused \/ CreateSession
             \/ Resume \/ Select \/ WriteAnchor
Publish == Checked \/ RecordProof \/ AliasAvailable \/ SendCreate \/ Created
           \/ CandidateReady \/ AliasResumed \/ AlreadyBound \/ SendAlias
           \/ Assigned \/ AliasSeen \/ Accepted \/ SendPromote
           \/ PromoteAnswered \/ PromotionSeen \/ VerifyObserved
Complete == NothingToComplete \/ AlreadyCompleted \/ StartAttempt
            \/ JobCompleted \/ JobFailed \/ Finish \/ Fail
End == Close \/ WriteReceipt \/ Archive \/ Unlock \/ Crash \/ Recover
       \/ RecoverUnlocks
Cloud == Arrive \/ JobEnds

Next == Admission \/ Publish \/ Complete \/ End \/ Cloud

Spec == Init /\ [][Next]_vars

------------------------------------------------------------------------------
Completion == [origin : 0..MaxRuns, id : 0..MaxRuns,
  status : {"none", "not-started", "running", "failed", "unknown",
            "completed"},
  attempts : Seq([run : Runs, status : {"running", "failed", "unknown",
                                        "completed"}])]

TypeOK ==
  /\ setting \in Settings
  /\ state.prebuilt \in Candidate /\ state.completion \in Completion
  /\ lock \in 0..MaxRuns /\ DOMAIN history \subseteq Runs
  /\ cloud.deployed \subseteq Runs /\ cloud.production \in 0..MaxRuns
  /\ served \subseteq Runs

(* A lost answer to a promotion is not sent again (release-vercel.md:79):  *)
(* no deployment is ever promoted by two POSTs.  The code does: a publish  *)
(* continues the last receipt, which is older than a run that died after   *)
(* its own POST and left none.                                             *)
NeverPromotedTwice == \A i, j \in DOMAIN posts : posts[i] = posts[j] => i = j

(* What the cloud says of the promotion of a deployment promoted twice may *)
(* be true of the other POST.                                              *)
PromotedAgain(id) == \E i, j \in DOMAIN posts : i # j /\ posts[i] = id /\ posts[j] = id
Replayed(q) == q.kind = "promote" /\ PromotedAgain(q.to)

(* Of all runs there is never more than one write to the cloud under way,  *)
(* a promotion the cloud works on included: the next one waits until the   *)
(* outcome of every earlier one is known, however late it arrives.  The    *)
(* exception are the promotions of a deployment promoted twice: they may   *)
(* be under way next to each other and next to one other write.            *)
OneWriteAtATime ==
  Cardinality({q \in requests : ~Replayed(q)})
    + (IF cloud.job.status = "running" /\ ~PromotedAgain(cloud.job.to)
       THEN 1 ELSE 0) <= 1

(* What a record on the disk says was done, was done, and is not undone:   *)
(* its deployment exists, its version alias names it, its promotion took   *)
(* place, and completion was not attempted before; and nothing was sent    *)
(* that no record mentions.                                                *)
RecordsHonest ==
  /\ \A s \in Records :
       LET p == s.prebuilt IN
       /\ p.create = "accepted" => p.id \in cloud.deployed
       /\ p.bound => cloud.alias[p.source] = p.id
       /\ p.promoted => p.id \in served
       /\ s.completion.attempts # <<>> => s.completion.id \in served
  /\ \A q \in requests : \E s \in Records : s.run = q.run /\
       CASE q.kind = "create" -> s.prebuilt.create # "not-attempted"
         [] q.kind = "alias" -> s.prebuilt.alias # "not-attempted"
         [] q.kind = "promote" -> s.prebuilt.promote # "not-attempted"

(* The records of one publication's completion are prefixes of one         *)
(* sequence of attempts, which starts with the publication's own record.   *)
CompletionNeverForks ==
  \A o \in Origins :
    /\ \E s \in Records : s.run = o /\ s.completion.origin = o
    /\ \A s, t \in Records :
         s.completion.origin = o /\ t.completion.origin = o =>
           LET a == s.completion.attempts  b == t.completion.attempts IN
           Len(a) <= Len(b) => a = SubSeq(b, 1, Len(a))

(* While the completion of a promoted candidate is pending, nothing else   *)
(* is created or promoted.                                                 *)
PendingCompletionBlocks ==
  [][requests' \ requests # {} => Pending \subseteq {co.run}]_vars
===============================================================================
