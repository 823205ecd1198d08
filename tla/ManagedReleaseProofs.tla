-------------------------- MODULE ManagedReleaseProofs --------------------------
(***************************************************************************)
(* Proofs about managed releases, for any commits, runs and crashes: there *)
(* is one write to the cloud at a time, what the records say is true, the  *)
(* attempts of a completion form one line, and a pending completion blocks *)
(* all other writes.                                                       *)
(***************************************************************************)
EXTENDS ManagedRelease, FiniteSetTheorems, SequenceTheorems, TLAPS

(* Where a coordinator is after it created its session and before it has   *)
(* archived its state; where only a publish comes; where it is on its way  *)
(* out.                                                                    *)
Working == {"session", "anchor", "checks", "available", "create", "creating",
  "candidate", "alias", "assign", "assigning", "assigned", "acceptance",
  "promote", "promoting", "promoted", "verify", "completion", "job", "finish",
  "close", "receipt", "archive"}
Publishing == {"available", "create", "creating", "candidate", "alias",
  "assign", "assigning", "assigned", "acceptance", "promote", "promoting",
  "promoted"}
Leaving == {"close", "receipt", "archive"}

------------------------------------------------------------------------------
(* Types.                                                                  *)

Commands == {"none", "check", "publish", "verify"}
ProofRecord == [run : Runs, id : 0..MaxRuns, alias : BOOLEAN,
                promotion : {"not-attempted", "failed", "succeeded"}]
State == [run : 0..MaxRuns, command : Commands, source : Sources \cup {NoSource},
          status : {"none", "running", "closed", "unknown"},
          prebuilt : Candidate, proofs : SUBSET ProofRecord,
          completion : Completion]
Receipt == [run : 0..MaxRuns, source : Sources \cup {NoSource},
            prebuilt : Candidate, completion : Completion]
Coordinator == [pc : {"none", "opened", "unlock"} \cup Working,
                run : 0..MaxRuns, command : Commands,
                source : Sources \cup {NoSource}, retry : BOOLEAN,
                selected : Receipt, answered : BOOLEAN, ok : BOOLEAN]
Request == [kind : {"create", "alias", "promote"}, run : Runs, to : Runs,
            source : Sources]

SlotTyped ==
  /\ setting \in Settings
  /\ setting \in [alias : BOOLEAN, completion : BOOLEAN]
  /\ co \in Coordinator /\ state \in State /\ receipt \in Receipt
  /\ history \in [DOMAIN history -> [stopped : State, ok : BOOLEAN]]
  /\ anchor \in [run : 0..MaxRuns, source : Sources \cup {NoSource}]
  /\ lock \in 0..MaxRuns /\ runs \in 0..MaxRuns
RemoteTyped ==
  /\ cloud \in [deployed : SUBSET Runs, alias : [Sources -> 0..MaxRuns],
                production : 0..MaxRuns,
                job : [to : 0..MaxRuns,
                       status : {"none", "running", "failed", "succeeded"}]]
  /\ requests \subseteq Request /\ posts \in Seq(Runs)
  /\ served \subseteq Runs

------------------------------------------------------------------------------
(* The slot: whose the state and the lock are.                             *)
Kept == state.run = 0 \/ state.run \in DOMAIN history
SlotOK ==
  /\ lock <= runs /\ state.run <= runs
  /\ DOMAIN history \subseteq 1..runs
  /\ \A r \in DOMAIN history : Archived(r).run = r
  /\ state.run \in DOMAIN history => Archived(state.run) = state
  /\ state.run = 0 => state.completion = NoCompletion
  /\ co.pc = "none" => co = Idle
  /\ co.pc # "none" => /\ lock = co.run /\ co.run \in 1..runs
                       /\ co.command # "none"
  /\ lock = 0 \/ co.pc \in {"opened", "unlock"} => Kept
  /\ co.pc = "opened" => co.run \notin DOMAIN history /\ state.run # co.run
  /\ co.pc \in Working => /\ state.run = co.run /\ co.run \notin DOMAIN history
                          /\ state.command = co.command
                          /\ state.source = co.source

(* The records on the disk, by the run they are of.                        *)
Names == DOMAIN history \cup {state.run}
Rec == [r \in Names |-> IF r \in DOMAIN history THEN Archived(r) ELSE state]

(* What was ever done in the cloud, as far as records speak of it.         *)
World == [deployed |-> cloud.deployed, alias |-> cloud.alias,
          served |-> served, setting |-> setting]

(* A candidate that is consistent, and of which what is said was done in w.*)
Honest(p, w) ==
  /\ p.source = NoSource => p = NoCandidate
  /\ p.create = "unknown" => p.id = 0
  /\ p.create = "accepted" => p.id \in w.deployed
  /\ p.promoted => p.id \in w.served
  /\ p.bound => w.alias[p.source] = p.id
CandidateOK(p, w) ==
  /\ Honest(p, w)
  /\ p.create # "accepted" => p.id = 0
  /\ p.accepted \/ p.alias # "not-attempted" => p.create = "accepted"
  /\ p.promote # "not-attempted" => p.accepted
  /\ p.promoted => p.promote = "accepted"
  /\ p.bound => p.alias = "accepted"
  /\ w.setting.alias /\ p.accepted => p.bound

(* A completion is of a candidate that was promoted, and is attempted when *)
(* it is in production.                                                    *)
Attempted(c, w) ==
  /\ c.origin = 0 => c.attempts = <<>>
  /\ c.attempts # <<>> => c.id \in w.served
CompletionOK(s, w) ==
  /\ Attempted(s.completion, w)
  /\ s.completion.origin # 0 => /\ s.prebuilt.promote # "not-attempted"
                                /\ s.completion.id = s.prebuilt.id

(* What a record, a receipt or an intent names besides is of its commit.   *)
NamedOK(x, w) ==
  /\ CandidateOK(x.prebuilt, w)
  /\ x.prebuilt.source \in {NoSource, x.source}
  /\ x.run # 0 => x.source \in Sources

RecordsOK ==
  /\ \A r \in Names : NamedOK(Rec[r], World) /\ CompletionOK(Rec[r], World)
  /\ NamedOK(receipt, World) /\ NamedOK(co.selected, World)
  /\ co.pc # "none" => co.source \in Sources
  /\ co.command = "verify" => co.selected.source = co.source

(* What a run at d has done to its candidate p.                            *)
PcGood(p, d, w) ==
  /\ d.pc \in Publishing => d.command = "publish"
  /\ d.pc \in {"anchor", "checks"} => d.command # "verify"
  /\ d.pc \in {"available", "create", "creating"} =>
       p.id = 0 /\ p.source # NoSource
  /\ d.pc \in {"available", "create"} => p.create = "not-attempted"
  /\ d.pc = "creating" =>
       p.create = "unknown" /\ (d.answered => d.run \in w.deployed)
  /\ d.pc \in {"alias", "assign", "assigning", "assigned"} => w.setting.alias
  /\ d.pc \in {"alias", "assign", "assigning", "assigned", "acceptance",
               "promote"} => p.promote = "not-attempted" /\ p.id # 0
  /\ d.pc = "assign" => p.alias = "not-attempted"
  /\ d.pc = "assigning" => p.alias = "unknown"
  /\ d.pc = "promote" => p.accepted
  /\ d.pc = "promoting" => p.promote = "unknown"

------------------------------------------------------------------------------
(* Proofs of an intent are of an archived one, and stay true.              *)
ProofOK(proof) ==
  /\ proof.run \in DOMAIN history /\ Matches(Archived(proof.run), proof)
  /\ proof.id # 0
  /\ proof.alias => cloud.alias[Archived(proof.run).prebuilt.source] = proof.id
ProofsOK == \A proof \in Proofs : ProofOK(proof)

(* A request on its way is an unresolved intent of its run's record, and   *)
(* of nothing it asks for is there any trace; next to it there are only    *)
(* promotions of deployments promoted again.                               *)
Sent(s, q) ==
  /\ s.prebuilt.source = q.source
  /\ q.kind = "create" => s.prebuilt.create = "unknown" /\ q.to = q.run
  /\ q.kind = "alias" => s.prebuilt.alias = "unknown" /\ s.prebuilt.id = q.to
  /\ q.kind = "promote" =>
       s.prebuilt.promote = "unknown" /\ s.prebuilt.id = q.to
Posted(id) == \E i \in DOMAIN posts : posts[i] = id
Binding(q) == ~Replayed(q)
RequestOK(q) ==
  /\ q.run \in Names /\ Sent(Rec[q.run], q)
  /\ q.kind = "alias" => cloud.alias[q.source] = 0
  /\ q.kind = "promote" => Posted(q.to) /\ (Binding(q) => cloud.job.to # q.to)
  /\ Binding(q) =>
       /\ \A proof \in Proofs : proof.run # q.run
       /\ \A r \in requests : Binding(r) => q = r
       /\ cloud.job.status = "running" => PromotedAgain(cloud.job.to)
WaitsFor(d, q) == \/ d.pc = "creating" /\ q.kind = "create"
                  \/ d.pc = "assigning" /\ q.kind = "alias"
                  \/ d.pc = "promoting" /\ q.kind = "promote"
OwnOK(d) == \A q \in requests : q.run = d.run /\ d.pc \in Working \ Leaving =>
              WaitsFor(d, q) /\ ~d.answered
RequestsOK == (\A q \in requests : RequestOK(q)) /\ OwnOK(co)

CloudOK ==
  /\ cloud.job.status = "succeeded" => cloud.job.to \in served
  /\ cloud.job.status = "running" => cloud.job.to \in Runs
  /\ cloud.job.to # 0 => Posted(cloud.job.to)

------------------------------------------------------------------------------
(* The completions C of the records, by their runs: those of one origin    *)
(* are prefixes of the longest ones, which agree on whether they are done. *)
Same(C, r, q) == C[r].origin # 0 /\ C[r].origin = C[q].origin
Size(C, r) == Len(C[r].attempts)
Done(C, r) == C[r].status = "completed"
Longest(C, r) == \A q \in DOMAIN C : Same(C, r, q) => Size(C, q) <= Size(C, r)
Prefixes(C) ==
  \A r, q \in DOMAIN C : Same(C, r, q) /\ Size(C, r) <= Size(C, q) =>
    /\ \A i \in 1..Size(C, r) : C[r].attempts[i] = C[q].attempts[i]
    /\ Size(C, r) = Size(C, q) => (Done(C, r) <=> Done(C, q))
Rooted(C) == \A r \in DOMAIN C : C[r].origin # 0 =>
  C[r].origin \in DOMAIN C /\ C[C[r].origin].origin = C[r].origin
Led(C) == \A r \in DOMAIN C : C[r].origin # 0 =>
  \E q \in DOMAIN C : Same(C, r, q) /\ Longest(C, q)
OneLine(C) == Prefixes(C) /\ Rooted(C) /\ Led(C)

Completions == [r \in Names |-> Rec[r].completion]

AttemptsOK ==
  /\ OneLine(Completions)
  /\ state.run \notin DOMAIN history => Longest(Completions, state.run)
  /\ co.pc = "job" =>
       /\ state.completion.origin # 0 /\ state.completion.status = "running"
       /\ Size(Completions, state.run) > 0
       /\ \A r \in Names : r # state.run /\ Same(Completions, r, state.run) =>
            Size(Completions, r) < Size(Completions, state.run)

(* A publish was admitted when every other completion was done.            *)
BlocksOK ==
  co.command = "publish" /\ co.pc \in Working =>
    \A r \in Names : Completions[r].origin \notin {0, co.run}
                     /\ Longest(Completions, r) => Done(Completions, r)

RecordPart == SlotTyped /\ SlotOK /\ RecordsOK /\ PcGood(p0, co, World) /\ ProofsOK
RemotePart == RemoteTyped /\ RequestsOK /\ CloudOK
LinePart == AttemptsOK /\ BlocksOK
IInv == RecordPart /\ RemotePart /\ LinePart


------------------------------------------------------------------------------
(* Lines of completions.                                                   *)
Attempt == [run : Runs, status : {"running", "failed", "unknown", "completed"}]
Line(C) == C \in [DOMAIN C -> Completion] /\ DOMAIN C \subseteq 0..MaxRuns

LEMMA SizeType ==
  ASSUME NEW C, Line(C), NEW r \in DOMAIN C
  PROVE  /\ C[r] \in Completion /\ C[r].attempts \in Seq(Attempt)
         /\ Size(C, r) \in Nat /\ C[r].origin \in 0..MaxRuns
<1>1. C[r] \in Completion
  BY DEF Line
<1>2. C[r].attempts \in Seq(Attempt) /\ C[r].origin \in 0..MaxRuns
  BY <1>1 DEF Completion, Attempt
<1> QED BY <1>1, <1>2, LenProperties DEF Size

(* A run of its own, or one that copies the longest of a line.             *)
LEMMA LineCopied ==
  ASSUME NEW C, Line(C), OneLine(C), NEW D, Line(D), NEW n, n \notin DOMAIN C,
         NEW A \in SUBSET DOMAIN C, DOMAIN D = A \cup {n},
         \A r \in A : D[r] = C[r],
         \A r \in DOMAIN C \ A : C[r].origin = 0,
         \/ D[n].origin = 0
         \/ \E k \in DOMAIN C : /\ C[k].origin # 0 /\ Longest(C, k)
                                /\ D[n].origin = C[k].origin
                                /\ D[n].attempts = C[k].attempts
                                /\ Done(D, n) <=> Done(C, k)
  PROVE  OneLine(D) /\ Longest(D, n)
<1>1. ASSUME NEW r \in A, NEW q \in A
      PROVE  /\ Same(D, r, q) <=> Same(C, r, q)
             /\ Size(D, r) = Size(C, r) /\ (Done(D, r) <=> Done(C, r))
  BY DEF Same, Size, Done
<1>2. \A r \in DOMAIN D : r \in A \/ r = n
  OBVIOUS
<1>3. \A r \in DOMAIN C : C[r].origin # 0 => r \in A
  OBVIOUS
<1>4. \A r \in DOMAIN C : Size(C, r) \in Nat
  BY SizeType
<1>5. \A r \in DOMAIN D : Size(D, r) \in Nat
  BY SizeType
<1>6. CASE D[n].origin = 0
  <2>1. \A r \in DOMAIN D : ~Same(D, n, r) /\ ~Same(D, r, n)
    BY <1>6 DEF Same
  <2>2. Longest(D, n)
    BY <2>1 DEF Longest
  <2>3. Prefixes(D)
    <3> SUFFICES ASSUME NEW r \in DOMAIN D, NEW q \in DOMAIN D, Same(D, r, q),
                        Size(D, r) <= Size(D, q)
        PROVE  /\ \A i \in 1..Size(D, r) : D[r].attempts[i] = D[q].attempts[i]
               /\ Size(D, r) = Size(D, q) => (Done(D, r) <=> Done(D, q))
      BY DEF Prefixes
    <3>1. r \in A /\ q \in A
      BY <1>2, <2>1
    <3>2. D[r] = C[r] /\ D[q] = C[q] /\ Same(C, r, q) /\ Size(C, r) <= Size(C, q)
      BY <1>1, <3>1
    <3> QED BY <1>1, <3>1, <3>2 DEF OneLine, Prefixes
  <2>4. Rooted(D)
    BY <1>2, <1>3, <1>6 DEF OneLine, Rooted
  <2>5. Led(D)
    <3> SUFFICES ASSUME NEW r \in DOMAIN D, D[r].origin # 0
        PROVE  \E q \in DOMAIN D : Same(D, r, q) /\ Longest(D, q)
      BY DEF Led
    <3>1. r \in A /\ C[r].origin # 0
      BY <1>2, <1>6
    <3>2. PICK q \in DOMAIN C : Same(C, r, q) /\ Longest(C, q)
      BY <3>1 DEF OneLine, Led
    <3>3. q \in A
      BY <1>3, <3>2 DEF Same
    <3>4. \A t \in DOMAIN D : Same(D, q, t) => Size(D, t) <= Size(D, q)
      BY <1>1, <1>2, <2>1, <3>2, <3>3 DEF Longest
    <3> QED BY <1>1, <3>1, <3>2, <3>3, <3>4 DEF Longest
  <2> QED BY <2>2, <2>3, <2>4, <2>5 DEF OneLine
<1>7. CASE D[n].origin # 0
  <2>1. PICK k \in DOMAIN C : /\ C[k].origin # 0 /\ Longest(C, k)
                              /\ D[n].origin = C[k].origin
                              /\ D[n].attempts = C[k].attempts
                              /\ Done(D, n) <=> Done(C, k)
    BY <1>7
  <2>2. k \in A /\ Size(D, n) = Size(C, k)
    BY <1>3, <2>1 DEF Size
  <2> DEFINE Copied(r) == IF r = n THEN k ELSE r
  <2>3. \A r \in DOMAIN D : /\ Copied(r) \in A /\ D[r].origin = C[Copied(r)].origin
                            /\ D[r].attempts = C[Copied(r)].attempts
                            /\ Done(D, r) <=> Done(C, Copied(r))
                            /\ Size(D, r) = Size(C, Copied(r))
    BY <1>1, <1>2, <2>1, <2>2
  <2> HIDE DEF Copied
  <2>4. \A r, q \in DOMAIN D : Same(D, r, q) <=> Same(C, Copied(r), Copied(q))
    BY <2>3 DEF Same
  <2>5. Prefixes(D)
    <3> SUFFICES ASSUME NEW r \in DOMAIN D, NEW q \in DOMAIN D, Same(D, r, q),
                        Size(D, r) <= Size(D, q)
        PROVE  /\ \A i \in 1..Size(D, r) : D[r].attempts[i] = D[q].attempts[i]
               /\ Size(D, r) = Size(D, q) => (Done(D, r) <=> Done(D, q))
      BY DEF Prefixes
    <3>1. /\ Copied(r) \in DOMAIN C /\ Copied(q) \in DOMAIN C
          /\ Same(C, Copied(r), Copied(q))
          /\ Size(C, Copied(r)) <= Size(C, Copied(q))
      BY <2>3, <2>4
    <3> QED BY <2>3, <3>1 DEF OneLine, Prefixes
  <2>6. Rooted(D)
    BY <1>3, <2>3 DEF OneLine, Rooted
  <2>7. \A q \in DOMAIN D : Longest(C, Copied(q)) => Longest(D, q)
    BY <2>3, <2>4 DEF Longest
  <2>8. Longest(D, n)
    <3>1. Longest(C, Copied(n))
      BY <2>1 DEF Copied
    <3> QED BY <2>7, <3>1
  <2>9. Led(D)
    <3> SUFFICES ASSUME NEW r \in DOMAIN D, D[r].origin # 0
        PROVE  \E q \in DOMAIN D : Same(D, r, q) /\ Longest(D, q)
      BY DEF Led
    <3>1. Copied(r) \in DOMAIN C /\ C[Copied(r)].origin # 0
      BY <2>3
    <3>2. PICK q \in DOMAIN C : Same(C, Copied(r), q) /\ Longest(C, q)
      BY <3>1 DEF OneLine, Led
    <3>3. q \in A
      BY <1>3, <3>2 DEF Same
    <3>4. q \in DOMAIN D /\ Copied(q) = q
      BY <3>3 DEF Copied
    <3> QED BY <2>4, <2>7, <3>2, <3>4
  <2> QED BY <2>5, <2>6, <2>8, <2>9 DEF OneLine
<1> QED BY <1>6, <1>7

(* A publication that records its completion starts a line.                *)
LEMMA LineStarted ==
  ASSUME NEW C, Line(C), OneLine(C), NEW r \in DOMAIN C, r # 0,
         C[r].origin = 0, NEW D, Line(D), DOMAIN D = DOMAIN C,
         \A q \in DOMAIN C \ {r} : D[q] = C[q],
         D[r].origin = r, D[r].attempts = <<>>
  PROVE  /\ OneLine(D) /\ Longest(D, r)
         /\ \A q \in DOMAIN C : D[q].origin # r /\ Longest(D, q) => Longest(C, q)
<1>1. \A q \in DOMAIN C : C[q].origin # r
  BY DEF OneLine, Rooted
<1>2. \A q \in DOMAIN C : Same(D, r, q) \/ Same(D, q, r) => q = r
  BY <1>1 DEF Same
<1>3. \A q, t \in DOMAIN C : q # r /\ t # r => (Same(D, q, t) <=> Same(C, q, t))
  BY DEF Same
<1>4. \A q \in DOMAIN C : q # r =>
        Size(D, q) = Size(C, q) /\ (Done(D, q) <=> Done(C, q))
  BY DEF Size, Done
<1>5. \A q \in DOMAIN C : Size(C, q) \in Nat /\ Size(D, q) \in Nat
  BY SizeType
<1>6. Prefixes(D)
  <2> SUFFICES ASSUME NEW q \in DOMAIN D, NEW t \in DOMAIN D, Same(D, q, t),
                      Size(D, q) <= Size(D, t)
      PROVE  /\ \A i \in 1..Size(D, q) : D[q].attempts[i] = D[t].attempts[i]
             /\ Size(D, q) = Size(D, t) => (Done(D, q) <=> Done(D, t))
    BY DEF Prefixes
  <2>1. CASE q = t
    BY <2>1
  <2>2. CASE q # t
    <3>1. q # r /\ t # r
      BY <1>2, <2>2
    <3>2. /\ D[q] = C[q] /\ D[t] = C[t] /\ Same(C, q, t)
          /\ Size(C, q) <= Size(C, t)
      BY <1>3, <1>4, <3>1
    <3> QED BY <1>4, <3>1, <3>2 DEF OneLine, Prefixes
  <2> QED BY <2>1, <2>2
<1>7. Rooted(D)
  BY <1>1 DEF OneLine, Rooted
<1>8. Longest(D, r)
  BY <1>2, <1>5 DEF Longest
<1>9. \A q \in DOMAIN C : q # r => (Longest(D, q) <=> Longest(C, q))
  <2> SUFFICES ASSUME NEW q \in DOMAIN C, q # r
      PROVE  Longest(D, q) <=> Longest(C, q)
    OBVIOUS
  <2>1. ~Same(D, q, r) /\ ~Same(C, q, r)
    BY <1>2 DEF Same
  <2> QED BY <1>3, <1>4, <2>1 DEF Longest
<1>10. Led(D)
  <2> SUFFICES ASSUME NEW q \in DOMAIN D, D[q].origin # 0
      PROVE  \E t \in DOMAIN D : Same(D, q, t) /\ Longest(D, t)
    BY DEF Led
  <2>1. CASE q = r
    BY <1>8, <2>1 DEF Same
  <2>2. CASE q # r
    <3>1. C[q].origin # 0
      BY <2>2
    <3>2. PICK t \in DOMAIN C : Same(C, q, t) /\ Longest(C, t)
      BY <3>1 DEF OneLine, Led
    <3>3. t # r
      BY <3>2 DEF Same
    <3> QED BY <1>3, <1>9, <2>2, <3>2, <3>3
  <2> QED BY <2>1, <2>2
<1> QED BY <1>6, <1>7, <1>8, <1>9, <1>10 DEF OneLine

(* An attempt is added at the end of a longest record.                     *)
LEMMA LineExtended ==
  ASSUME NEW C, Line(C), OneLine(C), NEW r \in DOMAIN C, C[r].origin # 0,
         Longest(C, r), NEW D, Line(D), DOMAIN D = DOMAIN C,
         \A q \in DOMAIN C \ {r} : D[q] = C[q],
         D[r].origin = C[r].origin,
         NEW a \in Attempt, D[r].attempts = Append(C[r].attempts, a)
  PROVE  /\ OneLine(D) /\ Longest(D, r)
         /\ \A q \in DOMAIN C : q # r /\ Same(D, q, r) => Size(D, q) < Size(D, r)
         /\ \A q \in DOMAIN C : D[q].origin # C[r].origin /\ Longest(D, q) =>
              Longest(C, q)
<1>1. \A q, t \in DOMAIN C : Same(D, q, t) <=> Same(C, q, t)
  BY DEF Same
<1>2. \A q \in DOMAIN C : Size(C, q) \in Nat /\ Size(D, q) \in Nat
  BY SizeType
<1>3. /\ Size(D, r) = Size(C, r) + 1
      /\ \A i \in 1..Size(C, r) : D[r].attempts[i] = C[r].attempts[i]
  BY SizeType, AppendProperties DEF Size
<1>4. \A q \in DOMAIN C : q # r =>
        Size(D, q) = Size(C, q) /\ (Done(D, q) <=> Done(C, q))
  BY DEF Size, Done
<1>5. \A q \in DOMAIN C : q # r /\ Same(D, q, r) => Size(D, q) < Size(D, r)
  BY <1>1, <1>2, <1>3, <1>4 DEF Longest, Same
<1>6. Longest(D, r)
  BY <1>1, <1>2, <1>5 DEF Longest, Same
<1>7. Prefixes(D)
  <2> SUFFICES ASSUME NEW q \in DOMAIN D, NEW t \in DOMAIN D, Same(D, q, t),
                      Size(D, q) <= Size(D, t)
      PROVE  /\ \A i \in 1..Size(D, q) : D[q].attempts[i] = D[t].attempts[i]
             /\ Size(D, q) = Size(D, t) => (Done(D, q) <=> Done(D, t))
    BY DEF Prefixes
  <2>1. CASE q = t
    BY <2>1
  <2>2. CASE q # t /\ t # r
    <3>1. q # r
      BY <1>2, <1>5, <2>2 DEF Same
    <3>2. /\ D[q] = C[q] /\ D[t] = C[t] /\ Same(C, q, t)
          /\ Size(C, q) <= Size(C, t)
      BY <1>1, <1>4, <2>2, <3>1
    <3> QED BY <1>4, <2>2, <3>1, <3>2 DEF OneLine, Prefixes
  <2>3. CASE q # t /\ t = r
    <3>1. Same(C, q, r) /\ Size(C, q) <= Size(C, r) /\ Size(D, q) = Size(C, q)
      BY <1>1, <1>4, <2>3 DEF Longest, Same
    <3>2. \A i \in 1..Size(C, q) : C[q].attempts[i] = C[r].attempts[i]
      BY <3>1 DEF OneLine, Prefixes
    <3>3. \A i \in 1..Size(C, q) : i \in 1..Size(C, r)
      BY <1>2, <3>1
    <3>4. Size(D, q) # Size(D, r)
      BY <1>2, <1>5, <2>3
    <3> QED BY <1>3, <2>3, <3>1, <3>2, <3>3, <3>4
  <2> QED BY <2>1, <2>2, <2>3
<1>8. Rooted(D)
  <2>1. \A q \in DOMAIN C : D[q].origin = C[q].origin
    OBVIOUS
  <2> QED BY <2>1 DEF OneLine, Rooted
<1>9. \A q \in DOMAIN C : D[q].origin # C[r].origin =>
        (Longest(D, q) <=> Longest(C, q))
  <2> SUFFICES ASSUME NEW q \in DOMAIN C, D[q].origin # C[r].origin
      PROVE  Longest(D, q) <=> Longest(C, q)
    OBVIOUS
  <2>1. q # r /\ ~Same(D, q, r) /\ ~Same(C, q, r)
    BY DEF Same
  <2> QED BY <1>1, <1>4, <2>1 DEF Longest
<1>10. Led(D)
  <2> SUFFICES ASSUME NEW q \in DOMAIN D, D[q].origin # 0
      PROVE  \E t \in DOMAIN D : Same(D, q, t) /\ Longest(D, t)
    BY DEF Led
  <2>1. CASE D[q].origin = C[r].origin
    BY <1>6, <2>1 DEF Same
  <2>2. CASE D[q].origin # C[r].origin
    <3>1. C[q].origin # 0 /\ q # r
      BY <2>2
    <3>2. PICK t \in DOMAIN C : Same(C, q, t) /\ Longest(C, t)
      BY <3>1 DEF OneLine, Led
    <3>3. D[t].origin # C[r].origin
      BY <2>2, <3>1, <3>2 DEF Same
    <3> QED BY <1>1, <1>9, <3>2, <3>3
  <2> QED BY <2>1, <2>2
<1> QED BY <1>5, <1>6, <1>7, <1>8, <1>9, <1>10 DEF OneLine

(* The last attempt of the one longest record ends.                        *)
LEMMA LineEnded ==
  ASSUME NEW C, Line(C), OneLine(C), NEW r \in DOMAIN C, C[r].origin # 0,
         \A q \in DOMAIN C : q # r /\ Same(C, q, r) => Size(C, q) < Size(C, r),
         NEW D, Line(D), DOMAIN D = DOMAIN C,
         \A q \in DOMAIN C \ {r} : D[q] = C[q],
         D[r].origin = C[r].origin, Size(D, r) = Size(C, r),
         \A i \in 1..(Size(C, r) - 1) : D[r].attempts[i] = C[r].attempts[i]
  PROVE  /\ OneLine(D) /\ Longest(D, r)
         /\ \A q \in DOMAIN C : D[q].origin # C[r].origin /\ Longest(D, q) =>
              Longest(C, q)
<1>1. \A q, t \in DOMAIN C : Same(D, q, t) <=> Same(C, q, t)
  BY DEF Same
<1>2. \A q \in DOMAIN C : Size(C, q) \in Nat
  BY SizeType
<1>3. \A q \in DOMAIN C : Size(D, q) = Size(C, q)
  BY DEF Size
<1>4. \A q \in DOMAIN C : q # r => (Done(D, q) <=> Done(C, q))
  BY DEF Done
<1>5. \A q \in DOMAIN C : Longest(D, q) <=> Longest(C, q)
  BY <1>1, <1>3 DEF Longest
<1>6. Longest(D, r)
  BY <1>1, <1>2, <1>3 DEF Longest, Same
<1>7. Prefixes(D)
  <2> SUFFICES ASSUME NEW q \in DOMAIN D, NEW t \in DOMAIN D, Same(D, q, t),
                      Size(D, q) <= Size(D, t)
      PROVE  /\ \A i \in 1..Size(D, q) : D[q].attempts[i] = D[t].attempts[i]
             /\ Size(D, q) = Size(D, t) => (Done(D, q) <=> Done(D, t))
    BY DEF Prefixes
  <2>1. CASE q = t
    BY <2>1
  <2>2. CASE q # t
    <3>1. q # r
      BY <1>1, <1>2, <1>3, <2>2 DEF Same
    <3>2. /\ Same(C, q, t) /\ Size(C, q) <= Size(C, t) /\ D[q] = C[q]
      BY <1>1, <1>3, <3>1
    <3>3. /\ \A i \in 1..Size(C, q) : C[q].attempts[i] = C[t].attempts[i]
          /\ Size(C, q) = Size(C, t) => (Done(C, q) <=> Done(C, t))
      BY <3>2 DEF OneLine, Prefixes
    <3>4. CASE t # r
      BY <1>3, <1>4, <3>1, <3>2, <3>3, <3>4
    <3>5. CASE t = r
      <4>1. Size(C, q) < Size(C, r) /\ Size(C, q) \in Nat /\ Size(C, r) \in Nat
        BY <1>2, <2>2, <3>2, <3>5
      <4>2. \A i \in 1..Size(C, q) : i \in 1..(Size(C, r) - 1)
        BY <4>1
      <4> QED BY <1>3, <3>2, <3>3, <3>5, <4>1, <4>2
    <3> QED BY <3>4, <3>5
  <2> QED BY <2>1, <2>2
<1>8. \A q \in DOMAIN C : D[q].origin = C[q].origin
  OBVIOUS
<1>9. Rooted(D)
  BY <1>8 DEF OneLine, Rooted
<1>10. Led(D)
  BY <1>1, <1>5, <1>8 DEF OneLine, Led
<1> QED BY <1>5, <1>6, <1>7, <1>9, <1>10 DEF OneLine

------------------------------------------------------------------------------
(* The records.                                                            *)
LEMMA NoneTyped ==
  /\ NoCandidate \in Candidate /\ NoCompletion \in Completion
  /\ NoReceipt \in Receipt /\ Idle \in Coordinator
<1>1. NoCandidate \in Candidate
  BY ReleaseAssumption DEF NoCandidate, Fresh, Candidate, Effects
<1>2. NoCompletion \in Completion
  BY ReleaseAssumption, EmptySeq DEF NoCompletion, Completion
<1>3. NoReceipt \in Receipt
  BY <1>1, <1>2, ReleaseAssumption DEF NoReceipt, Receipt
<1> QED BY <1>1, <1>2, <1>3, ReleaseAssumption
        DEF Idle, Coordinator, Commands, Working

LEMMA NoneOK ==
  ASSUME NEW w
  PROVE  /\ CandidateOK(NoCandidate, w) /\ NamedOK(NoReceipt, w)
         /\ Attempted(NoCompletion, w)
<1>1. CandidateOK(NoCandidate, w)
  BY DEF CandidateOK, Honest, NoCandidate, Fresh
<1>2. NoCandidate.source = NoSource
  BY DEF NoCandidate, Fresh
<1> QED BY <1>1, <1>2 DEF NamedOK, NoReceipt, Attempted, NoCompletion

LEMMA Base ==
  ASSUME SlotTyped, SlotOK
  PROVE  /\ Names \subseteq 0..MaxRuns /\ state.run \in Names
         /\ DOMAIN history \subseteq Names \ {0}
         /\ DOMAIN Rec = Names /\ Rec \in [Names -> State]
         /\ \A r \in DOMAIN history : Rec[r] = Archived(r)
         /\ Rec[state.run] = state
         /\ \A r \in Names : Rec[r].run = r
<1>1. runs \in 0..MaxRuns /\ state \in State /\ state.run \in 0..MaxRuns
  BY DEF SlotTyped, State
<1>2. DOMAIN history \subseteq 1..runs
  BY DEF SlotOK
<1>3. Names \subseteq 0..MaxRuns /\ state.run \in Names
  BY <1>1, <1>2, ReleaseAssumption DEF Names
<1>4. DOMAIN history \subseteq Names \ {0}
  BY <1>1, <1>2 DEF Names
<1>5. \A r \in DOMAIN history : Archived(r) \in State
  BY DEF SlotTyped, Archived
<1>6. DOMAIN Rec = Names /\ Rec \in [Names -> State]
  BY <1>1, <1>5 DEF Rec
<1>7. \A r \in DOMAIN history : Rec[r] = Archived(r)
  BY DEF Rec, Names
<1>8. Rec[state.run] = state
  BY DEF Rec, Names, SlotOK
<1>9. \A r \in Names : Rec[r].run = r
  BY <1>7, <1>8 DEF Names, SlotOK
<1> QED BY <1>3, <1>4, <1>6, <1>7, <1>8, <1>9

LEMMA RecordsAre ==
  ASSUME SlotTyped, SlotOK
  PROVE  /\ Records = {Rec[r] : r \in Names}
         /\ Proofs = UNION {Rec[r].proofs : r \in Names}
<1>1. Records = {Rec[r] : r \in Names}
  BY Base DEF Records, Names
<1>2. Proofs = UNION {Rec[r].proofs : r \in Names}
  BY Base DEF Proofs, Names
<1> QED BY <1>1, <1>2

LEMMA CompletionsAre ==
  ASSUME SlotTyped, SlotOK
  PROVE  /\ DOMAIN Completions = Names /\ Line(Completions)
         /\ \A r \in Names : Completions[r] = Rec[r].completion
<1>1. /\ DOMAIN Completions = Names
      /\ \A r \in Names : Completions[r] = Rec[r].completion
  BY DEF Completions
<1>2. \A r \in Names : Rec[r].completion \in Completion
  BY Base DEF State
<1> QED BY <1>1, <1>2, Base DEF Line, Completions

(* What a step of a run leaves: a record s of it and a coordinator d.      *)
Follows(d) ==
  /\ d \in Coordinator /\ d.pc \in Working /\ d.run = co.run
  /\ d.command = co.command /\ d.source = co.source /\ d.selected = co.selected
Fits(s, d) ==
  /\ s \in State /\ s.run = co.run /\ s.command = co.command
  /\ s.source = co.source
  /\ NamedOK(s, World) /\ CompletionOK(s, World)
  /\ \A proof \in s.proofs : ProofOK(proof)
  /\ d = Idle \/ (Follows(d) /\ PcGood(s.prebuilt, d, World))

(* A run at work is the one that the lock and the state name.              *)
LEMMA AtWork ==
  ASSUME SlotTyped, SlotOK, co.pc \in Working
  PROVE  /\ state.run = co.run /\ co.run \notin DOMAIN history /\ lock = co.run
         /\ co.run \in 1..runs /\ co.run \in Runs /\ co.run # 0
         /\ state.command = co.command /\ state.source = co.source
         /\ co \in Coordinator /\ state \in State /\ co.command # "none"
<1>1. co.pc # "none" /\ co.pc # "opened" /\ co.pc # "unlock"
  BY DEF Working
<1>2. co.run \in 1..runs /\ lock = co.run /\ co.command # "none"
  BY <1>1 DEF SlotOK
<1>3. co.run \in Runs /\ co.run # 0
  BY <1>2, ReleaseAssumption DEF SlotTyped, Runs
<1> QED BY <1>2, <1>3 DEF SlotOK, SlotTyped

(* Such a step rewrites the run's record alone.                            *)
LEMMA Rewritten ==
  ASSUME SlotTyped, SlotOK, co.pc \in Working,
         history' = history, state'.run = co.run
  PROVE  /\ Names' = Names /\ DOMAIN Rec' = Names /\ Rec'[co.run] = state'
         /\ \A r \in Names : r # co.run => Rec'[r] = Rec[r]
         /\ Proofs' \subseteq Proofs \cup state'.proofs
         /\ DOMAIN Completions' = Names
         /\ Completions'[co.run] = state'.completion
         /\ \A r \in Names : r # co.run => Completions'[r] = Completions[r]
<1>1. state.run = co.run /\ co.run \notin DOMAIN history
  BY AtWork
<1>2. Names' = Names
  BY <1>1 DEF Names
<1>3. /\ DOMAIN Rec' = Names /\ Rec'[co.run] = state'
      /\ \A r \in Names : r # co.run => Rec'[r] = Rec[r]
  BY <1>1, <1>2 DEF Rec, Archived, Names
<1>4. Proofs' \subseteq Proofs \cup state'.proofs
  BY DEF Proofs, Archived
<1>5. /\ DOMAIN Completions' = Names
      /\ \A r \in Names : Completions'[r] = Rec'[r].completion
  BY <1>2 DEF Completions
<1>6. co.run \in Names
  BY <1>1 DEF Names
<1> QED BY <1>2, <1>3, <1>4, <1>5, <1>6 DEF Completions

LEMMA RecordKept ==
  ASSUME RecordPart, co.pc \in Working, Fits(state', co'),
         UNCHANGED <<setting, runs, history, lock, cloud, served>>,
         receipt' \in Receipt, NamedOK(receipt', World),
         anchor' \in [run : 0..MaxRuns, source : Sources \cup {NoSource}]
  PROVE  RecordPart'
<1> USE DEF RecordPart
<1>0. /\ state' \in State /\ state'.run = co.run /\ state'.command = co.command
      /\ state'.source = co.source
      /\ NamedOK(state', World) /\ CompletionOK(state', World)
      /\ co' = Idle \/ (Follows(co') /\ PcGood(state'.prebuilt, co', World))
  BY DEF Fits
<1>1. SlotTyped'
  <2>1. co' \in Coordinator
    BY <1>0, NoneTyped DEF Follows
  <2> QED BY <1>0, <2>1 DEF SlotTyped
<1>2. SlotOK'
  <2>1. CASE co' = Idle
    <3>1. co'.pc = "none"
      BY <2>1 DEF Idle
    <3>2. co'.pc # "opened" /\ co'.pc # "unlock" /\ co'.pc \notin Working
      BY <3>1 DEF Working
    <3>3. lock # 0
      BY AtWork
    <3> QED BY <1>0, <2>1, <3>1, <3>2, <3>3, AtWork DEF SlotOK, Archived
  <2>2. CASE Follows(co')
    <3>1. co'.pc # "none" /\ co'.pc # "opened" /\ co'.pc # "unlock"
      BY <2>2 DEF Follows, Working
    <3>2. lock # 0
      BY AtWork
    <3> QED BY <1>0, <2>2, <3>1, <3>2, AtWork DEF SlotOK, Archived, Follows
  <2> QED BY <1>0, <2>1, <2>2
<1>3. World' = World
  BY DEF World
<1>4. RecordsOK'
  <2>1. \A r \in Names' : NamedOK(Rec'[r], World) /\ CompletionOK(Rec'[r], World)
    <3>1. \A r \in Names : NamedOK(Rec[r], World) /\ CompletionOK(Rec[r], World)
      BY DEF RecordsOK
    <3> QED BY <1>0, <3>1, Rewritten
  <2>2. NamedOK(co'.selected, World) /\ (co'.pc # "none" => co'.source \in Sources)
        /\ (co'.command = "verify" => co'.selected.source = co'.source)
    <3>1. CASE co' = Idle
      BY <3>1, NoneOK DEF Idle
    <3>2. CASE Follows(co')
      <4>1. co.pc # "none"
        BY DEF Working
      <4> QED BY <3>2, <4>1 DEF Follows, RecordsOK
    <3> QED BY <1>0, <3>1, <3>2
  <2> QED BY <1>3, <2>1, <2>2 DEF RecordsOK
<1>5. PcGood(p0, co, World)'
  <2>1. CASE co' = Idle
    BY <2>1 DEF PcGood, Idle, Publishing
  <2>2. CASE PcGood(state'.prebuilt, co', World)
    BY <1>3, <2>2 DEF p0
  <2> QED BY <1>0, <2>1, <2>2
<1>6. ProofsOK'
  <2> SUFFICES ASSUME NEW proof \in Proofs' PROVE ProofOK(proof)'
    BY DEF ProofsOK
  <2>1. proof \in Proofs \cup state'.proofs
    BY <1>0, Rewritten
  <2>2. ProofOK(proof)
    BY <2>1 DEF ProofsOK, Fits
  <2> QED BY <2>2 DEF ProofOK, Archived, Matches
<1> QED BY <1>1, <1>2, <1>4, <1>5, <1>6

------------------------------------------------------------------------------
(* A coordinator's writes.  A state that parses and of which what is said  *)
(* was done is a good record.                                              *)
LEMMA ValidCandidate ==
  ASSUME NEW s \in State, Valid(s), Honest(s.prebuilt, World)
  PROVE  CandidateOK(s.prebuilt, World)
<1> DEFINE p == s.prebuilt
<1>1. p \in Candidate
  BY DEF State
<1>2. p.create \in {"not-attempted", "unknown", "accepted"}
      /\ p.bound \in BOOLEAN /\ p.accepted \in BOOLEAN /\ p.promoted \in BOOLEAN
  BY <1>1 DEF Candidate, Effects
<1>3. CASE p.source = NoSource
  BY <1>3, NoneOK DEF Honest
<1>4. CASE p.source # NoSource
  BY <1>2, <1>4 DEF Valid, CandidateOK, Honest, World
<1> QED BY <1>3, <1>4

Next1(pc) == [co EXCEPT !.pc = pc, !.answered = FALSE]

(* What may be written in the place of the run's record.                   *)
Writable(s) ==
  /\ s \in State /\ s.run = co.run /\ s.command = co.command
  /\ s.source = co.source
  /\ Honest(s.prebuilt, World) /\ s.prebuilt.source \in {NoSource, s.source}
  /\ Attempted(s.completion, World)
  /\ \A proof \in s.proofs : ProofOK(proof)

LEMMA GoesOn ==
  ASSUME SlotTyped, SlotOK, co.pc \in Working, NEW pc \in Working, NEW b \in BOOLEAN
  PROVE  /\ Follows([co EXCEPT !.pc = pc, !.answered = b])
         /\ Follows([co EXCEPT !.pc = pc])
         /\ Follows([co EXCEPT !.pc = pc, !.ok = b])
BY AtWork DEF Follows, Coordinator

LEMMA WritableFits ==
  ASSUME RecordPart, co.pc \in Working, NEW s, Writable(s), Valid(s),
         NEW d, d = Idle \/ (Follows(d) /\ PcGood(s.prebuilt, d, World))
  PROVE  Fits(s, d)
<1>1. s \in State /\ s.run = co.run /\ s.source = co.source
  BY DEF Writable
<1>2. CandidateOK(s.prebuilt, World)
  BY <1>1, ValidCandidate DEF Writable
<1>3. co.source \in Sources
  BY DEF RecordPart, RecordsOK, Working
<1>4. NamedOK(s, World)
  BY <1>1, <1>2, <1>3 DEF NamedOK, Writable
<1>5. CompletionOK(s, World)
  BY DEF CompletionOK, Valid, Writable
<1> QED BY <1>4, <1>5 DEF Fits, Writable

(* The run's own record fits as it is.                                     *)
LEMMA OwnFits ==
  ASSUME RecordPart, co.pc \in Working,
         NEW d, d = Idle \/ (Follows(d) /\ PcGood(p0, d, World))
  PROVE  Fits(state, d)
<1> USE DEF RecordPart
<1>1. NamedOK(state, World) /\ CompletionOK(state, World)
  BY Base DEF RecordsOK
<1>2. \A proof \in state.proofs : ProofOK(proof)
  BY DEF ProofsOK, Proofs
<1> QED BY <1>1, <1>2, AtWork DEF Fits, p0

LEMMA PersistFits ==
  ASSUME RecordPart, co.pc \in Working, NEW s, NEW pc \in Working,
         Persist(s, pc), Writable(s),
         Valid(s) => PcGood(s.prebuilt, Next1(pc), World)
  PROVE  /\ Fits(state', co')
         /\ \/ state' = state /\ co' = Idle
            \/ Valid(s) /\ state' = s /\ co' = Next1(pc)
<1>1. CASE Valid(s)
  <2>1. state' = s /\ co' = Next1(pc)
    BY <1>1 DEF Persist, Next1
  <2>2. Follows(Next1(pc))
    BY GoesOn DEF RecordPart, Next1
  <2> QED BY <1>1, <2>1, <2>2, WritableFits
<1>2. CASE ~Valid(s)
  <2>1. state' = state /\ co' = Idle
    BY <1>2 DEF Persist
  <2> QED BY <2>1, OwnFits
<1> QED BY <1>1, <1>2

------------------------------------------------------------------------------
(* Requests.  A run that is not waiting has none on its way.               *)
LEMMA NoOwn ==
  ASSUME RequestsOK, co.pc \in Working \ Leaving,
         co.pc \notin {"creating", "assigning", "promoting"} \/ co.answered
  PROVE  \A q \in requests : q.run # co.run
BY DEF RequestsOK, OwnOK, WaitsFor

(* A proof that concerns no request on its way.                            *)
Concluded(proof) == \A q \in requests : Binding(q) => proof.run # q.run

LEMMA RequestsKept ==
  ASSUME RecordPart, RequestsOK, co.pc \in Working, Fits(state', co'),
         UNCHANGED <<history, remote>>,
         \A proof \in state'.proofs : proof \in Proofs \/ Concluded(proof),
         \/ \A q \in requests : q.run # co.run
         \/ state'.prebuilt = state.prebuilt /\ co'.pc \notin Working \ Leaving
  PROVE  RequestsOK'
<1> USE DEF RecordPart
<1>0. state'.run = co.run /\ state'.source = co.source
  BY DEF Fits
<1>1. ASSUME NEW q \in requests' PROVE RequestOK(q)'
  <2>1. q \in requests /\ RequestOK(q)
    BY DEF remote, RequestsOK
  <2>2. cloud' = cloud /\ requests' = requests /\ posts' = posts
    BY DEF remote
  <2>3. q.run \in Names' /\ Sent(Rec'[q.run], q)
    <3>1. CASE q.run # co.run
      BY <1>0, <2>1, <3>1, Rewritten DEF RequestOK
    <3>2. CASE q.run = co.run
      <4>1. state'.prebuilt = state.prebuilt
        BY <2>1, <3>2
      <4>2. Rec[q.run] = state /\ Rec'[q.run] = state'
        BY <1>0, <3>2, Rewritten, AtWork, Base
      <4>3. q.run \in Names' /\ Sent(state, q)
        BY <1>0, <2>1, <4>2, Rewritten DEF RequestOK
      <4> QED BY <4>1, <4>2, <4>3 DEF Sent
    <3> QED BY <3>1, <3>2
  <2>4. Binding(q) => \A proof \in Proofs' : proof.run # q.run
    <3> SUFFICES ASSUME Binding(q), NEW proof \in Proofs' PROVE proof.run # q.run
      OBVIOUS
    <3>1. proof \in Proofs \/ Concluded(proof)
      BY <1>0, Rewritten
    <3> QED BY <2>1, <3>1 DEF Concluded, RequestOK
  <2>5. /\ \A r \in requests : Binding(r)' <=> Binding(r)
        /\ Posted(q.to)' <=> Posted(q.to)
        /\ PromotedAgain(cloud.job.to)' <=> PromotedAgain(cloud.job.to)
    BY <2>2 DEF Binding, Replayed, PromotedAgain, Posted
  <2>6. Sent(Rec[q.run], q)' <=> Sent(Rec'[q.run], q)
    BY DEF Sent
  <2> QED BY <2>1, <2>2, <2>3, <2>4, <2>5, <2>6 DEF RequestOK
<1>2. OwnOK(co')
  <2>1. CASE co'.pc \notin Working \ Leaving
    BY <2>1 DEF OwnOK
  <2>2. CASE \A q \in requests : q.run # co.run
    <3>1. co' = Idle \/ co'.run = co.run
      BY DEF Fits, Follows
    <3>2. Idle.pc \notin Working
      BY DEF Idle, Working
    <3> QED BY <2>2, <3>1, <3>2 DEF OwnOK
  <2> QED BY <2>1, <2>2
<1>3. OwnOK(co)'
  BY <1>2 DEF OwnOK, WaitsFor, remote
<1> QED BY <1>1, <1>3 DEF RequestsOK

(* What the guard requires is met by no request but a promotion that is of *)
(* a deployment promoted again.                                            *)
LEMMA GuardAlone ==
  ASSUME RecordPart, RemotePart, MutationGuard, co.pc \in Working,
         \A q \in requests : q.run # co.run
  PROVE  /\ \A q \in requests : Replayed(q) /\ q.run \in DOMAIN history
         /\ cloud.job.status # "running"
<1> USE DEF RecordPart, RemotePart
<1>1. ASSUME NEW q \in requests
      PROVE  Replayed(q) /\ q.run \in DOMAIN history
  <2>1. RequestOK(q) /\ q.kind \in {"create", "alias", "promote"}
    BY DEF RequestsOK, RemoteTyped, Request
  <2>2. q.run \in DOMAIN history
    BY <2>1, AtWork DEF RequestOK, Names
  <2>3. Sent(Archived(q.run), q) /\ Archived(q.run).run = q.run
    BY <2>1, <2>2, Base DEF RequestOK, SlotOK
  <2>4. Unresolved(Archived(q.run))
    BY <2>1, <2>3 DEF Sent, Unresolved, PendingAlias, Uncertain
  <2>5. PICK proof \in Proofs : proof.run = q.run
    BY <2>2, <2>3, <2>4 DEF MutationGuard, Settled, Matches
  <2>6. ~Binding(q)
    BY <2>1, <2>5 DEF RequestOK
  <2> QED BY <2>2, <2>6 DEF Binding
<1> QED BY <1>1 DEF MutationGuard

(* A new request.                                                          *)
LEMMA RequestSent ==
  ASSUME RecordPart, RemotePart, MutationGuard, co.pc \in Working,
         \A q \in requests : q.run # co.run, Fits(state', co'),
         UNCHANGED <<history, cloud, served>>,
         state'.proofs = state.proofs,
         NEW new \in Request, requests' = requests \cup {new},
         new.run = co.run, Sent(state', new),
         WaitsFor(co', new), ~co'.answered,
         new.kind = "alias" => cloud.alias[new.source] = 0,
         IF new.kind = "promote" THEN posts' = Append(posts, new.to)
         ELSE posts' = posts
  PROVE  RequestsOK' /\ posts' \in Seq(Runs) /\ CloudOK'
<1> USE DEF RecordPart, RemotePart
<1>0. /\ state'.run = co.run /\ posts \in Seq(Runs)
      /\ new.to \in Runs /\ new.kind \in {"create", "alias", "promote"}
  BY DEF Fits, RemoteTyped, Request
<1>1. /\ posts' \in Seq(Runs)
      /\ DOMAIN posts \subseteq DOMAIN posts'
      /\ \A i \in DOMAIN posts : posts'[i] = posts[i]
      /\ new.kind = "promote" =>
           \E i \in DOMAIN posts' \ DOMAIN posts : posts'[i] = new.to
  <2>1. CASE new.kind = "promote"
    <3>1. posts' = Append(posts, new.to) /\ posts' \in Seq(Runs)
      BY <1>0, <2>1, AppendProperties
    <3>2. Len(posts) \in Nat /\ DOMAIN posts = 1..Len(posts)
      BY <1>0, LenProperties
    <3>3. Len(posts') = Len(posts) + 1 /\ DOMAIN posts' = 1..Len(posts')
          /\ posts'[Len(posts')] = new.to
          /\ \A i \in 1..Len(posts) : posts'[i] = posts[i]
      BY <1>0, <3>1, AppendProperties, LenProperties
    <3>4. DOMAIN posts \subseteq DOMAIN posts'
          /\ Len(posts') \in DOMAIN posts' \ DOMAIN posts
      BY <3>2, <3>3
    <3> QED BY <3>1, <3>2, <3>3, <3>4
  <2>2. CASE new.kind # "promote"
    BY <1>0, <2>2
  <2> QED BY <2>1, <2>2
<1>2. /\ \A id : PromotedAgain(id) => PromotedAgain(id)'
      /\ \A q : Replayed(q) => Replayed(q)'
  BY <1>1 DEF PromotedAgain, Replayed
<1>3. \A id : Posted(id) => Posted(id)'
  BY <1>1 DEF Posted
<1>4. /\ \A q \in requests : Replayed(q) /\ q.run \in DOMAIN history
      /\ cloud.job.status # "running"
  BY GuardAlone
<1>5. \A proof \in Proofs' : proof.run \in DOMAIN history
  BY <1>0, Rewritten DEF ProofsOK, ProofOK, Proofs
<1>6. RequestOK(new)'
  <2>1. new.run \in Names' /\ Rec'[new.run] = state'
    BY <1>0, Rewritten, AtWork, Base
  <2>2. Sent(Rec[new.run], new)'
    BY <2>1 DEF Sent
  <2>3. new.kind = "promote" =>
          Posted(new.to)' /\ (Binding(new)' => cloud'.job.to # new.to)
    <3> SUFFICES ASSUME new.kind = "promote"
        PROVE  Posted(new.to)' /\ (Binding(new)' => cloud'.job.to # new.to)
      OBVIOUS
    <3>1. PICK i \in DOMAIN posts' \ DOMAIN posts : posts'[i] = new.to
      BY <1>1
    <3>2. Posted(new.to)'
      BY <3>1 DEF Posted
    <3>3. ASSUME cloud.job.to = new.to PROVE Replayed(new)'
      <4>1. new.to # 0
        BY <1>0, ReleaseAssumption DEF Runs
      <4>2. PICK j \in DOMAIN posts : posts[j] = new.to
        BY <3>3, <4>1 DEF CloudOK, Posted
      <4>3. j \in DOMAIN posts' /\ posts'[j] = new.to /\ i # j
        BY <1>1, <3>1, <4>2
      <4> QED BY <3>1, <4>3 DEF Replayed, PromotedAgain
    <3> QED BY <3>2, <3>3 DEF Binding
  <2>4. \A proof \in Proofs' : proof.run # new.run
    BY <1>5, AtWork
  <2>5. \A r \in requests' : Binding(r)' => new = r
    BY <1>2, <1>4 DEF Binding
  <2>6. cloud'.job.status # "running"
    BY <1>4
  <2> QED BY <2>1, <2>2, <2>3, <2>4, <2>5, <2>6 DEF RequestOK
<1>7. ASSUME NEW q \in requests PROVE RequestOK(q)'
  <2>1. RequestOK(q) /\ q.run # co.run /\ q.kind = "promote" /\ Replayed(q)'
    BY <1>2, <1>4 DEF RequestsOK, Replayed
  <2>2. q.run \in Names' /\ Rec'[q.run] = Rec[q.run]
    BY <1>0, <2>1, Rewritten DEF RequestOK
  <2>3. Sent(Rec[q.run], q)'
    BY <2>1, <2>2 DEF RequestOK, Sent
  <2>4. ~Binding(q)' /\ Posted(q.to)'
    BY <1>3, <2>1 DEF Binding, RequestOK
  <2> QED BY <2>1, <2>2, <2>3, <2>4 DEF RequestOK
<1>8. OwnOK(co)'
  <2> SUFFICES ASSUME NEW q \in requests', q.run = co'.run,
                      co'.pc \in Working \ Leaving
      PROVE  WaitsFor(co', q) /\ ~co'.answered
    BY DEF OwnOK, WaitsFor
  <2>1. co'.run = co.run
    BY DEF Fits, Follows, Idle, Working
  <2>2. q = new
    BY <1>4, <2>1, AtWork
  <2> QED BY <2>2
<1>9. CloudOK'
  BY <1>3 DEF CloudOK
<1> QED BY <1>1, <1>6, <1>7, <1>8, <1>9 DEF RequestsOK

------------------------------------------------------------------------------
(* What a step of a run does to the lines of attempts.                     *)
LEMMA LineRewritten ==
  ASSUME SlotTyped, SlotOK, co.pc \in Working, history' = history,
         Fits(state', co')
  PROVE  Line(Completions')
<1>1. state' \in State /\ state'.run = co.run
  BY DEF Fits
<1>2. state'.completion \in Completion
  BY <1>1 DEF State
<1>3. \A r \in Names : Completions'[r] \in Completion
  BY <1>1, <1>2, Rewritten, CompletionsAre DEF Line
<1>4. Completions' = [r \in DOMAIN Completions' |-> Completions'[r]]
  BY DEF Completions
<1> QED BY <1>1, <1>3, <1>4, Rewritten, Base DEF Line

LEMMA LineKept ==
  ASSUME RecordPart, LinePart, co.pc \in Working, history' = history,
         Fits(state', co'), state'.completion = state.completion, co'.pc # "job"
  PROVE  LinePart'
<1> USE DEF RecordPart, LinePart
<1>1. state'.run = co.run /\ state.run = co.run
  BY AtWork DEF Fits
<1>2. Completions[co.run] = state.completion /\ co.run \in Names
  BY <1>1, Base, CompletionsAre
<1>3. \A r \in Names : Completions'[r] = Completions[r]
  BY <1>1, <1>2, Rewritten
<1>4. /\ Completions' = [r \in Names |-> Completions'[r]]
      /\ Completions = [r \in Names |-> Completions[r]]
  BY <1>1, Rewritten, CompletionsAre DEF Completions
<1>5. Completions' = Completions
  BY <1>3, <1>4
<1>6. AttemptsOK'
  BY <1>1, <1>5 DEF AttemptsOK
<1>7. BlocksOK'
  <2> SUFFICES ASSUME co'.command = "publish", co'.pc \in Working
      PROVE  \A r \in Names' : Completions'[r].origin \notin {0, co'.run}
               /\ Longest(Completions', r) => Done(Completions', r)
    BY DEF BlocksOK
  <2>1. co'.command = co.command /\ co'.run = co.run
    BY DEF Fits, Follows, Idle, Working
  <2> QED BY <1>1, <1>5, <2>1, Rewritten DEF BlocksOK
<1> QED BY <1>6, <1>7

(* A step that changes the completion: what is left to say of its line.    *)
LEMMA LineChanged ==
  ASSUME RecordPart, LinePart, co.pc \in Working, history' = history,
         Fits(state', co'), OneLine(Completions'), Longest(Completions', co.run),
         \/ Completions'[co.run].origin = co.run
         \/ co.command # "publish"
         \/ Done(Completions', co.run),
         \A r \in Names : r # co.run /\ Completions'[r].origin \notin {0, co.run}
           /\ Longest(Completions', r) /\ co.command = "publish" =>
                Longest(Completions, r),
         co'.pc = "job" =>
           /\ state'.completion.origin # 0
           /\ state'.completion.status = "running"
           /\ Size(Completions', co.run) > 0
           /\ \A r \in Names : r # co.run /\ Same(Completions', r, co.run) =>
                Size(Completions', r) < Size(Completions', co.run)
  PROVE  LinePart'
<1> USE DEF RecordPart, LinePart
<1>1. state'.run = co.run /\ Names' = Names
  BY Rewritten DEF Fits
<1>2. AttemptsOK'
  BY <1>1 DEF AttemptsOK
<1>3. BlocksOK'
  <2> SUFFICES ASSUME co'.command = "publish", co'.pc \in Working, NEW r \in Names,
                      Completions'[r].origin \notin {0, co'.run},
                      Longest(Completions', r)
      PROVE  Done(Completions', r)
    BY <1>1 DEF BlocksOK
  <2>1. co'.command = co.command /\ co'.run = co.run
    BY DEF Fits, Follows, Idle, Working
  <2>2. CASE r = co.run
    BY <2>1, <2>2
  <2>3. CASE r # co.run
    <3>1. Completions'[r] = Completions[r]
      BY <1>1, <2>3, Rewritten
    <3>2. Longest(Completions, r)
      BY <2>1, <2>3
    <3>3. Done(Completions, r)
      BY <2>1, <3>1, <3>2 DEF BlocksOK
    <3> QED BY <3>1, <3>3 DEF Done
  <2> QED BY <2>2, <2>3
<1> QED BY <1>2, <1>3

Begun(c) == [origin |-> state.run, id |-> c.id, status |-> "not-started",
             attempts |-> <<>>]

LEMMA LineBegun ==
  ASSUME RecordPart, LinePart, co.pc \in Working, history' = history,
         Fits(state', co'), state.completion.origin = 0,
         state'.completion = Begun(state'.completion), co'.pc # "job"
  PROVE  LinePart'
<1> USE DEF RecordPart, LinePart
<1>1. state'.run = co.run /\ state.run = co.run /\ co.run # 0
  BY AtWork DEF Fits
<1>2. /\ Completions[co.run].origin = 0 /\ co.run \in Names
      /\ DOMAIN Completions = Names /\ Line(Completions)
  BY <1>1, Base, CompletionsAre
<1>3. Completions'[co.run].origin = co.run /\ Completions'[co.run].attempts = <<>>
  BY <1>1, Rewritten DEF Begun
<1>4. \A r \in Names \ {co.run} : Completions'[r] = Completions[r]
  BY <1>1, Rewritten
<1>5. Line(Completions') /\ DOMAIN Completions' = Names
  BY <1>1, LineRewritten, Rewritten
<1>6. OneLine(Completions)
  BY DEF AttemptsOK
<1>7. /\ OneLine(Completions') /\ Longest(Completions', co.run)
      /\ \A q \in Names : Completions'[q].origin # co.run
           /\ Longest(Completions', q) => Longest(Completions, q)
  BY <1>1, <1>2, <1>3, <1>4, <1>5, <1>6, LineStarted
<1> QED BY <1>3, <1>7, LineChanged

LEMMA LineTried ==
  ASSUME RecordPart, LinePart, co.pc \in Working, history' = history,
         Fits(state', co'), state.completion.origin # 0,
         state.completion.status # "completed", NEW a \in Attempt,
         state'.completion.origin = state.completion.origin,
         state'.completion.status = "running",
         state'.completion.attempts = Append(state.completion.attempts, a)
  PROVE  LinePart'
<1> USE DEF RecordPart, LinePart
<1>1. state'.run = co.run /\ state.run = co.run /\ co.run \notin DOMAIN history
  BY AtWork DEF Fits
<1>2. /\ Completions[co.run] = state.completion /\ co.run \in Names
      /\ DOMAIN Completions = Names /\ Line(Completions)
  BY <1>1, Base, CompletionsAre
<1>3. Completions'[co.run] = state'.completion
  BY <1>1, Rewritten
<1>4. \A r \in Names \ {co.run} : Completions'[r] = Completions[r]
  BY <1>1, Rewritten
<1>5. Line(Completions') /\ DOMAIN Completions' = Names
  BY <1>1, LineRewritten, Rewritten
<1>6. OneLine(Completions) /\ Longest(Completions, co.run)
  BY <1>1 DEF AttemptsOK
<1> DEFINE C == Completions  D == Completions'
<1>7. /\ OneLine(D) /\ Longest(D, co.run)
      /\ \A q \in Names : q # co.run /\ Same(D, q, co.run) =>
           Size(D, q) < Size(D, co.run)
      /\ \A q \in Names : D[q].origin # C[co.run].origin /\ Longest(D, q) =>
           Longest(C, q)
  <2> HIDE DEF C, D
  <2>1. /\ Line(C) /\ OneLine(C) /\ DOMAIN C = Names /\ C[co.run].origin # 0
        /\ Longest(C, co.run) /\ Line(D) /\ DOMAIN D = DOMAIN C
        /\ \A q \in DOMAIN C \ {co.run} : D[q] = C[q]
        /\ D[co.run].origin = C[co.run].origin
        /\ D[co.run].attempts = Append(C[co.run].attempts, a)
    BY <1>2, <1>3, <1>4, <1>5, <1>6 DEF C, D
  <2> QED BY <1>2, <2>1, LineExtended
<1>8. co.command = "publish" => C[co.run].origin = co.run
  <2>1. ~Done(C, co.run) /\ C[co.run].origin # 0
    BY <1>2 DEF Done
  <2> QED BY <1>2, <1>6, <2>1 DEF BlocksOK
<1>9. Size(D, co.run) > 0
  <2>1. C[co.run].attempts \in Seq(Attempt)
    BY <1>2, SizeType
  <2> QED BY <1>2, <1>3, <2>1, AppendProperties, LenProperties DEF Size
<1>10. D[co.run].origin = C[co.run].origin
  BY <1>2, <1>3
<1> QED BY <1>3, <1>7, <1>8, <1>9, <1>10, LineChanged

LEMMA LineDone ==
  ASSUME RecordPart, LinePart, co.pc = "job", history' = history,
         Fits(state', co'),
         state'.completion.origin = state.completion.origin,
         Len(state'.completion.attempts) = Len(state.completion.attempts),
         \A i \in 1..(Len(state.completion.attempts) - 1) :
           state'.completion.attempts[i] = state.completion.attempts[i],
         co'.pc # "job"
  PROVE  LinePart'
<1> USE DEF RecordPart, LinePart
<1>0. co.pc \in Working
  BY DEF Working
<1>1. state'.run = co.run /\ state.run = co.run /\ co.run \notin DOMAIN history
  BY <1>0, AtWork DEF Fits
<1>2. /\ Completions[co.run] = state.completion /\ co.run \in Names
      /\ DOMAIN Completions = Names /\ Line(Completions)
  BY <1>1, Base, CompletionsAre
<1>3. Completions'[co.run] = state'.completion
  BY <1>0, <1>1, Rewritten
<1>4. \A r \in Names \ {co.run} : Completions'[r] = Completions[r]
  BY <1>0, <1>1, Rewritten
<1>5. Line(Completions') /\ DOMAIN Completions' = Names
  BY <1>0, <1>1, LineRewritten, Rewritten
<1> DEFINE C == Completions  D == Completions'
<1>6. /\ OneLine(C) /\ Longest(C, co.run) /\ C[co.run].origin # 0
      /\ C[co.run].status = "running"
      /\ \A q \in Names : q # co.run /\ Same(C, q, co.run) =>
           Size(C, q) < Size(C, co.run)
  BY <1>1, <1>2 DEF AttemptsOK
<1>7. /\ OneLine(D) /\ Longest(D, co.run)
      /\ \A q \in Names : D[q].origin # C[co.run].origin /\ Longest(D, q) =>
           Longest(C, q)
  <2>1. /\ D[co.run].origin = C[co.run].origin
        /\ Size(D, co.run) = Size(C, co.run)
        /\ \A i \in 1..(Size(C, co.run) - 1) :
             D[co.run].attempts[i] = C[co.run].attempts[i]
    BY <1>2, <1>3 DEF Size
  <2>2. Line(C) /\ DOMAIN C = Names /\ Line(D) /\ DOMAIN D = Names
        /\ \A q \in Names \ {co.run} : D[q] = C[q]
    BY <1>2, <1>4, <1>5
  <2> HIDE DEF C, D
  <2> QED BY <1>2, <1>6, <2>1, <2>2, LineEnded
<1>8. co.command = "publish" => C[co.run].origin = co.run
  <2>1. ~Done(C, co.run)
    BY <1>6 DEF Done
  <2> QED BY <1>0, <1>2, <1>6, <2>1 DEF BlocksOK
<1>9. D[co.run].origin = C[co.run].origin
  BY <1>2, <1>3
<1> QED BY <1>0, <1>7, <1>8, <1>9, LineChanged

------------------------------------------------------------------------------
(* Steps of a run that leave the cloud alone.                              *)
LEMMA LocalStep ==
  ASSUME IInv, co.pc \in Working, Fits(state', co'), LinePart', Quiet,
         UNCHANGED <<history, lock, remote>>,
         receipt' \in Receipt, NamedOK(receipt', World),
         anchor' \in [run : 0..MaxRuns, source : Sources \cup {NoSource}],
         \A proof \in state'.proofs : proof \in Proofs \/ Concluded(proof),
         \/ \A q \in requests : q.run # co.run
         \/ state'.prebuilt = state.prebuilt /\ co'.pc \notin Working \ Leaving
  PROVE  IInv'
<1> USE DEF IInv
<1>1. RecordPart'
  BY RecordKept DEF Quiet, remote
<1>2. RequestsOK'
  BY RequestsKept DEF RemotePart
<1>3. RemoteTyped' /\ CloudOK'
  BY DEF RemotePart, RemoteTyped, CloudOK, Posted, remote
<1> QED BY <1>1, <1>2, <1>3 DEF RemotePart

(* The receipt and the anchor stay as they are.                            *)
LEMMA PapersKept ==
  ASSUME IInv, SlotElse
  PROVE  /\ receipt' \in Receipt /\ NamedOK(receipt', World)
         /\ anchor' \in [run : 0..MaxRuns, source : Sources \cup {NoSource}]
         /\ history' = history /\ lock' = lock
BY DEF IInv, RecordPart, SlotTyped, RecordsOK, SlotElse

LEMMA OwnProofs == state.proofs \subseteq Proofs
BY DEF Proofs

Acting == co.pc \in Working \ Leaving
          /\ (co.pc \notin {"creating", "assigning", "promoting"} \/ co.answered)

LEMMA PersistStep ==
  ASSUME IInv, Acting, NEW s, NEW pc \in Working, Persist(s, pc), Local,
         Writable(s), Valid(s) => PcGood(s.prebuilt, Next1(pc), World),
         \A proof \in s.proofs : proof \in Proofs \/ Concluded(proof),
         pc # "job", s.completion = state.completion
  PROVE  IInv'
<1>1. co.pc \in Working /\ RecordPart /\ RequestsOK /\ LinePart
  BY DEF Acting, IInv, RemotePart
<1>2. Fits(state', co') /\ (state' = state \/ state' = s)
      /\ (co' = Idle \/ co' = Next1(pc))
  BY <1>1, PersistFits
<1>3. co'.pc # "job"
  <2>1. Next1(pc).pc = pc
    BY <1>1, AtWork DEF Next1, Coordinator, RecordPart
  <2> QED BY <1>2, <2>1 DEF Idle
<1>4. \A q \in requests : q.run # co.run
  BY <1>1, NoOwn DEF Acting
<1>5. LinePart'
  BY <1>1, <1>2, <1>3, LineKept DEF Local, SlotElse
<1> QED BY <1>1, <1>2, <1>4, <1>5, LocalStep, PapersKept, OwnProofs
        DEF Local, SlotElse

(* A candidate that may be saved.                                          *)
Savable(p) ==
  p \in Candidate /\ Honest(p, World) /\ p.source \in {NoSource, co.source}

LEMMA SavedState ==
  ASSUME RecordPart, co.pc \in Working, NEW p, Savable(p)
  PROVE  /\ Writable(WithCandidate(p)) /\ WithCandidate(p).prebuilt = p
         /\ WithCandidate(p).proofs = state.proofs
         /\ \/ WithCandidate(p).completion = state.completion
            \/ /\ state.completion.origin = 0
               /\ WithCandidate(p).completion = Begun(WithCandidate(p).completion)
<1> USE DEF RecordPart
<1>1. /\ state \in State /\ state.run = co.run /\ state.command = co.command
      /\ state.source = co.source /\ state.run # 0
  BY AtWork
<1>2. state.completion \in Completion /\ Attempted(state.completion, World)
  BY <1>1, Base DEF State, RecordsOK, CompletionOK
<1>3. \A proof \in state.proofs : ProofOK(proof)
  BY DEF ProofsOK, Proofs
<1> DEFINE kept == [state EXCEPT !.prebuilt = p]
           started == [origin |-> state.run, id |-> p.id,
                       status |-> "not-started", attempts |-> <<>>]
           begun == [state EXCEPT !.prebuilt = p, !.completion = started]
<1>4. started \in Completion
  BY <1>1, EmptySeq DEF Savable, Candidate, Completion, State
<1>5. Attempted(started, World) /\ started = Begun(started)
  BY <1>1 DEF Attempted, Begun
<1> HIDE DEF started
<1>6. /\ kept \in State /\ kept.run = state.run /\ kept.command = state.command
      /\ kept.source = state.source /\ kept.prebuilt = p
      /\ kept.proofs = state.proofs /\ kept.completion = state.completion
  BY <1>1 DEF State, Savable
<1>7. /\ begun \in State /\ begun.run = state.run
      /\ begun.command = state.command /\ begun.source = state.source
      /\ begun.prebuilt = p /\ begun.proofs = state.proofs
      /\ begun.completion = started
  BY <1>1, <1>4 DEF State, Savable
<1>8. CASE WithCandidate(p) = kept
  BY <1>1, <1>2, <1>3, <1>6, <1>8 DEF Writable, Savable
<1>9. CASE WithCandidate(p) = begun /\ state.completion.origin = 0
  BY <1>1, <1>3, <1>5, <1>7, <1>9 DEF Writable, Savable
<1>10. WithCandidate(p) = kept
       \/ (WithCandidate(p) = begun /\ state.completion.origin = 0)
  BY DEF WithCandidate, started
<1> QED BY <1>8, <1>9, <1>10

LEMMA SaveFits ==
  ASSUME RecordPart, LinePart, co.pc \in Working, history' = history,
         NEW p, Savable(p), NEW pc \in Working, pc # "job", Save(p, pc),
         Valid(WithCandidate(p)) => PcGood(p, Next1(pc), World)
  PROVE  /\ Fits(state', co') /\ LinePart' /\ state'.proofs = state.proofs
         /\ \/ state' = state /\ co' = Idle
            \/ state' = WithCandidate(p) /\ co' = Next1(pc)
<1>1. /\ Writable(WithCandidate(p)) /\ WithCandidate(p).prebuilt = p
      /\ WithCandidate(p).proofs = state.proofs
      /\ \/ WithCandidate(p).completion = state.completion
         \/ /\ state.completion.origin = 0
            /\ WithCandidate(p).completion = Begun(WithCandidate(p).completion)
  BY SavedState
<1>2. /\ Fits(state', co')
      /\ \/ state' = state /\ co' = Idle
         \/ state' = WithCandidate(p) /\ co' = Next1(pc)
  BY <1>1, PersistFits DEF Save
<1>3. co'.pc # "job"
  <2>1. Next1(pc).pc = pc
    BY AtWork DEF Next1, Coordinator, RecordPart
  <2> QED BY <1>2, <2>1 DEF Idle
<1>4. ASSUME state'.completion = state.completion PROVE LinePart'
  BY <1>2, <1>3, <1>4, LineKept
<1>5. ASSUME state.completion.origin = 0,
             state'.completion = Begun(state'.completion)
      PROVE  LinePart'
  BY <1>2, <1>3, <1>5, LineBegun
<1> QED BY <1>1, <1>2, <1>4, <1>5

LEMMA SaveStep ==
  ASSUME IInv, Acting, NEW p, Savable(p), NEW pc \in Working, pc # "job",
         Save(p, pc), Local,
         Valid(WithCandidate(p)) => PcGood(p, Next1(pc), World)
  PROVE  IInv'
<1>1. co.pc \in Working /\ RecordPart /\ RequestsOK /\ LinePart
  BY DEF Acting, IInv, RemotePart
<1>2. Fits(state', co') /\ LinePart' /\ state'.proofs = state.proofs
  BY <1>1, SaveFits DEF Local, SlotElse
<1>3. \A q \in requests : q.run # co.run
  BY <1>1, NoOwn DEF Acting
<1> QED BY <1>1, <1>2, <1>3, LocalStep, PapersKept, OwnProofs
        DEF Local, SlotElse

LEMMA GoStep ==
  ASSUME IInv, co.pc \in Working, state' = state, co'.pc # "job",
         Follows(co'), PcGood(p0, co', World), Quiet,
         UNCHANGED <<history, lock, remote>>,
         receipt' \in Receipt, NamedOK(receipt', World),
         anchor' \in [run : 0..MaxRuns, source : Sources \cup {NoSource}],
         Acting \/ co'.pc \in Leaving
  PROVE  IInv'
<1>1. RecordPart /\ RequestsOK /\ LinePart
  BY DEF IInv, RemotePart
<1>2. Fits(state', co')
  BY <1>1, OwnFits
<1>3. LinePart'
  BY <1>1, <1>2, LineKept
<1>4. (\A q \in requests : q.run # co.run) \/ co'.pc \notin Working \ Leaving
  BY <1>1, NoOwn DEF Acting
<1> QED BY <1>2, <1>3, <1>4, LocalStep, OwnProofs

LEMMA GoLocal ==
  ASSUME IInv, Acting, NEW pc \in Working, pc # "job", Go(pc), Local,
         PcGood(p0, [co EXCEPT !.pc = pc], World)
  PROVE  IInv'
<1>1. co.pc \in Working /\ RecordPart
  BY DEF Acting, IInv
<1>2. Follows(co') /\ co' = [co EXCEPT !.pc = pc] /\ co'.pc = pc
  BY <1>1, GoesOn, AtWork DEF Go, RecordPart, Coordinator
<1> QED BY <1>1, <1>2, GoStep, PapersKept DEF Go, Local

------------------------------------------------------------------------------
(* The steps of a run.                                                     *)
LEMMA OwnCandidate ==
  ASSUME RecordPart, co.pc \in Working
  PROVE  /\ p0 \in Candidate /\ CandidateOK(p0, World)
         /\ p0.source \in {NoSource, co.source} /\ co.source \in Sources
         /\ co.source # NoSource /\ Savable(p0)
         /\ p0.create = "accepted" \/ p0.id # 0 => p0.source = co.source
         /\ CompletionOK(state, World) /\ PcGood(p0, co, World)
<1> USE DEF RecordPart
<1>1. NamedOK(state, World) /\ CompletionOK(state, World)
  BY Base DEF RecordsOK
<1>2. p0 \in Candidate /\ state.source = co.source
  BY AtWork DEF State, p0
<1>3. co.source \in Sources /\ co.source # NoSource
  BY ReleaseAssumption DEF RecordsOK, Working
<1>4. CandidateOK(p0, World) /\ p0.source \in {NoSource, co.source}
  BY <1>1, <1>2 DEF NamedOK, p0
<1>5. p0.create = "accepted" \/ p0.id # 0 => p0.source # NoSource
  BY <1>4 DEF CandidateOK, Honest, NoCandidate, Fresh
<1> QED BY <1>1, <1>2, <1>3, <1>4, <1>5 DEF Savable, CandidateOK

LEMMA FreePc ==
  ASSUME NEW p, NEW w, NEW d, d.pc \notin Publishing \cup {"anchor", "checks"}
  PROVE  PcGood(p, d, w)
BY DEF PcGood, Publishing

LEMMA NextPc ==
  ASSUME RecordPart, NEW pc
  PROVE  /\ Next1(pc).pc = pc /\ Next1(pc).command = co.command
         /\ Next1(pc).run = co.run /\ Next1(pc).answered = FALSE
         /\ [co EXCEPT !.pc = pc].pc = pc
         /\ [co EXCEPT !.pc = pc].command = co.command
         /\ [co EXCEPT !.pc = pc].run = co.run
         /\ [co EXCEPT !.pc = pc].answered = co.answered
BY DEF RecordPart, SlotTyped, Coordinator, Next1

(* What the guard observes is a proof, and of no request on its way.       *)
LEMMA NewProof ==
  ASSUME RecordPart, RemotePart, NEW r \in DOMAIN history,
         Observable(Archived(r))
  PROVE  /\ Proof(Archived(r)) \in ProofRecord /\ ProofOK(Proof(Archived(r)))
         /\ Concluded(Proof(Archived(r)))
<1> USE DEF RecordPart, RemotePart
<1> DEFINE s == Archived(r)  p == s.prebuilt  proof == Proof(s)
<1>1. s \in State /\ s.run = r /\ Rec[r] = s /\ r \in Runs /\ p \in Candidate
  <2>1. r \in Names \ {0} /\ r \in 0..MaxRuns
    BY Base
  <2> QED BY <2>1, Base, ReleaseAssumption DEF State, Runs
<1>2. CandidateOK(p, World)
  BY <1>1, Base DEF RecordsOK, NamedOK
<1>3. proof \in ProofRecord
  BY <1>1 DEF Proof, ProofRecord, Candidate
<1>4. ProofOK(proof)
  BY <1>1 DEF ProofOK, Proof, Matches, Observable
<1>5. Concluded(proof)
  <2> SUFFICES ASSUME NEW q \in requests, Binding(q), q.run = r PROVE FALSE
    BY <1>1 DEF Concluded, Proof
  <2>1. RequestOK(q) /\ Sent(s, q) /\ q.kind \in {"create", "alias", "promote"}
        /\ q.to \in Runs
    BY <1>1 DEF RequestsOK, RequestOK, RemoteTyped, Request
  <2>2. CASE q.kind = "create"
    BY <1>2, <2>1, <2>2 DEF Sent, CandidateOK, Honest, Observable
  <2>3. CASE q.kind = "alias"
    <3>1. cloud.alias[q.source] = 0 /\ p.source = q.source /\ p.alias = "unknown"
      BY <2>1, <2>3 DEF RequestOK, Sent
    <3> QED BY <3>1 DEF Observable
  <2>4. CASE q.kind = "promote"
    <3>1. cloud.job.to # q.to /\ p.id = q.to /\ p.promote = "unknown"
      BY <2>1, <2>4 DEF RequestOK, Sent, Binding
    <3>2. PromotionFailed(p) \/ InProduction(p)
      BY <3>1 DEF Observable
    <3> QED BY <3>1, <3>2 DEF PromotionFailed, InProduction
  <2> QED BY <2>1, <2>2, <2>3, <2>4
<1> QED BY <1>3, <1>4, <1>5

(* The run's own record with proofs of earlier intents.                    *)
LEMMA WithProofs ==
  ASSUME RecordPart, co.pc \in Working, NEW P \in SUBSET ProofRecord,
         \A proof \in P : ProofOK(proof), NEW p, Savable(p)
  PROVE  LET s == [state EXCEPT !.proofs = P, !.prebuilt = p] IN
         Writable(s) /\ s.prebuilt = p /\ s.proofs = P
         /\ s.completion = state.completion
<1>1. state \in State /\ state.run = co.run /\ state.command = co.command
      /\ state.source = co.source
  BY AtWork DEF RecordPart
<1>2. Attempted(state.completion, World)
  BY OwnCandidate DEF CompletionOK
<1> DEFINE s == [state EXCEPT !.proofs = P, !.prebuilt = p]
<1>3. /\ s \in State /\ s.run = state.run /\ s.command = state.command
      /\ s.source = state.source /\ s.prebuilt = p /\ s.proofs = P
      /\ s.completion = state.completion
  BY <1>1 DEF State, Savable
<1> QED BY <1>1, <1>2, <1>3 DEF Writable, Savable

LEMMA CheckedPc ==
  ASSUME NEW p, NEW w, NEW d, d.command \in {"check", "publish"},
         \/ d.pc = "close" \/ (d.pc = "candidate" /\ d.command # "check")
         \/ /\ d.pc \in {"available", "create"} /\ d.command # "check"
            /\ p.source # NoSource /\ p.id = 0 /\ p.create = "not-attempted"
  PROVE  PcGood(p, d, w)
<1>1. CASE d.pc = "close"
  BY <1>1, FreePc DEF Publishing
<1>2. CASE d.pc = "candidate" /\ d.command # "check"
  BY <1>2 DEF PcGood
<1>3. CASE /\ d.pc \in {"available", "create"} /\ d.command # "check"
           /\ p.source # NoSource /\ p.id = 0 /\ p.create = "not-attempted"
  BY <1>3 DEF PcGood
<1> QED BY <1>1, <1>2, <1>3

LEMMA CheckedStep == ASSUME IInv, Checked PROVE IInv'
<1>1. Acting /\ co.pc \in Working /\ RecordPart
  BY DEF Checked, At, Acting, Working, Leaving, IInv
<1> DEFINE p == IF p0.source = NoSource THEN Fresh(co.source) ELSE p0
           pc == IF co.command = "check" THEN "close"
                 ELSE IF p0.id # 0 THEN "candidate"
                 ELSE IF setting.alias THEN "available" ELSE "create"
<1>2. Savable(p) /\ p.source # NoSource
  BY <1>1, OwnCandidate
     DEF Savable, Fresh, Candidate, Effects, Honest
<1>3. co.command = "check" \/ co.command = "publish"
  BY <1>1, OwnCandidate, AtWork
     DEF Checked, At, PcGood, RecordPart, Coordinator, Commands
<1>4. pc \in Working /\ pc # "job"
  BY DEF Working
<1>5. p.id = p0.id /\ (p.id = 0 => p.create = "not-attempted")
  <2>1. CASE p0.source = NoSource
    BY <1>1, <2>1, OwnCandidate DEF CandidateOK, Honest, NoCandidate, Fresh
  <2>2. CASE p0.source # NoSource
    <3>1. p0.create = "accepted" => p0.id # 0
      BY <1>1, OwnCandidate, ReleaseAssumption
         DEF CandidateOK, Honest, World, IInv, RemotePart, RemoteTyped, Runs
    <3> QED BY <1>1, <2>2, <3>1, OwnCandidate DEF Checked, Candidate, Effects
  <2> QED BY <2>1, <2>2
<1>6. PcGood(p, Next1(pc), World)
  <2>1. Next1(pc).pc = pc /\ Next1(pc).command = co.command
    BY <1>1, NextPc
  <2>2. \/ pc = "close" \/ (pc = "candidate" /\ co.command # "check")
        \/ (pc \in {"available", "create"} /\ co.command # "check" /\ p0.id = 0)
    OBVIOUS
  <2> HIDE DEF p, pc
  <2> QED BY <1>2, <1>3, <1>5, <2>1, <2>2, CheckedPc
<1>7. Save(p, pc) /\ Local
  BY DEF Checked
<1> HIDE DEF p, pc
<1> QED BY <1>1, <1>2, <1>4, <1>6, <1>7, SaveStep

LEMMA RecordProofStep == ASSUME IInv, RecordProof PROVE IInv'
<1>1. Acting /\ co.pc \in Working /\ RecordPart /\ RemotePart
  BY DEF RecordProof, Acting, Working, Leaving, IInv
<1>2. PICK r \in DOMAIN history :
        /\ Observable(Archived(r))
        /\ Persist([state EXCEPT !.proofs = @ \cup {Proof(Archived(r))}], co.pc)
  BY DEF RecordProof
<1> DEFINE P == state.proofs \cup {Proof(Archived(r))}
           s == [state EXCEPT !.proofs = P, !.prebuilt = p0]
<1>3. P \in SUBSET ProofRecord /\ \A proof \in P : ProofOK(proof)
  BY <1>1, <1>2, NewProof, AtWork
     DEF State, RecordPart, ProofsOK, Proofs
<1>4. \A proof \in P : proof \in Proofs \/ Concluded(proof)
  BY <1>1, <1>2, NewProof, OwnProofs
<1>5. s = [state EXCEPT !.proofs = P]
  BY <1>1, AtWork DEF p0, State, RecordPart
<1>6. /\ Writable(s) /\ s.prebuilt = p0 /\ s.proofs = P
      /\ s.completion = state.completion
  BY <1>1, <1>3, WithProofs, OwnCandidate
<1>7. PcGood(p0, Next1(co.pc), World)
  BY <1>1, OwnCandidate, NextPc DEF PcGood, RecordProof
<1>8. Persist(s, co.pc) /\ Local /\ co.pc # "job"
  BY <1>2, <1>5 DEF RecordProof
<1> HIDE DEF s, P
<1> QED BY <1>1, <1>4, <1>6, <1>7, <1>8, PersistStep

LEMMA AliasAvailableStep == ASSUME IInv, AliasAvailable PROVE IInv'
<1>1. Acting /\ co.pc \in Working /\ RecordPart
  BY DEF AliasAvailable, At, Acting, Working, Leaving, IInv
<1>2. PcGood(p0, [co EXCEPT !.pc = "create"], World)
  BY <1>1, OwnCandidate, NextPc DEF PcGood, AliasAvailable, At, Publishing
<1> QED BY <1>1, <1>2, GoLocal DEF AliasAvailable, Working

LEMMA CreatedStep == ASSUME IInv, Created PROVE IInv'
<1>1. Acting /\ co.pc \in Working /\ RecordPart
  BY DEF Created, At, Acting, Working, Leaving, IInv
<1> DEFINE p == [p0 EXCEPT !.create = "accepted", !.id = co.run]
<1>2. /\ p0 \in Candidate /\ CandidateOK(p0, World) /\ PcGood(p0, co, World)
      /\ p0.source \in {NoSource, co.source} /\ co.run \in Runs
  BY <1>1, OwnCandidate, AtWork DEF RecordPart
<1>3. /\ p \in Candidate /\ p.source = p0.source /\ p.id = co.run
      /\ p.create = "accepted" /\ p.promoted = p0.promoted /\ p.bound = p0.bound
  <2> DEFINE c == [p0 EXCEPT !.create = "accepted"]
  <2>1. /\ c \in Candidate /\ c.source = p0.source /\ c.create = "accepted"
        /\ c.promoted = p0.promoted /\ c.bound = p0.bound
    BY <1>2 DEF Candidate, Effects
  <2>2. p = [c EXCEPT !.id = co.run]
    BY <1>2 DEF Candidate
  <2> HIDE DEF c, p
  <2>3. co.run \in 0..MaxRuns
    BY <1>2, ReleaseAssumption DEF Runs
  <2> QED BY <2>1, <2>2, <2>3 DEF Candidate
<1>4. /\ p0.source # NoSource /\ p0.create = "unknown"
      /\ co.run \in World.deployed /\ co.command = "publish"
  BY <1>2 DEF Created, At, PcGood, Publishing
<1>5. ~p0.promoted /\ ~p0.bound
  BY <1>2, <1>4 DEF CandidateOK, Candidate, Effects
<1> HIDE DEF p
<1>6. Savable(p)
  BY <1>2, <1>3, <1>4, <1>5 DEF Savable, Honest
<1>7. PcGood(p, Next1("candidate"), World)
  BY <1>1, <1>4, NextPc DEF PcGood
<1>8. Save(p, "candidate") /\ Local
  BY DEF Created, p
<1> QED BY <1>1, <1>6, <1>7, <1>8, SaveStep DEF Working

(* A candidate in production was served.                                   *)
LEMMA InProductionServed ==
  ASSUME IInv, NEW p, InProduction(p)
  PROVE  p.id \in World.served
BY DEF IInv, RemotePart, CloudOK, InProduction, World

(* Writing to the run's candidate what was done to it.                     *)
Amends(q, p) ==
  q \in Candidate /\ q.source = p.source /\ q.id = p.id /\ q.create = p.create

LEMMA AliasNoted ==
  ASSUME NEW p \in Candidate, NEW e \in Effects, NEW b \in BOOLEAN
  PROVE  LET q == [p EXCEPT !.alias = e, !.bound = b] IN
         /\ Amends(q, p) /\ q.alias = e /\ q.bound = b
         /\ q.accepted = p.accepted /\ q.promote = p.promote
         /\ q.promoted = p.promoted
BY DEF Amends, Candidate

LEMMA PromotionNoted ==
  ASSUME NEW p \in Candidate, NEW e \in Effects, NEW b \in BOOLEAN
  PROVE  LET q == [p EXCEPT !.promote = e, !.promoted = b] IN
         /\ Amends(q, p) /\ q.promote = e /\ q.promoted = b
         /\ q.accepted = p.accepted /\ q.alias = p.alias /\ q.bound = p.bound
BY DEF Amends, Candidate

LEMMA EffectNoted ==
  ASSUME NEW p \in Candidate, NEW e \in Effects
  PROVE  /\ LET q == [p EXCEPT !.alias = e] IN
            /\ Amends(q, p) /\ q.alias = e /\ q.bound = p.bound
            /\ q.accepted = p.accepted /\ q.promote = p.promote
            /\ q.promoted = p.promoted
         /\ LET q == [p EXCEPT !.promote = e] IN
            /\ Amends(q, p) /\ q.promote = e /\ q.bound = p.bound
            /\ q.accepted = p.accepted /\ q.alias = p.alias
            /\ q.promoted = p.promoted
BY DEF Amends, Candidate

LEMMA FlagNoted ==
  ASSUME NEW p \in Candidate
  PROVE  /\ LET q == [p EXCEPT !.accepted = TRUE] IN
            /\ Amends(q, p) /\ q.accepted /\ q.bound = p.bound
            /\ q.alias = p.alias /\ q.promote = p.promote
            /\ q.promoted = p.promoted
         /\ LET q == [p EXCEPT !.promoted = TRUE] IN
            /\ Amends(q, p) /\ q.promoted /\ q.bound = p.bound
            /\ q.alias = p.alias /\ q.promote = p.promote
            /\ q.accepted = p.accepted
BY DEF Amends, Candidate

LEMMA Noted ==
  ASSUME RecordPart, co.pc \in Working, p0.id # 0, NEW p, Amends(p, p0),
         p.promoted => p0.promoted \/ p0.id \in served,
         p.bound => p0.bound \/ cloud.alias[p0.source] = p0.id
  PROVE  Savable(p) /\ p.id # 0
<1>1. /\ p0.source = co.source /\ co.source # NoSource
      /\ CandidateOK(p0, World)
  BY OwnCandidate
<1>2. Honest(p, World)
  BY <1>1 DEF Honest, CandidateOK, Amends, World
<1> QED BY <1>1, <1>2 DEF Savable, Amends

LEMMA DeployedId ==
  ASSUME RemoteTyped, NEW id \in cloud.deployed
  PROVE  id # 0
BY ReleaseAssumption DEF RemoteTyped, Runs

LEMMA CandidateReadyStep == ASSUME IInv, CandidateReady PROVE IInv'
<1>1. /\ Acting /\ co.pc \in Working /\ RecordPart /\ co.pc = "candidate"
      /\ p0.id # 0
  BY DeployedId DEF CandidateReady, At, Acting, Working, Leaving, IInv,
     RemotePart
<1>2. p0 \in Candidate /\ PcGood(p0, co, World)
  BY <1>1, OwnCandidate
<1>3. co.command = "publish"
  BY <1>1, <1>2 DEF PcGood, Publishing
<1>4. CASE p0.promote = "not-attempted"
  <2> DEFINE pc == IF setting.alias THEN "alias" ELSE "acceptance"
  <2>1. pc \in Working /\ pc # "job" /\ pc \in {"alias", "acceptance"}
    BY DEF Working
  <2>2. PcGood(p0, [co EXCEPT !.pc = pc], World)
    <3>1. [co EXCEPT !.pc = pc].pc = pc /\ [co EXCEPT !.pc = pc].command = "publish"
      BY <1>1, <1>3, NextPc
    <3>2. pc = "alias" => World.setting.alias
      BY DEF World
    <3> HIDE DEF pc
    <3> QED BY <1>1, <1>4, <2>1, <3>1, <3>2 DEF PcGood
  <2>3. Go(pc) /\ Local
    BY <1>4 DEF CandidateReady
  <2> HIDE DEF pc
  <2> QED BY <1>1, <2>1, <2>2, <2>3, GoLocal
<1>5. CASE p0.promote # "not-attempted"
  <2> DEFINE p == [p0 EXCEPT !.promote = "accepted", !.promoted = TRUE]
  <2>1. Amends(p, p0) /\ p.bound = p0.bound
    BY <1>2, PromotionNoted DEF Effects
  <2>2. p0.id \in served /\ Save(p, "completion") /\ Local
    BY <1>5, InProductionServed DEF CandidateReady, World
  <2> HIDE DEF p
  <2>3. Savable(p)
    BY <1>1, <2>1, <2>2, Noted
  <2>4. PcGood(p, Next1("completion"), World)
    <3> DEFINE d == Next1("completion")
    <3>1. d.pc = "completion"
      BY <1>1, NextPc
    <3> HIDE DEF d
    <3>2. PcGood(p, d, World)
      BY <3>1, FreePc DEF Publishing
    <3> QED BY <3>2 DEF d
  <2> QED BY <1>1, <2>2, <2>3, <2>4, SaveStep DEF Working
<1> QED BY <1>4, <1>5

LEMMA BoundSaved ==
  ASSUME IInv, Acting, setting.alias, p0.promote = "not-attempted", p0.id # 0,
         co.command = "publish", BoundTo(p0), Local,
         Save([p0 EXCEPT !.alias = "accepted", !.bound = TRUE], "acceptance")
  PROVE  IInv'
<1>1. co.pc \in Working /\ RecordPart
  BY DEF Acting, IInv
<1>2. p0 \in Candidate /\ cloud.alias[p0.source] = p0.id
  BY <1>1, OwnCandidate DEF BoundTo
<1> DEFINE p == [p0 EXCEPT !.alias = "accepted", !.bound = TRUE]
<1>3. Amends(p, p0) /\ p.promote = p0.promote /\ p.promoted = p0.promoted
  BY <1>2, AliasNoted DEF Effects
<1>4. Save(p, "acceptance")
  OBVIOUS
<1> HIDE DEF p
<1>5. Savable(p) /\ p.id # 0
  BY <1>1, <1>2, <1>3, Noted
<1>6. PcGood(p, Next1("acceptance"), World)
  BY <1>1, <1>3, <1>5, NextPc DEF PcGood
<1> QED BY <1>1, <1>4, <1>5, <1>6, SaveStep DEF Working

LEMMA AliasResumedStep == ASSUME IInv, AliasResumed PROVE IInv'
<1>1. Acting /\ co.pc \in Working /\ RecordPart /\ co.pc = "alias"
  BY DEF AliasResumed, At, Acting, Working, Leaving, IInv
<1>2. PcGood(p0, co, World)
  BY <1>1, OwnCandidate
<1>3. /\ co.command = "publish" /\ setting.alias /\ p0.id # 0
      /\ p0.promote = "not-attempted"
  BY <1>1, <1>2 DEF PcGood, Publishing, World
<1>4. CASE p0.alias = "not-attempted"
  <2>1. PcGood(p0, [co EXCEPT !.pc = "assign"], World)
    BY <1>1, <1>3, <1>4, NextPc DEF PcGood, World
  <2> QED BY <1>1, <1>4, <2>1, GoLocal DEF AliasResumed, Working
<1>5. CASE p0.alias # "not-attempted"
  BY <1>1, <1>3, <1>5, BoundSaved DEF AliasResumed
<1> QED BY <1>4, <1>5

LEMMA AliasSeenStep == ASSUME IInv, AliasSeen PROVE IInv'
<1>1. Acting /\ co.pc \in Working /\ RecordPart /\ co.pc = "assigned"
  BY DEF AliasSeen, At, Acting, Working, Leaving, IInv
<1>2. PcGood(p0, co, World)
  BY <1>1, OwnCandidate
<1>3. /\ co.command = "publish" /\ setting.alias /\ p0.id # 0
      /\ p0.promote = "not-attempted"
  BY <1>1, <1>2 DEF PcGood, Publishing, World
<1> QED BY <1>1, <1>3, BoundSaved DEF AliasSeen

LEMMA AlreadyBoundStep == ASSUME IInv, AlreadyBound PROVE IInv'
<1>1. Acting /\ co.pc \in Working /\ RecordPart /\ co.pc = "assign"
  BY DEF AlreadyBound, At, Acting, Working, Leaving, IInv
<1>2. PcGood(p0, co, World)
  BY <1>1, OwnCandidate
<1>3. PcGood(p0, [co EXCEPT !.pc = "assigned"], World)
  BY <1>1, <1>2, NextPc DEF PcGood, Publishing
<1> QED BY <1>1, <1>3, GoLocal DEF AlreadyBound, Working

LEMMA AssignedStep == ASSUME IInv, Assigned PROVE IInv'
<1>1. Acting /\ co.pc \in Working /\ RecordPart /\ co.pc = "assigning"
  BY DEF Assigned, At, Acting, Working, Leaving, IInv
<1>2. p0 \in Candidate /\ PcGood(p0, co, World)
  BY <1>1, OwnCandidate
<1>3. /\ co.command = "publish" /\ setting.alias /\ p0.id # 0
      /\ p0.promote = "not-attempted"
  BY <1>1, <1>2 DEF PcGood, Publishing, World
<1> DEFINE p == [p0 EXCEPT !.alias = "accepted"]
<1>4. Amends(p, p0) /\ p.promote = p0.promote /\ p.promoted = p0.promoted
      /\ p.bound = p0.bound
  BY <1>2, EffectNoted DEF Effects
<1>5. Save(p, "assigned") /\ Local
  BY DEF Assigned
<1> HIDE DEF p
<1>6. Savable(p) /\ p.id # 0
  BY <1>1, <1>3, <1>4, Noted
<1>7. PcGood(p, Next1("assigned"), World)
  <2> DEFINE d == Next1("assigned")
  <2>1. d.pc = "assigned" /\ d.command = "publish"
    BY <1>1, <1>3, NextPc
  <2> HIDE DEF d
  <2>2. PcGood(p, d, World)
    BY <1>3, <1>4, <1>6, <2>1 DEF PcGood, World
  <2> QED BY <2>2 DEF d
<1> QED BY <1>1, <1>5, <1>6, <1>7, SaveStep DEF Working

LEMMA AcceptedStep == ASSUME IInv, Accepted PROVE IInv'
<1>1. Acting /\ co.pc \in Working /\ RecordPart /\ co.pc = "acceptance"
  BY DEF Accepted, At, Acting, Working, Leaving, IInv
<1>2. p0 \in Candidate /\ PcGood(p0, co, World)
  BY <1>1, OwnCandidate
<1>3. /\ co.command = "publish" /\ p0.id # 0 /\ p0.promote = "not-attempted"
  BY <1>1, <1>2 DEF PcGood, Publishing
<1> DEFINE p == [p0 EXCEPT !.accepted = TRUE]
<1>4. Amends(p, p0) /\ p.promote = p0.promote /\ p.promoted = p0.promoted
      /\ p.bound = p0.bound /\ p.accepted
  BY <1>2, FlagNoted
<1>5. Save(p, "promote") /\ Local
  BY DEF Accepted
<1> HIDE DEF p
<1>6. Savable(p) /\ p.id # 0
  BY <1>1, <1>3, <1>4, Noted
<1>7. PcGood(p, Next1("promote"), World)
  BY <1>1, <1>3, <1>4, <1>6, NextPc DEF PcGood
<1> QED BY <1>1, <1>5, <1>6, <1>7, SaveStep DEF Working

LEMMA PromoteAnsweredStep == ASSUME IInv, PromoteAnswered PROVE IInv'
<1>1. Acting /\ co.pc \in Working /\ RecordPart /\ co.pc = "promoting"
  BY DEF PromoteAnswered, At, Acting, Working, Leaving, IInv
<1>2. p0 \in Candidate /\ PcGood(p0, co, World) /\ CandidateOK(p0, World)
  BY <1>1, OwnCandidate
<1>3. co.command = "publish" /\ p0.promote = "unknown"
  BY <1>1, <1>2 DEF PcGood, Publishing
<1>4. p0.id # 0
  BY <1>1, <1>2, <1>3, DeployedId
     DEF CandidateOK, Honest, World, IInv, RemotePart
<1> DEFINE p == [p0 EXCEPT !.promote = "accepted"]
<1>5. Amends(p, p0) /\ p.promoted = p0.promoted /\ p.bound = p0.bound
  BY <1>2, EffectNoted DEF Effects
<1>6. Save(p, "promoted") /\ Local
  BY DEF PromoteAnswered
<1> HIDE DEF p
<1>7. Savable(p)
  BY <1>1, <1>4, <1>5, Noted
<1>8. PcGood(p, Next1("promoted"), World)
  <2> DEFINE d == Next1("promoted")
  <2>1. d.pc = "promoted" /\ d.command = "publish"
    BY <1>1, <1>3, NextPc
  <2> HIDE DEF d
  <2>2. PcGood(p, d, World)
    BY <2>1 DEF PcGood
  <2> QED BY <2>2 DEF d
<1> QED BY <1>1, <1>6, <1>7, <1>8, SaveStep DEF Working

LEMMA PromotionSeenStep == ASSUME IInv, PromotionSeen PROVE IInv'
<1>1. Acting /\ co.pc \in Working /\ RecordPart /\ co.pc = "promoted"
  BY DEF PromotionSeen, At, Acting, Working, Leaving, IInv
<1>2. p0 \in Candidate /\ p0.id \in served
  BY <1>1, OwnCandidate, InProductionServed DEF PromotionSeen, World
<1>3. p0.id # 0
  BY <1>2, ReleaseAssumption DEF IInv, RemotePart, RemoteTyped, Runs
<1> DEFINE p == [p0 EXCEPT !.promoted = TRUE]
<1>5. Amends(p, p0) /\ p.bound = p0.bound
  BY <1>2, FlagNoted
<1>6. Save(p, "completion") /\ Local
  BY DEF PromotionSeen
<1> HIDE DEF p
<1>7. Savable(p)
  BY <1>1, <1>2, <1>3, <1>5, Noted
<1>8. PcGood(p, Next1("completion"), World)
  BY <1>1, NextPc, FreePc DEF Publishing
<1> QED BY <1>1, <1>6, <1>7, <1>8, SaveStep DEF Working

LEMMA Outside ==
  ASSUME RecordPart, NEW pc, pc \notin Publishing \cup {"anchor", "checks"}, NEW p
  PROVE  /\ PcGood(p, Next1(pc), World)
         /\ PcGood(p, [co EXCEPT !.pc = pc], World)
         /\ PcGood(p, [co EXCEPT !.pc = pc, !.ok = FALSE], World)
<1>1. /\ Next1(pc).pc = pc /\ [co EXCEPT !.pc = pc].pc = pc
      /\ [co EXCEPT !.pc = pc, !.ok = FALSE].pc = pc
  BY DEF RecordPart, SlotTyped, Coordinator, Next1
<1> QED BY <1>1, FreePc

(* What a candidate in production or in the cloud is recorded as.          *)
LEMMA Observes ==
  ASSUME NEW p \in Candidate, setting.alias \in BOOLEAN
  PROVE  LET o == Observation(p) IN
         /\ o \in Candidate /\ o.source = p.source /\ o.id = p.id
         /\ o.create = "accepted" /\ o.bound = setting.alias
         /\ o.promoted = (p.promote # "not-attempted")
         /\ o.promote = "not-attempted" <=> p.promote = "not-attempted"
BY DEF Observation, Candidate, Effects

LEMMA ObservedOK ==
  ASSUME IInv, co.pc \in Working, Observed(p0)
  PROVE  /\ Savable(Observation(p0))
         /\ p0.promote # "not-attempted" => p0.id \in served
<1>1. p0 \in Candidate /\ RecordPart /\ setting.alias \in BOOLEAN
  BY OwnCandidate DEF IInv, RecordPart, SlotTyped
<1>2. p0.id # 0 /\ p0.id \in cloud.deployed
  BY DeployedId DEF Observed, IInv, RemotePart
<1>3. p0.source = co.source /\ co.source # NoSource
  BY <1>1, <1>2, OwnCandidate
<1>4. p0.promote # "not-attempted" => p0.id \in served
  BY InProductionServed DEF Observed, World
<1> DEFINE o == Observation(p0)
<1>5. /\ o \in Candidate /\ o.source = p0.source /\ o.id = p0.id
      /\ o.create = "accepted" /\ o.bound = setting.alias
      /\ o.promoted = (p0.promote # "not-attempted")
  BY <1>1, Observes
<1> HIDE DEF o
<1>6. Honest(o, World)
  BY <1>2, <1>3, <1>4, <1>5 DEF Honest, World, Observed, BoundTo
<1>7. Savable(o)
  BY <1>3, <1>5, <1>6 DEF Savable
<1> QED BY <1>4, <1>7 DEF o

LEMMA VerifyObservedStep == ASSUME IInv, VerifyObserved PROVE IInv'
<1>1. Acting /\ co.pc \in Working /\ RecordPart
  BY DEF VerifyObserved, At, Acting, Working, Leaving, IInv
<1>2. Savable(Observation(p0))
  BY <1>1, ObservedOK DEF VerifyObserved
<1>3. PcGood(Observation(p0), Next1("completion"), World)
  BY <1>1, Outside DEF Publishing
<1> QED BY <1>1, <1>2, <1>3, SaveStep DEF VerifyObserved, Working

LEMMA NothingToCompleteStep == ASSUME IInv, NothingToComplete PROVE IInv'
<1>1. Acting /\ co.pc \in Working /\ RecordPart
  BY DEF NothingToComplete, At, Acting, Working, Leaving, IInv
<1>2. PcGood(p0, [co EXCEPT !.pc = "finish"], World)
  BY <1>1, Outside DEF Publishing
<1> QED BY <1>1, <1>2, GoLocal DEF NothingToComplete, Working

LEMMA AlreadyCompletedStep == ASSUME IInv, AlreadyCompleted PROVE IInv'
<1>1. Acting /\ co.pc \in Working /\ RecordPart
  BY DEF AlreadyCompleted, At, Acting, Working, Leaving, IInv
<1>2. Savable(Observation(p0))
  BY <1>1, ObservedOK DEF AlreadyCompleted
<1>3. PcGood(Observation(p0), Next1("finish"), World)
  BY <1>1, Outside DEF Publishing
<1> QED BY <1>1, <1>2, <1>3, SaveStep DEF AlreadyCompleted, Working

(* An attempt starts, or ends.                                             *)
LEMMA Attempting ==
  ASSUME NEW c \in Completion, NEW a \in Attempt
  PROVE  LET d == [c EXCEPT !.status = "running", !.attempts = Append(@, a)] IN
         /\ d \in Completion /\ d.origin = c.origin /\ d.id = c.id
         /\ d.status = "running" /\ d.attempts = Append(c.attempts, a)
<1>1. Append(c.attempts, a) \in Seq(Attempt)
  BY AppendProperties DEF Completion, Attempt
<1> QED BY <1>1 DEF Completion, Attempt

Ended(c, status) ==
  [c EXCEPT !.status = status, !.attempts[Len(c.attempts)].status = status]

LEMMA AttemptEnded ==
  ASSUME NEW c \in Completion, Len(c.attempts) > 0,
         NEW status \in {"failed", "unknown", "completed"}
  PROVE  LET d == Ended(c, status) IN
         /\ d \in Completion /\ d.origin = c.origin /\ d.id = c.id
         /\ Len(d.attempts) = Len(c.attempts)
         /\ \A i \in 1..(Len(c.attempts) - 1) : d.attempts[i] = c.attempts[i]
<1> DEFINE s == c.attempts  n == Len(s)  a == [s[n] EXCEPT !.status = status]
           t == [s EXCEPT ![n] = a]  d == Ended(c, status)
<1>1. s \in Seq(Attempt) /\ n \in Nat /\ n \in 1..n /\ DOMAIN s = 1..n
  BY LenProperties DEF Completion, Attempt
<1>2. s[n] \in Attempt
  BY <1>1, ElementOfSeq
<1>3. a \in Attempt
  BY <1>2 DEF Attempt
<1>4. /\ t \in Seq(Attempt) /\ Len(t) = n
      /\ \A i \in 1..(n - 1) : t[i] = s[i]
  BY <1>1, <1>3, ExceptSeq
<1>5. t = [s EXCEPT ![n].status = status]
  OBVIOUS
<1>6. d = [c EXCEPT !.status = status, !.attempts = t]
  BY <1>5 DEF Ended
<1> HIDE DEF d, t
<1>7. /\ d \in Completion /\ d.origin = c.origin /\ d.id = c.id
      /\ d.attempts = t
  BY <1>4, <1>6 DEF Completion, Attempt
<1> QED BY <1>4, <1>7 DEF d

LEMMA WithCompletion ==
  ASSUME RecordPart, co.pc \in Working, NEW c \in Completion,
         Attempted(c, World), NEW p, Savable(p)
  PROVE  LET s == [state EXCEPT !.prebuilt = p, !.completion = c] IN
         Writable(s) /\ s.prebuilt = p /\ s.proofs = state.proofs
         /\ s.completion = c
<1>1. state \in State /\ state.run = co.run /\ state.command = co.command
      /\ state.source = co.source
  BY AtWork DEF RecordPart
<1>2. \A proof \in state.proofs : ProofOK(proof)
  BY DEF RecordPart, ProofsOK, Proofs
<1> DEFINE s == [state EXCEPT !.prebuilt = p, !.completion = c]
<1>3. /\ s \in State /\ s.run = state.run /\ s.command = state.command
      /\ s.source = state.source /\ s.prebuilt = p /\ s.proofs = state.proofs
      /\ s.completion = c
  BY <1>1 DEF State, Savable
<1> QED BY <1>1, <1>2, <1>3 DEF Writable, Savable

LEMMA StartAttemptStep == ASSUME IInv, StartAttempt PROVE IInv'
<1>1. Acting /\ co.pc \in Working /\ RecordPart /\ LinePart /\ RequestsOK
  BY DEF StartAttempt, At, Acting, Working, Leaving, IInv, RemotePart
<1>2. /\ Savable(Observation(p0)) /\ p0.id \in served
  BY <1>1, ObservedOK DEF StartAttempt
<1> DEFINE o == Observation(p0)
           a == [run |-> co.run, status |-> "running"]
           c == [state.completion EXCEPT !.status = "running",
                                         !.attempts = Append(@, a)]
           s == [state EXCEPT !.prebuilt = o, !.completion = c]
<1>3. state.completion \in Completion /\ CompletionOK(state, World)
      /\ state \in State /\ co.run \in Runs
  BY <1>1, OwnCandidate, AtWork DEF State, RecordPart
<1>4. a \in Attempt
  BY <1>3 DEF Attempt
<1>5. /\ c \in Completion /\ c.origin = state.completion.origin
      /\ c.id = state.completion.id /\ c.status = "running"
      /\ c.attempts = Append(state.completion.attempts, a)
  BY <1>3, <1>4, Attempting
<1>6. Attempted(c, World)
  BY <1>2, <1>3, <1>5 DEF Attempted, CompletionOK, StartAttempt, World, p0
<1>7. WithCandidate(o) = [state EXCEPT !.prebuilt = o]
  BY DEF WithCandidate, StartAttempt
<1>8. s = [WithCandidate(o) EXCEPT
             !.completion.status = "running",
             !.completion.attempts = Append(@, a)]
  BY <1>3, <1>7 DEF State
<1>9. Persist(s, "job") /\ Local
  BY <1>8 DEF StartAttempt
<1> HIDE DEF c, s, a, o
<1>10. /\ Writable(s) /\ s.proofs = state.proofs /\ s.completion = c
  BY <1>1, <1>2, <1>5, <1>6, WithCompletion DEF s, o
<1>11. PcGood(s.prebuilt, Next1("job"), World)
  BY <1>1, Outside DEF Publishing
<1>12. /\ Fits(state', co')
       /\ (state' = state /\ co' = Idle) \/ state' = s
  BY <1>1, <1>9, <1>10, <1>11, PersistFits DEF Working
<1>13. LinePart'
  <2>1. CASE state' = state /\ co' = Idle
    BY <1>1, <1>12, <2>1, LineKept DEF Idle, StartAttempt, Local, SlotElse
  <2>2. CASE state' = s
    BY <1>1, <1>4, <1>5, <1>10, <1>12, <2>2, LineTried
       DEF StartAttempt, Local, SlotElse
  <2> QED BY <1>12, <2>1, <2>2
<1>14. \A q \in requests : q.run # co.run
  BY <1>1, NoOwn DEF Acting
<1>15. state'.proofs = state.proofs
  BY <1>10, <1>12
<1> QED BY <1>1, <1>9, <1>12, <1>13, <1>14, <1>15, LocalStep, PapersKept,
           OwnProofs
        DEF Local, SlotElse

LEMMA JobEnding ==
  ASSUME IInv, co.pc = "job", NEW status \in {"failed", "unknown", "completed"}
  PROVE  LET s == LastAttempt(state, status) IN
         /\ Writable(s) /\ s.prebuilt = p0 /\ s.proofs = state.proofs
         /\ s.completion.origin = state.completion.origin
         /\ s.completion.id = state.completion.id
         /\ Len(s.completion.attempts) = Len(state.completion.attempts)
         /\ \A i \in 1..(Len(state.completion.attempts) - 1) :
              s.completion.attempts[i] = state.completion.attempts[i]
<1>1. co.pc \in Working /\ RecordPart /\ AttemptsOK
  BY DEF Working, IInv, LinePart
<1>2. state.completion \in Completion /\ CompletionOK(state, World)
      /\ state \in State /\ Savable(p0)
  BY <1>1, OwnCandidate, AtWork DEF State, RecordPart
<1>3. Len(state.completion.attempts) > 0
  BY <1>1, Base, CompletionsAre DEF AttemptsOK, Size, RecordPart
<1> DEFINE c == Ended(state.completion, status)
           s == [state EXCEPT !.prebuilt = p0, !.completion = c]
<1>4. /\ c \in Completion /\ c.origin = state.completion.origin
      /\ c.id = state.completion.id
      /\ Len(c.attempts) = Len(state.completion.attempts)
      /\ \A i \in 1..(Len(state.completion.attempts) - 1) :
           c.attempts[i] = state.completion.attempts[i]
  BY <1>2, <1>3, AttemptEnded
<1>5. state.completion.attempts # <<>> /\ c.attempts # <<>>
  BY <1>3, <1>4
<1>6. Attempted(c, World)
  BY <1>2, <1>4, <1>5 DEF Attempted, CompletionOK
<1>7. LastAttempt(state, status) = s
  BY <1>2 DEF LastAttempt, Ended, State, p0
<1> HIDE DEF c, s
<1>8. Writable(s) /\ s.prebuilt = p0 /\ s.proofs = state.proofs /\ s.completion = c
  BY <1>1, <1>2, <1>4, <1>6, WithCompletion DEF s
<1> QED BY <1>4, <1>7, <1>8

LEMMA JobCompletedStep == ASSUME IInv, JobCompleted PROVE IInv'
<1>1. /\ Acting /\ co.pc \in Working /\ RecordPart /\ LinePart /\ RequestsOK
      /\ co.pc = "job"
  BY DEF JobCompleted, At, Acting, Working, Leaving, IInv, RemotePart
<1> DEFINE s == LastAttempt(state, "completed")
<1>2. Persist(s, "finish") /\ Local
  BY DEF JobCompleted
<1>3. /\ Writable(s) /\ s.proofs = state.proofs
      /\ s.completion.origin = state.completion.origin
      /\ Len(s.completion.attempts) = Len(state.completion.attempts)
      /\ \A i \in 1..(Len(state.completion.attempts) - 1) :
           s.completion.attempts[i] = state.completion.attempts[i]
  BY <1>1, JobEnding
<1> HIDE DEF s
<1>4. PcGood(s.prebuilt, Next1("finish"), World)
  BY <1>1, Outside DEF Publishing
<1>5. /\ Fits(state', co')
      /\ \/ state' = state /\ co' = Idle
         \/ state' = s /\ co' = Next1("finish")
  BY <1>1, <1>2, <1>3, <1>4, PersistFits DEF Working
<1>6. co'.pc # "job"
  <2>1. Next1("finish").pc = "finish" /\ Idle.pc = "none"
    BY <1>1, NextPc DEF Idle
  <2> QED BY <1>5, <2>1
<1>7. LinePart'
  BY <1>1, <1>2, <1>3, <1>5, <1>6, LineDone DEF Local, SlotElse
<1>8. \A q \in requests : q.run # co.run
  BY <1>1, NoOwn DEF Acting
<1> QED BY <1>1, <1>2, <1>3, <1>5, <1>7, <1>8, LocalStep, PapersKept, OwnProofs
        DEF Local, SlotElse

LEMMA JobFailedStep == ASSUME IInv, JobFailed PROVE IInv'
<1>1. /\ Acting /\ co.pc \in Working /\ RecordPart /\ LinePart /\ RequestsOK
      /\ co.pc = "job" /\ Local
  BY DEF JobFailed, At, Acting, Working, Leaving, IInv, RemotePart
<1>2. PICK status \in {"failed", "unknown"} :
        /\ state' = LastAttempt(state, status)
        /\ co' = [co EXCEPT !.pc = "close", !.ok = FALSE]
  BY DEF JobFailed
<1>3. /\ Writable(state') /\ state'.prebuilt = p0 /\ state'.proofs = state.proofs
      /\ state'.completion.origin = state.completion.origin
      /\ state'.completion.id = state.completion.id
      /\ Len(state'.completion.attempts) = Len(state.completion.attempts)
      /\ \A i \in 1..(Len(state.completion.attempts) - 1) :
           state'.completion.attempts[i] = state.completion.attempts[i]
  BY <1>1, <1>2, JobEnding
<1>4. Follows(co') /\ co'.pc = "close"
  BY <1>1, <1>2, GoesOn, AtWork DEF Working, RecordPart, Coordinator
<1>5. Fits(state', co')
  <2>1. /\ CandidateOK(p0, World) /\ p0.source \in {NoSource, co.source}
        /\ co.source \in Sources /\ CompletionOK(state, World)
    BY <1>1, OwnCandidate
  <2>2. NamedOK(state', World)
    BY <1>3, <2>1 DEF NamedOK, Writable
  <2>3. CompletionOK(state', World)
    BY <1>3, <2>1 DEF CompletionOK, Writable, p0
  <2>4. PcGood(p0, co', World)
    BY <1>4, FreePc DEF Publishing
  <2> QED BY <1>3, <1>4, <2>2, <2>3, <2>4 DEF Fits, Writable
<1>6. LinePart'
  BY <1>1, <1>3, <1>4, <1>5, LineDone DEF Local, SlotElse
<1>7. \A q \in requests : q.run # co.run
  BY <1>1, NoOwn DEF Acting
<1> QED BY <1>1, <1>3, <1>5, <1>6, <1>7, LocalStep, PapersKept, OwnProofs
        DEF Local, SlotElse

LEMMA FinishStep == ASSUME IInv, Finish PROVE IInv'
<1>1. Acting /\ co.pc \in Working /\ RecordPart /\ RemotePart /\ Local
  BY DEF Finish, At, Acting, Working, Leaving, IInv
<1>2. CASE Go("close")
  <2>1. PcGood(p0, [co EXCEPT !.pc = "close"], World)
    BY <1>1, Outside DEF Publishing
  <2> QED BY <1>1, <1>2, <2>1, GoLocal DEF Working
<1>3. CASE /\ Original(co.selected) /\ Observable(Archived(co.selected.run))
           /\ Persist([state EXCEPT !.proofs =
                         {Proof(Archived(co.selected.run))}], "close")
  <2> DEFINE P == {Proof(Archived(co.selected.run))}
             s == [state EXCEPT !.proofs = P, !.prebuilt = p0]
  <2>1. co.selected.run \in DOMAIN history
    BY <1>3 DEF Original
  <2>2. P \in SUBSET ProofRecord /\ \A proof \in P : ProofOK(proof) /\ Concluded(proof)
    BY <1>1, <1>3, <2>1, NewProof
  <2>3. s = [state EXCEPT !.proofs = P]
    BY <1>1, AtWork DEF p0, State, RecordPart
  <2>4. /\ Writable(s) /\ s.prebuilt = p0 /\ s.proofs = P
        /\ s.completion = state.completion
    BY <1>1, <2>2, WithProofs, OwnCandidate
  <2>5. PcGood(p0, Next1("close"), World)
    BY <1>1, Outside DEF Publishing
  <2>6. Persist(s, "close")
    BY <1>3, <2>3
  <2> HIDE DEF s, P
  <2> QED BY <1>1, <2>2, <2>4, <2>5, <2>6, PersistStep DEF Working
<1> QED BY <1>2, <1>3 DEF Finish

LEMMA FailStep == ASSUME IInv, Fail PROVE IInv'
<1>1. co.pc \in Working /\ RecordPart
  BY DEF Fail, Working, IInv
<1>2. Follows(co') /\ co'.pc = "close"
  BY <1>1, GoesOn, AtWork DEF Fail, Working, RecordPart, Coordinator
<1>3. PcGood(p0, co', World)
  BY <1>2, FreePc DEF Publishing
<1> QED BY <1>1, <1>2, <1>3, GoStep, PapersKept DEF Fail, Local, Leaving

(* A publish continues the candidate of the last receipt.                  *)
LEMMA ProofTyped ==
  ASSUME SlotTyped, SlotOK, NEW proof \in Proofs
  PROVE  proof \in ProofRecord
BY RecordsAre, Base DEF State

LEMMA ReceiptSavable ==
  ASSUME RecordPart, receipt.source = co.source
  PROVE  receipt.prebuilt \in Candidate /\ Savable(receipt.prebuilt)
BY DEF RecordPart, RecordsOK, NamedOK, CandidateOK, Savable, SlotTyped, Receipt

LEMMA AliasProven ==
  ASSUME RecordPart, Original(receipt), NEW proof \in AliasProofs
  PROVE  /\ proof \in Proofs
         /\ cloud.alias[receipt.prebuilt.source] = receipt.prebuilt.id
         /\ receipt.prebuilt.id # 0
<1>1. proof \in Proofs
  BY DEF AliasProofs, Proofs
<1>2. ProofOK(proof)
  BY <1>1 DEF RecordPart, ProofsOK
<1>3. proof.alias /\ Matches(Archived(receipt.run), proof)
  BY DEF AliasProofs
<1>4. Archived(receipt.run).run = receipt.run
      /\ Archived(receipt.run).prebuilt = receipt.prebuilt
  BY DEF Original, RecordPart, SlotOK
<1>5. proof.run = receipt.run /\ proof.id = receipt.prebuilt.id
  BY <1>3, <1>4 DEF Matches
<1> QED BY <1>1, <1>2, <1>3, <1>4, <1>5 DEF ProofOK

LEMMA ResumeStep == ASSUME IInv, Resume PROVE IInv'
<1>1. Acting /\ co.pc \in Working /\ RecordPart /\ Local /\ co.pc = "session"
  BY DEF Resume, At, Acting, Working, Leaving, IInv
<1>2. co.command # "verify"
  BY DEF Resume
<1>3. \A p : PcGood(p, Next1("anchor"), World)
             /\ PcGood(p, [co EXCEPT !.pc = "anchor"], World)
  <2> SUFFICES ASSUME NEW p, NEW d, d.pc = "anchor", d.command = co.command
      PROVE  PcGood(p, d, World)
    BY <1>1, NextPc
  <2> QED BY <1>2 DEF PcGood, Publishing
<1>4. CASE Go("anchor")
  BY <1>1, <1>3, <1>4, GoLocal DEF Working
<1>5. CASE co' = [co EXCEPT !.pc = "close", !.ok = FALSE] /\ state' = state
  <2>1. Follows(co') /\ co'.pc = "close"
    BY <1>1, <1>5, GoesOn, AtWork DEF Working, RecordPart, Coordinator
  <2>2. PcGood(p0, co', World)
    BY <2>1, FreePc DEF Publishing
  <2> QED BY <1>1, <1>5, <2>1, <2>2, GoStep, PapersKept DEF Local
<1>6. ASSUME receipt.source = co.source, Original(receipt), NEW proof \in AliasProofs,
             Persist([state EXCEPT !.proofs = {proof}, !.prebuilt =
               [receipt.prebuilt EXCEPT !.alias = "accepted",
                                        !.bound = TRUE]], "anchor")
      PROVE  IInv'
  <2> DEFINE p == [receipt.prebuilt EXCEPT !.alias = "accepted", !.bound = TRUE]
             s == [state EXCEPT !.proofs = {proof}, !.prebuilt = p]
  <2>1. /\ proof \in Proofs
        /\ cloud.alias[receipt.prebuilt.source] = receipt.prebuilt.id
        /\ receipt.prebuilt.id # 0
    BY <1>1, <1>6, AliasProven
  <2>2. proof \in ProofRecord /\ ProofOK(proof)
    BY <1>1, <2>1, ProofTyped DEF RecordPart, ProofsOK
  <2>3. receipt.prebuilt \in Candidate /\ Savable(receipt.prebuilt)
    BY <1>1, <1>6, ReceiptSavable
  <2>4. Amends(p, receipt.prebuilt) /\ p.promoted = receipt.prebuilt.promoted
    BY <2>3, AliasNoted DEF Effects
  <2>5. Persist(s, "anchor")
    BY <1>6
  <2> HIDE DEF p
  <2>6. receipt.prebuilt.source # NoSource
    BY <2>1, <2>3 DEF Savable, Honest, NoCandidate, Fresh
  <2>7. Honest(p, World)
    BY <2>1, <2>3, <2>4, <2>6 DEF Savable, Honest, Amends, World
  <2>8. Savable(p)
    BY <2>3, <2>4, <2>7 DEF Savable, Amends
  <2>9. /\ Writable(s) /\ s.prebuilt = p /\ s.proofs = {proof}
        /\ s.completion = state.completion
    BY <1>1, <2>2, <2>8, WithProofs
  <2> HIDE DEF s
  <2> QED BY <1>1, <1>3, <2>1, <2>5, <2>9, PersistStep DEF Working
<1>7. ASSUME receipt.source = co.source,
             Persist([state EXCEPT !.prebuilt = receipt.prebuilt], "anchor")
      PROVE  IInv'
  <2> DEFINE s == [state EXCEPT !.proofs = state.proofs,
                                !.prebuilt = receipt.prebuilt]
  <2>1. Savable(receipt.prebuilt)
    BY <1>1, <1>7, ReceiptSavable
  <2>2. state.proofs \in SUBSET ProofRecord
        /\ \A proof \in state.proofs : ProofOK(proof)
    BY <1>1, AtWork, OwnProofs DEF RecordPart, ProofsOK, State
  <2>3. /\ Writable(s) /\ s.prebuilt = receipt.prebuilt
        /\ s.proofs = state.proofs /\ s.completion = state.completion
    BY <1>1, <2>1, <2>2, WithProofs
  <2>4. s = [state EXCEPT !.prebuilt = receipt.prebuilt]
    BY <1>1, AtWork DEF RecordPart, State
  <2>5. Persist(s, "anchor")
    BY <1>7, <2>4
  <2> HIDE DEF s
  <2> QED BY <1>1, <1>3, <2>3, <2>5, PersistStep, OwnProofs DEF Working
<1> QED BY <1>4, <1>5, <1>6, <1>7 DEF Resume

(* A verify run takes the selected candidate.                              *)
LEMMA SelectStep == ASSUME IInv, Select PROVE IInv'
<1>1. /\ Acting /\ co.pc \in Working /\ RecordPart /\ Local
      /\ co.command = "verify"
  BY DEF Select, At, Acting, Working, Leaving, IInv
<1> DEFINE p == IF co.selected.prebuilt.source = NoSource THEN p0
                ELSE co.selected.prebuilt
           s == [state EXCEPT !.proofs = state.proofs, !.prebuilt = p]
<1>2. Savable(co.selected.prebuilt) /\ Savable(p0)
  BY <1>1, OwnCandidate
     DEF RecordPart, RecordsOK, NamedOK, CandidateOK, Savable, SlotTyped,
         Coordinator, Receipt
<1>3. state.proofs \in SUBSET ProofRecord
      /\ \A proof \in state.proofs : ProofOK(proof)
  BY <1>1, AtWork, OwnProofs DEF RecordPart, ProofsOK, State
<1>4. /\ Writable(s) /\ s.proofs = state.proofs
      /\ s.completion = state.completion
  <2>1. Savable(p)
    BY <1>2
  <2> HIDE DEF p
  <2> QED BY <1>1, <1>3, <2>1, WithProofs
<1>5. s = [state EXCEPT !.prebuilt =
             IF co.selected.prebuilt.source = NoSource THEN @
             ELSE co.selected.prebuilt]
  BY <1>1, AtWork DEF RecordPart, State, p0
<1>6. Persist(s, "verify")
  BY <1>5 DEF Select
<1> HIDE DEF s
<1>7. PcGood(s.prebuilt, Next1("verify"), World)
  BY <1>1, Outside DEF Publishing
<1> QED BY <1>1, <1>4, <1>6, <1>7, PersistStep, OwnProofs DEF Working

LEMMA WriteAnchorStep == ASSUME IInv, WriteAnchor PROVE IInv'
<1>1. Acting /\ co.pc \in Working /\ RecordPart /\ co.pc = "anchor"
  BY DEF WriteAnchor, At, Acting, Working, Leaving, IInv
<1>2. /\ Follows(co') /\ co'.pc = "checks" /\ co'.command = co.command
      /\ state' = state
  BY <1>1, GoesOn, NextPc DEF WriteAnchor, Go, Working, RecordPart
<1>3. PcGood(p0, co', World)
  BY <1>1, <1>2, OwnCandidate DEF PcGood, Publishing
<1>4. anchor' \in [run : 0..MaxRuns, source : Sources \cup {NoSource}]
  <2>1. co.run \in 0..MaxRuns /\ co.source \in Sources
    BY <1>1, AtWork, OwnCandidate DEF RecordPart, Coordinator
  <2> QED BY <1>1, <2>1 DEF WriteAnchor, RecordPart, SlotTyped
<1>5. receipt' \in Receipt /\ NamedOK(receipt', World)
  BY <1>1 DEF RecordPart, SlotTyped, RecordsOK, WriteAnchor
<1> QED BY <1>1, <1>2, <1>3, <1>4, <1>5, GoStep DEF WriteAnchor, remote

(* The end of a run.                                                       *)
LEMMA CloseStep == ASSUME IInv, Close PROVE IInv'
<1>1. /\ co.pc \in Working /\ RecordPart /\ LinePart /\ RequestsOK /\ Local
      /\ co.pc = "close"
  BY DEF Close, At, Working, Leaving, IInv, RemotePart
<1> DEFINE pc == IF co.command = "verify" THEN "archive" ELSE "receipt"
<1>2. PICK status \in {"closed", "unknown"} :
        Persist([state EXCEPT !.status = status], pc)
  BY DEF Close
<1> DEFINE s == [state EXCEPT !.status = status]
<1>3. pc \in Leaving /\ pc \in Working
  BY DEF Leaving, Working
<1>4. state \in State /\ state.run = co.run /\ state.command = co.command
      /\ state.source = co.source
  BY <1>1, AtWork DEF RecordPart
<1>5. /\ s \in State /\ s.run = state.run /\ s.command = state.command
      /\ s.source = state.source /\ s.prebuilt = p0 /\ s.proofs = state.proofs
      /\ s.completion = state.completion
  BY <1>4 DEF State, p0
<1>6. Savable(p0) /\ CompletionOK(state, World)
  BY <1>1, OwnCandidate
<1> HIDE DEF s, pc
<1>7. Writable(s)
  BY <1>1, <1>4, <1>5, <1>6, OwnProofs
     DEF Writable, Savable, CompletionOK, RecordPart, ProofsOK
<1>8. PcGood(s.prebuilt, Next1(pc), World)
  BY <1>1, <1>3, Outside DEF Publishing, Leaving
<1>9. Persist(s, pc)
  BY <1>2 DEF s
<1>10. /\ Fits(state', co')
       /\ \/ state' = state /\ co' = Idle
          \/ state' = s /\ co' = Next1(pc)
  BY <1>1, <1>3, <1>7, <1>8, <1>9, PersistFits
<1>11. /\ co'.pc # "job" /\ co'.pc \notin Working \ Leaving
       /\ state'.prebuilt = state.prebuilt /\ state'.proofs = state.proofs
       /\ state'.completion = state.completion
  <2>1. Next1(pc).pc = pc /\ Idle.pc = "none" /\ "none" \notin Working
    BY <1>1, NextPc DEF Idle, Working
  <2> QED BY <1>3, <1>5, <1>10, <2>1 DEF p0, Leaving
<1>12. LinePart'
  BY <1>1, <1>10, <1>11, LineKept DEF Local, SlotElse
<1> QED BY <1>1, <1>10, <1>11, <1>12, LocalStep, PapersKept, OwnProofs
        DEF Local, SlotElse

LEMMA WriteReceiptStep == ASSUME IInv, WriteReceipt PROVE IInv'
<1>1. co.pc \in Working /\ RecordPart
  BY DEF WriteReceipt, At, Working, IInv
<1>2. /\ Follows(co') /\ co'.pc = "archive" /\ state' = state
  BY <1>1, GoesOn, NextPc DEF WriteReceipt, Go, Working, RecordPart
<1>3. PcGood(p0, co', World)
  BY <1>2, FreePc DEF Publishing
<1>4. /\ state \in State /\ co.run \in 0..MaxRuns /\ co.source \in Sources
      /\ p0 \in Candidate /\ CandidateOK(p0, World)
      /\ p0.source \in {NoSource, co.source}
  BY <1>1, AtWork, OwnCandidate DEF RecordPart, Coordinator
<1>5. receipt' \in Receipt /\ NamedOK(receipt', World)
  <2>1. CASE co.command # "publish"
    BY <1>1, <2>1 DEF RecordPart, SlotTyped, RecordsOK, WriteReceipt
  <2>2. CASE co.command = "publish"
    <3>1. receipt' = [run |-> co.run, source |-> co.source, prebuilt |-> p0,
                      completion |-> state.completion]
      BY <2>2 DEF WriteReceipt
    <3>2. state.completion \in Completion
      BY <1>4 DEF State
    <3> QED BY <1>4, <3>1, <3>2 DEF Receipt, NamedOK
  <2> QED BY <2>1, <2>2
<1>6. anchor' \in [run : 0..MaxRuns, source : Sources \cup {NoSource}]
  BY <1>1 DEF RecordPart, SlotTyped, WriteReceipt
<1> QED BY <1>1, <1>2, <1>3, <1>5, <1>6, GoStep DEF WriteReceipt, Leaving,
           remote

------------------------------------------------------------------------------
(* A write to the cloud: the intent is on the disk before it is sent.      *)
Wanted(kind) == [kind |-> kind, run |-> co.run,
                 to |-> IF kind = "create" THEN co.run ELSE p0.id,
                 source |-> co.source]

LEMMA SendStep ==
  ASSUME IInv, Acting, MutationGuard, NEW p, Savable(p), NEW pc \in Working,
         pc # "job", Save(p, pc), Valid(WithCandidate(p)),
         PcGood(p, Next1(pc), World),
         NEW kind \in {"create", "alias", "promote"}, Send(kind), Quiet, SlotElse,
         p.source = co.source, p.id = p0.id, kind # "create" => p0.id # 0,
         \/ kind = "create" /\ pc = "creating" /\ p.create = "unknown"
         \/ kind = "alias" /\ pc = "assigning" /\ p.alias = "unknown"
            /\ cloud.alias[co.source] = 0
         \/ kind = "promote" /\ pc = "promoting" /\ p.promote = "unknown",
         IF kind = "promote" THEN posts' = Append(posts, p0.id)
         ELSE posts' = posts
  PROVE  IInv'
<1>1. /\ co.pc \in Working /\ RecordPart /\ RemotePart /\ LinePart
      /\ RequestsOK
  BY DEF Acting, IInv, RemotePart
<1>2. Fits(state', co') /\ LinePart' /\ state'.proofs = state.proofs
  BY <1>1, SaveFits DEF SlotElse
<1>3. state' = WithCandidate(p) /\ co' = Next1(pc)
  BY DEF Save, Persist, Next1
<1>4. state'.prebuilt = p
  BY <1>1, <1>3, SavedState
<1>5. co'.pc = pc /\ ~co'.answered
  BY <1>1, <1>3, NextPc
<1> DEFINE new == Wanted(kind)
<1>6. /\ new.kind = kind /\ new.run = co.run /\ new.source = co.source
      /\ new.to = IF kind = "create" THEN co.run ELSE p0.id
  BY DEF Wanted
<1>7. new \in Request
  <2>1. co.run \in Runs /\ co.source \in Sources /\ p0 \in Candidate
    BY <1>1, OwnCandidate, AtWork DEF RecordPart
  <2>2. p0.id # 0 => p0.id \in Runs
    BY <2>1, ReleaseAssumption DEF Candidate, Runs
  <2> QED BY <2>1, <2>2 DEF Wanted, Request
<1>8. /\ requests' = requests \cup {new}
      /\ UNCHANGED <<history, cloud, served>>
  BY DEF Send, Wanted, SlotElse
<1> HIDE DEF new
<1>9. Sent(state', new)
  BY <1>4, <1>6 DEF Sent
<1>10. WaitsFor(co', new)
  BY <1>5, <1>6 DEF WaitsFor
<1>11. new.kind = "alias" => cloud.alias[new.source] = 0
  BY <1>6
<1>12. IF new.kind = "promote" THEN posts' = Append(posts, new.to)
       ELSE posts' = posts
  BY <1>6
<1>13. \A q \in requests : q.run # co.run
  BY <1>1, NoOwn DEF Acting
<1>14. RequestsOK' /\ posts' \in Seq(Runs) /\ CloudOK'
  BY <1>1, <1>2, <1>5, <1>6, <1>7, <1>8, <1>9, <1>10, <1>11, <1>12, <1>13,
     RequestSent
<1>15. RemoteTyped'
  BY <1>1, <1>7, <1>8, <1>14 DEF RemotePart, RemoteTyped
<1>16. RecordPart'
  BY <1>1, <1>2, <1>8, PapersKept, RecordKept DEF Quiet
<1> QED BY <1>2, <1>14, <1>15, <1>16 DEF IInv, RemotePart

(* Before the first promotion nothing is completed.                        *)
LEMMA Unpromoted ==
  ASSUME RecordPart, co.pc \in Working, p0.promote = "not-attempted"
  PROVE  state.completion.origin = 0
BY OwnCandidate DEF CompletionOK, p0

LEMMA KeptState ==
  ASSUME RecordPart, co.pc \in Working, NEW p, p.promote = "not-attempted",
         state.completion.origin = 0
  PROVE  WithCandidate(p).completion.origin = 0 /\ WithCandidate(p).prebuilt = p
BY AtWork DEF WithCandidate, RecordPart, State

LEMMA SendCreateStep == ASSUME IInv, SendCreate PROVE IInv'
<1>1. /\ Acting /\ co.pc \in Working /\ RecordPart /\ co.pc = "create"
      /\ MutationGuard
  BY DEF SendCreate, At, Acting, Working, Leaving, IInv
<1>2. /\ p0 \in Candidate /\ CandidateOK(p0, World) /\ PcGood(p0, co, World)
      /\ p0.source \in {NoSource, co.source}
  BY <1>1, OwnCandidate
<1>3. /\ p0.id = 0 /\ p0.source = co.source /\ p0.create = "not-attempted"
      /\ p0.source # NoSource /\ co.command = "publish"
  BY <1>1, <1>2 DEF PcGood, Publishing
<1>4. /\ ~p0.accepted /\ p0.alias = "not-attempted"
      /\ p0.promote = "not-attempted" /\ ~p0.promoted /\ ~p0.bound
  BY <1>2, <1>3 DEF CandidateOK, Candidate
<1> DEFINE p == [p0 EXCEPT !.create = "unknown"]
<1>5. /\ p \in Candidate /\ p.source = p0.source /\ p.id = p0.id
      /\ p.create = "unknown" /\ p.accepted = p0.accepted
      /\ p.alias = p0.alias /\ p.promote = p0.promote
      /\ p.promoted = p0.promoted /\ p.bound = p0.bound
  BY <1>2 DEF Candidate, Effects
<1>6. Save(p, "creating")
  BY DEF SendCreate
<1> HIDE DEF p
<1>7. Savable(p)
  BY <1>3, <1>4, <1>5 DEF Savable, Honest
<1>8. Valid(WithCandidate(p))
  <2>1. WithCandidate(p).completion.origin = 0 /\ WithCandidate(p).prebuilt = p
    BY <1>1, <1>4, <1>5, Unpromoted, KeptState
  <2> QED BY <1>3, <1>4, <1>5, <2>1 DEF Valid
<1>9. PcGood(p, Next1("creating"), World)
  <2> DEFINE d == Next1("creating")
  <2>1. d.pc = "creating" /\ d.command = "publish" /\ d.answered = FALSE
    BY <1>1, <1>3, NextPc
  <2> HIDE DEF d
  <2>2. PcGood(p, d, World)
    BY <1>3, <1>5, <2>1 DEF PcGood
  <2> QED BY <2>2 DEF d
<1>10. Send("create") /\ Quiet /\ SlotElse /\ posts' = posts
  BY DEF SendCreate
<1> QED BY <1>1, <1>3, <1>5, <1>6, <1>7, <1>8, <1>9, <1>10, SendStep DEF
           Working

LEMMA SendAliasStep == ASSUME IInv, SendAlias PROVE IInv'
<1>1. /\ Acting /\ co.pc \in Working /\ RecordPart /\ co.pc = "assign"
      /\ MutationGuard /\ cloud.alias[co.source] = 0
  BY DEF SendAlias, At, Acting, Working, Leaving, IInv
<1>2. /\ p0 \in Candidate /\ CandidateOK(p0, World) /\ PcGood(p0, co, World)
  BY <1>1, OwnCandidate
<1>3. /\ setting.alias /\ co.command = "publish" /\ p0.id # 0
      /\ p0.promote = "not-attempted" /\ p0.alias = "not-attempted"
  BY <1>1, <1>2 DEF PcGood, Publishing, World
<1>4. p0.source = co.source /\ co.source # NoSource
  BY <1>1, <1>3, OwnCandidate
<1>5. ~p0.accepted /\ ~p0.promoted /\ p0.create = "accepted"
  BY <1>2, <1>3 DEF CandidateOK, World
<1> DEFINE p == [p0 EXCEPT !.alias = "unknown", !.bound = FALSE]
<1>6. /\ Amends(p, p0) /\ p.alias = "unknown" /\ ~p.bound
      /\ p.accepted = p0.accepted /\ p.promote = p0.promote
      /\ p.promoted = p0.promoted
  BY <1>2, AliasNoted DEF Effects
<1>7. Save(p, "assigning")
  BY DEF SendAlias
<1> HIDE DEF p
<1>8. Savable(p)
  BY <1>1, <1>3, <1>6, Noted
<1>9. Valid(WithCandidate(p))
  <2>1. WithCandidate(p).completion.origin = 0 /\ WithCandidate(p).prebuilt = p
    BY <1>1, <1>3, <1>6, Unpromoted, KeptState
  <2> QED BY <1>3, <1>4, <1>5, <1>6, <2>1 DEF Valid, Amends
<1>10. PcGood(p, Next1("assigning"), World)
  <2> DEFINE d == Next1("assigning")
  <2>1. d.pc = "assigning" /\ d.command = "publish"
    BY <1>1, <1>3, NextPc
  <2> HIDE DEF d
  <2>2. PcGood(p, d, World)
    BY <1>3, <1>6, <2>1 DEF PcGood, Amends, World
  <2> QED BY <2>2 DEF d
<1>11. Send("alias") /\ Quiet /\ SlotElse /\ posts' = posts
  BY DEF SendAlias
<1> QED BY <1>1, <1>3, <1>4, <1>6, <1>7, <1>8, <1>9, <1>10, <1>11, SendStep
        DEF Working, Amends

LEMMA SendPromoteStep == ASSUME IInv, SendPromote PROVE IInv'
<1>1. /\ Acting /\ co.pc \in Working /\ RecordPart /\ co.pc = "promote"
      /\ MutationGuard
  BY DEF SendPromote, At, Acting, Working, Leaving, IInv
<1>2. /\ p0 \in Candidate /\ CandidateOK(p0, World) /\ PcGood(p0, co, World)
  BY <1>1, OwnCandidate
<1>3. /\ co.command = "publish" /\ p0.id # 0 /\ p0.accepted
      /\ p0.promote = "not-attempted"
  BY <1>1, <1>2 DEF PcGood, Publishing
<1>4. p0.source = co.source /\ co.source # NoSource
  BY <1>1, <1>3, OwnCandidate
<1>5. /\ p0.create = "accepted" /\ ~p0.promoted
      /\ setting.alias => p0.bound
      /\ p0.bound => p0.alias = "accepted"
  BY <1>2, <1>3 DEF CandidateOK, Candidate, World
<1> DEFINE p == [p0 EXCEPT !.promote = "unknown"]
<1>6. /\ Amends(p, p0) /\ p.promote = "unknown" /\ p.bound = p0.bound
      /\ p.accepted = p0.accepted /\ p.alias = p0.alias
      /\ p.promoted = p0.promoted
  BY <1>2, EffectNoted DEF Effects
<1>7. Save(p, "promoting")
  BY DEF SendPromote
<1> HIDE DEF p
<1>8. Savable(p)
  BY <1>1, <1>3, <1>6, Noted
<1>9. Valid(WithCandidate(p))
  <2>1. state.completion.origin = 0
    BY <1>1, <1>3, Unpromoted
  <2>2. state \in State /\ state.run # 0 /\ state.command = "publish"
    BY <1>1, <1>3, AtWork DEF RecordPart
  <2> DEFINE s == WithCandidate(p)
  <2>3. /\ s.prebuilt = p
        /\ IF setting.completion
           THEN s.completion.origin = state.run /\ s.completion.id = p.id
           ELSE s.completion.origin = 0
    <3>1. CASE setting.completion
      <4>1. s = [state EXCEPT !.prebuilt = p,
                   !.completion = [origin |-> state.run, id |-> p.id,
                                   status |-> "not-started", attempts |-> <<>>]]
        BY <1>6, <2>1, <2>2, <3>1 DEF WithCandidate
      <4> HIDE DEF s
      <4> QED BY <2>2, <3>1, <4>1 DEF State
    <3>2. CASE ~setting.completion
      <4>1. s = [state EXCEPT !.prebuilt = p]
        BY <3>2 DEF WithCandidate
      <4> HIDE DEF s
      <4> QED BY <2>1, <2>2, <3>2, <4>1 DEF State
    <3> QED BY <3>1, <3>2
  <2> HIDE DEF s
  <2>4. IF s.completion.origin = 0 THEN ~setting.completion
        ELSE s.completion.id = p.id
    BY <2>2, <2>3
  <2>5. Valid(s)
    BY <1>3, <1>4, <1>5, <1>6, <2>3, <2>4 DEF Valid, Amends
  <2> QED BY <2>5 DEF s
<1>10. PcGood(p, Next1("promoting"), World)
  <2> DEFINE d == Next1("promoting")
  <2>1. d.pc = "promoting" /\ d.command = "publish"
    BY <1>1, <1>3, NextPc
  <2> HIDE DEF d
  <2>2. PcGood(p, d, World)
    BY <1>6, <2>1 DEF PcGood
  <2> QED BY <2>2 DEF d
<1>11. Send("promote") /\ Quiet /\ SlotElse /\ posts' = Append(posts, p0.id)
  BY DEF SendPromote
<1> QED BY <1>1, <1>3, <1>4, <1>6, <1>7, <1>8, <1>9, <1>10, <1>11, SendStep
        DEF Working, Amends

------------------------------------------------------------------------------
(* Steps that leave every record as it is.                                 *)
LEMMA RecordsStay ==
  ASSUME IInv, UNCHANGED <<setting, state, receipt, anchor, remote>>,
         DOMAIN history \subseteq DOMAIN history',
         \A r \in DOMAIN history : history'[r] = history[r],
         \A r \in DOMAIN history' \ DOMAIN history :
           /\ r = state.run /\ r # 0 /\ history'[r].stopped = state
           /\ history'[r] \in [stopped : State, ok : BOOLEAN],
         history' = [r \in DOMAIN history' |-> history'[r]],
         runs' \in runs..MaxRuns, lock' \in 0..runs',
         co' \in Coordinator, co'.pc \notin Working,
         co'.pc = "none" => co' = Idle,
         co'.pc # "none" => /\ lock' = co'.run /\ co'.run \in 1..runs'
                            /\ co'.command # "none" /\ co'.source \in Sources,
         co'.command = "verify" => co'.selected.source = co'.source,
         NamedOK(co'.selected, World),
         lock' = 0 \/ co'.pc # "none" =>
           state.run = 0 \/ state.run \in DOMAIN history',
         co'.pc = "opened" => co'.run \notin DOMAIN history' /\ state.run # co'.run
  PROVE  IInv'
<1> USE DEF IInv, RecordPart, RemotePart, LinePart
<1>0. /\ cloud' = cloud /\ requests' = requests /\ posts' = posts
      /\ served' = served /\ World' = World
  BY DEF remote, World
<1>1. /\ \A r \in DOMAIN history : Archived(r)' = Archived(r)
      /\ \A r \in DOMAIN history' \ DOMAIN history : Archived(r)' = state
      /\ runs \in 0..MaxRuns /\ state.run \in 0..MaxRuns /\ state \in State
      /\ state.run <= runs /\ DOMAIN history \subseteq 1..runs
  BY DEF Archived, SlotTyped, SlotOK, State
<1>2. Names' = Names
  BY DEF Names
<1>3. /\ \A r \in Names : Rec'[r] = Rec[r]
      /\ Rec' = Rec
  <2>1. \A r \in Names : Rec'[r] = Rec[r]
    BY <1>1, <1>2 DEF Rec, Names
  <2>2. Rec' = [r \in Names |-> Rec'[r]] /\ Rec = [r \in Names |-> Rec[r]]
    BY <1>2 DEF Rec
  <2> QED BY <2>1, <2>2
<1>4. Proofs' \subseteq Proofs
  <2> SUFFICES ASSUME NEW proof \in Proofs' PROVE proof \in Proofs
    OBVIOUS
  <2>1. CASE proof \in state.proofs
    BY <2>1 DEF Proofs
  <2>2. ASSUME NEW r \in DOMAIN history', proof \in Archived(r)'.proofs
        PROVE  proof \in Proofs
    BY <1>1, <2>2 DEF Proofs
  <2> QED BY <2>1, <2>2 DEF Proofs
<1>5. Completions' = Completions
  BY <1>2, <1>3 DEF Completions
<1>6. SlotTyped'
  BY <1>1, ReleaseAssumption DEF SlotTyped
<1>7. SlotOK'
  <2>1. lock' <= runs' /\ state'.run <= runs' /\ DOMAIN history' \subseteq 1..runs'
    BY <1>1
  <2>2. \A r \in DOMAIN history' : Archived(r)'.run = r
    BY <1>1 DEF SlotOK
  <2>3. state'.run \in DOMAIN history' => Archived(state.run)' = state'
    BY <1>1 DEF SlotOK, Archived
  <2>4. state'.run = 0 => state'.completion = NoCompletion
    BY DEF SlotOK
  <2>5. lock' = 0 \/ co'.pc \in {"opened", "unlock"} => Kept'
    BY DEF Kept
  <2> QED BY <2>1, <2>2, <2>3, <2>4, <2>5 DEF SlotOK, Archived
<1>8. RecordsOK'
  BY <1>0, <1>2, <1>3 DEF RecordsOK
<1>9. PcGood(p0, co, World)'
  BY DEF PcGood, Publishing, Working
<1>10. ProofsOK'
  <2> SUFFICES ASSUME NEW proof \in Proofs' PROVE ProofOK(proof)'
    BY DEF ProofsOK
  <2>1. ProofOK(proof) /\ Archived(proof.run)' = Archived(proof.run)
    BY <1>1, <1>4 DEF ProofsOK, ProofOK
  <2> QED BY <1>0, <2>1 DEF ProofOK, Matches
<1>11. RequestsOK'
  <2>1. ASSUME NEW q \in requests PROVE RequestOK(q)'
    <3>1. RequestOK(q)
      BY DEF RequestsOK
    <3>2. /\ \A r \in requests : Binding(r)' <=> Binding(r)
          /\ Posted(q.to)' <=> Posted(q.to)
          /\ PromotedAgain(cloud.job.to)' <=> PromotedAgain(cloud.job.to)
      BY <1>0 DEF Binding, Replayed, PromotedAgain, Posted
    <3>3. Sent(Rec[q.run], q)' <=> Sent(Rec[q.run], q)
      BY <1>3 DEF Sent
    <3> QED BY <1>0, <1>2, <1>4, <3>1, <3>2, <3>3 DEF RequestOK
  <2>2. OwnOK(co)'
    BY DEF OwnOK
  <2> QED BY <1>0, <2>1, <2>2 DEF RequestsOK
<1>12. RemoteTyped' /\ CloudOK'
  BY <1>0 DEF RemoteTyped, CloudOK, Posted
<1>13. AttemptsOK'
  BY <1>5 DEF AttemptsOK, Working
<1>14. BlocksOK'
  BY DEF BlocksOK
<1> QED BY <1>6, <1>7, <1>8, <1>9, <1>10, <1>11, <1>12, <1>13, <1>14

(* The history stays as it is, or the state's run is archived.             *)
LEMMA HistoryStays ==
  ASSUME IInv, history' = history
  PROVE  /\ DOMAIN history \subseteq DOMAIN history'
         /\ \A r \in DOMAIN history : history'[r] = history[r]
         /\ DOMAIN history' \ DOMAIN history = {}
         /\ history' = [r \in DOMAIN history' |-> history'[r]]
BY DEF IInv, RecordPart, SlotTyped

LEMMA HistoryExtended ==
  ASSUME IInv, NEW ok \in BOOLEAN, history' = Extended(ok), state.run # 0
  PROVE  /\ DOMAIN history \subseteq DOMAIN history'
         /\ state.run \in DOMAIN history'
         /\ \A r \in DOMAIN history : history'[r] = history[r]
         /\ \A r \in DOMAIN history' \ DOMAIN history :
              /\ r = state.run /\ r # 0 /\ history'[r].stopped = state
              /\ history'[r] \in [stopped : State, ok : BOOLEAN]
         /\ history' = [r \in DOMAIN history' |-> history'[r]]
BY DEF IInv, RecordPart, SlotTyped, Extended

LEMMA IdleStep ==
  ASSUME IInv, UNCHANGED <<setting, state, receipt, anchor, remote, runs>>,
         co' = Idle, lock' \in 0..runs,
         DOMAIN history \subseteq DOMAIN history',
         \A r \in DOMAIN history : history'[r] = history[r],
         \A r \in DOMAIN history' \ DOMAIN history :
           /\ r = state.run /\ r # 0 /\ history'[r].stopped = state
           /\ history'[r] \in [stopped : State, ok : BOOLEAN],
         history' = [r \in DOMAIN history' |-> history'[r]],
         lock' = 0 => state.run = 0 \/ state.run \in DOMAIN history'
  PROVE  IInv'
<1>1. /\ co'.pc = "none" /\ co'.pc \notin Working /\ co'.command # "verify"
      /\ co'.selected = NoReceipt /\ co' \in Coordinator
  BY NoneTyped DEF Idle, Working
<1>2. runs \in 0..MaxRuns /\ runs' \in runs..MaxRuns
  BY ReleaseAssumption DEF IInv, RecordPart, SlotTyped
<1>3. NamedOK(co'.selected, World)
  BY <1>1, NoneOK
<1> QED BY <1>1, <1>2, <1>3, RecordsStay

LEMMA SlotFacts ==
  ASSUME IInv
  PROVE  /\ runs \in 0..MaxRuns /\ lock \in 0..runs /\ state.run \in 0..runs
         /\ DOMAIN history \subseteq 1..runs /\ state \in State
         /\ co \in Coordinator
         /\ co.pc # "none" => lock = co.run /\ lock # 0
         /\ co.pc = "none" => co = Idle
         /\ lock = 0 \/ co.pc \in {"opened", "unlock"} => Kept
BY ReleaseAssumption DEF IInv, RecordPart, SlotTyped, SlotOK, State

LEMMA OpenRefusedStep == ASSUME IInv, OpenRefused PROVE IInv'
<1>1. /\ UNCHANGED <<setting, state, receipt, anchor, remote, runs>>
      /\ history' = history /\ co' = Idle /\ lock' = 0
      /\ co.pc = "opened"
  BY DEF OpenRefused, Quiet, At
<1>2. lock' \in 0..runs /\ (state.run = 0 \/ state.run \in DOMAIN history)
  BY <1>1, SlotFacts DEF Kept
<1> QED BY <1>1, <1>2, HistoryStays, IdleStep

LEMMA UnlockStep == ASSUME IInv, Unlock PROVE IInv'
<1>1. /\ UNCHANGED <<setting, state, receipt, anchor, remote, runs>>
      /\ history' = history /\ co' = Idle /\ lock' = 0
      /\ co.pc = "unlock"
  BY DEF Unlock, Quiet, At
<1>2. lock' \in 0..runs /\ (state.run = 0 \/ state.run \in DOMAIN history)
  BY <1>1, SlotFacts DEF Kept
<1> QED BY <1>1, <1>2, HistoryStays, IdleStep

LEMMA CrashStep == ASSUME IInv, Crash PROVE IInv'
<1>1. /\ UNCHANGED <<setting, state, receipt, anchor, remote, runs>>
      /\ history' = history /\ co' = Idle /\ lock' = lock
      /\ co.pc # "none"
  BY DEF Crash, slot, At
<1>2. lock' \in 0..runs /\ lock' # 0
  BY <1>1, SlotFacts
<1> QED BY <1>1, <1>2, HistoryStays, IdleStep

LEMMA RecoverUnlocksStep == ASSUME IInv, RecoverUnlocks PROVE IInv'
<1>1. /\ UNCHANGED <<setting, state, receipt, anchor, remote, runs>>
      /\ history' = history /\ co' = Idle /\ lock' = 0
      /\ state.run \in DOMAIN history
  BY SlotFacts DEF RecoverUnlocks, Quiet, At
<1>2. lock' \in 0..runs
  BY <1>1, SlotFacts
<1> QED BY <1>1, <1>2, HistoryStays, IdleStep

LEMMA RecoverStep == ASSUME IInv, Recover PROVE IInv'
<1>1. /\ UNCHANGED <<setting, state, receipt, anchor, remote, runs>>
      /\ history' = Extended(FALSE) /\ co' = Idle /\ lock' = lock
      /\ state.run # 0
  BY SlotFacts DEF Recover, Quiet, At
<1>2. lock' \in 0..runs
  BY <1>1, SlotFacts
<1> QED BY <1>1, <1>2, HistoryExtended, IdleStep

LEMMA ArchiveStep == ASSUME IInv, Archive PROVE IInv'
<1>1. /\ UNCHANGED <<setting, receipt, anchor, remote, runs, lock>>
      /\ co.pc = "archive" /\ co.pc \in Working
  BY DEF Archive, Quiet, At, Working
<1>2. /\ state.run = co.run /\ co.run # 0 /\ lock' = co.run /\ lock' \in 0..runs
      /\ co.ok \in BOOLEAN /\ co \in Coordinator
  BY <1>1, AtWork, SlotFacts DEF IInv, RecordPart, Coordinator
<1>3. CASE history' = Extended(co.ok) /\ Go("unlock")
  <2>1. /\ state' = state /\ co' = [co EXCEPT !.pc = "unlock"]
    BY <1>3 DEF Go
  <2>2. /\ co'.pc = "unlock" /\ co' \in Coordinator /\ co'.run = co.run
        /\ co'.command = co.command /\ co'.source = co.source
        /\ co'.selected = co.selected
    BY <1>2, <2>1 DEF Coordinator
  <2>3. co'.pc \notin Working
    BY <2>2 DEF Working
  <2>4. /\ NamedOK(co.selected, World) /\ co.source \in Sources
        /\ co.command = "verify" => co.selected.source = co.source
        /\ co.command # "none" /\ co.run \in 1..runs
    BY <1>1, AtWork DEF IInv, RecordPart, RecordsOK, Working
  <2>5. runs' \in runs..MaxRuns
    BY <1>1, SlotFacts, ReleaseAssumption
  <2>6. state.run # 0
    BY <1>2
  <2> QED BY <1>1, <1>2, <1>3, <2>1, <2>2, <2>3, <2>4, <2>5, <2>6,
             HistoryExtended, RecordsStay
<1>4. CASE UNCHANGED <<history, state>> /\ co' = Idle
  BY <1>1, <1>2, <1>4, HistoryStays, IdleStep
<1> QED BY <1>3, <1>4 DEF Archive

LEMMA Opened ==
  ASSUME IInv, NEW command \in {"check", "publish", "verify"},
         NEW source \in Sources, NEW retry \in BOOLEAN, NEW selected \in Receipt,
         Open(command, source, retry, selected), NamedOK(selected, World),
         command = "verify" => selected.source = source
  PROVE  IInv'
<1>1. /\ UNCHANGED <<setting, state, receipt, anchor, remote>>
      /\ history' = history /\ lock = 0 /\ runs' = runs + 1 /\ lock' = runs'
      /\ runs < MaxRuns
  BY DEF Open
<1>2. /\ runs \in Nat /\ MaxRuns \in Nat /\ state.run \in 0..runs
      /\ DOMAIN history \subseteq 1..runs /\ Kept
  BY <1>1, SlotFacts, ReleaseAssumption
<1>3. /\ runs' \in runs..MaxRuns /\ lock' \in 0..runs' /\ runs' \in 1..runs'
      /\ runs' \in 0..MaxRuns /\ runs' \notin DOMAIN history
      /\ state.run # runs' /\ runs' # 0
  BY <1>1, <1>2
<1>4. /\ co'.pc = "opened" /\ co'.run = runs' /\ co'.command = command
      /\ co'.source = source /\ co'.selected = selected /\ co' \in Coordinator
  BY <1>3, NoneTyped DEF Open, Idle, Coordinator, Commands
<1>5. co'.pc \notin Working
  BY <1>4 DEF Working
<1> QED BY <1>1, <1>2, <1>3, <1>4, <1>5, HistoryStays, RecordsStay DEF Kept

LEMMA OpenPublishStep == ASSUME IInv, OpenPublish PROVE IInv'
BY Opened, NoneTyped, NoneOK DEF OpenPublish

LEMMA OpenVerifyStep == ASSUME IInv, OpenVerify PROVE IInv'
<1> USE DEF IInv, RecordPart
<1>1. PICK retry \in {FALSE, setting.completion}, p \in Publications :
        Open("verify", p.source, retry, p)
  BY DEF OpenVerify
<1>2. retry \in BOOLEAN
  BY DEF SlotTyped
<1>3. anchor.run # 0
  BY DEF Publications
<1>4. CASE receipt.run = anchor.run /\ p = receipt
  <2>1. p \in Receipt /\ NamedOK(p, World) /\ p.source \in Sources
    BY <1>3, <1>4 DEF SlotTyped, RecordsOK, NamedOK
  <2> QED BY <1>1, <1>2, <2>1, Opened
<1>5. CASE anchor.run \in DOMAIN history /\ p = Intent
  <2> DEFINE s == Archived(anchor.run)
  <2>1. s \in State /\ s.run = anchor.run /\ NamedOK(s, World)
    BY <1>5, Base DEF RecordsOK
  <2>2. p = [run |-> s.run, source |-> s.source, prebuilt |-> s.prebuilt,
             completion |-> s.completion]
    BY <1>5 DEF Intent
  <2> HIDE DEF s
  <2>3. p \in Receipt /\ NamedOK(p, World) /\ p.source \in Sources
    BY <1>3, <2>1, <2>2 DEF State, Receipt, NamedOK
  <2> QED BY <1>1, <1>2, <2>3, Opened
<1> QED BY <1>3, <1>4, <1>5 DEF Publications

------------------------------------------------------------------------------
(* The start of a run.  The current record of a publication's completion   *)
(* is a longest one of its line.                                           *)
LEMMA CurrentIs ==
  ASSUME SlotTyped, SlotOK, OneLine(Completions), NEW o \in Origins
  PROVE  /\ o # 0
         /\ \E k \in Names : /\ Current(o) = Rec[k] /\ Completions[k].origin = o
                             /\ Longest(Completions, k)
<1> DEFINE C == Completions
           Leads(s) == /\ s.completion.origin = o
                       /\ \A t \in Records : t.completion.origin = o =>
                            Len(t.completion.attempts) <= Len(s.completion.attempts)
<1>1. /\ Records = {Rec[r] : r \in Names} /\ DOMAIN C = Names
      /\ \A r \in Names : C[r] = Rec[r].completion
  BY RecordsAre, CompletionsAre
<1>2. o # 0 /\ \E s \in Records : s.completion.origin = o
  BY DEF Origins
<1>3. PICK r \in Names : C[r].origin = o
  BY <1>1, <1>2
<1>4. PICK q \in Names : Same(C, r, q) /\ Longest(C, q)
  BY <1>1, <1>2, <1>3 DEF OneLine, Led
<1>5. Leads(Rec[q]) /\ Rec[q] \in Records
  BY <1>1, <1>3, <1>4 DEF Same, Longest, Size
<1>6. Current(o) \in Records /\ Leads(Current(o))
  <2>1. Current(o) = CHOOSE s \in Records : Leads(s)
    BY DEF Current
  <2> HIDE DEF Leads
  <2> QED BY <1>5, <2>1
<1>7. PICK k \in Names : Current(o) = Rec[k]
  BY <1>1, <1>6
<1>8. C[k].origin = o /\ Longest(C, k)
  BY <1>1, <1>2, <1>6, <1>7 DEF Same, Longest, Size
<1> QED BY <1>2, <1>7, <1>8

(* When none is pending, every longest record is done.                     *)
LEMMA NonePending ==
  ASSUME SlotTyped, SlotOK, OneLine(Completions), Pending = {},
         NEW r \in Names, Completions[r].origin # 0, Longest(Completions, r)
  PROVE  Done(Completions, r)
<1> DEFINE C == Completions  o == C[r].origin
<1>1. /\ Records = {Rec[q] : q \in Names} /\ DOMAIN C = Names
      /\ \A q \in Names : C[q] = Rec[q].completion
      /\ Line(C)
  BY RecordsAre, CompletionsAre
<1>2. o \in Origins
  BY <1>1 DEF Origins
<1>3. PICK k \in Names : /\ Current(o) = Rec[k] /\ C[k].origin = o
                         /\ Longest(C, k)
  BY <1>2, CurrentIs
<1>4. Done(C, k)
  BY <1>1, <1>2, <1>3 DEF Pending, Done
<1>5. Same(C, k, r) /\ Same(C, r, k)
  BY <1>3 DEF Same
<1>6. Size(C, k) \in Nat /\ Size(C, r) \in Nat
  BY <1>1, SizeType
<1>7. Size(C, k) = Size(C, r)
  BY <1>1, <1>3, <1>5, <1>6 DEF Longest
<1> QED BY <1>1, <1>4, <1>5, <1>6, <1>7 DEF OneLine, Prefixes

(* The record that a run starts with.                                      *)
Starts(s) ==
  /\ s \in State /\ s.run = co.run /\ s.command = co.command
  /\ s.source = co.source /\ s.proofs = {}
  /\ NamedOK(s, World) /\ CompletionOK(s, World)
  /\ \/ s.completion.origin = 0
     \/ \E k \in Names :
          /\ Completions[k].origin # 0 /\ Longest(Completions, k)
          /\ s.completion.origin = Completions[k].origin
          /\ s.completion.attempts = Completions[k].attempts
          /\ (s.completion.status = "completed") <=> Done(Completions, k)

LEMMA SessionStarts ==
  ASSUME IInv, CreateSession
  PROVE  \E s : Starts(s) /\ Persist(s, "session")
<1> USE DEF IInv, RecordPart, LinePart, AttemptsOK
<1>1. /\ co.pc = "opened" /\ co.pc # "none" /\ co \in Coordinator
      /\ co.source \in Sources /\ co.source # NoSource
      /\ co.run \in 0..MaxRuns /\ co.command \in Commands
  BY ReleaseAssumption DEF CreateSession, At, RecordsOK, SlotTyped, Coordinator
<1> DEFINE origins == Resumable(co.source)
           resumed == co.command # "check" /\ origins # {}
           last == Current(CHOOSE o \in origins : TRUE)
           pre == IF resumed THEN last.prebuilt ELSE NoCandidate
           com == IF resumed THEN Interrupted(last.completion) ELSE NoCompletion
           s == [run |-> co.run, command |-> co.command, source |-> co.source,
                 status |-> "running", prebuilt |-> pre, proofs |-> {},
                 completion |-> com]
<1>2. Persist(s, "session")
  BY DEF CreateSession
<1>3. /\ pre \in Candidate /\ CandidateOK(pre, World)
      /\ pre.source \in {NoSource, co.source} /\ com \in Completion
      /\ Attempted(com, World)
      /\ com.origin # 0 => pre.promote # "not-attempted" /\ com.id = pre.id
      /\ \/ com.origin = 0
         \/ \E k \in Names :
              /\ Completions[k].origin # 0 /\ Longest(Completions, k)
              /\ com.origin = Completions[k].origin
              /\ com.attempts = Completions[k].attempts
              /\ (com.status = "completed") <=> Done(Completions, k)
  <2>1. CASE ~resumed
    <3>1. pre = NoCandidate /\ com = NoCompletion
      BY <2>1
    <3>2. NoCompletion.origin = 0 /\ NoCandidate.source = NoSource
      BY DEF NoCompletion, NoCandidate, Fresh
    <3> HIDE DEF pre, com
    <3> QED BY <3>1, <3>2, NoneTyped, NoneOK
  <2>2. CASE resumed
    <3>1. PICK o \in origins : last = Current(o)
      BY <2>2
    <3>2. o \in Origins /\ last.source = co.source
      BY <3>1 DEF Resumable
    <3>3. PICK k \in Names : /\ last = Rec[k] /\ Completions[k].origin = o
                             /\ Longest(Completions, k)
      BY <3>1, <3>2, CurrentIs
    <3>4. o # 0
      BY <3>2 DEF Origins
    <3>5. pre = last.prebuilt /\ com = Interrupted(last.completion)
      BY <2>2
    <3> HIDE DEF pre, com, last
    <3>6. /\ last \in State /\ NamedOK(last, World) /\ CompletionOK(last, World)
          /\ Completions[k] = last.completion
      BY <3>3, Base, CompletionsAre DEF RecordsOK
    <3>7. /\ last.completion \in Completion /\ com \in Completion
          /\ com.origin = last.completion.origin
          /\ com.id = last.completion.id
          /\ com.attempts = last.completion.attempts
          /\ (com.status = "completed") <=> (last.completion.status = "completed")
      BY <3>5, <3>6 DEF State, Interrupted, Completion
    <3>8. pre \in Candidate
      BY <3>5, <3>6 DEF State
    <3> QED BY <3>2, <3>3, <3>4, <3>5, <3>6, <3>7, <3>8
            DEF NamedOK, CompletionOK, Attempted, Done
  <2> QED BY <2>1, <2>2
<1> HIDE DEF pre, com
<1>4. s \in State
  BY <1>1, <1>3 DEF State
<1>5. /\ s.run = co.run /\ s.command = co.command /\ s.source = co.source
      /\ s.proofs = {} /\ s.prebuilt = pre /\ s.completion = com
  OBVIOUS
<1> HIDE DEF s
<1>6. NamedOK(s, World) /\ CompletionOK(s, World)
  BY <1>1, <1>3, <1>5 DEF NamedOK, CompletionOK
<1>7. Starts(s)
  BY <1>3, <1>4, <1>5, <1>6 DEF Starts
<1> QED BY <1>2, <1>7

LEMMA CreateSessionStep == ASSUME IInv, CreateSession PROVE IInv'
<1> USE DEF IInv, RecordPart, RemotePart, LinePart
<1>1. PICK s : Starts(s) /\ Persist(s, "session")
  BY SessionStarts
<1>2. /\ co.pc = "opened" /\ co.pc # "none" /\ co \in Coordinator
      /\ UNCHANGED <<setting, runs, history, receipt, anchor, lock, cloud,
                     requests, posts, served>>
      /\ Admitted
  BY DEF CreateSession, At, Local, Quiet, SlotElse, remote, SlotTyped
<1>3. /\ co.source \in Sources /\ NamedOK(co.selected, World)
      /\ co.command = "verify" => co.selected.source = co.source
      /\ co.command # "none"
      /\ lock = co.run /\ co.run \in 1..runs /\ co.run \notin DOMAIN history
      /\ state.run # co.run /\ Kept /\ runs \in 0..MaxRuns /\ lock \in 0..runs
  BY <1>2, SlotFacts DEF RecordsOK, SlotOK
<1>4. CASE ~Valid(s)
  <2>1. state' = state /\ co' = Idle
    BY <1>1, <1>4 DEF Persist
  <2>2. UNCHANGED remote /\ lock' # 0 /\ lock' \in 0..runs
    BY <1>2, <1>3 DEF remote
  <2> QED BY <1>2, <2>1, <2>2, HistoryStays, IdleStep
<1>5. CASE Valid(s)
  <2>1. /\ state' = s /\ co' = Next1("session") /\ co'.pc = "session"
        /\ co'.run = co.run /\ co'.command = co.command
        /\ co'.source = co.source /\ co'.selected = co.selected
        /\ co' \in Coordinator /\ co'.pc \in Working
    <3>1. state' = s /\ co' = Next1("session")
      BY <1>1, <1>5 DEF Persist, Next1
    <3>2. "session" \in Working
      BY DEF Working
    <3> QED BY <1>2, <3>1, <3>2 DEF Next1, Coordinator
  <2>2. /\ state' \in State /\ state'.run = co.run /\ state'.proofs = {}
        /\ state'.command = co.command /\ state'.source = co.source
        /\ NamedOK(state', World) /\ CompletionOK(state', World)
    BY <1>1, <2>1 DEF Starts
  <2>3. Names' = DOMAIN history \cup {co.run} /\ co.run \notin Names
    BY <1>2, <1>3, <2>2 DEF Names
  <2>4. /\ \A r \in DOMAIN history : Rec'[r] = Rec[r] /\ Archived(r)' = Archived(r)
        /\ Rec'[co.run] = state'
    BY <1>2, <1>3, <2>2, <2>3, Base DEF Rec, Archived
  <2>5. World' = World
    BY <1>2 DEF World
  <2>6. Proofs' \subseteq Proofs
    BY <1>2, <2>2, <2>4 DEF Proofs
  <2>7. SlotTyped'
    BY <1>2, <2>1, <2>2 DEF SlotTyped
  <2>8. SlotOK'
    <3>1. co'.pc # "none" /\ co'.pc # "opened" /\ co'.pc # "unlock"
          /\ lock' # 0 /\ co.run # 0
      BY <1>2, <1>3, <2>1
    <3> QED BY <1>2, <1>3, <2>1, <2>2, <2>4, <3>1 DEF SlotOK
  <2>9. RecordsOK'
    <3>1. \A r \in Names' : NamedOK(Rec'[r], World) /\ CompletionOK(Rec'[r], World)
      <4>1. \A r \in DOMAIN history :
              NamedOK(Rec[r], World) /\ CompletionOK(Rec[r], World)
        BY Base DEF RecordsOK
      <4> QED BY <2>2, <2>3, <2>4, <4>1
    <3>2. NamedOK(receipt', World)
      BY <1>2 DEF RecordsOK
    <3> QED BY <1>3, <2>1, <2>5, <3>1, <3>2 DEF RecordsOK
  <2>10. PcGood(p0, co, World)'
    BY <2>1 DEF PcGood, Publishing
  <2>11. ProofsOK'
    <3> SUFFICES ASSUME NEW proof \in Proofs' PROVE ProofOK(proof)'
      BY DEF ProofsOK
    <3>1. ProofOK(proof)
      BY <2>6 DEF ProofsOK
    <3> QED BY <1>2, <2>4, <3>1 DEF ProofOK, Matches
  <2>12. RequestsOK'
    <3>1. ASSUME NEW q \in requests
          PROVE  RequestOK(q)' /\ q.run # co.run
      <4>1. RequestOK(q) /\ q.run \in Names /\ q.run # 0
        BY ReleaseAssumption
           DEF RequestsOK, RequestOK, RemoteTyped, Request, Runs
      <4>2. q.run \in DOMAIN history
        BY <1>3, <4>1 DEF Names, Kept
      <4>3. q.run \in Names' /\ Rec'[q.run] = Rec[q.run] /\ q.run # co.run
        BY <1>3, <2>3, <2>4, <4>2
      <4>4. Sent(Rec[q.run], q)' <=> Sent(Rec[q.run], q)
        BY <4>3 DEF Sent
      <4>5. /\ \A r \in requests : Binding(r)' <=> Binding(r)
            /\ Posted(q.to)' <=> Posted(q.to)
            /\ PromotedAgain(cloud.job.to)' <=> PromotedAgain(cloud.job.to)
        BY <1>2 DEF Binding, Replayed, PromotedAgain, Posted
      <4> QED BY <1>2, <2>6, <4>1, <4>3, <4>4, <4>5 DEF RequestOK
    <3>2. OwnOK(co)'
      BY <1>2, <2>1, <3>1 DEF OwnOK
    <3> QED BY <1>2, <3>1, <3>2 DEF RequestsOK
  <2>13. RemoteTyped' /\ CloudOK'
    BY <1>2 DEF RemoteTyped, CloudOK, Posted
  <2> DEFINE C == Completions  D == Completions'
  <2>14. /\ DOMAIN C = Names /\ Line(C) /\ OneLine(C)
         /\ DOMAIN history \in SUBSET DOMAIN C
         /\ \A r \in DOMAIN C \ DOMAIN history : C[r].origin = 0
    <3>1. DOMAIN C = Names /\ Line(C) /\ OneLine(C)
      BY CompletionsAre DEF AttemptsOK
    <3>2. ASSUME NEW r \in Names \ DOMAIN history PROVE C[r].origin = 0
      <4>1. r = state.run /\ state.run = 0
        BY <1>3, <3>2 DEF Names, Kept
      <4>2. C[r] = NoCompletion
        BY <4>1, Base, CompletionsAre DEF SlotOK
      <4> QED BY <4>2 DEF NoCompletion
    <3> QED BY <3>1, <3>2, Base
  <2>15. /\ DOMAIN D = DOMAIN history \cup {co.run}
         /\ \A r \in DOMAIN history : D[r] = C[r]
         /\ D[co.run] = state'.completion
         /\ Line(D)
    <3>1. /\ DOMAIN D = Names' /\ \A r \in Names' : D[r] = Rec'[r].completion
          /\ D = [r \in Names' |-> D[r]]
      BY DEF Completions
    <3>2. \A r \in DOMAIN history : D[r] = C[r]
      BY <2>3, <2>4, <3>1, Base, CompletionsAre
    <3>3. D[co.run] = state'.completion /\ state'.completion \in Completion
      BY <2>2, <2>3, <2>4, <3>1 DEF State
    <3>4. co.run \in 0..MaxRuns /\ DOMAIN history \subseteq 0..MaxRuns
      BY <1>3, SlotFacts, ReleaseAssumption
    <3>5. \A r \in Names' : D[r] \in Completion
      BY <2>3, <2>14, <3>2, <3>3, SizeType
    <3> QED BY <2>3, <3>1, <3>2, <3>3, <3>4, <3>5 DEF Line
  <2>16. \/ D[co.run].origin = 0
         \/ \E k \in DOMAIN C : /\ C[k].origin # 0 /\ Longest(C, k)
                                /\ D[co.run].origin = C[k].origin
                                /\ D[co.run].attempts = C[k].attempts
                                /\ Done(D, co.run) <=> Done(C, k)
    BY <1>1, <2>1, <2>14, <2>15 DEF Starts, Done
  <2>17. OneLine(D) /\ Longest(D, co.run)
    <3> HIDE DEF C, D
    <3> QED BY <2>3, <2>14, <2>15, <2>16, LineCopied
  <2>18. AttemptsOK'
    BY <2>1, <2>2, <2>17 DEF AttemptsOK
  <2>19. BlocksOK'
    <3> SUFFICES ASSUME co.command = "publish", NEW r \in Names',
                        D[r].origin # 0, Longest(D, r)
        PROVE  Done(D, r)
      BY <2>1 DEF BlocksOK
    <3>1. Pending = {}
      BY <1>2 DEF Admitted
    <3>2. CASE r \in DOMAIN history
      <4>1. r \in Names /\ C[r].origin # 0 /\ D[r] = C[r]
        BY <2>15, <3>2, Base
      <4>2. ASSUME NEW q \in DOMAIN C, Same(C, r, q) PROVE Size(C, q) <= Size(C, r)
        <5>1. C[q].origin # 0
          BY <4>2 DEF Same
        <5>2. q \in DOMAIN history
          BY <2>14, <5>1
        <5>3. D[q] = C[q] /\ Same(D, r, q) /\ q \in DOMAIN D
          BY <2>15, <4>1, <4>2, <5>2 DEF Same
        <5> QED BY <4>1, <5>3 DEF Longest, Size
      <4>3. Done(C, r)
        BY <3>1, <4>1, <4>2, NonePending DEF Longest, AttemptsOK
      <4> QED BY <4>1, <4>3 DEF Done
    <3>3. CASE r = co.run
      BY <2>14, <2>16, <3>1, <3>3, NonePending
    <3> QED BY <2>3, <3>2, <3>3
  <2> QED BY <2>7, <2>8, <2>9, <2>10, <2>11, <2>12, <2>13, <2>18, <2>19
<1> QED BY <1>4, <1>5

------------------------------------------------------------------------------
(* The cloud.  What records say of it stays true when a request arrives.   *)
Grown(v, w) ==
  /\ v.deployed \subseteq w.deployed /\ v.served \subseteq w.served
  /\ \A s \in Sources : v.alias[s] # 0 => w.alias[s] = v.alias[s]
  /\ w.setting = v.setting

LEMMA StaysHonest ==
  ASSUME NEW v, NEW w, Grown(v, w), NEW p \in Candidate, CandidateOK(p, v),
         0 \notin v.deployed
  PROVE  CandidateOK(p, w)
<1>1. p.bound => p.id # 0 /\ p.source \in Sources
  <2> SUFFICES ASSUME p.bound PROVE p.id # 0 /\ p.source \in Sources
    OBVIOUS
  <2>1. p.create = "accepted"
    BY DEF CandidateOK
  <2>2. p.id # 0
    BY <2>1 DEF CandidateOK, Honest
  <2>3. p.source # NoSource
    BY <2>1 DEF CandidateOK, Honest, NoCandidate, Fresh
  <2> QED BY <2>2, <2>3 DEF Candidate
<1>2. Honest(p, w)
  BY <1>1 DEF CandidateOK, Honest, Grown
<1> QED BY <1>2 DEF CandidateOK, Grown

LEMMA StaysNamed ==
  ASSUME NEW v, NEW w, Grown(v, w), 0 \notin v.deployed
  PROVE  /\ \A x : x.prebuilt \in Candidate /\ NamedOK(x, v) => NamedOK(x, w)
         /\ \A s : CompletionOK(s, v) => CompletionOK(s, w)
<1>1. ASSUME NEW x, x.prebuilt \in Candidate, NamedOK(x, v) PROVE NamedOK(x, w)
  BY <1>1, StaysHonest DEF NamedOK
<1>2. ASSUME NEW s, CompletionOK(s, v) PROVE CompletionOK(s, w)
  BY <1>2 DEF CompletionOK, Attempted, Grown
<1> QED BY <1>1, <1>2

LEMMA RecordsHold ==
  ASSUME RecordPart, RemoteTyped,
         UNCHANGED <<setting, state, history, receipt, anchor, lock, runs>>,
         Grown(World, World'), co' \in Coordinator,
         co' = co \/ (co.pc \in Working /\ co' = [co EXCEPT !.answered = TRUE]),
         PcGood(p0, co', World')
  PROVE  RecordPart'
<1> USE DEF RecordPart
<1>0. 0 \notin World.deployed
  BY ReleaseAssumption DEF RemoteTyped, World, Runs
<1>1. /\ co'.pc = co.pc /\ co'.run = co.run /\ co'.command = co.command
      /\ co'.source = co.source /\ co'.selected = co.selected
      /\ co'.pc = "none" => co' = co
  BY DEF SlotTyped, Coordinator, Working
<1>2. /\ Names' = Names /\ Rec' = Rec /\ Proofs' = Proofs
      /\ \A r : Archived(r)' = Archived(r)
  BY DEF Names, Rec, Proofs, Archived
<1>3. SlotTyped'
  BY DEF SlotTyped
<1>4. SlotOK'
  BY <1>1, <1>2 DEF SlotOK, Kept
<1>5. RecordsOK'
  <2>1. \A r \in Names : NamedOK(Rec[r], World') /\ CompletionOK(Rec[r], World')
    <3> SUFFICES ASSUME NEW r \in Names
        PROVE  NamedOK(Rec[r], World') /\ CompletionOK(Rec[r], World')
      OBVIOUS
    <3>1. /\ Rec[r].prebuilt \in Candidate
          /\ NamedOK(Rec[r], World) /\ CompletionOK(Rec[r], World)
      BY Base DEF RecordsOK, State
    <3> QED BY <1>0, <3>1, StaysNamed
  <2>2. NamedOK(receipt, World') /\ NamedOK(co.selected, World')
    <3>1. /\ receipt.prebuilt \in Candidate /\ co.selected.prebuilt \in Candidate
          /\ NamedOK(receipt, World) /\ NamedOK(co.selected, World)
      BY DEF SlotTyped, Receipt, Coordinator, RecordsOK
    <3> QED BY <1>0, <3>1, StaysNamed
  <2> QED BY <1>1, <1>2, <2>1, <2>2 DEF RecordsOK
<1>6. PcGood(p0, co, World)'
  BY DEF p0
<1>7. ProofsOK'
  <2> SUFFICES ASSUME NEW proof \in Proofs PROVE ProofOK(proof)'
    BY <1>2 DEF ProofsOK
  <2>1. ProofOK(proof) /\ proof.run \in DOMAIN history
    BY DEF ProofsOK, ProofOK
  <2> DEFINE p == Archived(proof.run).prebuilt
  <2>2. proof.id # 0 /\ proof.id = p.id
    BY <2>1 DEF ProofOK, Matches
  <2>3. CandidateOK(p, World) /\ p \in Candidate
    BY <2>1, Base DEF RecordsOK, NamedOK, State
  <2>4. p.source \in Sources
    BY <2>2, <2>3 DEF CandidateOK, Honest, NoCandidate, Fresh, Candidate
  <2>5. proof.alias => cloud'.alias[p.source] = proof.id
    BY <2>1, <2>2, <2>4 DEF ProofOK, Grown, World
  <2> QED BY <1>2, <2>1, <2>5 DEF ProofOK, Matches
<1> QED BY <1>3, <1>4, <1>5, <1>6, <1>7

(* The lines of attempts are of the records alone.                         *)
LEMMA LineHolds ==
  ASSUME LinePart, UNCHANGED <<state, history>>,
         co'.pc = co.pc, co'.command = co.command, co'.run = co.run
  PROVE  LinePart'
<1>1. Names' = Names /\ Completions' = Completions
  BY DEF Names, Completions, Rec, Archived
<1> QED BY <1>1 DEF LinePart, AttemptsOK, BlocksOK

LEMMA JobEndsStep == ASSUME IInv, JobEnds PROVE IInv'
<1> USE DEF IInv, RemotePart
<1>1. /\ UNCHANGED <<setting, runs, co, state, history, receipt, anchor, lock,
                     requests, posts>>
      /\ cloud.job.status = "running" /\ cloud.job.to \in Runs
  BY DEF JobEnds, Quiet, slot, CloudOK
<1>2. /\ cloud' \in [deployed : SUBSET Runs, alias : [Sources -> 0..MaxRuns],
                     production : 0..MaxRuns,
                     job : [to : 0..MaxRuns,
                            status : {"none", "running", "failed", "succeeded"}]]
      /\ cloud'.deployed = cloud.deployed /\ cloud'.alias = cloud.alias
      /\ cloud'.job.to = cloud.job.to
      /\ served \subseteq served' /\ served' \subseteq Runs
      /\ \/ cloud'.job.status = "succeeded" /\ cloud.job.to \in served'
         \/ cloud'.job.status = "failed"
  <2>1. CASE /\ cloud' = [cloud EXCEPT !.job.status = "succeeded",
                                       !.production = cloud.job.to]
             /\ served' = served \cup {cloud.job.to}
    BY <1>1, <2>1, ReleaseAssumption DEF RemoteTyped, Runs
  <2>2. CASE /\ cloud' = [cloud EXCEPT !.job.status = "failed"]
             /\ UNCHANGED served
    BY <1>1, <2>2, ReleaseAssumption DEF RemoteTyped, Runs
  <2> QED BY <2>1, <2>2 DEF JobEnds
<1>3. Grown(World, World')
  BY <1>1, <1>2 DEF Grown, World
<1>4. PcGood(p0, co', World')
  BY <1>1, <1>2 DEF PcGood, World, RecordPart
<1>5. RecordPart'
  BY <1>1, <1>3, <1>4, RecordsHold DEF RecordPart, SlotTyped
<1>6. LinePart'
  BY <1>1, LineHolds
<1>7. RemoteTyped'
  BY <1>1, <1>2 DEF RemoteTyped
<1>8. CloudOK'
  BY <1>1, <1>2 DEF CloudOK, Posted
<1>9. ASSUME NEW q \in requests PROVE RequestOK(q)'
  <2>1. RequestOK(q)
    BY DEF RequestsOK
  <2>2. /\ Names' = Names /\ Rec' = Rec /\ Proofs' = Proofs
        /\ Posted(q.to)' <=> Posted(q.to)
    BY <1>1 DEF Names, Rec, Proofs, Archived, Posted
  <2>3. Sent(Rec[q.run], q)' <=> Sent(Rec[q.run], q)
    BY <2>2 DEF Sent
  <2>4. \A r \in requests : Binding(r)' <=> Binding(r)
    BY <1>1 DEF Binding, Replayed, PromotedAgain
  <2> QED BY <1>1, <1>2, <2>1, <2>2, <2>3, <2>4 DEF RequestOK
<1>10. RequestsOK'
  BY <1>1, <1>9 DEF RequestsOK, OwnOK, WaitsFor
<1> QED BY <1>5, <1>6, <1>7, <1>8, <1>10

LEMMA SameRequest ==
  ASSUME RequestsOK, RemoteTyped, NEW q \in requests, NEW r \in requests,
         q.run = r.run, q.kind = r.kind
  PROVE  q = r
<1>1. q \in Request /\ r \in Request /\ RequestOK(q) /\ RequestOK(r)
  BY DEF RequestsOK, RemoteTyped
<1>2. CASE q.kind # "promote"
  BY <1>1, <1>2 DEF RequestOK, Binding, Replayed
<1>3. CASE q.kind = "promote"
  <2>1. q.to = r.to /\ q.source = r.source
    BY <1>1, <1>3 DEF RequestOK, Sent
  <2> QED BY <1>1, <2>1 DEF Request
<1> QED BY <1>2, <1>3

LEMMA ArriveStep == ASSUME IInv, Arrive PROVE IInv'
<1> USE DEF IInv, RemotePart
<1>1. PICK q \in requests, heard \in BOOLEAN :
        /\ requests' = requests \ {q}
        /\ cloud' = CASE q.kind = "create" ->
                           [cloud EXCEPT !.deployed = @ \cup {q.to}]
                      [] q.kind = "alias" ->
                           [cloud EXCEPT !.alias[q.source] = q.to]
                      [] q.kind = "promote" ->
                           [cloud EXCEPT !.job = [to |-> q.to,
                                                  status |-> "running"]]
        /\ co' = IF heard /\ Waiting(q) THEN [co EXCEPT !.answered = TRUE] ELSE co
  BY DEF Arrive
<1>2. UNCHANGED <<setting, runs, state, history, receipt, anchor, lock,
                  posts, served>>
  BY DEF Arrive, Quiet, slot
<1>3. /\ q \in Request /\ RequestOK(q) /\ q.to \in Runs /\ q.source \in Sources
      /\ q.kind \in {"create", "alias", "promote"}
      /\ q.to \in 0..MaxRuns
  BY ReleaseAssumption DEF RequestsOK, RemoteTyped, Request, Runs
<1>4. /\ cloud' \in [deployed : SUBSET Runs, alias : [Sources -> 0..MaxRuns],
                     production : 0..MaxRuns,
                     job : [to : 0..MaxRuns,
                            status : {"none", "running", "failed", "succeeded"}]]
      /\ IF q.kind = "create" THEN cloud'.deployed = cloud.deployed \cup {q.to}
         ELSE cloud'.deployed = cloud.deployed
      /\ IF q.kind = "alias"
         THEN cloud'.alias = [cloud.alias EXCEPT ![q.source] = q.to]
         ELSE cloud'.alias = cloud.alias
      /\ IF q.kind = "promote"
         THEN cloud'.job.to = q.to /\ cloud'.job.status = "running"
         ELSE cloud'.job = cloud.job
  <2> USE DEF RemoteTyped
  <2>1. CASE q.kind = "create"
    <3>1. cloud' = [cloud EXCEPT !.deployed = @ \cup {q.to}]
      BY <1>1, <2>1
    <3> QED BY <1>3, <2>1, <3>1
  <2>2. CASE q.kind = "alias"
    <3>1. cloud' = [cloud EXCEPT !.alias[q.source] = q.to]
      BY <1>1, <2>2
    <3> QED BY <1>3, <2>2, <3>1
  <2>3. CASE q.kind = "promote"
    <3>1. cloud' = [cloud EXCEPT !.job = [to |-> q.to, status |-> "running"]]
      BY <1>1, <2>3
    <3> QED BY <1>3, <2>3, <3>1
  <2> QED BY <1>3, <2>1, <2>2, <2>3
<1>5. Grown(World, World')
  <2>1. q.kind = "alias" => cloud.alias[q.source] = 0
    BY <1>3 DEF RequestOK
  <2>2. cloud.alias \in [Sources -> 0..MaxRuns]
    BY DEF RemoteTyped
  <2>3. \A s \in Sources : cloud.alias[s] # 0 => cloud'.alias[s] = cloud.alias[s]
    BY <1>3, <1>4, <2>1, <2>2
  <2> QED BY <1>2, <1>4, <2>3 DEF Grown, World
<1>6. /\ co \in Coordinator /\ co' \in Coordinator /\ co'.pc = co.pc
      /\ co'.command = co.command /\ co'.run = co.run
      /\ co' = co \/ /\ Waiting(q) /\ co.pc \in Working
                     /\ co' = [co EXCEPT !.answered = TRUE]
      /\ co'.answered => co.answered \/ Waiting(q)
  <2>1. co \in Coordinator
    BY DEF RecordPart, SlotTyped
  <2>2. CASE co' = co
    BY <2>1, <2>2
  <2>3. CASE co' = [co EXCEPT !.answered = TRUE] /\ Waiting(q)
    <3>1. co.pc \in Working
      BY <2>3 DEF Waiting, At, Working
    <3> QED BY <2>1, <2>3, <3>1 DEF Coordinator
  <2> QED BY <1>1, <2>2, <2>3
<1>7. PcGood(p0, co', World')
  <2>1. PcGood(p0, co, World)
    BY DEF RecordPart
  <2>2. co.pc = "creating" /\ co'.answered => co.run \in cloud'.deployed
    <3>1. CASE co.answered
      BY <1>4, <2>1, <3>1 DEF PcGood, World
    <3>2. CASE Waiting(q) /\ co.pc = "creating"
      BY <1>3, <1>4, <3>2 DEF Waiting, At, RequestOK, Sent
    <3> QED BY <1>6, <3>1, <3>2
  <2> QED BY <1>2, <1>6, <2>1, <2>2 DEF PcGood, World
<1>8. RecordPart'
  BY <1>2, <1>5, <1>6, <1>7, RecordsHold
<1>9. LinePart'
  BY <1>2, <1>6, LineHolds
<1>10. RemoteTyped'
  BY <1>1, <1>2, <1>4 DEF RemoteTyped
<1>11. CloudOK'
  BY <1>2, <1>3, <1>4 DEF CloudOK, Posted, RequestOK
<1>12. ASSUME NEW r \in requests' PROVE RequestOK(r)'
  <2>1. r \in requests /\ r # q /\ RequestOK(r)
    BY <1>1 DEF RequestsOK
  <2>2. /\ Names' = Names /\ Rec' = Rec /\ Proofs' = Proofs
        /\ Posted(r.to)' <=> Posted(r.to)
        /\ \A id : PromotedAgain(id)' <=> PromotedAgain(id)
    BY <1>2 DEF Names, Rec, Proofs, Archived, PromotedAgain, Posted
  <2>3. Sent(Rec[r.run], r)' <=> Sent(Rec[r.run], r)
    BY <2>2 DEF Sent
  <2>4. \A t \in requests : Binding(t)' <=> Binding(t)
    BY <2>2 DEF Binding, Replayed
  <2>5. Binding(r) => /\ q.kind = "promote" /\ PromotedAgain(q.to)
                      /\ r.kind = "promote" => q.to # r.to
    BY <1>3, <2>1 DEF RequestOK, Binding, Replayed
  <2>6. r.kind = "alias" => cloud'.alias[r.source] = 0
    <3>1. r.kind = "alias" => q.kind = "promote"
      BY <1>3, <2>1 DEF RequestOK, Binding, Replayed
    <3> QED BY <1>4, <2>1, <3>1 DEF RequestOK
  <2>7. r.run \in Names' /\ Sent(Rec[r.run], r)'
    BY <2>1, <2>2, <2>3 DEF RequestOK
  <2>8. r.kind = "promote" => Posted(r.to)'
    BY <2>1, <2>2 DEF RequestOK
  <2>9. Binding(r)' =>
          /\ r.kind = "promote" => cloud'.job.to # r.to
          /\ \A proof \in Proofs' : proof.run # r.run
          /\ \A t \in requests' : Binding(t)' => r = t
          /\ PromotedAgain(cloud.job.to)'
    <3> SUFFICES ASSUME Binding(r)'
        PROVE  /\ r.kind = "promote" => cloud'.job.to # r.to
               /\ \A proof \in Proofs' : proof.run # r.run
               /\ \A t \in requests' : Binding(t)' => r = t
               /\ PromotedAgain(cloud.job.to)'
      OBVIOUS
    <3>1. Binding(r) /\ \A t \in requests' : t \in requests
      BY <1>1, <2>1, <2>4
    <3>2. q.kind = "promote" /\ cloud'.job.to = q.to
      BY <1>4, <2>5, <3>1
    <3>3. PromotedAgain(q.to)'
      BY <2>2, <2>5, <3>1
    <3>4. PromotedAgain(cloud.job.to)'
      BY <3>2, <3>3
    <3>5. \A t \in requests' : Binding(t)' => r = t
      BY <2>1, <2>4, <3>1 DEF RequestOK
    <3>6. \A proof \in Proofs' : proof.run # r.run
      BY <2>1, <2>2, <3>1 DEF RequestOK
    <3> QED BY <2>5, <3>1, <3>2, <3>4, <3>5, <3>6
  <2> QED BY <2>6, <2>7, <2>8, <2>9 DEF RequestOK
<1>13. OwnOK(co)'
  <2> SUFFICES ASSUME NEW r \in requests', r.run = co.run,
                      co.pc \in Working \ Leaving
      PROVE  WaitsFor(co, r) /\ ~co'.answered
    BY <1>6 DEF OwnOK, WaitsFor
  <2>1. r \in requests /\ r # q /\ WaitsFor(co, r) /\ ~co.answered
    BY <1>1 DEF RequestsOK, OwnOK
  <2>2. ~Waiting(q)
    <3> SUFFICES ASSUME Waiting(q) PROVE FALSE
      OBVIOUS
    <3>1. q.run = r.run /\ q.kind = r.kind
      BY <2>1 DEF Waiting, WaitsFor, At
    <3> QED BY <2>1, <3>1, SameRequest
  <2> QED BY <1>6, <2>1, <2>2
<1> QED BY <1>8, <1>9, <1>10, <1>11, <1>12, <1>13 DEF RequestsOK

------------------------------------------------------------------------------
(* The invariant holds.                                                    *)
LEMMA InitHolds == Init => IInv
<1> SUFFICES ASSUME Init PROVE IInv
  OBVIOUS
<1> USE DEF Init
<1>1. co = Idle /\ co.pc = "none" /\ co.command = "none" /\ co.selected = NoReceipt
  BY DEF Idle
<1>2. DOMAIN history = {} /\ state.run = 0 /\ runs = 0
  OBVIOUS
<1>3. SlotTyped
  <2>1. state \in State
    BY NoneTyped, ReleaseAssumption DEF State, Commands
  <2>2. setting \in [alias : BOOLEAN, completion : BOOLEAN]
    BY ReleaseAssumption
  <2>3. history \in [DOMAIN history -> [stopped : State, ok : BOOLEAN]]
    BY <1>2
  <2> QED BY <2>1, <2>2, <2>3, NoneTyped, ReleaseAssumption DEF SlotTyped
<1>4. SlotOK
  BY <1>1, <1>2 DEF SlotOK, Kept, Working
<1>5. Names = {0} /\ Rec[0] = state /\ Proofs = {}
  <2>1. Names = {0}
    BY <1>2 DEF Names
  <2> QED BY <1>2, <2>1 DEF Rec, Proofs
<1>6. RecordsOK
  <2>1. NamedOK(state, World)
    BY NoneOK DEF NamedOK, NoCandidate, Fresh
  <2>2. CompletionOK(state, World)
    BY NoneOK DEF CompletionOK, NoCompletion
  <2> QED BY <1>1, <1>5, <2>1, <2>2, NoneOK DEF RecordsOK
<1>7. PcGood(p0, co, World)
  BY <1>1 DEF PcGood, Publishing
<1>8. ProofsOK
  BY <1>5 DEF ProofsOK
<1>9. RemotePart
  <2>1. cloud.alias \in [Sources -> 0..MaxRuns] /\ 0 \in 0..MaxRuns
    BY ReleaseAssumption
  <2>2. posts \in Seq(Runs)
    BY EmptySeq
  <2> QED BY <2>1, <2>2
          DEF RemotePart, RemoteTyped, RequestsOK, OwnOK, CloudOK
<1>10. LinePart
  <2>1. /\ DOMAIN Completions = {0} /\ Completions[0].origin = 0
        /\ Completions[0] = NoCompletion
    BY <1>5 DEF Completions, NoCompletion
  <2> DEFINE C == Completions
  <2> HIDE DEF C
  <2>2. DOMAIN C = {0} /\ C[0].origin = 0
    BY <2>1 DEF C
  <2>3. OneLine(C) /\ Longest(C, 0)
    BY <2>2 DEF OneLine, Prefixes, Rooted, Led, Longest, Same
  <2> QED BY <1>1, <1>2, <2>3 DEF C, LinePart, AttemptsOK, BlocksOK
<1> QED BY <1>3, <1>4, <1>6, <1>7, <1>8, <1>9, <1>10 DEF IInv, RecordPart

LEMMA StutterStep == ASSUME IInv, UNCHANGED vars PROVE IInv'
<1>1. UNCHANGED <<setting, co, state, history, receipt, anchor, lock, runs,
                  cloud, requests, posts, served>>
  BY DEF vars, slot, remote
<1>2. /\ Names' = Names /\ Rec' = Rec /\ Proofs' = Proofs /\ World' = World
      /\ Completions' = Completions
  BY <1>1 DEF Names, Rec, Proofs, World, Completions, Archived
<1>3. RecordPart'
  BY <1>1, <1>2 DEF IInv, RecordPart, SlotTyped, SlotOK, Kept, RecordsOK, p0,
                    ProofsOK, ProofOK, Archived
<1>4. RemotePart'
  BY <1>1, <1>2 DEF IInv, RemotePart, RemoteTyped, CloudOK, Posted, RequestsOK,
                    RequestOK, Binding, Replayed, PromotedAgain, OwnOK,
                    WaitsFor
<1>5. LinePart'
  BY <1>1, <1>2 DEF IInv, LinePart, AttemptsOK, BlocksOK
<1> QED BY <1>3, <1>4, <1>5 DEF IInv

LEMMA NextStep == ASSUME IInv, [Next]_vars PROVE IInv'
<1>1. CASE Admission
  BY <1>1, OpenPublishStep, OpenVerifyStep, OpenRefusedStep, CreateSessionStep,
     ResumeStep, SelectStep, WriteAnchorStep DEF Admission
<1>2. CASE Publish
  BY <1>2, CheckedStep, RecordProofStep, AliasAvailableStep, SendCreateStep,
     CreatedStep, CandidateReadyStep, AliasResumedStep, AlreadyBoundStep,
     SendAliasStep, AssignedStep, AliasSeenStep, AcceptedStep, SendPromoteStep,
     PromoteAnsweredStep, PromotionSeenStep, VerifyObservedStep DEF Publish
<1>3. CASE Complete
  BY <1>3, NothingToCompleteStep, AlreadyCompletedStep, StartAttemptStep,
     JobCompletedStep, JobFailedStep, FinishStep, FailStep DEF Complete
<1>4. CASE End
  BY <1>4, CloseStep, WriteReceiptStep, ArchiveStep, UnlockStep, CrashStep,
     RecoverStep, RecoverUnlocksStep DEF End
<1>5. CASE Cloud
  BY <1>5, ArriveStep, JobEndsStep DEF Cloud
<1>6. CASE UNCHANGED vars
  BY <1>6, StutterStep
<1> QED BY <1>1, <1>2, <1>3, <1>4, <1>5, <1>6 DEF Next

LEMMA Invariant == Spec => []IInv
<1>1. IInv /\ [Next]_vars => IInv'
  BY NextStep
<1> QED BY InitHolds, <1>1, PTL DEF Spec

------------------------------------------------------------------------------
(* What is proved of every release.                                        *)

(* Every variable stays of its type: what is read back from the disk is a  *)
(* candidate and a completion, and runs are named by numbers of the slot.  *)
THEOREM TypeCorrect == Spec => []TypeOK
<1>1. IInv => TypeOK
  <2> SUFFICES ASSUME IInv PROVE TypeOK
    OBVIOUS
  <2>1. state.prebuilt \in Candidate /\ state.completion \in Completion
    BY DEF IInv, RecordPart, SlotTyped, State
  <2>2. DOMAIN history \subseteq Runs
    BY SlotFacts, ReleaseAssumption DEF Runs
  <2> QED BY <2>1, <2>2 DEF IInv, RecordPart, SlotTyped, RemotePart,
             RemoteTyped, TypeOK
<1> QED BY <1>1, Invariant, PTL

(* The guard of a write to the cloud lets it through only when no other is *)
(* on its way or worked on but promotions of a deployment promoted twice.  *)
THEOREM WritesExclude == Spec => []OneWriteAtATime
<1>1. IInv => OneWriteAtATime
  <2> SUFFICES ASSUME IInv PROVE OneWriteAtATime
    OBVIOUS
  <2> DEFINE Single == {q \in requests : ~Replayed(q)}
             Job == cloud.job.status = "running" /\ ~PromotedAgain(cloud.job.to)
  <2>1. CASE Single = {}
    BY <2>1, FS_EmptySet DEF OneWriteAtATime
  <2>2. CASE Single # {}
    <3>1. PICK q \in requests : ~Replayed(q)
      BY <2>2
    <3>2. RequestOK(q) /\ Binding(q)
      BY <3>1 DEF IInv, RemotePart, RequestsOK, Binding
    <3>3. Single = {q} /\ ~Job
      BY <3>1, <3>2 DEF RequestOK, Binding
    <3>4. Cardinality({q}) = 1
      BY FS_Singleton
    <3> QED BY <3>3, <3>4 DEF OneWriteAtATime
  <2> QED BY <2>1, <2>2
<1> QED BY <1>1, Invariant, PTL

(* What state.json and the archives say was done in the cloud was done,    *)
(* and every request on its way is of a record that mentions it: intents   *)
(* are written before they are sent, and outcomes after they are seen.     *)
THEOREM RecordsTell == Spec => []RecordsHonest
<1>1. IInv => RecordsHonest
  <2> SUFFICES ASSUME IInv PROVE RecordsHonest
    OBVIOUS
  <2> USE DEF IInv, RecordPart, RemotePart
  <2>1. Records = {Rec[r] : r \in Names}
    BY RecordsAre
  <2>2. ASSUME NEW r \in Names
        PROVE  LET s == Rec[r]  p == s.prebuilt IN
               /\ p.create = "accepted" => p.id \in cloud.deployed
               /\ p.bound => cloud.alias[p.source] = p.id
               /\ p.promoted => p.id \in served
               /\ s.completion.attempts # <<>> => s.completion.id \in served
    BY DEF RecordsOK, NamedOK, CandidateOK, Honest, CompletionOK, Attempted,
       World
  <2>3. ASSUME NEW q \in requests
        PROVE  LET s == Rec[q.run] IN
               /\ s.run = q.run /\ q.run \in Names
               /\ q.kind \in {"create", "alias", "promote"}
               /\ q.kind = "create" => s.prebuilt.create # "not-attempted"
               /\ q.kind = "alias" => s.prebuilt.alias # "not-attempted"
               /\ q.kind = "promote" => s.prebuilt.promote # "not-attempted"
    <3>1. RequestOK(q) /\ q \in Request
      BY DEF RequestsOK, RemoteTyped
    <3> QED BY <3>1, Base DEF RequestOK, Sent, Request
  <2>4. ASSUME NEW q \in requests
        PROVE  \E s \in Records : s.run = q.run /\
                 CASE q.kind = "create" -> s.prebuilt.create # "not-attempted"
                   [] q.kind = "alias" -> s.prebuilt.alias # "not-attempted"
                   [] q.kind = "promote" -> s.prebuilt.promote # "not-attempted"
    <3>1. Rec[q.run] \in Records
      BY <2>1, <2>3
    <3> QED BY <2>3, <3>1
  <2> QED BY <2>1, <2>2, <2>4 DEF RecordsHonest
<1> QED BY <1>1, Invariant, PTL

(* However runs and crashes interleave, the attempts of a publication's    *)
(* completion form one sequence, of which every record keeps a prefix.     *)
THEOREM CompletionsAgree == Spec => []CompletionNeverForks
<1>1. IInv => CompletionNeverForks
  <2> SUFFICES ASSUME IInv, NEW o \in Origins
      PROVE  /\ \E s \in Records : s.run = o /\ s.completion.origin = o
             /\ \A s, t \in Records :
                  s.completion.origin = o /\ t.completion.origin = o =>
                    LET a == s.completion.attempts  b == t.completion.attempts IN
                    Len(a) <= Len(b) => a = SubSeq(b, 1, Len(a))
    BY DEF CompletionNeverForks
  <2> USE DEF IInv, RecordPart, LinePart, AttemptsOK
  <2> DEFINE C == Completions
  <2>1. /\ Records = {Rec[r] : r \in Names} /\ DOMAIN C = Names /\ Line(C)
        /\ \A r \in Names : C[r] = Rec[r].completion /\ Rec[r].run = r
        /\ OneLine(C)
    BY RecordsAre, CompletionsAre, Base
  <2>2. o # 0 /\ \E r \in Names : C[r].origin = o
    BY <2>1 DEF Origins
  <2>3. o \in Names /\ C[o].origin = o
    BY <2>1, <2>2 DEF OneLine, Rooted
  <2>4. ASSUME NEW r \in Names, NEW q \in Names, C[r].origin = o, C[q].origin = o,
               Len(C[r].attempts) <= Len(C[q].attempts)
        PROVE  C[r].attempts = SubSeq(C[q].attempts, 1, Len(C[r].attempts))
    <3> DEFINE a == C[r].attempts  b == C[q].attempts  c == SubSeq(b, 1, Len(a))
    <3>1. a \in Seq(Attempt) /\ b \in Seq(Attempt)
      BY <2>1, SizeType
    <3>2. Same(C, r, q) /\ Size(C, r) <= Size(C, q)
      BY <2>2, <2>4 DEF Same, Size
    <3>3. \A i \in 1..Len(a) : a[i] = b[i]
      BY <2>1, <3>2 DEF OneLine, Prefixes, Size
    <3> HIDE DEF a, b
    <3>4. Len(a) \in Nat /\ Len(b) \in Nat /\ Len(a) <= Len(b)
      BY <2>4, <3>1, LenProperties DEF a, b
    <3>5. /\ c \in Seq(Attempt) /\ Len(c) = Len(a)
          /\ \A i \in 1..Len(a) : c[i] = b[i]
      BY <3>1, <3>4, SubSeqProperties
    <3> HIDE DEF c
    <3>6. a = c
      BY <3>1, <3>3, <3>5, SeqEqual
    <3> QED BY <3>6 DEF a, b, c
  <2>5. \E s \in Records : s.run = o /\ s.completion.origin = o
    BY <2>1, <2>3
  <2>6. ASSUME NEW s \in Records, NEW t \in Records, s.completion.origin = o,
               t.completion.origin = o,
               Len(s.completion.attempts) <= Len(t.completion.attempts)
        PROVE  s.completion.attempts =
                 SubSeq(t.completion.attempts, 1, Len(s.completion.attempts))
    <3>1. PICK r \in Names, q \in Names : s = Rec[r] /\ t = Rec[q]
      BY <2>1
    <3> QED BY <2>1, <2>4, <2>6, <3>1
  <2> QED BY <2>5, <2>6
<1> QED BY <1>1, Invariant, PTL

(* Only three steps write to the cloud.                                    *)
LEMMA OnlySends ==
  ASSUME [Next]_vars, requests' \ requests # {}
  PROVE  SendCreate \/ SendAlias \/ SendPromote
<1> USE DEF remote
<1>1. Admission => requests' = requests
  BY DEF Admission, OpenPublish, OpenVerify, Open, OpenRefused, CreateSession,
         Resume, Select, WriteAnchor, Local
<1>2. Publish => \/ SendCreate \/ SendAlias \/ SendPromote
                 \/ requests' = requests
  BY DEF Publish, Checked, RecordProof, AliasAvailable, Created,
     CandidateReady, AliasResumed, AlreadyBound, Assigned, AliasSeen, Accepted,
     PromoteAnswered, PromotionSeen, VerifyObserved, Local
<1>3. Complete => requests' = requests
  BY DEF Complete, NothingToComplete, AlreadyCompleted, StartAttempt,
         JobCompleted, JobFailed, Finish, Fail, Local
<1>4. End => requests' = requests
  BY DEF End, Close, WriteReceipt, Archive, Unlock, Crash, Recover,
         RecoverUnlocks, Local
<1>5. Cloud => requests' \subseteq requests
  BY DEF Cloud, Arrive, JobEnds
<1>6. UNCHANGED vars => requests' = requests
  BY DEF vars
<1> QED BY <1>1, <1>2, <1>3, <1>4, <1>5, <1>6 DEF Next

(* A publish that was admitted writes to the cloud only while no           *)
(* completion but its own is pending.                                      *)
THEOREM CompletionBlocksWrites == Spec => PendingCompletionBlocks
<1>1. ASSUME IInv, [Next]_vars, requests' \ requests # {}
      PROVE  Pending \subseteq {co.run}
  <2> USE DEF IInv, RecordPart, LinePart, AttemptsOK
  <2>1. co.pc \in {"create", "assign", "promote"}
    BY <1>1, OnlySends DEF SendCreate, SendAlias, SendPromote, At
  <2>2. co.pc \in Working /\ co.command = "publish"
    BY <1>1, <2>1, OwnCandidate DEF PcGood, Publishing, Working
  <2> SUFFICES ASSUME NEW o \in Pending, o # co.run PROVE FALSE
    OBVIOUS
  <2>3. o \in Origins /\ Current(o).completion.status # "completed"
    BY DEF Pending
  <2>4. PICK k \in Names : /\ Current(o) = Rec[k] /\ Completions[k].origin = o
                           /\ Longest(Completions, k)
    BY <1>1, <2>3, CurrentIs
  <2>5. o # 0 /\ Completions[k] = Rec[k].completion
    BY <1>1, <2>3, CompletionsAre DEF Origins
  <2>6. Done(Completions, k)
    BY <1>1, <2>2, <2>4, <2>5 DEF BlocksOK
  <2> QED BY <2>3, <2>4, <2>5, <2>6 DEF Done
<1>2. IInv /\ [Next]_vars =>
        [requests' \ requests # {} => Pending \subseteq {co.run}]_vars
  BY <1>1
<1> QED BY <1>2, Invariant, PTL DEF Spec, PendingCompletionBlocks

==============================================================================
