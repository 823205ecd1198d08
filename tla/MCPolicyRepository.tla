------------------------- MODULE MCPolicyRepository -------------------------
(***************************************************************************)
(* The policy repository in two families of cases. In the first the        *)
(* manifest and the request vary, sound and unsound ones, and the sources  *)
(* cannot be read. In the second two policies with a source each are       *)
(* resolved, prepared, preloaded and checked side by side while somebody   *)
(* edits the files.                                                        *)
(***************************************************************************)
EXTENDS PolicyRepository

Clause(path, facts) == [path |-> path, facts |-> facts]
Is(id, value) == [id |-> id, equals |-> value]

Always == [always |-> TRUE, anyOf |-> {}]
AnyOf(clauses) == [always |-> FALSE, anyOf |-> clauses]
OnPath == AnyOf({Clause({{"a"}}, {})})
OnFact == AnyOf({Clause({}, {Is("f", TRUE)})})
OnBoth == AnyOf({Clause({{"a", "b"}}, {Is("f", FALSE), Is("g", TRUE)})})
OnEither == AnyOf({Clause({{"b"}}, {}), Clause({}, {Is("g", TRUE)})})
OnNothing == AnyOf({})

Policies == 1..3
NoIds == [id \in Policies |-> {}]
Requiring == {NoIds, [NoIds EXCEPT ![1] = {2}],
              [NoIds EXCEPT ![1] = {3}, ![2] = {3}], \* a shared requirement
              [NoIds EXCEPT ![2] = {3}, ![3] = {1}], \* a chain against the order
              [NoIds EXCEPT ![1] = {2}, ![2] = {1}], \* a cycle
              [NoIds EXCEPT ![1] = {4}]}             \* a missing one
Conflicting == {NoIds, [NoIds EXCEPT ![1] = {3}], [NoIds EXCEPT ![3] = {2}],
                [NoIds EXCEPT ![1] = {2}, ![2] = {1}]} \* declared twice
Conditions == {<<Always, OnFact, OnBoth>>, <<OnPath, OnFact, OnEither>>,
               <<OnBoth, OnEither, OnFact>>, <<OnEither, OnBoth, OnPath>>,
               <<OnFact, OnNothing, OnPath>>}

Manifest(when, requires, conflicts) ==
  [policies |-> Policies, facts |-> {"f", "g"}, source |-> [id \in Policies |-> 1],
   when |-> when, requires |-> requires, conflicts |-> conflicts,
   documents |-> {}]

Fact(state, basis, context, evidence) ==
  [state |-> state, basis |-> basis, context |-> context, evidence |-> evidence]
Assertions == {Fact("true", "verified", "now", {"seen"}),
               Fact("false", "verified", "now", {"seen"}),
               Fact("true", "verified", "now", {"seen", "old"}),
               Fact("false", "verified", "then", {"old"}),
               Fact("true", "suggested", "now", {}),
               Fact("unknown", "unknown", "now", {})}

Request(paths, complete, facts) ==
  [context |-> "now", paths |-> paths, complete |-> complete, facts |-> facts,
   evidence |-> [e \in {"seen", "old"} |-> IF e = "seen" THEN "now" ELSE "then"]]
Asked ==
  {Request(paths, complete, facts) : paths \in SUBSET {"a", "b"},
     complete \in BOOLEAN,
     facts \in UNION {[ids -> Assertions] : ids \in SUBSET {"f", "g"}}}

(* The first of two policies is always required, the second when f is so.  *)
Small == [policies |-> {1, 2}, facts |-> {"f", "g"}, source |-> <<1, 2>>,
          when |-> <<Always, OnFact>>, requires |-> <<{}, {}>>,
          conflicts |-> <<{}, {}>>, documents |-> {}]
(* Both have the same source, and another file is a document to check.     *)
Documented == [Small EXCEPT !.source = <<1, 1>>, !.documents = {2}]
When(f) == Request({}, TRUE, [id \in {"f"} |-> Fact(f, "verified", "now", {"seen"})])

MCRequests ==
  [all |-> Asked, both |-> {When("true")}, any |-> {When("true"), When("false")}]

Call(mode, asks) == [mode |-> mode, asks |-> asks]

Questions ==
  {[manifest |-> Manifest(when, requires, conflicts),
    calls |-> 11 :> Call("bundle", "all") @@ 12 :> Call("none", "all"),
    preload |-> "no", files |-> [f \in Places |-> Gone],
    place |-> [s \in Sources |-> 1], edits |-> 0] :
   when \in Conditions, requires \in Requiring, conflicts \in Conflicting}

(* Calls of a session meet in its cache; the others only meet the editor.  *)
Reading(first, second, how, n) ==
  [manifest |-> Small,
   calls |-> 11 :> Call(first, "both") @@ 12 :> Call(second, "any"),
   preload |-> how, files |-> [f \in Places |-> <<f - 1, f - 1>>],
   place |-> [s \in Sources |-> s], edits |-> n]

Readings == {Reading("session", "session", "on demand", 2),
             Reading("session", "session", "sources", 2),
             Reading("bundle", "none", "no", 3),
             [Reading("check", "none", "no", 3) EXCEPT !.manifest = Documented]}

MCCases == Questions \cup Readings
MCHalfSize == [v \in 0..2 |-> IF v = 2 THEN 2 ELSE 1]
=============================================================================
