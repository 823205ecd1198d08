-------------------------- MODULE PolicyResolution --------------------------
(***************************************************************************)
(* The runtime-neutral half of @openge/forge-repository-policy: which      *)
(* policies of a manifest a request requires, which it may require and     *)
(* which it excludes, from incomplete evidence.                            *)
(*                                                                         *)
(* A policy is its rank in the order of the ids; an item of path evidence  *)
(* stands for a path and its role, and a path selector for the items it    *)
(* matches. Schema checks, counts and wording are left out.                *)
(***************************************************************************)
EXTENDS Naturals, Sequences, SequencesExt, FiniteSets, FiniteSetsExt

(***************************************************************************)
(* Conditions, over three truth values. An evaluation carries the facts    *)
(* that would decide it and whether the rest of the scope would.           *)
(***************************************************************************)
Truths == {"true", "false", "unknown"}

Evaluation(truth, facts, scope) ==
  [truth |-> truth, facts |-> facts, scope |-> scope]

combineAndTruth(evals) ==
  IF \E e \in evals : e.truth = "false" THEN "false"
  ELSE IF \A e \in evals : e.truth = "true" THEN "true"
  ELSE "unknown"

combineOrTruth(evals) ==
  IF \E e \in evals : e.truth = "true" THEN "true"
  ELSE IF \A e \in evals : e.truth = "false" THEN "false"
  ELSE "unknown"

(* Mutant: the scope is asked for only when nothing else is missing.       *)
CombinedShy(truth, evals) ==
  IF truth = "unknown"
  THEN Evaluation(truth, UNION {e.facts : e \in evals},
                  \A e \in evals : e.scope)
  ELSE Evaluation(truth, {}, FALSE)

(* Only an undecided combination still asks, and for what its undecided    *)
(* parts ask.                                                              *)
Combined(truth, evals) ==
  IF truth = "unknown"
  THEN Evaluation(truth, UNION {e.facts : e \in evals},
                  \E e \in evals : e.scope)
  ELSE Evaluation(truth, {}, FALSE)

combineAnd(evals) == Combined(combineAndTruth(evals), evals)

combineOr(evals) ==
  Combined(combineOrTruth(evals), {e \in evals : e.truth = "unknown"})

evaluatePathSelector(selector, request) ==
  IF request.paths \cap selector # {} THEN Evaluation("true", {}, FALSE)
  ELSE IF request.complete THEN Evaluation("false", {}, FALSE)
  ELSE Evaluation("unknown", {}, TRUE)

(* Mutant: a fact verified for another context counts.                     *)
KnownAnywhere(id, request) ==
  /\ id \in DOMAIN request.facts
  /\ request.facts[id].basis = "verified"
  /\ request.facts[id].state # "unknown"

(* A fact counts when it is verified for the request's own context.        *)
Known(id, request) ==
  /\ id \in DOMAIN request.facts
  /\ request.facts[id].basis = "verified"
  /\ request.facts[id].context = request.context
  /\ request.facts[id].state # "unknown"

evaluateFactPredicate(predicate, request) ==
  IF Known(predicate.id, request)
  THEN LET actual == request.facts[predicate.id].state = "true"
       IN  Evaluation(IF actual = predicate.equals THEN "true" ELSE "false",
                      {}, FALSE)
  ELSE Evaluation("unknown", {predicate.id}, FALSE)

(* A clause has at most one path selector, and facts are one part of it.   *)
evaluateClause(clause, request) ==
  LET paths == {evaluatePathSelector(s, request) : s \in clause.path}
      facts == {evaluateFactPredicate(p, request) : p \in clause.facts}
  IN  combineAnd(paths \cup IF facts = {} THEN {} ELSE {combineAnd(facts)})

evaluateCondition(condition, request) ==
  IF condition.always
  THEN Evaluation("true", {}, FALSE)
  ELSE combineOr({evaluateClause(c, request) : c \in condition.anyOf})

(***************************************************************************)
(* Relations between policies.                                             *)
(***************************************************************************)
Closed(manifest, ids) == \A id \in ids : manifest.requires[id] \subseteq ids

(* The visits of the closure reach what is in every closed set.            *)
addClosure(manifest, roots) ==
  {id \in manifest.policies :
     \A ids \in SUBSET manifest.policies :
       roots \subseteq ids /\ Closed(manifest, ids) => id \in ids}

(* Mutant: a requirement outside the ids is waited for.                    *)
ExtendedWaiting(order, ids, requires) ==
  LET done == ToSet(order)
      ready == {id \in ids \ done : requires[id] \subseteq done}
  IN  IF ready = {} THEN order ELSE Append(order, Min(ready))

(* The smallest ready policy comes next, and nothing more when none is.    *)
Extended(order, ids, requires) ==
  LET done == ToSet(order)
      ready == {id \in ids \ done : requires[id] \cap ids \subseteq done}
  IN  IF ready = {} THEN order ELSE Append(order, Min(ready))

stableTopologicalOrder(ids, requires) ==
  LET order[n \in 0..Cardinality(ids)] ==
        IF n = 0 THEN <<>> ELSE Extended(order[n - 1], ids, requires)
  IN  order[Cardinality(ids)]

(***************************************************************************)
(* Validation.                                                             *)
(***************************************************************************)
detectCycle(manifest) ==
  LET graph == [manifest EXCEPT !.requires =
                  [id \in manifest.policies |-> @[id] \cap manifest.policies]]
  IN  \E id \in manifest.policies : id \in addClosure(graph, graph.requires[id])

validateClause(manifest, clause) ==
  /\ clause.path # {} \/ clause.facts # {}
  /\ \A p \in clause.facts :
       /\ p.id \in manifest.facts
       /\ \A q \in clause.facts : q.id = p.id => q = p

validateCondition(manifest, condition) ==
  IF condition.always THEN condition.anyOf = {}
  ELSE /\ condition.anyOf # {}
       /\ \A c \in condition.anyOf : validateClause(manifest, c)

(* A pair of conflicting policies is declared once, by either.             *)
validateRelations(manifest) ==
  \A id \in manifest.policies :
    /\ manifest.requires[id] \subseteq manifest.policies
    /\ manifest.conflicts[id] \subseteq manifest.policies \ {id}
    /\ \A other \in manifest.conflicts[id] : id \notin manifest.conflicts[other]

validatePolicyManifest(manifest) ==
  /\ manifest.policies # {}
  /\ \A id \in manifest.policies : validateCondition(manifest, manifest.when[id])
  /\ validateRelations(manifest)
  /\ ~detectCycle(manifest)

(* A verified fact rests on evidence of its own context.                   *)
validateFact(fact, evidence) ==
  /\ fact.basis = "verified" =>
       /\ fact.state # "unknown"
       /\ fact.evidence # {}
       /\ \A e \in fact.evidence :
            e \in DOMAIN evidence /\ evidence[e] = fact.context
  /\ fact.basis = "unknown" => fact.state = "unknown"

validateResolveRequest(request) ==
  \A id \in DOMAIN request.facts :
    validateFact(request.facts[id], request.evidence)

(***************************************************************************)
(* Resolution.                                                             *)
(***************************************************************************)
Truth(manifest, request, id) ==
  evaluateCondition(manifest.when[id], request).truth

Roots(manifest, request, truth) ==
  {id \in manifest.policies : Truth(manifest, request, id) = truth}

Required(manifest, request) ==
  addClosure(manifest, Roots(manifest, request, "true"))

(* A root that is required anyway asks for nothing.                        *)
CandidateRoots(manifest, request) ==
  Roots(manifest, request, "unknown") \ Required(manifest, request)

Candidate(manifest, request) ==
  addClosure(manifest, CandidateRoots(manifest, request))
    \ Required(manifest, request)

Excluded(manifest, request) ==
  Roots(manifest, request, "false")
    \ (Required(manifest, request) \cup Candidate(manifest, request))

Stale(request) ==
  {id \in DOMAIN request.facts :
     /\ request.facts[id].basis = "verified"
     /\ request.facts[id].context # request.context}

Unresolved(manifest, request) ==
  {evaluateCondition(manifest.when[id], request) :
     id \in Candidate(manifest, request) \cap Roots(manifest, request, "unknown")}

ConflictsIn(manifest, ids) ==
  \E id \in ids : manifest.conflicts[id] \cap ids # {}

ResolutionState(manifest, request) ==
  LET required == Required(manifest, request)
      candidate == Candidate(manifest, request)
  IN  IF ConflictsIn(manifest, required) THEN "conflict"
      ELSE IF \/ candidate # {} \/ Stale(request) # {}
              \/ ConflictsIn(manifest, required \cup candidate)
           THEN "needs-context"
      ELSE "ready"

resolveValidatedRequest(manifest, request) ==
  [state     |-> ResolutionState(manifest, request),
   required  |-> Required(manifest, request),
   candidate |-> Candidate(manifest, request),
   excluded  |-> Excluded(manifest, request),
   facts     |-> Stale(request) \cup
                   UNION {e.facts : e \in Unresolved(manifest, request)},
   scope     |-> \E e \in Unresolved(manifest, request) : e.scope]

invalidResolution ==
  [state |-> "invalid", required |-> {}, candidate |-> {}, excluded |-> {},
   facts |-> {}, scope |-> FALSE]

resolvePolicies(manifest, request) ==
  IF validatePolicyManifest(manifest) /\ validateResolveRequest(request)
  THEN resolveValidatedRequest(manifest, request)
  ELSE invalidResolution

(* The order the ids of a resolution are given in.                         *)
Ordered(manifest, ids) == stableTopologicalOrder(ids, manifest.requires)
=============================================================================
