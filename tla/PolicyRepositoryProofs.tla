----------------------- MODULE PolicyRepositoryProofs -----------------------
(***************************************************************************)
(* Proofs about the policy repository, for any manifests, requests, files  *)
(* and calls: what a resolution says is so whatever is still unknown, what *)
(* it asks is all there is to find out, its policies come in order, a      *)
(* session hands out one version of every source, and the sources          *)
(* delivered are those selected, each as it was on disk, within the limit. *)
(***************************************************************************)
EXTENDS PolicyRepository, FiniteSetTheorems, NaturalsInduction,
        SequenceTheorems, TLAPS

(***************************************************************************)
(* Closures. What is used of them is that they are closed, hold their      *)
(* roots, and are the least such sets.                                     *)
(***************************************************************************)
LEMMA ClosureIsLeast ==
  ASSUME NEW m, NEW roots, NEW ids, ids \subseteq m.policies,
         roots \subseteq ids, Closed(m, ids)
  PROVE  addClosure(m, roots) \subseteq ids
BY DEF addClosure

LEMMA ClosureHoldsRoots ==
  ASSUME NEW m, NEW roots, roots \subseteq m.policies
  PROVE  roots \subseteq addClosure(m, roots)
BY DEF addClosure

LEMMA ClosureIsClosed ==
  ASSUME NEW m, NEW roots, validateRelations(m)
  PROVE  /\ addClosure(m, roots) \subseteq m.policies
         /\ Closed(m, addClosure(m, roots))
<1>1. addClosure(m, roots) \subseteq m.policies
  BY DEF addClosure
<1>2. ASSUME NEW id \in addClosure(m, roots), NEW dependency \in m.requires[id]
      PROVE  dependency \in addClosure(m, roots)
  <2>1. dependency \in m.policies
    BY <1>1, <1>2 DEF validateRelations
  <2>2. ASSUME NEW ids \in SUBSET m.policies, roots \subseteq ids, Closed(m, ids)
        PROVE  dependency \in ids
    <3>1. id \in ids
      BY <2>2 DEF addClosure
    <3> QED BY <3>1, <2>2 DEF Closed
  <2> QED BY <2>1, <2>2 DEF addClosure
<1> QED BY <1>1, <1>2 DEF Closed

LEMMA ClosureGrows ==
  ASSUME NEW m, NEW roots, NEW more, roots \subseteq more
  PROVE  addClosure(m, roots) \subseteq addClosure(m, more)
BY DEF addClosure

(***************************************************************************)
(* The truth of a condition in a world the request is true to.             *)
(***************************************************************************)
Right(truth, holds) ==
  /\ truth \in Truths
  /\ truth = "true" => holds
  /\ truth = "false" => ~holds

LEMMA SelectorIsRight ==
  ASSUME NEW r, NEW world, TrueTo(r, world), NEW selector
  PROVE  Right(evaluatePathSelector(selector, r).truth,
               world.paths \cap selector # {})
<1>1. /\ r.paths \subseteq world.paths
      /\ r.complete => r.paths = world.paths
  BY DEF TrueTo
<1>2. CASE r.paths \cap selector # {}
  <2>1. evaluatePathSelector(selector, r).truth = "true"
    BY <1>2 DEF evaluatePathSelector, Evaluation
  <2> QED BY <1>1, <1>2, <2>1 DEF Right, Truths
<1>3. CASE r.paths \cap selector = {} /\ r.complete
  <2>1. evaluatePathSelector(selector, r).truth = "false"
    BY <1>3 DEF evaluatePathSelector, Evaluation
  <2> QED BY <1>1, <1>3, <2>1 DEF Right, Truths
<1>4. CASE r.paths \cap selector = {} /\ ~r.complete
  <2>1. evaluatePathSelector(selector, r).truth = "unknown"
    BY <1>4 DEF evaluatePathSelector, Evaluation
  <2> QED BY <2>1 DEF Right, Truths
<1> QED BY <1>2, <1>3, <1>4

LEMMA PredicateIsRight ==
  ASSUME NEW r, NEW world, TrueTo(r, world), validateResolveRequest(r), NEW p
  PROVE  Right(evaluateFactPredicate(p, r).truth, world.facts[p.id] = p.equals)
<1>1. CASE Known(p.id, r)
  <2>1. p.id \in DOMAIN r.facts /\ Backed(r, p.id)
    BY <1>1 DEF Known, Backed, validateResolveRequest, validateFact
  <2>2. world.facts[p.id] = (r.facts[p.id].state = "true")
    BY <2>1 DEF TrueTo
  <2>3. evaluateFactPredicate(p, r).truth =
          IF (r.facts[p.id].state = "true") = p.equals THEN "true" ELSE "false"
    BY <1>1 DEF evaluateFactPredicate, Evaluation
  <2> QED BY <2>2, <2>3 DEF Right, Truths
<1>2. CASE ~Known(p.id, r)
  <2>1. evaluateFactPredicate(p, r).truth = "unknown"
    BY <1>2 DEF evaluateFactPredicate, Evaluation
  <2> QED BY <2>1 DEF Right, Truths
<1> QED BY <1>1, <1>2

LEMMA CombinedTruth ==
  ASSUME NEW evals
  PROVE  /\ combineAnd(evals).truth = combineAndTruth(evals)
         /\ combineOr(evals).truth = combineOrTruth(evals)
BY DEF combineAnd, combineOr, Combined, Evaluation

LEMMA AndIsRight ==
  ASSUME NEW evals
  PROVE  /\ combineAndTruth(evals) \in Truths
         /\ combineAndTruth(evals) = "true" => \A e \in evals : e.truth = "true"
         /\ combineAndTruth(evals) = "false" => \E e \in evals : e.truth = "false"
BY DEF combineAndTruth, Truths

LEMMA OrIsRight ==
  ASSUME NEW evals
  PROVE  /\ combineOrTruth(evals) \in Truths
         /\ combineOrTruth(evals) = "true" => \E e \in evals : e.truth = "true"
         /\ combineOrTruth(evals) = "false" => \A e \in evals : e.truth = "false"
BY DEF combineOrTruth, Truths

LEMMA ClauseIsRight ==
  ASSUME NEW r, NEW world, TrueTo(r, world), validateResolveRequest(r), NEW clause
  PROVE  Right(evaluateClause(clause, r).truth,
               /\ \A selector \in clause.path : world.paths \cap selector # {}
               /\ \A p \in clause.facts : world.facts[p.id] = p.equals)
<1> DEFINE paths == {evaluatePathSelector(s, r) : s \in clause.path}
           facts == {evaluateFactPredicate(p, r) : p \in clause.facts}
           parts == paths \cup IF facts = {} THEN {} ELSE {combineAnd(facts)}
           truth == evaluateClause(clause, r).truth
           seen == \A selector \in clause.path : world.paths \cap selector # {}
           known == \A p \in clause.facts : world.facts[p.id] = p.equals
<1>1. truth = combineAndTruth(parts)
  BY CombinedTruth DEF evaluateClause
<1>2. truth \in Truths
  BY <1>1, AndIsRight
<1>3. ASSUME truth = "true"
      PROVE  seen /\ known
  <2>1. \A e \in parts : e.truth = "true"
    BY <1>1, <1>3, AndIsRight
  <2>2. seen
    <3>1. ASSUME NEW s \in clause.path
          PROVE  world.paths \cap s # {}
      <4>1. evaluatePathSelector(s, r) \in parts
        OBVIOUS
      <4> QED BY <2>1, <4>1, SelectorIsRight DEF Right
    <3> QED BY <3>1
  <2>3. known
    <3>1. ASSUME NEW p \in clause.facts
          PROVE  world.facts[p.id] = p.equals
      <4>1. evaluateFactPredicate(p, r) \in facts
        OBVIOUS
      <4>2. combineAnd(facts) \in parts
        BY <4>1
      <4>3. combineAndTruth(facts) = "true"
        BY <2>1, <4>2, CombinedTruth
      <4>4. evaluateFactPredicate(p, r).truth = "true"
        BY <4>1, <4>3, AndIsRight
      <4> QED BY <4>4, PredicateIsRight DEF Right
    <3> QED BY <3>1
  <2> QED BY <2>2, <2>3
<1>4. ASSUME truth = "false"
      PROVE  ~(seen /\ known)
  <2>1. PICK e \in parts : e.truth = "false"
    BY <1>1, <1>4, AndIsRight
  <2>2. CASE e \in paths
    <3>1. PICK s \in clause.path : e = evaluatePathSelector(s, r)
      BY <2>2
    <3>2. ~(world.paths \cap s # {})
      BY <2>1, <3>1, SelectorIsRight DEF Right
    <3> QED BY <3>2
  <2>3. CASE e = combineAnd(facts)
    <3>1. PICK f \in facts : f.truth = "false"
      BY <2>1, <2>3, CombinedTruth, AndIsRight
    <3>2. PICK p \in clause.facts : f = evaluateFactPredicate(p, r)
      OBVIOUS
    <3>3. ~(world.facts[p.id] = p.equals)
      BY <3>1, <3>2, PredicateIsRight DEF Right
    <3> QED BY <3>3
  <2> QED BY <2>2, <2>3
<1> QED BY <1>2, <1>3, <1>4 DEF Right

LEMMA ConditionIsRight ==
  ASSUME NEW r, NEW world, TrueTo(r, world), validateResolveRequest(r),
         NEW condition
  PROVE  Right(evaluateCondition(condition, r).truth, Holds(condition, world))
<1>1. CASE condition.always
  <2>1. evaluateCondition(condition, r).truth = "true"
    BY <1>1 DEF evaluateCondition, Evaluation
  <2>2. Holds(condition, world)
    BY <1>1 DEF Holds
  <2> QED BY <2>1, <2>2 DEF Right, Truths
<1>2. CASE ~condition.always
  <2> DEFINE parts == {evaluateClause(c, r) : c \in condition.anyOf}
             truth == evaluateCondition(condition, r).truth
             fits(c) ==
               /\ \A selector \in c.path : world.paths \cap selector # {}
               /\ \A p \in c.facts : world.facts[p.id] = p.equals
  <2>1. truth = combineOrTruth(parts)
    BY <1>2, CombinedTruth DEF evaluateCondition
  <2>2. Holds(condition, world) <=> \E c \in condition.anyOf : fits(c)
    BY <1>2 DEF Holds
  <2>3. ASSUME NEW c \in condition.anyOf
        PROVE  Right(evaluateClause(c, r).truth, fits(c))
    BY ClauseIsRight
  <2> HIDE DEF fits
  <2>4. ASSUME truth = "true"
        PROVE  \E c \in condition.anyOf : fits(c)
    <3>1. PICK e \in parts : e.truth = "true"
      BY <2>1, <2>4, OrIsRight
    <3>2. PICK c \in condition.anyOf : e = evaluateClause(c, r)
      OBVIOUS
    <3> QED BY <2>3, <3>1, <3>2 DEF Right
  <2>5. ASSUME truth = "false", NEW c \in condition.anyOf
        PROVE  ~fits(c)
    <3>1. evaluateClause(c, r) \in parts
      OBVIOUS
    <3>2. evaluateClause(c, r).truth = "false"
      BY <2>1, <2>5, <3>1, OrIsRight
    <3> QED BY <2>3, <3>2 DEF Right
  <2>6. truth \in Truths
    BY <2>1, OrIsRight
  <2> QED BY <2>2, <2>4, <2>5, <2>6 DEF Right
<1> QED BY <1>1, <1>2

(***************************************************************************)
(* Conflicts of a set are conflicts of every larger one.                   *)
(***************************************************************************)
LEMMA ConflictsGrow ==
  ASSUME NEW m, NEW few, NEW more, few \subseteq more, ConflictsIn(m, few)
  PROVE  ConflictsIn(m, more)
<1>1. PICK id \in few : m.conflicts[id] \cap few # {}
  BY DEF ConflictsIn
<1>2. id \in more /\ m.conflicts[id] \cap more # {}
  BY <1>1
<1> QED BY <1>2 DEF ConflictsIn

LEMMA ResolutionIsRight ==
  ASSUME NEW r, NEW world, TrueTo(r, world),
         validatePolicyManifest(manifest), validateResolveRequest(r)
  PROVE  Sound(resolveValidatedRequest(manifest, r), world)
<1> DEFINE holding == {id \in manifest.policies : Holds(manifest.when[id], world)}
           true == Roots(manifest, r, "true")
           required == Required(manifest, r)
           candidate == Candidate(manifest, r)
           unknown == CandidateRoots(manifest, r)
           res == resolveValidatedRequest(manifest, r)
<1>1. validateRelations(manifest)
  BY DEF validatePolicyManifest
<1>2. ASSUME NEW id \in manifest.policies
      PROVE  /\ Truth(manifest, r, id) \in Truths
             /\ Truth(manifest, r, id) = "true" => id \in holding
             /\ Truth(manifest, r, id) = "false" => id \notin holding
  BY ConditionIsRight DEF Truth, Right
<1> HIDE DEF holding
<1>3. true \subseteq holding /\ true \subseteq manifest.policies
  BY <1>2 DEF Roots
<1>4. Applying(world) = addClosure(manifest, holding)
  BY DEF Applying, holding
<1>5. required \subseteq Applying(world)
  BY <1>3, <1>4, ClosureGrows DEF Required
<1>6. /\ required \subseteq manifest.policies
      /\ Closed(manifest, required)
      /\ true \subseteq required
  BY <1>1, <1>3, ClosureIsClosed, ClosureHoldsRoots DEF Required
<1>7. unknown \subseteq manifest.policies
  BY DEF CandidateRoots, Roots
<1>8. /\ addClosure(manifest, unknown) \subseteq manifest.policies
      /\ Closed(manifest, addClosure(manifest, unknown))
      /\ unknown \subseteq addClosure(manifest, unknown)
  BY <1>1, <1>7, ClosureIsClosed, ClosureHoldsRoots
<1>9. required \cup candidate = required \cup addClosure(manifest, unknown)
  BY DEF Candidate
<1>10. ASSUME NEW id \in manifest.policies, id \notin required \cup candidate
       PROVE  Truth(manifest, r, id) = "false"
  <2>1. id \notin true /\ id \notin unknown
    BY <1>6, <1>8, <1>9, <1>10
  <2>2. Truth(manifest, r, id) # "true" /\ Truth(manifest, r, id) # "unknown"
    BY <2>1, <1>10 DEF Roots, CandidateRoots
  <2> QED BY <1>2, <2>2 DEF Truths
<1>11. holding \subseteq required \cup candidate
  BY <1>2, <1>10 DEF holding
<1>12. Applying(world) \subseteq required \cup candidate
  <2>1. Closed(manifest, required \cup candidate)
    BY <1>6, <1>8, <1>9 DEF Closed
  <2>2. required \cup candidate \subseteq manifest.policies
    BY <1>6, <1>8, <1>9
  <2> QED BY <1>4, <1>11, <2>1, <2>2, ClosureIsLeast
<1>13. Excluded(manifest, r) = manifest.policies \ (required \cup candidate)
  <2>1. Excluded(manifest, r) =
          Roots(manifest, r, "false") \ (required \cup candidate)
    BY DEF Excluded
  <2>2. manifest.policies \ (required \cup candidate)
          \subseteq Roots(manifest, r, "false")
    BY <1>10 DEF Roots
  <2>3. Roots(manifest, r, "false") \subseteq manifest.policies
    BY DEF Roots
  <2> QED BY <2>1, <2>2, <2>3
<1>14. /\ res.required = required /\ res.candidate = candidate
       /\ res.excluded = Excluded(manifest, r)
       /\ res.state = ResolutionState(manifest, r)
  BY DEF resolveValidatedRequest
<1>15. /\ res.state = "conflict" => ConflictsIn(manifest, required)
       /\ res.state = "ready" => ~ConflictsIn(manifest, required \cup candidate)
  BY <1>14 DEF ResolutionState
<1>16. res.state = "conflict" => ConflictsIn(manifest, Applying(world))
  BY <1>5, <1>15, ConflictsGrow
<1>17. res.state = "ready" => ~ConflictsIn(manifest, Applying(world))
  BY <1>12, <1>15, ConflictsGrow
<1> QED BY <1>5, <1>12, <1>13, <1>14, <1>16, <1>17 DEF Sound

(***************************************************************************)
(* Every resolution a call was given is that of its request: only Resolve  *)
(* changes either, and the manifest stays.                                 *)
(***************************************************************************)
Answers ==
  /\ request = [c \in Callers |-> request[c]]
  /\ resolution = [c \in Callers |-> resolution[c]]
  /\ \A c \in Callers :
       \/ resolution[c] = Unresolvable
       \/ resolution[c] = resolvePolicies(manifest, request[c])

LEMMA AnswersInit == Init => Answers
BY DEF Init, Answers

LEMMA AnswersStay ==
  ASSUME Answers, UNCHANGED <<manifest, asked>>
  PROVE  Answers'
BY DEF Answers, asked

LEMMA AnswersResolve ==
  ASSUME Answers, NEW c \in Callers, Resolve(c)
  PROVE  Answers'
<1>1. PICK r : /\ request' = [request EXCEPT ![c] = r]
               /\ resolution' = [resolution EXCEPT ![c] = resolvePolicies(manifest, r)]
               /\ manifest' = manifest
  BY DEF Resolve, fixed
<1>2. /\ request' = [d \in Callers |-> request'[d]]
      /\ resolution' = [d \in Callers |-> resolution'[d]]
  BY <1>1 DEF Answers
<1>3. ASSUME NEW d \in Callers
      PROVE  \/ resolution'[d] = Unresolvable
             \/ resolution'[d] = resolvePolicies(manifest', request'[d])
  <2>1. CASE d = c
    BY <1>1, <2>1 DEF Answers
  <2>2. CASE d # c
    <3>1. resolution'[d] = resolution[d] /\ request'[d] = request[d]
      BY <1>1, <2>2 DEF Answers
    <3> QED BY <1>1, <3>1 DEF Answers
  <2> QED BY <2>1, <2>2
<1> QED BY <1>2, <1>3 DEF Answers, Unresolvable, invalidResolution

LEMMA OthersAskNothing ==
  ASSUME [Next]_vars, ~\E c \in Callers : Resolve(c)
  PROVE  UNCHANGED <<manifest, asked>>
<1>1. CASE Prepare
  BY <1>1 DEF Prepare, fixed
<1>2. CASE \E s \in Sources : PreloadInspect(s)
  BY <1>2 DEF PreloadInspect, fixed
<1>3. ASSUME NEW c \in Callers, Check(c) \/ Inspect(c) \/ Load(c)
      PROVE  UNCHANGED <<manifest, asked>>
  BY <1>3 DEF Check, Inspect, Load, fixed
<1>4. CASE \E x \in Readers : Read(x)
  BY <1>4 DEF Read, fixed
<1>5. ASSUME Changed
      PROVE  UNCHANGED <<manifest, asked>>
  BY <1>5 DEF Changed, fixed
<1>6. ASSUME NEW f \in Places, WriteHead(f) \/ WriteTail(f) \/ Unlink(f)
      PROVE  UNCHANGED <<manifest, asked>>
  BY <1>5, <1>6 DEF WriteHead, WriteTail, Unlink
<1>7. ASSUME NEW s \in Sources, NEW f \in Places, Relink(s, f)
      PROVE  UNCHANGED <<manifest, asked>>
  BY <1>5, <1>7 DEF Relink
<1>8. CASE UNCHANGED vars
  BY <1>8 DEF vars, fixed
<1> QED BY <1>1, <1>2, <1>3, <1>4, <1>6, <1>7, <1>8 DEF Next

LEMMA AnswersNext == Answers /\ [Next]_vars => Answers'
BY AnswersResolve, AnswersStay, OthersAskNothing

LEMMA ResolvedIsAnswer ==
  ASSUME Answers, NEW c \in Callers, Resolved(c)
  PROVE  /\ resolution[c] # Unresolvable
         /\ validatePolicyManifest(manifest)
         /\ validateResolveRequest(request[c])
         /\ resolution[c] = resolveValidatedRequest(manifest, request[c])
<1>1. resolution[c].state \notin {"none", "invalid"}
  BY DEF Resolved
<1>2. resolution[c] # Unresolvable
  BY <1>1 DEF Unresolvable, invalidResolution
<1>3. resolution[c] = resolvePolicies(manifest, request[c])
  BY <1>2 DEF Answers
<1> QED BY <1>1, <1>2, <1>3 DEF resolvePolicies, invalidResolution

LEMMA AnswersAreSound == Answers => ResolutionSound
<1> SUFFICES ASSUME Answers, NEW c \in Callers, Resolved(c),
                    NEW world \in Worlds, TrueTo(request[c], world)
             PROVE  Sound(resolution[c], world)
  BY DEF ResolutionSound
<1>1. /\ validatePolicyManifest(manifest)
      /\ validateResolveRequest(request[c])
      /\ resolution[c] = resolveValidatedRequest(manifest, request[c])
  BY ResolvedIsAnswer
<1> QED BY <1>1, ResolutionIsRight

(***************************************************************************)
(* Whatever is still unknown turns out to be, what a resolution says is    *)
(* required applies, what it excludes does not, and a conflict it reports  *)
(* is one (resolve.ts:206-345).                                            *)
(***************************************************************************)
THEOREM ResolutionsAreSound == Spec => []ResolutionSound
<1>1. Init => Answers
  BY AnswersInit
<1>2. Answers /\ [Next]_vars => Answers'
  BY AnswersNext
<1>3. Answers => ResolutionSound
  BY AnswersAreSound
<1> QED BY <1>1, <1>2, <1>3, PTL DEF Spec

(***************************************************************************)
(* Finding out what a resolution asks. With the answers, what was decided  *)
(* stays as it is, and what asked for nothing but them is decided.         *)
(***************************************************************************)
Better(few, more, res) ==
  /\ few.truth # "unknown" => more.truth = few.truth
  /\ few.truth = "unknown" /\ few.facts \subseteq res.facts
     /\ (few.scope => res.scope)
     => more.truth # "unknown"

Improves(few, more, res) ==
  /\ \A e \in few \cup more : e.truth \in Truths
  /\ \A e \in few : \E f \in more : Better(e, f, res)
  /\ \A f \in more : \E e \in few : Better(e, f, res)

LEMMA CombinedAsks ==
  ASSUME NEW evals
  PROVE  /\ combineAndTruth(evals) = "unknown" =>
              /\ combineAnd(evals).facts = UNION {e.facts : e \in evals}
              /\ combineAnd(evals).scope = (\E e \in evals : e.scope)
         /\ combineOrTruth(evals) = "unknown" =>
              \A e \in evals : e.truth = "unknown" =>
                /\ e.facts \subseteq combineOr(evals).facts
                /\ e.scope => combineOr(evals).scope
<1>1. ASSUME combineAndTruth(evals) = "unknown"
      PROVE  /\ combineAnd(evals).facts = UNION {e.facts : e \in evals}
             /\ combineAnd(evals).scope = (\E e \in evals : e.scope)
  BY <1>1 DEF combineAnd, Combined, Evaluation
<1>2. ASSUME combineOrTruth(evals) = "unknown",
             NEW e \in evals, e.truth = "unknown"
      PROVE  /\ e.facts \subseteq combineOr(evals).facts
             /\ e.scope => combineOr(evals).scope
  <2> DEFINE asking == {f \in evals : f.truth = "unknown"}
  <2>1. e \in asking
    BY <1>2
  <2>2. combineOr(evals) = Evaluation("unknown", UNION {f.facts : f \in asking},
                                      \E f \in asking : f.scope)
    BY <1>2 DEF combineOr, Combined
  <2> HIDE DEF asking
  <2>3. /\ combineOr(evals).facts = UNION {f.facts : f \in asking}
        /\ combineOr(evals).scope = (\E f \in asking : f.scope)
    BY <2>2 DEF Evaluation
  <2> QED BY <2>1, <2>3
<1> QED BY <1>1, <1>2

LEMMA AndImproves ==
  ASSUME NEW few, NEW more, NEW res, Improves(few, more, res)
  PROVE  Better(combineAnd(few), combineAnd(more), res)
<1>1. /\ combineAnd(few).truth = combineAndTruth(few)
      /\ combineAnd(more).truth = combineAndTruth(more)
  BY CombinedTruth
<1>2. CASE combineAndTruth(few) = "true"
  <2>1. \A f \in more : f.truth = "true"
    BY <1>2, AndIsRight DEF Improves, Better
  <2>2. combineAndTruth(more) = "true"
    BY <2>1 DEF combineAndTruth
  <2> QED BY <1>1, <1>2, <2>2 DEF Better
<1>3. CASE combineAndTruth(few) = "false"
  <2>1. \E f \in more : f.truth = "false"
    BY <1>3, AndIsRight DEF Improves, Better
  <2>2. combineAndTruth(more) = "false"
    BY <2>1 DEF combineAndTruth
  <2> QED BY <1>1, <1>3, <2>2 DEF Better
<1>4. CASE combineAndTruth(few) = "unknown"
  <2>1. SUFFICES ASSUME combineAnd(few).facts \subseteq res.facts,
                        combineAnd(few).scope => res.scope
                 PROVE  combineAndTruth(more) # "unknown"
    BY <1>1, <1>4 DEF Better
  <2>2. ASSUME NEW e \in few
        PROVE  e.facts \subseteq res.facts /\ (e.scope => res.scope)
    <3>1. /\ combineAnd(few).facts = UNION {g.facts : g \in few}
          /\ combineAnd(few).scope = (\E g \in few : g.scope)
      BY <1>4, CombinedAsks
    <3>2. e.facts \subseteq UNION {g.facts : g \in few}
      OBVIOUS
    <3>3. e.scope => combineAnd(few).scope
      BY <3>1
    <3> QED BY <2>1, <3>1, <3>2, <3>3
  <2>3. ASSUME NEW f \in more
        PROVE  f.truth \in {"true", "false"}
    <3>1. PICK e \in few : Better(e, f, res)
      BY DEF Improves
    <3>2. e.truth \in Truths /\ f.truth \in Truths
      BY DEF Improves
    <3>3. e.facts \subseteq res.facts /\ (e.scope => res.scope)
      BY <2>2
    <3> QED BY <3>1, <3>2, <3>3 DEF Better, Truths
  <2> QED BY <2>3 DEF combineAndTruth
<1> QED BY <1>2, <1>3, <1>4, AndIsRight DEF Truths

LEMMA OrImproves ==
  ASSUME NEW few, NEW more, NEW res, Improves(few, more, res)
  PROVE  Better(combineOr(few), combineOr(more), res)
<1>1. /\ combineOr(few).truth = combineOrTruth(few)
      /\ combineOr(more).truth = combineOrTruth(more)
  BY CombinedTruth
<1>2. CASE combineOrTruth(few) = "true"
  <2>1. \E f \in more : f.truth = "true"
    BY <1>2, OrIsRight DEF Improves, Better
  <2>2. combineOrTruth(more) = "true"
    BY <2>1 DEF combineOrTruth
  <2> QED BY <1>1, <1>2, <2>2 DEF Better
<1>3. CASE combineOrTruth(few) = "false"
  <2>1. \A f \in more : f.truth = "false"
    BY <1>3, OrIsRight DEF Improves, Better
  <2>2. combineOrTruth(more) = "false"
    BY <2>1 DEF combineOrTruth
  <2> QED BY <1>1, <1>3, <2>2 DEF Better
<1>4. CASE combineOrTruth(few) = "unknown"
  <2>1. SUFFICES ASSUME combineOr(few).facts \subseteq res.facts,
                        combineOr(few).scope => res.scope
                 PROVE  combineOrTruth(more) # "unknown"
    BY <1>1, <1>4 DEF Better
  <2>2. ASSUME NEW f \in more
        PROVE  f.truth \in {"true", "false"}
    <3>1. PICK e \in few : Better(e, f, res)
      BY DEF Improves
    <3>2. e.truth \in Truths /\ f.truth \in Truths
      BY DEF Improves
    <3>3. e.truth = "unknown" =>
            e.facts \subseteq res.facts /\ (e.scope => res.scope)
      BY <1>4, <2>1, CombinedAsks
    <3> QED BY <3>1, <3>2, <3>3 DEF Better, Truths
  <2> QED BY <2>2 DEF combineOrTruth
<1> QED BY <1>2, <1>3, <1>4, OrIsRight DEF Truths

(* A request with the answers: it is true to the world they come from.     *)
Whole(r) == DOMAIN r = {"context", "paths", "complete", "facts", "evidence"}

LEMMA AnsweredFields ==
  ASSUME NEW r, Whole(r), NEW res, NEW world
  PROVE  /\ Answered(r, res, world).context = r.context
         /\ Answered(r, res, world).paths =
              IF res.scope THEN world.paths ELSE r.paths
         /\ Answered(r, res, world).complete = (r.complete \/ res.scope)
<1> DEFINE paths == IF res.scope THEN world.paths ELSE r.paths
           complete == r.complete \/ res.scope
<1>1. PICK evidence, facts :
        Answered(r, res, world) =
          [r EXCEPT !.paths = paths, !.complete = complete,
                    !.evidence = evidence, !.facts = facts]
  BY DEF Answered
<1> HIDE DEF paths, complete
<1>2. Answered(r, res, world).context = r.context
  BY <1>1 DEF Whole
<1>3. Answered(r, res, world).paths = paths
  BY <1>1 DEF Whole
<1>4. Answered(r, res, world).complete = complete
  BY <1>1 DEF Whole
<1> QED BY <1>2, <1>3, <1>4 DEF paths, complete

LEMMA AnsweredFacts ==
  ASSUME NEW r, Whole(r), NEW res, NEW world,
         NEW a, a = Answered(r, res, world)
  PROVE  /\ DOMAIN a.evidence = DOMAIN r.evidence \cup {"answer"}
         /\ \A e \in DOMAIN a.evidence :
              a.evidence[e] = IF e = "answer" THEN r.context ELSE r.evidence[e]
         /\ DOMAIN a.facts = DOMAIN r.facts \cup res.facts
         /\ \A id \in res.facts :
              a.facts[id] = [state |-> IF world.facts[id] THEN "true" ELSE "false",
                             basis |-> "verified", context |-> r.context,
                             evidence |-> {"answer"}]
         /\ \A id \in DOMAIN r.facts \ res.facts : a.facts[id] = r.facts[id]
<1> DEFINE evidence == [e \in DOMAIN r.evidence \cup {"answer"} |->
                          IF e = "answer" THEN r.context ELSE r.evidence[e]]
           facts == [id \in DOMAIN r.facts \cup res.facts |->
              IF id \in res.facts
              THEN [state |-> IF world.facts[id] THEN "true" ELSE "false",
                    basis |-> "verified", context |-> r.context,
                    evidence |-> {"answer"}]
              ELSE r.facts[id]]
<1>1. PICK paths, complete :
        a = [r EXCEPT !.paths = paths, !.complete = complete,
                  !.evidence = evidence, !.facts = facts]
  BY DEF Answered
<1> HIDE DEF evidence, facts
<1>2. a.evidence = evidence
  BY <1>1 DEF Whole
<1>3. a.facts = facts
  BY <1>1 DEF Whole
<1>4. /\ DOMAIN evidence = DOMAIN r.evidence \cup {"answer"}
      /\ \A e \in DOMAIN evidence :
           evidence[e] = IF e = "answer" THEN r.context ELSE r.evidence[e]
  BY DEF evidence
<1>5. /\ DOMAIN facts = DOMAIN r.facts \cup res.facts
      /\ \A id \in res.facts :
           facts[id] = [state |-> IF world.facts[id] THEN "true" ELSE "false",
                        basis |-> "verified", context |-> r.context,
                        evidence |-> {"answer"}]
      /\ \A id \in DOMAIN r.facts \ res.facts : facts[id] = r.facts[id]
  BY DEF facts
<1> QED BY <1>2, <1>3, <1>4, <1>5

LEMMA AnswersAreKnown ==
  ASSUME NEW r, Whole(r), validateResolveRequest(r), NEW res, NEW world,
         TrueTo(r, world), Stale(r) \subseteq res.facts,
         NEW a, a = Answered(r, res, world)
  PROVE  /\ \A id \in res.facts : Known(id, a)
         /\ \A id : Known(id, r) =>
              Known(id, a) /\ (a.facts[id].state = "true" <=> r.facts[id].state = "true")
         /\ Stale(a) = {}
         /\ validateResolveRequest(a)
<1>1. /\ a.context = r.context
      /\ DOMAIN a.evidence = DOMAIN r.evidence \cup {"answer"}
      /\ \A e \in DOMAIN a.evidence :
           a.evidence[e] = IF e = "answer" THEN r.context ELSE r.evidence[e]
      /\ DOMAIN a.facts = DOMAIN r.facts \cup res.facts
      /\ \A id \in res.facts :
           a.facts[id] = [state |-> IF world.facts[id] THEN "true" ELSE "false",
                          basis |-> "verified", context |-> r.context,
                          evidence |-> {"answer"}]
      /\ \A id \in DOMAIN r.facts \ res.facts : a.facts[id] = r.facts[id]
  BY AnsweredFields, AnsweredFacts
<1>2. ASSUME NEW id \in res.facts
      PROVE  /\ Known(id, a)
             /\ a.facts[id].state = "true" <=> world.facts[id]
  <2>1. /\ id \in DOMAIN a.facts
        /\ a.facts[id] = [state |-> IF world.facts[id] THEN "true" ELSE "false",
                          basis |-> "verified", context |-> r.context,
                          evidence |-> {"answer"}]
    BY <1>1, <1>2
  <2>2. /\ a.facts[id].state = IF world.facts[id] THEN "true" ELSE "false"
        /\ a.facts[id].basis = "verified"
        /\ a.facts[id].context = a.context
    BY <1>1, <2>1
  <2>3. a.facts[id].state # "unknown"
    BY <2>2
  <2>4. a.facts[id].state = "true" <=> world.facts[id]
    BY <2>2
  <2> QED BY <2>1, <2>2, <2>3, <2>4 DEF Known
<1>3. ASSUME NEW id, Known(id, r)
      PROVE  Known(id, a) /\ (a.facts[id].state = "true" <=> r.facts[id].state = "true")
  <2>1. CASE id \in res.facts
    <3>1. id \in DOMAIN r.facts /\ Backed(r, id)
      BY <1>3 DEF Known, Backed, validateResolveRequest, validateFact
    <3>2. world.facts[id] = (r.facts[id].state = "true")
      BY <3>1 DEF TrueTo
    <3> QED BY <1>2, <2>1, <3>2
  <2>2. CASE id \notin res.facts
    <3>1. id \in DOMAIN r.facts /\ a.facts[id] = r.facts[id]
      BY <1>1, <1>3, <2>2 DEF Known
    <3> QED BY <1>1, <1>3, <3>1 DEF Known
  <2> QED BY <2>1, <2>2
<1>4. Stale(a) = {}
  <2>1. ASSUME NEW id \in DOMAIN a.facts
        PROVE  ~(a.facts[id].basis = "verified" /\ a.facts[id].context # a.context)
    <3>1. CASE id \in res.facts
      <4>1. a.facts[id] = [state |-> IF world.facts[id] THEN "true" ELSE "false",
                           basis |-> "verified", context |-> r.context,
                           evidence |-> {"answer"}]
        BY <1>1, <3>1
      <4>2. a.facts[id].context = r.context
        BY <4>1
      <4> QED BY <1>1, <4>2
    <3>2. CASE id \notin res.facts
      <4>1. id \in DOMAIN r.facts /\ a.facts[id] = r.facts[id]
        BY <1>1, <2>1, <3>2
      <4>2. id \notin Stale(r)
        BY <3>2
      <4> QED BY <1>1, <4>1, <4>2 DEF Stale
    <3> QED BY <3>1, <3>2
  <2> QED BY <2>1 DEF Stale
<1>5. ASSUME NEW id \in DOMAIN a.facts
      PROVE  validateFact(a.facts[id], a.evidence)
  <2>1. CASE id \in res.facts
    <3>1. "answer" \in DOMAIN a.evidence /\ a.evidence["answer"] = r.context
      BY <1>1
    <3>2. a.facts[id] = [state |-> IF world.facts[id] THEN "true" ELSE "false",
                         basis |-> "verified", context |-> r.context,
                         evidence |-> {"answer"}]
      BY <1>1, <2>1
    <3>3. /\ a.facts[id].state # "unknown" /\ a.facts[id].basis = "verified"
          /\ a.facts[id].context = r.context /\ a.facts[id].evidence = {"answer"}
      BY <3>2
    <3> QED BY <3>1, <3>3 DEF validateFact
  <2>2. CASE id \notin res.facts
    <3> DEFINE fact == r.facts[id]
    <3>1. id \in DOMAIN r.facts /\ a.facts[id] = fact
      BY <1>1, <2>2
    <3>2. validateFact(fact, r.evidence)
      BY <3>1 DEF validateResolveRequest
    <3>3. fact.basis = "verified" => fact.context = r.context
      BY <2>2, <3>1 DEF Stale
    <3> HIDE DEF fact
    <3>4. ASSUME fact.basis = "verified", NEW e \in fact.evidence
          PROVE  e \in DOMAIN a.evidence /\ a.evidence[e] = fact.context
      BY <1>1, <3>2, <3>3, <3>4 DEF validateFact
    <3> QED BY <3>1, <3>2, <3>4 DEF validateFact
  <2> QED BY <2>1, <2>2
<1> QED BY <1>2, <1>3, <1>4, <1>5 DEF validateResolveRequest

LEMMA SelectorImproves ==
  ASSUME NEW r, Whole(r), NEW res, NEW world, TrueTo(r, world),
         NEW a, a = Answered(r, res, world), NEW selector
  PROVE  Better(evaluatePathSelector(selector, r),
                evaluatePathSelector(selector, a), res)
<1>1. /\ a.paths = (IF res.scope THEN world.paths ELSE r.paths)
      /\ a.complete = (r.complete \/ res.scope)
  <2>1. a.paths = IF res.scope THEN world.paths ELSE r.paths
    BY AnsweredFields
  <2>2. a.complete = (r.complete \/ res.scope)
    BY AnsweredFields
  <2> QED BY <2>1, <2>2
<1>2. /\ r.paths \subseteq world.paths
      /\ r.complete => r.paths = world.paths
  BY DEF TrueTo
<1>3. r.paths \subseteq a.paths /\ (r.complete => a.paths = r.paths /\ a.complete)
  BY <1>1, <1>2
<1>4. res.scope => a.complete
  BY <1>1
<1>5. CASE r.paths \cap selector # {}
  <2>1. /\ evaluatePathSelector(selector, r).truth = "true"
        /\ evaluatePathSelector(selector, a).truth = "true"
    BY <1>3, <1>5 DEF evaluatePathSelector, Evaluation
  <2> QED BY <2>1 DEF Better
<1>6. CASE r.paths \cap selector = {} /\ r.complete
  <2>1. /\ evaluatePathSelector(selector, r).truth = "false"
        /\ evaluatePathSelector(selector, a).truth = "false"
    BY <1>3, <1>6 DEF evaluatePathSelector, Evaluation
  <2> QED BY <2>1 DEF Better
<1>7. CASE r.paths \cap selector = {} /\ ~r.complete
  <2>1. /\ evaluatePathSelector(selector, r).truth = "unknown"
        /\ evaluatePathSelector(selector, r).scope = TRUE
    BY <1>7 DEF evaluatePathSelector, Evaluation
  <2>2. a.complete => evaluatePathSelector(selector, a).truth # "unknown"
    BY DEF evaluatePathSelector, Evaluation
  <2> QED BY <1>4, <2>1, <2>2 DEF Better
<1> QED BY <1>5, <1>6, <1>7

LEMMA PredicateImproves ==
  ASSUME NEW r, Whole(r), validateResolveRequest(r), NEW res, NEW world,
         TrueTo(r, world), Stale(r) \subseteq res.facts,
         NEW a, a = Answered(r, res, world), NEW p
  PROVE  Better(evaluateFactPredicate(p, r),
                evaluateFactPredicate(p, a), res)
<1>1. /\ p.id \in res.facts => Known(p.id, a)
      /\ Known(p.id, r) =>
           /\ Known(p.id, a)
           /\ a.facts[p.id].state = "true" <=> r.facts[p.id].state = "true"
  BY AnswersAreKnown
<1>2. CASE Known(p.id, r)
  <2>1. evaluateFactPredicate(p, a).truth = evaluateFactPredicate(p, r).truth
    BY <1>1, <1>2 DEF evaluateFactPredicate, Evaluation
  <2>2. evaluateFactPredicate(p, r).truth # "unknown"
    BY <1>2 DEF evaluateFactPredicate, Evaluation
  <2> QED BY <2>1, <2>2 DEF Better
<1>3. CASE ~Known(p.id, r)
  <2>1. /\ evaluateFactPredicate(p, r).truth = "unknown"
        /\ evaluateFactPredicate(p, r).facts = {p.id}
    BY <1>3 DEF evaluateFactPredicate, Evaluation
  <2>2. p.id \in res.facts => evaluateFactPredicate(p, a).truth # "unknown"
    BY <1>1 DEF evaluateFactPredicate, Evaluation
  <2> QED BY <2>1, <2>2 DEF Better
<1> QED BY <1>2, <1>3

LEMMA ClauseImproves ==
  ASSUME NEW r, Whole(r), validateResolveRequest(r), NEW res, NEW world,
         TrueTo(r, world), Stale(r) \subseteq res.facts,
         NEW a, a = Answered(r, res, world), NEW clause
  PROVE  Better(evaluateClause(clause, r), evaluateClause(clause, a), res)
<1> DEFINE paths(q) == {evaluatePathSelector(s, q) : s \in clause.path}
           facts(q) == {evaluateFactPredicate(p, q) : p \in clause.facts}
           parts(q) == paths(q) \cup
                         IF facts(q) = {} THEN {} ELSE {combineAnd(facts(q))}
<1>1. \A q : evaluateClause(clause, q) = combineAnd(parts(q))
  BY DEF evaluateClause
<1>2. /\ \A q, s : evaluatePathSelector(s, q).truth \in Truths
      /\ \A q, p : evaluateFactPredicate(p, q).truth \in Truths
  BY DEF evaluatePathSelector, evaluateFactPredicate, Evaluation, Truths
<1>3. \A s : Better(evaluatePathSelector(s, r), evaluatePathSelector(s, a), res)
  BY SelectorImproves
<1>4. \A p : Better(evaluateFactPredicate(p, r), evaluateFactPredicate(p, a), res)
  BY PredicateImproves
<1>5. Improves(facts(r), facts(a), res)
  BY <1>2, <1>4 DEF Improves
<1>6. Better(combineAnd(facts(r)), combineAnd(facts(a)), res)
  BY <1>5, AndImproves
<1>7. \A q : combineAnd(facts(q)).truth \in Truths
  BY CombinedTruth, AndIsRight
<1>8. Improves(paths(r), paths(a), res)
  BY <1>2, <1>3 DEF Improves
<1>9. facts(r) = {} <=> facts(a) = {}
  OBVIOUS
<1> HIDE DEF facts, paths
<1>10. Improves(parts(r), parts(a), res)
  BY <1>6, <1>7, <1>8, <1>9 DEF Improves
<1> QED BY <1>1, <1>10, AndImproves

LEMMA ConditionImproves ==
  ASSUME NEW r, Whole(r), validateResolveRequest(r), NEW res, NEW world,
         TrueTo(r, world), Stale(r) \subseteq res.facts,
         NEW a, a = Answered(r, res, world), NEW condition
  PROVE  Better(evaluateCondition(condition, r),
                evaluateCondition(condition, a), res)
<1>1. CASE condition.always
  <2>1. \A q : evaluateCondition(condition, q).truth = "true"
    BY <1>1 DEF evaluateCondition, Evaluation
  <2> QED BY <2>1 DEF Better
<1>2. CASE ~condition.always
  <2> DEFINE parts(q) == {evaluateClause(c, q) : c \in condition.anyOf}
  <2>1. \A q : evaluateCondition(condition, q) = combineOr(parts(q))
    BY <1>2 DEF evaluateCondition
  <2>2. \A c : Better(evaluateClause(c, r), evaluateClause(c, a), res)
    BY ClauseImproves
  <2>3. \A c, q : evaluateClause(c, q).truth \in Truths
    BY CombinedTruth, AndIsRight DEF evaluateClause
  <2>4. Improves(parts(r), parts(a), res)
    BY <2>2, <2>3 DEF Improves
  <2> QED BY <2>1, <2>4, OrImproves
<1> QED BY <1>1, <1>2

(* With the answers nothing is left to ask: what may still be required was *)
(* asked about, and everything else was decided before.                    *)
LEMMA AnswersSettle ==
  ASSUME NEW r, Whole(r), validatePolicyManifest(manifest),
         validateResolveRequest(r), NEW world, TrueTo(r, world),
         NEW res, res = resolveValidatedRequest(manifest, r),
         NEW a, a = Answered(r, res, world)
  PROVE  /\ validateResolveRequest(a)
         /\ ResolutionState(manifest, a) \in {"ready", "conflict"}
<1>1. /\ res.candidate = Candidate(manifest, r)
      /\ res.facts = Stale(r) \cup UNION {e.facts : e \in Unresolved(manifest, r)}
      /\ res.scope = \E e \in Unresolved(manifest, r) : e.scope
  BY DEF resolveValidatedRequest
<1>2. Stale(r) \subseteq res.facts
  BY <1>1
<1>3. validateResolveRequest(a) /\ Stale(a) = {}
  BY <1>2, AnswersAreKnown
<1>4. \A id : Better(evaluateCondition(manifest.when[id], r),
                    evaluateCondition(manifest.when[id], a), res)
  BY <1>2, ConditionImproves
<1>5. validateRelations(manifest)
  BY DEF validatePolicyManifest
<1>6. Required(manifest, r) \subseteq Required(manifest, a)
  <2>1. Roots(manifest, r, "true") \subseteq Roots(manifest, a, "true")
    BY <1>4 DEF Roots, Truth, Better
  <2> QED BY <2>1, ClosureGrows DEF Required
<1>7. ASSUME NEW id \in Roots(manifest, a, "unknown")
      PROVE  id \in Required(manifest, r)
  <2> DEFINE e == evaluateCondition(manifest.when[id], r)
  <2>1. id \in manifest.policies /\ Truth(manifest, a, id) = "unknown"
    BY DEF Roots
  <2>2. e.truth = "unknown"
    BY <1>4, <2>1 DEF Truth, Better
  <2>3. id \in Roots(manifest, r, "unknown")
    BY <2>1, <2>2 DEF Roots, Truth
  <2>4. SUFFICES ASSUME id \notin Required(manifest, r)
                 PROVE  FALSE
    OBVIOUS
  <2>5. id \in Candidate(manifest, r)
    <3>1. id \in CandidateRoots(manifest, r)
      BY <2>3, <2>4 DEF CandidateRoots
    <3>2. CandidateRoots(manifest, r) \subseteq manifest.policies
      BY DEF CandidateRoots, Roots
    <3>3. id \in addClosure(manifest, CandidateRoots(manifest, r))
      BY <3>1, <3>2, ClosureHoldsRoots
    <3> QED BY <2>4, <3>3 DEF Candidate
  <2>6. e \in Unresolved(manifest, r)
    BY <2>3, <2>5 DEF Unresolved
  <2>7. e.facts \subseteq res.facts /\ (e.scope => res.scope)
    <3> HIDE DEF e
    <3>1. e.facts \subseteq UNION {f.facts : f \in Unresolved(manifest, r)}
      BY <2>6
    <3>2. e.scope => \E f \in Unresolved(manifest, r) : f.scope
      BY <2>6
    <3> QED BY <1>1, <3>1, <3>2
  <2> QED BY <1>4, <2>1, <2>2, <2>7 DEF Better, Truth
<1>8. CandidateRoots(manifest, a) = {}
  BY <1>6, <1>7 DEF CandidateRoots
<1>9. Candidate(manifest, a) = {}
  <2>1. Closed(manifest, {})
    BY DEF Closed
  <2>2. addClosure(manifest, {}) \subseteq {}
    BY <2>1, ClosureIsLeast
  <2> QED BY <1>8, <2>2 DEF Candidate
<1>10. Required(manifest, a) \cup Candidate(manifest, a) = Required(manifest, a)
  BY <1>9
<1> QED BY <1>3, <1>9, <1>10 DEF ResolutionState

(* Every request that was resolved is one of those a call may ask.         *)
Asking ==
  /\ Answers
  /\ \A c \in Callers : calls[c].asks \in DOMAIN Requests
  /\ \A c \in Callers : resolution[c] # Unresolvable => Whole(request[c])

LEMMA AskingInit == Init => Asking
BY AnswersInit, CasesAssumption DEF Init, Asking

LEMMA AskingNext == Asking /\ [Next]_vars => Asking'
<1> SUFFICES ASSUME Asking, [Next]_vars PROVE Asking'
  OBVIOUS
<1>1. Answers'
  BY AnswersNext DEF Asking
<1>2. CASE UNCHANGED <<manifest, asked, calls>>
  BY <1>1, <1>2 DEF Asking, asked
<1>3. ASSUME NEW c \in Callers, Resolve(c)
      PROVE  Asking'
  <2>1. PICK r \in Requests[calls[c].asks] :
          /\ request' = [request EXCEPT ![c] = r]
          /\ resolution' = [resolution EXCEPT ![c] = resolvePolicies(manifest, r)]
    BY <1>3 DEF Resolve
  <2>2. calls' = calls
    BY <1>3 DEF Resolve, fixed
  <2>3. Whole(r)
    BY <2>1, RequestsAssumption DEF Asking, Whole
  <2>4. ASSUME NEW d \in Callers, resolution'[d] # Unresolvable
        PROVE  Whole(request'[d])
    <3>1. CASE d = c
      BY <2>1, <2>3, <3>1 DEF Asking, Answers
    <3>2. CASE d # c
      <4>1. resolution'[d] = resolution[d] /\ request'[d] = request[d]
        BY <2>1, <3>2 DEF Asking, Answers
      <4> QED BY <2>4, <4>1 DEF Asking
    <3> QED BY <3>1, <3>2
  <2>5. Unresolvable' = Unresolvable
    BY DEF Unresolvable, invalidResolution
  <2> QED BY <1>1, <2>2, <2>4, <2>5 DEF Asking
<1>4. calls' = calls
  BY DEF Next, vars, fixed, Prepare, PreloadInspect, Resolve, Check, Inspect,
         Load, Read, WriteHead, WriteTail, Unlink, Relink, Changed
<1>5. CASE ~\E c \in Callers : Resolve(c)
  BY <1>2, <1>4, <1>5, OthersAskNothing
<1> QED BY <1>3, <1>5

(***************************************************************************)
(* Finding out exactly what a resolution says is unresolved is enough: the *)
(* next resolution asks for nothing more (resolve.ts:264-282).             *)
(***************************************************************************)
THEOREM AnswersAreEnough == Spec => []AskedIsEnough
<1>1. Asking => AskedIsEnough
  <2> SUFFICES ASSUME Asking, NEW c \in Callers, Resolved(c),
                      NEW world \in Worlds, TrueTo(request[c], world)
               PROVE  LET answered == Answered(request[c], resolution[c], world)
                      IN  /\ validateResolveRequest(answered)
                          /\ ResolutionState(manifest, answered)
                               \in {"ready", "conflict"}
    BY DEF AskedIsEnough
  <2>1. /\ resolution[c] # Unresolvable
        /\ validatePolicyManifest(manifest)
        /\ validateResolveRequest(request[c])
        /\ resolution[c] = resolveValidatedRequest(manifest, request[c])
    BY ResolvedIsAnswer DEF Asking
  <2> QED BY <2>1, AnswersSettle DEF Asking
<1> QED BY <1>1, AskingInit, AskingNext, PTL DEF Spec

(***************************************************************************)
(* The order of the ids. The loop's passes are a function of their number; *)
(* that each adds the next id, in its place, is shown for all of them by   *)
(* looking at the first pass that would not. There is always a ready id    *)
(* because a valid manifest has no cycle: of the ids left, one whose       *)
(* closure is smallest requires none of them.                              *)
(***************************************************************************)
LEMMA LeastNumber ==
  ASSUME NEW T \in SUBSET Nat, T # {}
  PROVE  \E n \in T : \A m \in T : n <= m
<1> DEFINE R == OpToRel(<, Nat)
<1>1. PICK n \in T : \A m \in T : ~(<<m, n>> \in R)
  <2>1. IsWellFoundedOn(R, Nat)
    BY NatLessThanWellFounded
  <2> HIDE DEF R
  <2> QED BY <2>1, WFMin
<1>2. \A m \in T : ~(m < n)
  BY <1>1 DEF OpToRel
<1> QED BY <1>2

LEMMA LeastSubset ==
  ASSUME NEW S, IsFiniteSet(S), NEW T \in SUBSET (SUBSET S), T # {}
  PROVE  \E s \in T : \A t \in T : t \subseteq s => t = s
<1>1. T \subseteq FiniteSubsetsOf(S)
  BY FS_FiniteSubsetsOfFinite
<1>2. PICK s \in T : \A t \in T : ~(<<t, s>> \in StrictSubsetOrdering(S))
  BY <1>1, FS_StrictSubsetOrderingWellFounded, WFMin
<1> QED BY <1>2 DEF StrictSubsetOrdering

(* The passes of the loop, up to the n-th.                                 *)
Passes(order, n, ids, requires) ==
  order = [i \in 0..n |->
            IF i = 0 THEN <<>> ELSE Extended(order[i - 1], ids, requires)]

LEMMA PassesExist ==
  ASSUME NEW ids, NEW requires
  PROVE  \A n \in Nat : \E order : Passes(order, n, ids, requires)
<1> DEFINE T == {n \in Nat : ~\E order : Passes(order, n, ids, requires)}
<1> SUFFICES ASSUME T # {} PROVE FALSE
  OBVIOUS
<1>1. PICK n \in T : \A m \in T : n <= m
  <2> HIDE DEF T
  <2>1. T \in SUBSET Nat
    BY DEF T
  <2> QED BY <2>1, LeastNumber
<1>2. CASE n = 0
  <2> DEFINE order == [i \in 0..0 |-> <<>>]
  <2>1. order = [i \in 0..0 |-> IF i = 0 THEN <<>>
                                ELSE Extended(order[i - 1], ids, requires)]
    OBVIOUS
  <2>2. Passes(order, 0, ids, requires)
    BY <2>1 DEF Passes
  <2> QED BY <1>2, <2>2
<1>3. CASE n # 0
  <2>1. n - 1 \in Nat /\ n - 1 \notin T
    BY <1>1, <1>3
  <2>2. PICK few : Passes(few, n - 1, ids, requires)
    BY <2>1
  <2> DEFINE order == [i \in 0..n |-> IF i = n THEN Extended(few[n - 1], ids, requires)
                                      ELSE few[i]]
  <2>3. ASSUME NEW i \in 0..n
        PROVE  order[i] = IF i = 0 THEN <<>>
                          ELSE Extended(order[i - 1], ids, requires)
    <3>1. CASE i = n
      <4>1. order[n - 1] = few[n - 1]
        BY <2>1
      <4> QED BY <1>3, <3>1, <4>1
    <3>2. CASE i # n /\ i # 0
      <4>1. i \in 0..(n - 1) /\ i - 1 \in 0..n /\ i - 1 # n
        BY <2>1, <3>2
      <4>2. few[i] = Extended(few[i - 1], ids, requires)
        BY <2>2, <3>2, <4>1 DEF Passes
      <4> QED BY <3>2, <4>1, <4>2
    <3>3. CASE i # n /\ i = 0
      <4>1. few[0] = <<>>
        BY <2>1, <2>2 DEF Passes
      <4> QED BY <3>3, <4>1
    <3> QED BY <3>1, <3>2, <3>3
  <2>4. Passes(order, n, ids, requires)
    <3>1. order = [i \in 0..n |-> order[i]]
      OBVIOUS
    <3> HIDE DEF order
    <3> QED BY <2>3, <3>1 DEF Passes
  <2> QED BY <2>4
<1> QED BY <1>2, <1>3

LEMMA OrderOfPasses ==
  ASSUME NEW ids, NEW requires, Cardinality(ids) \in Nat
  PROVE  \E order : /\ Passes(order, Cardinality(ids), ids, requires)
                    /\ stableTopologicalOrder(ids, requires) = order[Cardinality(ids)]
<1> DEFINE order == CHOOSE order :
                      Passes(order, Cardinality(ids), ids, requires)
<1>1. Passes(order, Cardinality(ids), ids, requires)
  BY PassesExist
<1>2. stableTopologicalOrder(ids, requires) = order[Cardinality(ids)]
  BY DEF stableTopologicalOrder, Passes
<1> QED BY <1>1, <1>2

(* Every part of the ids has one that requires none of that part.          *)
Grounded(ids, requires) ==
  \A part \in SUBSET ids :
    part # {} => \E id \in part : requires[id] \cap part = {}

LEMMA ManifestIsGrounded ==
  ASSUME NEW m, "requires" \in DOMAIN m, m = [k \in DOMAIN m |-> m[k]],
         IsFiniteSet(m.policies), validateRelations(m), ~detectCycle(m),
         NEW ids \in SUBSET m.policies
  PROVE  Grounded(ids, m.requires)
<1> DEFINE C(id) == addClosure(m, m.requires[id])
<1>1. ASSUME NEW id \in m.policies
      PROVE  id \notin C(id)
  <2> DEFINE graph == [m EXCEPT !.requires =
                         [d \in m.policies |-> @[d] \cap m.policies]]
  <2>1. graph.policies = m.policies
    OBVIOUS
  <2>2. \A d \in m.policies : graph.requires[d] = m.requires[d]
    BY DEF validateRelations
  <2>3. id \notin addClosure(graph, graph.requires[id])
    BY <1>1 DEF detectCycle
  <2> HIDE DEF graph
  <2>4. \A some \in SUBSET m.policies : Closed(m, some) <=> Closed(graph, some)
    BY <2>2 DEF Closed
  <2>5. addClosure(graph, graph.requires[id]) = C(id)
    BY <2>1, <2>2, <2>4 DEF addClosure
  <2> QED BY <2>3, <2>5
<1> SUFFICES ASSUME NEW part \in SUBSET ids, part # {},
                    \A id \in part : m.requires[id] \cap part # {}
             PROVE  FALSE
  BY DEF Grounded
<1> HIDE DEF C
<1> DEFINE T == {C(id) : id \in part}
<1>2. PICK least \in T : \A some \in T : some \subseteq least => some = least
  <2>1. \A id \in part : C(id) \in SUBSET m.policies
    BY DEF addClosure, C
  <2>2. T \in SUBSET (SUBSET m.policies) /\ T # {}
    BY <2>1
  <2> HIDE DEF T
  <2> QED BY <2>2, LeastSubset
<1>3. PICK id \in part : least = C(id)
  BY <1>2
<1>5. PICK d : d \in m.requires[id] /\ d \in part
  OBVIOUS
<1>6. /\ m.requires[id] \subseteq m.policies /\ m.requires[d] \subseteq m.policies
      /\ id \in m.policies /\ d \in m.policies
  BY <1>5 DEF validateRelations
<1>7. /\ d \in C(id) /\ C(id) \subseteq m.policies /\ Closed(m, C(id))
  BY <1>5, <1>6, ClosureHoldsRoots, ClosureIsClosed DEF C
<1>8. C(d) \subseteq C(id)
  <2>1. m.requires[d] \subseteq C(id)
    BY <1>7 DEF Closed
  <2> QED BY <1>7, <2>1, ClosureIsLeast DEF C
<1>9. C(d) # C(id)
  BY <1>1, <1>6, <1>7
<1> QED BY <1>2, <1>3, <1>5, <1>8, <1>9

(* A sequence of ids without duplicates, each after what it requires.      *)
Sorted(s, ids, requires) ==
  /\ s \in Seq(ids)
  /\ \A i, j \in 1..Len(s) : s[i] = s[j] => i = j
  /\ \A i \in 1..Len(s) : \A id \in requires[s[i]] \cap ids :
       \E k \in 1..(i - 1) : s[k] = id

LEMMA ExtendedIsSorted ==
  ASSUME NEW ids, IsFiniteSet(ids), ids \subseteq Nat, NEW requires,
         Grounded(ids, requires), NEW s, Sorted(s, ids, requires),
         Len(s) < Cardinality(ids)
  PROVE  /\ Sorted(Extended(s, ids, requires), ids, requires)
         /\ Len(Extended(s, ids, requires)) = Len(s) + 1
<1> DEFINE done == ToSet(s)
           part == ids \ done
           ready == {id \in part : requires[id] \cap ids \subseteq done}
<1>0. s \in Seq(ids) /\ Len(s) \in Nat /\ DOMAIN s = 1..Len(s)
  BY DEF Sorted
<1>1. /\ done \subseteq ids
      /\ \A id : id \in done <=> \E i \in 1..Len(s) : s[i] = id
  BY <1>0 DEF ToSet
<1>2. part # {}
  <2> SUFFICES ASSUME ids \subseteq done PROVE FALSE
    OBVIOUS
  <2>1. s \in Surjection(1..Len(s), done)
    BY <1>0, <1>1 DEF Surjection
  <2>2. IsFiniteSet(1..Len(s)) /\ Cardinality(1..Len(s)) = Len(s)
    BY <1>0, FS_Interval
  <2>3. Cardinality(done) <= Len(s)
    BY <2>1, <2>2, FS_Surjection
  <2>4. done = ids
    BY <1>1
  <2>5. Cardinality(ids) \in Nat
    BY FS_CardinalityType
  <2> QED BY <1>0, <2>3, <2>4, <2>5
<1>3. ready # {}
  <2>1. PICK id \in part : requires[id] \cap part = {}
    BY <1>2 DEF Grounded
  <2> QED BY <2>1
<1> DEFINE next == Min(ready)
<1>4. next \in ready
  <2>1. ready \in SUBSET Nat
    OBVIOUS
  <2> HIDE DEF ready
  <2>2. \E n \in ready : \A m \in ready : n <= m
    BY <1>3, <2>1, LeastNumber
  <2> QED BY <2>2 DEF Min
<1> DEFINE more == Append(s, next)
<1>5. Extended(s, ids, requires) = more
  BY <1>3 DEF Extended
<1>6. next \in ids /\ next \notin done /\ requires[next] \cap ids \subseteq done
  <2> HIDE DEF next
  <2> QED BY <1>4
<1> HIDE DEF next, done, ready
<1>7. /\ more \in Seq(ids) /\ Len(more) = Len(s) + 1
      /\ \A i \in 1..Len(s) : more[i] = s[i]
      /\ more[Len(s) + 1] = next
  BY <1>0, <1>6, AppendProperties
<1> HIDE DEF more
<1>8. ASSUME NEW i \in 1..Len(more), NEW j \in 1..Len(more), more[i] = more[j]
      PROVE  i = j
  <2>1. CASE i <= Len(s) /\ j <= Len(s)
    BY <1>0, <1>7, <1>8, <2>1 DEF Sorted
  <2>2. CASE i = Len(s) + 1 /\ j <= Len(s)
    BY <1>0, <1>1, <1>6, <1>7, <1>8, <2>2
  <2>3. CASE i <= Len(s) /\ j = Len(s) + 1
    BY <1>0, <1>1, <1>6, <1>7, <1>8, <2>3
  <2>4. CASE i = Len(s) + 1 /\ j = Len(s) + 1
    BY <2>4
  <2> QED BY <1>0, <1>7, <2>1, <2>2, <2>3, <2>4
<1>9. ASSUME NEW i \in 1..Len(more), NEW id \in requires[more[i]] \cap ids
      PROVE  \E k \in 1..(i - 1) : more[k] = id
  <2>1. CASE i <= Len(s)
    <3>1. i \in 1..Len(s) /\ more[i] = s[i]
      BY <1>0, <1>7, <2>1
    <3>2. PICK k \in 1..(i - 1) : s[k] = id
      BY <1>9, <3>1 DEF Sorted
    <3>3. k \in 1..Len(s)
      BY <1>0, <3>1
    <3> QED BY <1>7, <3>2, <3>3
  <2>2. CASE i = Len(s) + 1
    <3>1. id \in done
      BY <1>6, <1>7, <1>9, <2>2
    <3>2. PICK k \in 1..Len(s) : s[k] = id
      BY <1>1, <3>1
    <3> QED BY <1>0, <1>7, <2>2, <3>2
  <2> QED BY <1>0, <1>7, <2>1, <2>2
<1>10. Sorted(more, ids, requires)
  BY <1>7, <1>8, <1>9 DEF Sorted
<1> QED BY <1>5, <1>7, <1>10

LEMMA OrderIsSorted ==
  ASSUME NEW ids, IsFiniteSet(ids), ids \subseteq Nat, NEW requires,
         Grounded(ids, requires), NEW s, s = stableTopologicalOrder(ids, requires)
  PROVE  /\ Sorted(s, ids, requires) /\ ToSet(s) = ids
<1> DEFINE N == Cardinality(ids)
<1>1. N \in Nat
  BY FS_CardinalityType
<1>2. PICK order : Passes(order, N, ids, requires) /\ s = order[N]
  BY <1>1, OrderOfPasses
<1> DEFINE Good(n) == Sorted(order[n], ids, requires) /\ Len(order[n]) = n
           T == {n \in 0..N : ~Good(n)}
<1>3. T = {}
  <2> SUFFICES ASSUME T # {} PROVE FALSE
    OBVIOUS
  <2>1. PICK n \in T : \A m \in T : n <= m
    <3>1. T \in SUBSET Nat
      BY <1>1
    <3> HIDE DEF T
    <3> QED BY <3>1, LeastNumber
  <2>2. CASE n = 0
    <3>1. order[0] = <<>>
      BY <1>1, <1>2 DEF Passes
    <3>2. Good(0)
      BY <3>1 DEF Sorted
    <3> QED BY <2>1, <2>2, <3>2
  <2>3. CASE n # 0
    <3>1. n - 1 \in 0..N /\ n - 1 \notin T
      BY <1>1, <2>1, <2>3
    <3>2. Good(n - 1)
      BY <3>1
    <3>3. order[n] = Extended(order[n - 1], ids, requires)
      BY <1>1, <1>2, <2>1, <2>3 DEF Passes
    <3>4. n - 1 < N
      BY <1>1, <2>1
    <3>5. Good(n)
      <4>1. PICK few : few = order[n - 1]
        OBVIOUS
      <4>2. Sorted(few, ids, requires) /\ Len(few) < Cardinality(ids)
        BY <3>2, <3>4, <4>1
      <4>3. /\ Sorted(Extended(few, ids, requires), ids, requires)
            /\ Len(Extended(few, ids, requires)) = Len(few) + 1
        BY <4>2, ExtendedIsSorted
      <4> QED BY <2>1, <3>2, <3>3, <4>1, <4>3
    <3> QED BY <2>1, <3>5
  <2> QED BY <2>2, <2>3
<1>4. Sorted(s, ids, requires) /\ Len(s) = N
  BY <1>1, <1>2, <1>3
<1>5. ToSet(s) = ids
  <2>1. s \in [1..N -> ids] /\ DOMAIN s = 1..N
    BY <1>4 DEF Sorted
  <2>2. s \in Injection(1..N, ids)
    BY <1>4, <2>1 DEF Sorted, Injection, IsInjective
  <2>3. IsFiniteSet(1..N) /\ Cardinality(1..N) = N
    BY <1>1, FS_Interval
  <2>4. s \in Surjection(1..N, ids)
    BY <2>2, <2>3, FS_Injection
  <2> QED BY <2>1, <2>4 DEF Surjection, ToSet
<1> QED BY <1>4, <1>5

LEMMA OrderKeepsRequirements ==
  ASSUME NEW ids, NEW requires, NEW s, Sorted(s, ids, requires), ToSet(s) = ids,
         NEW i \in DOMAIN s, NEW j \in DOMAIN s, s[j] \in requires[s[i]]
  PROVE  j < i
<1>1. s \in Seq(ids) /\ DOMAIN s = 1..Len(s) /\ Len(s) \in Nat
  BY DEF Sorted
<1>2. s[j] \in ids
  BY <1>1
<1>3. PICK k \in 1..(i - 1) : s[k] = s[j]
  BY <1>1, <1>2 DEF Sorted
<1>4. k \in 1..Len(s) /\ k < i
  BY <1>1
<1>5. k = j
  BY <1>1, <1>3, <1>4 DEF Sorted
<1> QED BY <1>4, <1>5

(* The manifest of a case stays the manifest.                              *)
Tidy ==
  /\ manifest = [k \in ManifestFields |-> manifest[k]]
  /\ manifest.policies \subseteq Nat
  /\ IsFiniteSet(manifest.policies)

LEMMA TidyNext == Tidy /\ [Next]_vars => Tidy'
<1>1. [Next]_vars => UNCHANGED manifest
  BY DEF Next, vars, fixed, Prepare, PreloadInspect, Resolve, Check, Inspect,
         Load, Read, WriteHead, WriteTail, Unlink, Relink, Changed
<1> QED BY <1>1 DEF Tidy, ManifestFields

LEMMA OrdersAreRight ==
  ASSUME Answers, Tidy
  PROVE  RequirementsFirst
<1> SUFFICES ASSUME NEW c \in Callers, Resolved(c),
                    NEW ids \in {resolution[c].required, resolution[c].candidate}
             PROVE  LET order == Ordered(manifest, ids) IN
                    /\ ToSet(order) = ids
                    /\ \A i, j \in DOMAIN order :
                         order[j] \in manifest.requires[order[i]] => j < i
  BY DEF RequirementsFirst
<1>1. /\ validatePolicyManifest(manifest)
      /\ resolution[c] = resolveValidatedRequest(manifest, request[c])
  BY ResolvedIsAnswer
<1>2. ids \in SUBSET manifest.policies
  BY <1>1 DEF resolveValidatedRequest, Required, Candidate, addClosure
<1>3. Grounded(ids, manifest.requires)
  BY <1>1, <1>2, ManifestIsGrounded DEF Tidy, ManifestFields, validatePolicyManifest
<1>4. IsFiniteSet(ids) /\ ids \subseteq Nat
  BY <1>2, FS_Subset DEF Tidy
<1> DEFINE order == Ordered(manifest, ids)
<1>5. Sorted(order, ids, manifest.requires) /\ ToSet(order) = ids
  BY <1>3, <1>4, OrderIsSorted DEF Ordered
<1> HIDE DEF order
<1>6. \A i, j \in DOMAIN order :
        order[j] \in manifest.requires[order[i]] => j < i
  BY <1>5, OrderKeepsRequirements
<1> QED BY <1>5, <1>6 DEF order

(***************************************************************************)
(* What a resolution answers is all the caller needs to go on: finding out *)
(* what it says is unresolved is enough (resolve.ts:264-282), and the      *)
(* policies it names come in full, each after those of them it requires    *)
(* (relations.ts:7-56).                                                    *)
(***************************************************************************)
THEOREM ResolutionsAreUsable == Spec => []ResolutionUsable
<1>1. Asking => Answers
  BY DEF Asking
<1>2. Init => Tidy
  BY CasesAssumption DEF Init, Tidy
<1>3. Answers /\ Tidy => RequirementsFirst
  BY OrdersAreRight
<1>4. AskedIsEnough /\ RequirementsFirst => ResolutionUsable
  BY DEF ResolutionUsable
<1>5. Spec => [](Answers /\ Tidy)
  BY <1>1, <1>2, AskingInit, AskingNext, TidyNext, PTL DEF Spec
<1> QED BY <1>3, <1>4, <1>5, AnswersAreEnough, PTL

(***************************************************************************)
(* A session. What keeps its versions apart from the edits: a source is    *)
(* read for it only while it has none (ReadOnce), its calls read nothing   *)
(* themselves (NoOwnReads), and what they hold is what it keeps            *)
(* (FromCache). A preload starts reads only before anything was kept       *)
(* (Fresh), because calls wait until the session is open (AfterOpening).   *)
(***************************************************************************)
SessionCalls == {c \in Callers : Mode(c) = "session"}

CallFields == {"pc", "todo", "total", "failed", "looked", "docs"}

CallShape(r) ==
  /\ r = [k \in CallFields |-> r[k]]
  /\ r.docs = [s \in Sources |-> r.docs[s]]

Shape ==
  /\ cache = [s \in Sources |-> cache[s]]
  /\ reads = [x \in Readers |-> reads[x]]
  /\ session = [pc |-> session.pc, todo |-> session.todo,
                failed |-> session.failed, looked |-> session.looked]
  /\ call = [c \in Callers |-> call[c]]
  /\ \A c \in Callers : CallShape(call[c])

Busy(c) == call[c].pc \in {"inspect", "load", "await"}

(* What a call still has to do is something, of what is selected for it.   *)
Todo ==
  /\ \A id \in manifest.policies : manifest.source[id] \in Sources
  /\ manifest.documents \subseteq Sources
  /\ resolution = [c \in Callers |-> resolution[c]]
  /\ \A c \in Callers :
       /\ resolution[c].required \cup resolution[c].candidate
            \subseteq manifest.policies
       /\ call[c].todo \subseteq Selected(c)
       /\ Busy(c) => call[c].todo # {}

Fresh ==
  session.pc \in {"unprepared", "inspecting"} =>
    \A s \in Sources : cache[s] = Gone /\ reads[s].stage = "none"

AfterOpening ==
  \A c \in SessionCalls : call[c].pc # "idle" => session.pc = "open"

NoOwnReads == \A c \in SessionCalls : reads[c].stage = "none"

ReadOnce == \A s \in Sources : reads[s].stage # "none" => cache[s] = Gone

FromCache ==
  \A c \in SessionCalls, s \in Sources :
    call[c].docs[s] # Gone => call[c].docs[s] = cache[s]

Keeping ==
  /\ Shape /\ Todo /\ Fresh /\ AfterOpening
  /\ NoOwnReads /\ ReadOnce /\ FromCache

LEMMA KeepingInit == Init => Keeping
<1> SUFFICES ASSUME Init
             PROVE  Keeping
  OBVIOUS
<1>1. Shape
  BY DEF Init, Shape, CallShape, CallFields
<1>2. Todo
  BY CasesAssumption DEF Init, Todo, Busy, Unresolvable, invalidResolution
<1>3. Fresh /\ NoOwnReads /\ ReadOnce
  BY DEF Init, Fresh, NoOwnReads, ReadOnce, SessionCalls, Readers, NoRead
<1>4. AfterOpening /\ FromCache
  BY DEF Init, AfterOpening, FromCache, SessionCalls
<1> QED BY <1>1, <1>2, <1>3, <1>4 DEF Keeping

LEMMA KeepingGives == Keeping => OneVersion
BY DEF Keeping, FromCache, OneVersion, SessionCalls

(* What is selected follows from the resolution and what never changes.    *)
LEMMA SelectedAfter ==
  ASSUME NEW c, UNCHANGED <<manifest, calls>>
  PROVE  SelectedBy(c, resolution'[c]) = Selected(c)'
BY DEF Selected, SelectedBy, SourcesOf, Mode

(* What is selected for a call are sources.                                *)
LEMMA SelectedAreSources ==
  ASSUME Todo, NEW c \in Callers
  PROVE  /\ Selected(c) \subseteq Sources
         /\ Busy(c) => /\ Min(call[c].todo) \in call[c].todo
                        /\ Min(call[c].todo) \in Sources
<1>1. SourcesOf(manifest.policies) \cup manifest.documents \subseteq Sources
  BY DEF Todo, SourcesOf
<1>2. SourcesOf(resolution[c].required \cup resolution[c].candidate)
        \subseteq Sources
  BY DEF Todo, SourcesOf
<1>3. Selected(c) \subseteq Sources
  BY <1>1, <1>2 DEF Selected, SelectedBy
<1>4. Busy(c) => call[c].todo # {} /\ call[c].todo \subseteq Sources
  BY <1>3 DEF Todo
<1>5. \A some \in SUBSET Sources : some # {} => Min(some) \in some
  BY RanksAssumption
<1> QED BY <1>3, <1>4, <1>5

(* Everything rests on these, so a step that leaves them keeps it all.     *)
LEMMA KeepingStays ==
  ASSUME Keeping, UNCHANGED <<fixed, session, cache, reads, asked, call>>
  PROVE  Keeping'
<1>1. UNCHANGED <<manifest, calls, resolution, session, cache, reads, call>>
  BY DEF fixed, asked
<1>2. SessionCalls' = SessionCalls
  BY <1>1 DEF SessionCalls, Mode
<1>3. \A c \in Callers : Selected(c)' = Selected(c)
  BY <1>1 DEF Selected, SelectedBy, SourcesOf, Mode
<1>4. Shape' /\ Fresh'
  BY <1>1 DEF Keeping, Shape, CallShape, Fresh
<1>5. Todo'
  BY <1>1, <1>3 DEF Keeping, Todo, Busy
<1>6. AfterOpening' /\ NoOwnReads' /\ ReadOnce' /\ FromCache'
  BY <1>1, <1>2 DEF Keeping, AfterOpening, NoOwnReads, ReadOnce, FromCache
<1> QED BY <1>4, <1>5, <1>6 DEF Keeping

(***************************************************************************)
(* What a step does to the calls of a session is one of two things: it     *)
(* leaves what the call holds, or hands it one source more.                *)
(***************************************************************************)
LEMMA PrepareKeeps ==
  ASSUME Keeping, Prepare
  PROVE  Keeping'
<1>1. /\ session.pc = "unprepared"
      /\ UNCHANGED <<manifest, calls, resolution, cache, reads, call>>
      /\ session' = [session EXCEPT !.todo = session'.todo, !.pc = session'.pc]
  BY DEF Prepare, fixed, asked, Keeping, Shape
<1>2. SessionCalls' = SessionCalls
  BY <1>1 DEF SessionCalls, Mode
<1>3. \A c \in Callers : Selected(c)' = Selected(c)
  BY <1>1 DEF Selected, SelectedBy, SourcesOf, Mode
<1>4. Shape'
  BY <1>1 DEF Keeping, Shape, CallShape
<1>5. Todo'
  BY <1>1, <1>3 DEF Keeping, Todo, Busy
<1>6. Fresh'
  BY <1>1 DEF Keeping, Fresh
<1>7. AfterOpening'
  BY <1>1, <1>2 DEF Keeping, AfterOpening
<1>8. NoOwnReads' /\ ReadOnce' /\ FromCache'
  BY <1>1, <1>2 DEF Keeping, NoOwnReads, ReadOnce, FromCache
<1> QED BY <1>4, <1>5, <1>6, <1>7, <1>8 DEF Keeping

LEMMA PreloadInspectKeeps ==
  ASSUME Keeping, NEW s \in Sources, PreloadInspect(s)
  PROVE  Keeping'
<1>1. /\ session.pc = "inspecting"
      /\ UNCHANGED <<manifest, calls, resolution, cache, call>>
      /\ session'.pc \in {"inspecting", "refused", "reading"}
      /\ session' = [pc |-> session'.pc, todo |-> session'.todo,
                     failed |-> session'.failed, looked |-> session'.looked]
  BY DEF PreloadInspect, fixed, asked
<1> DEFINE looked == [session.looked EXCEPT ![s] = IF Inspected(s) THEN Look(s) ELSE @]
           begun == [x \in Readers |-> IF x \in SourcesOf(manifest.policies)
                                       THEN Begun(looked[x]) ELSE reads[x]]
<1>0. reads' = IF session'.pc = "reading" THEN begun ELSE reads
  BY ZenonT(30) DEF PreloadInspect
<1>2. reads' = reads \/ (session'.pc = "reading" /\ reads' = begun)
  BY <1>0
<1>3. SessionCalls' = SessionCalls
  BY <1>1 DEF SessionCalls, Mode
<1>4. \A c \in Callers : Selected(c)' = Selected(c)
  BY <1>1 DEF Selected, SelectedBy, SourcesOf, Mode
<1>5. Shape'
  BY <1>1, <1>2 DEF Keeping, Shape, CallShape
<1>6. Todo'
  BY <1>1, <1>4 DEF Keeping, Todo, Busy
<1>7. \A x \in Sources : cache'[x] = Gone
  BY <1>1 DEF Keeping, Fresh
<1>8. Fresh'
  BY <1>1, <1>2 DEF Keeping, Fresh
<1>9. ReadOnce'
  BY <1>7 DEF ReadOnce
<1>10. AfterOpening' /\ FromCache'
  BY <1>1, <1>3 DEF Keeping, AfterOpening, FromCache
<1>11. NoOwnReads'
  <2>1. SourcesOf(manifest.policies) \subseteq Sources
    BY DEF Keeping, Todo, SourcesOf
  <2>2. ASSUME NEW c \in SessionCalls
        PROVE  reads'[c] = reads[c]
    <3>1. c \in Readers /\ c \notin SourcesOf(manifest.policies)
      BY <2>1, RanksAssumption DEF SessionCalls, Readers
    <3> QED BY <1>2, <3>1
  <2> QED BY <1>3, <2>2 DEF Keeping, NoOwnReads
<1> QED BY <1>5, <1>6, <1>8, <1>9, <1>10, <1>11 DEF Keeping

(* Resolving, being refused, and entering a check: the call's progress is  *)
(* all that changes, with what is selected for it.                         *)
LEMMA EntersKeeps ==
  ASSUME Keeping, NEW c \in Callers, NEW refused, NEW sources,
         Entered(c, refused, sources),
         call[c].pc = "idle", Mode(c) = "session" => session.pc = "open",
         UNCHANGED <<manifest, calls, session, cache, reads>>,
         resolution' = [d \in Callers |-> resolution'[d]],
         \A d \in Callers \ {c} : resolution'[d] = resolution[d],
         resolution'[c].required \cup resolution'[c].candidate
           \subseteq manifest.policies,
         sources = Selected(c)'
  PROVE  Keeping'
<1>1. /\ call' = [d \in Callers |-> call'[d]]
      /\ \A d \in Callers \ {c} : call'[d] = call[d]
      /\ CallShape(call'[c])
      /\ call'[c].docs = call[c].docs
      /\ call'[c].todo = sources
      /\ call'[c].pc \in {"failed", "complete", "inspect"}
      /\ call'[c].pc = "inspect" => sources # {}
  <2> DEFINE pc == IF refused THEN "failed"
                   ELSE IF sources = {} THEN "complete" ELSE "inspect"
  <2>1. PICK entered : /\ entered = [call[c] EXCEPT !.todo = sources, !.pc = pc]
                       /\ call' = [call EXCEPT ![c] = entered]
    BY DEF Entered
  <2>2. CallShape(call[c]) /\ call = [d \in Callers |-> call[d]]
    BY DEF Keeping, Shape
  <2>3. /\ CallShape(entered) /\ entered.docs = call[c].docs
        /\ entered.todo = sources /\ entered.pc = pc
    <3>1. entered = [k \in CallFields |-> entered[k]]
      BY <2>1, <2>2 DEF CallShape, CallFields
    <3>2. entered.docs = call[c].docs
      BY <2>1, <2>2 DEF CallShape, CallFields
    <3>3. entered.todo = sources /\ entered.pc = pc
      BY <2>1, <2>2 DEF CallShape, CallFields
    <3> QED BY <2>2, <3>1, <3>2, <3>3 DEF CallShape
  <2>4. /\ call'[c] = entered
        /\ \A d \in Callers \ {c} : call'[d] = call[d]
        /\ call' = [d \in Callers |-> call'[d]]
    BY <2>1, <2>2
  <2> QED BY <2>3, <2>4
<1>2. SessionCalls' = SessionCalls
  BY DEF SessionCalls, Mode
<1>3. \A d \in Callers \ {c} : Selected(d)' = Selected(d)
  BY DEF Selected, SelectedBy, SourcesOf, Mode
<1>4. Shape'
  BY <1>1 DEF Keeping, Shape, CallShape
<1>5. Todo'
  BY <1>1, <1>3 DEF Keeping, Todo, Busy
<1>6. Fresh' /\ NoOwnReads' /\ ReadOnce'
  BY <1>2 DEF Keeping, Fresh, NoOwnReads, ReadOnce
<1>7. AfterOpening'
  BY <1>1, <1>2 DEF Keeping, AfterOpening, SessionCalls
<1>8. FromCache'
  BY <1>1, <1>2 DEF Keeping, FromCache, SessionCalls
<1> QED BY <1>4, <1>5, <1>6, <1>7, <1>8 DEF Keeping

LEMMA ResolveKeeps ==
  ASSUME Keeping, NEW c \in Callers, Resolve(c)
  PROVE  Keeping'
<1>1. PICK r :
        /\ call[c].pc = "idle" /\ (Mode(c) = "session" => session.pc = "open")
        /\ resolution' = [resolution EXCEPT ![c] = resolvePolicies(manifest, r)]
        /\ Entered(c, resolvePolicies(manifest, r).state = "invalid",
                   SelectedBy(c, resolvePolicies(manifest, r)))
        /\ UNCHANGED <<manifest, calls, session, cache, reads>>
  BY DEF Resolve, fixed
<1>2. /\ resolution' = [d \in Callers |-> resolution'[d]]
      /\ \A d \in Callers \ {c} : resolution'[d] = resolution[d]
      /\ resolution'[c] = resolvePolicies(manifest, r)
  BY <1>1 DEF Keeping, Todo
<1>3. resolution'[c].required \cup resolution'[c].candidate
        \subseteq manifest.policies
  <2>1. CASE resolution'[c] = invalidResolution
    BY <2>1 DEF invalidResolution
  <2>2. CASE resolution'[c] = resolveValidatedRequest(manifest, r)
    BY <2>2 DEF resolveValidatedRequest, Required, Candidate, addClosure
  <2> QED BY <1>2, <2>1, <2>2 DEF resolvePolicies
<1>4. SelectedBy(c, resolvePolicies(manifest, r)) = Selected(c)'
  BY <1>1, <1>2, SelectedAfter
<1> QED BY <1>1, <1>2, <1>3, <1>4, EntersKeeps

LEMMA CheckKeeps ==
  ASSUME Keeping, NEW c \in Callers, Check(c)
  PROVE  Keeping'
<1>1. /\ call[c].pc = "idle" /\ Mode(c) # "session"
      /\ Entered(c, ~validatePolicyManifest(manifest), Selected(c))
      /\ UNCHANGED <<manifest, calls, resolution, session, cache, reads>>
  BY DEF Check, fixed, asked
<1>2. /\ resolution' = [d \in Callers |-> resolution'[d]]
      /\ \A d \in Callers \ {c} : resolution'[d] = resolution[d]
      /\ resolution'[c].required \cup resolution'[c].candidate
           \subseteq manifest.policies
  BY <1>1 DEF Keeping, Todo
<1>3. Selected(c) = Selected(c)'
  BY <1>1 DEF Selected, SelectedBy, SourcesOf, Mode
<1> QED BY <1>1, <1>2, <1>3, EntersKeeps

LEMMA InspectKeeps ==
  ASSUME Keeping, NEW c \in Callers, Inspect(c)
  PROVE  Keeping'
<1>1. /\ call[c].pc = "inspect"
      /\ UNCHANGED <<manifest, calls, resolution, session, cache, reads>>
  BY DEF Inspect, fixed, asked
<1>2. /\ CallShape(call[c]) /\ call = [d \in Callers |-> call[d]]
      /\ call[c].todo # {} /\ call[c].todo \subseteq Selected(c)
  BY <1>1 DEF Keeping, Shape, Todo, Busy
<1> DEFINE s == Min(call[c].todo)
           rest == call[c].todo \ {s}
<1> DEFINE cached == Mode(c) = "session" /\ cache[s] # Gone
           ok == cached \/ Inspected(s)
           look == IF cached \/ ~ok THEN Unseen ELSE Look(s)
           total == call[c].total + IF cached THEN Size(cache[s]) ELSE look.size
           failed == call[c].failed \/ ~ok
           over == total > TotalBytes \/ (~ok /\ Mode(c) # "check")
           pc == IF over THEN "failed"
                 ELSE IF rest # {} THEN "inspect"
                 ELSE IF failed THEN "failed" ELSE "load"
           new == [call[c] EXCEPT
             !.looked[s] = look, !.failed = failed,
             !.todo = IF rest # {} THEN rest ELSE Selected(c),
             !.total = IF rest # {} THEN total ELSE 0,
             !.pc = pc]
<1>3. call' = [call EXCEPT ![c] = new]
  BY DEF Inspect
<1> HIDE DEF cached, ok, look, total, failed, over, pc, rest
<1>4. /\ new = [k \in CallFields |-> new[k]]
  BY <1>2, <1>3 DEF CallShape, CallFields
<1>5. new.docs = call[c].docs /\ new.pc = pc
  BY <1>2, <1>3 DEF CallShape, CallFields
<1>6. new.todo = IF rest # {} THEN rest ELSE Selected(c)
  BY <1>2, <1>3 DEF CallShape, CallFields
<1> HIDE DEF new
<1>7. new.todo # {} /\ new.todo \subseteq Selected(c)
  BY <1>2, <1>6 DEF rest
<1>8. /\ call'[c] = new /\ call' = [d \in Callers |-> call'[d]]
      /\ \A d \in Callers \ {c} : call'[d] = call[d]
  BY <1>2, <1>3
<1>9. CallShape(new)
  BY <1>2, <1>4, <1>5 DEF CallShape
<1>10. SessionCalls' = SessionCalls
  BY <1>1 DEF SessionCalls, Mode
<1>11. \A d \in Callers : Selected(d)' = Selected(d)
  BY <1>1 DEF Selected, SelectedBy, SourcesOf, Mode
<1>12. Shape'
  BY <1>1, <1>8, <1>9 DEF Keeping, Shape, CallShape
<1>13. Todo'
  BY <1>1, <1>7, <1>8, <1>11 DEF Keeping, Todo, Busy
<1>14. Fresh' /\ NoOwnReads' /\ ReadOnce'
  BY <1>1, <1>10 DEF Keeping, Fresh, NoOwnReads, ReadOnce
<1>15. AfterOpening'
  BY <1>1, <1>8, <1>10 DEF Keeping, AfterOpening, SessionCalls
<1>16. FromCache'
  BY <1>1, <1>5, <1>8, <1>10 DEF Keeping, FromCache, SessionCalls
<1> QED BY <1>12, <1>13, <1>14, <1>15, <1>16 DEF Keeping

(* Being handed a source is one source more, and nothing left undone.      *)
OneMore(c, s, content, new) ==
  /\ CallShape(new)
  /\ new.docs = [call[c].docs EXCEPT ![s] = content]
  /\ new.todo \subseteq Selected(c)
  /\ new.pc \in {"failed", "load", "complete"}
  /\ new.pc = "load" => new.todo # {}

LEMMA HandedIsOneMore ==
  ASSUME Keeping, NEW c \in Callers
  PROVE  \A s, content : OneMore(c, s, content, Handed(c, s, content))
<1> SUFFICES ASSUME NEW s, NEW content
             PROVE  OneMore(c, s, content, Handed(c, s, content))
  OBVIOUS
<1>1. /\ CallShape(call[c])
      /\ call[c].todo \subseteq Selected(c)
  BY DEF Keeping, Shape, Todo
<1> DEFINE rest == call[c].todo \ {s}
<1> DEFINE total == call[c].total + Size(content)
           failed == call[c].failed \/ content = Gone
           over == Mode(c) = "session" /\ total > TotalBytes
           pc == IF over THEN "failed"
                 ELSE IF rest # {} THEN "load"
                 ELSE IF failed THEN "failed" ELSE "complete"
           new == [call[c] EXCEPT
                     !.docs[s] = content, !.todo = rest, !.total = total,
                     !.failed = failed, !.pc = pc]
           docs == [call[c].docs EXCEPT ![s] = content]
<1>2. Handed(c, s, content) = new
  BY DEF Handed
<1> HIDE DEF total, failed, over, pc, rest
<1>3. new = [k \in CallFields |-> new[k]]
  BY <1>1, <1>2 DEF CallShape, CallFields
<1>4. new.docs = docs /\ new.pc = pc /\ new.todo = rest
  BY <1>1, <1>2 DEF CallShape, CallFields
<1> HIDE DEF new
<1>5. docs = [t \in Sources |-> docs[t]]
  BY <1>1, <1>2 DEF CallShape
<1>6. CallShape(new)
  BY <1>3, <1>4, <1>5 DEF CallShape
<1> QED BY <1>1, <1>2, <1>4, <1>6 DEF pc, rest, OneMore

LEMMA LoadKeeps ==
  ASSUME Keeping, NEW c \in Callers, Load(c)
  PROVE  Keeping'
<1> DEFINE s == Min(call[c].todo)
           x == IF Mode(c) = "session" THEN s ELSE c
<1>1. /\ call[c].pc = "load"
      /\ UNCHANGED <<manifest, calls, resolution, session, cache>>
  BY DEF Load, fixed, asked
<1>2. /\ CallShape(call[c]) /\ call = [d \in Callers |-> call[d]]
      /\ call[c].todo # {} /\ call[c].todo \subseteq Selected(c)
      /\ s \in Sources /\ Busy(c)
  BY <1>1, SelectedAreSources DEF Keeping, Shape, Todo, Busy
<1>3. SessionCalls' = SessionCalls
  BY <1>1 DEF SessionCalls, Mode
<1>4. \A d \in Callers : Selected(d)' = Selected(d)
  BY <1>1 DEF Selected, SelectedBy, SourcesOf, Mode
<1> HIDE DEF s
<1>5. CASE /\ Mode(c) = "session" /\ cache[s] # Gone
           /\ call' = [call EXCEPT ![c] = Handed(c, s, cache[s])]
           /\ UNCHANGED reads
  <2> DEFINE new == Handed(c, s, cache[s])
  <2>1. OneMore(c, s, cache[s], new)
    BY HandedIsOneMore
  <2> HIDE DEF new
  <2>2. /\ call'[c] = new /\ call' = [d \in Callers |-> call'[d]]
        /\ \A d \in Callers \ {c} : call'[d] = call[d]
    BY <1>2, <1>5 DEF new
  <2>3. Shape'
    BY <1>1, <1>5, <2>1, <2>2 DEF Keeping, Shape, CallShape, OneMore
  <2>4. Todo'
    BY <1>1, <1>4, <2>1, <2>2 DEF Keeping, Todo, Busy, OneMore
  <2>5. Fresh' /\ NoOwnReads' /\ ReadOnce'
    BY <1>1, <1>3, <1>5 DEF Keeping, Fresh, NoOwnReads, ReadOnce
  <2>6. AfterOpening'
    BY <1>1, <1>3, <2>2 DEF Keeping, AfterOpening, SessionCalls
  <2>7. ASSUME NEW d \in SessionCalls, NEW t \in Sources, call'[d].docs[t] # Gone
        PROVE  call'[d].docs[t] = cache'[t]
    <3>1. CASE d = c
      <4>1. call[c].docs = [u \in Sources |-> call[c].docs[u]]
        BY <1>2 DEF CallShape
      <4>2. call'[c].docs[t] = IF t = s THEN cache[s] ELSE call[c].docs[t]
        BY <2>1, <2>2, <4>1 DEF OneMore
      <4> QED BY <1>1, <2>7, <3>1, <4>2 DEF Keeping, FromCache
    <3>2. CASE d # c
      BY <1>1, <2>2, <2>7, <3>2 DEF Keeping, FromCache, SessionCalls
    <3> QED BY <3>1, <3>2
  <2>8. FromCache'
    BY <1>3, <2>7 DEF FromCache
  <2> QED BY <2>3, <2>4, <2>5, <2>6, <2>8 DEF Keeping
<1>6. CASE /\ Mode(c) = "session" => cache[s] = Gone
           /\ call' = [call EXCEPT ![c] = [@ EXCEPT !.pc = "await"]]
           /\ reads' = IF reads[x].stage # "none" THEN reads
                       ELSE [reads EXCEPT ![x] = Begun(call[c].looked[s])]
  <2>1. PICK new : /\ call' = [call EXCEPT ![c] = new]
                   /\ new = [call[c] EXCEPT !.pc = "await"]
    BY <1>6
  <2>2. new = [k \in CallFields |-> new[k]]
    BY <1>2, <2>1 DEF CallShape, CallFields
  <2>3. new.docs = call[c].docs /\ new.pc = "await" /\ new.todo = call[c].todo
    BY <1>2, <2>1 DEF CallShape, CallFields
  <2>4. CallShape(new)
    BY <1>2, <2>2, <2>3 DEF CallShape
  <2>5. /\ call'[c] = new /\ call' = [d \in Callers |-> call'[d]]
        /\ \A d \in Callers \ {c} : call'[d] = call[d]
    BY <1>2, <2>1
  <2>6. /\ reads' = [y \in Readers |-> reads'[y]]
        /\ \A y \in Readers : y # x => reads'[y] = reads[y]
    BY <1>6 DEF Keeping, Shape
  <2>7. Shape'
    BY <1>1, <2>4, <2>5, <2>6 DEF Keeping, Shape, CallShape
  <2>8. Todo'
    BY <1>1, <1>2, <1>4, <2>3, <2>5 DEF Keeping, Todo, Busy
  <2>9. Mode(c) = "session" => session.pc = "open"
    BY <1>1 DEF Keeping, AfterOpening, SessionCalls
  <2>10. \A y \in Sources : y = x => Mode(c) = "session" /\ cache[y] = Gone
    BY <1>6, RanksAssumption
  <2>11. Fresh' /\ ReadOnce'
    BY <1>1, <2>6, <2>9, <2>10 DEF Keeping, Fresh, ReadOnce, Readers
  <2>12. NoOwnReads'
    <3>1. \A d \in SessionCalls : d # x
      BY <1>2, RanksAssumption DEF SessionCalls
    <3> QED BY <1>3, <2>6, <3>1 DEF Keeping, NoOwnReads, SessionCalls, Readers
  <2>13. AfterOpening'
    BY <1>1, <1>3, <2>5 DEF Keeping, AfterOpening, SessionCalls
  <2>14. FromCache'
    BY <1>1, <1>3, <2>3, <2>5 DEF Keeping, FromCache, SessionCalls
  <2> QED BY <2>7, <2>8, <2>11, <2>12, <2>13, <2>14 DEF Keeping
<1> QED BY <1>5, <1>6 DEF Load, s

(* The end of a read a session shares: it keeps what was read, having had  *)
(* nothing, and hands it to those who await it.                            *)
LEMMA SharedReadKeeps ==
  ASSUME Keeping, NEW x \in Sources, NEW content, reads[x].stage # "none",
         UNCHANGED <<manifest, calls, resolution>>,
         reads' = [reads EXCEPT ![x] = NoRead],
         cache' = [cache EXCEPT ![x] = IF content = Gone THEN @ ELSE content],
         session' = IF session.pc = "reading" THEN Preloaded(x, content)
                    ELSE session,
         call' = [c \in Callers |->
                    IF Awaits(c, x) THEN Handed(c, x, content) ELSE call[c]]
  PROVE  Keeping'
<1>1. /\ cache[x] = Gone
      /\ cache'[x] = content
      /\ cache' = [s \in Sources |-> cache'[s]]
      /\ \A s \in Sources \ {x} : cache'[s] = cache[s]
  BY DEF Keeping, ReadOnce, Shape
<1>2. /\ reads' = [y \in Readers |-> reads'[y]]
      /\ \A y \in Readers : reads'[y] = reads[y] \/ reads'[y].stage = "none"
      /\ \A y \in Readers : reads'[y].stage # "none" => y # x /\ reads'[y] = reads[y]
  BY DEF Keeping, Shape, NoRead, Readers
<1>3. session.pc \notin {"unprepared", "inspecting"}
  BY DEF Keeping, Fresh
<1>4. /\ session' = [pc |-> session'.pc, todo |-> session'.todo,
                     failed |-> session'.failed, looked |-> session'.looked]
      /\ session'.pc \notin {"unprepared", "inspecting"}
      /\ session.pc = "open" => session'.pc = "open"
  <2>1. CASE session.pc = "reading"
    <3>1. session' = Preloaded(x, content)
      BY <2>1
    <3> DEFINE rest == session.todo \ {x}
               failed == session.failed \/ content = Gone
               pc == IF rest # {} THEN session.pc
                     ELSE IF failed THEN "refused" ELSE "open"
    <3>2. Preloaded(x, content) =
            [session EXCEPT !.todo = rest, !.failed = failed, !.pc = pc]
      BY DEF Preloaded
    <3> HIDE DEF rest, failed, pc
    <3>3. /\ session'.pc = pc
          /\ session' = [pc |-> session'.pc, todo |-> session'.todo,
                         failed |-> session'.failed, looked |-> session'.looked]
      BY <3>1, <3>2 DEF Keeping, Shape
    <3>4. pc \in {"reading", "refused", "open"}
      BY <2>1 DEF pc
    <3> QED BY <2>1, <3>3, <3>4
  <2>2. CASE session.pc # "reading"
    BY <1>3, <2>2 DEF Keeping, Shape
  <2> QED BY <2>1, <2>2
<1>5. SessionCalls' = SessionCalls
  BY DEF SessionCalls, Mode
<1>6. \A c \in Callers : Selected(c)' = Selected(c)
  BY DEF Selected, SelectedBy, SourcesOf, Mode
<1>7. ASSUME NEW c \in Callers
      PROVE  /\ CallShape(call'[c])
             /\ call[c].pc = "idle" => call'[c] = call[c]
             /\ call'[c].todo \subseteq Selected(c)
             /\ Busy(c)' => call'[c].todo # {}
             /\ \A t \in Sources : call'[c].docs[t] = call[c].docs[t]
                                   \/ (t = x /\ call'[c].docs[t] = content)
  <2>1. CASE ~Awaits(c, x)
    BY <2>1 DEF Keeping, Shape, Todo, Busy
  <2>2. CASE Awaits(c, x)
    <3> DEFINE new == Handed(c, x, content)
    <3>1. call[c].pc = "await"
      BY <2>2 DEF Awaits
    <3>2. OneMore(c, x, content, new)
      BY HandedIsOneMore
    <3> HIDE DEF new
    <3>3. call'[c] = new
      BY <2>2 DEF new
    <3>4. call[c].docs = [t \in Sources |-> call[c].docs[t]]
      BY DEF Keeping, Shape, CallShape
    <3>5. \A t \in Sources : new.docs[t] = IF t = x THEN content
                                           ELSE call[c].docs[t]
      BY <3>2, <3>4 DEF OneMore
    <3> QED BY <3>1, <3>2, <3>3, <3>5 DEF OneMore, Busy
  <2> QED BY <2>1, <2>2
<1>8. Shape'
  BY <1>1, <1>2, <1>4, <1>7 DEF Keeping, Shape, CallShape
<1>9. Todo'
  BY <1>6, <1>7 DEF Keeping, Todo
<1>10. Fresh'
  BY <1>4 DEF Fresh
<1>11. AfterOpening'
  <2>1. ASSUME NEW c \in SessionCalls, call'[c].pc # "idle"
        PROVE  session'.pc = "open"
    <3>1. c \in Callers /\ call[c].pc # "idle"
      BY <1>7, <2>1 DEF SessionCalls
    <3> QED BY <1>4, <2>1, <3>1 DEF Keeping, AfterOpening
  <2> QED BY <1>5, <2>1 DEF AfterOpening
<1>12. NoOwnReads'
  BY <1>2, <1>5 DEF Keeping, NoOwnReads, SessionCalls, Readers
<1>13. ReadOnce'
  BY <1>1, <1>2 DEF Keeping, ReadOnce, Readers
<1>14. FromCache'
  <2>1. ASSUME NEW c \in SessionCalls, NEW t \in Sources, call'[c].docs[t] # Gone
        PROVE  call'[c].docs[t] = cache'[t]
    <3>1. c \in Callers
      BY DEF SessionCalls
    <3>2. CASE t = x /\ call'[c].docs[t] = content
      BY <1>1, <3>2
    <3>3. CASE call'[c].docs[t] = call[c].docs[t]
      <4>1. call[c].docs[t] = cache[t]
        BY <2>1, <3>3 DEF Keeping, FromCache
      <4>2. t # x
        BY <1>1, <2>1, <3>3, <4>1
      <4> QED BY <1>1, <3>3, <4>1, <4>2
    <3> QED BY <1>7, <3>1, <3>2, <3>3
  <2> QED BY <1>5, <2>1 DEF FromCache
<1> QED BY <1>8, <1>9, <1>10, <1>11, <1>12, <1>13, <1>14 DEF Keeping

(* The end of a call's own read: it is no call of a session.               *)
LEMMA OwnReadKeeps ==
  ASSUME Keeping, NEW c \in Callers, NEW s, NEW content, reads[c].stage # "none",
         UNCHANGED <<manifest, calls, resolution, session, cache>>,
         reads' = [reads EXCEPT ![c] = NoRead],
         call' = [call EXCEPT ![c] = Handed(c, s, content)]
  PROVE  Keeping'
<1> DEFINE new == Handed(c, s, content)
<1>1. c \notin SessionCalls
  BY DEF Keeping, NoOwnReads
<1>2. OneMore(c, s, content, new)
  BY HandedIsOneMore
<1> HIDE DEF new
<1>3. /\ call'[c] = new /\ call' = [d \in Callers |-> call'[d]]
      /\ \A d \in Callers \ {c} : call'[d] = call[d]
  BY DEF new, Keeping, Shape
<1>4. /\ reads' = [y \in Readers |-> reads'[y]]
      /\ \A y \in Readers : reads'[y] = reads[y] \/ reads'[y].stage = "none"
  BY DEF Keeping, Shape, NoRead
<1>5. SessionCalls' = SessionCalls /\ SessionCalls \subseteq Callers \ {c}
  BY <1>1 DEF SessionCalls, Mode
<1>6. \A d \in Callers : Selected(d)' = Selected(d)
  BY DEF Selected, SelectedBy, SourcesOf, Mode
<1>7. Shape'
  BY <1>2, <1>3, <1>4 DEF Keeping, Shape, CallShape, OneMore
<1>8. Todo'
  BY <1>2, <1>3, <1>6 DEF Keeping, Todo, Busy, OneMore
<1>9. Fresh' /\ NoOwnReads' /\ ReadOnce'
  BY <1>4, <1>5 DEF Keeping, Fresh, NoOwnReads, ReadOnce, Readers
<1>10. AfterOpening' /\ FromCache'
  BY <1>3, <1>5 DEF Keeping, AfterOpening, FromCache
<1> QED BY <1>7, <1>8, <1>9, <1>10 DEF Keeping

LEMMA EndReadKeeps ==
  ASSUME Keeping, NEW x \in Readers, NEW content, reads[x].stage # "none",
         EndRead(x, content), UNCHANGED <<fixed, asked>>
  PROVE  Keeping'
<1>1. UNCHANGED <<manifest, calls, resolution>>
  BY DEF fixed, asked
<1>2. CASE x \in Sources /\ x \notin Callers
  BY <1>1, <1>2, SharedReadKeeps DEF EndRead
<1>3. CASE x \in Callers /\ x \notin Sources
  <2>1. /\ reads' = [reads EXCEPT ![x] = NoRead]
        /\ call' = [call EXCEPT ![x] = Handed(x, SourceOf(x), content)]
        /\ UNCHANGED <<session, cache>>
    BY <1>3 DEF EndRead
  <2> QED BY <1>1, <1>3, <2>1, OwnReadKeeps
<1> QED BY <1>2, <1>3, RanksAssumption DEF Readers

LEMMA AdvanceKeeps ==
  ASSUME Keeping, NEW x \in Readers, NEW stage, NEW first, NEW same,
         reads[x].stage # "none", Advance(x, stage, first, same),
         UNCHANGED <<fixed, asked>>
  PROVE  Keeping'
<1>1. /\ UNCHANGED <<manifest, calls, resolution, session, cache, call>>
      /\ reads' = [reads EXCEPT ![x] = reads'[x]]
  BY DEF Advance, fixed, asked, Keeping, Shape
<1>2. /\ reads' = [y \in Readers |-> reads'[y]]
      /\ \A y \in Readers : reads'[y].stage # "none" => reads[y].stage # "none"
  BY <1>1 DEF Keeping, Shape
<1>3. SessionCalls' = SessionCalls
  BY <1>1 DEF SessionCalls, Mode
<1>4. \A c \in Callers : Selected(c)' = Selected(c)
  BY <1>1 DEF Selected, SelectedBy, SourcesOf, Mode
<1>5. Shape'
  BY <1>1, <1>2 DEF Keeping, Shape, CallShape
<1>6. Todo'
  BY <1>1, <1>4 DEF Keeping, Todo, Busy
<1>7. Fresh' /\ ReadOnce'
  BY <1>1, <1>2 DEF Keeping, Fresh, ReadOnce, Readers
<1>8. NoOwnReads'
  BY <1>2, <1>3 DEF Keeping, NoOwnReads, SessionCalls, Readers
<1>9. AfterOpening' /\ FromCache'
  BY <1>1, <1>3 DEF Keeping, AfterOpening, FromCache
<1> QED BY <1>5, <1>6, <1>7, <1>8, <1>9 DEF Keeping

LEMMA ReadKeeps ==
  ASSUME Keeping, NEW x \in Readers, Read(x)
  PROVE  Keeping'
<1>1. UNCHANGED <<fixed, asked>>
  BY DEF Read
<1>2. reads[x].stage # "none"
  BY DEF Read, ReadHead, ReadTail, Recheck, ReadHeadAgain, ReadTailAgain
<1>3. \/ \E content : EndRead(x, content)
      \/ \E stage, first, same : Advance(x, stage, first, same)
  <2>1. CASE ReadHead(x)
    BY <2>1 DEF ReadHead
  <2>2. CASE ReadTail(x)
    BY <2>2 DEF ReadTail
  <2>3. CASE Recheck(x)
    BY <2>3 DEF Recheck
  <2>4. CASE ReadHeadAgain(x)
    BY <2>4 DEF ReadHeadAgain
  <2>5. CASE ReadTailAgain(x)
    BY <2>5 DEF ReadTailAgain
  <2> QED BY <2>1, <2>2, <2>3, <2>4, <2>5 DEF Read
<1> QED BY <1>1, <1>2, <1>3, EndReadKeeps, AdvanceKeeps

LEMMA KeepingNext ==
  ASSUME Keeping, [Next]_vars
  PROVE  Keeping'
<1>1. CASE Prepare
  BY <1>1, PrepareKeeps
<1>2. CASE \E s \in Sources : PreloadInspect(s)
  BY <1>2, PreloadInspectKeeps
<1>3. CASE \E c \in Callers : Resolve(c) \/ Check(c) \/ Inspect(c) \/ Load(c)
  BY <1>3, ResolveKeeps, CheckKeeps, InspectKeeps, LoadKeeps
<1>4. CASE \E x \in Readers : Read(x)
  BY <1>4, ReadKeeps
<1>5. ASSUME Changed
      PROVE  Keeping'
  BY <1>5, KeepingStays DEF Changed
<1>6. CASE \E f \in Places : WriteHead(f) \/ WriteTail(f) \/ Unlink(f)
  BY <1>5, <1>6 DEF WriteHead, WriteTail, Unlink
<1>7. CASE \E s \in Sources, f \in Places : Relink(s, f)
  BY <1>5, <1>7 DEF Relink
<1>8. CASE UNCHANGED vars
  BY <1>8, KeepingStays DEF vars, asked
<1> QED BY <1>1, <1>2, <1>3, <1>4, <1>6, <1>7, <1>8 DEF Next

(***************************************************************************)
(* However its calls and reads interleave, and whatever is edited, a       *)
(* session hands out one version of every source (README.md:43 "A prepared *)
(* session does not ... refresh cached content").                          *)
(***************************************************************************)
THEOREM SessionsKeepOneVersion == Spec => []OneVersion
<1>1. Init => Keeping
  BY KeepingInit
<1>2. Keeping /\ [Next]_vars => Keeping'
  BY KeepingNext
<1>3. Keeping => OneVersion
  BY KeepingGives
<1> QED BY <1>1, <1>2, <1>3, PTL DEF Spec

(***************************************************************************)
(* Delivery. A file only moves on, from version to version, one half after *)
(* the other, until it is gone (FilesInv). A read that saw the same halves *)
(* again saw them together when it looked at the source in between, or the *)
(* file has moved on and its last look will tell (ReadGood). A call has    *)
(* what it did away with, and looked at what it has still to do            *)
(* (CallsInv); a preload likewise (SessionInv).                            *)
(***************************************************************************)
FilesInv ==
  /\ files \in [Places -> Contents \cup {Gone}]
  /\ \A f \in Places : files[f] # Gone => files[f][2] <= files[f][1]
  /\ place \in [Sources -> Places]
  /\ held = [s \in Sources |-> held[s]]
  /\ \A s \in Sources : files[place[s]] \in held[s]

ReadShape(r) ==
  r = [stage |-> r.stage, place |-> r.place, size |-> r.size,
       first |-> r.first, same |-> r.same]

ReadGood(r, s) ==
  /\ r.stage # "none" => r.place \in Places
  /\ r.stage = "tail" =>
       \E v \in Versions :
         /\ r.first = <<v>>
         /\ files[r.place] # Gone => v <= files[r.place][1]
  /\ r.stage \in {"recheck", "headAgain", "tailAgain"} =>
       /\ r.first \in Contents
       /\ files[r.place] # Gone => /\ r.first[1] <= files[r.place][1]
                                  /\ r.first[2] <= files[r.place][2]
  /\ r.stage = "headAgain" =>
       \/ r.first \in held[s] \/ files[r.place] = Gone
       \/ r.first[1] < files[r.place][1] \/ r.first[2] < files[r.place][2]
  /\ r.stage = "tailAgain" /\ r.same =>
       \/ r.first \in held[s] \/ files[r.place] = Gone
       \/ r.first[2] < files[r.place][2]

ReadsInv ==
  /\ \A x \in Readers : ReadShape(reads[x]) /\ ReadGood(reads[x], SourceOf(x))
  /\ \A c \in Callers : reads[c].stage # "none" => call[c].pc = "await"

LEMMA ContentFacts ==
  /\ \A v, w \in Versions : <<v, w>> \in Contents
  /\ \A content \in Contents :
       /\ content # Gone /\ content = <<content[1], content[2]>>
       /\ content[1] \in Versions /\ content[2] \in Versions
       /\ content[1] \in Nat /\ content[2] \in Nat
BY SizesAssumption DEF Contents, Gone

(* What the editor may do to a file, and to what a source had.             *)
Edited ==
  /\ \A f \in Places :
       /\ files[f] = Gone => files'[f] = Gone
       /\ files'[f] # Gone =>
            /\ files[f] # Gone
            /\ files[f][1] <= files'[f][1] /\ files[f][2] <= files'[f][2]
  /\ \A s \in Sources : held[s] \subseteq held'[s]

LEMMA ReadGoodEdited ==
  ASSUME FilesInv, FilesInv', Edited, NEW r, NEW s \in Sources, ReadGood(r, s)
  PROVE  ReadGood(r, s)'
<1> DEFINE file == files[r.place]
<1>1. CASE r.stage = "none"
  BY <1>1 DEF ReadGood
<1>2. CASE r.stage # "none"
  <2>1. r.place \in Places
    BY <1>2 DEF ReadGood
  <2>2. /\ file = Gone => file' = Gone
        /\ file' # Gone => /\ file # Gone /\ file \in Contents
                           /\ file' \in Contents
                           /\ file[1] <= file'[1] /\ file[2] <= file'[2]
    BY <2>1 DEF Edited, FilesInv
  <2>3. held[s] \subseteq held'[s]
    BY DEF Edited
  <2>4. /\ file \in Contents => file[1] \in Nat /\ file[2] \in Nat
        /\ file' \in Contents => file'[1] \in Nat /\ file'[2] \in Nat
    BY ContentFacts
  <2> HIDE DEF file
  <2>5. ASSUME r.stage = "tail"
        PROVE  \E v \in Versions : r.first = <<v>> /\ (file' # Gone => v <= file'[1])
    <3>1. PICK v \in Versions : r.first = <<v>> /\ (file # Gone => v <= file[1])
      BY <2>5 DEF ReadGood, file
    <3>2. v \in Nat
      BY SizesAssumption
    <3> QED BY <2>2, <2>4, <3>1, <3>2
  <2>6. ASSUME r.stage \in {"recheck", "headAgain", "tailAgain"}
        PROVE  /\ r.first \in Contents
               /\ r.first[1] \in Nat /\ r.first[2] \in Nat
               /\ file' # Gone => r.first[1] <= file'[1] /\ r.first[2] <= file'[2]
    <3>1. /\ r.first \in Contents
          /\ file # Gone => r.first[1] <= file[1] /\ r.first[2] <= file[2]
      BY <2>6 DEF ReadGood, file
    <3>2. r.first[1] \in Nat /\ r.first[2] \in Nat
      BY <3>1, ContentFacts
    <3> QED BY <2>2, <2>4, <3>1, <3>2
  <2>7. ASSUME r.stage = "headAgain"
        PROVE  \/ r.first \in held'[s] \/ file' = Gone
               \/ r.first[1] < file'[1] \/ r.first[2] < file'[2]
    <3>1. \/ r.first \in held[s] \/ file = Gone
          \/ r.first[1] < file[1] \/ r.first[2] < file[2]
      BY <2>7 DEF ReadGood, file
    <3> QED BY <2>2, <2>3, <2>4, <2>6, <2>7, <3>1
  <2>8. ASSUME r.stage = "tailAgain", r.same
        PROVE  r.first \in held'[s] \/ file' = Gone \/ r.first[2] < file'[2]
    <3>1. r.first \in held[s] \/ file = Gone \/ r.first[2] < file[2]
      BY <2>8 DEF ReadGood, file
    <3> QED BY <2>2, <2>3, <2>4, <2>6, <2>8, <3>1
  <2> QED BY <2>1, <2>5, <2>6, <2>7, <2>8 DEF ReadGood, file
<1> QED BY <1>1, <1>2

LEMMA AppendOne ==
  ASSUME NEW S, NEW v \in S, NEW w \in S
  PROVE  Append(<<v>>, w) = <<v, w>>
<1>1. <<v>> \in Seq(S) /\ Len(<<v>>) = 1 /\ <<v>>[1] = v
  OBVIOUS
<1> DEFINE one == <<v>>
           two == Append(one, w)
<1> HIDE DEF one
<1>2. /\ two \in Seq(S) /\ Len(two) = 2
      /\ two[1] = v /\ two[2] = w
  BY <1>1, AppendProperties DEF one
<1>3. two = <<v, w>>
  <2> HIDE DEF two
  <2>1. <<v, w>> \in Seq(S) /\ Len(<<v, w>>) = 2
    OBVIOUS
  <2> QED BY <1>2, <2>1, SeqEqual
<1> QED BY <1>3 DEF one

(* The steps of a read: it ends with a content its source had, or goes on. *)
LEMMA ReadSteps ==
  ASSUME FilesInv, ReadsInv, NEW x \in Readers, SourceOf(x) \in Sources, Read(x)
  PROVE  \/ \E content \in Contents \cup {Gone} :
              /\ EndRead(x, content)
              /\ content # Gone => content \in held[SourceOf(x)]
         \/ \E stage \in Stages \ {"none"} : \E first, same :
              /\ Advance(x, stage, first, same)
              /\ ReadGood([reads[x] EXCEPT !.stage = stage, !.first = first,
                                           !.same = same], SourceOf(x))
<1> DEFINE r == reads[x]
           s == SourceOf(x)
           file == files[r.place]
           Next1(stage, first, same) ==
             [r EXCEPT !.stage = stage, !.first = first, !.same = same]
<1>1. ReadShape(r) /\ ReadGood(r, s)
  BY DEF ReadsInv
<1>2. ASSUME NEW stage, NEW first, NEW same
      PROVE  /\ Next1(stage, first, same).stage = stage
             /\ Next1(stage, first, same).first = first
             /\ Next1(stage, first, same).same = same
             /\ Next1(stage, first, same).place = r.place
  BY <1>1 DEF ReadShape
<1>3. r.stage # "none"
  BY DEF Read, ReadHead, ReadTail, Recheck, ReadHeadAgain, ReadTailAgain
<1>4. /\ r.place \in Places
      /\ file \in Contents \cup {Gone}
      /\ file # Gone => file \in Contents /\ file[1] \in Versions /\ file[2] \in Versions
                        /\ file[1] \in Nat /\ file[2] \in Nat
                        /\ file = <<file[1], file[2]>>
  BY <1>1, <1>3, ContentFacts DEF ReadGood, FilesInv
<1> HIDE DEF Next1, file
<1>5. CASE ReadHead(x)
  <2>1. CASE file = Gone
    BY <1>5, <2>1 DEF ReadHead, file
  <2>2. CASE file # Gone
    <3> DEFINE q == Next1("tail", <<file[1]>>, TRUE)
    <3>1. Advance(x, "tail", <<file[1]>>, TRUE)
      BY <1>5, <2>2 DEF ReadHead, file
    <3>2. /\ q.stage = "tail" /\ q.first = <<file[1]>> /\ q.place = r.place
      BY <1>1 DEF ReadShape, Next1
    <3> HIDE DEF q
    <3>3. ReadGood(q, s)
      BY <1>4, <2>2, <3>2 DEF ReadGood, file
    <3> QED BY <3>1, <3>3 DEF q, Next1, Stages
  <2> QED BY <2>1, <2>2
<1>6. CASE ReadTail(x)
  <2> DEFINE first == Append(r.first, file[2])
             q == Next1("recheck", first, TRUE)
  <2>1. r.stage = "tail"
    BY <1>6 DEF ReadTail
  <2>2. PICK v \in Versions : r.first = <<v>> /\ (file # Gone => v <= file[1])
    BY <1>1, <2>1 DEF ReadGood, file
  <2>3. file # Gone => first = <<v, file[2]>>
    BY <1>4, <2>2, AppendOne
  <2>4. CASE EndRead(x, Gone)
    BY <2>4
  <2>5. CASE file # Gone /\ Advance(x, "recheck", first, TRUE)
    <3>1. q.stage = "recheck" /\ q.first = first /\ q.place = r.place
      BY <1>1 DEF ReadShape, Next1
    <3>2. first \in Contents /\ first[1] = v /\ first[2] = file[2]
      <4> HIDE DEF first
      <4> QED BY <1>4, <2>3, <2>5, ContentFacts
    <3> HIDE DEF q, first
    <3>3. ReadGood(q, s)
      BY <1>4, <2>2, <2>5, <3>1, <3>2 DEF ReadGood, file
    <3> QED BY <2>5, <3>3 DEF q, Next1, Stages
  <2> QED BY <1>6, <2>4, <2>5 DEF ReadTail, file
<1>7. CASE Recheck(x)
  <2> DEFINE q == Next1("headAgain", r.first, TRUE)
  <2>1. /\ r.first \in Contents
        /\ file # Gone => r.first[1] <= file[1] /\ r.first[2] <= file[2]
    BY <1>1, <1>7 DEF Recheck, ReadGood, file
  <2>2. CASE EndRead(x, Gone)
    BY <2>2
  <2>3. CASE place[s] = r.place /\ Advance(x, "headAgain", r.first, TRUE)
    <3>1. q.stage = "headAgain" /\ q.first = r.first /\ q.place = r.place
      BY <1>1 DEF ReadShape, Next1
    <3>2. file \in held[s]
      BY <2>3 DEF FilesInv, file
    <3>3. \/ r.first \in held[s] \/ file = Gone
          \/ r.first[1] < file[1] \/ r.first[2] < file[2]
      <4>1. /\ r.first = <<r.first[1], r.first[2]>>
            /\ r.first[1] \in Nat /\ r.first[2] \in Nat
        BY <2>1, ContentFacts
      <4>2. CASE file # Gone /\ r.first[1] = file[1] /\ r.first[2] = file[2]
        BY <1>4, <3>2, <4>1, <4>2
      <4> QED BY <1>4, <2>1, <4>1, <4>2
    <3> HIDE DEF q
    <3>4. ReadGood(q, s)
      BY <1>4, <2>1, <3>1, <3>3 DEF ReadGood, file
    <3> QED BY <2>3, <3>4 DEF q, Next1, Stages
  <2> QED BY <1>7, <2>2, <2>3 DEF Recheck
<1>8. CASE ReadHeadAgain(x)
  <2> DEFINE same == file[1] = r.first[1]
             q == Next1("tailAgain", r.first, same)
  <2>1. /\ r.first \in Contents
        /\ file # Gone => r.first[1] <= file[1] /\ r.first[2] <= file[2]
        /\ \/ r.first \in held[s] \/ file = Gone
           \/ r.first[1] < file[1] \/ r.first[2] < file[2]
    BY <1>1, <1>8 DEF ReadHeadAgain, ReadGood, file
  <2>2. CASE EndRead(x, Gone)
    BY <2>2
  <2>3. CASE Advance(x, "tailAgain", r.first, same)
    <3>1. q.stage = "tailAgain" /\ q.first = r.first /\ q.place = r.place
          /\ q.same = same
      BY <1>2
    <3>2. same => r.first \in held[s] \/ file = Gone \/ r.first[2] < file[2]
      BY <1>4, <2>1
    <3> HIDE DEF q, same
    <3>3. ReadGood(q, s)
      BY <1>4, <2>1, <3>1, <3>2 DEF ReadGood, file
    <3> QED BY <2>3, <3>3 DEF q, Next1, Stages
  <2> QED BY <1>8, <2>2, <2>3 DEF ReadHeadAgain, file
<1>9. CASE ReadTailAgain(x)
  <2>1. r.first \in Contents /\ r.first[2] \in Nat
    BY <1>1, <1>9, ContentFacts DEF ReadTailAgain, ReadGood
  <2>2. CASE EndRead(x, Gone)
    BY <2>2
  <2>3. CASE /\ file # Gone /\ r.same /\ file[2] = r.first[2]
             /\ EndRead(x, r.first)
    <3>1. r.first \in held[s] \/ file = Gone \/ r.first[2] < file[2]
      BY <1>1, <1>9, <2>3 DEF ReadTailAgain, ReadGood, file
    <3>2. r.first \in held[s]
      BY <2>1, <2>3, <3>1
    <3> QED BY <2>1, <2>3, <3>2
  <2> QED BY <1>9, <2>2, <2>3 DEF ReadTailAgain, file
<1> QED BY <1>5, <1>6, <1>7, <1>8, <1>9 DEF Read

(* A source a call need not look at again: it has looked, or it is kept.   *)
Ready(r, c, s) ==
  \/ r.looked[s].place \in Places
  \/ Mode(c) = "session" /\ cache[s] # Gone

CallGood(r, c) ==
  /\ r.looked = [s \in Sources |-> r.looked[s]]
  /\ \A s \in Sources : r.docs[s] # Gone =>
       /\ s \in Selected(c) /\ r.docs[s] \in held[s]
       /\ r.pc \notin {"idle", "inspect"}
  /\ r.pc = "inspect" =>
       \A s \in Selected(c) : s \in r.todo \/ r.failed \/ Ready(r, c, s)
  /\ r.pc \in {"load", "await"} =>
       \A s \in Selected(c) :
         /\ Ready(r, c, s)
         /\ s \in r.todo \/ r.failed \/ r.docs[s] # Gone
  /\ r.pc = "complete" => \A s \in Selected(c) : r.docs[s] # Gone

CallsInv == \A c \in Callers : CallGood(call[c], c)

SessionInv ==
  /\ session.looked = [s \in Sources |-> session.looked[s]]
  /\ \A s \in Sources : cache[s] # Gone => cache[s] \in held[s]
  /\ session.pc \in {"inspecting", "reading"} => preload = "sources"
  /\ preload = "sources" =>
       \A s \in SourcesOf(manifest.policies) :
         /\ session.pc = "inspecting" =>
              \/ s \in session.todo \/ session.failed
              \/ session.looked[s].place \in Places
         /\ session.pc = "reading" =>
              s \in session.todo \/ session.failed \/ cache[s] # Gone
         /\ session.pc = "open" => cache[s] # Gone

Delivering == Keeping /\ FilesInv /\ ReadsInv /\ CallsInv /\ SessionInv

LEMMA DeliveringInit == Init => Delivering
<1> SUFFICES ASSUME Init PROVE Delivering
  OBVIOUS
<1>1. FilesInv
  <2>1. PICK repository \in Cases :
          files = repository.files /\ place = repository.place
    BY DEF Init
  <2>2. /\ files \in [Places -> {Gone} \cup {<<v, v>> : v \in Versions}]
        /\ place \in [Sources -> Places]
    BY <2>1, CasesAssumption
  <2>3. ASSUME NEW f \in Places
        PROVE  /\ files[f] \in Contents \cup {Gone}
               /\ files[f] # Gone => files[f][2] <= files[f][1]
    <3>1. CASE files[f] = Gone
      BY <3>1
    <3>2. CASE files[f] # Gone
      <4>1. PICK v \in Versions : files[f] = <<v, v>>
        BY <2>2, <3>2
      <4> QED BY <4>1, SizesAssumption, ContentFacts
    <3> QED BY <3>1, <3>2
  <2>4. held = [s \in Sources |-> {files[place[s]]}]
    BY DEF Init
  <2> QED BY <2>2, <2>3, <2>4 DEF FilesInv
<1>2. ReadsInv
  BY DEF Init, ReadsInv, ReadShape, ReadGood, NoRead, Readers
<1>3. CallsInv
  BY DEF Init, CallsInv, CallGood, Unseen
<1>4. SessionInv
  BY DEF Init, SessionInv, Unseen
<1> QED BY <1>1, <1>2, <1>3, <1>4, KeepingInit DEF Delivering

LEMMA DeliveringGives == Delivering => SourcesDelivered
<1> SUFFICES ASSUME Delivering PROVE SourcesDelivered
  OBVIOUS
<1>1. ASSUME NEW c \in Callers, call[c].pc = "complete", NEW s \in Sources
      PROVE  call[c].docs[s] \in
               IF s \in Selected(c) THEN held[s] \ {Gone} ELSE {Gone}
  BY <1>1 DEF Delivering, CallsInv, CallGood
<1>2. ASSUME session.pc = "open", preload = "sources",
             NEW s \in SourcesOf(manifest.policies)
      PROVE  cache[s] \in held[s] \ {Gone}
  <2>1. s \in Sources
    BY DEF Delivering, Keeping, Todo, SourcesOf
  <2> QED BY <1>2, <2>1 DEF Delivering, SessionInv
<1> QED BY <1>1, <1>2 DEF SourcesDelivered

(* A step that takes nothing away leaves a call, and a read, as good.      *)
LEMMA CallGoodStays ==
  ASSUME NEW r, NEW c \in Callers, CallGood(r, c), Selected(c) \subseteq Sources,
         Selected(c)' = Selected(c), Mode(c)' = Mode(c),
         \A s \in Sources : held[s] \subseteq held'[s],
         \A s \in Sources : cache[s] # Gone => cache'[s] # Gone
  PROVE  CallGood(r, c)'
<1>1. \A s \in Sources : Ready(r, c, s) => Ready(r, c, s)'
  BY DEF Ready
<1> HIDE DEF Ready
<1> QED BY <1>1 DEF CallGood

LEMMA BegunIsGood ==
  ASSUME NEW look, look.place \in Places, NEW s
  PROVE  /\ ReadShape(Begun(look)) /\ ReadGood(Begun(look), s)
         /\ Begun(look).stage # "none"
<1>1. PICK r : r = Begun(look)
  OBVIOUS
<1>2. r = [stage |-> "head", place |-> look.place, size |-> look.size,
           first |-> Gone, same |-> TRUE]
  BY <1>1 DEF Begun, NoRead
<1>3. r.stage = "head" /\ r.place \in Places /\ ReadShape(r)
  BY <1>2 DEF ReadShape
<1>4. ReadGood(r, s) /\ r.stage # "none"
  BY <1>3 DEF ReadGood
<1> QED BY <1>1, <1>3, <1>4

LEMMA ReadsStay ==
  ASSUME ReadsInv, UNCHANGED <<files, held>>,
         \A x \in Readers :
           \/ reads'[x] = NoRead
           \/ reads'[x] = reads[x] /\ (reads[x].stage # "none" => SourceOf(x)' = SourceOf(x))
           \/ ReadShape(reads'[x]) /\ ReadGood(reads'[x], SourceOf(x)'),
         \A c \in Callers : reads'[c].stage # "none" => call'[c].pc = "await"
  PROVE  ReadsInv'
<1>1. ASSUME NEW x \in Readers
      PROVE  ReadShape(reads[x])' /\ ReadGood(reads[x], SourceOf(x))'
  <2>1. PICK r, s : r = reads'[x] /\ s = SourceOf(x)'
    OBVIOUS
  <2>2. ReadShape(NoRead) /\ ReadGood(NoRead, s)
    BY DEF ReadShape, ReadGood, NoRead
  <2>3. ReadShape(r) /\ ReadGood(r, s)
    <3>1. CASE reads'[x] = NoRead
      BY <2>1, <2>2, <3>1
    <3>2. CASE reads'[x] = reads[x] /\ reads[x].stage = "none"
      BY <2>1, <3>2 DEF ReadsInv, ReadGood
    <3>3. CASE reads'[x] = reads[x] /\ SourceOf(x)' = SourceOf(x)
      BY <2>1, <3>3 DEF ReadsInv
    <3>4. CASE ReadShape(reads'[x]) /\ ReadGood(reads'[x], SourceOf(x)')
      BY <2>1, <3>4
    <3> QED BY <3>1, <3>2, <3>3, <3>4
  <2>4. ReadShape(reads[x])'
    BY <2>1, <2>3 DEF ReadShape
  <2>5. ReadGood(r, s)'
    BY <2>3 DEF ReadGood
  <2>6. ReadGood(reads[x], SourceOf(x))'
    <3> HIDE DEF SourceOf
    <3> QED BY <2>1, <2>5 DEF ReadGood
  <2> QED BY <2>4, <2>6
<1> QED BY <1>1 DEF ReadsInv

LEMMA ReadsUntouched ==
  ASSUME ReadsInv, UNCHANGED <<files, held, reads>>,
         \A d \in Callers : call'[d] = call[d] \/ call[d].pc # "await"
  PROVE  ReadsInv'
<1>1. ASSUME NEW x \in Readers, reads[x].stage # "none"
      PROVE  SourceOf(x)' = SourceOf(x)
  <2>1. CASE x \in Sources
    BY <2>1 DEF SourceOf
  <2>2. CASE x \in Callers
    BY <1>1, <2>2 DEF SourceOf, ReadsInv
  <2> QED BY <2>1, <2>2 DEF Readers
<1>2. \A c \in Callers : reads'[c].stage # "none" => call'[c].pc = "await"
  BY DEF ReadsInv
<1> QED BY <1>1, <1>2, ReadsStay

LEMMA CallsStay ==
  ASSUME Todo, CallsInv, UNCHANGED <<manifest, calls, resolution>>,
         \A s \in Sources : held[s] \subseteq held'[s],
         \A s \in Sources : cache[s] # Gone => cache'[s] # Gone,
         \A d \in Callers : call'[d] = call[d] \/ CallGood(call'[d], d)
  PROVE  CallsInv'
<1> SUFFICES ASSUME NEW c \in Callers
             PROVE  CallGood(call[c], c)'
  BY DEF CallsInv
<1>1. PICK r : r = call'[c]
  OBVIOUS
<1>2. CallGood(r, c)
  BY <1>1 DEF CallsInv
<1>3. /\ Selected(c)' = Selected(c) /\ Mode(c)' = Mode(c)
      /\ Selected(c) \subseteq Sources
  BY SelectedAreSources DEF Selected, SelectedBy, SourcesOf, Mode
<1>4. CallGood(r, c)'
  BY <1>2, <1>3, CallGoodStays
<1> QED BY <1>1, <1>4 DEF CallGood, Ready

LEMMA SessionStays ==
  ASSUME SessionInv, UNCHANGED <<manifest, preload, session, cache>>,
         \A s \in Sources : held[s] \subseteq held'[s]
  PROVE  SessionInv'
BY DEF SessionInv, SourcesOf

LEMMA FilesStay ==
  ASSUME FilesInv, UNCHANGED disk
  PROVE  FilesInv' /\ UNCHANGED <<files, held>>
BY DEF FilesInv, disk

(* Being handed a source it awaits, or being told that it cannot be read.  *)
LEMMA HandedIsGood ==
  ASSUME Keeping, NEW c \in Callers, CallGood(call[c], c),
         call[c].pc \in {"load", "await"}, NEW s, s = Min(call[c].todo),
         NEW content, content # Gone => content \in held[s]
  PROVE  CallGood(Handed(c, s, content), c)
<1>1. /\ CallShape(call[c])
      /\ call[c].todo \subseteq Selected(c)
      /\ s \in call[c].todo /\ s \in Sources /\ Selected(c) \subseteq Sources
  BY SelectedAreSources DEF Keeping, Shape, Todo, Busy
<1> DEFINE rest == call[c].todo \ {s}
<1> DEFINE total == call[c].total + Size(content)
           failed == call[c].failed \/ content = Gone
           over == Mode(c) = "session" /\ total > TotalBytes
           pc == IF over THEN "failed"
                 ELSE IF rest # {} THEN "load"
                 ELSE IF failed THEN "failed" ELSE "complete"
           docs == [call[c].docs EXCEPT ![s] = content]
<1>2. PICK new :
        /\ new = Handed(c, s, content)
        /\ new = [call[c] EXCEPT
                    !.docs[s] = content, !.todo = rest, !.total = total,
                    !.failed = failed, !.pc = pc]
  BY DEF Handed
<1> HIDE DEF total, failed, over, pc, rest
<1>3. new.docs = docs /\ new.pc = pc /\ new.todo = rest
  BY <1>1, <1>2 DEF CallShape, CallFields
<1>4. new.failed = failed /\ new.looked = call[c].looked
  BY <1>1, <1>2 DEF CallShape, CallFields
<1>5. \A t \in Sources : new.docs[t] = IF t = s THEN content ELSE call[c].docs[t]
  BY <1>1, <1>3 DEF CallShape
<1>6. new.looked = [t \in Sources |-> new.looked[t]]
  BY <1>4 DEF CallGood
<1>7. ASSUME NEW t \in Sources, new.docs[t] # Gone
      PROVE  t \in Selected(c) /\ new.docs[t] \in held[t]
  BY <1>1, <1>5, <1>7 DEF CallGood
<1>8. pc \in {"failed", "load", "complete"}
  BY DEF pc
<1>9. ASSUME NEW t \in Selected(c)
      PROVE  /\ Ready(new, c, t)
             /\ t \in rest \/ failed \/ new.docs[t] # Gone
  <2>1. Ready(call[c], c, t) /\ (t \in call[c].todo \/ call[c].failed
                                  \/ call[c].docs[t] # Gone)
    BY DEF CallGood
  <2>2. Ready(new, c, t)
    BY <1>4, <2>1 DEF Ready
  <2>3. t \in rest \/ failed \/ new.docs[t] # Gone
    BY <1>1, <1>5, <2>1 DEF rest, failed
  <2> QED BY <2>2, <2>3
<1>10. pc = "complete" => rest = {} /\ ~failed
  BY DEF pc
<1>11. CallGood(new, c)
  <2> HIDE DEF Ready
  <2>1. pc = "complete" => \A t \in Selected(c) : new.docs[t] # Gone
    BY <1>9, <1>10
  <2> QED BY <1>3, <1>4, <1>6, <1>7, <1>8, <1>9, <2>1 DEF CallGood
<1> QED BY <1>2, <1>11

LEMMA PrepareDelivers ==
  ASSUME Delivering, Prepare
  PROVE  Delivering'
<1>1. /\ session.pc = "unprepared"
      /\ UNCHANGED <<manifest, calls, preload, resolution, cache, reads, call>>
      /\ UNCHANGED disk
      /\ session' = [session EXCEPT
           !.todo = IF preload = "sources" THEN SourcesOf(manifest.policies) ELSE {},
           !.pc = IF ~validatePolicyManifest(manifest) THEN "refused"
                  ELSE IF preload = "sources" THEN "inspecting" ELSE "open"]
  BY DEF Prepare, fixed, asked
<1>2. FilesInv' /\ UNCHANGED <<files, held>>
  BY <1>1, FilesStay DEF Delivering
<1>3. ReadsInv'
  BY <1>1, <1>2, ReadsUntouched DEF Delivering
<1>4. CallsInv'
  BY <1>1, <1>2, CallsStay DEF Delivering, Keeping
<1>5. /\ session'.looked = session.looked
      /\ session'.todo = IF preload = "sources" THEN SourcesOf(manifest.policies)
                         ELSE {}
      /\ session'.pc \in {"refused", "inspecting", "open"}
      /\ session'.pc = "inspecting" => preload = "sources"
      /\ session'.pc = "open" => preload # "sources"
  BY <1>1 DEF Delivering, Keeping, Shape
<1>6. SessionInv'
  BY <1>1, <1>2, <1>5 DEF Delivering, SessionInv, SourcesOf
<1> QED BY <1>2, <1>3, <1>4, <1>6, PrepareKeeps DEF Delivering

LEMMA PreloadInspectDelivers ==
  ASSUME Delivering, NEW s \in Sources, PreloadInspect(s)
  PROVE  Delivering'
<1> DEFINE rest == session.todo \ {s}
           failed == session.failed \/ ~Inspected(s)
           looked == [session.looked EXCEPT ![s] = IF Inspected(s) THEN Look(s) ELSE @]
           all == SourcesOf(manifest.policies)
           begun == [x \in Readers |-> IF x \in all THEN Begun(looked[x]) ELSE reads[x]]
<1>1. /\ session.pc = "inspecting" /\ s \in session.todo
      /\ UNCHANGED <<manifest, calls, preload, resolution, cache, call>>
      /\ UNCHANGED disk
  BY DEF PreloadInspect, fixed, asked
<1>2. reads' = IF session'.pc = "reading" THEN begun ELSE reads
  BY ZenonT(30) DEF PreloadInspect
<1>3. \E over \in BOOLEAN :
        session' = [pc |-> IF rest # {} THEN "inspecting"
                           ELSE IF failed \/ over THEN "refused" ELSE "reading",
                    todo |-> IF rest # {} THEN rest ELSE all,
                    failed |-> failed, looked |-> looked]
  BY DEF PreloadInspect
<1>4. /\ session'.looked = looked /\ session'.failed = failed
      /\ session'.todo = IF rest # {} THEN rest ELSE all
      /\ session'.pc \in {"inspecting", "refused", "reading"}
      /\ session'.pc = "inspecting" => rest # {}
      /\ session'.pc = "reading" => rest = {} /\ ~failed
  BY <1>3
<1> HIDE DEF rest, failed, begun
<1>5. FilesInv' /\ UNCHANGED <<files, held>>
  BY <1>1, FilesStay DEF Delivering
<1>6. all \subseteq Sources /\ preload = "sources"
  BY <1>1 DEF Delivering, Keeping, Todo, SourcesOf, SessionInv
<1>7. /\ looked = [x \in Sources |-> looked[x]]
      /\ \A x \in Sources : x # s => looked[x] = session.looked[x]
      /\ ~failed => looked[s].place \in Places
  BY DEF Delivering, SessionInv, failed, Look, FilesInv
<1> HIDE DEF looked
<1>8. ASSUME NEW x \in all
      PROVE  x \in rest \/ failed \/ looked[x].place \in Places
  BY <1>1, <1>6, <1>7 DEF Delivering, SessionInv, rest, failed
<1>9. ReadsInv'
  <2>1. CASE session'.pc = "reading"
    <3>1. \A x \in all : looked[x].place \in Places
      BY <1>4, <1>8, <2>1
    <3>2. \A x \in Readers : reads'[x] = IF x \in all THEN Begun(looked[x])
                                         ELSE reads[x]
      BY <1>2, <2>1 DEF begun
    <3>3. ASSUME NEW x \in Readers
          PROVE  \/ /\ reads'[x] = reads[x]
                    /\ reads[x].stage # "none" => SourceOf(x)' = SourceOf(x)
                 \/ ReadShape(reads'[x]) /\ ReadGood(reads'[x], SourceOf(x)')
      <4>1. CASE x \in all
        BY <3>1, <3>2, <4>1, BegunIsGood
      <4>2. CASE x \notin all
        BY <1>1, <3>2, <4>2 DEF SourceOf
      <4> QED BY <4>1, <4>2
    <3>4. ASSUME NEW c \in Callers, reads'[c].stage # "none"
          PROVE  call'[c].pc = "await"
      <4>1. c \notin all
        BY <1>6, RanksAssumption
      <4> QED BY <1>1, <3>2, <3>4, <4>1 DEF Delivering, ReadsInv, Readers
    <3> QED BY <1>5, <3>3, <3>4, ReadsStay DEF Delivering
  <2>2. CASE session'.pc # "reading"
    BY <1>1, <1>2, <1>5, <2>2, ReadsUntouched DEF Delivering
  <2> QED BY <2>1, <2>2
<1>10. CallsInv'
  BY <1>1, <1>5, CallsStay DEF Delivering, Keeping
<1>11. SessionInv'
  <2>1. session'.looked = [x \in Sources |-> session'.looked[x]]
    BY <1>4, <1>7
  <2>2. \A x \in Sources : cache'[x] # Gone => cache'[x] \in held'[x]
    BY <1>1, <1>5 DEF Delivering, SessionInv
  <2>3. SourcesOf(manifest.policies)' = all
    BY <1>1 DEF SourcesOf
  <2>4. ASSUME NEW x \in all
        PROVE  /\ session'.pc = "inspecting" =>
                    \/ x \in session'.todo \/ session'.failed
                    \/ session'.looked[x].place \in Places
               /\ session'.pc = "reading" => x \in session'.todo
    BY <1>4, <1>8
  <2> QED BY <1>1, <1>4, <1>6, <2>1, <2>2, <2>3, <2>4 DEF SessionInv
<1> QED BY <1>5, <1>9, <1>10, <1>11, PreloadInspectKeeps DEF Delivering

(* A call that begins has nothing yet, and everything to do.               *)
LEMMA EntersDelivers ==
  ASSUME Delivering, NEW c \in Callers, NEW refused,
         Entered(c, refused, Selected(c)'), Keeping',
         call[c].pc = "idle",
         UNCHANGED <<manifest, calls, preload, disk, session, cache, reads>>,
         \A d \in Callers \ {c} : resolution'[d] = resolution[d]
  PROVE  Delivering'
<1>1. FilesInv' /\ UNCHANGED <<files, held>>
  BY FilesStay DEF Delivering
<1>2. SessionInv'
  BY <1>1, SessionStays DEF Delivering
<1> DEFINE pc == IF refused THEN "failed"
                 ELSE IF Selected(c)' = {} THEN "complete" ELSE "inspect"
<1>3. PICK r : /\ r = [call[c] EXCEPT !.todo = Selected(c)', !.pc = pc]
               /\ call' = [call EXCEPT ![c] = r]
  BY DEF Entered
<1>4. /\ CallShape(call[c]) /\ call = [d \in Callers |-> call[d]]
  BY DEF Delivering, Keeping, Shape
<1>5. /\ call'[c] = r
      /\ \A d \in Callers \ {c} : call'[d] = call[d]
  BY <1>3, <1>4
<1>6. r.docs = call[c].docs /\ r.looked = call[c].looked
  BY <1>3, <1>4 DEF CallShape, CallFields
<1>7. r.todo = Selected(c)' /\ r.pc = pc
  BY <1>3, <1>4 DEF CallShape, CallFields
<1>8. ReadsInv'
  BY <1>1, <1>5, ReadsUntouched DEF Delivering
<1>9. CallGood(r, c)'
  <2>1. /\ r.looked = [s \in Sources |-> r.looked[s]]
        /\ \A s \in Sources : r.docs[s] = Gone
    BY <1>6 DEF Delivering, CallsInv, CallGood
  <2>2. /\ pc \in {"failed", "complete", "inspect"}
        /\ pc = "complete" => Selected(c)' = {}
    BY DEF pc
  <2> QED BY <1>7, <2>1, <2>2 DEF CallGood
<1>10. ASSUME NEW d \in Callers
       PROVE  CallGood(call[d], d)'
  <2>1. CASE d = c
    BY <1>5, <1>9, <2>1 DEF CallGood, Ready
  <2>2. CASE d # c
    <3>1. PICK q : q = call'[d]
      OBVIOUS
    <3>2. q = call[d]
      BY <1>5, <2>2, <3>1
    <3>3. /\ Selected(d)' = Selected(d) /\ Mode(d)' = Mode(d)
          /\ Selected(d) \subseteq Sources
      BY <2>2, SelectedAreSources
      DEF Delivering, Keeping, Selected, SelectedBy, SourcesOf, Mode
    <3>4. CallGood(q, d)
      BY <3>2 DEF Delivering, CallsInv
    <3>5. CallGood(q, d)'
      BY <1>1, <3>3, <3>4, CallGoodStays
    <3> QED BY <3>1, <3>5 DEF CallGood, Ready
  <2> QED BY <2>1, <2>2
<1> QED BY <1>1, <1>2, <1>8, <1>10 DEF Delivering, CallsInv

LEMMA ResolveDelivers ==
  ASSUME Delivering, NEW c \in Callers, Resolve(c)
  PROVE  Delivering'
<1>1. PICK r :
        /\ call[c].pc = "idle"
        /\ resolution' = [resolution EXCEPT ![c] = resolvePolicies(manifest, r)]
        /\ Entered(c, resolvePolicies(manifest, r).state = "invalid",
                   SelectedBy(c, resolvePolicies(manifest, r)))
        /\ UNCHANGED <<manifest, calls, preload, disk, session, cache, reads>>
  BY DEF Resolve, fixed
<1>2. /\ \A d \in Callers \ {c} : resolution'[d] = resolution[d]
      /\ resolution'[c] = resolvePolicies(manifest, r)
  BY <1>1 DEF Delivering, Keeping, Todo
<1>3. SelectedBy(c, resolvePolicies(manifest, r)) = Selected(c)'
  BY <1>1, <1>2, SelectedAfter
<1>4. Keeping'
  BY ResolveKeeps DEF Delivering
<1>5. Entered(c, resolvePolicies(manifest, r).state = "invalid", Selected(c)')
  BY <1>1, <1>3
<1> QED BY <1>1, <1>2, <1>4, <1>5, EntersDelivers

LEMMA CheckDelivers ==
  ASSUME Delivering, NEW c \in Callers, Check(c)
  PROVE  Delivering'
<1>1. /\ call[c].pc = "idle"
      /\ Entered(c, ~validatePolicyManifest(manifest), Selected(c))
      /\ UNCHANGED <<manifest, calls, preload, disk, session, cache, reads>>
      /\ UNCHANGED resolution
  BY DEF Check, fixed, asked
<1>2. Selected(c) = Selected(c)'
  BY <1>1 DEF Selected, SelectedBy, SourcesOf, Mode
<1>3. Keeping'
  BY CheckKeeps DEF Delivering
<1>4. Entered(c, ~validatePolicyManifest(manifest), Selected(c)')
  BY <1>1, <1>2
<1> QED BY <1>1, <1>3, <1>4, EntersDelivers

LEMMA InspectDelivers ==
  ASSUME Delivering, NEW c \in Callers, Inspect(c)
  PROVE  Delivering'
<1>1. /\ call[c].pc = "inspect"
      /\ UNCHANGED <<manifest, calls, preload, resolution, session, cache, reads>>
      /\ UNCHANGED disk
  BY DEF Inspect, fixed, asked
<1>2. FilesInv' /\ UNCHANGED <<files, held>>
  BY <1>1, FilesStay DEF Delivering
<1>3. SessionInv'
  BY <1>1, <1>2, SessionStays DEF Delivering
<1> DEFINE s == Min(call[c].todo)
           rest == call[c].todo \ {s}
<1> DEFINE cached == Mode(c) = "session" /\ cache[s] # Gone
           ok == cached \/ Inspected(s)
           look == IF cached \/ ~ok THEN Unseen ELSE Look(s)
           total == call[c].total + IF cached THEN Size(cache[s]) ELSE look.size
           failed == call[c].failed \/ ~ok
           over == total > TotalBytes \/ (~ok /\ Mode(c) # "check")
           pc == IF over THEN "failed"
                 ELSE IF rest # {} THEN "inspect"
                 ELSE IF failed THEN "failed" ELSE "load"
           todo == IF rest # {} THEN rest ELSE Selected(c)
           looked == [call[c].looked EXCEPT ![s] = look]
<1>4. PICK new :
        /\ new = [call[c] EXCEPT
                    !.looked[s] = look, !.failed = failed, !.todo = todo,
                    !.total = IF rest # {} THEN total ELSE 0, !.pc = pc]
        /\ call' = [call EXCEPT ![c] = new]
  BY DEF Inspect
<1>5. /\ CallShape(call[c]) /\ call = [d \in Callers |-> call[d]]
      /\ s \in Sources /\ Selected(c) \subseteq Sources
      /\ call[c].todo \subseteq Selected(c)
  BY <1>1, SelectedAreSources DEF Delivering, Keeping, Shape, Todo, Busy
<1>6. CallGood(call[c], c)
  BY DEF Delivering, CallsInv
<1>7. ok => cached \/ look.place \in Places
  BY <1>5 DEF Look, Delivering, FilesInv
<1> HIDE DEF ok, look, total, over, pc, rest, todo
<1>8. new.looked = looked /\ new.failed = failed
  BY <1>4, <1>5 DEF CallShape, CallFields
<1>9. new.docs = call[c].docs /\ new.pc = pc /\ new.todo = todo
  BY <1>4, <1>5 DEF CallShape, CallFields
<1>10. /\ looked = [t \in Sources |-> looked[t]]
       /\ \A t \in Sources : looked[t] = IF t = s THEN look ELSE call[c].looked[t]
  BY <1>6 DEF CallGood
<1> HIDE DEF looked, failed
<1>11. \A t \in Sources : new.docs[t] = Gone
  BY <1>1, <1>6, <1>9 DEF CallGood
<1>12. ASSUME NEW t \in Selected(c)
       PROVE  t \in rest \/ failed \/ Ready(new, c, t)
  <2>1. t \in Sources
    BY <1>5
  <2>2. CASE t = s
    BY <1>5, <1>7, <1>8, <1>10, <2>2 DEF failed, Ready
  <2>3. CASE t # s
    <3>1. t \in call[c].todo \/ call[c].failed \/ Ready(call[c], c, t)
      BY <1>1, <1>6 DEF CallGood
    <3>2. Ready(call[c], c, t) => Ready(new, c, t)
      BY <1>8, <1>10, <2>1, <2>3 DEF Ready
    <3> HIDE DEF Ready
    <3> QED BY <2>3, <3>1, <3>2 DEF rest, failed
  <2> QED BY <2>2, <2>3
<1>13. /\ pc \in {"failed", "inspect", "load"}
       /\ pc = "inspect" => todo = rest
       /\ pc = "load" => todo = Selected(c) /\ rest = {} /\ ~failed
  BY DEF pc, todo
<1>14. CallGood(new, c)
  <2> HIDE DEF Ready
  <2> QED BY <1>8, <1>9, <1>10, <1>11, <1>12, <1>13 DEF CallGood
<1>15. /\ call'[c] = new
       /\ \A d \in Callers \ {c} : call'[d] = call[d]
  BY <1>4, <1>5
<1>16. ReadsInv'
  BY <1>1, <1>2, <1>15, ReadsUntouched DEF Delivering
<1>17. CallsInv'
  BY <1>1, <1>2, <1>14, <1>15, CallsStay DEF Delivering, Keeping
<1> QED BY <1>2, <1>3, <1>16, <1>17, InspectKeeps DEF Delivering

LEMMA LoadDelivers ==
  ASSUME Delivering, NEW c \in Callers, Load(c)
  PROVE  Delivering'
<1> DEFINE s == Min(call[c].todo)
           x == IF Mode(c) = "session" THEN s ELSE c
<1>1. /\ call[c].pc = "load"
      /\ UNCHANGED <<manifest, calls, preload, resolution, session, cache>>
      /\ UNCHANGED disk
  BY DEF Load, fixed, asked
<1>2. FilesInv' /\ UNCHANGED <<files, held>>
  BY <1>1, FilesStay DEF Delivering
<1>3. SessionInv'
  BY <1>1, <1>2, SessionStays DEF Delivering
<1>4. /\ CallShape(call[c]) /\ call = [d \in Callers |-> call[d]]
      /\ s \in Sources /\ s \in Selected(c)
  BY <1>1, SelectedAreSources DEF Delivering, Keeping, Shape, Todo, Busy
<1>5. CallGood(call[c], c)
  BY DEF Delivering, CallsInv
<1>6. CASE /\ Mode(c) = "session" /\ cache[s] # Gone
           /\ call' = [call EXCEPT ![c] = Handed(c, s, cache[s])]
           /\ UNCHANGED reads
  <2>1. cache[s] \in held[s]
    BY <1>4, <1>6 DEF Delivering, SessionInv
  <2>2. PICK new : new = Handed(c, s, cache[s])
    OBVIOUS
  <2>3. CallGood(new, c)
    BY <1>1, <1>5, <2>1, <2>2, HandedIsGood DEF Delivering
  <2>4. /\ call'[c] = new
        /\ \A d \in Callers \ {c} : call'[d] = call[d]
    BY <1>4, <1>6, <2>2
  <2>5. ReadsInv'
    BY <1>1, <1>2, <1>6, <2>4, ReadsUntouched DEF Delivering
  <2>6. CallsInv'
    BY <1>1, <1>2, <2>3, <2>4, CallsStay DEF Delivering, Keeping
  <2> QED BY <1>2, <1>3, <2>5, <2>6, LoadKeeps DEF Delivering
<1>7. CASE /\ Mode(c) = "session" => cache[s] = Gone
           /\ call' = [call EXCEPT ![c] = [@ EXCEPT !.pc = "await"]]
           /\ reads' = IF reads[x].stage # "none" THEN reads
                       ELSE [reads EXCEPT ![x] = Begun(call[c].looked[s])]
  <2>1. PICK new : /\ call' = [call EXCEPT ![c] = new]
                   /\ new = [call[c] EXCEPT !.pc = "await"]
    BY <1>7
  <2>2. /\ new.docs = call[c].docs /\ new.looked = call[c].looked
        /\ new.failed = call[c].failed
    BY <1>4, <2>1 DEF CallShape, CallFields
  <2>3. new.pc = "await" /\ new.todo = call[c].todo
    BY <1>4, <2>1 DEF CallShape, CallFields
  <2>4. /\ call'[c] = new
        /\ \A d \in Callers \ {c} : call'[d] = call[d]
    BY <1>4, <2>1
  <2>5. \A t \in Sources : Ready(call[c], c, t) => Ready(new, c, t)
    BY <2>2 DEF Ready
  <2>6. CallGood(new, c)
    <3>1. Selected(c) \subseteq Sources
      BY SelectedAreSources DEF Delivering, Keeping
    <3> HIDE DEF Ready
    <3> QED BY <1>1, <1>5, <2>2, <2>3, <2>5, <3>1 DEF CallGood
  <2>7. CallsInv'
    BY <1>1, <1>2, <2>4, <2>6, CallsStay DEF Delivering, Keeping
  <2>8. call[c].looked[s].place \in Places
    BY <1>1, <1>4, <1>5, <1>7 DEF CallGood, Ready
  <2>9. /\ ReadShape(Begun(call[c].looked[s]))
        /\ \A t : ReadGood(Begun(call[c].looked[s]), t)
    BY <2>8, BegunIsGood
  <2>10. ASSUME NEW y \in Readers
         PROVE  SourceOf(y)' = SourceOf(y)
    BY <2>3, <2>4 DEF SourceOf, Readers
  <2>11. reads = [y \in Readers |-> reads[y]]
    BY DEF Delivering, Keeping, Shape
  <2>12. ASSUME NEW y \in Readers
         PROVE  \/ reads'[y] = reads[y]
                \/ y = x /\ reads'[y] = Begun(call[c].looked[s])
    BY <1>7, <2>11
  <2>13. ASSUME NEW y \in Readers
         PROVE  \/ reads'[y] = reads[y] /\ SourceOf(y)' = SourceOf(y)
                \/ ReadShape(reads'[y]) /\ ReadGood(reads'[y], SourceOf(y)')
    BY <2>9, <2>10, <2>12
  <2>14. ASSUME NEW d \in Callers, reads'[d].stage # "none"
         PROVE  call'[d].pc = "await"
    <3>1. CASE d = c
      BY <2>3, <2>4, <3>1
    <3>2. CASE d # c
      <4>1. d # x
        BY <1>4, <3>2, RanksAssumption
      <4>2. reads'[d] = reads[d] /\ call'[d] = call[d]
        BY <2>4, <2>12, <3>2, <4>1 DEF Readers
      <4> QED BY <2>14, <4>2 DEF Delivering, ReadsInv
    <3> QED BY <3>1, <3>2
  <2>15. ReadsInv'
    BY <1>2, <2>13, <2>14, ReadsStay DEF Delivering
  <2> QED BY <1>2, <1>3, <2>7, <2>15, LoadKeeps DEF Delivering
<1> QED BY <1>6, <1>7 DEF Load

(* The end of a read a session shares, for the session and its calls.      *)
LEMMA SharedReadDelivers ==
  ASSUME Delivering, Keeping', NEW x \in Sources, reads[x].stage # "none",
         NEW content, content # Gone => content \in held[x],
         UNCHANGED <<manifest, calls, preload, resolution, disk>>,
         reads' = [reads EXCEPT ![x] = NoRead],
         cache' = [cache EXCEPT ![x] = IF content = Gone THEN @ ELSE content],
         session' = IF session.pc = "reading" THEN Preloaded(x, content)
                    ELSE session,
         call' = [c \in Callers |->
                    IF Awaits(c, x) THEN Handed(c, x, content) ELSE call[c]]
  PROVE  Delivering'
<1>1. FilesInv' /\ UNCHANGED <<files, held>>
  BY FilesStay DEF Delivering
<1>2. /\ cache'[x] = content
      /\ \A s \in Sources \ {x} : cache'[s] = cache[s]
      /\ \A s \in Sources : cache[s] # Gone => cache'[s] # Gone
  BY DEF Delivering, Keeping, ReadOnce, Shape
<1>3. ASSUME NEW d \in Callers
      PROVE  call'[d] = call[d] \/ CallGood(call'[d], d)
  <2>1. CASE ~Awaits(d, x)
    BY <2>1
  <2>2. CASE Awaits(d, x)
    <3>1. call[d].pc = "await" /\ x = Min(call[d].todo)
      BY <2>2 DEF Awaits
    <3>2. CallGood(call[d], d)
      BY DEF Delivering, CallsInv
    <3>3. CallGood(Handed(d, x, content), d)
      BY <3>1, <3>2, HandedIsGood DEF Delivering
    <3> QED BY <2>2, <3>3
  <2> QED BY <2>1, <2>2
<1>4. CallsInv'
  BY <1>1, <1>2, <1>3, CallsStay DEF Delivering, Keeping
<1>5. ReadsInv'
  <2>1. ASSUME NEW y \in Readers, reads'[y] # NoRead
        PROVE  /\ reads'[y] = reads[y]
               /\ reads[y].stage # "none" => SourceOf(y)' = SourceOf(y)
               /\ y \in Callers /\ reads[y].stage # "none" => call'[y] = call[y]
    <3>1. y # x /\ reads'[y] = reads[y]
      BY <2>1 DEF Delivering, Keeping, Shape
    <3>2. ASSUME y \in Callers, reads[y].stage # "none"
          PROVE  call'[y] = call[y]
      <4>1. Mode(y) # "session"
        BY <3>2 DEF Delivering, Keeping, NoOwnReads, SessionCalls
      <4> QED BY <3>2, <4>1 DEF Awaits
    <3>3. reads[y].stage # "none" => SourceOf(y)' = SourceOf(y)
      BY <3>2 DEF SourceOf, Readers
    <3> QED BY <3>1, <3>2, <3>3
  <2>2. ASSUME NEW c \in Callers, reads'[c].stage # "none"
        PROVE  call'[c].pc = "await"
    <3>1. c \in Readers /\ reads'[c] # NoRead
      BY <2>2 DEF NoRead, Readers
    <3>2. reads[c].stage # "none" /\ call'[c] = call[c]
      BY <2>1, <2>2, <3>1
    <3> QED BY <3>2 DEF Delivering, ReadsInv
  <2> QED BY <1>1, <2>1, <2>2, ReadsStay DEF Delivering
<1>6. SessionInv'
  <2>1. \A s \in Sources : cache'[s] # Gone => cache'[s] \in held'[s]
    BY <1>1, <1>2 DEF Delivering, SessionInv
  <2>2. SourcesOf(manifest.policies)' = SourcesOf(manifest.policies)
    BY DEF SourcesOf
  <2>3. SourcesOf(manifest.policies) \subseteq Sources
    BY DEF Delivering, Keeping, Todo, SourcesOf
  <2>4. CASE session.pc # "reading"
    <3>1. session.pc \notin {"inspecting", "unprepared"}
      BY DEF Delivering, Keeping, Fresh
    <3> QED BY <1>1, <1>2, <2>1, <2>2, <2>3, <2>4, <3>1 DEF Delivering, SessionInv
  <2>5. CASE session.pc = "reading"
    <3> DEFINE rest == session.todo \ {x}
               failed == session.failed \/ content = Gone
               pc == IF rest # {} THEN session.pc
                     ELSE IF failed THEN "refused" ELSE "open"
    <3>1. session' = [session EXCEPT !.todo = rest, !.failed = failed, !.pc = pc]
      BY <2>5 DEF Preloaded
    <3> HIDE DEF rest, failed, pc
    <3>2. /\ session'.pc = pc /\ session'.todo = rest
          /\ session'.failed = failed /\ session'.looked = session.looked
      BY <3>1 DEF Delivering, Keeping, Shape
    <3>3. ASSUME NEW s \in SourcesOf(manifest.policies)
          PROVE  s \in rest \/ failed \/ cache'[s] # Gone
      <4>1. s \in session.todo \/ session.failed \/ cache[s] # Gone
        BY <2>3, <2>5 DEF Delivering, SessionInv
      <4> QED BY <1>2, <2>3, <4>1 DEF rest, failed
    <3>4. /\ pc \in {"reading", "refused", "open"}
          /\ pc = "open" => rest = {} /\ ~failed
      BY <2>5 DEF pc
    <3>5. preload = "sources"
      BY <2>5 DEF Delivering, SessionInv
    <3>6. session'.looked = [s \in Sources |-> session'.looked[s]]
      BY <3>2 DEF Delivering, SessionInv
    <3> QED BY <2>1, <2>2, <3>2, <3>3, <3>4, <3>5, <3>6 DEF SessionInv
  <2> QED BY <2>4, <2>5
<1> QED BY <1>1, <1>4, <1>5, <1>6 DEF Delivering

LEMMA OwnReadDelivers ==
  ASSUME Delivering, Keeping', NEW c \in Callers, reads[c].stage # "none",
         NEW s, s = Min(call[c].todo),
         NEW content, content # Gone => content \in held[s],
         UNCHANGED <<manifest, calls, preload, resolution, disk, session, cache>>,
         reads' = [reads EXCEPT ![c] = NoRead],
         call' = [call EXCEPT ![c] = Handed(c, s, content)]
  PROVE  Delivering'
<1>1. FilesInv' /\ UNCHANGED <<files, held>>
  BY FilesStay DEF Delivering
<1>2. SessionInv'
  BY <1>1, SessionStays DEF Delivering
<1>3. PICK new : new = Handed(c, s, content)
  OBVIOUS
<1>4. call[c].pc = "await" /\ CallGood(call[c], c)
  BY DEF Delivering, ReadsInv, CallsInv
<1>5. CallGood(new, c)
  BY <1>3, <1>4, HandedIsGood DEF Delivering
<1>6. /\ call'[c] = new
      /\ \A d \in Callers \ {c} : call'[d] = call[d]
  BY <1>3 DEF Delivering, Keeping, Shape
<1>7. CallsInv'
  BY <1>1, <1>5, <1>6, CallsStay DEF Delivering, Keeping
<1>8. ASSUME NEW y \in Readers
      PROVE  reads'[y] = IF y = c THEN NoRead ELSE reads[y]
  BY DEF Delivering, Keeping, Shape
<1>9. ASSUME NEW y \in Readers
      PROVE  \/ reads'[y] = NoRead
             \/ reads'[y] = reads[y] /\ SourceOf(y)' = SourceOf(y)
  <2>1. y # c => SourceOf(y)' = SourceOf(y)
    BY <1>6 DEF SourceOf, Readers
  <2> QED BY <1>8, <2>1
<1>10. ASSUME NEW d \in Callers, reads'[d].stage # "none"
       PROVE  call'[d].pc = "await"
  <2>1. d # c /\ reads'[d] = reads[d]
    BY <1>8, <1>10 DEF NoRead, Readers
  <2> QED BY <1>6, <1>10, <2>1 DEF Delivering, ReadsInv
<1>11. ReadsInv'
  BY <1>1, <1>9, <1>10, ReadsStay DEF Delivering
<1> QED BY <1>1, <1>2, <1>7, <1>11 DEF Delivering

LEMMA AdvanceDelivers ==
  ASSUME Delivering, Keeping', NEW x \in Readers, reads[x].stage # "none",
         NEW stage, NEW first, NEW same, Advance(x, stage, first, same),
         ReadGood([reads[x] EXCEPT !.stage = stage, !.first = first,
                                   !.same = same], SourceOf(x)),
         UNCHANGED <<manifest, calls, preload, resolution, disk>>
  PROVE  Delivering'
<1>1. FilesInv' /\ UNCHANGED <<files, held>>
  BY FilesStay DEF Delivering
<1>2. UNCHANGED <<session, cache, call>>
  BY DEF Advance
<1>3. SessionInv' /\ CallsInv'
  BY <1>1, <1>2, SessionStays, CallsStay DEF Delivering, Keeping
<1>4. PICK r : /\ r = [reads[x] EXCEPT !.stage = stage, !.first = first,
                                       !.same = same]
               /\ reads' = [reads EXCEPT ![x] = r]
  BY DEF Advance
<1>5. ReadShape(r) /\ ReadGood(r, SourceOf(x))
  BY <1>4 DEF Delivering, ReadsInv, ReadShape
<1>6. ASSUME NEW y \in Readers
      PROVE  /\ SourceOf(y)' = SourceOf(y)
             /\ reads'[y] = IF y = x THEN r ELSE reads[y]
  BY <1>2, <1>4 DEF SourceOf, Delivering, Keeping, Shape
<1>7. ASSUME NEW y \in Readers
      PROVE  \/ reads'[y] = reads[y] /\ SourceOf(y)' = SourceOf(y)
             \/ ReadShape(reads'[y]) /\ ReadGood(reads'[y], SourceOf(y)')
  BY <1>5, <1>6
<1>8. \A c \in Callers : reads'[c].stage # "none" => call'[c].pc = "await"
  BY <1>2, <1>6 DEF Delivering, ReadsInv, Readers
<1>9. ReadsInv'
  BY <1>1, <1>7, <1>8, ReadsStay DEF Delivering
<1> QED BY <1>1, <1>3, <1>9 DEF Delivering

LEMMA ReadDelivers ==
  ASSUME Delivering, NEW x \in Readers, Read(x)
  PROVE  Delivering'
<1>1. UNCHANGED <<manifest, calls, preload, resolution, disk>>
  BY DEF Read, fixed, asked
<1>2. reads[x].stage # "none"
  BY DEF Read, ReadHead, ReadTail, Recheck, ReadHeadAgain, ReadTailAgain
<1>3. Keeping'
  BY ReadKeeps DEF Delivering
<1>4. SourceOf(x) \in Sources
  <2>1. CASE x \in Sources
    BY <2>1 DEF SourceOf
  <2>2. CASE x \in Callers /\ x \notin Sources
    <3>1. Busy(x)
      BY <1>2, <2>2 DEF Delivering, ReadsInv, Busy
    <3> QED BY <2>2, <3>1, SelectedAreSources DEF Delivering, Keeping, SourceOf
  <2> QED BY <2>1, <2>2 DEF Readers
<1>5. \/ \E content \in Contents \cup {Gone} :
           /\ EndRead(x, content)
           /\ content # Gone => content \in held[SourceOf(x)]
      \/ \E stage \in Stages \ {"none"} : \E first, same :
           /\ Advance(x, stage, first, same)
           /\ ReadGood([reads[x] EXCEPT !.stage = stage, !.first = first,
                                        !.same = same], SourceOf(x))
  BY <1>4, ReadSteps DEF Delivering
<1>6. ASSUME NEW content, EndRead(x, content),
             content # Gone => content \in held[SourceOf(x)]
      PROVE  Delivering'
  <2>1. CASE x \in Sources /\ x \notin Callers
    <3>1. SourceOf(x) = x
      BY <2>1 DEF SourceOf
    <3>2. /\ reads' = [reads EXCEPT ![x] = NoRead]
          /\ cache' = [cache EXCEPT ![x] = IF content = Gone THEN @ ELSE content]
          /\ session' = IF session.pc = "reading" THEN Preloaded(x, content)
                        ELSE session
          /\ call' = [c \in Callers |->
                        IF Awaits(c, x) THEN Handed(c, x, content) ELSE call[c]]
      BY <1>6, <2>1 DEF EndRead
    <3> QED BY <1>1, <1>2, <1>3, <1>6, <2>1, <3>1, <3>2, SharedReadDelivers
  <2>2. CASE x \in Callers /\ x \notin Sources
    <3>1. SourceOf(x) = Min(call[x].todo)
      BY <2>2 DEF SourceOf
    <3>2. /\ reads' = [reads EXCEPT ![x] = NoRead]
          /\ call' = [call EXCEPT ![x] = Handed(x, SourceOf(x), content)]
          /\ UNCHANGED <<session, cache>>
      BY <1>6, <2>2 DEF EndRead
    <3> QED BY <1>1, <1>2, <1>3, <1>6, <2>2, <3>1, <3>2, OwnReadDelivers
  <2> QED BY <2>1, <2>2, RanksAssumption DEF Readers
<1>7. ASSUME NEW stage, NEW first, NEW same, Advance(x, stage, first, same),
             ReadGood([reads[x] EXCEPT !.stage = stage, !.first = first,
                                       !.same = same], SourceOf(x))
      PROVE  Delivering'
  BY <1>1, <1>2, <1>3, <1>7, AdvanceDelivers
<1> QED BY <1>5, <1>6, <1>7

(***************************************************************************)
(* The editor only adds to what a source had, and never returns to a       *)
(* version.                                                                *)
(***************************************************************************)
LEMMA EditsDeliver ==
  ASSUME Delivering, Changed, Edited, FilesInv'
  PROVE  Delivering'
<1>1. UNCHANGED <<manifest, calls, preload, resolution, session, cache, reads, call>>
  BY DEF Changed, fixed, asked
<1>2. \A s \in Sources : held[s] \subseteq held'[s]
  BY DEF Edited
<1>3. SessionInv' /\ CallsInv'
  BY <1>1, <1>2, SessionStays, CallsStay DEF Delivering, Keeping
<1>4. ASSUME NEW x \in Readers
      PROVE  ReadShape(reads[x])' /\ ReadGood(reads[x], SourceOf(x))'
  <2>1. PICK r, s : r = reads[x] /\ s = SourceOf(x)
    OBVIOUS
  <2>2. r = reads'[x] /\ s = SourceOf(x)'
    BY <1>1, <2>1 DEF SourceOf
  <2>3. ReadShape(r) /\ ReadGood(r, s)
    BY <2>1 DEF Delivering, ReadsInv
  <2>4. ReadGood(r, s)'
    <3>1. CASE r.stage = "none"
      BY <3>1 DEF ReadGood
    <3>2. CASE r.stage # "none"
      <4>1. s \in Sources
        <5>1. CASE x \in Sources
          BY <2>1, <5>1 DEF SourceOf
        <5>2. CASE x \in Callers /\ x \notin Sources
          <6>1. Busy(x)
            BY <2>1, <3>2, <5>2 DEF Delivering, ReadsInv, Busy
          <6> QED BY <2>1, <5>2, <6>1, SelectedAreSources
                  DEF Delivering, Keeping, SourceOf
        <5> QED BY <5>1, <5>2 DEF Readers
      <4> QED BY <2>3, <4>1, ReadGoodEdited DEF Delivering
    <3> QED BY <3>1, <3>2
  <2>5. ReadGood(reads[x], SourceOf(x))'
    <3> HIDE DEF SourceOf
    <3> QED BY <2>2, <2>4 DEF ReadGood
  <2> QED BY <2>2, <2>3, <2>5 DEF ReadShape
<1>5. ReadsInv'
  BY <1>1, <1>4 DEF Delivering, ReadsInv
<1>6. Keeping'
  BY KeepingStays DEF Delivering, Changed
<1> QED BY <1>3, <1>5, <1>6 DEF Delivering

LEMMA ChangedHolds ==
  ASSUME FilesInv, Changed,
         files' \in [Places -> Contents \cup {Gone}],
         place' \in [Sources -> Places],
         \A f \in Places : files'[f] # Gone =>
           /\ files'[f][2] <= files'[f][1]
           /\ files[f] # Gone
           /\ files[f][1] <= files'[f][1] /\ files[f][2] <= files'[f][2]
  PROVE  Edited /\ FilesInv'
<1>1. /\ held' = [s \in Sources |-> held'[s]]
      /\ \A s \in Sources : /\ held[s] \subseteq held'[s]
                            /\ files'[place'[s]] \in held'[s]
  BY DEF Changed
<1> QED BY <1>1 DEF Edited, FilesInv

LEMMA WriteHeadDelivers ==
  ASSUME Delivering, NEW f \in Places, WriteHead(f)
  PROVE  Delivering'
<1>1. /\ Changed /\ place' = place
      /\ files[f] # Gone /\ files[f][1] = files[f][2]
      /\ files[f][1] + 1 \in Versions
      /\ files' = [files EXCEPT ![f][1] = @ + 1]
  BY DEF WriteHead
<1>2. PICK v \in Versions : files[f] = <<v, v>>
  BY <1>1, ContentFacts DEF Delivering, FilesInv
<1>3. v \in Nat /\ v + 1 \in Versions
  BY <1>1, <1>2, SizesAssumption
<1>4. PICK new : /\ new = [files[f] EXCEPT ![1] = @ + 1]
                 /\ files' = [files EXCEPT ![f] = new]
  BY <1>1
<1>5. new = <<v + 1, v>>
  BY <1>2, <1>4
<1>6. new \in Contents /\ new # Gone /\ new[1] = v + 1 /\ new[2] = v
  BY <1>3, <1>5, ContentFacts
<1>7. /\ files' \in [Places -> Contents \cup {Gone}]
      /\ \A g \in Places : files'[g] = IF g = f THEN new ELSE files[g]
  BY <1>4, <1>6 DEF Delivering, FilesInv
<1>8. ASSUME NEW g \in Places, files'[g] # Gone
      PROVE  /\ files'[g][2] <= files'[g][1] /\ files[g] # Gone
             /\ files[g][1] <= files'[g][1] /\ files[g][2] <= files'[g][2]
  <2>1. CASE g = f
    BY <1>1, <1>2, <1>3, <1>6, <1>7, <2>1
  <2>2. CASE g # f
    <3>1. files'[g] = files[g] /\ files[g][1] \in Nat /\ files[g][2] \in Nat
      BY <1>7, <1>8, <2>2, ContentFacts DEF Delivering, FilesInv
    <3> QED BY <1>8, <3>1 DEF Delivering, FilesInv
  <2> QED BY <2>1, <2>2
<1>9. Edited /\ FilesInv'
  BY <1>1, <1>7, <1>8, ChangedHolds DEF Delivering, FilesInv
<1> QED BY <1>1, <1>9, EditsDeliver

LEMMA WriteTailDelivers ==
  ASSUME Delivering, NEW f \in Places, WriteTail(f)
  PROVE  Delivering'
<1>1. /\ Changed /\ place' = place /\ files[f] # Gone
      /\ files' = [files EXCEPT ![f][2] = files[f][1]]
  BY DEF WriteTail
<1>2. PICK v, w \in Versions : files[f] = <<v, w>>
  BY <1>1, ContentFacts DEF Delivering, FilesInv
<1>3. v \in Nat /\ w \in Nat /\ w <= v
  BY <1>1, <1>2, SizesAssumption DEF Delivering, FilesInv
<1>4. PICK new : /\ new = [files[f] EXCEPT ![2] = files[f][1]]
                 /\ files' = [files EXCEPT ![f] = new]
  BY <1>1
<1>5. new = <<v, v>>
  BY <1>2, <1>4
<1>6. new \in Contents /\ new # Gone /\ new[1] = v /\ new[2] = v
  BY <1>3, <1>5, ContentFacts
<1>7. /\ files' \in [Places -> Contents \cup {Gone}]
      /\ \A g \in Places : files'[g] = IF g = f THEN new ELSE files[g]
  BY <1>4, <1>6 DEF Delivering, FilesInv
<1>8. ASSUME NEW g \in Places, files'[g] # Gone
      PROVE  /\ files'[g][2] <= files'[g][1] /\ files[g] # Gone
             /\ files[g][1] <= files'[g][1] /\ files[g][2] <= files'[g][2]
  <2>1. CASE g = f
    BY <1>1, <1>2, <1>3, <1>6, <1>7, <2>1
  <2>2. CASE g # f
    <3>1. files'[g] = files[g] /\ files[g][1] \in Nat /\ files[g][2] \in Nat
      BY <1>7, <1>8, <2>2, ContentFacts DEF Delivering, FilesInv
    <3> QED BY <1>8, <3>1 DEF Delivering, FilesInv
  <2> QED BY <2>1, <2>2
<1>9. Edited /\ FilesInv'
  BY <1>1, <1>7, <1>8, ChangedHolds DEF Delivering, FilesInv
<1> QED BY <1>1, <1>9, EditsDeliver

(* Taking a file away, and having a source name another one.               *)
LEMMA MovesDeliver ==
  ASSUME Delivering, Changed,
         place' \in [Sources -> Places],
         files' \in [Places -> Contents \cup {Gone}],
         \A g \in Places : files'[g] = Gone \/ files'[g] = files[g]
  PROVE  Delivering'
<1>1. ASSUME NEW g \in Places, files'[g] # Gone
      PROVE  /\ files'[g][2] <= files'[g][1] /\ files[g] # Gone
             /\ files[g][1] <= files'[g][1] /\ files[g][2] <= files'[g][2]
  <2>1. files'[g] = files[g] /\ files[g][1] \in Nat /\ files[g][2] \in Nat
    BY <1>1, ContentFacts DEF Delivering, FilesInv
  <2> QED BY <1>1, <2>1 DEF Delivering, FilesInv
<1>2. Edited /\ FilesInv'
  BY <1>1, ChangedHolds DEF Delivering
<1> QED BY <1>2, EditsDeliver

LEMMA DeliveringNext ==
  ASSUME Delivering, [Next]_vars
  PROVE  Delivering'
<1>1. CASE Prepare
  BY <1>1, PrepareDelivers
<1>2. CASE \E s \in Sources : PreloadInspect(s)
  BY <1>2, PreloadInspectDelivers
<1>3. CASE \E c \in Callers : Resolve(c) \/ Check(c) \/ Inspect(c) \/ Load(c)
  BY <1>3, ResolveDelivers, CheckDelivers, InspectDelivers, LoadDelivers
<1>4. CASE \E x \in Readers : Read(x)
  BY <1>4, ReadDelivers
<1>5. CASE \E f \in Places : WriteHead(f) \/ WriteTail(f)
  BY <1>5, WriteHeadDelivers, WriteTailDelivers
<1>6. ASSUME NEW f \in Places, Unlink(f)
      PROVE  Delivering'
  <2>1. /\ Changed /\ place' = place /\ files' = [files EXCEPT ![f] = Gone]
    BY <1>6 DEF Unlink
  <2>2. /\ place' \in [Sources -> Places]
        /\ files' \in [Places -> Contents \cup {Gone}]
        /\ \A g \in Places : files'[g] = Gone \/ files'[g] = files[g]
    BY <2>1 DEF Delivering, FilesInv
  <2> QED BY <2>1, <2>2, MovesDeliver
<1>7. ASSUME NEW s \in Sources, NEW f \in Places, Relink(s, f)
      PROVE  Delivering'
  <2>1. /\ Changed /\ files' = files /\ place' = [place EXCEPT ![s] = f]
    BY <1>7 DEF Relink
  <2>2. /\ place' \in [Sources -> Places]
        /\ files' \in [Places -> Contents \cup {Gone}]
    BY <2>1 DEF Delivering, FilesInv
  <2> QED BY <2>1, <2>2, MovesDeliver
<1>8. CASE UNCHANGED vars
  <2>1. UNCHANGED <<manifest, calls, preload, disk, session, cache, reads, call>>
        /\ UNCHANGED <<resolution, files, held>>
    BY <1>8 DEF vars, fixed, disk, asked
  <2>2. Keeping'
    BY <1>8, KeepingNext DEF Delivering
  <2>3. FilesInv' /\ ReadsInv'
    BY <2>1, FilesStay, ReadsUntouched DEF Delivering
  <2>4. CallsInv' /\ SessionInv'
    BY <2>1, CallsStay, SessionStays DEF Delivering, Keeping
  <2> QED BY <2>2, <2>3, <2>4 DEF Delivering
<1> QED BY <1>1, <1>2, <1>3, <1>4, <1>5, <1>6, <1>7, <1>8 DEF Next

(***************************************************************************)
(* Whatever its readers do and whatever is edited meanwhile, as long as no *)
(* file returns to an earlier version, a complete bundle, and a check that *)
(* found nothing, had every source selected and no other, each with a      *)
(* content that was on disk at one moment, however the reading of its      *)
(* halves and the writing of them interleaved; an open preloaded session   *)
(* has them all (prepared.ts:113-246, bundle.ts:120-219,                   *)
(* check.ts:59-115).                                                       *)
(***************************************************************************)
THEOREM SourcesAreDelivered == Spec => []SourcesDelivered
<1>1. Init => Delivering
  BY DeliveringInit
<1>2. Delivering /\ [Next]_vars => Delivering'
  BY DeliveringNext
<1>3. Delivering => SourcesDelivered
  BY DeliveringGives
<1> QED BY <1>1, <1>2, <1>3, PTL DEF Spec

(***************************************************************************)
(* Sums: of numbers, at most as large where each is, and changed by what   *)
(* one of them is changed by. The recursion behind a sum is a function of  *)
(* the parts of its domain; what holds of every part is shown by looking   *)
(* at a smallest one of which it would not.                                *)
(***************************************************************************)
One(s) == CHOOSE x \in s : TRUE

Step(it, f, s) ==
  IF s = {} THEN 0 ELSE f[One(s)] + it[s \ {One(s)}]

Adds(it, f) == it = [s \in SUBSET DOMAIN f |-> Step(it, f, s)]

LEMMA OneIsIn == ASSUME NEW s, s # {} PROVE One(s) \in s
BY DEF One

LEMMA AddingExists ==
  ASSUME NEW S, IsFiniteSet(S), NEW f, DOMAIN f = S
  PROVE  \E it : Adds(it, f)
<1> DEFINE Good(it, n) == \A s \in SUBSET S :
                            Cardinality(s) <= n => it[s] = Step(it, f, s)
           T == {n \in Nat : ~\E it : it = [s \in SUBSET S |-> it[s]] /\ Good(it, n)}
<1>1. \A s \in SUBSET S :
         /\ IsFiniteSet(s) /\ Cardinality(s) \in Nat
         /\ Cardinality(s) <= Cardinality(S)
         /\ s # {} => /\ One(s) \in s /\ s \ {One(s)} \in SUBSET S
                      /\ Cardinality(s \ {One(s)}) = Cardinality(s) - 1
                      /\ Cardinality(s) # 0
  BY FS_Subset, FS_CardinalityType, FS_RemoveElement, FS_EmptySet, OneIsIn
<1>2. T = {}
  <2> SUFFICES ASSUME T # {} PROVE FALSE
    OBVIOUS
  <2>1. PICK n \in T : \A m \in T : n <= m
    <3> HIDE DEF T
    <3>1. T \in SUBSET Nat
      BY DEF T
    <3> QED BY <3>1, LeastNumber
  <2>2. ASSUME NEW few, n = 0 \/ Good(few, n - 1)
        PROVE  FALSE
    <3> DEFINE it == [s \in SUBSET S |-> Step(few, f, s)]
    <3>1. it = [s \in SUBSET S |-> it[s]]
      OBVIOUS
    <3>2. ASSUME NEW s \in SUBSET S, Cardinality(s) <= n
          PROVE  it[s] = Step(it, f, s)
      <4>1. CASE s = {}
        BY <4>1 DEF Step
      <4>2. CASE s # {}
        <5> DEFINE t == s \ {One(s)}
        <5>1. /\ n # 0 /\ t \in SUBSET S /\ Cardinality(t) <= n - 1
          BY <1>1, <2>1, <3>2, <4>2
        <5>2. few[t] = Step(few, f, t)
          BY <2>2, <5>1
        <5>3. it[t] = few[t]
          BY <5>1, <5>2
        <5> QED BY <4>2, <5>3 DEF Step
      <4> QED BY <4>1, <4>2
    <3> HIDE DEF it
    <3>3. Good(it, n)
      BY <3>2
    <3> QED BY <2>1, <3>1, <3>3
  <2>3. CASE n = 0
    BY <2>2, <2>3
  <2>4. CASE n # 0
    <3>1. n - 1 \in Nat /\ ~(n <= n - 1)
      BY <2>1, <2>4
    <3>2. n - 1 \notin T
      <4> HIDE DEF T
      <4> QED BY <2>1, <3>1
    <3>3. PICK few : Good(few, n - 1)
      BY <3>1, <3>2
    <3> QED BY <2>2, <3>3
  <2> QED BY <2>3, <2>4
<1>3. Cardinality(S) \in Nat
  BY FS_CardinalityType
<1>4. PICK it : it = [s \in SUBSET S |-> it[s]] /\ Good(it, Cardinality(S))
  BY <1>2, <1>3
<1>5. \A s \in SUBSET S : it[s] = Step(it, f, s)
  BY <1>1, <1>4
<1>6. Adds(it, f)
  BY <1>4, <1>5 DEF Adds
<1> QED BY <1>6

(* The sum over a part.                                                   *)
Part(f, s) == (CHOOSE it : Adds(it, f))[s]

LEMMA SumIsPart ==
  ASSUME NEW f
  PROVE  SumOf(f) = Part(f, DOMAIN f)
BY DEF SumOf, MapThenSumSet, MapThenFoldSet, Part, Adds, Step, One

LEMMA PartIs ==
  ASSUME NEW S, IsFiniteSet(S), NEW f, DOMAIN f = S
  PROVE  /\ Part(f, {}) = 0
         /\ \A s \in SUBSET S : s # {} =>
              Part(f, s) = f[One(s)] + Part(f, s \ {One(s)})
<1> DEFINE it == CHOOSE it : Adds(it, f)
<1>1. Adds(it, f)
  BY AddingExists
<1>2. \A s : Part(f, s) = it[s]
  BY DEF Part
<1> HIDE DEF it
<1>3. \A s \in SUBSET S : it[s] = Step(it, f, s)
  BY <1>1 DEF Adds
<1> QED BY <1>2, <1>3 DEF Step

LEMMA PartIsNat ==
  ASSUME NEW S, IsFiniteSet(S), NEW f \in [S -> Nat], NEW s \in SUBSET S
  PROVE  Part(f, s) \in Nat
<1> DEFINE T == {t \in SUBSET S : Part(f, t) \notin Nat}
<1>1. T = {}
  <2> SUFFICES ASSUME T # {} PROVE FALSE
    OBVIOUS
  <2>1. PICK t \in T : \A u \in T : u \subseteq t => u = t
    <3> HIDE DEF T
    <3>1. T \in SUBSET (SUBSET S)
      BY DEF T
    <3> QED BY <3>1, LeastSubset
  <2>2. t # {}
    <3>1. Part(f, {}) = 0
      BY PartIs
    <3>2. Part(f, t) \notin Nat
      BY <2>1
    <3> HIDE DEF T
    <3> QED BY <3>1, <3>2
  <2>3. One(t) \in t
    BY <2>2, OneIsIn
  <2>4. Part(f, t \ {One(t)}) \in Nat
    BY <2>1, <2>3
  <2>5. f[One(t)] \in Nat
    BY <2>1, <2>3
  <2> QED BY <2>1, <2>2, <2>4, <2>5, PartIs
<1> QED BY <1>1

(* Any of a part may be taken first.                                       *)
LEMMA PartWithout ==
  ASSUME NEW S, IsFiniteSet(S), NEW f \in [S -> Nat], NEW s \in SUBSET S, NEW x \in s
  PROVE  Part(f, s) = f[x] + Part(f, s \ {x})
<1> DEFINE Bad(t) == \E y \in t : Part(f, t) # f[y] + Part(f, t \ {y})
           T == {t \in SUBSET S : Bad(t)}
<1>1. T = {}
  <2> SUFFICES ASSUME T # {} PROVE FALSE
    OBVIOUS
  <2>1. PICK t \in T : \A u \in T : u \subseteq t => u = t
    <3> HIDE DEF T
    <3>1. T \in SUBSET (SUBSET S)
      BY DEF T
    <3> QED BY <3>1, LeastSubset
  <2>2. PICK y \in t : Part(f, t) # f[y] + Part(f, t \ {y})
    BY <2>1
  <2>3. PICK z : z = One(t) /\ z \in t
    BY <2>2, OneIsIn
  <2>4. Part(f, t) = f[z] + Part(f, t \ {z})
    BY <2>1, <2>3, PartIs
  <2>5. y # z
    BY <2>2, <2>4
  <2> DEFINE u == t \ {z}
             v == t \ {y}
             w == t \ {y, z}
  <2>6. /\ u \in SUBSET S /\ ~Bad(u) /\ y \in u /\ u \ {y} = w
        /\ v \in SUBSET S /\ ~Bad(v) /\ z \in v /\ v \ {z} = w
        /\ w \in SUBSET S
    <3>1. /\ u \in SUBSET S /\ u \subseteq t /\ u # t /\ y \in u /\ u \ {y} = w
          /\ v \in SUBSET S /\ v \subseteq t /\ v # t /\ z \in v /\ v \ {z} = w
          /\ w \in SUBSET S
      BY <2>2, <2>3, <2>5
    <3>2. u \notin T /\ v \notin T
      <4> HIDE DEF T, u, v
      <4> QED BY <2>1, <3>1
    <3> QED BY <3>1, <3>2
  <2>7. Part(f, u) = f[y] + Part(f, w) /\ Part(f, v) = f[z] + Part(f, w)
    BY <2>6
  <2>8. Part(f, w) \in Nat /\ f[y] \in Nat /\ f[z] \in Nat
    BY <2>1, <2>2, <2>3, <2>6, PartIsNat
  <2> HIDE DEF u, v, w
  <2> QED BY <2>2, <2>4, <2>7, <2>8 DEF u, v
<1> QED BY <1>1

LEMMA PartAtMost ==
  ASSUME NEW S, IsFiniteSet(S), NEW f \in [S -> Nat],
         NEW R \in SUBSET S, NEW g \in [R -> Nat], NEW s \in SUBSET S,
         \A x \in s : IF x \in R THEN f[x] <= g[x] ELSE f[x] = 0
  PROVE  Part(f, s) <= Part(g, s \cap R)
<1> DEFINE T == {t \in SUBSET s : ~(Part(f, t) <= Part(g, t \cap R))}
<1>0. IsFiniteSet(R) /\ IsFiniteSet(s)
  BY FS_Subset
<1>1. T = {}
  <2> SUFFICES ASSUME T # {} PROVE FALSE
    OBVIOUS
  <2>1. PICK t \in T : \A u \in T : u \subseteq t => u = t
    <3> HIDE DEF T
    <3>1. T \in SUBSET (SUBSET s)
      BY DEF T
    <3> QED BY <1>0, <3>1, LeastSubset
  <2>2. t # {}
    <3> SUFFICES ASSUME t = {} PROVE FALSE
      OBVIOUS
    <3>1. Part(f, {}) = 0 /\ Part(g, {}) = 0 /\ {} \cap R = {}
      BY <1>0, PartIs
    <3> QED BY <2>1, <3>1
  <2>3. PICK x : x \in t
    BY <2>2
  <2>9. t \in SUBSET s /\ ~(Part(f, t) <= Part(g, t \cap R))
    BY <2>1
  <2> DEFINE u == t \ {x}
  <2>4. u \in SUBSET s /\ Part(f, u) <= Part(g, u \cap R)
    BY <2>1, <2>3
  <2>5. Part(f, t) = f[x] + Part(f, u)
    BY <2>1, <2>3, PartWithout
  <2>6. /\ f[x] \in Nat /\ Part(f, u) \in Nat /\ Part(g, u \cap R) \in Nat
    BY <1>0, <2>1, <2>3, <2>4, PartIsNat
  <2>7. CASE x \in R
    <3>1. u \cap R = (t \cap R) \ {x} /\ x \in t \cap R /\ t \cap R \in SUBSET R
      BY <2>3, <2>7
    <3>2. Part(g, t \cap R) = g[x] + Part(g, u \cap R)
      BY <1>0, <3>1, PartWithout
    <3>3. f[x] <= g[x] /\ g[x] \in Nat
      BY <2>1, <2>3, <2>7
    <3> HIDE DEF u
    <3> QED BY <2>4, <2>5, <2>6, <2>9, <3>2, <3>3
  <2>8. CASE x \notin R
    <3>1. u \cap R = t \cap R
      BY <2>8
    <3>2. f[x] = 0
      BY <2>1, <2>3, <2>8
    <3> HIDE DEF u
    <3> QED BY <2>4, <2>5, <2>6, <2>9, <3>1, <3>2
  <2> QED BY <2>7, <2>8
<1> QED BY <1>1

(* What is used of sums.                                                   *)
LEMMA SumIsNat ==
  ASSUME NEW S, IsFiniteSet(S), NEW f \in [S -> Nat]
  PROVE  SumOf(f) \in Nat
BY SumIsPart, PartIsNat

LEMMA SumAtMost ==
  ASSUME NEW S, IsFiniteSet(S), NEW f \in [S -> Nat],
         NEW R \in SUBSET S, NEW g \in [R -> Nat],
         \A x \in S : IF x \in R THEN f[x] <= g[x] ELSE f[x] = 0
  PROVE  SumOf(f) <= SumOf(g)
<1>1. Part(f, S) <= Part(g, S \cap R)
  BY PartAtMost
<1>2. S \cap R = R
  OBVIOUS
<1> QED BY <1>1, <1>2, SumIsPart

LEMMA SumChanged ==
  ASSUME NEW S, IsFiniteSet(S), NEW f \in [S -> Nat], NEW x \in S, NEW g \in [S -> Nat],
         \A y \in S \ {x} : g[y] = f[y]
  PROVE  SumOf(g) + f[x] = SumOf(f) + g[x]
<1> DEFINE s == S \ {x}
<1>1. Part(f, S) = f[x] + Part(f, s) /\ Part(g, S) = g[x] + Part(g, s)
  BY PartWithout
<1>2. Part(f, s) \in Nat /\ Part(g, s) \in Nat
  BY PartIsNat
<1>3. Part(f, s) = Part(g, s)
  <2>1. s \cap S = s /\ \A y \in s : f[y] \in Nat /\ g[y] = f[y]
    OBVIOUS
  <2>2. Part(f, s) <= Part(g, s \cap S)
    <3> HIDE DEF s
    <3> QED BY <2>1, PartAtMost DEF s
  <2>3. Part(g, s) <= Part(f, s \cap S)
    <3> HIDE DEF s
    <3> QED BY <2>1, PartAtMost DEF s
  <2> HIDE DEF s
  <2> QED BY <1>2, <2>1, <2>2, <2>3
<1>4. f[x] \in Nat /\ g[x] \in Nat
  OBVIOUS
<1> HIDE DEF s
<1> QED BY <1>1, <1>2, <1>3, <1>4, SumIsPart

LEMMA SumOfNothing ==
  ASSUME NEW S, IsFiniteSet(S), NEW f \in [S -> Nat], \A x \in S : f[x] = 0
  PROVE  SumOf(f) = 0
<1>1. \E g : g \in [{} -> Nat]
  BY \E x : x = [y \in {} |-> 0]
<1>2. PICK g \in [{} -> Nat] : TRUE
  BY <1>1
<1>3. Part(f, S) <= Part(g, S \cap {})
  BY PartAtMost
<1>4. Part(g, {}) = 0 /\ S \cap {} = {}
  BY FS_EmptySet, PartIs
<1> QED BY <1>3, <1>4, SumIsPart, SumIsNat

(***************************************************************************)
(* Limits. What a call counts is the sum of what it looked at, or of what  *)
(* it was handed (CallCounts); a read ends only with as much as was looked *)
(* at (ReadCounts), so what is kept by a preload, and what the other calls *)
(* have, is at most what was counted before anything was read.             *)
(***************************************************************************)
Sizes(looked) == [s \in Sources |-> looked[s].size]

CallCounts(r, c) ==
  /\ r.total \in Nat
  /\ \A s \in Sources : /\ r.looked[s].size \in Nat
                        /\ r.docs[s] \in Contents \cup {Gone}
  /\ r.pc = "idle" => r.total = 0 /\ \A s \in Sources : r.looked[s].size = 0
  /\ r.pc = "inspect" =>
       /\ \A s \in r.todo : r.looked[s].size = 0
       /\ Mode(c) # "session" => r.total = SumOf(Sizes(r.looked))
  /\ r.pc \in {"load", "await"} => \A s \in r.todo : r.docs[s] = Gone
  /\ r.pc \in {"load", "await", "complete"} =>
       IF Mode(c) = "session" THEN r.total = Bytes(r.docs)
       ELSE /\ SumOf(Sizes(r.looked)) <= TotalBytes
            /\ \A s \in Sources : Size(r.docs[s]) <= r.looked[s].size
  /\ r.pc = "complete" /\ Mode(c) = "session" => r.total <= TotalBytes

ReadCounts(r) ==
  r.stage \in {"recheck", "headAgain", "tailAgain"} => Size(r.first) = r.size

CallsCount == \A c \in Callers : CallCounts(call[c], c)

ReadsCount ==
  /\ \A x \in Readers : ReadCounts(reads[x])
  /\ \A c \in Callers : reads[c].stage # "none" =>
       reads[c].size = call[c].looked[Min(call[c].todo)].size

KeptCounts ==
  /\ \A s \in Sources : cache[s] \in Contents \cup {Gone}
  /\ preload = "sources" =>
       /\ session.pc = "inspecting" =>
            session.todo \subseteq SourcesOf(manifest.policies)
       /\ \A s \in Sources :
            /\ session.looked[s].size \in Nat
            /\ s \notin SourcesOf(manifest.policies) => session.looked[s].size = 0
            /\ Size(cache[s]) <= session.looked[s].size
            /\ reads[s].stage # "none" => reads[s].size = session.looked[s].size
       /\ session.pc \in {"reading", "open"} =>
            SumOf([s \in SourcesOf(manifest.policies) |-> session.looked[s].size])
              <= TotalBytes

Counting == CallsCount /\ ReadsCount /\ KeptCounts

LEMMA SizeIsNat ==
  /\ Size(Gone) = 0
  /\ \A content \in Contents \cup {Gone} : Size(content) \in Nat
<1>1. \A content \in Contents : Size(content) \in Nat
  <2> SUFFICES ASSUME NEW content \in Contents PROVE Size(content) \in Nat
    OBVIOUS
  <2>1. HalfSize[content[1]] \in Nat /\ HalfSize[content[2]] \in Nat
    BY ContentFacts, SizesAssumption
  <2> QED BY <2>1 DEF Size
<1> QED BY <1>1 DEF Size

LEMMA NothingLooked ==
  ASSUME NEW looked, \A s \in Sources : looked[s].size = 0
  PROVE  SumOf(Sizes(looked)) = 0
<1>1. /\ Sizes(looked) \in [Sources -> Nat]
      /\ \A s \in Sources : Sizes(looked)[s] = 0
  BY DEF Sizes
<1> QED BY <1>1, SumOfNothing, RanksAssumption

LEMMA NothingHeld ==
  ASSUME NEW docs, DOMAIN docs = Sources, \A s \in Sources : docs[s] = Gone
  PROVE  Bytes(docs) = 0
<1> DEFINE sizes == [s \in Sources |-> Size(docs[s])]
<1>1. sizes \in [Sources -> Nat] /\ \A s \in Sources : sizes[s] = 0
  BY SizeIsNat
<1>2. Bytes(docs) = SumOf(sizes)
  BY DEF Bytes
<1> QED BY <1>1, <1>2, SumOfNothing, RanksAssumption

(* One source more, in place of none.                                      *)
LEMMA OneLooked ==
  ASSUME NEW looked, \A s \in Sources : looked[s].size \in Nat,
         NEW s \in Sources, looked[s].size = 0,
         NEW new, new[s].size \in Nat,
         \A t \in Sources \ {s} : new[t] = looked[t]
  PROVE  SumOf(Sizes(new)) = SumOf(Sizes(looked)) + new[s].size
<1> DEFINE f == Sizes(looked)
           g == Sizes(new)
<1>1. /\ f \in [Sources -> Nat] /\ g \in [Sources -> Nat]
      /\ \A t \in Sources \ {s} : g[t] = f[t]
      /\ f[s] = 0 /\ g[s] = new[s].size
  BY DEF Sizes
<1> HIDE DEF f, g
<1>2. SumOf(g) + f[s] = SumOf(f) + g[s]
  BY <1>1, SumChanged, RanksAssumption
<1>3. SumOf(f) \in Nat /\ SumOf(g) \in Nat
  BY <1>1, SumIsNat, RanksAssumption
<1> QED BY <1>1, <1>2, <1>3 DEF f, g

LEMMA OneHeld ==
  ASSUME NEW docs, DOMAIN docs = Sources,
         \A s \in Sources : docs[s] \in Contents \cup {Gone},
         NEW s \in Sources, docs[s] = Gone,
         NEW new, DOMAIN new = Sources, new[s] \in Contents \cup {Gone},
         \A t \in Sources \ {s} : new[t] = docs[t]
  PROVE  Bytes(new) = Bytes(docs) + Size(new[s])
<1> DEFINE f == [t \in Sources |-> Size(docs[t])]
           g == [t \in Sources |-> Size(new[t])]
<1>1. /\ f \in [Sources -> Nat] /\ g \in [Sources -> Nat]
      /\ \A t \in Sources \ {s} : g[t] = f[t]
      /\ f[s] = 0 /\ g[s] = Size(new[s])
  BY SizeIsNat
<1>2. Bytes(docs) = SumOf(f) /\ Bytes(new) = SumOf(g)
  BY DEF Bytes
<1> HIDE DEF f, g
<1>3. SumOf(g) + f[s] = SumOf(f) + g[s]
  BY <1>1, SumChanged, RanksAssumption
<1>4. SumOf(f) \in Nat /\ SumOf(g) \in Nat
  BY <1>1, SumIsNat, RanksAssumption
<1> QED BY <1>1, <1>2, <1>3, <1>4

(* What is held of the sources that were counted, and of no other.         *)
LEMMA HeldAtMost ==
  ASSUME NEW docs, DOMAIN docs = Sources,
         \A s \in Sources : docs[s] \in Contents \cup {Gone},
         NEW looked, \A s \in Sources : looked[s].size \in Nat,
         NEW all \in SUBSET Sources,
         \A s \in Sources : /\ Size(docs[s]) <= looked[s].size
                            /\ s \notin all => looked[s].size = 0,
         SumOf([s \in all |-> looked[s].size]) <= TotalBytes
  PROVE  Bytes(docs) <= TotalBytes
<1> DEFINE f == [s \in Sources |-> Size(docs[s])]
           g == [s \in all |-> looked[s].size]
<1>1. /\ f \in [Sources -> Nat] /\ g \in [all -> Nat]
      /\ \A s \in Sources : IF s \in all THEN f[s] <= g[s] ELSE f[s] = 0
  BY SizeIsNat
<1>2. Bytes(docs) = SumOf(f)
  BY DEF Bytes
<1>3. SumOf(f) <= SumOf(g)
  <2> HIDE DEF f, g
  <2> QED BY <1>1, SumAtMost, RanksAssumption
<1>4. SumOf(f) \in Nat /\ SumOf(g) \in Nat
  <2>1. IsFiniteSet(all)
    BY FS_Subset, RanksAssumption
  <2> HIDE DEF f, g
  <2> QED BY <1>1, <2>1, SumIsNat, RanksAssumption
<1> HIDE DEF f
<1> QED BY <1>2, <1>3, <1>4, LimitsAssumption

LEMMA CountingInit == Init => Counting
<1> SUFFICES ASSUME Init PROVE Counting
  OBVIOUS
<1>1. CallsCount
  <2>1. ASSUME NEW c \in Callers
        PROVE  CallCounts(call[c], c)
    <3>1. /\ call[c].pc = "idle" /\ call[c].total = 0
          /\ \A s \in Sources : call[c].looked[s].size = 0 /\ call[c].docs[s] = Gone
      BY DEF Init, Unseen
    <3> QED BY <3>1 DEF CallCounts
  <2> QED BY <2>1 DEF CallsCount
<1>2. ReadsCount
  BY DEF Init, ReadsCount, ReadCounts, NoRead, Readers
<1>3. KeptCounts
  BY SizeIsNat DEF Init, KeptCounts, Unseen, NoRead, Readers
<1> QED BY <1>1, <1>2, <1>3 DEF Counting

LEMMA CountingGives ==
  ASSUME Delivering, Counting
  PROVE  WithinLimits
<1>1. ASSUME NEW c \in Callers, call[c].pc = "complete"
      PROVE  Bytes(call[c].docs) <= TotalBytes
  <2>1. PICK r : r = call[c]
    OBVIOUS
  <2>2. CallCounts(r, c) /\ CallShape(r) /\ r.pc = "complete"
    BY <1>1, <2>1 DEF Counting, CallsCount, Delivering, Keeping, Shape
  <2>3. CASE Mode(c) = "session"
    BY <2>1, <2>2, <2>3 DEF CallCounts
  <2>4. CASE Mode(c) # "session"
    <3>1. /\ DOMAIN r.docs = Sources
          /\ SumOf([s \in Sources |-> r.looked[s].size]) <= TotalBytes
      BY <2>2, <2>4 DEF CallShape, CallCounts, Sizes
    <3>2. \A s \in Sources : /\ r.docs[s] \in Contents \cup {Gone}
                             /\ r.looked[s].size \in Nat
                             /\ Size(r.docs[s]) <= r.looked[s].size
      BY <2>2, <2>4 DEF CallCounts
    <3>3. Bytes(r.docs) <= TotalBytes
      BY <3>1, <3>2, HeldAtMost
    <3> QED BY <2>1, <3>3
  <2> QED BY <2>3, <2>4
<1>2. ASSUME session.pc = "open", preload = "sources"
      PROVE  Bytes(cache) <= TotalBytes
  <2> DEFINE all == SourcesOf(manifest.policies)
  <2>1. all \in SUBSET Sources /\ DOMAIN cache = Sources
    BY DEF Delivering, Keeping, Todo, Shape, SourcesOf
  <2>2. /\ SumOf([s \in all |-> session.looked[s].size]) <= TotalBytes
        /\ \A s \in Sources :
             /\ cache[s] \in Contents \cup {Gone} /\ session.looked[s].size \in Nat
             /\ Size(cache[s]) <= session.looked[s].size
             /\ s \notin all => session.looked[s].size = 0
    BY <1>2 DEF Counting, KeptCounts
  <2> HIDE DEF all
  <2> QED BY <2>1, <2>2, HeldAtMost
<1> QED BY <1>1, <1>2 DEF WithinLimits

(* Steps that leave a part of it.                                          *)
LEMMA CallsCountStay ==
  ASSUME CallsCount, UNCHANGED calls,
         \A c \in Callers : call'[c] = call[c] \/ CallCounts(call'[c], c)
  PROVE  CallsCount'
<1> SUFFICES ASSUME NEW c \in Callers PROVE CallCounts(call[c], c)'
  BY DEF CallsCount
<1>1. PICK r : r = call'[c]
  OBVIOUS
<1>2. CallCounts(r, c)
  BY <1>1 DEF CallsCount
<1>3. Mode(c)' = Mode(c)
  BY DEF Mode
<1>4. CallCounts(r, c)'
  BY <1>2, <1>3 DEF CallCounts
<1> QED BY <1>1, <1>4 DEF CallCounts

LEMMA ReadsCountStay ==
  ASSUME ReadsCount,
         \A x \in Readers : reads'[x] = reads[x] \/ ReadCounts(reads'[x]),
         \A c \in Callers : reads'[c].stage # "none" =>
           \/ reads'[c] = reads[c] /\ call'[c] = call[c]
           \/ reads'[c].size = call'[c].looked[Min(call'[c].todo)].size
  PROVE  ReadsCount'
<1>1. ASSUME NEW x \in Readers PROVE ReadCounts(reads[x])'
  <2>1. PICK r : r = reads'[x]
    OBVIOUS
  <2>2. ReadCounts(r)
    BY <2>1 DEF ReadsCount
  <2> QED BY <2>1, <2>2 DEF ReadCounts
<1>2. ASSUME NEW c \in Callers, reads'[c].stage # "none"
      PROVE  reads'[c].size = call'[c].looked[Min(call'[c].todo)].size
  BY <1>2 DEF ReadsCount
<1> QED BY <1>1, <1>2 DEF ReadsCount

LEMMA ReadsCountUntouched ==
  ASSUME ReadsCount, ReadsInv, UNCHANGED reads,
         \A c \in Callers : call'[c] = call[c] \/ call[c].pc # "await"
  PROVE  ReadsCount'
<1>1. \A c \in Callers : reads'[c].stage # "none" => call'[c] = call[c]
  BY DEF ReadsInv
<1> QED BY <1>1, ReadsCountStay

LEMMA KeptStay ==
  ASSUME KeptCounts, UNCHANGED <<manifest, preload, session, cache>>,
         \A s \in Sources :
           \/ reads'[s] = reads[s]
           \/ preload = "sources" /\ reads'[s].stage # "none" =>
                reads'[s].size = session.looked[s].size
  PROVE  KeptCounts'
<1>1. SourcesOf(manifest.policies)' = SourcesOf(manifest.policies)
  BY DEF SourcesOf
<1> QED BY <1>1 DEF KeptCounts

LEMMA PrepareCounts ==
  ASSUME Delivering, Counting, Prepare
  PROVE  Counting'
<1>1. /\ session.pc = "unprepared"
      /\ UNCHANGED <<manifest, calls, preload, cache, reads, call>>
      /\ session' = [session EXCEPT
           !.todo = IF preload = "sources" THEN SourcesOf(manifest.policies) ELSE {},
           !.pc = IF ~validatePolicyManifest(manifest) THEN "refused"
                  ELSE IF preload = "sources" THEN "inspecting" ELSE "open"]
  BY DEF Prepare, fixed
<1>2. CallsCount' /\ ReadsCount'
  BY <1>1, CallsCountStay, ReadsCountUntouched DEF Counting, Delivering
<1>3. /\ session'.looked = session.looked
      /\ session'.todo = IF preload = "sources" THEN SourcesOf(manifest.policies)
                         ELSE {}
      /\ session'.pc \in {"refused", "inspecting", "open"}
      /\ session'.pc = "open" => preload # "sources"
  BY <1>1 DEF Delivering, Keeping, Shape
<1>4. SourcesOf(manifest.policies)' = SourcesOf(manifest.policies)
  BY <1>1 DEF SourcesOf
<1>5. KeptCounts'
  BY <1>1, <1>3, <1>4 DEF Counting, KeptCounts
<1> QED BY <1>2, <1>5 DEF Counting

LEMMA BegunCounts ==
  ASSUME NEW look
  PROVE  /\ ReadCounts(Begun(look)) /\ Begun(look).size = look.size
         /\ Begun(look).stage = "head"
<1>1. PICK r : r = Begun(look)
  OBVIOUS
<1>2. r = [stage |-> "head", place |-> look.place, size |-> look.size,
           first |-> Gone, same |-> TRUE]
  BY <1>1 DEF Begun, NoRead
<1>3. r.stage = "head" /\ r.size = look.size /\ ReadCounts(r)
  BY <1>2 DEF ReadCounts
<1> QED BY <1>1, <1>3

LEMMA LookCounts ==
  ASSUME FilesInv, NEW s \in Sources
  PROVE  Look(s).size \in Nat
<1>1. Look(s).size = Size(files[place[s]])
  BY DEF Look
<1>2. files[place[s]] \in Contents \cup {Gone}
  BY DEF FilesInv
<1> QED BY <1>1, <1>2, SizeIsNat

LEMMA PreloadInspectCounts ==
  ASSUME Delivering, Counting, NEW s \in Sources, PreloadInspect(s)
  PROVE  Counting'
<1> DEFINE rest == session.todo \ {s}
           failed == session.failed \/ ~Inspected(s)
           looked == [session.looked EXCEPT ![s] = IF Inspected(s) THEN Look(s) ELSE @]
           all == SourcesOf(manifest.policies)
           sizes == [t \in all |-> looked[t].size]
           over == SumOf(sizes) > TotalBytes
           begun == [x \in Readers |-> IF x \in all THEN Begun(looked[x]) ELSE reads[x]]
<1>1. /\ session.pc = "inspecting" /\ s \in session.todo
      /\ UNCHANGED <<manifest, calls, preload, cache, call>>
  BY DEF PreloadInspect, fixed
<1>2. reads' = IF session'.pc = "reading" THEN begun ELSE reads
  BY ZenonT(30) DEF PreloadInspect
<1> HIDE DEF begun
<1>3. session' = [pc |-> IF rest # {} THEN "inspecting"
                         ELSE IF failed \/ over THEN "refused" ELSE "reading",
                  todo |-> IF rest # {} THEN rest ELSE all,
                  failed |-> failed, looked |-> looked]
  BY DEF PreloadInspect
<1> HIDE DEF over, failed, looked
<1>4. /\ session'.looked = looked
      /\ session'.todo = IF rest # {} THEN rest ELSE all
      /\ session'.pc \in {"inspecting", "refused", "reading"}
      /\ session'.pc = "inspecting" => rest # {}
      /\ session'.pc = "reading" => ~over
  BY <1>3
<1>5. preload = "sources" /\ all \in SUBSET Sources
  BY <1>1 DEF Delivering, SessionInv, Keeping, Todo, SourcesOf
<1>6. /\ s \in all /\ rest \subseteq all
      /\ \A x \in Sources : /\ session.looked[x].size \in Nat
                            /\ x \notin all => session.looked[x].size = 0
  BY <1>1, <1>5 DEF Counting, KeptCounts
<1>7. \A x \in Sources : /\ looked[x].size \in Nat
                         /\ x \notin all => looked[x].size = 0
  <2>1. \A x \in Sources : looked[x] = IF x = s /\ Inspected(s) THEN Look(s)
                                       ELSE session.looked[x]
    BY DEF looked, Delivering, SessionInv
  <2>2. Look(s).size \in Nat
    BY LookCounts DEF Delivering
  <2> HIDE DEF all
  <2> QED BY <1>6, <2>1, <2>2
<1>8. CallsCount'
  BY <1>1, CallsCountStay DEF Counting
<1>9. \A x \in Readers : reads'[x] = reads[x]
        \/ /\ x \in all /\ reads'[x] = Begun(looked[x])
           /\ session'.pc = "reading"
  BY <1>2 DEF begun
<1>10. ReadsCount'
  <2>1. \A x \in Readers : reads'[x] = reads[x] \/ ReadCounts(reads'[x])
    BY <1>9, BegunCounts
  <2>2. \A c \in Callers : c \in Readers /\ c \notin all
    BY <1>5, RanksAssumption DEF Readers
  <2>3. \A c \in Callers : reads'[c] = reads[c] /\ call'[c] = call[c]
    BY <1>1, <1>9, <2>2
  <2> QED BY <2>1, <2>3, ReadsCountStay DEF Counting
<1>11. SourcesOf(manifest.policies)' = all
  BY <1>1 DEF SourcesOf
<1>12. \A x \in Sources : /\ cache'[x] = Gone
                          /\ reads[x].stage = "none"
  BY <1>1 DEF Delivering, Keeping, Fresh
<1>13. session'.pc \in {"reading", "open"} => SumOf(sizes) <= TotalBytes
  <2>1. sizes \in [all -> Nat]
    BY <1>5, <1>7
  <2>2. IsFiniteSet(all)
    BY <1>5, FS_Subset, RanksAssumption
  <2> HIDE DEF sizes, all
  <2>3. SumOf(sizes) \in Nat
    BY <2>1, <2>2, SumIsNat
  <2> QED BY <1>4, <2>3, LimitsAssumption DEF over
<1>14. KeptCounts'
  <2> HIDE DEF all
  <2>1. \A x \in Sources : reads'[x].stage # "none" => reads'[x].size = looked[x].size
    BY <1>9, <1>12, BegunCounts DEF Readers
  <2>2. \A x \in Sources : cache'[x] \in Contents \cup {Gone}
    BY <1>12
  <2>3. \A x \in Sources : Size(cache'[x]) <= looked[x].size
    BY <1>7, <1>12, SizeIsNat
  <2>4. session'.pc = "inspecting" => session'.todo \subseteq all
    BY <1>4, <1>6
  <2>5. [t \in all |-> session'.looked[t].size] = sizes
    BY <1>4
  <2>6. preload' = "sources"
    BY <1>1, <1>5
  <2> HIDE DEF sizes
  <2>7. \A x \in Sources : Size(cache[x])' = Size(cache'[x])
    BY DEF Size
  <2> QED BY <1>4, <1>7, <1>11, <1>13, <2>1, <2>2, <2>3, <2>4, <2>5, <2>6, <2>7
          DEF KeptCounts
<1> QED BY <1>8, <1>10, <1>14 DEF Counting

LEMMA EntersCounts ==
  ASSUME Delivering, Counting, NEW c \in Callers, NEW refused,
         NEW sources \in SUBSET Sources, Entered(c, refused, sources), call[c].pc = "idle",
         UNCHANGED <<manifest, calls, preload, session, cache, reads>>
  PROVE  Counting'
<1> DEFINE pc == IF refused THEN "failed"
                 ELSE IF sources = {} THEN "complete" ELSE "inspect"
<1>1. PICK r : /\ r = [call[c] EXCEPT !.todo = sources, !.pc = pc]
               /\ call' = [call EXCEPT ![c] = r]
  BY DEF Entered
<1>2. /\ CallShape(call[c]) /\ call = [d \in Callers |-> call[d]]
  BY DEF Delivering, Keeping, Shape
<1>3. /\ call'[c] = r
      /\ \A d \in Callers \ {c} : call'[d] = call[d]
  BY <1>1, <1>2
<1>4. r.docs = call[c].docs /\ r.looked = call[c].looked
  BY <1>1, <1>2 DEF CallShape, CallFields
<1>5. r.total = call[c].total /\ r.pc = pc
  BY <1>1, <1>2 DEF CallShape, CallFields
<1>6. /\ r.total = 0
      /\ \A s \in Sources : r.looked[s].size = 0 /\ r.docs[s] = Gone
  <2>1. call[c].total = 0 /\ \A s \in Sources : call[c].looked[s].size = 0
    BY DEF Counting, CallsCount, CallCounts
  <2>2. \A s \in Sources : call[c].docs[s] = Gone
    BY DEF Delivering, CallsInv, CallGood
  <2> QED BY <1>4, <1>5, <2>1, <2>2
<1>7. SumOf(Sizes(r.looked)) = 0 /\ Bytes(r.docs) = 0
  <2>1. DOMAIN r.docs = Sources
    BY <1>2, <1>4 DEF CallShape
  <2> QED BY <1>6, <2>1, NothingLooked, NothingHeld
<1>8. r.todo \subseteq Sources
  BY <1>1, <1>2 DEF CallShape, CallFields
<1>9. CallCounts(r, c)
  <2>1. pc \in {"failed", "complete", "inspect"}
    BY DEF pc
  <2> QED BY <1>5, <1>6, <1>7, <1>8, <2>1, SizeIsNat, LimitsAssumption DEF CallCounts
<1>10. CallsCount'
  BY <1>3, <1>9, CallsCountStay DEF Counting
<1>11. ReadsCount'
  BY <1>3, ReadsCountUntouched DEF Counting, Delivering
<1> QED BY <1>10, <1>11, KeptStay DEF Counting

LEMMA ResolveCounts ==
  ASSUME Delivering, Counting, NEW c \in Callers, Resolve(c)
  PROVE  Counting'
<1>1. PICK r :
        /\ call[c].pc = "idle"
        /\ resolution' = [resolution EXCEPT ![c] = resolvePolicies(manifest, r)]
        /\ Entered(c, resolvePolicies(manifest, r).state = "invalid",
                   SelectedBy(c, resolvePolicies(manifest, r)))
        /\ UNCHANGED <<manifest, calls, preload, session, cache, reads>>
  BY DEF Resolve, fixed
<1>2. resolution'[c] = resolvePolicies(manifest, r)
  BY <1>1 DEF Delivering, Keeping, Todo
<1>3. SelectedBy(c, resolvePolicies(manifest, r)) = Selected(c)'
  BY <1>1, <1>2, SelectedAfter
<1>4. Selected(c)' \in SUBSET Sources
  <2>1. Todo'
    BY ResolveKeeps DEF Delivering, Keeping
  <2>2. Selected(c)' \subseteq SourcesOf(manifest.policies)' \cup manifest.documents'
    BY <2>1 DEF Todo, Selected, SelectedBy, SourcesOf
  <2>3. SourcesOf(manifest.policies)' \cup manifest.documents' \subseteq Sources
    BY <2>1 DEF Todo, SourcesOf
  <2> QED BY <2>2, <2>3
<1> QED BY <1>1, <1>3, <1>4, EntersCounts

LEMMA CheckCounts ==
  ASSUME Delivering, Counting, NEW c \in Callers, Check(c)
  PROVE  Counting'
<1>1. /\ call[c].pc = "idle"
      /\ Entered(c, ~validatePolicyManifest(manifest), Selected(c))
      /\ UNCHANGED <<manifest, calls, preload, session, cache, reads>>
  BY DEF Check, fixed
<1>2. Selected(c) \in SUBSET Sources
  BY SelectedAreSources DEF Delivering, Keeping
<1> QED BY <1>1, <1>2, EntersCounts

LEMMA InspectCounts ==
  ASSUME Delivering, Counting, NEW c \in Callers, Inspect(c)
  PROVE  Counting'
<1>1. /\ call[c].pc = "inspect"
      /\ UNCHANGED <<manifest, calls, preload, session, cache, reads>>
  BY DEF Inspect, fixed
<1> DEFINE s == Min(call[c].todo)
           rest == call[c].todo \ {s}
<1> DEFINE cached == Mode(c) = "session" /\ cache[s] # Gone
           ok == cached \/ Inspected(s)
           look == IF cached \/ ~ok THEN Unseen ELSE Look(s)
           total == call[c].total + IF cached THEN Size(cache[s]) ELSE look.size
           failed == call[c].failed \/ ~ok
           over == total > TotalBytes \/ (~ok /\ Mode(c) # "check")
           pc == IF over THEN "failed"
                 ELSE IF rest # {} THEN "inspect"
                 ELSE IF failed THEN "failed" ELSE "load"
           todo == IF rest # {} THEN rest ELSE Selected(c)
           looked == [call[c].looked EXCEPT ![s] = look]
           count == IF rest # {} THEN total ELSE 0
<1>2. PICK new :
        /\ new = [call[c] EXCEPT
                    !.looked[s] = look, !.failed = failed, !.todo = todo,
                    !.total = count, !.pc = pc]
        /\ call' = [call EXCEPT ![c] = new]
  BY DEF Inspect
<1>3. /\ CallShape(call[c]) /\ call = [d \in Callers |-> call[d]]
      /\ s \in call[c].todo /\ s \in Sources /\ Selected(c) \subseteq Sources
      /\ call[c].todo \subseteq Selected(c)
  BY <1>1, SelectedAreSources DEF Delivering, Keeping, Shape, Todo, Busy
<1>4. CallGood(call[c], c) /\ CallCounts(call[c], c)
  BY DEF Delivering, CallsInv, Counting, CallsCount
<1>5. look.size \in Nat
  BY <1>3, LookCounts DEF Unseen, Delivering
<1>6. cached => Size(cache[s]) \in Nat
  BY <1>3, SizeIsNat DEF Counting, KeptCounts
<1>7. Mode(c) # "session" => total = call[c].total + look.size
  OBVIOUS
<1> HIDE DEF ok, look, rest, todo, count, failed
<1>8. new.looked = looked /\ new.total = count
  BY <1>2, <1>3 DEF CallShape, CallFields
<1>9. new.docs = call[c].docs /\ new.pc = pc /\ new.todo = todo
  BY <1>2, <1>3 DEF CallShape, CallFields
<1>10. /\ \A t \in Sources : looked[t] = IF t = s THEN look ELSE call[c].looked[t]
  BY <1>4 DEF CallGood
<1> HIDE DEF looked
<1>11. /\ call[c].total \in Nat /\ call[c].looked[s].size = 0
       /\ \A t \in Sources : call[c].looked[t].size \in Nat
       /\ \A t \in call[c].todo : call[c].looked[t].size = 0
       /\ Mode(c) # "session" => call[c].total = SumOf(Sizes(call[c].looked))
  BY <1>1, <1>3, <1>4 DEF CallCounts
<1>12. /\ \A t \in Sources : new.docs[t] = Gone /\ looked[t].size \in Nat
       /\ \A t \in rest : looked[t].size = 0
  BY <1>1, <1>3, <1>4, <1>5, <1>9, <1>10, <1>11 DEF CallGood, rest
<1>13. total \in Nat /\ count \in Nat
  BY <1>5, <1>6, <1>11 DEF count
<1>14. Mode(c) # "session" => total = SumOf(Sizes(looked))
  <2>1. SumOf(Sizes(looked)) = SumOf(Sizes(call[c].looked)) + looked[s].size
    BY <1>3, <1>10, <1>11, <1>12, OneLooked
  <2>2. looked[s] = look
    BY <1>3, <1>10
  <2> HIDE DEF total
  <2> QED BY <1>7, <1>11, <2>1, <2>2
<1>15. /\ pc \in {"failed", "inspect", "load"}
       /\ pc = "inspect" => todo = rest /\ count = total
       /\ pc = "load" => todo = Selected(c) /\ count = 0 /\ ~(total > TotalBytes)
  BY DEF todo, count
<1> HIDE DEF pc, total
<1>16. Bytes(new.docs) = 0
  <2>1. DOMAIN new.docs = Sources
    BY <1>3, <1>9 DEF CallShape
  <2> QED BY <1>12, <2>1, NothingHeld
<1>17. CallCounts(new, c)
  <2>1. /\ new.total \in Nat
        /\ \A t \in Sources : /\ new.looked[t].size \in Nat
                              /\ new.docs[t] \in Contents \cup {Gone}
    BY <1>8, <1>12, <1>13
  <2>2. new.pc = "inspect" =>
          /\ \A t \in new.todo : new.looked[t].size = 0
          /\ Mode(c) # "session" => new.total = SumOf(Sizes(new.looked))
    BY <1>8, <1>9, <1>12, <1>14, <1>15
  <2>3. new.pc = "load" =>
          /\ \A t \in new.todo : new.docs[t] = Gone
          /\ new.total = Bytes(new.docs)
          /\ Mode(c) # "session" => SumOf(Sizes(new.looked)) <= TotalBytes
    BY <1>3, <1>8, <1>9, <1>12, <1>13, <1>14, <1>15, <1>16, LimitsAssumption
  <2>4. \A t \in Sources : Size(new.docs[t]) <= new.looked[t].size
    BY <1>12, <2>1, SizeIsNat
  <2>5. new.pc \in {"failed", "inspect", "load"}
    BY <1>9, <1>15
  <2> QED BY <2>1, <2>2, <2>3, <2>4, <2>5 DEF CallCounts
<1>18. /\ call'[c] = new
       /\ \A d \in Callers \ {c} : call'[d] = call[d]
  BY <1>2, <1>3
<1>19. CallsCount'
  BY <1>1, <1>17, <1>18, CallsCountStay DEF Counting
<1>20. ReadsCount'
  BY <1>1, <1>18, ReadsCountUntouched DEF Counting, Delivering
<1> QED BY <1>1, <1>19, <1>20, KeptStay DEF Counting

LEMMA HandedCounts ==
  ASSUME Keeping, NEW c \in Callers, CallGood(call[c], c), CallCounts(call[c], c),
         call[c].pc \in {"load", "await"}, NEW s, s = Min(call[c].todo),
         NEW content \in Contents \cup {Gone},
         Mode(c) # "session" => Size(content) <= call[c].looked[s].size
  PROVE  CallCounts(Handed(c, s, content), c)
<1>1. /\ CallShape(call[c])
      /\ call[c].todo \subseteq Selected(c)
      /\ s \in call[c].todo /\ s \in Sources /\ Selected(c) \subseteq Sources
  BY SelectedAreSources DEF Keeping, Shape, Todo, Busy
<1> DEFINE rest == call[c].todo \ {s}
<1> DEFINE total == call[c].total + Size(content)
           failed == call[c].failed \/ content = Gone
           over == Mode(c) = "session" /\ total > TotalBytes
           pc == IF over THEN "failed"
                 ELSE IF rest # {} THEN "load"
                 ELSE IF failed THEN "failed" ELSE "complete"
           docs == [call[c].docs EXCEPT ![s] = content]
<1>2. PICK new :
        /\ new = Handed(c, s, content)
        /\ new = [call[c] EXCEPT
                    !.docs[s] = content, !.todo = rest, !.total = total,
                    !.failed = failed, !.pc = pc]
  BY DEF Handed
<1>3. pc = "complete" /\ Mode(c) = "session" => ~(total > TotalBytes)
  OBVIOUS
<1>4. pc \in {"failed", "load", "complete"}
  OBVIOUS
<1> HIDE DEF total, failed, over, pc, rest
<1>5. new.docs = docs /\ new.pc = pc /\ new.todo = rest
  BY <1>1, <1>2 DEF CallShape, CallFields
<1>6. new.total = total /\ new.looked = call[c].looked
  BY <1>1, <1>2 DEF CallShape, CallFields
<1>7. /\ \A t \in Sources : docs[t] = IF t = s THEN content ELSE call[c].docs[t]
      /\ DOMAIN docs = Sources
  BY <1>1 DEF CallShape
<1> HIDE DEF docs
<1>8. /\ call[c].total \in Nat
      /\ \A t \in Sources : /\ call[c].looked[t].size \in Nat
                            /\ call[c].docs[t] \in Contents \cup {Gone}
      /\ \A t \in call[c].todo : call[c].docs[t] = Gone
  BY DEF CallCounts
<1>9. IF Mode(c) = "session" THEN call[c].total = Bytes(call[c].docs)
      ELSE /\ SumOf(Sizes(call[c].looked)) <= TotalBytes
           /\ \A t \in Sources : Size(call[c].docs[t]) <= call[c].looked[t].size
  BY DEF CallCounts
<1>10. total \in Nat
  BY <1>8, SizeIsNat DEF total
<1>11. \A t \in Sources : docs[t] \in Contents \cup {Gone}
  BY <1>7, <1>8
<1>12. \A t \in rest : docs[t] = Gone
  BY <1>1, <1>7, <1>8 DEF rest
<1>13. Mode(c) = "session" => total = Bytes(docs)
  <2>1. DOMAIN call[c].docs = Sources /\ call[c].docs[s] = Gone /\ docs[s] = content
    BY <1>1, <1>7, <1>8 DEF CallShape
  <2>2. Bytes(docs) = Bytes(call[c].docs) + Size(docs[s])
    BY <1>1, <1>7, <1>8, <1>11, <2>1, OneHeld
  <2> QED BY <1>9, <2>1, <2>2 DEF total
<1>14. Mode(c) # "session" =>
         /\ SumOf(Sizes(call[c].looked)) <= TotalBytes
         /\ \A t \in Sources : Size(docs[t]) <= call[c].looked[t].size
  BY <1>7, <1>9
<1>15. CallCounts(new, c)
  BY <1>3, <1>4, <1>5, <1>6, <1>8, <1>10, <1>11, <1>12, <1>13, <1>14,
     LimitsAssumption DEF CallCounts
<1> QED BY <1>2, <1>15

LEMMA LoadCounts ==
  ASSUME Delivering, Counting, NEW c \in Callers, Load(c)
  PROVE  Counting'
<1> DEFINE s == Min(call[c].todo)
           x == IF Mode(c) = "session" THEN s ELSE c
<1>1. /\ call[c].pc = "load"
      /\ UNCHANGED <<manifest, calls, preload, session, cache>>
  BY DEF Load, fixed
<1>2. /\ CallShape(call[c]) /\ call = [d \in Callers |-> call[d]]
      /\ s \in Sources /\ s \in Selected(c)
  BY <1>1, SelectedAreSources DEF Delivering, Keeping, Shape, Todo, Busy
<1>3. CallGood(call[c], c) /\ CallCounts(call[c], c)
  BY DEF Delivering, CallsInv, Counting, CallsCount
<1>4. CASE /\ Mode(c) = "session" /\ cache[s] # Gone
           /\ call' = [call EXCEPT ![c] = Handed(c, s, cache[s])]
           /\ UNCHANGED reads
  <2>1. cache[s] \in Contents \cup {Gone}
    BY <1>2 DEF Counting, KeptCounts
  <2>2. PICK new : new = Handed(c, s, cache[s])
    OBVIOUS
  <2>3. CallCounts(new, c)
    BY <1>1, <1>3, <1>4, <2>1, <2>2, HandedCounts DEF Delivering
  <2>4. /\ call'[c] = new
        /\ \A d \in Callers \ {c} : call'[d] = call[d]
    BY <1>2, <1>4, <2>2
  <2>5. ReadsCount'
    BY <1>1, <1>4, <2>4, ReadsCountUntouched DEF Counting, Delivering
  <2>6. CallsCount'
    BY <1>1, <2>3, <2>4, CallsCountStay DEF Counting
  <2> QED BY <1>1, <1>4, <2>5, <2>6, KeptStay DEF Counting
<1>5. CASE /\ Mode(c) = "session" => cache[s] = Gone
           /\ call' = [call EXCEPT ![c] = [@ EXCEPT !.pc = "await"]]
           /\ reads' = IF reads[x].stage # "none" THEN reads
                       ELSE [reads EXCEPT ![x] = Begun(call[c].looked[s])]
  <2>1. PICK new : /\ call' = [call EXCEPT ![c] = new]
                   /\ new = [call[c] EXCEPT !.pc = "await"]
    BY <1>5
  <2>2. /\ new.docs = call[c].docs /\ new.looked = call[c].looked
        /\ new.total = call[c].total
    BY <1>2, <2>1 DEF CallShape, CallFields
  <2>3. new.pc = "await" /\ new.todo = call[c].todo
    BY <1>2, <2>1 DEF CallShape, CallFields
  <2>4. /\ call'[c] = new
        /\ \A d \in Callers \ {c} : call'[d] = call[d]
    BY <1>2, <2>1
  <2>5. CallCounts(new, c)
    BY <1>1, <1>3, <2>2, <2>3 DEF CallCounts
  <2>6. CallsCount'
    BY <1>1, <2>4, <2>5, CallsCountStay DEF Counting
  <2>7. reads = [y \in Readers |-> reads[y]]
    BY DEF Delivering, Keeping, Shape
  <2>8. ASSUME NEW y \in Readers
        PROVE  \/ reads'[y] = reads[y]
               \/ y = x /\ reads'[y] = Begun(call[c].looked[s])
    BY <1>5, <2>7
  <2>9. ReadsCount'
    <3>1. \A y \in Readers : reads'[y] = reads[y] \/ ReadCounts(reads'[y])
      BY <2>8, BegunCounts
    <3>2. ASSUME NEW d \in Callers, reads'[d].stage # "none"
          PROVE  \/ reads'[d] = reads[d] /\ call'[d] = call[d]
                 \/ reads'[d].size = call'[d].looked[Min(call'[d].todo)].size
      <4>1. CASE d # c
        <5>1. d # x
          BY <1>2, <4>1, RanksAssumption
        <5> QED BY <2>4, <2>8, <4>1, <5>1 DEF Readers
      <4>2. CASE d = c
        <5>1. reads[c].stage = "none"
          BY <1>1 DEF Delivering, ReadsInv
        <5>2. reads'[c] = Begun(call[c].looked[s])
          BY <2>8, <3>2, <4>2, <5>1 DEF Readers
        <5>3. reads'[c].size = call[c].looked[s].size
          BY <5>2, BegunCounts
        <5> QED BY <2>2, <2>3, <2>4, <4>2, <5>3
      <4> QED BY <4>1, <4>2
    <3> QED BY <3>1, <3>2, ReadsCountStay DEF Counting
  <2>10. ASSUME preload = "sources", NEW t \in Sources
         PROVE  reads'[t] = reads[t]
    <3>1. CASE Mode(c) # "session"
      <4>1. t # x
        BY <3>1, RanksAssumption
      <4> QED BY <2>8, <4>1 DEF Readers
    <3>2. CASE Mode(c) = "session"
      <4>1. session.pc = "open"
        BY <1>1, <3>2 DEF Delivering, Keeping, AfterOpening, SessionCalls
      <4>2. s \in SourcesOf(manifest.policies)
        BY <1>2, <3>2 DEF Delivering, Keeping, Todo, Selected, SelectedBy, SourcesOf
      <4> QED BY <1>5, <2>10, <3>2, <4>1, <4>2 DEF Delivering, SessionInv
    <3> QED BY <3>1, <3>2
  <2>11. KeptCounts'
    BY <1>1, <2>10, KeptStay DEF Counting
  <2> QED BY <2>6, <2>9, <2>11 DEF Counting
<1> QED BY <1>4, <1>5 DEF Load

(* A read ends with nothing, or with as much as was looked at.             *)
LEMMA ReadStepsCount ==
  ASSUME FilesInv, ReadsInv, ReadsCount, NEW x \in Readers, Read(x)
  PROVE  \/ \E content \in Contents \cup {Gone} :
              /\ EndRead(x, content)
              /\ content # Gone => Size(content) = reads[x].size
         \/ \E stage, first, same :
              /\ Advance(x, stage, first, same)
              /\ stage \in {"recheck", "headAgain", "tailAgain"} =>
                   Size(first) = reads[x].size
<1>1. CASE EndRead(x, Gone)
  BY <1>1
<1>2. CASE ReadHead(x)
  <2>1. CASE files[reads[x].place] # Gone
    <3>1. PICK stage, first : stage = "tail" /\ Advance(x, stage, first, TRUE)
      BY <1>2, <2>1 DEF ReadHead
    <3>2. stage \notin {"recheck", "headAgain", "tailAgain"}
      BY <3>1
    <3> QED BY <3>1, <3>2
  <2> QED BY <1>1, <1>2, <2>1 DEF ReadHead
<1>3. CASE ReadTail(x)
  <2> DEFINE first == Append(reads[x].first, files[reads[x].place][2])
  <2>1. CASE Size(first) = reads[x].size /\ Advance(x, "recheck", first, TRUE)
    BY <2>1
  <2> QED BY <1>1, <1>3, <2>1 DEF ReadTail
<1>4. ReadCounts(reads[x])
  BY DEF ReadsCount
<1>5. CASE Recheck(x)
  <2>1. Size(reads[x].first) = reads[x].size
    BY <1>4, <1>5 DEF ReadCounts, Recheck
  <2> QED BY <1>1, <1>5, <2>1 DEF Recheck
<1>6. CASE ReadHeadAgain(x)
  <2>1. Size(reads[x].first) = reads[x].size
    BY <1>4, <1>6 DEF ReadCounts, ReadHeadAgain
  <2> QED BY <1>1, <1>6, <2>1 DEF ReadHeadAgain
<1>7. CASE ReadTailAgain(x)
  <2>1. Size(reads[x].first) = reads[x].size /\ reads[x].first \in Contents
    BY <1>4, <1>7 DEF ReadCounts, ReadTailAgain, ReadsInv, ReadGood
  <2> QED BY <1>1, <1>7, <2>1 DEF ReadTailAgain
<1> QED BY <1>2, <1>3, <1>5, <1>6, <1>7 DEF Read

LEMMA SharedReadCounts ==
  ASSUME Delivering, Counting, NEW x \in Sources, reads[x].stage # "none",
         NEW content \in Contents \cup {Gone},
         content # Gone => Size(content) = reads[x].size,
         UNCHANGED <<manifest, calls, preload>>,
         reads' = [reads EXCEPT ![x] = NoRead],
         cache' = [cache EXCEPT ![x] = IF content = Gone THEN @ ELSE content],
         session' = IF session.pc = "reading" THEN Preloaded(x, content)
                    ELSE session,
         call' = [c \in Callers |->
                    IF Awaits(c, x) THEN Handed(c, x, content) ELSE call[c]]
  PROVE  Counting'
<1>1. \A s \in Sources : cache'[s] = IF s = x THEN content ELSE cache[s]
  BY DEF Delivering, Keeping, ReadOnce, Shape
<1>2. ASSUME NEW d \in Callers
      PROVE  call'[d] = call[d] \/ CallCounts(call'[d], d)
  <2>1. CASE ~Awaits(d, x)
    BY <2>1
  <2>2. CASE Awaits(d, x)
    <3>1. call[d].pc = "await" /\ x = Min(call[d].todo) /\ Mode(d) = "session"
      BY <2>2 DEF Awaits
    <3>2. CallGood(call[d], d) /\ CallCounts(call[d], d)
      BY DEF Delivering, CallsInv, Counting, CallsCount
    <3>3. CallCounts(Handed(d, x, content), d)
      BY <3>1, <3>2, HandedCounts DEF Delivering
    <3> QED BY <2>2, <3>3
  <2> QED BY <2>1, <2>2
<1>3. CallsCount'
  BY <1>2, CallsCountStay DEF Counting
<1>4. \A y \in Readers : reads'[y] = IF y = x THEN NoRead ELSE reads[y]
  BY DEF Delivering, Keeping, Shape
<1>5. ReadsCount'
  <2>1. ReadCounts(NoRead)
    BY DEF ReadCounts, NoRead
  <2>2. ASSUME NEW c \in Callers, reads'[c].stage # "none"
        PROVE  reads'[c] = reads[c] /\ call'[c] = call[c]
    <3>1. reads'[c] = reads[c]
      BY <1>4, <2>2 DEF NoRead, Readers
    <3>2. Mode(c) # "session"
      BY <2>2, <3>1 DEF Delivering, Keeping, NoOwnReads, SessionCalls
    <3> QED BY <3>1, <3>2 DEF Awaits
  <2> QED BY <1>4, <2>1, <2>2, ReadsCountStay DEF Counting
<1>6. session'.looked = session.looked
  BY DEF Preloaded, Delivering, Keeping, Shape
<1>7. /\ session.pc \notin {"inspecting", "unprepared"}
      /\ session'.pc \in {"reading", "open"} => session.pc \in {"reading", "open"}
      /\ session'.pc # "inspecting"
  <2>1. session.pc \notin {"inspecting", "unprepared"}
    BY DEF Delivering, Keeping, Fresh
  <2>2. CASE session.pc # "reading"
    BY <2>1, <2>2
  <2>3. CASE session.pc = "reading"
    <3>1. session'.pc \in {"reading", "refused", "open"}
      BY <2>3 DEF Preloaded, Delivering, Keeping, Shape
    <3> QED BY <2>3, <3>1
  <2> QED BY <2>2, <2>3
<1>8. KeptCounts'
  <2>1. \A s \in Sources : cache'[s] \in Contents \cup {Gone}
    BY <1>1 DEF Counting, KeptCounts
  <2>2. SourcesOf(manifest.policies)' = SourcesOf(manifest.policies)
    BY DEF SourcesOf
  <2>3. ASSUME preload = "sources", NEW s \in Sources
        PROVE  /\ Size(cache'[s]) <= session.looked[s].size
               /\ reads'[s].stage # "none" => reads'[s].size = session.looked[s].size
    <3>1. /\ session.looked[s].size \in Nat
          /\ Size(cache[s]) <= session.looked[s].size
          /\ reads[s].stage # "none" => reads[s].size = session.looked[s].size
      BY <2>3 DEF Counting, KeptCounts
    <3>2. CASE s = x
      <4>1. Size(content) <= session.looked[s].size
        BY <3>1, <3>2, SizeIsNat
      <4>2. reads'[s].stage = "none"
        BY <1>4, <3>2 DEF NoRead, Readers
      <4> QED BY <1>1, <3>2, <4>1, <4>2
    <3>3. CASE s # x
      BY <1>1, <1>4, <3>1, <3>3 DEF Readers
    <3> QED BY <3>2, <3>3
  <2>4. \A s \in Sources : Size(cache[s])' = Size(cache'[s])
    BY DEF Size
  <2> QED BY <1>6, <1>7, <2>1, <2>2, <2>3, <2>4 DEF Counting, KeptCounts
<1> QED BY <1>3, <1>5, <1>8 DEF Counting

LEMMA OwnReadCounts ==
  ASSUME Delivering, Counting, NEW c \in Callers, reads[c].stage # "none",
         NEW s, s = Min(call[c].todo), NEW content \in Contents \cup {Gone},
         content # Gone => Size(content) = reads[c].size,
         UNCHANGED <<manifest, calls, preload, session, cache>>,
         reads' = [reads EXCEPT ![c] = NoRead],
         call' = [call EXCEPT ![c] = Handed(c, s, content)]
  PROVE  Counting'
<1>1. PICK new : new = Handed(c, s, content)
  OBVIOUS
<1>2. call[c].pc = "await" /\ CallGood(call[c], c) /\ CallCounts(call[c], c)
  BY DEF Delivering, ReadsInv, CallsInv, Counting, CallsCount
<1>3. Size(content) <= call[c].looked[s].size
  <2>1. s \in Sources
    BY <1>2, SelectedAreSources DEF Delivering, Keeping, Busy
  <2>2. /\ reads[c].size = call[c].looked[s].size
        /\ call[c].looked[s].size \in Nat
    BY <1>2, <2>1 DEF Counting, ReadsCount, CallCounts
  <2> QED BY <2>2, SizeIsNat
<1>4. CallCounts(new, c)
  BY <1>1, <1>2, <1>3, HandedCounts DEF Delivering
<1>5. /\ call'[c] = new
      /\ \A d \in Callers \ {c} : call'[d] = call[d]
  BY <1>1 DEF Delivering, Keeping, Shape
<1>6. CallsCount'
  BY <1>4, <1>5, CallsCountStay DEF Counting
<1>7. \A y \in Readers : reads'[y] = IF y = c THEN NoRead ELSE reads[y]
  BY DEF Delivering, Keeping, Shape
<1>8. ReadsCount'
  <2>1. ReadCounts(NoRead)
    BY DEF ReadCounts, NoRead
  <2>2. ASSUME NEW d \in Callers, reads'[d].stage # "none"
        PROVE  reads'[d] = reads[d] /\ call'[d] = call[d]
    <3>1. d # c
      BY <1>7, <2>2 DEF NoRead, Readers
    <3> QED BY <1>5, <1>7, <3>1 DEF Readers
  <2> QED BY <1>7, <2>1, <2>2, ReadsCountStay DEF Counting
<1>9. \A t \in Sources : reads'[t] = reads[t]
  BY <1>7, RanksAssumption DEF Readers
<1> QED BY <1>6, <1>8, <1>9, KeptStay DEF Counting

LEMMA ReadingCounts ==
  ASSUME Delivering, Counting, NEW x \in Readers, Read(x)
  PROVE  Counting'
<1>1. UNCHANGED <<manifest, calls, preload>>
  BY DEF Read, fixed
<1>2. reads[x].stage # "none"
  BY DEF Read, ReadHead, ReadTail, Recheck, ReadHeadAgain, ReadTailAgain
<1>3. \/ \E content \in Contents \cup {Gone} :
           /\ EndRead(x, content)
           /\ content # Gone => Size(content) = reads[x].size
      \/ \E stage, first, same :
           /\ Advance(x, stage, first, same)
           /\ stage \in {"recheck", "headAgain", "tailAgain"} =>
                Size(first) = reads[x].size
  BY ReadStepsCount DEF Delivering, Counting
<1>4. ASSUME NEW content \in Contents \cup {Gone}, EndRead(x, content),
             content # Gone => Size(content) = reads[x].size
      PROVE  Counting'
  <2>1. CASE x \in Sources /\ x \notin Callers
    <3>1. /\ reads' = [reads EXCEPT ![x] = NoRead]
          /\ cache' = [cache EXCEPT ![x] = IF content = Gone THEN @ ELSE content]
          /\ session' = IF session.pc = "reading" THEN Preloaded(x, content)
                        ELSE session
          /\ call' = [c \in Callers |->
                        IF Awaits(c, x) THEN Handed(c, x, content) ELSE call[c]]
      BY <1>4, <2>1 DEF EndRead
    <3> QED BY <1>1, <1>2, <1>4, <2>1, <3>1, SharedReadCounts
  <2>2. CASE x \in Callers /\ x \notin Sources
    <3>1. SourceOf(x) = Min(call[x].todo)
      BY <2>2 DEF SourceOf
    <3>2. /\ reads' = [reads EXCEPT ![x] = NoRead]
          /\ call' = [call EXCEPT ![x] = Handed(x, SourceOf(x), content)]
          /\ UNCHANGED <<session, cache>>
      BY <1>4, <2>2 DEF EndRead
    <3> QED BY <1>1, <1>2, <1>4, <2>2, <3>1, <3>2, OwnReadCounts
  <2> QED BY <2>1, <2>2, RanksAssumption DEF Readers
<1>5. ASSUME NEW stage, NEW first, NEW same, Advance(x, stage, first, same),
             stage \in {"recheck", "headAgain", "tailAgain"} =>
               Size(first) = reads[x].size
      PROVE  Counting'
  <2>1. PICK r : /\ r = [reads[x] EXCEPT !.stage = stage, !.first = first,
                                         !.same = same]
                 /\ reads' = [reads EXCEPT ![x] = r]
                 /\ UNCHANGED <<session, cache, call>>
    BY <1>5 DEF Advance
  <2>2. r.stage = stage /\ r.first = first /\ r.size = reads[x].size
    BY <2>1 DEF Delivering, ReadsInv, ReadShape
  <2>3. \A y \in Readers : reads'[y] = IF y = x THEN r ELSE reads[y]
    BY <2>1 DEF Delivering, Keeping, Shape
  <2>4. ReadCounts(r)
    BY <1>5, <2>2 DEF ReadCounts
  <2>5. ReadsCount'
    <3>1. ASSUME NEW c \in Callers, reads'[c].stage # "none"
          PROVE  reads'[c].size = call'[c].looked[Min(call'[c].todo)].size
      <4>1. reads'[c].size = reads[c].size /\ reads[c].stage # "none"
        BY <1>2, <2>2, <2>3, <3>1 DEF Readers
      <4> QED BY <2>1, <4>1 DEF Counting, ReadsCount
    <3> QED BY <2>3, <2>4, <3>1, ReadsCountStay DEF Counting
  <2>6. CallsCount'
    BY <1>1, <2>1, CallsCountStay DEF Counting
  <2>7. KeptCounts'
    <3>1. ASSUME preload = "sources", NEW s \in Sources, reads'[s].stage # "none"
          PROVE  reads'[s].size = session.looked[s].size
      <4>1. reads'[s].size = reads[s].size /\ reads[s].stage # "none"
        BY <1>2, <2>2, <2>3, <3>1 DEF Readers
      <4> QED BY <3>1, <4>1 DEF Counting, KeptCounts
    <3> QED BY <1>1, <2>1, <3>1, KeptStay DEF Counting
  <2> QED BY <2>5, <2>6, <2>7 DEF Counting
<1> QED BY <1>3, <1>4, <1>5

LEMMA CountingNext ==
  ASSUME Delivering, Counting, [Next]_vars
  PROVE  Counting'
<1>1. CASE Prepare
  BY <1>1, PrepareCounts
<1>2. CASE \E s \in Sources : PreloadInspect(s)
  BY <1>2, PreloadInspectCounts
<1>3. CASE \E c \in Callers : Resolve(c) \/ Check(c) \/ Inspect(c) \/ Load(c)
  BY <1>3, ResolveCounts, CheckCounts, InspectCounts, LoadCounts
<1>4. CASE \E x \in Readers : Read(x)
  BY <1>4, ReadingCounts
<1>5. ASSUME UNCHANGED <<manifest, calls, preload, session, cache, reads, call>>
      PROVE  Counting'
  BY <1>5, CallsCountStay, ReadsCountUntouched, KeptStay DEF Counting, Delivering
<1>6. ASSUME Changed
      PROVE  Counting'
  BY <1>5, <1>6 DEF Changed, fixed
<1>7. CASE \/ \E f \in Places : WriteHead(f) \/ WriteTail(f) \/ Unlink(f)
           \/ \E s \in Sources, f \in Places : Relink(s, f)
  BY <1>6, <1>7 DEF WriteHead, WriteTail, Unlink, Relink
<1>8. CASE UNCHANGED vars
  BY <1>5, <1>8 DEF vars, fixed
<1> QED BY <1>1, <1>2, <1>3, <1>4, <1>7, <1>8 DEF Next

(***************************************************************************)
(* What is delivered is what was asked for, as it was on disk as long as   *)
(* no file returns to an earlier version, and never more than the limit,   *)
(* though the files grow between the counting and the reading and the      *)
(* calls of a session count twice (prepared.ts:113-246,                    *)
(* bundle.ts:120-219, check.ts:59-115).                                    *)
(***************************************************************************)
THEOREM DeliveriesAreHonest == Spec => []DeliveryHonest
<1>1. Init => Delivering /\ Counting
  BY DeliveringInit, CountingInit
<1>2. Delivering /\ Counting /\ [Next]_vars => (Delivering /\ Counting)'
  BY DeliveringNext, CountingNext
<1>3. Delivering /\ Counting => WithinLimits
  BY CountingGives
<1>4. SourcesDelivered /\ WithinLimits => DeliveryHonest
  BY DEF DeliveryHonest
<1>5. Spec => []WithinLimits
  BY <1>1, <1>2, <1>3, PTL DEF Spec
<1> QED BY <1>4, <1>5, SourcesAreDelivered, PTL
=============================================================================
