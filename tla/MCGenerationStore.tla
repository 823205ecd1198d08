-------------------------- MODULE MCGenerationStore --------------------------
(* Two builders.  With a reader and a careful operator they build three     *)
(* generations (an old one, a candidate and a leftover); with an operator   *)
(* that removes the locks of live builders, two.                            *)
EXTENDS GenerationStore, TLC

CONSTANTS b1, b2, g1, g2, g3
MCBuilders == {b1, b2}
MCGens == {g1, g2, g3}
MCSettings ==
  {[careless |-> FALSE, reads |-> TRUE, gens |-> MCGens]} \cup
  {[careless |-> TRUE, reads |-> FALSE, gens |-> G] :
     G \in {H \in SUBSET MCGens : Cardinality(H) = 2}}
MCSymmetry == Permutations(MCBuilders) \cup Permutations(MCGens)
==============================================================================
