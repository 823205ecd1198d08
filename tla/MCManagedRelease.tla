-------------------------- MODULE MCManagedRelease --------------------------
(* Three runs on two commits.                                               *)
EXTENDS ManagedRelease, TLC

CONSTANTS s1, s2
MCSources == {s1, s2}
MCSettings == {[alias |-> TRUE, completion |-> FALSE],
               [alias |-> FALSE, completion |-> TRUE]}
MCSymmetry == Permutations(MCSources)
=============================================================================
