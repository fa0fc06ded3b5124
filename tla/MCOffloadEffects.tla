-------------------------- MODULE MCOffloadEffects ---------------------------
(* Instances of OffloadEffects for TLC.                                    *)
EXTENDS OffloadEffects, TLC

CONSTANTS e1, e2, o1, o2, s1, s2

\* Contexts, outputs and sessions are only names.
Symmetry == Permutations(Effects) \cup Permutations(Outputs) \cup Permutations(Sessions)
==============================================================================
