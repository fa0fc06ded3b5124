----------------------------- MODULE MCStreamOut -----------------------------
(* Instances of StreamOut for TLC.                                         *)
EXTENDS StreamOut, TLC

CONSTANTS w, c1, c2, s1, s2, s3

\* Clients run the same operations and sessions are only names.
Symmetry == Permutations(Clients) \cup Permutations(Sessions)
==============================================================================
