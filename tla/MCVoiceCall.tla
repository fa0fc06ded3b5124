----------------------------- MODULE MCVoiceCall -----------------------------
(* Instances of VoiceCall for TLC.                                         *)
EXTENDS VoiceCall, TLC

CONSTANTS s1, s2

\* Streams are only names.
StreamSymmetry == Permutations(Streams)

\* `overlapped` never becomes FALSE again, and what is checked under this constraint says
\* nothing of the states behind it.
NoOverlap == ~overlapped
==============================================================================
