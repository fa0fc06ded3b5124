-------------------------- MODULE PlaybackLifecycle --------------------------
(***************************************************************************)
(* What a playback stream promises the audio server and PAL, without the   *)
(* threads, failures and flags of StreamOut: a stream in standby holds no  *)
(* PAL session, one that plays or is paused holds its sessions, and going  *)
(* back to standby means stopping first and giving up every session at     *)
(* once.                                                                   *)
(***************************************************************************)
CONSTANT Sessions

VARIABLES mode, held

Active == {"playing", "paused"}

Init == mode = "standby" /\ held = {}

\* Sessions are opened and, when all goes well, started.
Acquire ==
  /\ mode = "standby"
  /\ mode' \in {"held", "playing"}
  /\ held' \in (SUBSET Sessions) \ {{}}

\* Held sessions start; a session that cannot start may be given up alone.
Play == mode = "held" /\ mode' = "playing" /\ UNCHANGED held
Narrow == mode = "held" /\ mode' = "held" /\ held' \in (SUBSET held) \ {{}}

Pause == mode = "playing" /\ mode' = "paused" /\ UNCHANGED held
Resume == mode = "paused" /\ mode' = "playing" /\ UNCHANGED held

\* A stream leaves its active modes by stopping, with its sessions still held.
Halt == mode \in Active /\ mode' = "held" /\ UNCHANGED held

Release == mode = "held" /\ mode' = "standby" /\ held' = {}

\* The stream object goes away in any mode, and a new one starts in standby.
Discard == mode # "gone" /\ mode' = "gone" /\ held' = {}
Create == mode = "gone" /\ mode' = "standby" /\ UNCHANGED held

Next == Acquire \/ Play \/ Narrow \/ Pause \/ Resume \/ Halt \/ Release \/ Discard \/ Create

Spec == Init /\ [][Next]_<<mode, held>>
==============================================================================
