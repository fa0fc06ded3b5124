---------------------------- MODULE CallLifecycle ----------------------------
(***************************************************************************)
(* What the voice sessions promise telephony and PAL, without the callers, *)
(* the loops and the devices of VoiceCall: a session that is asked for     *)
(* gets a stream, which is opened, then started, and only then is the call *)
(* active; an active call keeps its stream until it is asked to end.  One  *)
(* session at a time is on its way, and nothing else is asked meanwhile.   *)
(***************************************************************************)
CONSTANT Sessions

VARIABLES
  asked,   \* the sessions that are to have a call
  active,  \* those that have one
  stage    \* of the stream of each session

life == <<asked, active, stage>>

Init == asked = {} /\ active = {} /\ stage = [i \in Sessions |-> "none"]

\* No session is on its way to a call.
Settled == \A i \in Sessions : stage[i] # "opened" /\ (stage[i] = "running" => i \in active)

To(i, s) == stage' = [stage EXCEPT ![i] = s]

Ask == Settled /\ asked' \in SUBSET Sessions /\ UNCHANGED <<active, stage>>

\* A stream that runs astray is forgotten for the new one.
Open(i) ==
  /\ Settled /\ i \in asked \ active /\ stage[i] \in {"none", "astray"}
  /\ To(i, "opened") /\ UNCHANGED <<asked, active>>

GiveUp(i) == stage[i] = "opened" /\ To(i, "none") /\ UNCHANGED <<asked, active>>

Start(i) == stage[i] = "opened" /\ To(i, "running") /\ UNCHANGED <<asked, active>>

\* The call is there, or PAL refused the mute of its device: the stream runs astray then.
Connect(i) ==
  /\ i \in asked \ active /\ stage[i] = "running"
  /\ active' = active \cup {i} /\ UNCHANGED <<asked, stage>>

Stray(i) ==
  /\ i \in asked \ active /\ stage[i] = "running"
  /\ To(i, "astray") /\ UNCHANGED <<asked, active>>

\* The stream is closed, and the call is over unless PAL refused the close.
End(i) ==
  /\ Settled /\ i \in active \ asked
  /\ To(i, "none") /\ active' \in {active \ {i}, active} /\ UNCHANGED asked

Next ==
  \/ Ask
  \/ \E i \in Sessions :
       Open(i) \/ GiveUp(i) \/ Start(i) \/ Connect(i) \/ Stray(i) \/ End(i)

Spec == Init /\ [][Next]_life
==============================================================================
