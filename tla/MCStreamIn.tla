------------------------------ MODULE MCStreamIn ------------------------------
(* Instances of StreamIn for TLC.                                          *)
EXTENDS StreamIn, TLC

CONSTANTS plain, lab, lab2, x1, x2, mic, usb

\* The capture handles of sound trigger are alike, and so are its sessions.
LabSymmetry == Permutations(LabStreams) \cup Permutations(StSessions)

\* A capture handle is in use when it has a stream or a session.
InUse(l) == Exists(l) \/ registered[l] # Null

\* What a stream and its session are when no mute and no change of device was ever asked for.
Untouched(s) ==
  /\ Exists(s) => in[s].mAndroidInDevices \in Mics /\ in[s].mPalInDevice \in Mics
  /\ pal[s] # NoSession => ~pal[s].mute /\ pal[s].muteKnown /\ pal[s].device \in Mics

\* One capture handle is followed with everything else; two at a time are followed while
\* the microphone is not muted and nothing leaves its device, and with one sound trigger
\* session lent to both.
LabBound ==
  Cardinality({l \in LabStreams : InUse(l)}) > 1 =>
    /\ ~mute_ /\ visit = 0 /\ ~shrunk /\ misrouted = {}
    /\ \A s \in Streams : Untouched(s)
    /\ Cardinality({registered[l] : l \in LabStreams} \ {Null}) <= 1
==============================================================================
