------------------------------ MODULE VoiceCall ------------------------------
(***************************************************************************)
(* AudioVoice of hal/AudioVoice.cpp: the two voice call sessions, the PAL  *)
(* stream each holds, and the four callers that move them: the audio mode  *)
(* (SetMode), the routing of the primary output (RouteStream), telephony's *)
(* parameters (VoiceSetParameters / UpdateCallState), and the microphone   *)
(* mute switch (AudioDevice::SetMicMute).                                  *)
(*                                                                         *)
(* RouteStream and UpdateCallState hold voice_mutex_; SetMode, SetMicMute  *)
(* and the other parameters do not.  UpdateCalls is split where it reads a *)
(* session's state, opens, starts, stops and closes a stream, forgets its  *)
(* handle and reads the mute switch, because the unlocked callers may come *)
(* in between; SetMicMute is split between the test of a handle and its    *)
(* use.  PAL may give a new stream the handle of one that was closed.      *)
(***************************************************************************)
EXTENDS Integers, FiniteSets

CONSTANTS
  MaxVoiceSessions,   \* MAX_VOICE_SESSIONS
  Streams,            \* the PAL stream handles
  Devices,            \* the receive devices a call is routed to
  TtyModes,           \* bound: the TTY modes that are asked for
  DeviceMutes,        \* bound: the device mutes that are asked for
  Proxy,              \* PAL_DEVICE_OUT_PROXY, the device of call screening
  Null,               \* the NULL handle
  NoThread,           \* voice_mutex_ is free
  Callers,            \* the callers of this instance: "mode" is SetMode, "route"
                      \* RouteStream, "param" VoiceSetParameters, "mute" SetMicMute
  Serialized,         \* the audio server calls SetMode, RouteStream and
                      \* VoiceSetParameters one at a time
  PalFailures         \* the PAL calls that may fail, besides open and start

ASSUME SessionAssumption == MaxVoiceSessions \in Nat \ {0}
ASSUME NameAssumption == /\ Null \notin Streams
                         /\ Devices # {}
                         /\ NoThread \notin {"mode", "route", "param", "mute"}
ASSUME CallerAssumption == /\ Serialized \in BOOLEAN
                           /\ Callers \subseteq {"mode", "route", "param", "mute"}
ASSUME DeviceMuteAssumption == DeviceMutes \subseteq BOOLEAN
ASSUME TtyAssumption == TtyModes \subseteq {"OFF", "FULL", "VCO", "HCO"}
ASSUME FailureAssumption == PalFailures \subseteq {"mute", "close", "device"}

VARIABLES
  mode_,                    \* the audio mode
  in_call,                  \* voice_.in_call
  current_, new_,           \* state of each session: what it is, what is asked
  pal_voice_handle,         \* of each session
  device_mute,              \* device_mute.mute of each session
  pal_voice_rx_device_id_,
  tty_mode,                 \* of every session
  voice_mutex_,
  mute_,                    \* AudioDevice::mute_
  found,                    \* the handle SetMicMute's test has found
  pc, idx, failed,          \* of each caller: where it is, session, ret < 0
  pal, palMute, palDevice,  \* PAL: state, mic mute and device of each stream
  palErrors,                \* history: which of PalFailures have happened
  screened,                 \* history: the calls were started by SetMode
  reread,                   \* history: a call start read the mic mute on, then off
  overlapped                \* history: a caller began to start or stop a session, or
                            \* changed what is asked of it, while another was doing so

sessionVars == <<current_, new_, pal_voice_handle, device_mute>>
palVars     == <<pal, palMute, palDevice>>
deviceVars  == <<pal_voice_rx_device_id_, tty_mode>>
micVars     == <<mute_, found>>
callVars    == <<mode_, in_call, deviceVars, micVars>>
threadVars  == <<voice_mutex_, pc, idx, failed>>
histVars    == <<palErrors, screened, reread, overlapped>>
vars == <<sessionVars, palVars, callVars, threadVars, histVars>>

Sessions  == 1..MaxVoiceSessions
Modes     == {"NORMAL", "IN_COMMUNICATION", "IN_CALL", "CALL_SCREEN"}
States    == {"INACTIVE", "ACTIVE"}
CallModes == {"IN_CALL", "CALL_SCREEN"}

\* Program points: in VoiceStart or VoiceStop of a session, after either closed
\* the session's stream, in UpdateCalls, all.
StartPoints  == {"start", "opened", "startClosed", "micMute", "micReread", "micOn", "micOff"}
StopPoints   == {"stop", "close", "stopClosed"}
ClosedPoints == {"startClosed", "stopClosed"}
UpdatePoints == {"calls"} \cup StartPoints \cup StopPoints
Points == {"idle", "exit", "waitLock", "setDevice", "setFirst", "muting", "muteUse"}
            \cup UpdatePoints

-----------------------------------------------------------------------------
IsCallActive(i) == current_[i] # "INACTIVE"
IsAnyCallActive == \E i \in Sessions : IsCallActive(i)

\* The receive device VoiceStart and VoiceSetDevice give a session: HCO and VCO
\* replace some, whatever the mode.
VoiceDevice ==
  CASE tty_mode = "HCO" /\ pal_voice_rx_device_id_ = "headset" -> "handset"
    [] tty_mode = "VCO" /\ pal_voice_rx_device_id_ = "speaker" -> "headset"
    [] OTHER -> IF mode_ = "CALL_SCREEN" THEN Proxy ELSE pal_voice_rx_device_id_

VoiceDevices == Devices \cup {Proxy, "handset", "headset"}

At(t, p) == t \in Callers /\ pc[t] = p
Goto(t, p) == pc' = [pc EXCEPT ![t] = p] /\ UNCHANGED <<idx, failed>>
Stay == UNCHANGED voice_mutex_

\* Another caller than t is starting or stopping session i.
TakenBy(u, i) == idx[u] = i /\ pc[u] \in StartPoints \cup StopPoints
Taken(t, i) == \E u \in Callers \ {t} : TakenBy(u, i)
Overlap(b) == overlapped' = (overlapped \/ b)

\* A caller may enter its handler: it is idle, and the audio server's own lock
\* (when it holds one) keeps the other two out.
MayEnter(t) ==
  /\ At(t, "idle")
  /\ Serialized /\ t # "mute" => \A u \in Callers \ {"mute"} : At(u, "idle")

\* The handler returns, and unlocks voice_mutex_ if it had locked it.
Finish(t) ==
  /\ pc' = [pc EXCEPT ![t] = "idle"]
  /\ idx' = [idx EXCEPT ![t] = 1]
  /\ failed' = [failed EXCEPT ![t] = FALSE]
  /\ voice_mutex_' = IF voice_mutex_ = t THEN NoThread ELSE voice_mutex_

\* From one session of a loop at p to the next, or out of the handler.
NextSession(t, p) ==
  IF idx[t] < MaxVoiceSessions
  THEN /\ pc' = [pc EXCEPT ![t] = p]
       /\ idx' = [idx EXCEPT ![t] = @ + 1]
       /\ failed' = [failed EXCEPT ![t] = FALSE]
       /\ Stay
  ELSE Finish(t)

Init ==
  /\ mode_ = "NORMAL" /\ in_call = FALSE /\ mute_ = FALSE /\ found = Null
  /\ current_ = [i \in Sessions |-> "INACTIVE"]
  /\ new_ = [i \in Sessions |-> "INACTIVE"]
  /\ pal_voice_handle = [i \in Sessions |-> Null]
  /\ device_mute = [i \in Sessions |-> FALSE]
  /\ pal_voice_rx_device_id_ \in Devices /\ tty_mode = "OFF"
  /\ voice_mutex_ = NoThread
  /\ pc = [t \in Callers |-> "idle"]
  /\ idx = [t \in Callers |-> 1]
  /\ failed = [t \in Callers |-> FALSE]
  /\ pal = [s \in Streams |-> "closed"]
  /\ palMute = [s \in Streams |-> FALSE]
  /\ palDevice = [s \in Streams |-> Null]
  /\ palErrors = {} /\ screened = FALSE /\ reread = FALSE
  /\ overlapped = FALSE

-----------------------------------------------------------------------------
(* SetMode: no lock.                                                       *)

\* Between call screening and a full call: only the first session is switched.
SwitchCallScreen(m) ==
  /\ MayEnter("mode") /\ mode_ # m
  /\ {m, mode_} = CallModes
  /\ mode_' = m
  /\ Goto("mode", "setFirst") /\ Stay
  /\ UNCHANGED <<in_call, deviceVars, micVars, sessionVars, palVars, histVars>>

\* NORMAL during a call: StopCall asks every session to end.
StopCall ==
  /\ MayEnter("mode") /\ mode_ # "NORMAL" /\ in_call
  /\ mode_' = "NORMAL"
  /\ in_call' = FALSE
  /\ new_' = [i \in Sessions |-> "INACTIVE"]
  /\ Overlap(\E i \in Sessions : new_[i] # "INACTIVE" /\ Taken("mode", i))
  /\ screened' = FALSE
  /\ Goto("mode", "calls") /\ Stay
  /\ UNCHANGED <<deviceVars, micVars, current_, pal_voice_handle, device_mute,
                 palVars, palErrors, reread>>

\* CALL_SCREEN, not from a full call: UpdateCalls, whatever in_call is.
StartCallScreen ==
  /\ MayEnter("mode") /\ mode_ \notin CallModes
  /\ mode_' = "CALL_SCREEN"
  /\ screened' = (screened \/ ~in_call)
  /\ Goto("mode", "calls") /\ Stay
  /\ UNCHANGED <<in_call, deviceVars, micVars, sessionVars, palVars,
                 palErrors, reread, overlapped>>

\* Any other change only records the mode.
RecordMode(m) ==
  /\ MayEnter("mode") /\ mode_ # m
  /\ {m, mode_} # CallModes /\ m # "CALL_SCREEN"
  /\ ~(in_call /\ m = "NORMAL")
  /\ mode_' = m
  /\ UNCHANGED <<in_call, deviceVars, micVars, sessionVars, palVars,
                 threadVars, histVars>>

-----------------------------------------------------------------------------
(* RouteStream.                                                            *)

\* AUDIO_DEVICE_NONE among the devices (or, during a call, two devices): the
\* handler goes to its end with nothing done.
RouteNone ==
  /\ MayEnter("route")
  /\ Goto("route", "exit") /\ Stay
  /\ UNCHANGED <<callVars, sessionVars, palVars, histVars>>

RouteExit ==
  /\ At("route", "exit")
  /\ Finish("route")
  /\ UNCHANGED <<callVars, sessionVars, palVars, histVars>>

\* The device ids are set before voice_mutex_ is taken.
RouteIds(d) ==
  /\ MayEnter("route")
  /\ pal_voice_rx_device_id_' = d
  /\ Goto("route", "waitLock") /\ Stay
  /\ UNCHANGED <<mode_, in_call, tty_mode, micVars, sessionVars, palVars, histVars>>

RouteLocks == At("route", "waitLock") /\ voice_mutex_ = NoThread

\* Mutant: in_call is not set.
MarkInCallNever == UNCHANGED <<in_call, screened>>

MarkInCall == in_call' = TRUE /\ UNCHANGED screened

\* No call is active: a call mode starts the calls telephony has asked for.
RouteStartsCalls ==
  /\ RouteLocks
  /\ ~IsAnyCallActive /\ mode_ \in CallModes
  /\ MarkInCall
  /\ voice_mutex_' = "route"
  /\ Goto("route", "calls")
  /\ UNCHANGED <<mode_, deviceVars, micVars, sessionVars, palVars, palErrors,
                 reread, overlapped>>

RouteNothing ==
  /\ RouteLocks
  /\ ~IsAnyCallActive /\ mode_ \notin CallModes
  /\ Finish("route")
  /\ UNCHANGED <<callVars, sessionVars, palVars, histVars>>

\* Mutant: only the first session is switched, as SetMode does.
SwitchPointFirst == "setFirst"

SwitchPoint == "setDevice"

\* A call is active: every session's device is switched.
RouteSwitches ==
  /\ RouteLocks
  /\ IsAnyCallActive
  /\ voice_mutex_' = "route"
  /\ Goto("route", SwitchPoint)
  /\ UNCHANGED <<callVars, sessionVars, palVars, histVars>>

\* pal_stream_set_device for the streams of S: each gets the device d or fails,
\* as it does when the stream has been closed.
SetDevicesTo(d, S) ==
  \E refused \in SUBSET (IF "device" \in PalFailures THEN S ELSE {}) :
    /\ palDevice' = [s \in Streams |-> IF s \in S \ refused /\ pal[s] # "closed" THEN d
                                                            ELSE palDevice[s]]
    /\ palErrors' = IF refused = {} THEN palErrors ELSE palErrors \cup {"device"}

SetDevices(S) == SetDevicesTo(VoiceDevice, S)

ActiveHandles == {pal_voice_handle[i] : i \in {j \in Sessions : IsCallActive(j)}} \ {Null}

\* VoiceSetDevice of one session, in RouteStream's loop or alone in SetMode.
VoiceSetDevice(t) ==
  /\ At(t, "setDevice") \/ At(t, "setFirst")
  /\ SetDevices({pal_voice_handle[idx[t]]} \ {Null})
  /\ IF At(t, "setDevice") THEN NextSession(t, "setDevice") ELSE Finish(t)
  /\ UNCHANGED <<callVars, sessionVars, pal, palMute, screened, reread, overlapped>>

-----------------------------------------------------------------------------
(* UpdateCallState, and the parameters that touch a session's stream.      *)

\* Mutant: a request to end is only acted upon in a call mode.
CallsNeedUpdateInMode(i) == in_call /\ mode_ \in CallModes

CallsNeedUpdate(i) == IsCallActive(i) \/ (in_call /\ mode_ \in CallModes)

UpdateCallState(i, st) ==
  /\ MayEnter("param") /\ voice_mutex_ = NoThread
  /\ new_' = [new_ EXCEPT ![i] = st]
  /\ Overlap(new_[i] # st /\ Taken("param", i))
  /\ IF CallsNeedUpdate(i)
     THEN voice_mutex_' = "param" /\ Goto("param", "calls")
     ELSE UNCHANGED threadVars
  /\ UNCHANGED <<callVars, current_, pal_voice_handle, device_mute, palVars, palErrors,
                 screened, reread>>

\* Every session caches the mute and the active ones apply it, in order; the
\* first failure ends the loop, so the later sessions keep the old value.
SetDeviceMutes(mute) ==
  /\ MayEnter("param")
  /\ \E k \in Sessions :
       /\ k < MaxVoiceSessions => IsCallActive(k) /\ "mute" \in PalFailures
       /\ device_mute' = [i \in Sessions |-> IF i <= k THEN mute ELSE device_mute[i]]
  /\ UNCHANGED <<callVars, current_, new_, pal_voice_handle, palVars, threadVars, histVars>>

\* Hearing aid compatibility changes: the active sessions' devices are set again.
SetHac ==
  /\ MayEnter("param")
  /\ SetDevices(ActiveHandles)
  /\ UNCHANGED <<callVars, sessionVars, pal, palMute, threadVars, screened, reread,
                 overlapped>>

\* The TTY mode changes: HCO and VCO set the active sessions' devices again.
SetTtyMode(m) ==
  /\ MayEnter("param")
  /\ tty_mode' = m
  /\ UNCHANGED <<mode_, pal_voice_rx_device_id_>>
  /\ IF m \in {"VCO", "HCO"}
     THEN SetDevicesTo(VoiceDevice', ActiveHandles)
     ELSE UNCHANGED <<palDevice, palErrors>>
  /\ UNCHANGED <<in_call, micVars, sessionVars, pal, palMute, threadVars, screened, reread,
                 overlapped>>

-----------------------------------------------------------------------------
(* UpdateCalls, run by whichever caller got to "calls".                    *)

CallsLook(t) ==
  /\ At(t, "calls")
  /\ LET i == idx[t]
     IN \/ /\ new_[i] = "ACTIVE" /\ current_[i] = "INACTIVE"
           /\ Goto(t, "start") /\ Stay /\ Overlap(Taken(t, i))
        \/ /\ new_[i] = "INACTIVE" /\ current_[i] = "ACTIVE"
           /\ Goto(t, "stop") /\ Stay /\ Overlap(Taken(t, i))
        \/ /\ new_[i] = current_[i]
           /\ NextSession(t, "calls") /\ UNCHANGED overlapped
  /\ UNCHANGED <<callVars, sessionVars, palVars, palErrors, screened, reread>>

\* VoiceStart: pal_stream_open stores the handle, or fails.
VoiceOpenFails(t) ==
  /\ At(t, "start")
  /\ NextSession(t, "calls")
  /\ UNCHANGED <<callVars, sessionVars, palVars, histVars>>

VoiceOpen(t) ==
  /\ At(t, "start")
  /\ \E s \in Streams :
       /\ pal[s] = "closed"
       /\ pal' = [pal EXCEPT ![s] = "open"]
       /\ palDevice' = [palDevice EXCEPT ![s] = VoiceDevice]
       /\ pal_voice_handle' = [pal_voice_handle EXCEPT ![idx[t]] = s]
  /\ Goto(t, "opened") /\ Stay
  /\ UNCHANGED <<callVars, current_, new_, device_mute, palMute, histVars>>

\* pal_stream_close: the stream is gone, and with it its mute and its device.
ClosePal(s) ==
  /\ pal' = [q \in Streams |-> IF q = s THEN "closed" ELSE pal[q]]
  /\ palMute' = [q \in Streams |-> q # s /\ palMute[q]]
  /\ palDevice' = [q \in Streams |-> IF q = s THEN Null ELSE palDevice[q]]

\* Mutant: the handle of the failed stream is kept.
ForgetHandleNot(i) == UNCHANGED pal_voice_handle

ForgetHandle(i) == pal_voice_handle' = [pal_voice_handle EXCEPT ![i] = Null]

\* pal_stream_start fails: the stream is closed.
VoiceStartFails(t) ==
  /\ At(t, "opened")
  /\ ClosePal(pal_voice_handle[idx[t]])
  /\ Goto(t, "startClosed") /\ Stay
  /\ UNCHANGED <<callVars, sessionVars, histVars>>

\* Its handle is set to NULL, and VoiceStart returns an error (the device and mic
\* mutes that follow find no handle).
VoiceStartForgets(t) ==
  /\ At(t, "startClosed")
  /\ ForgetHandle(idx[t])
  /\ NextSession(t, "calls")
  /\ UNCHANGED <<callVars, current_, new_, device_mute, palVars, histVars>>

\* The stream runs.  When the session's device mute cannot be applied,
\* VoiceStart's result is that error although the stream stays running.
VoiceStarts(t) ==
  /\ At(t, "opened")
  /\ \E s \in Streams :
       /\ s = pal_voice_handle[idx[t]] /\ pal[s] # "closed"
       /\ pal' = [pal EXCEPT ![s] = "running"]
  /\ \E muteFails \in BOOLEAN :
       /\ muteFails => device_mute[idx[t]] /\ "mute" \in PalFailures
       /\ failed' = [failed EXCEPT ![t] = muteFails]
       /\ palErrors' = IF muteFails THEN palErrors \cup {"mute"} ELSE palErrors
  /\ pc' = [pc EXCEPT ![t] = "micMute"]
  /\ UNCHANGED <<callVars, sessionVars, palMute, palDevice, voice_mutex_, idx, screened,
                 reread, overlapped>>

\* UpdateCalls after VoiceStart or VoiceStop: the state that is asked for now
\* becomes the current one, unless they failed.
EndStep(t) ==
  /\ current_' = IF failed[t] THEN current_ ELSE [current_ EXCEPT ![idx[t]] = new_[idx[t]]]
  /\ NextSession(t, "calls")

\* Mutant: the cached mic mute is not applied to a new call.
MicMuteSkipped(t) == EndStep(t)

\* `if (adevice->mute_)`: not muted, nothing to apply.
MicMuteRead(t) ==
  IF mute_ THEN Goto(t, "micReread") /\ Stay /\ UNCHANGED current_ ELSE EndStep(t)

MicMuteLook(t) ==
  /\ At(t, "micMute")
  /\ MicMuteRead(t)
  /\ UNCHANGED <<callVars, new_, pal_voice_handle, device_mute, palVars, histVars>>

\* The argument of pal_stream_set_mute is mute_ once more: the compiler may use
\* the value it has or load it again.
MicMuteReread(t) ==
  /\ At(t, "micReread")
  /\ \/ Goto(t, "micOn") /\ UNCHANGED reread
     \/ ~mute_ /\ Goto(t, "micOff") /\ reread' = TRUE
  /\ UNCHANGED <<callVars, sessionVars, palVars, voice_mutex_, palErrors, screened,
                 overlapped>>

\* pal_stream_set_mute: PAL takes the mute of a stream that is open.
Mute(h, b) ==
  palMute' = [s \in Streams |-> IF s = h /\ pal[s] # "closed" THEN b ELSE palMute[s]]

MicMuteApply(t) ==
  /\ pc[t] \in {"micOn", "micOff"}
  /\ Mute(pal_voice_handle[idx[t]], At(t, "micOn"))
  /\ EndStep(t)
  /\ UNCHANGED <<callVars, new_, pal_voice_handle, device_mute, pal, palDevice, histVars>>

\* VoiceStop without a handle: nothing to stop, no error.
VoiceStopNone(t) ==
  /\ At(t, "stop") /\ pal_voice_handle[idx[t]] = Null
  /\ current_' = [current_ EXCEPT ![idx[t]] = new_[idx[t]]]
  /\ NextSession(t, "calls")
  /\ UNCHANGED <<callVars, new_, pal_voice_handle, device_mute, palVars, histVars>>

VoiceStop(t) ==
  /\ At(t, "stop") /\ pal_voice_handle[idx[t]] # Null
  /\ Goto(t, "close") /\ Stay
  /\ UNCHANGED <<callVars, sessionVars, palVars, histVars>>

\* Mutant: the stream is stopped and forgotten, not closed.
StopPalOnly(s) == UNCHANGED palVars

StopPal(s) == ClosePal(s)

\* The stream is stopped and closed whatever PAL answers.
VoiceStopCloses(t) ==
  /\ At(t, "close")
  /\ LET s == pal_voice_handle[idx[t]]
     IN /\ StopPal(s)
        /\ \E closeFails \in BOOLEAN :
             /\ closeFails => s = Null \/ "close" \in PalFailures
             /\ failed' = [failed EXCEPT ![t] = closeFails]
             /\ palErrors' = IF closeFails /\ s # Null THEN palErrors \cup {"close"}
                                                      ELSE palErrors
  /\ pc' = [pc EXCEPT ![t] = "stopClosed"]
  /\ UNCHANGED <<callVars, sessionVars, voice_mutex_, idx, screened, reread, overlapped>>

\* The handle is set to NULL and UpdateCalls takes note of the end; when the close
\* failed the session stays ACTIVE, without a stream.
VoiceStopForgets(t) ==
  /\ At(t, "stopClosed")
  /\ pal_voice_handle' = [pal_voice_handle EXCEPT ![idx[t]] = Null]
  /\ EndStep(t)
  /\ UNCHANGED <<callVars, new_, device_mute, palVars, histVars>>

UpdateCalls(t) ==
  \/ CallsLook(t) \/ VoiceOpenFails(t) \/ VoiceOpen(t) \/ VoiceStartFails(t)
  \/ VoiceStartForgets(t) \/ VoiceStarts(t)
  \/ MicMuteLook(t) \/ MicMuteReread(t) \/ MicMuteApply(t)
  \/ VoiceStopNone(t) \/ VoiceStop(t) \/ VoiceStopCloses(t) \/ VoiceStopForgets(t)

-----------------------------------------------------------------------------
(* AudioDevice::SetMicMute: the switch first, then every session's stream. *)

SetMicMute(state) ==
  /\ MayEnter("mute")
  /\ mute_' = state
  /\ Goto("mute", "muting") /\ Stay
  /\ UNCHANGED <<mode_, in_call, deviceVars, found, sessionVars, palVars, histVars>>

\* AudioVoice::SetMicMute tests a session's handle,
MuteLook ==
  /\ At("mute", "muting")
  /\ LET h == pal_voice_handle[idx["mute"]]
     IN IF h = Null THEN NextSession("mute", "muting") /\ UNCHANGED found
        ELSE Goto("mute", "muteUse") /\ Stay /\ found' = h
  /\ UNCHANGED <<mode_, in_call, deviceVars, mute_, sessionVars, palVars, histVars>>

\* and uses it: as it was found, or as it is read again.  Either may be closed.
MuteSession ==
  /\ At("mute", "muteUse")
  /\ \E h \in {found, pal_voice_handle[idx["mute"]]} : Mute(h, mute_)
  /\ found' = Null
  /\ NextSession("mute", "muting")
  /\ UNCHANGED <<mode_, in_call, deviceVars, mute_, sessionVars, pal, palDevice, histVars>>

-----------------------------------------------------------------------------
SetMode ==
  \/ \E m \in Modes : SwitchCallScreen(m) \/ RecordMode(m)
  \/ StopCall \/ StartCallScreen

RouteStream ==
  \/ RouteNone \/ RouteExit \/ \E d \in Devices : RouteIds(d)
  \/ RouteStartsCalls \/ RouteNothing \/ RouteSwitches

VoiceSetParameters ==
  \/ \E i \in Sessions, st \in States : UpdateCallState(i, st)
  \/ \E b \in DeviceMutes : SetDeviceMutes(b)
  \/ SetHac
  \/ \E m \in TtyModes : SetTtyMode(m)

Next ==
  \/ SetMode \/ RouteStream \/ VoiceSetParameters
  \/ \E t \in Callers : VoiceSetDevice(t)
  \/ \E t \in Callers : UpdateCalls(t)
  \/ \E b \in BOOLEAN : SetMicMute(b)
  \/ MuteLook \/ MuteSession

Spec == Init /\ [][Next]_vars

\* A caller inside its handler goes on with it; nobody has to call.
Fairness ==
  /\ \A t \in Callers : WF_vars(UpdateCalls(t) \/ VoiceSetDevice(t))
  /\ WF_vars(RouteStartsCalls \/ RouteNothing \/ RouteSwitches \/ RouteExit)

FairSpec == Spec /\ Fairness

-----------------------------------------------------------------------------
(* Properties.                                                             *)

\* Every variable has its type: no loop leaves the array of sessions.
TypeOK ==
  /\ mode_ \in Modes
  /\ in_call \in BOOLEAN /\ mute_ \in BOOLEAN
  /\ screened \in BOOLEAN /\ reread \in BOOLEAN /\ overlapped \in BOOLEAN
  /\ tty_mode \in {"OFF", "FULL", "VCO", "HCO"} /\ found \in Streams \cup {Null}
  /\ current_ \in [Sessions -> States]
  /\ new_ \in [Sessions -> States]
  /\ pal_voice_handle \in [Sessions -> Streams \cup {Null}]
  /\ device_mute \in [Sessions -> BOOLEAN]
  /\ pal_voice_rx_device_id_ \in Devices
  /\ voice_mutex_ \in {"route", "param", NoThread}
  /\ pc \in [Callers -> Points]
  /\ idx \in [Callers -> Sessions]
  /\ failed \in [Callers -> BOOLEAN]
  /\ pal \in [Streams -> {"closed", "open", "running"}]
  /\ palMute \in [Streams -> BOOLEAN]
  /\ palDevice \in [Streams -> VoiceDevices \cup {Null}]
  /\ palErrors \subseteq PalFailures

\* No caller is inside UpdateCalls or a device switch.
Quiet == \A t \in Callers : pc[t] \notin UpdatePoints \cup {"setDevice", "setFirst"}

\* The callers take no common lock.  Two of them at one session at once (overlapped) can
\* open two streams for it, or close a handle that is another session's by now; the next
\* three and MicMuteHeld say that nothing else goes wrong however the callers interleave.

\* A session names a stream that PAL has closed only until the caller that closed
\* it has forgotten it.  (SetMicMute may use the closed handle in that time.)
HandleIsOpen ==
  ~overlapped =>
    \A i \in Sessions :
      \/ pal_voice_handle[i] = Null
      \/ pal[pal_voice_handle[i]] # "closed"
      \/ \E t \in Callers : idx[t] = i /\ pc[t] \in ClosedPoints

\* No voice stream is left open without a session that names it, as long as no
\* device mute has failed while a call was starting: VoiceStart then reports an
\* error for a running stream, and the next start overwrites its handle.
NoOrphanStream ==
  ~overlapped /\ "mute" \notin palErrors =>
    \A s \in Streams : pal[s] # "closed" => \E i \in Sessions : pal_voice_handle[i] = s

\* A session no caller is at has a running stream when it is ACTIVE and none when
\* it is INACTIVE.  The exceptions are a failed close (ACTIVE without a stream)
\* and the failed device mute.
StreamMatchesCall ==
  ~overlapped =>
    \A i \in Sessions :
      (\A t \in Callers : ~TakenBy(t, i)) =>
        LET h == pal_voice_handle[i]
        IN IF IsCallActive(i)
           THEN (h # Null /\ pal[h] = "running") \/ (h = Null /\ "close" \in palErrors)
           ELSE h = Null \/ "mute" \in palErrors

\* A call is active only after RouteStream marked it (in_call), so that leaving
\* the call modes ends it, unless the call was started by SetMode(CALL_SCREEN),
\* which marks nothing, or a close failed.
ActiveNeedsInCall ==
  Quiet /\ IsAnyCallActive => in_call \/ screened \/ "close" \in palErrors

\* With the microphone muted and SetMicMute done, no running call that has got
\* through VoiceStart is open to the microphone: SetMicMute stores the switch
\* before it looks at the handles, VoiceStart the handle before the switch.  (A
\* handle that is about to be forgotten may be another session's stream by now.)
\* The exception is the second read of the switch in VoiceStart, which may see
\* an unmute that is over by the time the value is applied.
MicMuteHeld ==
  ~overlapped /\ mute_ /\ At("mute", "idle") /\ ~reread =>
    \A i \in Sessions :
      \/ pal_voice_handle[i] = Null
      \/ pal[pal_voice_handle[i]] # "running"
      \/ palMute[pal_voice_handle[i]]
      \/ \E t \in Callers :
           idx[t] = i /\ pc[t] \in {"micMute", "micReread", "micOn"} \cup ClosedPoints

\* When RouteStream has switched an active call, every session's stream is on
\* the device it was given (on the proxy in call screening, where HCO or VCO does
\* not name another), unless PAL refused.
RoutedTogether ==
  [][voice_mutex_ = "route" /\ voice_mutex_' = NoThread /\ VoiceSetDevice("route")
       => \/ "device" \in palErrors'
          \/ \A i \in Sessions : pal_voice_handle[i] # Null =>
               palDevice'[pal_voice_handle[i]] = VoiceDevice]_vars

\* The abstract life of the sessions: see CallLifecycle.  A stream that runs without a call,
\* and without a caller that is starting it, has gone astray.
Asked == {i \in Sessions : new_[i] = "ACTIVE"}
ActiveCalls == {i \in Sessions : IsCallActive(i)}

BeingStarted(i) ==
  \E t \in Callers :
    idx[t] = i /\ pc[t] \in {"opened", "micMute", "micReread", "micOn", "micOff"}

StageOf(i) ==
  LET h == pal_voice_handle[i]
  IN IF h = Null THEN "none"
     ELSE IF pal[h] = "closed" THEN "none"
     ELSE IF pal[h] = "open" THEN "opened"
     ELSE IF IsCallActive(i) \/ BeingStarted(i) THEN "running"
     ELSE "astray"

Stages == [i \in Sessions |-> StageOf(i)]

Calls == INSTANCE CallLifecycle WITH asked <- Asked, active <- ActiveCalls, stage <- Stages

\* Called one at a time, the callers take every session through the life CallLifecycle
\* describes: each step of a loop, each failure and each request is a step of it.
ImplementsCalls == Calls!Spec

\* A session that is asked to end does end, unless it is asked for again or a
\* close fails.
AskedCallEnds ==
  \A i \in Sessions :
    new_[i] = "INACTIVE" /\ current_[i] = "ACTIVE"
      ~> current_[i] = "INACTIVE" \/ new_[i] = "ACTIVE" \/ "close" \in palErrors
==============================================================================
