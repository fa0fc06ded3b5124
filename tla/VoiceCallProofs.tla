---------------------------- MODULE VoiceCallProofs ----------------------------
(***************************************************************************)
(* VoiceCall for any number of sessions, streams and devices.  First what  *)
(* holds however the callers interleave, until two of them have been at    *)
(* one session at once: the streams, the handles and the calls agree, and  *)
(* a muted microphone is mute in every call.  Then what is about the order *)
(* of whole handlers, when the audio server calls SetMode, RouteStream and *)
(* VoiceSetParameters one at a time.                                       *)
(***************************************************************************)
EXTENDS VoiceCall, TLAPS

-----------------------------------------------------------------------------
(* How the callers move: one at a time, from one of their points to another. *)

MutexOK == voice_mutex_ \in {"route", "param", NoThread}

\* Caller t goes to one of the points of `to`, and the others stay.
Moves(t, to) ==
  /\ pc' \in [Callers -> Points] /\ idx' \in [Callers -> Sessions]
  /\ failed' \in [Callers -> BOOLEAN]
  /\ pc'[t] \in to
  /\ \A u \in Callers \ {t} : pc'[u] = pc[u] /\ idx'[u] = idx[u] /\ failed'[u] = failed[u]

LEMMA GotoMoves ==
  ASSUME TypeOK, NEW t \in Callers, NEW p \in Points, Goto(t, p)
  PROVE  Moves(t, {p}) /\ idx' = idx /\ failed' = failed
BY DEF TypeOK, Goto, Moves

LEMMA FinishMoves ==
  ASSUME TypeOK, NEW t \in Callers, Finish(t)
  PROVE  Moves(t, {"idle"}) /\ MutexOK'
<1>1. 1 \in Sessions /\ "idle" \in Points
  BY SessionAssumption DEF Sessions, Points
<1>2. MutexOK'
  BY DEF TypeOK, Finish, MutexOK
<1> QED
  BY <1>1, <1>2 DEF TypeOK, Finish, Moves

LEMMA NextSessionMoves ==
  ASSUME TypeOK, NEW t \in Callers, NEW p \in Points, NextSession(t, p)
  PROVE  Moves(t, {p, "idle"}) /\ MutexOK'
<1>1. CASE idx[t] < MaxVoiceSessions
  <2>1. idx[t] \in Sessions
    BY DEF TypeOK
  <2>2. idx[t] + 1 \in Sessions
    BY <1>1, <2>1, SessionAssumption DEF Sessions
  <2>3. MutexOK'
    BY <1>1 DEF NextSession, Stay, MutexOK, TypeOK
  <2> QED
    BY <1>1, <2>2, <2>3 DEF TypeOK, NextSession, Moves
<1>2. CASE ~(idx[t] < MaxVoiceSessions)
  <2>1. Finish(t)
    BY <1>2 DEF NextSession
  <2>2. Moves(t, {"idle"}) /\ MutexOK'
    BY <2>1, FinishMoves
  <2> QED
    BY <2>2 DEF Moves
<1> QED
  BY <1>1, <1>2

\* The points outside UpdateCalls and at its head.
Entry == {"idle", "exit", "waitLock", "setDevice", "setFirst", "calls"}

LEMMA PointsTyped ==
  Entry \cup UpdatePoints \cup {"muting", "muteUse"} = Points
BY DEF Entry, UpdatePoints, Points

LEMMA DevicesTyped ==
  ASSUME pal_voice_rx_device_id_ \in Devices
  PROVE  VoiceDevice \in VoiceDevices
BY DEF VoiceDevice, VoiceDevices

\* What PAL and the sessions have of their types.
SessionsTyped ==
  /\ current_ \in [Sessions -> States]
  /\ new_ \in [Sessions -> States]
  /\ pal_voice_handle \in [Sessions -> Streams \cup {Null}]
  /\ device_mute \in [Sessions -> BOOLEAN]
PalTyped ==
  /\ pal \in [Streams -> {"closed", "open", "running"}]
  /\ palMute \in [Streams -> BOOLEAN]
  /\ palDevice \in [Streams -> VoiceDevices \cup {Null}]
  /\ palErrors \subseteq PalFailures
CallTyped ==
  /\ mode_ \in Modes
  /\ in_call \in BOOLEAN /\ mute_ \in BOOLEAN
  /\ screened \in BOOLEAN /\ reread \in BOOLEAN /\ overlapped \in BOOLEAN
  /\ tty_mode \in {"OFF", "FULL", "VCO", "HCO"} /\ found \in Streams \cup {Null}
  /\ pal_voice_rx_device_id_ \in Devices
ThreadsTyped ==
  /\ pc \in [Callers -> Points]
  /\ idx \in [Callers -> Sessions]
  /\ failed \in [Callers -> BOOLEAN]
  /\ MutexOK

LEMMA TypeParts == TypeOK <=> SessionsTyped /\ PalTyped /\ CallTyped /\ ThreadsTyped
BY DEF TypeOK, SessionsTyped, PalTyped, CallTyped, ThreadsTyped, MutexOK

LEMMA TypeNext ==
  ASSUME SessionsTyped', PalTyped', CallTyped', ThreadsTyped'
  PROVE  TypeOK'
BY DEF TypeOK, SessionsTyped, PalTyped, CallTyped, ThreadsTyped, MutexOK

-----------------------------------------------------------------------------
(* The steps outside UpdateCalls: they touch no handle and no session's      *)
(* state, and move one caller among the points of Entry.                     *)

callState == <<current_, pal_voice_handle, pal>>

\* Caller t, who is not within a start or a stop, goes on among the points of Entry; if it
\* entered, the audio server let it.
EntryMove(t) ==
  /\ t \in Callers \ {"mute"}
  /\ pc[t] \in Entry
  /\ pc[t] = "idle" => MayEnter(t)
  /\ Moves(t, Entry)

\* What is asked of a session changes: only by a caller that enters, and a session another
\* caller is at makes it an overlap.
Asks ==
  \E t \in Callers \ {"mute"} :
    /\ MayEnter(t)
    /\ overlapped' = (overlapped \/ \E i \in Sessions : new_'[i] # new_[i] /\ Taken(t, i))

\* The same for any of the steps outside UpdateCalls but SetMicMute's.
EntryStep ==
  /\ UNCHANGED callState
  /\ palErrors \subseteq palErrors'
  /\ SessionsTyped' /\ PalTyped' /\ CallTyped' /\ ThreadsTyped'
  /\ UNCHANGED <<new_, overlapped>> \/ Asks
  /\ UNCHANGED <<pc, idx, failed>> \/ \E t \in Callers : EntryMove(t)

LEMMA GotoIsEntry ==
  ASSUME TypeOK, NEW t \in Callers \ {"mute"}, NEW p \in Entry, pc[t] \in Entry,
         pc[t] = "idle" => MayEnter(t), Goto(t, p), MutexOK'
  PROVE  EntryMove(t) /\ ThreadsTyped'
<1>1. p \in Points
  BY PointsTyped
<1>2. Moves(t, {p})
  BY <1>1, GotoMoves
<1> QED
  BY <1>2 DEF EntryMove, Moves, ThreadsTyped

LEMMA FinishIsEntry ==
  ASSUME TypeOK, NEW t \in Callers \ {"mute"}, pc[t] \in Entry \ {"idle"}, Finish(t)
  PROVE  EntryMove(t) /\ ThreadsTyped'
<1>1. Moves(t, {"idle"}) /\ MutexOK'
  BY FinishMoves
<1> QED
  BY <1>1 DEF EntryMove, Moves, ThreadsTyped, Entry

LEMMA SetModeStep ==
  ASSUME TypeOK, SetMode
  PROVE  EntryStep
<1> USE DEF callState
<1>a. SessionsTyped /\ PalTyped /\ CallTyped /\ ThreadsTyped
  BY TypeParts
<1>1. ASSUME NEW m \in Modes, SwitchCallScreen(m) PROVE EntryStep
  <2>1. "mode" \in Callers \ {"mute"} /\ pc["mode"] \in Entry /\ MayEnter("mode") /\ MutexOK'
    BY <1>1, <1>a DEF SwitchCallScreen, MayEnter, At, Entry, Stay, ThreadsTyped, MutexOK
  <2>2. EntryMove("mode") /\ ThreadsTyped'
    BY <1>1, <2>1, GotoIsEntry DEF SwitchCallScreen, Entry
  <2> QED
    BY <1>1, <1>a, <2>1, <2>2 DEF SwitchCallScreen, EntryStep, sessionVars, palVars, histVars,
      deviceVars, micVars, SessionsTyped, PalTyped, CallTyped
<1>2. ASSUME NEW m \in Modes, RecordMode(m) PROVE EntryStep
  BY <1>2, <1>a DEF RecordMode, EntryStep, sessionVars, palVars, histVars, threadVars,
     deviceVars, micVars, SessionsTyped, PalTyped, CallTyped, ThreadsTyped, MutexOK
<1>3. CASE StopCall
  <2>1. "mode" \in Callers \ {"mute"} /\ pc["mode"] \in Entry /\ MayEnter("mode") /\ MutexOK'
    BY <1>3, <1>a DEF StopCall, MayEnter, At, Entry, Stay, ThreadsTyped, MutexOK
  <2>2. EntryMove("mode") /\ ThreadsTyped'
    BY <1>3, <2>1, GotoIsEntry DEF StopCall, Entry
  <2>3. SessionsTyped' /\ PalTyped' /\ CallTyped'
    BY <1>3, <1>a DEF StopCall, palVars, States, Modes, deviceVars, micVars, Overlap,
      SessionsTyped, PalTyped, CallTyped
  <2>4. Asks
    <3>1. \A i \in Sessions : new_'[i] = "INACTIVE"
      BY <1>3 DEF StopCall
    <3> QED
      BY <1>3, <2>1, <3>1 DEF StopCall, Overlap, Asks
  <2> QED
    BY <1>3, <2>1, <2>2, <2>3, <2>4 DEF StopCall, EntryStep, palVars
<1>4. CASE StartCallScreen
  <2>1. "mode" \in Callers \ {"mute"} /\ pc["mode"] \in Entry /\ MayEnter("mode") /\ MutexOK'
    BY <1>4, <1>a DEF StartCallScreen, MayEnter, At, Entry, Stay, ThreadsTyped, MutexOK
  <2>2. EntryMove("mode") /\ ThreadsTyped'
    BY <1>4, <2>1, GotoIsEntry DEF StartCallScreen, Entry
  <2>3. CallTyped'
    BY <1>4, <1>a DEF StartCallScreen, CallTyped, Modes, deviceVars, micVars
  <2> QED
    BY <1>4, <1>a, <2>1, <2>2, <2>3 DEF StartCallScreen, EntryStep, sessionVars, palVars,
      SessionsTyped, PalTyped
<1> QED
  BY <1>1, <1>2, <1>3, <1>4 DEF SetMode

LEMMA RouteStep ==
  ASSUME TypeOK, RouteStream
  PROVE  EntryStep
<1> USE DEF callState
<1>a. SessionsTyped /\ PalTyped /\ CallTyped /\ ThreadsTyped
  BY TypeParts
<1>1. CASE RouteNone
  <2>1. "route" \in Callers \ {"mute"} /\ pc["route"] \in Entry /\ MayEnter("route") /\ MutexOK'
    BY <1>1, <1>a DEF RouteNone, MayEnter, At, Entry, Stay, ThreadsTyped, MutexOK
  <2>2. EntryMove("route") /\ ThreadsTyped'
    BY <1>1, <2>1, GotoIsEntry DEF RouteNone, Entry
  <2> QED
    BY <1>1, <1>a, <2>1, <2>2 DEF RouteNone, EntryStep, sessionVars, palVars, histVars, callVars,
      deviceVars, micVars, SessionsTyped, PalTyped, CallTyped
<1>2. CASE RouteExit
  <2>1. "route" \in Callers \ {"mute"} /\ pc["route"] \in Entry \ {"idle"}
    BY <1>2 DEF RouteExit, At, Entry
  <2>2. EntryMove("route") /\ ThreadsTyped'
    BY <1>2, <2>1, FinishIsEntry DEF RouteExit
  <2> QED
    BY <1>2, <1>a, <2>1, <2>2 DEF RouteExit, EntryStep, sessionVars, palVars, histVars, callVars,
      deviceVars, micVars, SessionsTyped, PalTyped, CallTyped
<1>3. ASSUME NEW d \in Devices, RouteIds(d) PROVE EntryStep
  <2>1. "route" \in Callers \ {"mute"} /\ pc["route"] \in Entry /\ MayEnter("route") /\ MutexOK'
    BY <1>3, <1>a DEF RouteIds, MayEnter, At, Entry, Stay, ThreadsTyped, MutexOK
  <2>2. EntryMove("route") /\ ThreadsTyped'
    BY <1>3, <2>1, GotoIsEntry DEF RouteIds, Entry
  <2> QED
    BY <1>3, <1>a, <2>1, <2>2 DEF RouteIds, EntryStep, sessionVars, palVars, histVars,
      micVars, SessionsTyped, PalTyped, CallTyped
<1>4. CASE RouteStartsCalls
  <2>1. "route" \in Callers \ {"mute"} /\ pc["route"] \in Entry \ {"idle"} /\ MutexOK'
    BY <1>4 DEF RouteStartsCalls, RouteLocks, At, Entry, MutexOK
  <2>2. EntryMove("route") /\ ThreadsTyped'
    BY <1>4, <2>1, GotoIsEntry DEF RouteStartsCalls, Entry
  <2>3. CallTyped'
    BY <1>4, <1>a DEF RouteStartsCalls, MarkInCall, CallTyped, deviceVars, micVars
  <2> QED
    BY <1>4, <1>a, <2>1, <2>2, <2>3 DEF RouteStartsCalls, EntryStep, sessionVars, palVars,
      SessionsTyped, PalTyped
<1>5. CASE RouteNothing
  <2>1. "route" \in Callers \ {"mute"} /\ pc["route"] \in Entry \ {"idle"}
    BY <1>5 DEF RouteNothing, RouteLocks, At, Entry
  <2>2. EntryMove("route") /\ ThreadsTyped'
    BY <1>5, <2>1, FinishIsEntry DEF RouteNothing
  <2> QED
    BY <1>5, <1>a, <2>1, <2>2 DEF RouteNothing, EntryStep, sessionVars, palVars, histVars, callVars,
      deviceVars, micVars, SessionsTyped, PalTyped, CallTyped
<1>6. CASE RouteSwitches
  <2>1. "route" \in Callers \ {"mute"} /\ pc["route"] \in Entry \ {"idle"} /\ MutexOK'
    BY <1>6 DEF RouteSwitches, RouteLocks, At, Entry, MutexOK
  <2>2. EntryMove("route") /\ ThreadsTyped'
    BY <1>6, <2>1, GotoIsEntry DEF RouteSwitches, SwitchPoint, Entry
  <2> QED
    BY <1>6, <1>a, <2>1, <2>2 DEF RouteSwitches, EntryStep, sessionVars, palVars, histVars,
      callVars, deviceVars, micVars, SessionsTyped, PalTyped, CallTyped
<1> QED
  BY <1>1, <1>2, <1>3, <1>4, <1>5, <1>6 DEF RouteStream

\* pal_stream_set_device moves devices, and may record that PAL refused.
LEMMA SetDevicesTyped ==
  ASSUME TypeOK, NEW d \in VoiceDevices, NEW S \in SUBSET Streams, SetDevicesTo(d, S)
  PROVE  /\ palDevice' \in [Streams -> VoiceDevices \cup {Null}]
         /\ palErrors' \subseteq PalFailures /\ palErrors \subseteq palErrors'
<1>1. PICK refused \in SUBSET (IF "device" \in PalFailures THEN S ELSE {}) :
    /\ palDevice' = [s \in Streams |-> IF s \in S \ refused /\ pal[s] # "closed" THEN d
                                                            ELSE palDevice[s]]
    /\ palErrors' = IF refused = {} THEN palErrors ELSE palErrors \cup {"device"}
  BY DEF SetDevicesTo
<1>2. refused # {} => "device" \in PalFailures
  BY <1>1
<1> QED
  BY <1>1, <1>2 DEF TypeOK

LEMMA HandlesTyped ==
  ASSUME TypeOK
  PROVE  ActiveHandles \in SUBSET Streams
BY DEF TypeOK, ActiveHandles

LEMMA ParamStep ==
  ASSUME TypeOK, VoiceSetParameters
  PROVE  EntryStep
<1> USE DEF callState
<1>a. SessionsTyped /\ PalTyped /\ CallTyped /\ ThreadsTyped
  BY TypeParts
<1>1. ASSUME NEW i \in Sessions, NEW st \in States, UpdateCallState(i, st) PROVE EntryStep
  <2>1. /\ "param" \in Callers \ {"mute"} /\ pc["param"] \in Entry /\ MayEnter("param")
        /\ UNCHANGED <<current_, pal_voice_handle, pal, palErrors>>
    BY <1>1 DEF UpdateCallState, MayEnter, At, Entry, palVars
  <2>2. SessionsTyped' /\ PalTyped' /\ CallTyped'
    BY <1>1, <1>a DEF UpdateCallState, SessionsTyped, PalTyped, CallTyped, deviceVars, micVars,
       callVars, palVars, Overlap
  <2>3. Asks
    <3>1. /\ \A j \in Sessions : j # i => new_'[j] = new_[j]
          /\ new_'[i] = st
      BY <1>1, <1>a DEF UpdateCallState, SessionsTyped
    <3> QED
      BY <1>1, <2>1, <3>1 DEF UpdateCallState, Overlap, Asks
  <2>4. CASE CallsNeedUpdate(i)
    <3>1. Goto("param", "calls") /\ MutexOK'
      BY <1>1, <2>4 DEF UpdateCallState, MutexOK
    <3>2. EntryMove("param") /\ ThreadsTyped'
      BY <3>1, <2>1, GotoIsEntry DEF Entry
    <3> QED
      BY <2>1, <2>2, <2>3, <3>2 DEF EntryStep
  <2>5. CASE ~CallsNeedUpdate(i)
    BY <1>1, <1>a, <2>1, <2>2, <2>3, <2>5 DEF UpdateCallState, threadVars, EntryStep,
       ThreadsTyped, MutexOK
  <2> QED
    BY <2>4, <2>5
<1>2. ASSUME NEW b \in DeviceMutes, SetDeviceMutes(b) PROVE EntryStep
  <2>1. b \in BOOLEAN
    BY DeviceMuteAssumption
  <2> QED
    BY <1>2, <1>a, <2>1 DEF SetDeviceMutes, EntryStep, threadVars, callVars, palVars, histVars,
       deviceVars, micVars, SessionsTyped, PalTyped, CallTyped, ThreadsTyped, MutexOK
<1>3. CASE SetHac
  <2>1. SetDevicesTo(VoiceDevice, ActiveHandles) /\ VoiceDevice \in VoiceDevices
    BY <1>3, <1>a, DevicesTyped DEF SetHac, SetDevices, CallTyped
  <2>2. palDevice' \in [Streams -> VoiceDevices \cup {Null}]
        /\ palErrors' \subseteq PalFailures /\ palErrors \subseteq palErrors'
    BY <2>1, HandlesTyped, SetDevicesTyped
  <2> QED
    BY <1>3, <1>a, <2>2 DEF SetHac, EntryStep, threadVars, callVars, sessionVars, deviceVars,
       micVars, SessionsTyped, PalTyped, CallTyped, ThreadsTyped, MutexOK
<1>4. ASSUME NEW m \in TtyModes, SetTtyMode(m) PROVE EntryStep
  <2>1. CallTyped'
    BY <1>4, <1>a, TtyAssumption DEF SetTtyMode, CallTyped, micVars
  <2>2. palDevice' \in [Streams -> VoiceDevices \cup {Null}]
        /\ palErrors' \subseteq PalFailures /\ palErrors \subseteq palErrors'
    <3>1. CASE m \in {"VCO", "HCO"}
      <4>1. SetDevicesTo(VoiceDevice', ActiveHandles)
        BY <1>4, <3>1 DEF SetTtyMode
      <4>2. VoiceDevice' \in VoiceDevices
        BY <2>1 DEF CallTyped, VoiceDevice, VoiceDevices
      <4> QED
        BY <4>1, <4>2, HandlesTyped, SetDevicesTyped
    <3>2. CASE m \notin {"VCO", "HCO"}
      BY <1>4, <1>a, <3>2 DEF SetTtyMode, PalTyped
    <3> QED
      BY <3>1, <3>2
  <2> QED
    BY <1>4, <1>a, <2>1, <2>2 DEF SetTtyMode, EntryStep, threadVars, sessionVars,
       SessionsTyped, PalTyped, ThreadsTyped, MutexOK
<1> QED
  BY <1>1, <1>2, <1>3, <1>4 DEF VoiceSetParameters

LEMMA SetDeviceStep ==
  ASSUME TypeOK, NEW t \in Callers, VoiceSetDevice(t),
         t = "mute" => pc[t] \in {"idle", "muting", "muteUse"}
  PROVE  EntryStep
<1> USE DEF callState
<1>a. SessionsTyped /\ PalTyped /\ CallTyped /\ ThreadsTyped
  BY TypeParts
<1>1. t \in Callers \ {"mute"} /\ pc[t] \in Entry \ {"idle"}
  BY DEF VoiceSetDevice, At, Entry
<1> DEFINE S == {pal_voice_handle[idx[t]]} \ {Null}
<1>2. S \in SUBSET Streams /\ SetDevicesTo(VoiceDevice, S)
  BY <1>a DEF SessionsTyped, ThreadsTyped, VoiceSetDevice, SetDevices
<1> HIDE DEF S
<1>3. palDevice' \in [Streams -> VoiceDevices \cup {Null}]
      /\ palErrors' \subseteq PalFailures /\ palErrors \subseteq palErrors'
  <2>1. VoiceDevice \in VoiceDevices
    BY <1>a, DevicesTyped DEF CallTyped
  <2> QED
    BY <1>2, <2>1, SetDevicesTyped
<1>4. EntryMove(t) /\ ThreadsTyped'
  <2>1. CASE At(t, "setDevice")
    <3>1. NextSession(t, "setDevice")
      BY <2>1 DEF VoiceSetDevice
    <3>2. Moves(t, {"setDevice", "idle"}) /\ MutexOK'
      BY <3>1, NextSessionMoves, PointsTyped DEF Entry
    <3> QED
      BY <1>1, <3>2 DEF EntryMove, Moves, ThreadsTyped, Entry
  <2>2. CASE ~At(t, "setDevice")
    <3>1. Finish(t)
      BY <2>2 DEF VoiceSetDevice
    <3> QED
      BY <1>1, <3>1, FinishIsEntry
  <2> QED
    BY <2>1, <2>2
<1> QED
  BY <1>a, <1>3, <1>4 DEF VoiceSetDevice, EntryStep, callVars, sessionVars, deviceVars,
     micVars, SessionsTyped, PalTyped, CallTyped

-----------------------------------------------------------------------------
(* SetMicMute's steps.                                                       *)

\* SetMicMute is at its own points.
MutePoints == {"idle", "muting", "muteUse"}
MuteAside == "mute" \in Callers => pc["mute"] \in MutePoints

VoiceSafe == TypeOK /\ MuteAside

LEMMA SafeInit == Init => VoiceSafe
<1> SUFFICES ASSUME Init PROVE VoiceSafe
  OBVIOUS
<1>1. 1 \in Sessions
  BY SessionAssumption DEF Sessions
<1>2. SessionsTyped /\ PalTyped
  BY DEF Init, SessionsTyped, PalTyped, States
<1>3. CallTyped /\ ThreadsTyped
  BY <1>1 DEF Init, CallTyped, ThreadsTyped, MutexOK, Modes, Points
<1> QED
  BY <1>2, <1>3, TypeParts DEF Init, VoiceSafe, MuteAside, MutePoints

MuteStep ==
  /\ UNCHANGED <<callState, new_, palErrors, overlapped>>
  /\ TypeOK'
  /\ "mute" \in Callers /\ Moves("mute", MutePoints)

LEMMA MuteSteps ==
  ASSUME TypeOK, MuteLook \/ MuteSession \/ \E b \in BOOLEAN : SetMicMute(b)
  PROVE  MuteStep
<1>a. SessionsTyped /\ PalTyped /\ CallTyped /\ ThreadsTyped
  BY TypeParts
<1>b. {"muting", "muteUse"} \subseteq Points
  BY DEF Points
<1>1. CASE MuteSession
  <2>1. "mute" \in Callers /\ Moves("mute", {"muting", "idle"}) /\ MutexOK'
    BY <1>1, <1>b, NextSessionMoves DEF MuteSession, At
  <2>2. /\ UNCHANGED <<callState, new_, palErrors, overlapped>> /\ SessionsTyped'
        /\ CallTyped'
    BY <1>1, <1>a DEF MuteSession, callState, SessionsTyped, CallTyped, deviceVars, sessionVars,
       histVars
  <2>3. PalTyped'
    BY <1>1, <1>a DEF MuteSession, Mute, PalTyped, CallTyped, histVars
  <2>4. ThreadsTyped' /\ Moves("mute", MutePoints)
    BY <2>1 DEF Moves, ThreadsTyped, MutePoints
  <2> QED
    BY <2>1, <2>2, <2>3, <2>4, TypeNext DEF MuteStep
<1>2. CASE MuteLook
  <2>1. "mute" \in Callers /\ Moves("mute", MutePoints) /\ MutexOK'
    <3>1. "mute" \in Callers /\ (NextSession("mute", "muting") \/ (Goto("mute", "muteUse") /\ Stay))
      BY <1>2 DEF MuteLook, At
    <3>2. CASE NextSession("mute", "muting")
      <4>1. Moves("mute", {"muting", "idle"}) /\ MutexOK'
        BY <1>b, <3>1, <3>2, NextSessionMoves
      <4> QED
        BY <3>1, <4>1 DEF Moves, MutePoints
    <3>3. CASE Goto("mute", "muteUse") /\ Stay
      <4>1. Moves("mute", {"muteUse"}) /\ MutexOK'
        BY <1>a, <1>b, <3>1, <3>3, GotoMoves DEF Stay, ThreadsTyped, MutexOK
      <4> QED
        BY <3>1, <4>1 DEF Moves, MutePoints
    <3> QED
      BY <3>1, <3>2, <3>3
  <2>2. /\ UNCHANGED <<callState, new_, palErrors, overlapped>> /\ SessionsTyped' /\ PalTyped'
    BY <1>2, <1>a DEF MuteLook, callState, SessionsTyped, PalTyped, palVars, sessionVars, histVars
  <2>3. CallTyped'
    <3>1. idx["mute"] \in Sessions
      BY <2>1, <1>a DEF ThreadsTyped
    <3> QED
      BY <1>2, <1>a, <3>1 DEF MuteLook, CallTyped, SessionsTyped, deviceVars, histVars
  <2>4. ThreadsTyped'
    BY <2>1 DEF Moves, ThreadsTyped
  <2> QED
    BY <2>1, <2>2, <2>3, <2>4, TypeNext DEF MuteStep
<1>3. ASSUME NEW b \in BOOLEAN, SetMicMute(b) PROVE MuteStep
  <2>1. "mute" \in Callers /\ MutexOK'
    BY <1>3, <1>a DEF SetMicMute, MayEnter, At, Stay, ThreadsTyped, MutexOK
  <2>2. Moves("mute", {"muting"})
    BY <1>3, <1>b, <2>1, GotoMoves DEF SetMicMute
  <2>3. /\ UNCHANGED <<callState, new_, palErrors, overlapped>> /\ SessionsTyped' /\ PalTyped'
        /\ CallTyped'
    BY <1>3, <1>a DEF SetMicMute, callState, SessionsTyped, PalTyped, CallTyped, palVars,
       sessionVars, histVars, deviceVars
  <2>4. ThreadsTyped' /\ Moves("mute", MutePoints)
    BY <2>1, <2>2 DEF Moves, ThreadsTyped, MutePoints
  <2> QED
    BY <2>1, <2>3, <2>4, TypeNext DEF MuteStep
<1> QED
  BY <1>1, <1>2, <1>3

-----------------------------------------------------------------------------
(* The steps of UpdateCalls: what each does to the threads, the sessions and *)
(* the streams.                                                              *)

Busy == StartPoints \cup StopPoints

\* Caller t, inside UpdateCalls, goes to one of the points of `to`, and stays at its session
\* while it starts or stops it.
CallMove(t, to) ==
  /\ t \in Callers \ {"mute"}
  /\ Moves(t, to)
  /\ pc[t] \in UpdatePoints
  /\ pc'[t] \in Busy => idx'[t] = idx[t]

LEMMA GotoIsMove ==
  ASSUME TypeOK, MuteAside, NEW t \in Callers, NEW p \in Points, pc[t] \in UpdatePoints,
         Goto(t, p), MutexOK'
  PROVE  CallMove(t, {p}) /\ ThreadsTyped' /\ UNCHANGED <<idx, failed>>
<1>1. t # "mute"
  BY DEF MuteAside, MutePoints, UpdatePoints, StartPoints, StopPoints
<1>2. Moves(t, {p}) /\ UNCHANGED <<idx, failed>>
  BY GotoMoves DEF Goto
<1> QED
  BY <1>1, <1>2 DEF CallMove, Moves, ThreadsTyped

LEMMA NextIsMove ==
  ASSUME TypeOK, MuteAside, NEW t \in Callers, pc[t] \in UpdatePoints, NextSession(t, "calls")
  PROVE  CallMove(t, {"calls", "idle"}) /\ ThreadsTyped'
<1>1. t # "mute"
  BY DEF MuteAside, MutePoints, UpdatePoints, StartPoints, StopPoints
<1>2. Moves(t, {"calls", "idle"}) /\ MutexOK'
  BY NextSessionMoves, PointsTyped DEF Entry
<1> QED
  BY <1>1, <1>2 DEF CallMove, Moves, ThreadsTyped, Busy, StartPoints, StopPoints

\* The end of VoiceStart or VoiceStop: an error leaves the session as it was.
Ends(t) ==
  /\ current_' = IF failed[t] THEN current_ ELSE [current_ EXCEPT ![idx[t]] = new_[idx[t]]]
  /\ CallMove(t, {"calls", "idle"})

LEMMA EndIsMove ==
  ASSUME TypeOK, MuteAside, NEW t \in Callers, pc[t] \in UpdatePoints, EndStep(t)
  PROVE  Ends(t) /\ ThreadsTyped' /\ current_' \in [Sessions -> States]
<1>a. SessionsTyped
  BY TypeParts
<1>1. CallMove(t, {"calls", "idle"}) /\ ThreadsTyped'
  BY NextIsMove DEF EndStep
<1>2. current_' \in [Sessions -> States]
  BY <1>a DEF EndStep, SessionsTyped
<1> QED
  BY <1>1, <1>2 DEF EndStep, Ends

LEMMA LookStep ==
  ASSUME TypeOK, MuteAside, NEW t \in Callers, CallsLook(t)
  PROVE  /\ UNCHANGED <<callState, new_, palErrors>> /\ TypeOK' /\ pc[t] = "calls"
         /\ CallMove(t, {"start", "stop", "calls", "idle"})
         /\ pc'[t] = "start" => new_[idx[t]] = "ACTIVE" /\ current_[idx[t]] = "INACTIVE"
         /\ pc'[t] = "stop" => new_[idx[t]] = "INACTIVE" /\ current_[idx[t]] = "ACTIVE"
         /\ overlapped' = (overlapped \/ (pc'[t] \in {"start", "stop"} /\ Taken(t, idx[t])))
<1>a. SessionsTyped /\ PalTyped /\ CallTyped /\ ThreadsTyped
  BY TypeParts
<1>b. pc[t] = "calls" /\ pc[t] \in UpdatePoints /\ {"start", "stop", "calls"} \subseteq Points
  BY DEF CallsLook, At, UpdatePoints, StartPoints, StopPoints, Points
<1>1. UNCHANGED <<callState, new_, palErrors>> /\ SessionsTyped' /\ PalTyped'
  BY <1>a DEF CallsLook, callState, SessionsTyped, PalTyped, palVars, sessionVars
<1>2. CallTyped'
  BY <1>a DEF CallsLook, CallTyped, callVars, deviceVars, micVars, Overlap
<1>3. ASSUME NEW p \in {"start", "stop"}, Goto(t, p), Stay, Overlap(Taken(t, idx[t])),
             p = "start" => new_[idx[t]] = "ACTIVE" /\ current_[idx[t]] = "INACTIVE",
             p = "stop" => new_[idx[t]] = "INACTIVE" /\ current_[idx[t]] = "ACTIVE"
      PROVE  /\ TypeOK' /\ CallMove(t, {"start", "stop", "calls", "idle"})
             /\ pc'[t] = p /\ overlapped' = (overlapped \/ Taken(t, idx[t]))
  <2>1. MutexOK'
    BY <1>3, <1>a DEF Stay, ThreadsTyped, MutexOK
  <2>2. CallMove(t, {p}) /\ ThreadsTyped'
    BY <1>3, <1>b, <2>1, GotoIsMove
  <2> QED
    BY <1>1, <1>2, <1>3, <2>2, TypeNext DEF CallMove, Moves, Overlap
<1>4. CASE new_[idx[t]] = "ACTIVE" /\ current_[idx[t]] = "INACTIVE"
  <2>1. Goto(t, "start") /\ Stay /\ Overlap(Taken(t, idx[t]))
    BY <1>4 DEF CallsLook
  <2> QED
    BY <1>1, <1>3, <1>4, <1>b, <2>1
<1>5. CASE new_[idx[t]] = "INACTIVE" /\ current_[idx[t]] = "ACTIVE"
  <2>1. Goto(t, "stop") /\ Stay /\ Overlap(Taken(t, idx[t]))
    BY <1>5 DEF CallsLook
  <2> QED
    BY <1>1, <1>3, <1>5, <1>b, <2>1
<1>6. CASE new_[idx[t]] = current_[idx[t]]
  <2>1. NextSession(t, "calls") /\ UNCHANGED overlapped
    BY <1>6 DEF CallsLook
  <2>2. CallMove(t, {"calls", "idle"}) /\ ThreadsTyped'
    BY <2>1, <1>b, NextIsMove
  <2>3. /\ pc'[t] \notin {"start", "stop"} /\ TypeOK'
        /\ CallMove(t, {"start", "stop", "calls", "idle"})
    BY <1>1, <1>2, <2>2, TypeNext DEF CallMove, Moves
  <2>4. overlapped' = (overlapped \/ (pc'[t] \in {"start", "stop"} /\ Taken(t, idx[t])))
    <3>1. overlapped' = overlapped /\ overlapped \in BOOLEAN
      BY <1>a, <2>1 DEF CallTyped
    <3> QED
      BY <2>3, <3>1
  <2> QED
    BY <1>1, <1>b, <2>3, <2>4
<1> QED
  BY <1>4, <1>5, <1>6 DEF CallsLook

LEMMA OpenFailsStep ==
  ASSUME TypeOK, MuteAside, NEW t \in Callers, VoiceOpenFails(t)
  PROVE  /\ UNCHANGED <<callState, new_, palErrors, overlapped>> /\ TypeOK' /\ pc[t] = "start"
         /\ CallMove(t, {"calls", "idle"})
<1>a. SessionsTyped /\ PalTyped /\ CallTyped /\ ThreadsTyped
  BY TypeParts
<1>1. UNCHANGED <<callState, new_, palErrors, overlapped>> /\ SessionsTyped' /\ PalTyped' /\ CallTyped'
  BY <1>a DEF VoiceOpenFails, callState, SessionsTyped, PalTyped, CallTyped, palVars,
     sessionVars, callVars, deviceVars, micVars, histVars
<1>2. pc[t] = "start" /\ CallMove(t, {"calls", "idle"}) /\ ThreadsTyped'
  BY NextIsMove DEF VoiceOpenFails, At, UpdatePoints, StartPoints
<1> QED
  BY <1>1, <1>2, TypeNext

\* The stream s is opened for the session of caller t.
Opens(t, s) ==
  /\ pal[s] = "closed"
  /\ pal' = [pal EXCEPT ![s] = "open"]
  /\ pal_voice_handle' = [pal_voice_handle EXCEPT ![idx[t]] = s]

LEMMA OpenStep ==
  ASSUME TypeOK, MuteAside, NEW t \in Callers, VoiceOpen(t)
  PROVE  /\ UNCHANGED <<current_, new_, palErrors, overlapped>> /\ TypeOK' /\ pc[t] = "start"
         /\ CallMove(t, {"opened"}) /\ idx' = idx
         /\ \E s \in Streams : Opens(t, s)
<1>a. SessionsTyped /\ PalTyped /\ CallTyped /\ ThreadsTyped
  BY TypeParts
<1>1. PICK s \in Streams : /\ Opens(t, s)
                           /\ palDevice' = [palDevice EXCEPT ![s] = VoiceDevice]
  BY DEF VoiceOpen, Opens
<1>2. VoiceDevice \in VoiceDevices
  BY <1>a, DevicesTyped DEF CallTyped
<1>3. SessionsTyped' /\ CallTyped'
  BY <1>a, <1>1 DEF VoiceOpen, Opens, SessionsTyped, CallTyped, callVars, deviceVars, micVars,
     histVars
<1>4. PalTyped'
  BY <1>a, <1>1, <1>2 DEF VoiceOpen, Opens, PalTyped, histVars
<1>5. /\ pc[t] = "start" /\ pc[t] \in UpdatePoints /\ "opened" \in Points /\ Goto(t, "opened")
      /\ MutexOK'
  BY <1>a DEF VoiceOpen, At, UpdatePoints, StartPoints, Points, Stay, ThreadsTyped, MutexOK
<1>6. CallMove(t, {"opened"}) /\ ThreadsTyped' /\ idx' = idx
  BY <1>5, GotoIsMove
<1> QED
  BY <1>1, <1>3, <1>4, <1>5, <1>6, TypeNext DEF VoiceOpen, histVars

\* The stream of session i, if it has one, is closed; or the session forgets it.
Shuts(i) == pal' = [q \in Streams |-> IF q = pal_voice_handle[i] THEN "closed" ELSE pal[q]]
Forgets(i) == pal_voice_handle' = [pal_voice_handle EXCEPT ![i] = Null]

LEMMA CloseTyped ==
  ASSUME PalTyped, NEW s, ClosePal(s), palErrors' \subseteq PalFailures
  PROVE  PalTyped'
BY DEF PalTyped, ClosePal

LEMMA StartFailsStep ==
  ASSUME TypeOK, MuteAside, NEW t \in Callers, VoiceStartFails(t)
  PROVE  /\ UNCHANGED <<current_, new_, pal_voice_handle, palErrors, overlapped>> /\ TypeOK'
         /\ pc[t] = "opened" /\ CallMove(t, {"startClosed"}) /\ Shuts(idx[t])
<1>a. SessionsTyped /\ PalTyped /\ CallTyped /\ ThreadsTyped
  BY TypeParts
<1>1. /\ UNCHANGED <<current_, new_, pal_voice_handle, palErrors, overlapped>> /\ SessionsTyped'
      /\ CallTyped' /\ Shuts(idx[t])
  BY <1>a DEF VoiceStartFails, ClosePal, Shuts, SessionsTyped, CallTyped, sessionVars,
     callVars, deviceVars, micVars, histVars
<1>2. PalTyped'
  BY <1>a, <1>1, CloseTyped DEF VoiceStartFails, PalTyped
<1>3. /\ pc[t] = "opened" /\ pc[t] \in UpdatePoints /\ "startClosed" \in Points
      /\ Goto(t, "startClosed") /\ MutexOK'
  BY <1>a DEF VoiceStartFails, At, UpdatePoints, StartPoints, Points, Stay, ThreadsTyped, MutexOK
<1>4. CallMove(t, {"startClosed"}) /\ ThreadsTyped'
  BY <1>3, GotoIsMove
<1> QED
  BY <1>1, <1>2, <1>3, <1>4, TypeNext

LEMMA StartForgetsStep ==
  ASSUME TypeOK, MuteAside, NEW t \in Callers, VoiceStartForgets(t)
  PROVE  /\ UNCHANGED <<current_, new_, pal, palErrors, overlapped>> /\ TypeOK'
         /\ pc[t] = "startClosed" /\ CallMove(t, {"calls", "idle"}) /\ Forgets(idx[t])
<1>a. SessionsTyped /\ PalTyped /\ CallTyped /\ ThreadsTyped
  BY TypeParts
<1>1. /\ UNCHANGED <<current_, new_, pal, palErrors, overlapped>> /\ SessionsTyped'
      /\ PalTyped' /\ CallTyped' /\ Forgets(idx[t])
  BY <1>a DEF VoiceStartForgets, ForgetHandle, Forgets, SessionsTyped, PalTyped, CallTyped,
     palVars, callVars, deviceVars, micVars, histVars
<1>2. pc[t] = "startClosed" /\ CallMove(t, {"calls", "idle"}) /\ ThreadsTyped'
  BY NextIsMove DEF VoiceStartForgets, At, UpdatePoints, StartPoints
<1> QED
  BY <1>1, <1>2, TypeNext

LEMMA StartsStep ==
  ASSUME TypeOK, MuteAside, NEW t \in Callers, VoiceStarts(t)
  PROVE  /\ UNCHANGED <<current_, new_, pal_voice_handle, overlapped>> /\ TypeOK'
         /\ pc[t] = "opened" /\ CallMove(t, {"micMute"}) /\ idx' = idx
         /\ pal_voice_handle[idx[t]] \in Streams
         /\ pal' = [pal EXCEPT ![pal_voice_handle[idx[t]]] = "running"]
         /\ palErrors \subseteq palErrors'
         /\ failed'[t] => "mute" \in palErrors'
<1>a. SessionsTyped /\ PalTyped /\ CallTyped /\ ThreadsTyped
  BY TypeParts
<1>1. /\ t # "mute" /\ pc[t] = "opened" /\ pc[t] \in UpdatePoints /\ "micMute" \in Points
  BY DEF VoiceStarts, At, MuteAside, MutePoints, UpdatePoints, StartPoints, Points
<1>2. PICK muteFails \in BOOLEAN :
       /\ muteFails => device_mute[idx[t]] /\ "mute" \in PalFailures
       /\ failed' = [failed EXCEPT ![t] = muteFails]
       /\ palErrors' = IF muteFails THEN palErrors \cup {"mute"} ELSE palErrors
  BY DEF VoiceStarts
<1>3. palErrors' \subseteq PalFailures /\ palErrors \subseteq palErrors'
      /\ (failed'[t] => "mute" \in palErrors')
  BY <1>a, <1>2 DEF PalTyped, ThreadsTyped
<1>4. PICK s \in Streams : s = pal_voice_handle[idx[t]] /\ pal' = [pal EXCEPT ![s] = "running"]
  BY DEF VoiceStarts
<1>5. UNCHANGED <<current_, new_, pal_voice_handle, idx, overlapped>>
  BY DEF VoiceStarts, sessionVars
<1>6. SessionsTyped' /\ CallTyped'
  BY <1>a DEF VoiceStarts, SessionsTyped, CallTyped, callVars, deviceVars, micVars, sessionVars
<1>7. PalTyped'
  BY <1>a, <1>3, <1>4 DEF VoiceStarts, PalTyped
<1>8. ThreadsTyped' /\ Moves(t, {"micMute"})
  BY <1>a, <1>1, <1>2, <1>5 DEF VoiceStarts, ThreadsTyped, Moves, MutexOK
<1> QED
  BY <1>1, <1>3, <1>4, <1>5, <1>6, <1>7, <1>8, TypeNext DEF CallMove

\* The microphone mute steps of VoiceStart: go on, or end it.
MicStep(t) ==
  /\ UNCHANGED <<new_, pal_voice_handle, pal, palErrors, overlapped>> /\ TypeOK'
  /\ pc[t] \in {"micMute", "micReread", "micOn", "micOff"}
  /\ \/ /\ CallMove(t, {"micReread", "micOn", "micOff"})
        /\ UNCHANGED <<idx, failed, current_>>
     \/ Ends(t)

LEMMA MicSteps ==
  ASSUME TypeOK, MuteAside, NEW t \in Callers,
         MicMuteLook(t) \/ MicMuteReread(t) \/ MicMuteApply(t)
  PROVE  MicStep(t)
<1>a. SessionsTyped /\ PalTyped /\ CallTyped /\ ThreadsTyped
  BY TypeParts
<1>b. {"micReread", "micOn", "micOff"} \subseteq Points
  BY DEF Points, UpdatePoints, StartPoints
<1>c. ASSUME NEW p \in {"micReread", "micOn", "micOff"}, pc[t] \in UpdatePoints, Goto(t, p),
             MutexOK'
      PROVE  /\ CallMove(t, {"micReread", "micOn", "micOff"})
             /\ UNCHANGED <<idx, failed>> /\ ThreadsTyped'
  <2>1. CallMove(t, {p}) /\ ThreadsTyped' /\ UNCHANGED <<idx, failed>>
    BY <1>b, <1>c, GotoIsMove
  <2> QED
    BY <1>c, <2>1 DEF CallMove, Moves
<1>1. CASE MicMuteLook(t)
  <2>1. /\ UNCHANGED <<new_, pal_voice_handle, device_mute, pal, palErrors, overlapped>>
        /\ PalTyped'
        /\ CallTyped' /\ pc[t] = "micMute" /\ pc[t] \in UpdatePoints
    BY <1>1, <1>a DEF MicMuteLook, At, PalTyped, CallTyped, callVars, deviceVars,
       micVars, palVars, histVars, UpdatePoints, StartPoints
  <2>2. CASE mute_
    <3>1. Goto(t, "micReread") /\ MutexOK' /\ UNCHANGED current_
      BY <1>1, <1>a, <2>2 DEF MicMuteLook, MicMuteRead, Stay, ThreadsTyped, MutexOK
    <3>2. SessionsTyped'
      BY <1>a, <2>1, <3>1 DEF SessionsTyped
    <3>3. CallMove(t, {"micReread", "micOn", "micOff"}) /\ UNCHANGED <<idx, failed>>
          /\ ThreadsTyped'
      BY <1>c, <2>1, <3>1
    <3> QED
      BY <2>1, <3>1, <3>2, <3>3, TypeNext DEF MicStep
  <2>3. CASE ~mute_
    <3>1. EndStep(t)
      BY <1>1, <2>3 DEF MicMuteLook, MicMuteRead
    <3>2. Ends(t) /\ ThreadsTyped' /\ current_' \in [Sessions -> States]
      BY <2>1, <3>1, EndIsMove
    <3>3. SessionsTyped'
      BY <1>a, <2>1, <3>2 DEF SessionsTyped
    <3> QED
      BY <2>1, <3>2, <3>3, TypeNext DEF MicStep
  <2> QED
    BY <2>2, <2>3
<1>2. CASE MicMuteReread(t)
  <2>1. /\ UNCHANGED <<new_, pal_voice_handle, pal, palErrors, overlapped, current_>> /\ PalTyped'
        /\ SessionsTyped' /\ pc[t] = "micReread" /\ pc[t] \in UpdatePoints /\ MutexOK'
    BY <1>2, <1>a DEF MicMuteReread, At, PalTyped, SessionsTyped, sessionVars, palVars,
       UpdatePoints, StartPoints, MutexOK, ThreadsTyped
  <2>2. CallTyped'
    BY <1>2, <1>a DEF MicMuteReread, CallTyped, callVars, deviceVars, micVars
  <2>3. \E p \in {"micReread", "micOn", "micOff"} : Goto(t, p)
    BY <1>2 DEF MicMuteReread
  <2>4. CallMove(t, {"micReread", "micOn", "micOff"}) /\ UNCHANGED <<idx, failed>>
        /\ ThreadsTyped'
    BY <1>c, <2>1, <2>3
  <2> QED
    BY <2>1, <2>2, <2>4, TypeNext DEF MicStep
<1>3. CASE MicMuteApply(t)
  <2>1. /\ UNCHANGED <<new_, pal_voice_handle, device_mute, pal, palErrors, overlapped>>
        /\ CallTyped' /\ pc[t] \in {"micOn", "micOff"} /\ pc[t] \in UpdatePoints
    BY <1>3, <1>a DEF MicMuteApply, CallTyped, callVars, deviceVars, micVars, histVars,
       UpdatePoints, StartPoints
  <2>2. PalTyped'
    BY <1>3, <1>a DEF MicMuteApply, Mute, PalTyped, At, histVars
  <2>3. Ends(t) /\ ThreadsTyped' /\ current_' \in [Sessions -> States]
    BY <1>3, <2>1, EndIsMove DEF MicMuteApply
  <2>4. SessionsTyped'
    BY <1>a, <2>1, <2>3 DEF SessionsTyped
  <2> QED
    BY <2>1, <2>2, <2>3, <2>4, TypeNext DEF MicStep
<1> QED
  BY <1>1, <1>2, <1>3

LEMMA StopNoneStep ==
  ASSUME TypeOK, MuteAside, NEW t \in Callers, VoiceStopNone(t)
  PROVE  /\ UNCHANGED <<new_, pal_voice_handle, pal, palErrors, overlapped>> /\ TypeOK'
         /\ pc[t] = "stop" /\ CallMove(t, {"calls", "idle"})
         /\ pal_voice_handle[idx[t]] = Null
         /\ current_' = [current_ EXCEPT ![idx[t]] = new_[idx[t]]]
<1>a. SessionsTyped /\ PalTyped /\ CallTyped /\ ThreadsTyped
  BY TypeParts
<1>1. /\ UNCHANGED <<new_, pal_voice_handle, device_mute, pal, palErrors, overlapped>>
      /\ pal_voice_handle[idx[t]] = Null /\ PalTyped' /\ CallTyped'
      /\ current_' = [current_ EXCEPT ![idx[t]] = new_[idx[t]]]
  BY <1>a DEF VoiceStopNone, PalTyped, CallTyped, palVars, callVars, deviceVars, micVars, histVars
<1>2. SessionsTyped'
  BY <1>a, <1>1 DEF SessionsTyped
<1>3. pc[t] = "stop" /\ CallMove(t, {"calls", "idle"}) /\ ThreadsTyped'
  BY NextIsMove DEF VoiceStopNone, At, UpdatePoints, StopPoints
<1> QED
  BY <1>1, <1>2, <1>3, TypeNext

LEMMA StopStep ==
  ASSUME TypeOK, MuteAside, NEW t \in Callers, VoiceStop(t)
  PROVE  /\ UNCHANGED <<callState, new_, palErrors, overlapped>> /\ TypeOK'
         /\ pc[t] = "stop" /\ CallMove(t, {"close"})
         /\ pal_voice_handle[idx[t]] # Null
<1>a. SessionsTyped /\ PalTyped /\ CallTyped /\ ThreadsTyped
  BY TypeParts
<1>1. /\ UNCHANGED <<callState, new_, palErrors, overlapped>> /\ SessionsTyped' /\ PalTyped'
      /\ CallTyped' /\ pal_voice_handle[idx[t]] # Null
  BY <1>a DEF VoiceStop, callState, SessionsTyped, PalTyped, CallTyped, palVars, callVars,
     sessionVars, deviceVars, micVars, histVars
<1>2. /\ pc[t] = "stop" /\ pc[t] \in UpdatePoints /\ "close" \in Points
      /\ Goto(t, "close") /\ MutexOK'
  BY <1>a DEF VoiceStop, At, UpdatePoints, StopPoints, Points, Stay, ThreadsTyped, MutexOK
<1>3. CallMove(t, {"close"}) /\ ThreadsTyped'
  BY <1>2, GotoIsMove
<1> QED
  BY <1>1, <1>2, <1>3, TypeNext

LEMMA StopClosesStep ==
  ASSUME TypeOK, MuteAside, NEW t \in Callers, VoiceStopCloses(t)
  PROVE  /\ UNCHANGED <<current_, new_, pal_voice_handle, overlapped>> /\ TypeOK'
         /\ pc[t] = "close" /\ CallMove(t, {"stopClosed"}) /\ Shuts(idx[t])
         /\ palErrors \subseteq palErrors'
         /\ failed'[t] => pal_voice_handle[idx[t]] = Null \/ "close" \in palErrors'
<1>a. SessionsTyped /\ PalTyped /\ CallTyped /\ ThreadsTyped
  BY TypeParts
<1>1. /\ t # "mute" /\ pc[t] = "close" /\ pc[t] \in UpdatePoints /\ "stopClosed" \in Points
  BY DEF VoiceStopCloses, At, MuteAside, MutePoints, UpdatePoints, StopPoints, Points
<1>2. /\ UNCHANGED <<current_, new_, pal_voice_handle, device_mute, overlapped, idx>>
      /\ Shuts(idx[t]) /\ ClosePal(pal_voice_handle[idx[t]]) /\ CallTyped'
      /\ pc' = [pc EXCEPT ![t] = "stopClosed"] /\ UNCHANGED voice_mutex_
  BY <1>a DEF VoiceStopCloses, StopPal, ClosePal, Shuts, CallTyped, sessionVars, callVars,
     deviceVars, micVars
<1>3. PICK closeFails \in BOOLEAN :
        /\ closeFails => pal_voice_handle[idx[t]] = Null \/ "close" \in PalFailures
        /\ failed' = [failed EXCEPT ![t] = closeFails]
        /\ palErrors' = IF closeFails /\ pal_voice_handle[idx[t]] # Null
                        THEN palErrors \cup {"close"} ELSE palErrors
  BY DEF VoiceStopCloses
<1>4. /\ palErrors' \subseteq PalFailures /\ palErrors \subseteq palErrors'
      /\ failed'[t] => pal_voice_handle[idx[t]] = Null \/ "close" \in palErrors'
  BY <1>a, <1>3 DEF PalTyped, ThreadsTyped
<1>5. SessionsTyped' /\ PalTyped'
  BY <1>a, <1>2, <1>4, CloseTyped DEF SessionsTyped
<1>6. ThreadsTyped' /\ Moves(t, {"stopClosed"})
  BY <1>a, <1>1, <1>2, <1>3 DEF ThreadsTyped, Moves, MutexOK
<1> QED
  BY <1>1, <1>2, <1>4, <1>5, <1>6, TypeNext DEF CallMove

LEMMA StopForgetsStep ==
  ASSUME TypeOK, MuteAside, NEW t \in Callers, VoiceStopForgets(t)
  PROVE  /\ UNCHANGED <<new_, pal, palErrors, overlapped>> /\ TypeOK'
         /\ pc[t] = "stopClosed" /\ Ends(t) /\ Forgets(idx[t])
<1>a. SessionsTyped /\ PalTyped /\ CallTyped /\ ThreadsTyped
  BY TypeParts
<1>1. /\ UNCHANGED <<new_, device_mute, pal, palErrors, overlapped>> /\ PalTyped' /\ CallTyped'
      /\ Forgets(idx[t])
  BY <1>a DEF VoiceStopForgets, Forgets, PalTyped, CallTyped, palVars, callVars, deviceVars,
     micVars, histVars
<1>2. /\ pc[t] = "stopClosed" /\ Ends(t) /\ ThreadsTyped' /\ current_' \in [Sessions -> States]
  BY EndIsMove DEF VoiceStopForgets, At, UpdatePoints, StopPoints
<1>3. SessionsTyped'
  BY <1>a, <1>1, <1>2 DEF SessionsTyped, Forgets
<1> QED
  BY <1>1, <1>2, <1>3, TypeNext


\* The steps of Next, sorted.
LEMMA NextSteps ==
  ASSUME VoiceSafe, Next
  PROVE  EntryStep \/ MuteStep \/ \E t \in Callers : UpdateCalls(t)
<1>a. TypeOK /\ MuteAside
  BY DEF VoiceSafe
<1>1. CASE SetMode \/ RouteStream \/ VoiceSetParameters
  BY <1>1, <1>a, SetModeStep, RouteStep, ParamStep
<1>2. ASSUME NEW t \in Callers, VoiceSetDevice(t) PROVE EntryStep
  BY <1>2, <1>a, SetDeviceStep DEF MuteAside, MutePoints
<1>3. CASE MuteLook \/ MuteSession \/ \E b \in BOOLEAN : SetMicMute(b)
  BY <1>3, <1>a, MuteSteps
<1> QED
  BY <1>1, <1>2, <1>3 DEF Next

LEMMA CallMoveAside ==
  ASSUME MuteAside, NEW t, NEW to, CallMove(t, to)
  PROVE  MuteAside'
BY DEF CallMove, Moves, MuteAside

LEMMA UpdateIsSafe ==
  ASSUME VoiceSafe, NEW t \in Callers, UpdateCalls(t)
  PROVE  VoiceSafe'
<1>a. TypeOK /\ MuteAside
  BY DEF VoiceSafe
<1>b. ASSUME TypeOK', NEW to, CallMove(t, to) PROVE VoiceSafe'
  BY <1>a, <1>b, CallMoveAside DEF VoiceSafe
<1>1. CASE CallsLook(t)
  BY <1>1, <1>a, <1>b, LookStep
<1>2. CASE VoiceOpenFails(t)
  BY <1>2, <1>a, <1>b, OpenFailsStep
<1>3. CASE VoiceOpen(t)
  BY <1>3, <1>a, <1>b, OpenStep
<1>4. CASE VoiceStartFails(t)
  BY <1>4, <1>a, <1>b, StartFailsStep
<1>5. CASE VoiceStartForgets(t)
  BY <1>5, <1>a, <1>b, StartForgetsStep
<1>6. CASE VoiceStarts(t)
  BY <1>6, <1>a, <1>b, StartsStep
<1>7. CASE MicMuteLook(t) \/ MicMuteReread(t) \/ MicMuteApply(t)
  BY <1>7, <1>a, <1>b, MicSteps DEF MicStep, Ends
<1>8. CASE VoiceStopNone(t)
  BY <1>8, <1>a, <1>b, StopNoneStep
<1>9. CASE VoiceStop(t)
  BY <1>9, <1>a, <1>b, StopStep
<1>10. CASE VoiceStopCloses(t)
  BY <1>10, <1>a, <1>b, StopClosesStep
<1>11. CASE VoiceStopForgets(t)
  BY <1>11, <1>a, <1>b, StopForgetsStep DEF Ends
<1> QED
  BY <1>1, <1>2, <1>3, <1>4, <1>5, <1>6, <1>7, <1>8, <1>9, <1>10, <1>11 DEF UpdateCalls

LEMMA SafeStep == VoiceSafe /\ [Next]_vars => VoiceSafe'
<1>1. ASSUME VoiceSafe, EntryStep PROVE VoiceSafe'
  <2>1. TypeOK'
    BY <1>1, TypeNext DEF EntryStep
  <2>2. MuteAside'
    BY <1>1 DEF EntryStep, EntryMove, Moves, VoiceSafe, MuteAside
  <2> QED
    BY <2>1, <2>2 DEF VoiceSafe
<1>2. ASSUME VoiceSafe, MuteStep PROVE VoiceSafe'
  BY <1>2 DEF MuteStep, Moves, VoiceSafe, MuteAside
<1>3. ASSUME VoiceSafe, Next PROVE VoiceSafe'
  BY <1>1, <1>2, <1>3, NextSteps, UpdateIsSafe
<1>4. ASSUME VoiceSafe, UNCHANGED vars PROVE VoiceSafe'
  <2>1. UNCHANGED <<current_, new_, pal_voice_handle, device_mute>>
    BY <1>4 DEF vars, sessionVars
  <2>2. UNCHANGED <<pal, palMute, palDevice, palErrors, screened, reread, overlapped>>
    BY <1>4 DEF vars, palVars, histVars
  <2>3. UNCHANGED <<mode_, in_call, pal_voice_rx_device_id_, tty_mode, mute_, found>>
    BY <1>4 DEF vars, callVars, deviceVars, micVars
  <2>4. UNCHANGED <<voice_mutex_, pc, idx, failed>>
    BY <1>4 DEF vars, threadVars
  <2>5. SessionsTyped' /\ PalTyped'
    BY <1>4, <2>1, <2>2, TypeParts DEF VoiceSafe, SessionsTyped, PalTyped
  <2>6. CallTyped' /\ ThreadsTyped'
    BY <1>4, <2>2, <2>3, <2>4, TypeParts DEF VoiceSafe, CallTyped, ThreadsTyped, MutexOK
  <2>7. MuteAside'
    BY <1>4, <2>4 DEF VoiceSafe, MuteAside
  <2> QED
    BY <2>5, <2>6, <2>7, TypeNext DEF VoiceSafe
<1> QED
  BY <1>3, <1>4

LEMMA AlwaysSafe == Spec => []VoiceSafe
BY SafeInit, SafeStep, PTL DEF Spec

-----------------------------------------------------------------------------
(* The streams, the handles and the calls agree, however the callers         *)
(* interleave, until two of them are at one session at once.                 *)

InMic == {"micMute", "micReread", "micOn", "micOff"}

OneEach ==
  \A t, u \in Callers : pc[t] \in Busy /\ pc[u] \in Busy /\ idx[t] = idx[u] => t = u

\* The stream of session i has been closed, and its handle is about to be forgotten.
Leaving(i) == \E t \in Callers : idx[t] = i /\ pc[t] \in ClosedPoints

\* What a caller that starts or stops a session knows of its handle h.
StreamOK(t, h) ==
  /\ pc[t] = "start" => h = Null \/ "mute" \in palErrors
  /\ pc[t] \in {"opened", "startClosed", "close", "stopClosed"} \cup InMic => h # Null
  /\ pc[t] = "opened" => pal[h] # "closed"
  /\ pc[t] \in InMic => pal[h] = "running" /\ (failed[t] => "mute" \in palErrors)
  /\ pc[t] = "stop" => \/ h # Null /\ pal[h] = "running"
                       \/ h = Null /\ "close" \in palErrors
  /\ pc[t] = "close" => pal[h] = "running"
  /\ pc[t] = "stopClosed" => (failed[t] => "close" \in palErrors)

CallerOK(t) ==
  /\ pc[t] \in StartPoints => new_[idx[t]] = "ACTIVE" /\ current_[idx[t]] = "INACTIVE"
  /\ pc[t] \in StopPoints => new_[idx[t]] = "INACTIVE" /\ current_[idx[t]] = "ACTIVE"
  /\ pc[t] \in Busy => StreamOK(t, pal_voice_handle[idx[t]])

\* What a session's handle h is to a session no caller is at.
RestsOK(i, h) ==
  IF current_[i] = "ACTIVE"
  THEN (h # Null /\ pal[h] = "running") \/ (h = Null /\ "close" \in palErrors)
  ELSE h = Null \/ "mute" \in palErrors

SessionOK(i) ==
  (\A t \in Callers : pc[t] \in Busy => idx[t] # i) => RestsOK(i, pal_voice_handle[i])

HandleOK(i) ==
  pal_voice_handle[i] = Null \/ pal[pal_voice_handle[i]] # "closed" \/ Leaving(i)

\* PAL gives a handle again only after the stream that had it is closed.
Apart ==
  \A i, j \in Sessions :
    i # j /\ pal_voice_handle[i] = pal_voice_handle[j] /\ pal_voice_handle[i] # Null
      => Leaving(i) \/ Leaving(j)

Named ==
  "mute" \notin palErrors =>
    \A s \in Streams : pal[s] # "closed" =>
      \E i \in Sessions : pal_voice_handle[i] = s /\ ~Leaving(i)

Agree ==
  /\ OneEach /\ Apart /\ Named
  /\ \A t \in Callers : CallerOK(t)
  /\ \A i \in Sessions : SessionOK(i) /\ HandleOK(i)

LEMMA AgreeInit == Init => Agree
<1> SUFFICES ASSUME Init PROVE Agree
  OBVIOUS
<1>1. \A t \in Callers : pc[t] = "idle" /\ pc[t] \notin Busy
  BY DEF Init, Busy, StartPoints, StopPoints
<1>2. \A i \in Sessions : pal_voice_handle[i] = Null /\ current_[i] = "INACTIVE"
  BY DEF Init
<1>3. OneEach /\ Apart
  BY <1>1, <1>2 DEF OneEach, Apart
<1>4. Named
  BY DEF Init, Named
<1>5. \A t \in Callers : CallerOK(t)
  BY <1>1 DEF CallerOK, StartPoints, StopPoints
<1>6. \A i \in Sessions : SessionOK(i) /\ HandleOK(i)
  BY <1>2 DEF SessionOK, RestsOK, HandleOK
<1> QED
  BY <1>3, <1>4, <1>5, <1>6 DEF Agree

\* A step that leaves the streams, the handles and the callers at work alone.
Calm ==
  /\ UNCHANGED callState /\ palErrors \subseteq palErrors'
  /\ \A t \in Callers : pc[t] \in Busy \/ pc'[t] \in Busy =>
       pc'[t] = pc[t] /\ idx'[t] = idx[t] /\ failed'[t] = failed[t]
       /\ new_'[idx[t]] = new_[idx[t]]

LEMMA BusyPoints == ClosedPoints \subseteq Busy /\ StartPoints \cup StopPoints = Busy
BY DEF ClosedPoints, Busy, StartPoints, StopPoints

LEMMA CalmLeaving ==
  ASSUME Calm
  PROVE  \A i : Leaving(i)' <=> Leaving(i)
BY BusyPoints DEF Calm, Leaving

LEMMA CalmCaller ==
  ASSUME Calm, NEW t \in Callers, CallerOK(t)
  PROVE  CallerOK(t)'
<1>1. CASE pc[t] \in Busy \/ pc'[t] \in Busy
  <2>1. pc'[t] = pc[t] /\ idx'[t] = idx[t] /\ failed'[t] = failed[t]
        /\ new_'[idx[t]] = new_[idx[t]]
    BY <1>1 DEF Calm
  <2>2. UNCHANGED <<current_, pal_voice_handle, pal>> /\ palErrors \subseteq palErrors'
    BY DEF Calm, callState
  <2>3. StreamOK(t, pal_voice_handle[idx[t]]) => StreamOK(t, pal_voice_handle[idx[t]])'
    BY <2>1, <2>2 DEF StreamOK
  <2> QED
    BY <2>1, <2>2, <2>3 DEF CallerOK
<1>2. CASE pc'[t] \notin Busy
  BY <1>2, BusyPoints DEF CallerOK
<1> QED
  BY <1>1, <1>2

LEMMA CalmKeeps ==
  ASSUME Agree, Calm
  PROVE  Agree'
<1>1. UNCHANGED <<current_, pal_voice_handle, pal>> /\ palErrors \subseteq palErrors'
  BY DEF Calm, callState
<1>2. OneEach'
  BY DEF Agree, OneEach, Calm
<1>3. Apart' /\ Named'
  BY <1>1, CalmLeaving DEF Agree, Apart, Named
<1>4. \A t \in Callers : CallerOK(t)'
  BY CalmCaller DEF Agree
<1>5. ASSUME NEW i \in Sessions PROVE SessionOK(i)' /\ HandleOK(i)'
  <2>1. SessionOK(i) /\ HandleOK(i)
    BY DEF Agree
  <2>2. HandleOK(i)'
    BY <1>1, <2>1, CalmLeaving DEF HandleOK
  <2>3. RestsOK(i, pal_voice_handle[i]) => RestsOK(i, pal_voice_handle[i])'
    BY <1>1 DEF RestsOK
  <2>4. SessionOK(i)'
    BY <2>1, <2>3 DEF SessionOK, Calm
  <2> QED
    BY <2>2, <2>4
<1> QED
  BY <1>2, <1>3, <1>4, <1>5 DEF Agree

LEMMA EntryIsCalm ==
  ASSUME VoiceSafe, EntryStep, ~overlapped'
  PROVE  Calm
<1>1. UNCHANGED callState /\ palErrors \subseteq palErrors'
  BY DEF EntryStep
<1>2. ASSUME NEW t \in Callers, pc[t] \in Busy \/ pc'[t] \in Busy
      PROVE  /\ pc'[t] = pc[t] /\ idx'[t] = idx[t] /\ failed'[t] = failed[t]
             /\ pc[t] \in Busy
  <2>1. CASE UNCHANGED <<pc, idx, failed>>
    BY <1>2, <2>1
  <2>2. ASSUME NEW u \in Callers, EntryMove(u) PROVE t # u
    BY <1>2, <2>2 DEF EntryMove, Moves, Entry, Busy, StartPoints, StopPoints
  <2>3. CASE \E u \in Callers : EntryMove(u)
    BY <1>2, <2>2, <2>3 DEF EntryMove, Moves
  <2> QED
    BY <2>1, <2>3 DEF EntryStep
<1>3. ASSUME NEW t \in Callers, pc[t] \in Busy PROVE new_'[idx[t]] = new_[idx[t]]
  <2>1. CASE UNCHANGED new_
    BY <2>1
  <2>2. ASSUME NEW u \in Callers \ {"mute"}, MayEnter(u),
               overlapped' = (overlapped \/ \E i \in Sessions : new_'[i] # new_[i] /\ Taken(u, i))
        PROVE  new_'[idx[t]] = new_[idx[t]]
    <3>1. t # u /\ idx[t] \in Sessions
      BY <1>3, <2>2 DEF MayEnter, At, Busy, StartPoints, StopPoints, VoiceSafe, TypeOK
    <3>2. Taken(u, idx[t])
      BY <1>3, <3>1, BusyPoints DEF Taken, TakenBy
    <3> QED
      BY <2>2, <3>1, <3>2
  <2> QED
    BY <2>1, <2>2 DEF EntryStep, Asks
<1> QED
  BY <1>1, <1>2, <1>3 DEF Calm

LEMMA MuteIsCalm ==
  ASSUME VoiceSafe, MuteStep
  PROVE  Calm
<1>1. /\ pc["mute"] \notin Busy /\ pc'["mute"] \notin Busy
  BY DEF MuteStep, Moves, VoiceSafe, MuteAside, MutePoints, Busy, StartPoints, StopPoints
<1> QED
  BY <1>1 DEF MuteStep, Moves, Calm

\* Caller t looks at a session nobody else is at, and begins to start or to stop it.
LEMMA LookAgrees ==
  ASSUME VoiceSafe, Agree, NEW t \in Callers, CallsLook(t), ~overlapped'
  PROVE  Agree'
<1>a. TypeOK /\ MuteAside
  BY DEF VoiceSafe
<1>1. /\ UNCHANGED <<callState, new_, palErrors>> /\ pc[t] = "calls"
      /\ CallMove(t, {"start", "stop", "calls", "idle"})
      /\ pc'[t] = "start" => new_[idx[t]] = "ACTIVE" /\ current_[idx[t]] = "INACTIVE"
      /\ pc'[t] = "stop" => new_[idx[t]] = "INACTIVE" /\ current_[idx[t]] = "ACTIVE"
      /\ overlapped' = (overlapped \/ (pc'[t] \in {"start", "stop"} /\ Taken(t, idx[t])))
  BY <1>a, LookStep
<1>2. /\ UNCHANGED <<current_, pal_voice_handle, pal>>
      /\ pc'[t] \in {"start", "stop", "calls", "idle"} /\ pc[t] \notin Busy
      /\ pc'[t] \in Busy => idx'[t] = idx[t]
      /\ \A u \in Callers \ {t} : pc'[u] = pc[u] /\ idx'[u] = idx[u] /\ failed'[u] = failed[u]
  BY <1>1 DEF callState, CallMove, Moves, Busy, StartPoints, StopPoints
<1>3. CASE pc'[t] \in {"calls", "idle"}
  <2>1. pc'[t] \notin Busy
    BY <1>3 DEF Busy, StartPoints, StopPoints
  <2>2. Calm
    BY <1>1, <1>2, <2>1 DEF Calm
  <2> QED
    BY <2>2, CalmKeeps
<1>4. CASE pc'[t] \in {"start", "stop"}
  <2>1. idx'[t] = idx[t] /\ idx[t] \in Sessions /\ ~Taken(t, idx[t])
    BY <1>a, <1>1, <1>2, <1>4 DEF Busy, StartPoints, StopPoints, TypeOK
  <2>2. \A u \in Callers : pc[u] \in Busy => idx[u] # idx[t]
    BY <1>2, <2>1, BusyPoints DEF Taken, TakenBy
  <2>3. OneEach'
    BY <1>2, <2>1, <2>2 DEF Agree, OneEach
  <2>4. \A i : Leaving(i)' <=> Leaving(i)
    BY <1>2, <1>4, <1>1 DEF Leaving, ClosedPoints
  <2>5. Apart' /\ Named'
    BY <1>1, <1>2, <2>4 DEF Agree, Apart, Named
  <2>6. RestsOK(idx[t], pal_voice_handle[idx[t]])
    BY <2>1, <2>2 DEF Agree, SessionOK
  <2>7. CallerOK(t)'
    <3>1. StreamOK(t, pal_voice_handle[idx[t]])'
      BY <1>1, <1>2, <1>4, <2>1, <2>6 DEF StreamOK, RestsOK, InMic
    <3> QED
      BY <1>1, <1>2, <1>4, <2>1, <3>1 DEF CallerOK, StartPoints, StopPoints
  <2>8. ASSUME NEW u \in Callers \ {t} PROVE CallerOK(u)'
    <3>1. CallerOK(u)
      BY DEF Agree
    <3>2. StreamOK(u, pal_voice_handle[idx[u]]) => StreamOK(u, pal_voice_handle[idx[u]])'
      BY <1>1, <1>2 DEF StreamOK
    <3> QED
      BY <1>1, <1>2, <3>1, <3>2 DEF CallerOK
  <2>9. ASSUME NEW i \in Sessions PROVE SessionOK(i)' /\ HandleOK(i)'
    <3>1. SessionOK(i) /\ HandleOK(i)
      BY DEF Agree
    <3>2. HandleOK(i)'
      BY <1>2, <2>4, <3>1 DEF HandleOK
    <3>3. RestsOK(i, pal_voice_handle[i]) => RestsOK(i, pal_voice_handle[i])'
      BY <1>1, <1>2 DEF RestsOK
    <3>4. SessionOK(i)'
      BY <1>2, <3>1, <3>3 DEF SessionOK
    <3> QED
      BY <3>2, <3>4
  <2> QED
    BY <2>3, <2>5, <2>7, <2>8, <2>9 DEF Agree
<1> QED
  BY <1>2, <1>3, <1>4

\* Caller t, who starts or stops session k, takes a step that leaves the states and the
\* handles of the other sessions alone, and their streams but for those being left.
OwnStep(t, k) ==
  /\ \E to \in SUBSET Points : CallMove(t, to)
  /\ pc[t] \in Busy /\ idx[t] = k
  /\ UNCHANGED new_ /\ palErrors \subseteq palErrors'
  /\ \A j \in Sessions \ {k} :
       /\ current_'[j] = current_[j] /\ pal_voice_handle'[j] = pal_voice_handle[j]
       /\ pal_voice_handle[j] # Null /\ ~Leaving(j) =>
            pal'[pal_voice_handle[j]] = pal[pal_voice_handle[j]]

\* The other callers and the other sessions are as before.
OthersAgree(t, k) ==
  /\ OneEach'
  /\ \A u \in Callers \ {t} : CallerOK(u)'
  /\ \A j \in Sessions \ {k} : SessionOK(j)' /\ HandleOK(j)' /\ (Leaving(j)' <=> Leaving(j))
  /\ Leaving(k) <=> pc[t] \in ClosedPoints
  /\ Leaving(k)' <=> pc'[t] \in ClosedPoints

LEMMA OwnStepAgrees ==
  ASSUME VoiceSafe, Agree, NEW t \in Callers, NEW k \in Sessions, OwnStep(t, k)
  PROVE  OthersAgree(t, k)
<1>1. /\ pc'[t] \in Busy => idx'[t] = k
      /\ pc[t] \in Busy /\ idx[t] = k
      /\ \A u \in Callers \ {t} : pc'[u] = pc[u] /\ idx'[u] = idx[u] /\ failed'[u] = failed[u]
  BY DEF OwnStep, CallMove, Moves
<1>2. \A u \in Callers \ {t} : pc[u] \in Busy => idx[u] # k /\ idx[u] \in Sessions
  BY <1>1 DEF Agree, OneEach, VoiceSafe, TypeOK
<1>3. OneEach'
  BY <1>1, <1>2 DEF Agree, OneEach
<1>4. \A j \in Sessions \ {k} : Leaving(j)' <=> Leaving(j)
  BY <1>1, BusyPoints DEF Leaving
<1>5. /\ Leaving(k) <=> pc[t] \in ClosedPoints
      /\ Leaving(k)' <=> pc'[t] \in ClosedPoints
  BY <1>1, <1>2, BusyPoints DEF Leaving
<1>6. ASSUME NEW u \in Callers \ {t} PROVE CallerOK(u)'
  <2>1. CallerOK(u)
    BY DEF Agree
  <2>2. CASE pc[u] \in Busy
    <3>1. PICK j \in Sessions : j = idx[u] /\ j # k
      BY <1>2, <2>2
    <3>2. /\ pc'[u] = pc[u] /\ idx'[u] = j /\ failed'[u] = failed[u]
          /\ new_'[j] = new_[j] /\ current_'[j] = current_[j]
          /\ pal_voice_handle'[j] = pal_voice_handle[j]
          /\ "mute" \in palErrors => "mute" \in palErrors'
          /\ "close" \in palErrors => "close" \in palErrors'
      BY <1>1, <3>1 DEF OwnStep
    <3>3. \/ pc[u] \in {"startClosed", "stopClosed"}
          \/ pal_voice_handle[j] # Null => pal'[pal_voice_handle[j]] = pal[pal_voice_handle[j]]
      <4>1. Leaving(j) => pc[u] \in {"startClosed", "stopClosed"}
        BY <2>2, <3>1, BusyPoints DEF Leaving, Agree, OneEach, ClosedPoints
      <4> QED
        BY <3>1, <4>1 DEF OwnStep
    <3>4. StreamOK(u, pal_voice_handle[j])
      BY <2>1, <2>2, <3>1 DEF CallerOK
    <3>5. StreamOK(u, pal_voice_handle[j])'
      BY <3>2, <3>3, <3>4 DEF StreamOK, InMic
    <3>6. /\ pc[u] \in StartPoints => new_[j] = "ACTIVE" /\ current_[j] = "INACTIVE"
          /\ pc[u] \in StopPoints => new_[j] = "INACTIVE" /\ current_[j] = "ACTIVE"
      BY <2>1, <3>1 DEF CallerOK
    <3> QED
      BY <3>2, <3>5, <3>6 DEF CallerOK
  <2>3. CASE pc[u] \notin Busy
    BY <1>1, <2>3, BusyPoints DEF CallerOK
  <2> QED
    BY <2>2, <2>3
<1>7. ASSUME NEW j \in Sessions \ {k}
      PROVE  SessionOK(j)' /\ HandleOK(j)'
  <2>1. SessionOK(j) /\ HandleOK(j)
    BY DEF Agree
  <2>2. /\ palErrors \subseteq palErrors'
        /\ current_'[j] = current_[j] /\ pal_voice_handle'[j] = pal_voice_handle[j]
        /\ pal_voice_handle[j] # Null /\ ~Leaving(j) =>
             pal'[pal_voice_handle[j]] = pal[pal_voice_handle[j]]
    BY DEF OwnStep
  <2>3. HandleOK(j)'
    BY <1>4, <2>1, <2>2 DEF HandleOK
  <2>4. SessionOK(j)'
    <3>1. SUFFICES ASSUME \A u \in Callers : pc'[u] \in Busy => idx'[u] # j
                   PROVE  RestsOK(j, pal_voice_handle[j])'
      BY DEF SessionOK
    <3>2. \A u \in Callers : pc[u] \in Busy => idx[u] # j
      BY <1>1, <3>1
    <3>3. ~Leaving(j)
      BY <3>2, BusyPoints DEF Leaving
    <3>4. RestsOK(j, pal_voice_handle[j])
      BY <2>1, <3>2 DEF SessionOK
    <3> QED
      BY <2>2, <3>3, <3>4 DEF RestsOK
  <2> QED
    BY <2>3, <2>4
<1> QED
  BY <1>3, <1>4, <1>5, <1>6, <1>7 DEF OthersAgree

\* So what is left to show of such a step is about caller t and its session.
LEMMA OwnStepKeeps ==
  ASSUME NEW t \in Callers, NEW k \in Sessions, OthersAgree(t, k),
         CallerOK(t)', SessionOK(k)', HandleOK(k)', Apart', Named'
  PROVE  Agree'
<1>1. \A u \in Callers : CallerOK(u)'
  BY DEF OthersAgree
<1>2. ASSUME NEW j \in Sessions PROVE SessionOK(j)' /\ HandleOK(j)'
  <2>1. CASE j = k
    BY <2>1
  <2>2. CASE j # k
    BY <2>2 DEF OthersAgree
  <2> QED
    BY <2>1, <2>2
<1> QED
  BY <1>1, <1>2 DEF Agree, OthersAgree

\* A caller that leaves VoiceStart and VoiceStop needs nothing.
LEMMA OutsideOK ==
  ASSUME NEW t \in Callers, pc'[t] \in {"calls", "idle"}
  PROVE  CallerOK(t)'
BY DEF CallerOK, StartPoints, StopPoints, Busy

LEMMA LeavingIsOwn ==
  ASSUME Agree, NEW t \in Callers, NEW k, pc[t] \in Busy, idx[t] = k
  PROVE  Leaving(k) <=> pc[t] \in ClosedPoints
BY BusyPoints DEF Agree, OneEach, Leaving

\* A step that leaves the streams and the handles alone, and is not near a close.
LEMMA StillAgrees ==
  ASSUME VoiceSafe, Agree, NEW t \in Callers, NEW k \in Sessions, OwnStep(t, k),
         UNCHANGED <<pal_voice_handle, pal>>,
         pc[t] \notin ClosedPoints, pc'[t] \notin ClosedPoints,
         CallerOK(t)', SessionOK(k)'
  PROVE  Agree'
<1>1. OthersAgree(t, k)
  BY OwnStepAgrees
<1>2. \A j \in Sessions : Leaving(j)' <=> Leaving(j)
  BY <1>1 DEF OthersAgree
<1>3. HandleOK(k)'
  BY <1>2 DEF Agree, HandleOK
<1>4. Apart'
  BY <1>2 DEF Agree, Apart
<1>5. Named'
  <2>1. palErrors \subseteq palErrors'
    BY DEF OwnStep
  <2> QED
    BY <1>2, <2>1 DEF Agree, Named
<1> QED
  BY <1>1, <1>3, <1>4, <1>5, OwnStepKeeps

LEMMA OpenFailsAgrees ==
  ASSUME VoiceSafe, Agree, NEW t \in Callers, VoiceOpenFails(t)
  PROVE  Agree'
<1>1. /\ UNCHANGED <<current_, pal_voice_handle, pal, new_, palErrors>>
      /\ pc[t] = "start" /\ CallMove(t, {"calls", "idle"}) /\ idx[t] \in Sessions
  BY OpenFailsStep DEF VoiceSafe, TypeOK, callState
<1>2. PICK k \in Sessions : k = idx[t]
  BY <1>1
<1>3. /\ OwnStep(t, k) /\ pc'[t] \in {"calls", "idle"}
      /\ pc[t] \notin ClosedPoints /\ pc'[t] \notin ClosedPoints
  BY <1>1, <1>2, PointsTyped DEF OwnStep, CallMove, Moves, Busy, StartPoints, ClosedPoints, Entry
<1>4. CallerOK(t) /\ CallerOK(t)'
  BY <1>3, OutsideOK DEF Agree
<1>5. RestsOK(k, pal_voice_handle[k])'
  BY <1>1, <1>2, <1>4 DEF CallerOK, StreamOK, RestsOK, StartPoints, Busy
<1> QED
  BY <1>1, <1>3, <1>4, <1>5, StillAgrees DEF SessionOK

LEMMA OpenAgrees ==
  ASSUME VoiceSafe, Agree, NEW t \in Callers, VoiceOpen(t)
  PROVE  Agree'
<1>a. TypeOK /\ MuteAside
  BY DEF VoiceSafe
<1>1. /\ UNCHANGED <<current_, new_, palErrors>> /\ pc[t] = "start"
      /\ CallMove(t, {"opened"}) /\ idx' = idx /\ idx[t] \in Sessions
  BY <1>a, OpenStep DEF TypeOK
<1>2. PICK s \in Streams : Opens(t, s)
  BY <1>a, OpenStep
<1>3. PICK k \in Sessions : k = idx[t]
  BY <1>1
<1>4. /\ pal[s] = "closed" /\ pal'[s] = "open" /\ pal_voice_handle'[k] = s /\ s # Null
      /\ \A q \in Streams \ {s} : pal'[q] = pal[q]
      /\ \A j \in Sessions \ {k} : pal_voice_handle'[j] = pal_voice_handle[j]
  BY <1>a, <1>2, <1>3, NameAssumption DEF Opens, TypeOK
<1>5. pc'[t] = "opened" /\ pc[t] \in Busy
  BY <1>1 DEF CallMove, Moves, Busy, StartPoints
<1>6. OwnStep(t, k)
  <2>1. ASSUME NEW j \in Sessions \ {k}, pal_voice_handle[j] # Null, ~Leaving(j)
        PROVE  pal'[pal_voice_handle[j]] = pal[pal_voice_handle[j]]
    <3>1. pal[pal_voice_handle[j]] # "closed" /\ pal_voice_handle[j] \in Streams
      BY <1>a, <2>1 DEF Agree, HandleOK, TypeOK
    <3> QED
      BY <1>4, <3>1
  <2>2. {"opened"} \in SUBSET Points
    BY DEF Points, UpdatePoints, StartPoints
  <2> QED
    BY <1>1, <1>3, <1>4, <1>5, <2>1, <2>2 DEF OwnStep
<1>7. OthersAgree(t, k)
  BY <1>6, OwnStepAgrees
<1>8. /\ ~Leaving(k) /\ ~Leaving(k)'
      /\ \A j \in Sessions : Leaving(j)' <=> Leaving(j)
  BY <1>1, <1>5, <1>7 DEF OthersAgree, ClosedPoints
<1>9. CallerOK(t) /\ StreamOK(t, pal_voice_handle[k])
  BY <1>3, <1>5 DEF Agree, CallerOK
<1>10. CallerOK(t)'
  <2>1. idx'[t] = k /\ new_'[k] = "ACTIVE" /\ current_'[k] = "INACTIVE"
    BY <1>1, <1>3, <1>9 DEF CallerOK, StartPoints
  <2>2. StreamOK(t, pal_voice_handle[k])'
    BY <1>4, <1>5 DEF StreamOK, InMic
  <2> QED
    BY <1>5, <2>1, <2>2 DEF CallerOK, StopPoints
<1>11. SessionOK(k)' /\ HandleOK(k)'
  BY <1>1, <1>3, <1>4, <1>5 DEF SessionOK, HandleOK, Busy, StartPoints
<1>12. Apart'
  <2>1. ASSUME NEW j \in Sessions \ {k}, pal_voice_handle[j] = s PROVE Leaving(j)
    BY <1>4, <2>1 DEF Agree, HandleOK
  <2> QED
    BY <1>4, <1>8, <2>1 DEF Agree, Apart
<1>13. Named'
  <2> SUFFICES ASSUME "mute" \notin palErrors, NEW q \in Streams, pal'[q] # "closed"
               PROVE  \E i \in Sessions : pal_voice_handle'[i] = q /\ ~Leaving(i)'
    BY <1>1 DEF Named
  <2>1. CASE q = s
    BY <1>4, <1>8, <2>1
  <2>2. CASE q # s
    <3>1. PICK i \in Sessions : pal_voice_handle[i] = q /\ ~Leaving(i)
      BY <1>4, <2>2 DEF Agree, Named
    <3>2. i # k
      BY <1>a, <1>1, <1>9, <3>1, NameAssumption DEF StreamOK
    <3> QED
      BY <1>4, <1>8, <3>1, <3>2
  <2> QED
    BY <2>1, <2>2
<1> QED
  BY <1>7, <1>10, <1>11, <1>12, <1>13, OwnStepKeeps

\* pal_stream_close, in VoiceStart or VoiceStop: the session is being left.
LEMMA ShutsAgrees ==
  ASSUME VoiceSafe, Agree, NEW t \in Callers, NEW k \in Sessions, idx[t] = k,
         UNCHANGED <<current_, new_, pal_voice_handle>>, palErrors \subseteq palErrors',
         pc[t] \in {"opened", "close"}, NEW p \in ClosedPoints, CallMove(t, {p}), Shuts(k),
         CallerOK(t)'
  PROVE  Agree'
<1>a. pal_voice_handle[k] \in Streams /\ \A j \in Sessions : pal_voice_handle[j] \in Streams \cup {Null}
  <2>1. pal_voice_handle[k] # Null
    BY DEF Agree, CallerOK, StreamOK, Busy, StartPoints, StopPoints
  <2> QED
    BY <2>1 DEF VoiceSafe, TypeOK
<1>1. pc[t] \in Busy /\ pc[t] \notin ClosedPoints /\ pc'[t] = p /\ p \in Busy /\ {p} \in SUBSET Points
  BY BusyPoints DEF Busy, StartPoints, StopPoints, ClosedPoints, CallMove, Moves, Points,
     UpdatePoints
<1>2. ~Leaving(k)
  BY <1>1, LeavingIsOwn
<1>3. pal'[pal_voice_handle[k]] = "closed"
      /\ \A q \in Streams : q # pal_voice_handle[k] => pal'[q] = pal[q]
  BY <1>a DEF Shuts
<1>4. OwnStep(t, k)
  <2>1. ASSUME NEW j \in Sessions \ {k}, pal_voice_handle[j] # Null, ~Leaving(j)
        PROVE  pal'[pal_voice_handle[j]] = pal[pal_voice_handle[j]]
    <3>1. pal_voice_handle[j] # pal_voice_handle[k]
      BY <1>2, <2>1 DEF Agree, Apart
    <3> QED
      BY <1>a, <1>3, <2>1, <3>1
  <2> QED
    BY <1>1, <2>1 DEF OwnStep
<1>5. OthersAgree(t, k)
  BY <1>4, OwnStepAgrees
<1>6. Leaving(k)' /\ \A j \in Sessions \ {k} : Leaving(j)' <=> Leaving(j)
  BY <1>1, <1>5 DEF OthersAgree
<1>7. HandleOK(k)' /\ Apart'
  BY <1>6 DEF Agree, Apart, HandleOK
<1>8. SessionOK(k)'
  BY <1>1 DEF SessionOK, CallMove
<1>9. Named'
  <2> SUFFICES ASSUME "mute" \notin palErrors, NEW q \in Streams, pal'[q] # "closed"
               PROVE  \E i \in Sessions : pal_voice_handle'[i] = q /\ ~Leaving(i)'
    BY DEF Named
  <2>1. q # pal_voice_handle[k] /\ pal[q] # "closed"
    BY <1>3
  <2>2. PICK i \in Sessions : pal_voice_handle[i] = q /\ ~Leaving(i)
    BY <2>1 DEF Agree, Named
  <2> QED
    BY <1>6, <2>1, <2>2
<1> QED
  BY <1>5, <1>7, <1>8, <1>9, OwnStepKeeps

LEMMA StartFailsAgrees ==
  ASSUME VoiceSafe, Agree, NEW t \in Callers, VoiceStartFails(t)
  PROVE  Agree'
<1>1. /\ UNCHANGED <<current_, new_, pal_voice_handle, palErrors>>
      /\ pc[t] = "opened" /\ CallMove(t, {"startClosed"}) /\ Shuts(idx[t])
      /\ idx[t] \in Sessions
  BY StartFailsStep DEF VoiceSafe, TypeOK
<1>2. PICK k \in Sessions : k = idx[t]
  BY <1>1
<1>3. pc'[t] = "startClosed" /\ idx'[t] = k /\ pc[t] \in Busy
  BY <1>1, <1>2 DEF CallMove, Moves, Busy, StartPoints
<1>4. CallerOK(t) /\ StreamOK(t, pal_voice_handle[k])
  BY <1>2, <1>3 DEF Agree, CallerOK
<1>5. StreamOK(t, pal_voice_handle[k])'
  BY <1>1, <1>3, <1>4 DEF StreamOK, InMic
<1>6. CallerOK(t)'
  BY <1>1, <1>2, <1>3, <1>4, <1>5 DEF CallerOK, StartPoints, StopPoints
<1>7. "startClosed" \in ClosedPoints /\ Shuts(k)
  BY <1>1, <1>2 DEF ClosedPoints
<1> QED
  BY <1>1, <1>2, <1>6, <1>7, ShutsAgrees

LEMMA StopClosesAgrees ==
  ASSUME VoiceSafe, Agree, NEW t \in Callers, VoiceStopCloses(t)
  PROVE  Agree'
<1>1. /\ UNCHANGED <<current_, new_, pal_voice_handle>> /\ palErrors \subseteq palErrors'
      /\ pc[t] = "close" /\ CallMove(t, {"stopClosed"}) /\ Shuts(idx[t])
      /\ failed'[t] => pal_voice_handle[idx[t]] = Null \/ "close" \in palErrors'
      /\ idx[t] \in Sessions
  BY StopClosesStep DEF VoiceSafe, TypeOK
<1>2. PICK k \in Sessions : k = idx[t]
  BY <1>1
<1>3. pc'[t] = "stopClosed" /\ idx'[t] = k /\ pc[t] \in Busy
  BY <1>1, <1>2 DEF CallMove, Moves, Busy, StopPoints
<1>4. CallerOK(t) /\ StreamOK(t, pal_voice_handle[k])
  BY <1>2, <1>3 DEF Agree, CallerOK
<1>5. pal_voice_handle[k] # Null
  BY <1>1, <1>4 DEF StreamOK
<1>6. StreamOK(t, pal_voice_handle[k])'
  BY <1>1, <1>2, <1>3, <1>5 DEF StreamOK, InMic
<1>7. CallerOK(t)'
  BY <1>1, <1>2, <1>3, <1>4, <1>6 DEF CallerOK, StartPoints, StopPoints
<1>8. "stopClosed" \in ClosedPoints /\ Shuts(k)
  BY <1>1, <1>2 DEF ClosedPoints
<1> QED
  BY <1>1, <1>2, <1>7, <1>8, ShutsAgrees

\* The handle of the closed stream is forgotten, and VoiceStart or VoiceStop returns.
LEMMA ForgetsAgrees ==
  ASSUME VoiceSafe, Agree, NEW t \in Callers, NEW k \in Sessions, idx[t] = k,
         UNCHANGED <<new_, pal, palErrors>>, pc[t] \in ClosedPoints,
         CallMove(t, {"calls", "idle"}), Forgets(k),
         \A j \in Sessions \ {k} : current_'[j] = current_[j],
         current_'[k] = "ACTIVE" => "close" \in palErrors
  PROVE  Agree'
<1>1. pal_voice_handle'[k] = Null
      /\ \A j \in Sessions \ {k} : pal_voice_handle'[j] = pal_voice_handle[j]
  BY DEF Forgets, VoiceSafe, TypeOK
<1>2. pc[t] \in Busy /\ pc'[t] \in {"calls", "idle"} /\ pc'[t] \notin ClosedPoints
  BY BusyPoints DEF CallMove, Moves, ClosedPoints
<1>3. {"calls", "idle"} \in SUBSET Points
  BY PointsTyped DEF Entry
<1>4. OwnStep(t, k)
  BY <1>1, <1>2, <1>3 DEF OwnStep
<1>5. OthersAgree(t, k)
  BY <1>4, OwnStepAgrees
<1>6. Leaving(k) /\ ~Leaving(k)' /\ \A j \in Sessions \ {k} : Leaving(j)' <=> Leaving(j)
  BY <1>2, <1>5 DEF OthersAgree
<1>7. CallerOK(t)'
  BY <1>2, OutsideOK
<1>8. SessionOK(k)' /\ HandleOK(k)'
  BY <1>1 DEF SessionOK, RestsOK, HandleOK
<1>9. Apart'
  BY <1>1, <1>6 DEF Agree, Apart
<1>10. Named'
  BY <1>1, <1>6 DEF Agree, Named
<1> QED
  BY <1>5, <1>7, <1>8, <1>9, <1>10, OwnStepKeeps

LEMMA StartForgetsAgrees ==
  ASSUME VoiceSafe, Agree, NEW t \in Callers, VoiceStartForgets(t)
  PROVE  Agree'
<1>1. /\ UNCHANGED <<current_, new_, pal, palErrors>>
      /\ pc[t] = "startClosed" /\ CallMove(t, {"calls", "idle"}) /\ Forgets(idx[t])
      /\ idx[t] \in Sessions
  BY StartForgetsStep DEF VoiceSafe, TypeOK
<1>2. PICK k \in Sessions : k = idx[t]
  BY <1>1
<1>3. pc[t] \in ClosedPoints /\ Forgets(k)
  BY <1>1, <1>2 DEF ClosedPoints
<1>4. current_'[k] # "ACTIVE"
  BY <1>1, <1>2 DEF Agree, CallerOK, StartPoints
<1> QED
  BY <1>1, <1>2, <1>3, <1>4, ForgetsAgrees

\* What an end does to the states.
LEMMA EndsStates ==
  ASSUME TypeOK, NEW t \in Callers, NEW k \in Sessions, idx[t] = k, Ends(t)
  PROVE  /\ CallMove(t, {"calls", "idle"})
         /\ \A j \in Sessions \ {k} : current_'[j] = current_[j]
         /\ current_'[k] = IF failed[t] THEN current_[k] ELSE new_[k]
BY DEF TypeOK, Ends

LEMMA StopForgetsAgrees ==
  ASSUME VoiceSafe, Agree, NEW t \in Callers, VoiceStopForgets(t)
  PROVE  Agree'
<1>1. /\ UNCHANGED <<new_, pal, palErrors>> /\ pc[t] = "stopClosed" /\ Ends(t)
      /\ Forgets(idx[t]) /\ idx[t] \in Sessions /\ TypeOK
  BY StopForgetsStep DEF VoiceSafe, TypeOK
<1>2. PICK k \in Sessions : k = idx[t]
  BY <1>1
<1>3. pc[t] \in ClosedPoints /\ Forgets(k) /\ pc[t] \in Busy
  BY <1>1, <1>2 DEF ClosedPoints, Busy, StopPoints
<1>4. /\ CallMove(t, {"calls", "idle"})
      /\ \A j \in Sessions \ {k} : current_'[j] = current_[j]
      /\ current_'[k] = IF failed[t] THEN current_[k] ELSE new_[k]
  BY <1>1, <1>2, EndsStates
<1>5. new_[k] = "INACTIVE" /\ (failed[t] => "close" \in palErrors)
  BY <1>1, <1>2, <1>3 DEF Agree, CallerOK, StreamOK, StopPoints
<1>6. current_'[k] = "ACTIVE" => "close" \in palErrors
  BY <1>4, <1>5
<1> QED
  BY <1>1, <1>2, <1>3, <1>4, <1>6, ForgetsAgrees

LEMMA StartsAgrees ==
  ASSUME VoiceSafe, Agree, NEW t \in Callers, VoiceStarts(t)
  PROVE  Agree'
<1>a. TypeOK /\ MuteAside
  BY DEF VoiceSafe
<1>1. /\ UNCHANGED <<current_, new_, pal_voice_handle>>
      /\ pc[t] = "opened" /\ CallMove(t, {"micMute"})
      /\ pal_voice_handle[idx[t]] \in Streams
      /\ pal' = [pal EXCEPT ![pal_voice_handle[idx[t]]] = "running"]
      /\ palErrors \subseteq palErrors'
      /\ failed'[t] => "mute" \in palErrors'
      /\ idx[t] \in Sessions
  BY <1>a, StartsStep DEF TypeOK
<1>2. PICK k \in Sessions : k = idx[t]
  BY <1>1
<1>3. PICK s \in Streams : s = pal_voice_handle[k] /\ pal' = [pal EXCEPT ![s] = "running"]
  BY <1>1, <1>2
<1>4. /\ pc[t] \in Busy /\ pc'[t] = "micMute" /\ idx'[t] = k
      /\ pc[t] \notin ClosedPoints /\ pc'[t] \notin ClosedPoints
      /\ {"micMute"} \in SUBSET Points
  BY <1>1, <1>2 DEF CallMove, Moves, Busy, StartPoints, ClosedPoints, Points, UpdatePoints
<1>5. pal'[s] = "running" /\ \A q \in Streams \ {s} : pal'[q] = pal[q]
  BY <1>a, <1>3 DEF TypeOK
<1>6. CallerOK(t) /\ StreamOK(t, s)
  BY <1>2, <1>3, <1>4 DEF Agree, CallerOK
<1>7. pal[s] # "closed" /\ s # Null
  BY <1>1, <1>6, NameAssumption DEF StreamOK
<1>8. ~Leaving(k)
  BY <1>2, <1>4, LeavingIsOwn
<1>9. OwnStep(t, k)
  <2>1. ASSUME NEW j \in Sessions \ {k}, pal_voice_handle[j] # Null, ~Leaving(j)
        PROVE  pal'[pal_voice_handle[j]] = pal[pal_voice_handle[j]]
    <3>1. pal_voice_handle[j] # s /\ pal_voice_handle[j] \in Streams
      BY <1>a, <1>3, <1>7, <1>8, <2>1 DEF Agree, Apart, TypeOK
    <3> QED
      BY <1>5, <3>1
  <2> QED
    BY <1>1, <1>2, <1>4, <2>1 DEF OwnStep
<1>10. OthersAgree(t, k)
  BY <1>9, OwnStepAgrees
<1>11. \A j \in Sessions : Leaving(j)' <=> Leaving(j)
  BY <1>4, <1>10 DEF OthersAgree
<1>12. CallerOK(t)'
  <2>1. StreamOK(t, pal_voice_handle[k])'
    BY <1>1, <1>3, <1>4, <1>5, <1>7 DEF StreamOK, InMic
  <2>2. new_'[k] = "ACTIVE" /\ current_'[k] = "INACTIVE"
    BY <1>1, <1>2, <1>6 DEF CallerOK, StartPoints
  <2> QED
    BY <1>4, <2>1, <2>2 DEF CallerOK, StopPoints
<1>13. SessionOK(k)' /\ HandleOK(k)'
  BY <1>1, <1>3, <1>4, <1>5 DEF SessionOK, HandleOK, Busy, StartPoints
<1>14. Apart'
  BY <1>1, <1>11 DEF Agree, Apart
<1>15. Named'
  <2>1. \A q \in Streams : pal'[q] # "closed" => pal[q] # "closed"
    BY <1>5, <1>7
  <2> QED
    BY <1>1, <1>11, <2>1 DEF Agree, Named
<1> QED
  BY <1>10, <1>12, <1>13, <1>14, <1>15, OwnStepKeeps

LEMMA MicAgrees ==
  ASSUME VoiceSafe, Agree, NEW t \in Callers,
         MicMuteLook(t) \/ MicMuteReread(t) \/ MicMuteApply(t)
  PROVE  Agree'
<1>a. TypeOK /\ MuteAside
  BY DEF VoiceSafe
<1>1. MicStep(t) /\ idx[t] \in Sessions
  BY <1>a, MicSteps DEF TypeOK
<1>2. PICK k \in Sessions : k = idx[t]
  BY <1>1
<1>3. /\ UNCHANGED <<new_, pal_voice_handle, pal, palErrors>>
      /\ pc[t] \in InMic /\ pc[t] \in Busy /\ pc[t] \notin ClosedPoints
  BY <1>1 DEF MicStep, InMic, Busy, StartPoints, ClosedPoints
<1>4. /\ CallerOK(t) /\ StreamOK(t, pal_voice_handle[k])
      /\ new_[k] = "ACTIVE" /\ current_[k] = "INACTIVE"
  BY <1>2, <1>3 DEF Agree, CallerOK, StartPoints, InMic
<1>5. CASE CallMove(t, {"micReread", "micOn", "micOff"}) /\ UNCHANGED <<idx, failed, current_>>
  <2>1. /\ pc'[t] \in InMic /\ pc'[t] \in Busy /\ pc'[t] \notin ClosedPoints /\ idx'[t] = k
        /\ {"micReread", "micOn", "micOff"} \in SUBSET Points
    BY <1>2, <1>5 DEF CallMove, Moves, InMic, Busy, StartPoints, ClosedPoints, Points, UpdatePoints
  <2>2. OwnStep(t, k)
    BY <1>2, <1>3, <1>5, <2>1 DEF OwnStep
  <2>3. StreamOK(t, pal_voice_handle[k])'
    BY <1>3, <1>4, <1>5, <2>1 DEF StreamOK, InMic
  <2>4. CallerOK(t)'
    BY <1>3, <1>4, <1>5, <2>1, <2>3 DEF CallerOK, InMic, StopPoints
  <2>5. SessionOK(k)'
    BY <2>1 DEF SessionOK
  <2> QED
    BY <1>3, <2>1, <2>2, <2>4, <2>5, StillAgrees
<1>6. CASE Ends(t)
  <2>1. /\ CallMove(t, {"calls", "idle"})
        /\ \A j \in Sessions \ {k} : current_'[j] = current_[j]
        /\ current_'[k] = IF failed[t] THEN current_[k] ELSE new_[k]
    BY <1>a, <1>2, <1>6, EndsStates
  <2>2. /\ pc'[t] \in {"calls", "idle"} /\ pc'[t] \notin ClosedPoints
        /\ {"calls", "idle"} \in SUBSET Points
    BY <2>1, PointsTyped DEF CallMove, Moves, ClosedPoints, Entry
  <2>3. OwnStep(t, k)
    BY <1>2, <1>3, <2>1, <2>2 DEF OwnStep
  <2>4. CallerOK(t)'
    BY <2>2, OutsideOK
  <2>5. SessionOK(k)'
    <3>1. /\ pal_voice_handle[k] # Null /\ pal[pal_voice_handle[k]] = "running"
          /\ failed[t] => "mute" \in palErrors
      BY <1>3, <1>4 DEF StreamOK
    <3>2. current_'[k] = "ACTIVE" \/ "mute" \in palErrors
      BY <1>4, <2>1, <3>1
    <3>3. RestsOK(k, pal_voice_handle[k])'
      BY <1>3, <3>1, <3>2 DEF RestsOK
    <3> QED
      BY <3>3 DEF SessionOK
  <2> QED
    BY <1>3, <2>2, <2>3, <2>4, <2>5, StillAgrees
<1> QED
  BY <1>1, <1>5, <1>6 DEF MicStep

LEMMA StopNoneAgrees ==
  ASSUME VoiceSafe, Agree, NEW t \in Callers, VoiceStopNone(t)
  PROVE  Agree'
<1>1. /\ UNCHANGED <<pal_voice_handle, pal, new_, palErrors>>
      /\ pc[t] = "stop" /\ CallMove(t, {"calls", "idle"}) /\ idx[t] \in Sessions
      /\ pal_voice_handle[idx[t]] = Null
      /\ current_' = [current_ EXCEPT ![idx[t]] = new_[idx[t]]]
  BY StopNoneStep DEF VoiceSafe, TypeOK
<1>2. PICK k \in Sessions : k = idx[t]
  BY <1>1
<1>3. pc[t] \in Busy /\ pc'[t] \in {"calls", "idle"}
      /\ pc[t] \notin ClosedPoints /\ pc'[t] \notin ClosedPoints
      /\ {"calls", "idle"} \in SUBSET Points
  BY <1>1, PointsTyped DEF CallMove, Moves, Busy, StopPoints, ClosedPoints, Entry
<1>4. /\ \A j \in Sessions \ {k} : current_'[j] = current_[j]
      /\ current_'[k] = new_[k]
  BY <1>1, <1>2 DEF VoiceSafe, TypeOK
<1>5. OwnStep(t, k)
  BY <1>1, <1>2, <1>3, <1>4 DEF OwnStep
<1>6. CallerOK(t) /\ CallerOK(t)'
  BY <1>3, OutsideOK DEF Agree
<1>7. new_[k] = "INACTIVE"
  BY <1>1, <1>2, <1>6 DEF CallerOK, StopPoints
<1>8. SessionOK(k)'
  BY <1>1, <1>2, <1>4, <1>7 DEF SessionOK, RestsOK
<1> QED
  BY <1>1, <1>3, <1>5, <1>6, <1>8, StillAgrees

LEMMA StopAgrees ==
  ASSUME VoiceSafe, Agree, NEW t \in Callers, VoiceStop(t)
  PROVE  Agree'
<1>1. /\ UNCHANGED <<current_, pal_voice_handle, pal, new_, palErrors>>
      /\ pc[t] = "stop" /\ CallMove(t, {"close"}) /\ idx[t] \in Sessions
      /\ pal_voice_handle[idx[t]] # Null
  BY StopStep DEF VoiceSafe, TypeOK, callState
<1>2. PICK k \in Sessions : k = idx[t]
  BY <1>1
<1>3. /\ pc[t] \in Busy /\ pc'[t] = "close" /\ pc'[t] \in Busy /\ idx'[t] = k
      /\ pc[t] \notin ClosedPoints /\ pc'[t] \notin ClosedPoints
      /\ {"close"} \in SUBSET Points
  BY <1>1, <1>2 DEF CallMove, Moves, Busy, StopPoints, ClosedPoints, Points, UpdatePoints
<1>4. OwnStep(t, k)
  BY <1>1, <1>2, <1>3 DEF OwnStep
<1>5. CallerOK(t) /\ StreamOK(t, pal_voice_handle[k])
  BY <1>2, <1>3 DEF Agree, CallerOK
<1>6. StreamOK(t, pal_voice_handle[k])'
  BY <1>1, <1>2, <1>3, <1>5 DEF StreamOK, InMic
<1>7. CallerOK(t)'
  BY <1>1, <1>2, <1>3, <1>5, <1>6 DEF CallerOK, StartPoints, StopPoints
<1>8. SessionOK(k)'
  BY <1>3 DEF SessionOK
<1> QED
  BY <1>1, <1>3, <1>4, <1>7, <1>8, StillAgrees

LEMMA UpdateAgrees ==
  ASSUME VoiceSafe, Agree, NEW t \in Callers, UpdateCalls(t), ~overlapped'
  PROVE  Agree'
BY LookAgrees, OpenFailsAgrees, OpenAgrees, StartFailsAgrees, StartForgetsAgrees, StartsAgrees,
   MicAgrees, StopNoneAgrees, StopAgrees, StopClosesAgrees, StopForgetsAgrees DEF UpdateCalls

LEMMA OnlyLookOverlaps ==
  ASSUME NEW t, UpdateCalls(t), ~CallsLook(t)
  PROVE  UNCHANGED overlapped
BY DEF UpdateCalls, VoiceOpenFails, VoiceOpen, VoiceStartFails, VoiceStartForgets, VoiceStarts,
   MicMuteLook, MicMuteReread, MicMuteApply, VoiceStopNone, VoiceStop, VoiceStopCloses,
   VoiceStopForgets, histVars

\* Once two callers have met at a session, they have met.
LEMMA OverlapStays ==
  ASSUME VoiceSafe, Next, ~overlapped'
  PROVE  ~overlapped
<1>a. TypeOK /\ MuteAside
  BY DEF VoiceSafe
<1>1. CASE EntryStep
  BY <1>1 DEF EntryStep, Asks
<1>2. CASE MuteStep
  BY <1>2 DEF MuteStep
<1>3. ASSUME NEW t \in Callers, UpdateCalls(t) PROVE ~overlapped
  <2>1. CASE CallsLook(t)
    BY <1>a, <2>1, LookStep
  <2>2. CASE ~CallsLook(t)
    BY <1>3, <2>2, OnlyLookOverlaps
  <2> QED
    BY <2>1, <2>2
<1> QED
  BY <1>1, <1>2, <1>3, NextSteps

LEMMA AgreeStep == VoiceSafe /\ (~overlapped => Agree) /\ [Next]_vars => (~overlapped' => Agree')
<1>1. ASSUME VoiceSafe, Agree, Next, ~overlapped' PROVE Agree'
  BY <1>1, NextSteps, EntryIsCalm, MuteIsCalm, CalmKeeps, UpdateAgrees
<1>2. ASSUME Agree, UNCHANGED vars PROVE Agree'
  <2>1. Calm
    BY <1>2 DEF vars, sessionVars, palVars, histVars, threadVars, Calm, callState
  <2> QED
    BY <1>2, <2>1, CalmKeeps
<1>3. ASSUME UNCHANGED vars PROVE UNCHANGED overlapped
  BY <1>3 DEF vars, histVars
<1> QED
  BY <1>1, <1>2, <1>3, OverlapStays

LEMMA AlwaysAgrees == Spec => [](VoiceSafe /\ (~overlapped => Agree))
BY SafeInit, AgreeInit, AgreeStep, AlwaysSafe, PTL DEF Spec

\* The types hold, and until two callers have met at a session, a session names a stream that
\* PAL has closed only until the caller that closed it has forgotten it: for any number of
\* sessions and streams, however SetMode, RouteStream, VoiceSetParameters and SetMicMute
\* interleave (AudioVoice.cpp:651-1001).
THEOREM HandlesAreOpen == Spec => [](TypeOK /\ HandleIsOpen)
<1>1. VoiceSafe /\ (~overlapped => Agree) => TypeOK /\ HandleIsOpen
  BY DEF VoiceSafe, Agree, HandleOK, HandleIsOpen, Leaving
<1> QED
  BY <1>1, AlwaysAgrees, PTL

\* However the callers interleave, no voice stream is left open without a session that names
\* it, until two of them have met at a session, or the device mute that the property names
\* has failed (AudioVoice.cpp:651-1001).
THEOREM NoStreamIsLeft == Spec => []NoOrphanStream
<1>1. VoiceSafe /\ (~overlapped => Agree) => NoOrphanStream
  BY DEF Agree, Named, NoOrphanStream
<1> QED
  BY <1>1, AlwaysAgrees, PTL

\* However the callers interleave, and until two of them have met at a session, a session no
\* caller is at has the stream its state says, after any failures of PAL but those the
\* property names (AudioVoice.cpp:651-1001).
THEOREM StreamsFollowCalls == Spec => []StreamMatchesCall
<1>1. VoiceSafe /\ (~overlapped => Agree) => StreamMatchesCall
  <2> SUFFICES ASSUME VoiceSafe, Agree, NEW i \in Sessions, \A t \in Callers : ~TakenBy(t, i)
               PROVE  LET h == pal_voice_handle[i]
                      IN IF IsCallActive(i)
                         THEN (h # Null /\ pal[h] = "running") \/ (h = Null /\ "close" \in palErrors)
                         ELSE h = Null \/ "mute" \in palErrors
    BY DEF StreamMatchesCall
  <2>1. RestsOK(i, pal_voice_handle[i])
    BY BusyPoints DEF Agree, SessionOK, TakenBy
  <2>2. current_[i] \in {"INACTIVE", "ACTIVE"}
    BY DEF VoiceSafe, TypeOK, States
  <2> QED
    BY <2>1, <2>2 DEF RestsOK, IsCallActive
<1> QED
  BY <1>1, AlwaysAgrees, PTL

-----------------------------------------------------------------------------
(* A caller that has not begun its loop is at the first session.             *)

Resting == {"idle", "exit", "waitLock"}
AtFirst == \A t \in Callers : pc[t] \in Resting => idx[t] = 1

LEMMA GotoFirst ==
  ASSUME TypeOK, AtFirst, NEW t \in Callers, NEW p, Goto(t, p),
         p \notin Resting \/ pc[t] \in Resting
  PROVE  AtFirst'
BY DEF TypeOK, AtFirst, Goto

LEMMA FinishFirst ==
  ASSUME TypeOK, AtFirst, NEW t \in Callers, Finish(t)
  PROVE  AtFirst'
BY DEF TypeOK, AtFirst, Finish

LEMMA NextFirst ==
  ASSUME TypeOK, AtFirst, NEW t \in Callers, NEW p, p \notin Resting, NextSession(t, p)
  PROVE  AtFirst'
<1>1. CASE idx[t] < MaxVoiceSessions
  BY <1>1 DEF TypeOK, AtFirst, NextSession
<1>2. CASE ~(idx[t] < MaxVoiceSessions)
  BY <1>2, FinishFirst DEF NextSession
<1> QED
  BY <1>1, <1>2

LEMMA EndFirst ==
  ASSUME TypeOK, AtFirst, NEW t \in Callers, EndStep(t)
  PROVE  AtFirst'
BY NextFirst DEF EndStep, Resting

LEMMA UpdateFirst ==
  ASSUME TypeOK, AtFirst, NEW t \in Callers, UpdateCalls(t)
  PROVE  AtFirst'
<1>1. CASE CallsLook(t) \/ VoiceOpenFails(t) \/ VoiceStartFails(t) \/ VoiceStartForgets(t)
           \/ VoiceOpen(t)
  BY <1>1, GotoFirst, NextFirst
     DEF CallsLook, VoiceOpenFails, VoiceStartFails, VoiceStartForgets, VoiceOpen, Resting
<1>2. CASE VoiceStarts(t)
  BY <1>2 DEF VoiceStarts, TypeOK, AtFirst, Resting
<1>3. CASE MicMuteLook(t) \/ MicMuteReread(t) \/ MicMuteApply(t)
  BY <1>3, GotoFirst, EndFirst DEF MicMuteLook, MicMuteRead, MicMuteReread, MicMuteApply, Resting
<1>4. CASE VoiceStopNone(t) \/ VoiceStop(t) \/ VoiceStopForgets(t)
  BY <1>4, GotoFirst, NextFirst, EndFirst DEF VoiceStopNone, VoiceStop, VoiceStopForgets, Resting
<1>5. CASE VoiceStopCloses(t)
  BY <1>5 DEF VoiceStopCloses, TypeOK, AtFirst, Resting
<1> QED
  BY <1>1, <1>2, <1>3, <1>4, <1>5 DEF UpdateCalls

LEMMA FirstStep == TypeOK /\ AtFirst /\ [Next]_vars => AtFirst'
<1> SUFFICES ASSUME TypeOK, AtFirst, [Next]_vars PROVE AtFirst'
  OBVIOUS
<1>1. CASE UNCHANGED <<pc, idx>>
  BY <1>1 DEF AtFirst
<1>2. CASE SetMode
  BY <1>1, <1>2, GotoFirst DEF SetMode, SwitchCallScreen, RecordMode, StopCall, StartCallScreen,
     threadVars, MayEnter, At, Resting
<1>3. CASE RouteStream
  <2>1. CASE RouteNone \/ (\E d \in Devices : RouteIds(d)) \/ RouteStartsCalls \/ RouteSwitches
    BY <2>1, GotoFirst DEF RouteNone, RouteIds, RouteStartsCalls, RouteSwitches, RouteLocks,
       SwitchPoint, MayEnter, At, Resting
  <2>2. CASE RouteExit \/ RouteNothing
    BY <2>2, FinishFirst DEF RouteExit, RouteNothing, RouteLocks, At
  <2> QED
    BY <1>3, <2>1, <2>2 DEF RouteStream
<1>4. CASE VoiceSetParameters
  BY <1>1, <1>4, GotoFirst DEF VoiceSetParameters, UpdateCallState, SetDeviceMutes, SetHac,
     SetTtyMode, threadVars, MayEnter, At, Resting
<1>5. ASSUME NEW t \in Callers, VoiceSetDevice(t) PROVE AtFirst'
  BY <1>5, FinishFirst, NextFirst DEF VoiceSetDevice, Resting
<1>6. CASE MuteLook \/ MuteSession \/ \E b \in BOOLEAN : SetMicMute(b)
  BY <1>6, GotoFirst, NextFirst DEF MuteLook, MuteSession, SetMicMute, MayEnter, At, Resting
<1>7. CASE UNCHANGED vars
  BY <1>1, <1>7 DEF vars, threadVars
<1> QED
  BY <1>2, <1>3, <1>4, <1>5, <1>6, <1>7, UpdateFirst DEF Next

LEMMA AlwaysAtFirst == Spec => []AtFirst
<1>1. Init => AtFirst
  BY DEF Init, AtFirst
<1>2. VoiceSafe => TypeOK
  BY DEF VoiceSafe
<1> QED
  BY <1>1, <1>2, FirstStep, AlwaysSafe, PTL DEF Spec

-----------------------------------------------------------------------------
(* The microphone mute, however the callers interleave: SetMicMute stores    *)
(* the switch and then visits the sessions; VoiceStart stores the handle and *)
(* then reads the switch.                                                    *)

\* VoiceStart of session i has not yet got to the end of its look at the switch.
ToBeMuted(i) ==
  \E t \in Callers : idx[t] = i /\ pc[t] \in {"micMute", "micReread", "micOn"}

Heard(i) == /\ pal_voice_handle[i] # Null /\ pal[pal_voice_handle[i]] = "running"
            /\ ~palMute[pal_voice_handle[i]]

\* SetMicMute will get to the stream of session i, or has its handle in its hand.
Visiting(i) ==
  \/ pc["mute"] = "muting" /\ idx["mute"] <= i
  \/ pc["mute"] = "muteUse" /\ idx["mute"] < i
  \/ pc["mute"] = "muteUse" /\ idx["mute"] = i /\ found = pal_voice_handle[i]

\* Session i is mute or about to lose its stream, or VoiceStart or SetMicMute will get to it.
MicOK(i) == ~Heard(i) \/ ToBeMuted(i) \/ Leaving(i) \/ Visiting(i)

MicHolds ==
  /\ \A t \in Callers : pc[t] # "micOff"
  /\ mute_ => \A i \in Sessions : MicOK(i)

\* A step of another caller than SetMicMute.
LEMMA OtherKeepsMic ==
  ASSUME MicHolds, UNCHANGED mute_, \A t \in Callers : pc'[t] # "micOff",
         mute_ => \A i \in Sessions : MicOK(i) => MicOK(i)'
  PROVE  MicHolds'
BY DEF MicHolds

LEMMA VisitGoesOn ==
  ASSUME pc'["mute"] = pc["mute"], idx'["mute"] = idx["mute"], UNCHANGED found,
         NEW i, pal_voice_handle'[i] = pal_voice_handle[i], Visiting(i)
  PROVE  Visiting(i)'
BY DEF Visiting

LEMMA EntryFrame ==
  ASSUME SetMode \/ RouteStream \/ VoiceSetParameters \/ \E t \in Callers : VoiceSetDevice(t)
  PROVE  UNCHANGED <<palMute, mute_, found, reread>>
<1>1. CASE SetMode
  BY <1>1 DEF SetMode, SwitchCallScreen, RecordMode, StopCall, StartCallScreen, palVars, histVars,
     micVars
<1>2. CASE RouteStream
  BY <1>2 DEF RouteStream, RouteNone, RouteExit, RouteIds, RouteStartsCalls, RouteNothing,
     RouteSwitches, palVars, histVars, callVars, micVars
<1>3. CASE VoiceSetParameters
  BY <1>3 DEF VoiceSetParameters, UpdateCallState, SetDeviceMutes, SetHac, SetTtyMode, palVars,
     histVars, callVars, micVars
<1>4. CASE \E t \in Callers : VoiceSetDevice(t)
  BY <1>4 DEF VoiceSetDevice, callVars, micVars
<1> QED
  BY <1>1, <1>2, <1>3, <1>4

LEMMA EntryKeepsMic ==
  ASSUME "mute" \in Callers, VoiceSafe, MicHolds, EntryStep,
         UNCHANGED <<palMute, mute_, found>>
  PROVE  MicHolds'
<1>1. UNCHANGED <<current_, pal_voice_handle, pal>>
  BY DEF EntryStep, callState
<1>2. CASE UNCHANGED <<pc, idx, failed>>
  BY <1>1, <1>2 DEF MicHolds, MicOK, Heard, ToBeMuted, Leaving, Visiting
<1>3. ASSUME NEW t \in Callers, EntryMove(t) PROVE MicHolds'
  <2>1. /\ t # "mute" /\ pc[t] \in Entry /\ pc'[t] \in Entry
        /\ \A u \in Callers \ {t} : pc'[u] = pc[u] /\ idx'[u] = idx[u]
    BY <1>3 DEF EntryMove, Moves
  <2>2. \A u \in Callers : pc'[u] # "micOff"
    BY <2>1 DEF MicHolds, Entry
  <2>3. ASSUME NEW i \in Sessions, MicOK(i) PROVE MicOK(i)'
    <3>1. ToBeMuted(i) => ToBeMuted(i)'
      BY <2>1 DEF ToBeMuted, Entry
    <3>2. Leaving(i) => Leaving(i)'
      BY <2>1 DEF Leaving, Entry, ClosedPoints
    <3>3. Visiting(i) => Visiting(i)'
      BY <1>1, <2>1, VisitGoesOn
    <3> QED
      BY <1>1, <2>3, <3>1, <3>2, <3>3 DEF MicOK, Heard
  <2> QED
    BY <2>2, <2>3, OtherKeepsMic
<1> QED
  BY <1>2, <1>3 DEF EntryStep

\* A step of UpdateCalls at session k, before the switch is read or after: no session becomes
\* heard that is not to be muted yet.
LEMMA CallKeepsMic ==
  ASSUME "mute" \in Callers, MicHolds, NEW t \in Callers, NEW k \in Sessions, idx[t] = k,
         NEW to, CallMove(t, to), "micOff" \notin to, UNCHANGED <<mute_, found>>,
         pc[t] \notin {"micMute", "micReread", "micOn"},
         \A j \in Sessions \ {k} :
           pal_voice_handle'[j] = pal_voice_handle[j] /\ (Heard(j)' => Heard(j) \/ Leaving(j)),
         \/ ~Heard(k)' \/ ToBeMuted(k)' \/ Leaving(k)'
         \/ Heard(k) /\ pal_voice_handle'[k] = pal_voice_handle[k] /\ pc[t] \notin ClosedPoints
  PROVE  MicHolds'
<1>1. /\ t # "mute" /\ pc'[t] \in to
      /\ \A u \in Callers \ {t} : pc'[u] = pc[u] /\ idx'[u] = idx[u]
  BY DEF CallMove, Moves
<1>2. \A u \in Callers : pc'[u] # "micOff"
  BY <1>1 DEF MicHolds
<1>3. ASSUME NEW i \in Sessions, MicOK(i) PROVE MicOK(i)'
  <2>1. ToBeMuted(i) => ToBeMuted(i)'
    BY <1>1 DEF ToBeMuted
  <2>2. pal_voice_handle'[i] = pal_voice_handle[i] /\ Visiting(i) => Visiting(i)'
    BY <1>1, VisitGoesOn
  <2>3. CASE i # k
    <3>1. Leaving(i) => Leaving(i)'
      BY <1>1, <2>3 DEF Leaving
    <3> QED
      BY <1>3, <2>1, <2>2, <2>3, <3>1 DEF MicOK
  <2>4. CASE i = k
    <3>1. pc[t] \notin ClosedPoints /\ Leaving(i) => Leaving(i)'
      BY <1>1 DEF Leaving
    <3> QED
      BY <1>3, <2>1, <2>2, <2>4, <3>1 DEF MicOK
  <2> QED
    BY <2>3, <2>4
<1> QED
  BY <1>2, <1>3, OtherKeepsMic

\* pal_stream_close of the stream of session k: no other is heard for it.
LEMMA ShutsHeard ==
  ASSUME TypeOK, NEW k \in Sessions, ClosePal(pal_voice_handle[k]), UNCHANGED pal_voice_handle
  PROVE  \A j \in Sessions : Heard(j)' => Heard(j)
<1> SUFFICES ASSUME NEW j \in Sessions, Heard(j)' PROVE Heard(j)
  OBVIOUS
<1>1. PICK q \in Streams : q = pal_voice_handle[j]
  BY DEF Heard, TypeOK
<1>2. pal'[q] = "running" /\ ~palMute'[q]
  BY <1>1 DEF Heard
<1>3. q # pal_voice_handle[k] /\ pal'[q] = pal[q]
  BY <1>2 DEF ClosePal
<1>4. palMute'[q] = palMute[q]
  BY <1>3 DEF ClosePal, TypeOK
<1> QED
  BY <1>1, <1>2, <1>3, <1>4, NameAssumption DEF Heard

LEMMA OpenKeepsMic ==
  ASSUME "mute" \in Callers, VoiceSafe, Agree, MicHolds, NEW t \in Callers, VoiceOpen(t)
  PROVE  MicHolds'
<1>a. TypeOK /\ MuteAside
  BY DEF VoiceSafe
<1>1. CallMove(t, {"opened"}) /\ pc[t] = "start" /\ idx[t] \in Sessions
  BY <1>a, OpenStep DEF TypeOK
<1>2. PICK s \in Streams : Opens(t, s)
  BY <1>a, OpenStep
<1>3. PICK k \in Sessions : k = idx[t]
  BY <1>1
<1>4. UNCHANGED <<palMute, mute_, found>>
  BY DEF VoiceOpen, callVars, micVars
<1>5. /\ pal[s] = "closed" /\ pal'[s] = "open" /\ pal_voice_handle'[k] = s
      /\ \A q \in Streams \ {s} : pal'[q] = pal[q]
      /\ \A j \in Sessions \ {k} : pal_voice_handle'[j] = pal_voice_handle[j]
  BY <1>a, <1>2, <1>3 DEF Opens, TypeOK
<1>6. ~Heard(k)'
  BY <1>5 DEF Heard
<1>7. ASSUME NEW j \in Sessions \ {k}, Heard(j)' PROVE Heard(j)
  <2>1. PICK q \in Streams : q = pal_voice_handle[j]
    BY <1>a, <1>5, <1>7 DEF Heard, TypeOK
  <2>2. q # s
    BY <1>5, <1>7, <2>1 DEF Heard
  <2> QED
    BY <1>4, <1>5, <1>7, <2>1, <2>2 DEF Heard
<1> QED
  BY <1>1, <1>3, <1>4, <1>5, <1>6, <1>7, CallKeepsMic

LEMMA StartsKeepsMic ==
  ASSUME "mute" \in Callers, VoiceSafe, Agree, MicHolds, NEW t \in Callers, VoiceStarts(t)
  PROVE  MicHolds'
<1>a. TypeOK /\ MuteAside
  BY DEF VoiceSafe
<1>1. /\ CallMove(t, {"micMute"}) /\ idx' = idx /\ UNCHANGED pal_voice_handle
      /\ pal_voice_handle[idx[t]] \in Streams
      /\ pal' = [pal EXCEPT ![pal_voice_handle[idx[t]]] = "running"]
      /\ pc[t] = "opened" /\ idx[t] \in Sessions
  BY <1>a, StartsStep DEF TypeOK
<1>2. PICK k \in Sessions : k = idx[t]
  BY <1>1
<1>3. UNCHANGED <<palMute, mute_, found>>
  BY DEF VoiceStarts, callVars, micVars
<1>4. ToBeMuted(k)'
  BY <1>1, <1>2 DEF ToBeMuted, CallMove, Moves
<1>5. ~Leaving(k)
  BY <1>1, <1>2, LeavingIsOwn DEF Busy, StartPoints, ClosedPoints
<1>6. ASSUME NEW j \in Sessions \ {k}, Heard(j)', ~Leaving(j) PROVE Heard(j)
  <2>1. pal_voice_handle[j] # Null /\ pal_voice_handle[j] # pal_voice_handle[k]
    BY <1>1, <1>5, <1>6 DEF Heard, Agree, Apart
  <2>2. pal'[pal_voice_handle[j]] = pal[pal_voice_handle[j]]
    BY <1>a, <1>1, <1>2, <2>1 DEF TypeOK
  <2> QED
    BY <1>1, <1>3, <1>6, <2>2 DEF Heard
<1>7. \A j \in Sessions \ {k} :
        pal_voice_handle'[j] = pal_voice_handle[j] /\ (Heard(j)' => Heard(j) \/ Leaving(j))
  BY <1>1, <1>6
<1>8. "micOff" \notin {"micMute"} /\ pc[t] \notin {"micMute", "micReread", "micOn"}
  BY <1>1
<1> QED
  BY <1>1, <1>2, <1>3, <1>4, <1>7, <1>8, CallKeepsMic

\* VoiceStartFails and VoiceStopCloses.
LEMMA ShutsKeepsMic ==
  ASSUME "mute" \in Callers, VoiceSafe, MicHolds, NEW t \in Callers,
         VoiceStartFails(t) \/ VoiceStopCloses(t)
  PROVE  MicHolds'
<1>a. TypeOK /\ MuteAside
  BY DEF VoiceSafe
<1>1. /\ UNCHANGED pal_voice_handle /\ pc[t] \in {"opened", "close"} /\ idx[t] \in Sessions
      /\ CallMove(t, {"startClosed"}) \/ CallMove(t, {"stopClosed"})
  BY <1>a, StartFailsStep, StopClosesStep DEF TypeOK
<1>2. PICK k \in Sessions : k = idx[t]
  BY <1>1
<1>3. /\ ClosePal(pal_voice_handle[k]) /\ UNCHANGED <<mute_, found>>
  BY <1>2 DEF VoiceStartFails, VoiceStopCloses, StopPal, callVars, micVars
<1>4. \A j \in Sessions : Heard(j)' => Heard(j)
  BY <1>a, <1>1, <1>3, ShutsHeard
<1>5. PICK p \in ClosedPoints : CallMove(t, {p})
  BY <1>1 DEF ClosedPoints
<1>6. pc'[t] = p /\ idx'[t] = k
  BY <1>2, <1>5 DEF CallMove, Moves, ClosedPoints, Busy, StartPoints, StopPoints
<1>7. Leaving(k)'
  BY <1>6 DEF Leaving
<1>8. "micOff" \notin {p} /\ pc[t] \notin {"micMute", "micReread", "micOn"}
  BY <1>1 DEF ClosedPoints
<1>9. \A j \in Sessions \ {k} :
        pal_voice_handle'[j] = pal_voice_handle[j] /\ (Heard(j)' => Heard(j) \/ Leaving(j))
  BY <1>1, <1>4
<1> QED
  BY <1>2, <1>3, <1>5, <1>7, <1>8, <1>9, CallKeepsMic

\* The steps that touch no stream.
LEMMA QuietKeepsMic ==
  ASSUME "mute" \in Callers, VoiceSafe, MicHolds, NEW t \in Callers,
         \/ CallsLook(t) \/ VoiceOpenFails(t) \/ VoiceStopNone(t) \/ VoiceStop(t)
         \/ VoiceStartForgets(t) \/ VoiceStopForgets(t)
  PROVE  MicHolds'
<1>a. TypeOK /\ MuteAside /\ idx[t] \in Sessions
  BY DEF VoiceSafe, TypeOK
<1>b. PICK k \in Sessions : k = idx[t]
  BY <1>a
<1>1. UNCHANGED <<pal, palMute, mute_, found>>
  BY DEF CallsLook, VoiceOpenFails, VoiceStopNone, VoiceStop, VoiceStartForgets,
     VoiceStopForgets, callVars, micVars, palVars
<1>2. pc[t] \notin {"micMute", "micReread", "micOn"}
  BY DEF CallsLook, VoiceOpenFails, VoiceStopNone, VoiceStop, VoiceStartForgets,
     VoiceStopForgets, At
<1>3. CASE CallsLook(t) \/ VoiceOpenFails(t) \/ VoiceStopNone(t) \/ VoiceStop(t)
  <2>1. CallMove(t, {"start", "stop", "close", "calls", "idle"})
    BY <1>3, <1>a, LookStep, OpenFailsStep, StopNoneStep, StopStep DEF CallMove, Moves
  <2>2. UNCHANGED pal_voice_handle /\ pc[t] \notin ClosedPoints
    BY <1>3 DEF CallsLook, VoiceOpenFails, VoiceStopNone, VoiceStop, At, sessionVars, ClosedPoints
  <2>3. \A j \in Sessions : Heard(j)' = Heard(j)
    BY <1>1, <2>2 DEF Heard
  <2>4. "micOff" \notin {"start", "stop", "close", "calls", "idle"}
    OBVIOUS
  <2>5. \A j \in Sessions \ {k} :
          pal_voice_handle'[j] = pal_voice_handle[j] /\ (Heard(j)' => Heard(j) \/ Leaving(j))
    BY <2>2, <2>3
  <2>6. ~Heard(k)' \/ (Heard(k) /\ pal_voice_handle'[k] = pal_voice_handle[k])
    BY <2>2, <2>3
  <2> QED
    BY <1>b, <1>1, <1>2, <2>1, <2>2, <2>4, <2>5, <2>6, CallKeepsMic
<1>4. CASE VoiceStartForgets(t) \/ VoiceStopForgets(t)
  <2>1. CallMove(t, {"calls", "idle"}) /\ Forgets(k)
    BY <1>4, <1>a, <1>b, StartForgetsStep, StopForgetsStep DEF Ends
  <2>2. /\ pal_voice_handle'[k] = Null
        /\ \A j \in Sessions \ {k} : pal_voice_handle'[j] = pal_voice_handle[j]
    BY <1>a, <2>1 DEF Forgets, TypeOK
  <2>3. ~Heard(k)' /\ \A j \in Sessions \ {k} : Heard(j)' => Heard(j)
    BY <1>1, <2>2 DEF Heard
  <2> QED
    BY <1>b, <1>1, <1>2, <2>1, <2>2, <2>3, CallKeepsMic
<1> QED
  BY <1>3, <1>4

\* VoiceStart's look at the switch: with the microphone muted, it goes on to mute the stream.
LEMMA LookKeepsMic ==
  ASSUME "mute" \in Callers, VoiceSafe, MicHolds, NEW t \in Callers, ~reread',
         MicMuteLook(t) \/ MicMuteReread(t)
  PROVE  MicHolds'
<1>a. TypeOK /\ MuteAside
  BY DEF VoiceSafe
<1>1. MicStep(t)
  BY <1>a, MicSteps
<1>2. /\ t # "mute" /\ pc[t] \in {"micMute", "micReread"}
      /\ \A u \in Callers \ {t} : pc'[u] = pc[u] /\ idx'[u] = idx[u]
  BY <1>1 DEF MicStep, Ends, CallMove, Moves, MicMuteLook, MicMuteReread, At
<1>3. UNCHANGED <<pal, palMute, pal_voice_handle, mute_, found>>
  BY DEF MicMuteLook, MicMuteReread, callVars, micVars, palVars, sessionVars
<1>4. pc'[t] # "micOff"
  <2>1. CASE MicMuteLook(t)
    <3>1. Goto(t, "micReread") \/ EndStep(t)
      BY <2>1 DEF MicMuteLook, MicMuteRead
    <3>2. EndStep(t) => pc'[t] # "micOff"
      BY <1>a, <1>2, EndIsMove DEF Ends, CallMove, Moves, UpdatePoints, StartPoints
    <3> QED
      BY <1>a, <3>1, <3>2 DEF Goto, TypeOK
  <2>2. CASE MicMuteReread(t)
    BY <1>a, <2>2 DEF MicMuteReread, Goto, TypeOK
  <2> QED
    BY <2>1, <2>2
<1>5. mute_ => pc'[t] \in {"micReread", "micOn"} /\ idx'[t] = idx[t]
  BY <1>a DEF MicMuteLook, MicMuteRead, MicMuteReread, Goto, TypeOK
<1>6. ASSUME mute_, NEW i \in Sessions, MicOK(i) PROVE MicOK(i)'
  <2>1. ToBeMuted(i) => ToBeMuted(i)'
    BY <1>2, <1>5, <1>6 DEF ToBeMuted
  <2>2. Leaving(i) => Leaving(i)'
    BY <1>2 DEF Leaving, ClosedPoints
  <2>3. Visiting(i) => Visiting(i)'
    BY <1>2, <1>3, VisitGoesOn
  <2> QED
    BY <1>3, <1>6, <2>1, <2>2, <2>3 DEF MicOK, Heard
<1>7. \A u \in Callers : pc'[u] # "micOff"
  BY <1>2, <1>4 DEF MicHolds
<1> QED
  BY <1>3, <1>6, <1>7, OtherKeepsMic

LEMMA ApplyKeepsMic ==
  ASSUME "mute" \in Callers, VoiceSafe, MicHolds, NEW t \in Callers, MicMuteApply(t)
  PROVE  MicHolds'
<1>a. TypeOK /\ MuteAside /\ idx[t] \in Sessions
  BY DEF VoiceSafe, TypeOK
<1>b. PICK k \in Sessions : k = idx[t]
  BY <1>a
<1>1. Ends(t) /\ pc[t] = "micOn"
  BY <1>a, EndIsMove DEF MicMuteApply, UpdatePoints, StartPoints, MicHolds
<1>2. /\ t # "mute" /\ pc'[t] \in {"calls", "idle"}
      /\ \A u \in Callers \ {t} : pc'[u] = pc[u] /\ idx'[u] = idx[u]
  BY <1>1 DEF Ends, CallMove, Moves
<1>3. UNCHANGED <<pal, pal_voice_handle, mute_, found>>
  BY DEF MicMuteApply, callVars, micVars
<1>4. ASSUME NEW s \in Streams
      PROVE  palMute'[s] = ((s = pal_voice_handle[k] /\ pal[s] # "closed") \/ palMute[s])
  BY <1>a, <1>b, <1>1 DEF MicMuteApply, Mute, At, TypeOK
<1>5. ASSUME NEW i \in Sessions, MicOK(i) PROVE MicOK(i)'
  <2>1. pal_voice_handle[i] # Null => pal_voice_handle[i] \in Streams
    BY <1>a DEF TypeOK
  <2>2. i = k => ~Heard(i)'
    BY <1>3, <1>4, <2>1 DEF Heard
  <2>3. Heard(i)' => Heard(i)
    BY <1>3, <1>4, <2>1 DEF Heard
  <2>4. i # k /\ ToBeMuted(i) => ToBeMuted(i)'
    BY <1>b, <1>2 DEF ToBeMuted
  <2>5. i # k /\ Leaving(i) => Leaving(i)'
    BY <1>b, <1>2 DEF Leaving
  <2>6. Visiting(i) => Visiting(i)'
    BY <1>2, <1>3, VisitGoesOn
  <2> QED
    BY <1>5, <2>2, <2>3, <2>4, <2>5, <2>6 DEF MicOK
<1>6. \A u \in Callers : pc'[u] # "micOff"
  BY <1>2 DEF MicHolds
<1> QED
  BY <1>3, <1>5, <1>6, OtherKeepsMic

LEMMA UpdateKeepsMic ==
  ASSUME "mute" \in Callers, VoiceSafe, Agree, MicHolds, NEW t \in Callers, UpdateCalls(t),
         ~reread'
  PROVE  MicHolds'
BY OpenKeepsMic, StartsKeepsMic, ShutsKeepsMic, QuietKeepsMic, LookKeepsMic, ApplyKeepsMic
   DEF UpdateCalls

\* SetMicMute: the switch is stored with every session still to be visited.
LEMMA StoreKeepsMic ==
  ASSUME "mute" \in Callers, VoiceSafe, AtFirst, MicHolds, NEW b \in BOOLEAN, SetMicMute(b)
  PROVE  MicHolds'
<1>1. idx["mute"] = 1
  BY DEF SetMicMute, MayEnter, At, AtFirst, Resting
<1>2. pc' = [pc EXCEPT !["mute"] = "muting"] /\ idx' = idx
  BY DEF SetMicMute, Goto
<1>3. pc'["mute"] = "muting" /\ \A t \in Callers \ {"mute"} : pc'[t] = pc[t]
  BY <1>2 DEF VoiceSafe, TypeOK
<1>4. \A i \in Sessions : MicOK(i)'
  BY <1>1, <1>2, <1>3, SessionAssumption DEF MicOK, Visiting, Sessions
<1> QED
  BY <1>3, <1>4 DEF MicHolds

\* SetMicMute goes from session k, which it has muted when it had to, to the next.
LEMMA VisitNext ==
  ASSUME "mute" \in Callers, TypeOK, NEW k \in Sessions, k = idx["mute"],
         pc["mute"] \in {"muting", "muteUse"}, NextSession("mute", "muting"),
         NEW i \in Sessions, MicOK(i), Heard(i)' => Heard(i),
         i = k /\ Visiting(i) => ~Heard(i)'
  PROVE  MicOK(i)'
<1>1. /\ \A u \in Callers \ {"mute"} : pc'[u] = pc[u] /\ idx'[u] = idx[u]
      /\ \/ k < MaxVoiceSessions /\ pc'["mute"] = "muting" /\ idx'["mute"] = k + 1
         \/ k = MaxVoiceSessions /\ pc'["mute"] = "idle" /\ idx'["mute"] = 1
  <2>1. k <= MaxVoiceSessions /\ k \in Nat /\ MaxVoiceSessions \in Nat
    BY SessionAssumption DEF Sessions
  <2> QED
    BY <2>1 DEF NextSession, Finish, TypeOK
<1>2. ToBeMuted(i) => ToBeMuted(i)'
  BY <1>1 DEF ToBeMuted
<1>3. Leaving(i) => Leaving(i)'
  BY <1>1 DEF Leaving, ClosedPoints
<1>4. i \in Nat /\ k \in Nat /\ MaxVoiceSessions \in Nat /\ i <= MaxVoiceSessions
  BY SessionAssumption DEF Sessions
<1>5. k < i => Visiting(i)'
  BY <1>1, <1>4 DEF Visiting
<1>6. i < k => ~Visiting(i)
  BY <1>4 DEF Visiting
<1>7. CASE ~Heard(i) \/ ToBeMuted(i) \/ Leaving(i)
  BY <1>2, <1>3, <1>7 DEF MicOK
<1>8. CASE Visiting(i)
  BY <1>4, <1>5, <1>6, <1>8 DEF MicOK
<1> QED
  BY <1>7, <1>8 DEF MicOK

LEMMA VisitsKeepMic ==
  ASSUME "mute" \in Callers, VoiceSafe, MicHolds, MuteLook \/ MuteSession
  PROVE  MicHolds'
<1>a. TypeOK /\ idx["mute"] \in Sessions /\ pc["mute"] \in {"muting", "muteUse"}
  BY DEF VoiceSafe, TypeOK, MuteLook, MuteSession, At
<1>b. PICK k \in Sessions : k = idx["mute"]
  BY <1>a
<1>1. UNCHANGED <<pal, pal_voice_handle, mute_>>
  BY DEF MuteLook, MuteSession, sessionVars, palVars
<1>2. \A t \in Callers : pc'[t] # "micOff"
  <2>1. MuteStep
    BY MuteSteps DEF VoiceSafe
  <2> QED
    BY <2>1 DEF MuteStep, Moves, MutePoints, MicHolds
<1>3. ASSUME mute_, NEW i \in Sessions PROVE MicOK(i)'
  <2>1. MicOK(i) /\ (pal_voice_handle[i] # Null => pal_voice_handle[i] \in Streams)
    BY <1>3 DEF MicHolds, VoiceSafe, TypeOK
  <2>2. CASE MuteLook /\ pal_voice_handle[k] = Null
    <3>1. NextSession("mute", "muting") /\ UNCHANGED palMute
      BY <1>b, <2>2 DEF MuteLook, palVars
    <3>2. Heard(i)' => Heard(i) /\ i # k
      BY <1>1, <2>2, <3>1 DEF Heard
    <3> QED
      BY <1>a, <1>b, <2>1, <3>1, <3>2, VisitNext
  <2>3. CASE MuteLook /\ pal_voice_handle[k] # Null
    <3>1. /\ Goto("mute", "muteUse") /\ found' = pal_voice_handle[k] /\ UNCHANGED palMute
          /\ pc["mute"] = "muting"
      BY <1>b, <2>3 DEF MuteLook, palVars, At
    <3>2. /\ pc'["mute"] = "muteUse" /\ idx' = idx
          /\ \A u \in Callers \ {"mute"} : pc'[u] = pc[u]
      BY <1>a, <3>1 DEF Goto, TypeOK
    <3>3. Visiting(i) => Visiting(i)'
      <4>1. k <= i <=> k < i \/ k = i
        BY SessionAssumption DEF Sessions
      <4> QED
        BY <1>1, <1>b, <3>1, <3>2, <4>1 DEF Visiting
    <3>4. (ToBeMuted(i) => ToBeMuted(i)') /\ (Leaving(i) => Leaving(i)')
      BY <3>1, <3>2 DEF ToBeMuted, Leaving, ClosedPoints
    <3> QED
      BY <1>1, <2>1, <3>1, <3>3, <3>4 DEF MicOK, Heard
  <2>4. CASE MuteSession
    <3>1. PICK h \in {found, pal_voice_handle[k]} : Mute(h, mute_)
      BY <1>b, <2>4 DEF MuteSession
    <3>2. \A s \in Streams :
            palMute'[s] = ((s = h /\ pal[s] # "closed") \/ palMute[s])
      BY <1>a, <1>3, <3>1 DEF Mute, TypeOK
    <3>3. Heard(i)' => Heard(i)
      BY <1>1, <2>1, <3>2 DEF Heard
    <3>4. i = k /\ Visiting(i) => ~Heard(i)'
      <4>1. SUFFICES ASSUME i = k, Visiting(i), Heard(i)' PROVE FALSE
        OBVIOUS
      <4>2. k \in Nat /\ ~(k < k)
        BY SessionAssumption DEF Sessions
      <4>3. found = pal_voice_handle[i]
        BY <1>b, <2>4, <4>1, <4>2 DEF Visiting, MuteSession, At
      <4>4. h = pal_voice_handle[i]
        BY <3>1, <4>1, <4>3
      <4> QED
        BY <1>1, <2>1, <3>2, <4>1, <4>4 DEF Heard
    <3>5. NextSession("mute", "muting")
      BY <2>4 DEF MuteSession
    <3> QED
      BY <1>a, <1>b, <2>1, <3>3, <3>4, <3>5, VisitNext
  <2> QED
    BY <2>2, <2>3, <2>4
<1> QED
  BY <1>1, <1>2, <1>3 DEF MicHolds

\* A start that has read the switch on and then off, has.
LEMMA RereadStays ==
  ASSUME Next, reread
  PROVE  reread'
<1>1. CASE SetMode \/ RouteStream \/ VoiceSetParameters \/ \E t \in Callers : VoiceSetDevice(t)
  BY <1>1, EntryFrame
<1>2. CASE MuteLook \/ MuteSession \/ \E b \in BOOLEAN : SetMicMute(b)
  BY <1>2 DEF MuteLook, MuteSession, SetMicMute, histVars
<1>3. ASSUME NEW t \in Callers, UpdateCalls(t) PROVE reread'
  BY <1>3 DEF UpdateCalls, CallsLook, VoiceOpenFails, VoiceOpen, VoiceStartFails,
     VoiceStartForgets, VoiceStarts, MicMuteLook, MicMuteReread, MicMuteApply, VoiceStopNone,
     VoiceStop, VoiceStopCloses, VoiceStopForgets, histVars
<1> QED
  BY <1>1, <1>2, <1>3 DEF Next

LEMMA MicStepKeeps ==
  ASSUME "mute" \in Callers
  PROVE  VoiceSafe /\ AtFirst /\ (~overlapped => Agree) /\ (~overlapped /\ ~reread => MicHolds)
           /\ [Next]_vars => (~overlapped' /\ ~reread' => MicHolds')
<1> SUFFICES ASSUME VoiceSafe, AtFirst, ~overlapped => Agree,
                    ~overlapped /\ ~reread => MicHolds, [Next]_vars, ~overlapped', ~reread'
             PROVE  MicHolds'
  OBVIOUS
<1>1. ASSUME VoiceSafe, AtFirst, Agree, MicHolds, Next, ~reread' PROVE MicHolds'
  <2>1. CASE SetMode \/ RouteStream \/ VoiceSetParameters \/ \E t \in Callers : VoiceSetDevice(t)
    <3>1. EntryStep
      BY <1>1, <2>1, SetModeStep, RouteStep, ParamStep, SetDeviceStep
         DEF VoiceSafe, MuteAside, MutePoints
    <3> QED
      BY <1>1, <2>1, <3>1, EntryFrame, EntryKeepsMic
  <2> QED
    BY <1>1, <2>1, UpdateKeepsMic, StoreKeepsMic, VisitsKeepMic DEF Next
<1>2. ASSUME MicHolds, UNCHANGED vars PROVE MicHolds'
  <2>1. UNCHANGED <<pal_voice_handle, pal, palMute, pc, idx, mute_, found>>
    BY <1>2 DEF vars, sessionVars, palVars, histVars, threadVars, callVars, micVars
  <2> QED
    BY <1>2, <2>1 DEF MicHolds, MicOK, Heard, ToBeMuted, Leaving, Visiting
<1>3. CASE Next
  <2>1. ~overlapped
    BY <1>3, OverlapStays
  <2>2. ~reread
    BY <1>3, RereadStays
  <2> QED
    BY <1>1, <1>3, <2>1, <2>2
<1>4. CASE UNCHANGED vars
  <2>1. ~overlapped /\ ~reread
    BY <1>4 DEF vars, histVars
  <2> QED
    BY <1>2, <1>4, <2>1
<1> QED
  BY <1>3, <1>4

\* However the callers interleave, and until two of them have met at a session: with the
\* microphone muted and SetMicMute done, no running call is open to the microphone, for any
\* number of sessions, with the exceptions the property names (AudioDevice.cpp:1368,
\* AudioVoice.cpp:744-1001, 1129-1147).
THEOREM MuteIsHeld == Spec => []MicMuteHeld
<1>1. CASE "mute" \in Callers
  <2>1. Init => MicHolds
    BY DEF Init, MicHolds
  <2>2. MicHolds => MicMuteHeld
    BY DEF MicHolds, MicOK, Heard, ToBeMuted, Leaving, Visiting, MicMuteHeld, At
  <2>3. VoiceSafe /\ (~overlapped /\ ~reread => MicHolds) => MicMuteHeld
    BY <2>2 DEF MicMuteHeld
  <2> QED
    BY <1>1, <2>1, <2>3, MicStepKeeps, AlwaysAgrees, AlwaysAtFirst, PTL DEF Spec
<1>2. CASE "mute" \notin Callers
  <2>1. MicMuteHeld
    BY <1>2 DEF MicMuteHeld, At
  <2> QED
    BY <2>1, PTL
<1> QED
  BY <1>1, <1>2

-----------------------------------------------------------------------------
(* With SetMode, RouteStream and VoiceSetParameters called one at a time.    *)

\* One of the three at most is inside its handler.
Alone ==
  \A t, u \in Callers \ {"mute"} : pc[t] = "idle" \/ pc[u] = "idle" \/ t = u

Single == Alone /\ ~overlapped

CallsOK == Single /\ Agree

LEMMA SingleInit == Init => Single
BY DEF Init, Single, Alone

\* Whoever enters finds the other two outside.
LEMMA EntersAlone ==
  ASSUME Serialized, NEW t \in Callers \ {"mute"}, MayEnter(t)
  PROVE  \A u \in Callers \ {"mute"} : pc[u] = "idle"
BY DEF MayEnter, At

\* While one of the three is inside, nobody else starts or stops a session.
LEMMA OthersIdle ==
  ASSUME Alone, MuteAside, NEW t \in Callers \ {"mute"}, pc[t] # "idle"
  PROVE  \A u \in Callers \ {t} : pc[u] \in MutePoints /\ (u # "mute" => pc[u] = "idle")
BY DEF Alone, MuteAside, MutePoints

LEMMA MuteNotBusy == MutePoints \cap (UpdatePoints \cup {"setDevice", "setFirst"}) = {}
BY DEF MutePoints, UpdatePoints, StartPoints, StopPoints

LEMMA AsideNotTaken ==
  ASSUME NEW t \in Callers, NEW i, \A u \in Callers \ {t} : pc[u] \in MutePoints
  PROVE  ~Taken(t, i)
BY DEF Taken, TakenBy, MutePoints, StartPoints, StopPoints

LEMMA UpdateMoves ==
  ASSUME TypeOK, MuteAside, NEW t \in Callers, UpdateCalls(t)
  PROVE  t # "mute" /\ pc[t] \in UpdatePoints /\ Moves(t, UpdatePoints \cup {"idle"})
<1>1. CASE CallsLook(t) \/ VoiceOpenFails(t) \/ VoiceOpen(t)
  BY <1>1, LookStep, OpenFailsStep, OpenStep
     DEF CallMove, Moves, UpdatePoints, StartPoints, StopPoints
<1>2. CASE VoiceStartFails(t) \/ VoiceStartForgets(t) \/ VoiceStarts(t)
  BY <1>2, StartFailsStep, StartForgetsStep, StartsStep
     DEF CallMove, Moves, UpdatePoints, StartPoints
<1>3. CASE MicMuteLook(t) \/ MicMuteReread(t) \/ MicMuteApply(t)
  <2>1. MicStep(t)
    BY <1>3, MicSteps
  <2> QED
    BY <2>1 DEF MicStep, Ends, CallMove, Moves, UpdatePoints, StartPoints
<1>4. CASE VoiceStopNone(t) \/ VoiceStop(t)
  BY <1>4, StopNoneStep, StopStep DEF CallMove, Moves, UpdatePoints, StopPoints
<1>5. CASE VoiceStopCloses(t) \/ VoiceStopForgets(t)
  BY <1>5, StopClosesStep, StopForgetsStep DEF Ends, CallMove, Moves, UpdatePoints, StopPoints
<1> QED
  BY <1>1, <1>2, <1>3, <1>4, <1>5 DEF UpdateCalls

LEMMA EntryStaysSingle ==
  ASSUME Serialized, VoiceSafe, Single, EntryStep
  PROVE  Single'
<1>1. Alone'
  <2>1. CASE UNCHANGED <<pc, idx, failed>>
    BY <2>1 DEF Single, Alone
  <2>2. ASSUME NEW t \in Callers, EntryMove(t) PROVE Alone'
    <3>1. /\ t # "mute" /\ \A u \in Callers \ {t} : pc'[u] = pc[u]
      BY <2>2 DEF EntryMove, Moves
    <3>2. \A u \in Callers \ {t, "mute"} : pc[u] = "idle"
      <4>1. CASE pc[t] = "idle"
        BY <2>2, <3>1, <4>1, EntersAlone DEF EntryMove
      <4>2. CASE pc[t] # "idle"
        BY <3>1, <4>2, OthersIdle DEF VoiceSafe, Single
      <4> QED
        BY <4>1, <4>2
    <3> QED
      BY <3>1, <3>2 DEF Alone
  <2> QED
    BY <2>1, <2>2 DEF EntryStep
<1>2. ~overlapped'
  <2>1. CASE UNCHANGED overlapped
    BY <2>1 DEF Single
  <2>2. CASE Asks
    <3>1. PICK t \in Callers \ {"mute"} :
            /\ MayEnter(t)
            /\ overlapped' = (overlapped \/ \E i \in Sessions : new_'[i] # new_[i] /\ Taken(t, i))
      BY <2>2 DEF Asks
    <3>2. \A u \in Callers \ {t} : pc[u] \in MutePoints
      BY <3>1, EntersAlone DEF VoiceSafe, MuteAside, MutePoints
    <3> QED
      BY <3>1, <3>2, AsideNotTaken DEF Single
  <2> QED
    BY <2>1, <2>2 DEF EntryStep
<1> QED
  BY <1>1, <1>2 DEF Single

LEMMA UpdateStaysSingle ==
  ASSUME VoiceSafe, Single, NEW t \in Callers, UpdateCalls(t)
  PROVE  Single'
<1>1. /\ t # "mute" /\ pc[t] # "idle" /\ \A u \in Callers \ {t} : pc'[u] = pc[u]
  BY UpdateMoves DEF VoiceSafe, Moves, UpdatePoints, StartPoints, StopPoints
<1>2. \A u \in Callers \ {t} : pc[u] \in MutePoints /\ (u # "mute" => pc[u] = "idle")
  BY <1>1, OthersIdle DEF VoiceSafe, Single
<1>3. Alone'
  BY <1>1, <1>2 DEF Alone
<1>4. CASE CallsLook(t)
  BY <1>2, <1>3, <1>4, LookStep, AsideNotTaken DEF Single, VoiceSafe
<1>5. CASE ~CallsLook(t)
  BY <1>3, <1>5, OnlyLookOverlaps DEF Single
<1> QED
  BY <1>4, <1>5

LEMMA SingleStep ==
  ASSUME Serialized
  PROVE  VoiceSafe /\ Single /\ [Next]_vars => Single'
<1>1. ASSUME VoiceSafe, Single, MuteStep PROVE Single'
  <2>1. UNCHANGED overlapped /\ \A u \in Callers \ {"mute"} : pc'[u] = pc[u]
    BY <1>1 DEF MuteStep, Moves
  <2> QED
    BY <1>1, <2>1 DEF Single, Alone
<1>2. ASSUME Single, UNCHANGED vars PROVE Single'
  <2>1. UNCHANGED <<pc, overlapped>>
    BY <1>2 DEF vars, threadVars, histVars
  <2> QED
    BY <1>2, <2>1 DEF Single, Alone
<1> QED
  BY <1>1, <1>2, NextSteps, EntryStaysSingle, UpdateStaysSingle

LEMMA AlwaysCallsOK ==
  ASSUME Serialized
  PROVE  Spec => [](VoiceSafe /\ CallsOK)
<1>1. VoiceSafe /\ (~overlapped => Agree) /\ Single => VoiceSafe /\ CallsOK
  BY DEF CallsOK, Single
<1>2. Spec => []Single
  BY SingleInit, SingleStep, AlwaysSafe, PTL DEF Spec
<1> QED
  BY <1>1, <1>2, AlwaysAgrees, PTL

-----------------------------------------------------------------------------
(* An active call is marked, with the three called one at a time.            *)

\* Something stands for the call: RouteStream's mark, call screening, or a close that failed.
Marked == in_call \/ screened \/ "close" \in palErrors

\* No session is active, and nobody is starting one.
NothingStarts ==
  /\ ~IsAnyCallActive
  /\ \A t \in Callers : pc[t] \notin UpdatePoints

\* StopCall has taken the mark away, and goes through the sessions.
Ending ==
  /\ "mode" \in Callers /\ pc["mode"] \in {"calls"} \cup StopPoints
  /\ \A i \in Sessions : new_[i] = "INACTIVE" /\ (IsCallActive(i) => idx["mode"] <= i)

CallsMarked == Marked \/ NothingStarts \/ Ending

LEMMA UpdateStaysMarked ==
  ASSUME Marked, NEW t \in Callers, UpdateCalls(t)
  PROVE  Marked'
<1>1. CASE VoiceStarts(t)
  BY <1>1 DEF VoiceStarts, Marked, callVars
<1>2. CASE VoiceStopCloses(t)
  BY <1>2 DEF VoiceStopCloses, Marked, callVars
<1> QED
  BY <1>1, <1>2 DEF UpdateCalls, CallsLook, VoiceOpenFails, VoiceOpen, VoiceStartFails,
     VoiceStartForgets, MicMuteLook, MicMuteReread, MicMuteApply, VoiceStopNone, VoiceStop,
     VoiceStopForgets, Marked, callVars, histVars

\* Only StopCall takes the mark away.
LEMMA EntryStaysMarked ==
  ASSUME Marked, EntryStep, ~StopCall,
         SetMode \/ RouteStream \/ VoiceSetParameters \/ \E t \in Callers : VoiceSetDevice(t)
  PROVE  Marked'
<1> USE DEF Marked, callVars, histVars
<1>a. palErrors \subseteq palErrors'
  BY DEF EntryStep
<1>1. CASE SetMode
  BY <1>1 DEF SetMode, SwitchCallScreen, RecordMode, StartCallScreen
<1>2. CASE RouteStream
  BY <1>2 DEF RouteStream, RouteNone, RouteExit, RouteIds, RouteStartsCalls, MarkInCall,
     RouteNothing, RouteSwitches
<1>3. CASE VoiceSetParameters
  BY <1>a, <1>3 DEF VoiceSetParameters, UpdateCallState, SetDeviceMutes, SetHac, SetTtyMode
<1>4. ASSUME NEW t \in Callers, VoiceSetDevice(t) PROVE Marked'
  BY <1>a, <1>4 DEF VoiceSetDevice
<1> QED
  BY <1>1, <1>2, <1>3, <1>4

\* StopCall asks every session to end, and begins with the first.
LEMMA StopBegins ==
  ASSUME TypeOK, AtFirst, StopCall
  PROVE  Ending'
<1>1. "mode" \in Callers /\ pc'["mode"] = "calls" /\ idx'["mode"] = 1
  BY DEF StopCall, MayEnter, At, Goto, TypeOK, AtFirst, Resting
<1>2. \A i \in Sessions : new_'[i] = "INACTIVE" /\ 1 <= i
  BY DEF StopCall, Sessions
<1> QED
  BY <1>1, <1>2 DEF Ending

\* While one of the three is inside its handler, none of them enters, and nobody else goes on.
LEMMA InsideAlone ==
  ASSUME Serialized, VoiceSafe, Alone, NEW t \in Callers \ {"mute"}, pc[t] # "idle",
         SetMode \/ RouteStream \/ VoiceSetParameters \/ \E u \in Callers : VoiceSetDevice(u)
  PROVE  VoiceSetDevice(t) \/ (RouteStream /\ t = "route" /\ pc[t] \in {"exit", "waitLock"})
<1>1. \A u \in Callers \ {t} : pc[u] \in MutePoints /\ (u # "mute" => pc[u] = "idle")
  BY OthersIdle DEF VoiceSafe
<1>2. \A u \in Callers \ {"mute"} : ~MayEnter(u)
  BY DEF MayEnter, At
<1>3. ~SetMode /\ ~VoiceSetParameters
  BY <1>2 DEF SetMode, SwitchCallScreen, RecordMode, StopCall, StartCallScreen,
     VoiceSetParameters, UpdateCallState, SetDeviceMutes, SetHac, SetTtyMode, MayEnter, At
<1>4. ASSUME NEW u \in Callers, VoiceSetDevice(u) PROVE u = t
  BY <1>1, <1>4 DEF VoiceSetDevice, At, MutePoints
<1>5. CASE RouteStream
  <2>1. RouteExit \/ RouteStartsCalls \/ RouteNothing \/ RouteSwitches
    BY <1>2, <1>5 DEF RouteStream, RouteNone, RouteIds, MayEnter, At
  <2>2. "route" \in Callers /\ pc["route"] \in {"exit", "waitLock"}
    BY <2>1 DEF RouteExit, RouteStartsCalls, RouteNothing, RouteSwitches, RouteLocks, At
  <2>3. t = "route"
    BY <1>1, <2>2 DEF MutePoints
  <2> QED
    BY <1>5, <2>2, <2>3
<1> QED
  BY <1>3, <1>4, <1>5

LEMMA EntryKeepsMarked ==
  ASSUME Serialized, VoiceSafe, CallsOK, AtFirst, CallsMarked, EntryStep,
         SetMode \/ RouteStream \/ VoiceSetParameters \/ \E t \in Callers : VoiceSetDevice(t)
  PROVE  CallsMarked'
<1>a. TypeOK /\ MuteAside /\ Alone
  BY DEF VoiceSafe, CallsOK, Single
<1>1. CASE StopCall
  BY <1>1, <1>a, StopBegins DEF CallsMarked
<1>2. CASE Marked /\ ~StopCall
  BY <1>2, EntryStaysMarked DEF CallsMarked
<1>3. CASE NothingStarts /\ ~Marked
  <2>0. ~in_call /\ UNCHANGED current_
    BY <1>3 DEF Marked, EntryStep, callState
  <2>1. CASE StartCallScreen \/ RouteStartsCalls
    BY <2>0, <2>1 DEF StartCallScreen, RouteStartsCalls, MarkInCall, CallsMarked, Marked
  <2>2. \A t \in Callers : pc'[t] \notin UpdatePoints
        \/ StartCallScreen \/ RouteStartsCalls \/ StopCall
    <3>0. {"idle", "exit", "waitLock", "setDevice", "setFirst"} \cap UpdatePoints = {}
      BY DEF UpdatePoints, StartPoints, StopPoints
    <3>1. ASSUME NEW t \in Callers, NEW p, p \notin UpdatePoints, Goto(t, p)
          PROVE  \A u \in Callers : pc'[u] \notin UpdatePoints
      BY <1>3, <1>a, <3>1 DEF Goto, TypeOK, NothingStarts
    <3>2. ASSUME NEW t \in Callers, Finish(t)
          PROVE  \A u \in Callers : pc'[u] \notin UpdatePoints
      BY <1>3, <1>a, <3>0, <3>2 DEF Finish, TypeOK, NothingStarts
    <3>3. ASSUME NEW t \in Callers, NextSession(t, "setDevice")
          PROVE  \A u \in Callers : pc'[u] \notin UpdatePoints
      BY <1>3, <1>a, <3>0, <3>2, <3>3 DEF NextSession, TypeOK, NothingStarts
    <3>4. UNCHANGED pc => \A u \in Callers : pc'[u] \notin UpdatePoints
      BY <1>3 DEF NothingStarts
    <3>5. CASE SetMode
      BY <3>0, <3>1, <3>4, <3>5 DEF SetMode, SwitchCallScreen, RecordMode, threadVars, MayEnter, At
    <3>6. CASE RouteStream
      BY <3>0, <3>1, <3>2, <3>6 DEF RouteStream, RouteNone, RouteExit, RouteIds, RouteNothing,
         RouteSwitches, SwitchPoint, RouteLocks, MayEnter, At
    <3>7. CASE VoiceSetParameters
      <4>1. \A i \in Sessions : ~CallsNeedUpdate(i)
        BY <1>3, <2>0 DEF CallsNeedUpdate, NothingStarts, IsAnyCallActive
      <4>2. UNCHANGED pc
        BY <3>7, <4>1 DEF VoiceSetParameters, UpdateCallState, SetDeviceMutes, SetHac, SetTtyMode,
           threadVars
      <4> QED
        BY <3>4, <4>2
    <3>8. ASSUME NEW t \in Callers, VoiceSetDevice(t)
          PROVE  \A u \in Callers : pc'[u] \notin UpdatePoints
      BY <3>2, <3>3, <3>8 DEF VoiceSetDevice
    <3> QED
      BY <3>5, <3>6, <3>7, <3>8
  <2>3. ~IsAnyCallActive'
    BY <1>3, <2>0 DEF NothingStarts, IsAnyCallActive, IsCallActive
  <2> QED
    BY <1>1, <2>1, <2>2, <2>3 DEF CallsMarked, NothingStarts
<1>4. CASE Ending /\ ~StopCall
  <2>1. "mode" \in Callers \ {"mute"} /\ pc["mode"] \in {"calls"} \cup StopPoints
        /\ pc["mode"] \notin {"idle", "setDevice", "setFirst"}
    BY <1>4 DEF Ending, StopPoints
  <2>2. VoiceSetDevice("mode")
    BY <1>a, <2>1, InsideAlone
  <2> QED
    BY <2>1, <2>2 DEF VoiceSetDevice, At
<1> QED
  BY <1>1, <1>2, <1>3, <1>4 DEF CallsMarked

\* From a session that has ended, or was never active, to the next; after the last, none is
\* active.
LEMMA EndingGoesOn ==
  ASSUME TypeOK, MuteAside, Alone, Ending, NextSession("mode", "calls"), UNCHANGED new_,
         \A i \in Sessions : IsCallActive(i)' => IsCallActive(i) /\ i # idx["mode"]
  PROVE  NothingStarts' \/ Ending'
<1>1. /\ "mode" \in Callers \ {"mute"} /\ pc["mode"] # "idle" /\ idx["mode"] \in Sessions
      /\ \A u \in Callers \ {"mode"} : pc[u] \in MutePoints
  BY OthersIdle DEF Ending, TypeOK, StopPoints
<1>2. \A i \in Sessions : IsCallActive(i)' => idx["mode"] + 1 <= i
  BY <1>1 DEF Ending, Sessions
<1>3. CASE idx["mode"] < MaxVoiceSessions
  <2>1. pc'["mode"] = "calls" /\ idx'["mode"] = idx["mode"] + 1
    BY <1>1, <1>3 DEF NextSession, TypeOK
  <2> QED
    BY <1>1, <1>2, <2>1 DEF Ending
<1>4. CASE ~(idx["mode"] < MaxVoiceSessions)
  <2>1. \A i \in Sessions : ~IsCallActive(i)'
    BY <1>1, <1>2, <1>4, SessionAssumption DEF Sessions
  <2>2. pc' = [pc EXCEPT !["mode"] = "idle"]
    BY <1>4 DEF NextSession, Finish
  <2>3. \A u \in Callers : pc'[u] \in MutePoints
    BY <1>1, <2>2 DEF TypeOK, MutePoints
  <2> QED
    BY <2>1, <2>3, MuteNotBusy DEF NothingStarts, IsAnyCallActive
<1> QED
  BY <1>3, <1>4

LEMMA EndingStays ==
  ASSUME TypeOK, Ending, UNCHANGED <<current_, new_>>, pc'["mode"] \in {"calls"} \cup StopPoints,
         idx'["mode"] = idx["mode"]
  PROVE  Ending'
BY DEF Ending, IsCallActive

LEMMA UpdateKeepsMarked ==
  ASSUME VoiceSafe, CallsOK, CallsMarked, NEW t \in Callers, UpdateCalls(t)
  PROVE  CallsMarked'
<1>a. TypeOK /\ MuteAside /\ Alone /\ idx[t] \in Sessions
  BY DEF VoiceSafe, CallsOK, Single, TypeOK
<1>1. pc[t] \in UpdatePoints
  BY <1>a, UpdateMoves
<1>2. CASE Marked
  BY <1>2, UpdateStaysMarked DEF CallsMarked
<1>3. CASE Ending /\ ~Marked
  <2>1. \A u \in Callers \ {"mode"} : pc[u] \in MutePoints
    BY <1>3, <1>a, OthersIdle DEF Ending, StopPoints
  <2>2. t = "mode" /\ pc["mode"] \in {"calls"} \cup StopPoints
    BY <1>1, <1>3, <2>1, MuteNotBusy DEF Ending
  <2>3. PICK k \in Sessions : k = idx["mode"]
    BY <1>a, <2>2
  <2>4. CASE CallsLook(t)
    <3>1. UNCHANGED <<new_, current_>>
      BY <2>4 DEF CallsLook, sessionVars
    <3>2. new_[k] = "INACTIVE" /\ current_[k] \in States
      BY <1>3, <1>a DEF Ending, TypeOK
    <3>3. CASE current_[k] = "ACTIVE"
      <4>1. Goto(t, "stop")
        BY <2>2, <2>3, <2>4, <3>2, <3>3 DEF CallsLook
      <4>2. pc'["mode"] \in {"calls"} \cup StopPoints /\ idx'["mode"] = idx["mode"]
        BY <1>a, <2>2, <4>1 DEF Goto, TypeOK, StopPoints
      <4> QED
        BY <1>3, <1>a, <3>1, <4>2, EndingStays DEF CallsMarked
    <3>4. CASE current_[k] # "ACTIVE"
      <4>1. NextSession("mode", "calls") /\ ~IsCallActive(k)
        BY <2>2, <2>3, <2>4, <3>2, <3>4 DEF CallsLook, States, IsCallActive
      <4>2. \A i \in Sessions : IsCallActive(i)' => IsCallActive(i) /\ i # idx["mode"]
        BY <2>3, <3>1, <4>1 DEF IsCallActive
      <4> QED
        BY <1>3, <1>a, <3>1, <4>1, <4>2, EndingGoesOn DEF CallsMarked
    <3> QED
      BY <3>3, <3>4
  <2>5. CASE VoiceStop(t)
    <3>1. UNCHANGED <<new_, current_>> /\ Goto(t, "close")
      BY <2>5 DEF VoiceStop, sessionVars
    <3>2. pc'["mode"] \in {"calls"} \cup StopPoints /\ idx'["mode"] = idx["mode"]
      BY <1>a, <2>2, <3>1 DEF Goto, TypeOK, StopPoints
    <3> QED
      BY <1>3, <1>a, <3>1, <3>2, EndingStays DEF CallsMarked
  <2>6. CASE VoiceStopCloses(t)
    <3>1. UNCHANGED <<new_, current_, idx>> /\ pc' = [pc EXCEPT ![t] = "stopClosed"]
      BY <2>6 DEF VoiceStopCloses, sessionVars
    <3>2. pc'["mode"] \in {"calls"} \cup StopPoints /\ idx'["mode"] = idx["mode"]
      BY <1>a, <2>2, <3>1 DEF TypeOK, StopPoints
    <3> QED
      BY <1>3, <1>a, <3>1, <3>2, EndingStays DEF CallsMarked
  <2>7. CASE VoiceStopNone(t) \/ VoiceStopForgets(t)
    <3>1. UNCHANGED new_ /\ NextSession("mode", "calls")
      BY <2>2, <2>7 DEF VoiceStopNone, VoiceStopForgets, EndStep
    <3>2. current_' = [current_ EXCEPT ![k] = new_[k]]
      <4>1. CASE VoiceStopNone(t)
        BY <2>2, <2>3, <4>1 DEF VoiceStopNone
      <4>2. CASE VoiceStopForgets(t)
        <5>1. pc["mode"] = "stopClosed" /\ pc["mode"] \in Busy
          BY <2>2, <4>2 DEF VoiceStopForgets, At, Busy, StopPoints
        <5>2. ~failed["mode"]
          BY <1>3, <2>2, <5>1 DEF CallsOK, Agree, CallerOK, StreamOK, Marked
        <5> QED
          BY <2>2, <2>3, <4>2, <5>2 DEF VoiceStopForgets, EndStep
      <4> QED
        BY <2>7, <4>1, <4>2
    <3>3. \A i \in Sessions : IsCallActive(i)' => IsCallActive(i) /\ i # idx["mode"]
      BY <1>3, <1>a, <2>3, <3>2 DEF IsCallActive, Ending, TypeOK
    <3> QED
      BY <1>3, <1>a, <3>1, <3>3, EndingGoesOn DEF CallsMarked
  <2> QED
    BY <2>2, <2>4, <2>5, <2>6, <2>7 DEF UpdateCalls, VoiceOpenFails, VoiceOpen, VoiceStartFails,
       VoiceStartForgets, VoiceStarts, MicMuteLook, MicMuteReread, MicMuteApply, At, StopPoints
<1> QED
  BY <1>1, <1>2, <1>3 DEF CallsMarked, NothingStarts

LEMMA MuteFrame ==
  ASSUME MuteLook \/ MuteSession \/ \E b \in BOOLEAN : SetMicMute(b)
  PROVE  UNCHANGED <<mode_, in_call, deviceVars, palDevice, screened>>
BY DEF MuteLook, MuteSession, SetMicMute, histVars, palVars

LEMMA MuteKeepsMarked ==
  ASSUME VoiceSafe, CallsMarked, MuteLook \/ MuteSession \/ \E b \in BOOLEAN : SetMicMute(b)
  PROVE  CallsMarked'
<1>1. MuteStep
  BY MuteSteps DEF VoiceSafe
<1>2. UNCHANGED <<in_call, screened, palErrors, current_, new_>>
  BY <1>1, MuteFrame DEF MuteStep, callState
<1>3. /\ pc'["mute"] \notin UpdatePoints /\ "mute" # "mode"
      /\ \A u \in Callers \ {"mute"} : pc'[u] = pc[u] /\ idx'[u] = idx[u]
  BY <1>1, MuteNotBusy DEF MuteStep, Moves
<1> QED
  BY <1>2, <1>3 DEF CallsMarked, Marked, NothingStarts, Ending, IsAnyCallActive, IsCallActive

LEMMA MarkedStep ==
  ASSUME Serialized
  PROVE  VoiceSafe /\ CallsOK /\ AtFirst /\ CallsMarked /\ [Next]_vars => CallsMarked'
<1>1. ASSUME CallsMarked, UNCHANGED vars PROVE CallsMarked'
  <2>1. UNCHANGED <<in_call, screened, palErrors, current_, new_, pc, idx>>
    BY <1>1 DEF vars, callVars, histVars, sessionVars, threadVars
  <2> QED
    BY <1>1, <2>1 DEF CallsMarked, Marked, NothingStarts, Ending, IsAnyCallActive, IsCallActive
<1>2. ASSUME VoiceSafe, CallsOK, AtFirst, CallsMarked,
             SetMode \/ RouteStream \/ VoiceSetParameters \/ \E t \in Callers : VoiceSetDevice(t)
      PROVE  CallsMarked'
  <2>1. EntryStep
    BY <1>2, SetModeStep, RouteStep, ParamStep, SetDeviceStep DEF VoiceSafe, MuteAside, MutePoints
  <2> QED
    BY <1>2, <2>1, EntryKeepsMarked
<1> QED
  BY <1>1, <1>2, UpdateKeepsMarked, MuteKeepsMarked DEF Next

\* With SetMode, RouteStream and VoiceSetParameters called one at a time, for any number of
\* sessions and any failures of PAL: a call that runs between handlers was marked by
\* RouteStream, so that leaving the call modes ends it, with the exceptions the property names
\* (AudioVoice.cpp:576-580, 715-725).
THEOREM ActiveIsMarked ==
  ASSUME Serialized
  PROVE  Spec => []ActiveNeedsInCall
<1>1. Init => CallsMarked
  BY DEF Init, CallsMarked, NothingStarts, IsAnyCallActive, IsCallActive, UpdatePoints,
     StartPoints, StopPoints
<1>2. CallsMarked => ActiveNeedsInCall
  BY DEF CallsMarked, Marked, NothingStarts, Ending, ActiveNeedsInCall, Quiet, UpdatePoints
<1> QED
  BY <1>1, <1>2, MarkedStep, AlwaysCallsOK, AlwaysAtFirst, PTL DEF Spec

-----------------------------------------------------------------------------
(* The device switch of RouteStream, with the three called one at a time.    *)

SwitchPoints == {"setDevice", "setFirst"}

\* The sessions the loop has passed are on the call's device.
SwitchedSoFar ==
  "route" \in Callers =>
    /\ pc["route"] # "setFirst"
    /\ pc["route"] = "setDevice" /\ "device" \notin palErrors =>
         \A i \in Sessions : i < idx["route"] /\ pal_voice_handle[i] # Null =>
           palDevice[pal_voice_handle[i]] = VoiceDevice

\* The switch of one session leaves the others that were on the device there.
LEMMA SetDevicesKeep ==
  ASSUME TypeOK, NEW S \in SUBSET Streams, SetDevices(S), "device" \notin palErrors'
  PROVE  /\ \A s \in S : pal[s] # "closed" => palDevice'[s] = VoiceDevice
         /\ \A s \in Streams : palDevice[s] = VoiceDevice => palDevice'[s] = VoiceDevice
BY DEF SetDevices, SetDevicesTo

\* RouteStream gets to its switch from the lock only, with the first session ahead of it.
LEMMA SwitchBegins ==
  ASSUME VoiceSafe, AtFirst, Next, "route" \in Callers, pc["route"] \notin SwitchPoints
  PROVE  \/ pc'["route"] \notin SwitchPoints
         \/ pc'["route"] = "setDevice" /\ idx'["route"] = 1
<1>a. TypeOK /\ MuteAside
  BY DEF VoiceSafe
<1> DEFINE Outside == pc'["route"] \notin SwitchPoints
<1>1. UNCHANGED pc => Outside
  OBVIOUS
<1>2. ASSUME NEW t \in Callers, NEW p, Goto(t, p), t # "route" \/ p \notin SwitchPoints
      PROVE  Outside
  BY <1>a, <1>2 DEF Goto, TypeOK
<1>3. ASSUME NEW t \in Callers, Finish(t) PROVE Outside
  BY <1>a, <1>3 DEF Finish, TypeOK, SwitchPoints
<1>4. ASSUME NEW t \in Callers, NEW p, NextSession(t, p), t # "route" PROVE Outside
  BY <1>a, <1>4 DEF NextSession, Finish, TypeOK
<1>5. CASE SetMode
  BY <1>1, <1>2, <1>5 DEF SetMode, SwitchCallScreen, RecordMode, StopCall, StartCallScreen,
     threadVars, MayEnter, At
<1>6. CASE RouteStream
  <2>1. CASE RouteSwitches
    BY <1>a, <2>1 DEF RouteSwitches, RouteLocks, At, SwitchPoint, Goto, TypeOK, AtFirst, Resting
  <2>2. CASE RouteNone \/ (\E d \in Devices : RouteIds(d)) \/ RouteStartsCalls
    BY <1>2, <2>2 DEF RouteNone, RouteIds, RouteStartsCalls, RouteLocks, MayEnter, At, SwitchPoints
  <2>3. CASE RouteExit \/ RouteNothing
    BY <1>3, <2>3 DEF RouteExit, RouteNothing, RouteLocks, At
  <2> QED
    BY <1>6, <2>1, <2>2, <2>3 DEF RouteStream
<1>7. CASE VoiceSetParameters
  BY <1>1, <1>2, <1>7 DEF VoiceSetParameters, UpdateCallState, SetDeviceMutes, SetHac,
     SetTtyMode, threadVars, MayEnter, At
<1>8. ASSUME NEW t \in Callers, VoiceSetDevice(t) PROVE Outside
  BY <1>3, <1>4, <1>8 DEF VoiceSetDevice, At, SwitchPoints
<1>9. ASSUME NEW t \in Callers, UpdateCalls(t) PROVE Outside
  BY <1>a, <1>9, UpdateMoves DEF Moves, UpdatePoints, StartPoints, StopPoints, SwitchPoints
<1>10. ASSUME MuteStep PROVE Outside
  BY <1>10 DEF MuteStep, Moves
<1> QED
  BY <1>a, <1>5, <1>6, <1>7, <1>8, <1>9, <1>10, MuteSteps DEF Next

\* While RouteStream switches, only SetMicMute comes in between.
LEMMA SwitchAlone ==
  ASSUME Serialized, VoiceSafe, CallsOK, Next, "route" \in Callers, pc["route"] = "setDevice"
  PROVE  \/ VoiceSetDevice("route")
         \/ MuteLook \/ MuteSession \/ \E b \in BOOLEAN : SetMicMute(b)
<1>1. "route" \in Callers \ {"mute"} /\ Alone /\ pc["route"] # "idle"
  BY DEF CallsOK, Single
<1>2. \A u \in Callers \ {"route"} : pc[u] \in MutePoints
  BY <1>1, OthersIdle DEF VoiceSafe
<1>3. \A t \in Callers : ~UpdateCalls(t)
  BY <1>2, UpdateMoves, MuteNotBusy DEF VoiceSafe, UpdatePoints, StartPoints, StopPoints
<1>4. CASE SetMode \/ RouteStream \/ VoiceSetParameters \/ \E t \in Callers : VoiceSetDevice(t)
  BY <1>1, <1>4, InsideAlone
<1> QED
  BY <1>3, <1>4 DEF Next

\* Nobody closes a stream meanwhile, so every handle's stream is open.
LEMMA SwitchFindsOpen ==
  ASSUME VoiceSafe, CallsOK, "route" \in Callers, pc["route"] = "setDevice", NEW i \in Sessions
  PROVE  pal_voice_handle[i] = Null \/ pal[pal_voice_handle[i]] # "closed"
<1>1. \A u \in Callers : pc[u] \notin ClosedPoints
  BY OthersIdle DEF VoiceSafe, CallsOK, Single, MutePoints, ClosedPoints
<1> QED
  BY <1>1 DEF CallsOK, Agree, HandleOK, Leaving

\* VoiceSetDevice adds one session to those on the call's device.
LEMMA OneMoreSwitched ==
  ASSUME VoiceSafe, CallsOK, SwitchedSoFar, "route" \in Callers, pc["route"] = "setDevice",
         VoiceSetDevice("route"), "device" \notin palErrors'
  PROVE  /\ VoiceDevice' = VoiceDevice /\ UNCHANGED pal_voice_handle
         /\ \A i \in Sessions : i <= idx["route"] /\ pal_voice_handle[i] # Null =>
              palDevice'[pal_voice_handle[i]] = VoiceDevice
<1> DEFINE k == idx["route"]
           S == {pal_voice_handle[k]} \ {Null}
<1>1. TypeOK /\ k \in Sessions
  BY DEF VoiceSafe, TypeOK
<1>2. S \in SUBSET Streams /\ SetDevices(S)
  BY <1>1 DEF VoiceSetDevice, TypeOK
<1>3. VoiceDevice' = VoiceDevice /\ UNCHANGED pal_voice_handle
  BY DEF VoiceSetDevice, callVars, deviceVars, sessionVars, VoiceDevice
<1>4. "device" \notin palErrors
  BY <1>2 DEF SetDevices, SetDevicesTo
<1>5. \A s \in S : pal[s] # "closed"
  BY <1>1, SwitchFindsOpen
<1> HIDE DEF S
<1>6. /\ \A s \in S : palDevice'[s] = VoiceDevice
      /\ \A s \in Streams : palDevice[s] = VoiceDevice => palDevice'[s] = VoiceDevice
  BY <1>1, <1>2, <1>5, SetDevicesKeep
<1>7. ASSUME NEW i \in Sessions, i <= k, pal_voice_handle[i] # Null
      PROVE  palDevice'[pal_voice_handle[i]] = VoiceDevice
  <2>1. pal_voice_handle[i] \in Streams
    BY <1>1, <1>7 DEF TypeOK
  <2>2. CASE i = k
    BY <1>6, <1>7, <2>2 DEF S
  <2>3. CASE i # k
    <3>1. i < k
      BY <1>1, <1>7, <2>3 DEF Sessions
    <3>2. palDevice[pal_voice_handle[i]] = VoiceDevice
      BY <1>4, <1>7, <3>1 DEF SwitchedSoFar
    <3> QED
      BY <1>6, <2>1, <3>2
  <2> QED
    BY <2>2, <2>3
<1> QED
  BY <1>3, <1>7

LEMMA SwitchedStep ==
  ASSUME Serialized
  PROVE  VoiceSafe /\ CallsOK /\ AtFirst /\ SwitchedSoFar /\ [Next]_vars => SwitchedSoFar'
<1> SUFFICES ASSUME VoiceSafe, CallsOK, AtFirst, SwitchedSoFar, [Next]_vars, "route" \in Callers
             PROVE  SwitchedSoFar'
  BY DEF SwitchedSoFar
<1>a. TypeOK /\ idx["route"] \in Sessions
  BY DEF VoiceSafe, TypeOK
<1>1. CASE UNCHANGED vars
  <2>1. UNCHANGED <<pc, idx, palErrors, pal_voice_handle, palDevice, mode_,
                    pal_voice_rx_device_id_, tty_mode>>
    BY <1>1 DEF vars, threadVars, histVars, sessionVars, palVars, callVars, deviceVars
  <2> QED
    BY <2>1 DEF SwitchedSoFar, VoiceDevice
<1>2. CASE Next /\ pc["route"] # "setDevice"
  <2>1. pc["route"] \notin SwitchPoints
    BY <1>2 DEF SwitchedSoFar, SwitchPoints
  <2>2. \A i \in Sessions : ~(i < 1)
    BY DEF Sessions
  <2>3. CASE pc'["route"] \notin SwitchPoints
    BY <2>3 DEF SwitchedSoFar, SwitchPoints
  <2>4. CASE pc'["route"] = "setDevice" /\ idx'["route"] = 1
    BY <2>2, <2>4 DEF SwitchedSoFar
  <2> QED
    BY <1>2, <2>1, <2>3, <2>4, SwitchBegins
<1>3. CASE Next /\ pc["route"] = "setDevice"
  <2>1. CASE VoiceSetDevice("route")
    <3>1. NextSession("route", "setDevice")
      BY <1>3, <2>1 DEF VoiceSetDevice, At
    <3>2. CASE idx["route"] < MaxVoiceSessions
      <4>1. pc'["route"] = "setDevice" /\ idx'["route"] = idx["route"] + 1
        BY <1>a, <3>1, <3>2 DEF NextSession, TypeOK
      <4>2. \A i \in Sessions : i < idx["route"] + 1 => i <= idx["route"]
        BY <1>a DEF Sessions
      <4> QED
        BY <1>3, <2>1, <4>1, <4>2, OneMoreSwitched DEF SwitchedSoFar
    <3>3. CASE ~(idx["route"] < MaxVoiceSessions)
      <4>1. pc'["route"] = "idle"
        BY <1>a, <3>1, <3>3 DEF NextSession, Finish, TypeOK
      <4> QED
        BY <4>1 DEF SwitchedSoFar
    <3> QED
      BY <3>2, <3>3
  <2>2. CASE MuteLook \/ MuteSession \/ \E b \in BOOLEAN : SetMicMute(b)
    <3>1. /\ pc'["route"] = pc["route"] /\ idx'["route"] = idx["route"]
          /\ UNCHANGED <<palErrors, pal_voice_handle>>
      BY <1>a, <2>2, MuteSteps DEF MuteStep, Moves, callState
    <3>2. UNCHANGED <<mode_, pal_voice_rx_device_id_, tty_mode, palDevice>>
      BY <2>2, MuteFrame DEF deviceVars
    <3> QED
      BY <3>1, <3>2 DEF SwitchedSoFar, VoiceDevice
  <2> QED
    BY <1>3, <2>1, <2>2, SwitchAlone
<1> QED
  BY <1>1, <1>2, <1>3

\* With the three called one at a time: when RouteStream has switched an active call, every
\* session's stream is on the call's device, for any number of sessions and devices, unless
\* PAL refused one (AudioVoice.cpp:581-597).
THEOREM AllAreRouted ==
  ASSUME Serialized
  PROVE  Spec => RoutedTogether
<1>1. Init => SwitchedSoFar
  BY DEF Init, SwitchedSoFar
<1>2. ASSUME VoiceSafe, CallsOK, SwitchedSoFar, [Next]_vars, voice_mutex_ = "route",
             voice_mutex_' = NoThread, VoiceSetDevice("route"), "route" \in Callers,
             "device" \notin palErrors', NEW i \in Sessions, pal_voice_handle[i] # Null
      PROVE  palDevice'[pal_voice_handle[i]] = VoiceDevice
  <2>1. pc["route"] = "setDevice"
    BY <1>2 DEF VoiceSetDevice, At, SwitchedSoFar
  <2>2. ~(idx["route"] < MaxVoiceSessions)
    BY <1>2, <2>1, NameAssumption DEF VoiceSetDevice, At, NextSession, Stay
  <2>3. i <= idx["route"]
    BY <1>2, <2>2, SessionAssumption DEF Sessions, VoiceSafe, TypeOK
  <2> QED
    BY <1>2, <2>1, <2>3, OneMoreSwitched
<1> DEFINE Step == voice_mutex_ = "route" /\ voice_mutex_' = NoThread /\ VoiceSetDevice("route")
             => \/ "device" \in palErrors'
                \/ \A i \in Sessions : pal_voice_handle[i] # Null =>
                     palDevice'[pal_voice_handle[i]] = VoiceDevice
<1>3. VoiceSafe /\ CallsOK /\ SwitchedSoFar /\ [Next]_vars => [Step]_vars
  <2>1. CASE "route" \in Callers
    BY <1>2, <2>1
  <2>2. CASE "route" \notin Callers
    BY <2>2 DEF VoiceSetDevice, At
  <2> QED
    BY <2>1, <2>2
<1>4. Spec => []SwitchedSoFar
  BY <1>1, SwitchedStep, AlwaysCallsOK, AlwaysAtFirst, PTL DEF Spec
<1> QED
  BY <1>3, <1>4, AlwaysCallsOK, PTL DEF Spec, RoutedTogether

-----------------------------------------------------------------------------
(* The callers, one at a time, implement CallLifecycle.                      *)

\* Between pal_stream_open and the end of VoiceStart.
InStart == InMic \cup {"opened"}

LifePoints == InStart \cup ClosedPoints

\* The stream that is open and not started is the one of the session being started, and the
\* handle of a closed one is not given again before it is forgotten.
LifeOK ==
  /\ \A t \in Callers :
       /\ pc[t] = "opened" => pal[pal_voice_handle[idx[t]]] = "open"
       /\ pc[t] \in ClosedPoints => pal[pal_voice_handle[idx[t]]] = "closed"
  /\ \A i \in Sessions : pal_voice_handle[i] # Null /\ pal[pal_voice_handle[i]] = "open" =>
       \E t \in Callers : pc[t] = "opened" /\ idx[t] = i

Alive == VoiceSafe /\ CallsOK /\ LifeOK

AbstractStep == Calls!Next \/ UNCHANGED <<Asked, ActiveCalls, Stages>>

LEMMA LifeInBusy == InStart \subseteq Busy /\ LifePoints \subseteq Busy
BY DEF InStart, InMic, LifePoints, ClosedPoints, Busy, StartPoints, StopPoints

LEMMA StartedBy ==
  ASSUME NEW i
  PROVE  BeingStarted(i) <=> \E t \in Callers : pc[t] \in InStart /\ idx[t] = i
BY DEF BeingStarted, InStart, InMic

\* With nobody in VoiceStart, no session is on its way.
LEMMA NobodyStarts ==
  ASSUME LifeOK, \A t \in Callers : pc[t] \notin InStart
  PROVE  Calls!Settled
<1>1. \A i \in Sessions : ~BeingStarted(i)
  BY StartedBy
<1>2. \A i \in Sessions : pal_voice_handle[i] = Null \/ pal[pal_voice_handle[i]] # "open"
  BY DEF LifeOK, InStart
<1>3. ASSUME NEW i \in Sessions
      PROVE  Stages[i] # "opened" /\ (Stages[i] = "running" => i \in ActiveCalls)
  BY <1>1, <1>2 DEF Stages, StageOf, ActiveCalls
<1> QED
  BY <1>3 DEF Calls!Settled

\* The same streams, states and starts are the same stages.
LEMMA SameStages ==
  ASSUME UNCHANGED callState, \A i \in Sessions : BeingStarted(i)' <=> BeingStarted(i)
  PROVE  UNCHANGED <<ActiveCalls, Stages>>
<1> USE DEF callState
<1>1. UNCHANGED ActiveCalls
  BY DEF ActiveCalls, IsCallActive
<1>2. ASSUME NEW i \in Sessions PROVE StageOf(i)' = StageOf(i)
  BY DEF StageOf, IsCallActive
<1> QED
  BY <1>1, <1>2 DEF Stages

\* A step that leaves the streams, and the callers that hold one, alone.
LEMMA LifeFrame ==
  ASSUME LifeOK, UNCHANGED callState,
         \A t \in Callers : \/ pc'[t] = pc[t] /\ idx'[t] = idx[t]
                            \/ {pc[t], pc'[t]} \cap LifePoints = {}
  PROVE  LifeOK' /\ UNCHANGED <<ActiveCalls, Stages>>
<1>1. \A t \in Callers : pc[t] \in InStart \/ pc'[t] \in InStart =>
                           pc'[t] = pc[t] /\ idx'[t] = idx[t]
  BY DEF LifePoints
<1>2. \A i \in Sessions : BeingStarted(i)' <=> BeingStarted(i)
  BY <1>1 DEF BeingStarted, InStart, InMic
<1>3. \A t \in Callers :
        pc[t] \in {"opened"} \cup ClosedPoints \/ pc'[t] \in {"opened"} \cup ClosedPoints =>
          pc'[t] = pc[t] /\ idx'[t] = idx[t]
  BY DEF LifePoints, InStart
<1>4. LifeOK'
  BY <1>3 DEF LifeOK, callState
<1> QED
  BY <1>2, <1>4, SameStages

LEMMA EntryIsAsk ==
  ASSUME Serialized, Alive, EntryStep
  PROVE  LifeOK' /\ AbstractStep
<1>1. \A t \in Callers : \/ pc'[t] = pc[t] /\ idx'[t] = idx[t]
                         \/ {pc[t], pc'[t]} \cap LifePoints = {}
  <2>1. CASE UNCHANGED <<pc, idx, failed>>
    BY <2>1
  <2>2. ASSUME NEW t \in Callers, EntryMove(t)
        PROVE  /\ {pc[t], pc'[t]} \cap LifePoints = {}
               /\ \A u \in Callers \ {t} : pc'[u] = pc[u] /\ idx'[u] = idx[u]
    BY <2>2 DEF EntryMove, Moves, Entry, LifePoints, InStart, InMic, ClosedPoints
  <2> QED
    BY <2>1, <2>2 DEF EntryStep
<1>2. LifeOK' /\ UNCHANGED <<ActiveCalls, Stages>>
  BY <1>1, LifeFrame DEF EntryStep, Alive
<1>3. CASE UNCHANGED new_
  BY <1>2, <1>3 DEF AbstractStep, Asked
<1>4. CASE \E t \in Callers \ {"mute"} : MayEnter(t)
  <2>1. \A t \in Callers : pc[t] \in MutePoints
    BY <1>4, EntersAlone DEF Alive, VoiceSafe, MuteAside, MutePoints
  <2>2. Calls!Settled
    BY <2>1, NobodyStarts DEF Alive, InStart, InMic, MutePoints
  <2>3. Calls!Ask
    BY <1>2, <2>2 DEF Calls!Ask, Asked
  <2> QED
    BY <1>2, <2>3 DEF AbstractStep, Calls!Next
<1> QED
  BY <1>2, <1>3, <1>4 DEF EntryStep, Asks

LEMMA MuteIsQuiet ==
  ASSUME Alive, MuteStep
  PROVE  LifeOK' /\ AbstractStep
<1>1. \A t \in Callers : \/ pc'[t] = pc[t] /\ idx'[t] = idx[t]
                         \/ {pc[t], pc'[t]} \cap LifePoints = {}
  BY DEF MuteStep, Moves, Alive, VoiceSafe, MuteAside, MutePoints, LifePoints, InStart, InMic,
     ClosedPoints
<1>2. LifeOK' /\ UNCHANGED <<ActiveCalls, Stages>>
  BY <1>1, LifeFrame DEF MuteStep, Alive
<1> QED
  BY <1>2 DEF AbstractStep, Asked, MuteStep

\* Caller t moves at session k, and nobody else is at one.
Only(t, k) ==
  /\ k = idx[t]
  /\ pc'[t] \in Busy => idx'[t] = k
  /\ \A u \in Callers \ {t} : pc[u] \notin Busy /\ pc'[u] \notin Busy

LEMMA MovesOnly ==
  ASSUME VoiceSafe, CallsOK, NEW t \in Callers, NEW to, CallMove(t, to), NEW k, k = idx[t]
  PROVE  Only(t, k) /\ pc'[t] \in to
<1>1. /\ t \in Callers \ {"mute"} /\ pc[t] # "idle"
      /\ \A u \in Callers \ {t} : pc'[u] = pc[u]
  BY DEF CallMove, Moves, UpdatePoints, StartPoints, StopPoints
<1>2. \A u \in Callers \ {t} : pc[u] \in MutePoints
  BY <1>1, OthersIdle DEF CallsOK, Single, VoiceSafe
<1>3. MutePoints \cap Busy = {}
  BY DEF MutePoints, Busy, StartPoints, StopPoints
<1> QED
  BY <1>1, <1>2, <1>3 DEF CallMove, Moves, Only

LEMMA OnlyStarts ==
  ASSUME NEW t \in Callers, NEW k, Only(t, k)
  PROVE  \A i : /\ BeingStarted(i) <=> i = k /\ pc[t] \in InStart
                /\ BeingStarted(i)' <=> i = k /\ pc'[t] \in InStart
<1>1. \A u \in Callers \ {t} : pc[u] \notin InStart /\ pc'[u] \notin InStart
  BY LifeInBusy DEF Only
<1>2. ASSUME NEW i PROVE BeingStarted(i) <=> i = k /\ pc[t] \in InStart
  BY <1>1, StartedBy DEF Only
<1>3. pc'[t] \in InStart => idx'[t] = k
  BY LifeInBusy DEF Only
<1>4. ASSUME NEW i PROVE BeingStarted(i)' <=> i = k /\ pc'[t] \in InStart
  BY <1>1, <1>3 DEF BeingStarted, InStart, InMic
<1> QED
  BY <1>2, <1>4

LEMMA OnlySettled ==
  ASSUME LifeOK, NEW t \in Callers, NEW k, Only(t, k), pc[t] \notin InStart
  PROVE  Calls!Settled
BY LifeInBusy, NobodyStarts DEF Only

\* The streams and states of the sessions other than k stay.
Keeps(k) ==
  \A j \in Sessions \ {k} :
    /\ pal_voice_handle'[j] = pal_voice_handle[j]
    /\ pal_voice_handle[j] # Null => pal'[pal_voice_handle[j]] = pal[pal_voice_handle[j]]
    /\ current_'[j] = current_[j]

\* Only session k changes: its stage is now s.
LEMMA OneStage ==
  ASSUME NEW t \in Callers, NEW k \in Sessions, Only(t, k), Keeps(k), NEW s, StageOf(k)' = s
  PROVE  Calls!To(k, s)
<1>1. \A j \in Sessions \ {k} : StageOf(j)' = StageOf(j)
  <2> TAKE j \in Sessions \ {k}
  <2>1. ~BeingStarted(j) /\ ~BeingStarted(j)'
    BY OnlyStarts
  <2> QED
    BY <2>1 DEF StageOf, IsCallActive, Keeps
<1> QED
  BY <1>1 DEF Calls!To, Stages

LEMMA OneLife ==
  ASSUME LifeOK, NEW t \in Callers, NEW k \in Sessions, Only(t, k), Keeps(k),
         pc'[t] = "opened" => pal'[pal_voice_handle'[k]] = "open",
         pc'[t] \in ClosedPoints => pal'[pal_voice_handle'[k]] = "closed",
         pal_voice_handle'[k] # Null /\ pal'[pal_voice_handle'[k]] = "open" => pc'[t] = "opened"
  PROVE  LifeOK'
<1>1. \A u \in Callers : pc'[u] \in {"opened"} \cup ClosedPoints => u = t /\ idx'[t] = k
  BY LifeInBusy DEF Only, LifePoints, InStart
<1>2. \A u \in Callers : pc[u] = "opened" => u = t /\ idx[t] = k
  BY LifeInBusy DEF Only, InStart
<1>3. ASSUME NEW i \in Sessions, pal_voice_handle'[i] # Null, pal'[pal_voice_handle'[i]] = "open"
      PROVE  \E u \in Callers : pc'[u] = "opened" /\ idx'[u] = i
  <2>1. CASE i = k
    BY <1>1, <1>3, <2>1
  <2>2. CASE i # k
    <3>1. pal_voice_handle[i] # Null /\ pal[pal_voice_handle[i]] = "open"
      BY <1>3, <2>2 DEF Keeps
    <3> QED
      BY <1>2, <2>2, <3>1 DEF LifeOK
  <2> QED
    BY <2>1, <2>2
<1> QED
  BY <1>1, <1>3 DEF LifeOK

\* With no stream closed and not forgotten, every session has a handle of its own.
LEMMA OwnHandles ==
  ASSUME VoiceSafe, CallsOK, NEW t \in Callers, NEW k \in Sessions, Only(t, k),
         pc[t] \notin ClosedPoints
  PROVE  /\ \A j \in Sessions : pal_voice_handle[j] # Null =>
              pal_voice_handle[j] \in Streams /\ pal[pal_voice_handle[j]] # "closed"
         /\ \A j \in Sessions \ {k} :
              pal_voice_handle[j] # Null => pal_voice_handle[j] # pal_voice_handle[k]
<1>1. \A j : ~Leaving(j)
  BY BusyPoints DEF Only, Leaving
<1> QED
  BY <1>1 DEF CallsOK, Agree, HandleOK, Apart, VoiceSafe, TypeOK

LEMMA SameActive ==
  ASSUME UNCHANGED <<current_, new_>>
  PROVE  UNCHANGED <<Asked, ActiveCalls>>
BY DEF Asked, ActiveCalls, IsCallActive

LEMMA QuietCalls ==
  ASSUME Alive, NEW t \in Callers, CallsLook(t) \/ VoiceOpenFails(t) \/ VoiceStop(t)
  PROVE  LifeOK' /\ AbstractStep
<1>1. PICK to : /\ CallMove(t, to) /\ to \subseteq {"start", "stop", "close", "calls", "idle"}
                /\ UNCHANGED <<callState, new_>> /\ pc[t] \in {"calls", "start", "stop"}
  <2>1. TypeOK /\ MuteAside
    BY DEF Alive, VoiceSafe
  <2>2. CASE CallsLook(t)
    BY <2>1, <2>2, LookStep
  <2>3. CASE VoiceOpenFails(t)
    BY <2>1, <2>3, OpenFailsStep
  <2>4. CASE VoiceStop(t)
    BY <2>1, <2>4, StopStep
  <2> QED
    BY <2>2, <2>3, <2>4
<1>2. /\ {pc[t], pc'[t]} \cap LifePoints = {}
      /\ \A u \in Callers \ {t} : pc'[u] = pc[u] /\ idx'[u] = idx[u]
  BY <1>1 DEF CallMove, Moves, LifePoints, InStart, InMic, ClosedPoints
<1>3. LifeOK' /\ UNCHANGED <<ActiveCalls, Stages>>
  BY <1>1, <1>2, LifeFrame DEF Alive
<1> QED
  BY <1>1, <1>3 DEF AbstractStep, Asked

LEMMA OpenIsOpen ==
  ASSUME Alive, NEW t \in Callers, VoiceOpen(t)
  PROVE  LifeOK' /\ AbstractStep
<1> PICK k \in Sessions : k = idx[t]
  BY DEF Alive, VoiceSafe, TypeOK
<1>1. /\ UNCHANGED <<current_, new_>> /\ CallMove(t, {"opened"}) /\ pc[t] = "start"
  BY OpenStep DEF Alive, VoiceSafe
<1>2. PICK s \in Streams : Opens(t, s)
  BY OpenStep DEF Alive, VoiceSafe
<1>3. /\ Only(t, k) /\ pc'[t] = "opened" /\ pc[t] \notin InStart /\ pc[t] \notin ClosedPoints
      /\ pc[t] \in StartPoints
  BY <1>1, MovesOnly DEF Alive, InStart, InMic, ClosedPoints, StartPoints
<1>4. /\ pal_voice_handle'[k] = s /\ pal'[s] = "open" /\ s # Null
      /\ Keeps(k)
  <2>1. /\ pal[s] = "closed" /\ pal' = [pal EXCEPT ![s] = "open"]
        /\ pal_voice_handle' = [pal_voice_handle EXCEPT ![k] = s]
    BY <1>2 DEF Opens
  <2>2. ASSUME NEW j \in Sessions, pal_voice_handle[j] # Null
        PROVE  pal_voice_handle[j] \in Streams /\ pal_voice_handle[j] # s
    BY <1>3, <2>1, <2>2, OwnHandles DEF Alive
  <2> QED
    BY <1>1, <2>1, <2>2, NameAssumption DEF Alive, VoiceSafe, TypeOK, Keeps
<1>5. Calls!Settled
  BY <1>3, OnlySettled DEF Alive
<1>6. new_[k] = "ACTIVE" /\ current_[k] = "INACTIVE"
  BY <1>3 DEF Alive, CallsOK, Agree, CallerOK
<1>7. k \in Asked \ ActiveCalls
  BY <1>6 DEF Asked, ActiveCalls, IsCallActive
<1>8. Stages[k] \in {"none", "astray"}
  BY <1>5, <1>7 DEF Stages, StageOf, Calls!Settled
<1>9. Calls!To(k, "opened")
  <2>1. StageOf(k)' = "opened"
    BY <1>4 DEF StageOf
  <2> QED
    BY <1>3, <1>4, <2>1, OneStage
<1>10. Calls!Open(k)
  BY <1>1, <1>5, <1>7, <1>8, <1>9, SameActive DEF Calls!Open
<1>11. LifeOK'
  <2>1. pc'[t] \notin ClosedPoints
    BY <1>3 DEF ClosedPoints
  <2> QED
    BY <1>3, <1>4, <2>1, OneLife DEF Alive
<1> QED
  BY <1>10, <1>11 DEF AbstractStep, Calls!Next

\* pal_stream_close of the stream of session k.
LEMMA ShutsOne ==
  ASSUME Alive, NEW t \in Callers, NEW k \in Sessions, Only(t, k), pc[t] \notin ClosedPoints,
         UNCHANGED <<current_, pal_voice_handle>>, Shuts(k), pal_voice_handle[k] # Null
  PROVE  Keeps(k) /\ pal'[pal_voice_handle'[k]] = "closed" /\ StageOf(k)' = "none"
<1>1. Alive => VoiceSafe /\ CallsOK
  BY DEF Alive
<1>2. /\ \A j \in Sessions : pal_voice_handle[j] # Null => pal_voice_handle[j] \in Streams
      /\ \A j \in Sessions \ {k} :
           pal_voice_handle[j] # Null => pal_voice_handle[j] # pal_voice_handle[k]
  BY <1>1, OwnHandles
<1>3. Keeps(k)
  BY <1>2 DEF Keeps, Shuts
<1>4. pal'[pal_voice_handle'[k]] = "closed"
  BY <1>2 DEF Shuts
<1> QED
  BY <1>3, <1>4 DEF StageOf

LEMMA StartFailsIsGiveUp ==
  ASSUME Alive, NEW t \in Callers, VoiceStartFails(t)
  PROVE  LifeOK' /\ AbstractStep
<1> PICK k \in Sessions : k = idx[t]
  BY DEF Alive, VoiceSafe, TypeOK
<1>1. /\ UNCHANGED <<current_, new_, pal_voice_handle>> /\ CallMove(t, {"startClosed"})
      /\ pc[t] = "opened" /\ Shuts(k)
  BY StartFailsStep DEF Alive, VoiceSafe
<1>2. /\ Only(t, k) /\ pc'[t] = "startClosed" /\ pc[t] \notin ClosedPoints /\ pc[t] \in Busy
  BY <1>1, MovesOnly DEF Alive, ClosedPoints, Busy, StartPoints
<1>3. pal_voice_handle[k] # Null /\ pal[pal_voice_handle[k]] = "open"
  BY <1>1, <1>2 DEF Alive, LifeOK, CallsOK, Agree, CallerOK, StreamOK
<1>4. Keeps(k) /\ pal'[pal_voice_handle'[k]] = "closed" /\ StageOf(k)' = "none"
  BY <1>1, <1>2, <1>3, ShutsOne
<1>5. Stages[k] = "opened"
  BY <1>3 DEF Stages, StageOf
<1>6. Calls!GiveUp(k)
  BY <1>1, <1>2, <1>4, <1>5, OneStage, SameActive DEF Calls!GiveUp
<1>7. LifeOK'
  BY <1>2, <1>4, OneLife DEF Alive
<1> QED
  BY <1>6, <1>7 DEF AbstractStep, Calls!Next

\* A session forgets the stream that was closed: its stage stays none.
LEMMA ForgetsOne ==
  ASSUME Alive, NEW t \in Callers, NEW k \in Sessions, Only(t, k),
         pc[t] \in ClosedPoints, pc'[t] \in {"calls", "idle"}, UNCHANGED pal, Forgets(k),
         \A j \in Sessions \ {k} : current_'[j] = current_[j]
  PROVE  /\ Keeps(k) /\ LifeOK' /\ Stages[k] = "none"
         /\ Calls!To(k, "none") /\ UNCHANGED Stages
<1>1. Keeps(k) /\ pal_voice_handle'[k] = Null
  BY DEF Keeps, Forgets, Alive, VoiceSafe, TypeOK
<1>2. pc'[t] \notin {"opened"} \cup ClosedPoints
  BY DEF ClosedPoints
<1>3. LifeOK'
  BY <1>1, <1>2, OneLife DEF Alive
<1>4. Stages[k] = "none"
  <2>1. pal[pal_voice_handle[k]] = "closed"
    BY DEF Alive, LifeOK, Only
  <2> QED
    BY <2>1 DEF Stages, StageOf
<1>5. Calls!To(k, "none")
  <2>1. StageOf(k)' = "none"
    BY <1>1 DEF StageOf
  <2> QED
    BY <1>1, <2>1, OneStage
<1>6. UNCHANGED Stages
  BY <1>4, <1>5 DEF Calls!To, Stages
<1> QED
  BY <1>1, <1>3, <1>4, <1>5, <1>6

LEMMA StartForgetsIsQuiet ==
  ASSUME Alive, NEW t \in Callers, VoiceStartForgets(t)
  PROVE  LifeOK' /\ AbstractStep
<1> PICK k \in Sessions : k = idx[t]
  BY DEF Alive, VoiceSafe, TypeOK
<1>1. /\ UNCHANGED <<current_, new_, pal>> /\ pc[t] = "startClosed"
      /\ CallMove(t, {"calls", "idle"}) /\ Forgets(k)
  BY StartForgetsStep DEF Alive, VoiceSafe
<1>2. Only(t, k) /\ pc'[t] \in {"calls", "idle"} /\ pc[t] \in ClosedPoints
  BY <1>1, MovesOnly DEF Alive, ClosedPoints
<1>3. LifeOK' /\ UNCHANGED Stages
  BY <1>1, <1>2, ForgetsOne
<1> QED
  BY <1>1, <1>3, SameActive DEF AbstractStep

LEMMA StartsIsStart ==
  ASSUME Alive, NEW t \in Callers, VoiceStarts(t)
  PROVE  LifeOK' /\ AbstractStep
<1> PICK k \in Sessions : k = idx[t]
  BY DEF Alive, VoiceSafe, TypeOK
<1> DEFINE h == pal_voice_handle[k]
<1>1. /\ UNCHANGED <<current_, new_, pal_voice_handle>> /\ CallMove(t, {"micMute"})
      /\ pc[t] = "opened" /\ h \in Streams /\ pal' = [pal EXCEPT ![h] = "running"]
  BY StartsStep DEF Alive, VoiceSafe
<1>2. /\ Only(t, k) /\ pc'[t] = "micMute" /\ pc[t] \notin ClosedPoints
      /\ pc[t] \in InStart /\ pc'[t] \in InStart /\ pc'[t] \notin ClosedPoints
  BY <1>1, MovesOnly DEF Alive, ClosedPoints, InStart, InMic
<1>3. h # Null /\ pal[h] = "open" /\ pal'[h] = "running"
  BY <1>1, NameAssumption DEF Alive, LifeOK, VoiceSafe, TypeOK
<1>4. Keeps(k)
  <2>1. \A j \in Sessions \ {k} :
          pal_voice_handle[j] # Null => pal_voice_handle[j] \in Streams \ {h}
    BY <1>2, OwnHandles DEF Alive
  <2> QED
    BY <1>1, <2>1 DEF Keeps, Alive, VoiceSafe, TypeOK
<1>5. Stages[k] = "opened"
  BY <1>3 DEF Stages, StageOf
<1>6. Calls!To(k, "running")
  <2>1. BeingStarted(k)'
    BY <1>2, OnlyStarts
  <2>2. StageOf(k)' = "running"
    BY <1>1, <1>3, <2>1 DEF StageOf
  <2> QED
    BY <1>2, <1>4, <2>2, OneStage
<1>7. Calls!Start(k)
  BY <1>1, <1>5, <1>6, SameActive DEF Calls!Start
<1>8. LifeOK'
  BY <1>1, <1>2, <1>3, <1>4, OneLife DEF Alive
<1> QED
  BY <1>7, <1>8 DEF AbstractStep, Calls!Next

LEMMA MicEndsStart ==
  ASSUME Alive, NEW t \in Callers, MicStep(t)
  PROVE  LifeOK' /\ AbstractStep
<1> PICK k \in Sessions : k = idx[t]
  BY DEF Alive, VoiceSafe, TypeOK
<1> DEFINE h == pal_voice_handle[k]
<1>1. /\ UNCHANGED <<new_, pal_voice_handle, pal>> /\ pc[t] \in InMic /\ pc[t] \in InStart
      /\ pc[t] \in Busy /\ pc[t] \in StartPoints
  BY DEF MicStep, InMic, InStart, Busy, StartPoints
<1>2. /\ new_[k] = "ACTIVE" /\ current_[k] = "INACTIVE" /\ h # Null /\ pal[h] = "running"
  BY <1>1 DEF Alive, CallsOK, Agree, CallerOK, StreamOK
<1>3. k \in Asked \ ActiveCalls /\ Stages[k] = "running" /\ UNCHANGED Asked
  <2>1. BeingStarted(k)
    BY <1>1, StartedBy
  <2> QED
    BY <1>1, <1>2, <2>1 DEF Asked, ActiveCalls, IsCallActive, Stages, StageOf
<1>4. CASE CallMove(t, {"micReread", "micOn", "micOff"}) /\ UNCHANGED <<idx, failed, current_>>
  <2>1. Only(t, k) /\ pc'[t] \in {"micReread", "micOn", "micOff"}
    BY <1>4, MovesOnly DEF Alive
  <2>2. pc'[t] \in InStart /\ pc'[t] \notin ClosedPoints /\ Keeps(k)
    BY <1>1, <1>4, <2>1 DEF InStart, InMic, ClosedPoints, Keeps
  <2>3. UNCHANGED <<ActiveCalls, Stages>>
    <3>1. UNCHANGED callState
      BY <1>1, <1>4 DEF callState
    <3>2. \A i \in Sessions : BeingStarted(i)' <=> BeingStarted(i)
      BY <1>1, <2>1, <2>2, OnlyStarts
    <3> QED
      BY <3>1, <3>2, SameStages
  <2>4. LifeOK'
    <3>1. pc'[t] # "opened"
      BY <2>1
    <3> QED
      BY <1>1, <1>2, <2>1, <2>2, <3>1, OneLife DEF Alive
  <2> QED
    BY <1>3, <2>3, <2>4 DEF AbstractStep
<1>5. CASE Ends(t)
  <2>1. /\ CallMove(t, {"calls", "idle"})
        /\ \A j \in Sessions \ {k} : current_'[j] = current_[j]
        /\ current_'[k] = IF failed[t] THEN current_[k] ELSE new_[k]
    BY <1>5, EndsStates DEF Alive, VoiceSafe
  <2>2. Only(t, k) /\ pc'[t] \in {"calls", "idle"}
    BY <2>1, MovesOnly DEF Alive
  <2>3. /\ pc'[t] \notin InStart /\ pc'[t] \notin ClosedPoints /\ pc'[t] # "opened"
        /\ Keeps(k)
    BY <1>1, <2>1, <2>2 DEF InStart, InMic, ClosedPoints, Keeps
  <2>4. LifeOK'
    BY <1>1, <1>2, <2>2, <2>3, OneLife DEF Alive
  <2>5. ~BeingStarted(k)'
    BY <2>2, <2>3, OnlyStarts
  <2>6. CASE failed[t]
    <3>1. StageOf(k)' = "astray"
      BY <1>1, <1>2, <2>1, <2>5, <2>6 DEF StageOf, IsCallActive
    <3>2. Calls!To(k, "astray")
      BY <2>2, <2>3, <3>1, OneStage
    <3>3. UNCHANGED ActiveCalls
      BY <2>1, <2>6 DEF ActiveCalls, IsCallActive
    <3>4. Calls!Stray(k)
      BY <1>3, <3>2, <3>3 DEF Calls!Stray
    <3> QED
      BY <2>4, <3>4 DEF AbstractStep, Calls!Next
  <2>7. CASE ~failed[t]
    <3>1. current_'[k] = "ACTIVE"
      BY <1>2, <2>1, <2>7
    <3>2. ActiveCalls' = ActiveCalls \cup {k}
      BY <2>1, <3>1 DEF ActiveCalls, IsCallActive
    <3>3. StageOf(k)' = "running"
      BY <1>1, <1>2, <3>1 DEF StageOf, IsCallActive
    <3>4. Calls!To(k, "running")
      BY <2>2, <2>3, <3>3, OneStage
    <3>5. UNCHANGED Stages
      BY <1>3, <3>4 DEF Calls!To, Stages
    <3>6. Calls!Connect(k)
      BY <1>3, <3>2, <3>5 DEF Calls!Connect
    <3> QED
      BY <2>4, <3>6 DEF AbstractStep, Calls!Next
  <2> QED
    BY <2>6, <2>7
<1> QED
  BY <1>4, <1>5 DEF MicStep

\* What a caller that stops session k knows of it.
LEMMA StopFinds ==
  ASSUME Alive, NEW t \in Callers, NEW k \in Sessions, Only(t, k), pc[t] \in StopPoints, UNCHANGED new_
  PROVE  /\ new_[k] = "INACTIVE" /\ k \in ActiveCalls \ Asked /\ UNCHANGED Asked
         /\ pc[t] \notin InStart /\ Calls!Settled /\ StreamOK(t, pal_voice_handle[k])
<1>1. pc[t] \in Busy /\ pc[t] \notin InStart /\ k = idx[t]
  BY DEF Busy, InStart, InMic, StopPoints, Only
<1>2. new_[k] = "INACTIVE" /\ current_[k] = "ACTIVE" /\ StreamOK(t, pal_voice_handle[k])
  BY <1>1 DEF Alive, CallsOK, Agree, CallerOK
<1>3. k \in ActiveCalls \ Asked /\ UNCHANGED Asked
  BY <1>2 DEF ActiveCalls, Asked, IsCallActive
<1>4. Calls!Settled
  BY <1>1, OnlySettled DEF Alive
<1> QED
  BY <1>1, <1>2, <1>3, <1>4

LEMMA StopNoneIsEnd ==
  ASSUME Alive, NEW t \in Callers, VoiceStopNone(t)
  PROVE  LifeOK' /\ AbstractStep
<1> PICK k \in Sessions : k = idx[t]
  BY DEF Alive, VoiceSafe, TypeOK
<1>1. /\ UNCHANGED <<new_, pal_voice_handle, pal>> /\ pc[t] = "stop"
      /\ CallMove(t, {"calls", "idle"}) /\ pal_voice_handle[k] = Null
      /\ current_' = [current_ EXCEPT ![k] = new_[k]]
  BY StopNoneStep DEF Alive, VoiceSafe
<1>2. Only(t, k) /\ pc'[t] \in {"calls", "idle"} /\ pc[t] \in StopPoints
  BY <1>1, MovesOnly DEF Alive, StopPoints
<1>3. new_[k] = "INACTIVE" /\ k \in ActiveCalls \ Asked /\ UNCHANGED Asked /\ Calls!Settled
  BY <1>1, <1>2, StopFinds
<1>4. current_'[k] = "INACTIVE" /\ \A j \in Sessions \ {k} : current_'[j] = current_[j]
  BY <1>1, <1>3 DEF Alive, VoiceSafe, TypeOK
<1>5. ActiveCalls' = ActiveCalls \ {k} /\ Keeps(k)
  BY <1>1, <1>4 DEF ActiveCalls, IsCallActive, Keeps
<1>6. Calls!To(k, "none")
  <2>1. StageOf(k)' = "none"
    BY <1>1 DEF StageOf
  <2> QED
    BY <1>2, <1>5, <2>1, OneStage
<1>7. Calls!End(k)
  BY <1>3, <1>5, <1>6 DEF Calls!End
<1>8. LifeOK'
  <2>1. pc'[t] \notin {"opened"} \cup ClosedPoints
    BY <1>2 DEF ClosedPoints
  <2> QED
    BY <1>1, <1>2, <1>5, <2>1, OneLife DEF Alive
<1> QED
  BY <1>7, <1>8 DEF AbstractStep, Calls!Next

LEMMA StopClosesIsEnd ==
  ASSUME Alive, NEW t \in Callers, VoiceStopCloses(t)
  PROVE  LifeOK' /\ AbstractStep
<1> PICK k \in Sessions : k = idx[t]
  BY DEF Alive, VoiceSafe, TypeOK
<1>1. /\ UNCHANGED <<current_, new_, pal_voice_handle>> /\ CallMove(t, {"stopClosed"})
      /\ pc[t] = "close" /\ Shuts(k)
  BY StopClosesStep DEF Alive, VoiceSafe
<1>2. /\ Only(t, k) /\ pc'[t] = "stopClosed" /\ pc[t] \notin ClosedPoints
      /\ pc[t] \in StopPoints
  BY <1>1, MovesOnly DEF Alive, ClosedPoints, StopPoints
<1>3. /\ k \in ActiveCalls \ Asked /\ UNCHANGED Asked /\ Calls!Settled
      /\ StreamOK(t, pal_voice_handle[k])
  BY <1>1, <1>2, StopFinds
<1>4. Keeps(k) /\ pal'[pal_voice_handle'[k]] = "closed" /\ StageOf(k)' = "none"
  <2>1. pal_voice_handle[k] # Null
    BY <1>1, <1>3 DEF StreamOK
  <2> QED
    BY <1>1, <1>2, <2>1, ShutsOne
<1>5. Calls!End(k)
  BY <1>1, <1>2, <1>3, <1>4, OneStage, SameActive DEF Calls!End
<1>6. LifeOK'
  BY <1>2, <1>4, OneLife DEF Alive
<1> QED
  BY <1>5, <1>6 DEF AbstractStep, Calls!Next

LEMMA StopForgetsIsEnd ==
  ASSUME Alive, NEW t \in Callers, VoiceStopForgets(t)
  PROVE  LifeOK' /\ AbstractStep
<1> PICK k \in Sessions : k = idx[t]
  BY DEF Alive, VoiceSafe, TypeOK
<1>1. UNCHANGED <<new_, pal>> /\ pc[t] = "stopClosed" /\ Ends(t) /\ Forgets(k)
  BY StopForgetsStep DEF Alive, VoiceSafe
<1>2. /\ CallMove(t, {"calls", "idle"})
      /\ \A j \in Sessions \ {k} : current_'[j] = current_[j]
      /\ current_'[k] = IF failed[t] THEN current_[k] ELSE new_[k]
  BY <1>1, EndsStates DEF Alive, VoiceSafe
<1>3. /\ Only(t, k) /\ pc'[t] \in {"calls", "idle"} /\ pc[t] \in ClosedPoints
      /\ pc[t] \in StopPoints
  BY <1>1, <1>2, MovesOnly DEF Alive, ClosedPoints, StopPoints
<1>4. LifeOK' /\ Calls!To(k, "none")
  BY <1>1, <1>2, <1>3, ForgetsOne
<1>5. new_[k] = "INACTIVE" /\ k \in ActiveCalls \ Asked /\ UNCHANGED Asked /\ Calls!Settled
  BY <1>1, <1>3, StopFinds
<1>6. ActiveCalls' \in {ActiveCalls \ {k}, ActiveCalls}
  <2>1. CASE current_'[k] = current_[k]
    BY <1>2, <2>1 DEF ActiveCalls, IsCallActive
  <2>2. CASE current_'[k] = "INACTIVE"
    BY <1>2, <2>2 DEF ActiveCalls, IsCallActive
  <2> QED
    BY <1>2, <1>5, <2>1, <2>2
<1>7. Calls!End(k)
  BY <1>4, <1>5, <1>6 DEF Calls!End
<1> QED
  BY <1>4, <1>7 DEF AbstractStep, Calls!Next

LEMMA LifeStep ==
  ASSUME Serialized
  PROVE  Alive /\ [Next]_vars => LifeOK' /\ AbstractStep
<1>1. ASSUME Alive, NEW t \in Callers, UpdateCalls(t) PROVE LifeOK' /\ AbstractStep
  <2>1. CASE MicMuteLook(t) \/ MicMuteReread(t) \/ MicMuteApply(t)
    BY <1>1, <2>1, MicSteps, MicEndsStart DEF Alive, VoiceSafe
  <2> QED
    BY <1>1, <2>1, QuietCalls, OpenIsOpen, StartFailsIsGiveUp, StartForgetsIsQuiet,
       StartsIsStart, StopNoneIsEnd, StopClosesIsEnd, StopForgetsIsEnd DEF UpdateCalls
<1>2. ASSUME Alive, UNCHANGED vars PROVE LifeOK' /\ AbstractStep
  <2>1. UNCHANGED <<current_, new_, pal_voice_handle, pal, pc, idx>>
    BY <1>2 DEF vars, sessionVars, palVars, threadVars
  <2>2. LifeOK' /\ UNCHANGED <<ActiveCalls, Stages>>
    BY <1>2, <2>1, LifeFrame DEF Alive, callState
  <2> QED
    BY <2>1, <2>2 DEF AbstractStep, Asked
<1>3. ASSUME Alive, Next PROVE LifeOK' /\ AbstractStep
  BY <1>1, <1>3, NextSteps, EntryIsAsk, MuteIsQuiet DEF Alive
<1> QED
  BY <1>2, <1>3

\* With SetMode, RouteStream and VoiceSetParameters called one at a time, the sessions live as
\* CallLifecycle says, for any number of them and after any failures of PAL: a stream is
\* opened, then started, and only then is the call active; it stays until the call is asked to
\* end (AudioVoice.cpp:651-713, 744-1001).
THEOREM CallsImplemented ==
  ASSUME Serialized
  PROVE  Spec => ImplementsCalls
<1>1. Init => LifeOK /\ Calls!Init
  <2> SUFFICES ASSUME Init PROVE LifeOK /\ Calls!Init
    OBVIOUS
  <2>1. LifeOK
    BY DEF Init, LifeOK, ClosedPoints
  <2>2. Asked = {} /\ ActiveCalls = {}
    BY DEF Init, Asked, ActiveCalls, IsCallActive
  <2>3. \A i \in Sessions : StageOf(i) = "none"
    BY DEF Init, StageOf
  <2> QED
    BY <2>1, <2>2, <2>3 DEF Calls!Init, Stages
<1>2. VoiceSafe /\ CallsOK /\ LifeOK /\ [Next]_vars => LifeOK' /\ [Calls!Next]_(Calls!life)
  BY LifeStep DEF Alive, AbstractStep, Calls!life
<1> QED
  BY <1>1, <1>2, AlwaysCallsOK, PTL DEF Spec, ImplementsCalls, Calls!Spec
=============================================================================
