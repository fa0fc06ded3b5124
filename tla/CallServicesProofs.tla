-------------------------- MODULE CallServicesProofs --------------------------
(* AudioPatches, VoiceSettings, BtMetadata and DeviceParameters for any    *)
(* number of sessions and streams and any devices, volumes, effects,       *)
(* tracks, cards, LC3 fields and angles.                                   *)
EXTENDS AudioPatches, VoiceSettings, BtMetadata, DeviceParameters, SequenceTheorems, TLAPS

HeardFrom == RxDevices \cup {"handset", "headset", "proxy", "none"}
Stream == [tty : TtyModes, pair : TtyModes, rx : HeardFrom, effects : SUBSET VoiceEffects,
           volume : VoiceVolumes \cup {NotSet}]

\* A stream has the settings of a session.
HasAsked(stream, tty, asked) ==
  /\ stream.tty = tty
  /\ stream.effects \subseteq asked
  /\ asked \ stream.effects \subseteq IF stream.rx \in BoostDevices THEN {} ELSE {Boost}
  /\ tty \in {"VCO", "HCO"} => stream.pair = tty

\* A call has its settings from the moment its stream is open.
SettingsHeld(i) ==
  HasHandle(i) /\ i \notin pal_deaf => HasAsked(call_pal[i], tty_mode[i], effects[i])

\* SetVoiceVolume is on its way to session i.
VolumeAhead(i) == volume_at.step # "idle" /\ volume_at.session <= i

\* VoiceStart gave the call the volume there is, or SetVoiceVolume will.
VolumeHeld(i) ==
  call[i] \in {"volumed", "active"} /\ i \notin pal_deaf =>
    call_pal[i].volume = pal_vol \/ VolumeAhead(i)

\* Once SetVoiceVolume has stored its volume, it is the volume there is.
VolumeStored ==
  volume_at.step \in {"look", "send"} \/ (volume_at.step = "store" /\ volume_at.session # 1)
    => pal_vol = asked_volume

NoVolumeYet ==
  /\ pal_vol = NotSet => \A i \in SettingSessions : call_pal[i].volume = NotSet
  /\ volume_at.step # "idle" => asked_volume # NotSet

SettingsInv ==
  /\ SettingsTypeOK
  /\ VolumeStored
  /\ NoVolumeYet
  /\ \A i \in SettingSessions : SettingsHeld(i) /\ VolumeHeld(i)

LEMMA SettingsInitInv == SettingsInit => SettingsInv
<1> SUFFICES ASSUME SettingsInit PROVE SettingsInv
  OBVIOUS
<1>1. NewStream \in Stream
  BY TtyAssumption DEF NewStream, Stream, HeardFrom
<1>2. SettingsTypeOK
  BY <1>1, TtyAssumption, SettingSessionsAssumption
  DEF SettingsInit, SettingsTypeOK, Stream, HeardFrom, CallModes, CallPoints, Idle
<1>3. VolumeStored /\ NoVolumeYet
  BY DEF SettingsInit, VolumeStored, NoVolumeYet, Idle, NewStream
<1>4. \A i \in SettingSessions : SettingsHeld(i) /\ VolumeHeld(i)
  BY DEF SettingsInit, SettingsHeld, VolumeHeld, HasHandle
<1> QED
  BY <1>2, <1>3, <1>4 DEF SettingsInv

\* The sessions SetVoiceVolume has not reached when it is done with session i.
LEMMA VolumeLoopStep ==
  ASSUME NEW i \in SettingSessions
  PROVE  /\ VolumeLoop(i) \in [session : SettingSessions, step : {"idle", "store", "look", "send"}]
         /\ VolumeLoop(i).step = "store" => VolumeLoop(i).session = i + 1
         /\ VolumeLoop(i).step \in {"idle", "store"}
         /\ \A j \in SettingSessions : j > i =>
              VolumeLoop(i).step # "idle" /\ VolumeLoop(i).session <= j
<1>1. i \in Nat /\ 1 \in SettingSessions
  BY SettingSessionsAssumption
<1>2. \A j \in SettingSessions : j > i => i + 1 \in SettingSessions /\ i + 1 <= j
  BY SettingSessionsAssumption
<1>3. CASE i + 1 \in SettingSessions
  BY <1>1, <1>2, <1>3 DEF VolumeLoop
<1>4. CASE i + 1 \notin SettingSessions
  BY <1>1, <1>2, <1>4 DEF VolumeLoop, Idle
<1> QED
  BY <1>3, <1>4

\* A setting that is sent is taken, or the call is on record as deaf.
LEMMA TakenStep ==
  ASSUME SettingsTypeOK, NEW sessions \in SUBSET SettingSessions,
         NEW new \in [SettingSessions -> Stream], TakenBy(sessions, new)
  PROVE  /\ call_pal' \in [SettingSessions -> Stream]
         /\ pal_deaf' \subseteq SettingSessions /\ pal_deaf \subseteq pal_deaf'
         /\ \A i \in sessions \ pal_deaf' : call_pal'[i] = new[i]
         /\ \A i \in SettingSessions : call_pal'[i] \in {call_pal[i], new[i]}
         /\ \A i \in SettingSessions \ sessions : call_pal'[i] = call_pal[i]
BY DEF TakenBy, SettingsTypeOK, Stream, HeardFrom

\* A stream that is moved agrees with what the session asks for, as it did before.
LEMMA MovedAgrees ==
  ASSUME NEW stream \in Stream, NEW tty \in TtyModes, NEW asked \in SUBSET VoiceEffects,
         NEW rx \in HeardFrom
  PROVE  LET moved == VoiceSetDevice(stream, tty, asked, rx)
         IN /\ moved \in Stream /\ moved.volume = stream.volume
            /\ HasAsked(stream, tty, asked) => HasAsked(moved, tty, asked)
            /\ stream.tty = tty /\ stream.effects \subseteq asked
                 /\ asked \ stream.effects \subseteq {Boost}
                   => HasAsked(moved, tty, asked)
<1> DEFINE moved == VoiceSetDevice(stream, tty, asked, rx)
<1>1. PairFor(tty) \in TtyModes /\ (tty \in {"VCO", "HCO"} => PairFor(tty) = tty)
  BY TtyAssumption DEF PairFor
<1>2. /\ moved \in Stream /\ moved.volume = stream.volume /\ moved.tty = stream.tty
      /\ moved.pair = PairFor(tty) /\ moved.rx = rx
      /\ moved.effects = IF Boost \notin asked THEN stream.effects
                         ELSE IF rx \in BoostDevices THEN stream.effects \cup {Boost}
                         ELSE stream.effects \ {Boost}
  BY <1>1 DEF VoiceSetDevice, Stream
<1> HIDE DEF moved
<1>3. stream.tty = tty /\ stream.effects \subseteq asked /\ asked \ stream.effects \subseteq {Boost}
        => HasAsked(moved, tty, asked)
  BY <1>1, <1>2 DEF HasAsked
<1>4. HasAsked(stream, tty, asked) => stream.tty = tty /\ stream.effects \subseteq asked
                                      /\ asked \ stream.effects \subseteq {Boost}
  BY DEF HasAsked
<1> QED
  BY <1>2, <1>3, <1>4 DEF moved

LEMMA RxForType ==
  ASSUME NEW tty, NEW mode, NEW rx \in RxDevices
  PROVE  RxFor(tty, mode, rx) \in HeardFrom
BY DEF RxFor, HeardFrom

\* What the audio server sets while no call starts: the calls that are sent a new setting
\* agree with it, and nothing changes for the others.
LEMMA SetInv ==
  ASSUME SettingsInv, NoCallStarts, NEW sessions \in SUBSET SettingSessions,
         NEW new \in [SettingSessions -> Stream], TakenBy(sessions, new),
         tty_mode' \in [SettingSessions -> TtyModes],
         effects' \in [SettingSessions -> SUBSET VoiceEffects],
         call_mode' \in CallModes, rx_device' \in RxDevices,
         UNCHANGED <<pal_vol, call, volume_at, asked_volume>>,
         \A i \in SettingSessions : new[i].volume = call_pal[i].volume,
         \A i \in sessions : IsActive(i) /\ i \notin pal_deaf =>
           HasAsked(new[i], tty_mode'[i], effects'[i]),
         \A i \in SettingSessions \ sessions : IsActive(i) =>
           tty_mode'[i] = tty_mode[i] /\ effects'[i] = effects[i]
  PROVE  SettingsInv'
<1>1. /\ call_pal' \in [SettingSessions -> Stream]
      /\ pal_deaf' \subseteq SettingSessions /\ pal_deaf \subseteq pal_deaf'
      /\ \A i \in sessions \ pal_deaf' : call_pal'[i] = new[i]
      /\ \A i \in SettingSessions : call_pal'[i] \in {call_pal[i], new[i]}
      /\ \A i \in SettingSessions \ sessions : call_pal'[i] = call_pal[i]
  BY TakenStep DEF SettingsInv
<1>2. \A i \in SettingSessions : call_pal'[i].volume = call_pal[i].volume
  BY <1>1
<1>3. SettingsTypeOK'
  BY <1>1 DEF SettingsInv, SettingsTypeOK, Stream, HeardFrom
<1>4. VolumeStored' /\ NoVolumeYet'
  BY <1>2 DEF SettingsInv, VolumeStored, NoVolumeYet
<1>5. ASSUME NEW i \in SettingSessions PROVE SettingsHeld(i)'
  <2>1. HasHandle(i)' => IsActive(i) /\ HasHandle(i)
    BY DEF NoCallStarts, IsActive, HasHandle
  <2>2. CASE i \in sessions
    BY <1>1, <2>1, <2>2 DEF SettingsHeld
  <2>3. CASE i \notin sessions
    <3>1. SettingsHeld(i) /\ call_pal'[i] = call_pal[i]
      BY <1>1, <2>3 DEF SettingsInv
    <3> QED
      BY <1>1, <2>1, <2>3, <3>1 DEF SettingsHeld
  <2> QED
    BY <2>2, <2>3
<1>6. ASSUME NEW i \in SettingSessions PROVE VolumeHeld(i)'
  BY <1>1, <1>2 DEF SettingsInv, VolumeHeld, VolumeAhead
<1> QED
  BY <1>3, <1>4, <1>5, <1>6 DEF SettingsInv

LEMMA SetTtyInv ==
  ASSUME SettingsInv, NoCallStarts, NEW mode \in TtyModes, SetTty(mode)
  PROVE  SettingsInv'
<1> DEFINE told(i) == [call_pal[i] EXCEPT !.tty = mode]
           rx == RxFor(mode, call_mode, rx_device)
           new == [i \in SettingSessions |->
                    IF mode \in {"VCO", "HCO"} THEN VoiceSetDevice(told(i), mode, effects[i], rx)
                    ELSE told(i)]
<1>1. /\ SettingsTypeOK /\ call_pal \in [SettingSessions -> Stream] /\ rx \in HeardFrom
      /\ \A i \in SettingSessions : SettingsHeld(i) /\ effects[i] \in SUBSET VoiceEffects
  BY RxForType DEF SettingsInv, SettingsTypeOK, Stream, HeardFrom
<1>2. /\ tty_mode' = [i \in SettingSessions |-> mode]
      /\ TakenBy(ActiveCalls, new)
      /\ UNCHANGED <<effects, pal_vol, call_mode, rx_device, call, volume_at, asked_volume>>
  BY DEF SetTty, volumeCall, routeVars
<1>3. ASSUME NEW i \in SettingSessions
      PROVE  /\ told(i) \in Stream /\ told(i).volume = call_pal[i].volume /\ told(i).tty = mode
             /\ told(i).effects = call_pal[i].effects /\ told(i).rx = call_pal[i].rx
  BY <1>1 DEF Stream
<1> HIDE DEF told, rx
<1>4. ASSUME NEW i \in SettingSessions
      PROVE  /\ new[i] \in Stream /\ new[i].volume = call_pal[i].volume
             /\ IsActive(i) /\ i \notin pal_deaf => HasAsked(new[i], mode, effects[i])
  <2>1. IsActive(i) /\ i \notin pal_deaf =>
          /\ told(i).effects \subseteq effects[i]
          /\ effects[i] \ told(i).effects \subseteq
               IF told(i).rx \in BoostDevices THEN {} ELSE {Boost}
    <3>1. SettingsHeld(i)
      BY <1>1
    <3> QED
      BY <1>3, <3>1 DEF SettingsHeld, HasHandle, IsActive, HasAsked
  <2>2. CASE mode \in {"VCO", "HCO"}
    BY <1>1, <1>3, <2>1, <2>2, MovedAgrees
  <2>3. CASE mode \notin {"VCO", "HCO"}
    BY <1>1, <1>3, <2>1, <2>3 DEF HasAsked
  <2> QED
    BY <2>2, <2>3
<1>5. new \in [SettingSessions -> Stream] /\ ActiveCalls \in SUBSET SettingSessions
  BY <1>4 DEF ActiveCalls
<1> HIDE DEF new
<1> QED
  <2>1. /\ tty_mode' \in [SettingSessions -> TtyModes]
        /\ effects' \in [SettingSessions -> SUBSET VoiceEffects]
        /\ call_mode' \in CallModes /\ rx_device' \in RxDevices
    BY <1>1, <1>2 DEF SettingsTypeOK
  <2>2. \A i \in SettingSessions : tty_mode'[i] = mode /\ effects'[i] = effects[i]
    BY <1>2
  <2>3. \A i \in ActiveCalls : IsActive(i) /\ i \notin pal_deaf =>
          HasAsked(new[i], tty_mode'[i], effects'[i])
    BY <1>4, <2>2 DEF ActiveCalls
  <2>4. \A i \in SettingSessions \ ActiveCalls : IsActive(i) =>
          tty_mode'[i] = tty_mode[i] /\ effects'[i] = effects[i]
    BY DEF ActiveCalls
  <2>5. /\ TakenBy(ActiveCalls, new) /\ UNCHANGED <<pal_vol, call, volume_at, asked_volume>>
        /\ \A i \in SettingSessions : new[i].volume = call_pal[i].volume
    BY <1>2, <1>4
  <2> HIDE DEF ActiveCalls
  <2> QED
    BY <1>5, <2>1, <2>3, <2>4, <2>5, SetInv

LEMMA SetEffectInv ==
  ASSUME SettingsInv, NoCallStarts, NEW effect \in VoiceEffects, NEW on \in BOOLEAN,
         SetEffect(effect, on)
  PROVE  SettingsInv'
<1> DEFINE Put(set) == IF on THEN set \cup {effect} ELSE set \ {effect}
           new == [i \in SettingSessions |-> [call_pal[i] EXCEPT !.effects = Put(@)]]
<1>1. SettingsTypeOK /\ call_pal \in [SettingSessions -> Stream]
  BY DEF SettingsInv, SettingsTypeOK, Stream, HeardFrom
<1>2. /\ new \in [SettingSessions -> Stream]
      /\ \A i \in SettingSessions : /\ new[i].tty = call_pal[i].tty
                                    /\ new[i].pair = call_pal[i].pair
                                    /\ new[i].rx = call_pal[i].rx
                                    /\ new[i].volume = call_pal[i].volume
                                    /\ new[i].effects = Put(call_pal[i].effects)
  BY <1>1 DEF Stream
<1>3. /\ effects' = [i \in SettingSessions |-> Put(effects[i])]
      /\ TakenBy(ActiveCalls, new) /\ ActiveCalls \in SUBSET SettingSessions
      /\ UNCHANGED <<tty_mode, pal_vol, call_mode, rx_device, call, volume_at, asked_volume>>
  BY DEF SetEffect, volumeCall, routeVars, ActiveCalls
<1>4. effects' \in [SettingSessions -> SUBSET VoiceEffects]
  BY <1>1, <1>3 DEF SettingsTypeOK
<1> HIDE DEF new
<1>5. ASSUME NEW i \in SettingSessions, IsActive(i), i \notin pal_deaf
      PROVE  HasAsked(new[i], tty_mode'[i], effects'[i])
  <2>1. HasAsked(call_pal[i], tty_mode[i], effects[i])
    BY <1>5 DEF SettingsInv, SettingsHeld, HasHandle, IsActive
  <2>2. effects'[i] = Put(effects[i]) /\ tty_mode'[i] = tty_mode[i]
    BY <1>3
  <2> QED
    BY <1>2, <2>1, <2>2 DEF HasAsked
<1>6. /\ tty_mode' \in [SettingSessions -> TtyModes]
      /\ call_mode' \in CallModes /\ rx_device' \in RxDevices
      /\ UNCHANGED <<pal_vol, call, volume_at, asked_volume>>
      /\ \A i \in SettingSessions : new[i].volume = call_pal[i].volume
  BY <1>1, <1>2, <1>3 DEF SettingsTypeOK
<1>7. \A i \in SettingSessions \ ActiveCalls : IsActive(i) =>
        tty_mode'[i] = tty_mode[i] /\ effects'[i] = effects[i]
  BY DEF ActiveCalls
<1>8. \A i \in ActiveCalls : IsActive(i) /\ i \notin pal_deaf =>
        HasAsked(new[i], tty_mode'[i], effects'[i])
  BY <1>5 DEF ActiveCalls
<1> HIDE DEF ActiveCalls
<1> QED
  BY <1>2, <1>3, <1>4, <1>6, <1>7, <1>8, SetInv

\* Calls that are moved keep their settings.
LEMMA MoveCallsInv ==
  ASSUME SettingsInv, NoCallStarts, NEW sessions \in SUBSET SettingSessions, MoveCalls(sessions),
         call_mode' \in CallModes, rx_device' \in RxDevices,
         UNCHANGED <<cachedVars, call, volumeCall>>
  PROVE  SettingsInv'
<1> DEFINE rx(i) == RxFor(tty_mode[i], call_mode', rx_device')
           new == [i \in SettingSessions |->
                    VoiceSetDevice(call_pal[i], tty_mode[i], effects[i], rx(i))]
<1>1. SettingsTypeOK /\ call_pal \in [SettingSessions -> Stream] /\ TakenBy(sessions, new)
  BY DEF SettingsInv, SettingsTypeOK, Stream, HeardFrom, MoveCalls
<1>2. ASSUME NEW i \in SettingSessions
      PROVE  /\ tty_mode[i] \in TtyModes /\ effects[i] \in SUBSET VoiceEffects
             /\ call_pal[i] \in Stream /\ rx(i) \in HeardFrom
  BY <1>1, RxForType DEF SettingsTypeOK
<1> HIDE DEF rx
<1>3. ASSUME NEW i \in SettingSessions
      PROVE  /\ new[i] \in Stream /\ new[i].volume = call_pal[i].volume
             /\ IsActive(i) /\ i \notin pal_deaf => HasAsked(new[i], tty_mode[i], effects[i])
  <2>1. IsActive(i) /\ i \notin pal_deaf => HasAsked(call_pal[i], tty_mode[i], effects[i])
    BY DEF SettingsInv, SettingsHeld, HasHandle, IsActive
  <2> QED
    BY <1>2, <2>1, MovedAgrees
<1>4. new \in [SettingSessions -> Stream]
  BY <1>3
<1> HIDE DEF new
<1>5. UNCHANGED <<tty_mode, effects, pal_vol, call, volume_at, asked_volume>>
  BY DEF cachedVars, volumeCall
<1> QED
  BY <1>1, <1>3, <1>4, <1>5, SetInv DEF SettingsTypeOK

LEMMA SetHacInv ==
  ASSUME SettingsInv, NoCallStarts, SetHac
  PROVE  SettingsInv'
<1>1. ActiveCalls \in SUBSET SettingSessions
  BY DEF ActiveCalls
<1> QED
  BY <1>1, MoveCallsInv DEF SetHac, routeVars, SettingsInv, SettingsTypeOK

LEMMA RouteCallsInv ==
  ASSUME SettingsInv, NoCallStarts, NEW rx \in RxDevices, RouteCalls(rx)
  PROVE  SettingsInv'
<1>1. ActiveCalls \in SUBSET SettingSessions
  BY DEF ActiveCalls
<1> QED
  BY <1>1, MoveCallsInv DEF RouteCalls, SettingsInv, SettingsTypeOK

LEMMA SetCallModeInv ==
  ASSUME SettingsInv, NoCallStarts, NEW mode \in CallModes, SetCallMode(mode)
  PROVE  SettingsInv'
<1>1. PICK sessions \in SUBSET SettingSessions : MoveCalls(sessions)
  <2> DEFINE moved == IF "NORMAL" \in {mode, call_mode} THEN {} ELSE {1} \cap ActiveCalls
  <2>1. moved \in SUBSET SettingSessions /\ MoveCalls(moved)
    BY DEF SetCallMode, ActiveCalls
  <2> QED
    BY <2>1
<1> QED
  BY <1>1, MoveCallsInv DEF SetCallMode, SettingsInv, SettingsTypeOK

-----------------------------------------------------------------------------
LEMMA CallVolumeInv ==
  ASSUME SettingsInv, NEW v \in VoiceVolumes, CallSetVoiceVolume(v)
  PROVE  SettingsInv'
<1>1. /\ volume_at' = [session |-> 1, step |-> "store"] /\ asked_volume' = v
      /\ UNCHANGED <<tty_mode, effects, call_mode, rx_device, pal_vol, call, call_pal, pal_deaf>>
  BY DEF CallSetVoiceVolume, cachedVars, routeVars
<1>2. SettingsTypeOK'
  BY <1>1, SettingSessionsAssumption DEF SettingsInv, SettingsTypeOK
<1>3. VolumeStored' /\ NoVolumeYet'
  BY <1>1, VoiceVolumesAssumption DEF SettingsInv, VolumeStored, NoVolumeYet, NotSet
<1>4. \A i \in SettingSessions : SettingsHeld(i)' /\ VolumeHeld(i)'
  BY <1>1, SettingSessionsAssumption
  DEF SettingsInv, SettingsHeld, HasHandle, VolumeHeld, VolumeAhead
<1> QED
  BY <1>2, <1>3, <1>4 DEF SettingsInv

LEMMA StoreVolumeInv ==
  ASSUME SettingsInv, StoreVolume
  PROVE  SettingsInv'
<1>1. /\ volume_at.step = "store" /\ pal_vol' = asked_volume
      /\ volume_at' = [volume_at EXCEPT !.step = "look"]
      /\ UNCHANGED <<tty_mode, effects, call_mode, rx_device, call, call_pal, asked_volume, pal_deaf>>
  BY DEF StoreVolume, routeVars
<1>2. /\ volume_at' \in [session : SettingSessions, step : {"idle", "store", "look", "send"}]
      /\ volume_at'.step = "look" /\ volume_at'.session = volume_at.session
  BY <1>1 DEF SettingsInv, SettingsTypeOK
<1>3. SettingsTypeOK'
  BY <1>1, <1>2 DEF SettingsInv, SettingsTypeOK
<1>4. VolumeStored' /\ NoVolumeYet'
  BY <1>1, <1>2 DEF SettingsInv, VolumeStored, NoVolumeYet
<1>5. ASSUME NEW i \in SettingSessions PROVE SettingsHeld(i)' /\ VolumeHeld(i)'
  <2>1. SettingsHeld(i)'
    BY <1>1 DEF SettingsInv, SettingsHeld, HasHandle
  <2>2. volume_at.session = 1 => VolumeAhead(i)'
    BY <1>2, SettingSessionsAssumption DEF VolumeAhead
  <2>3. volume_at.session # 1 => pal_vol' = pal_vol
    BY <1>1 DEF SettingsInv, VolumeStored
  <2> QED
    BY <1>1, <1>2, <2>1, <2>2, <2>3 DEF SettingsInv, VolumeHeld, VolumeAhead
<1> QED
  BY <1>3, <1>4, <1>5 DEF SettingsInv

LEMMA LookAtHandleInv ==
  ASSUME SettingsInv, LookAtHandle
  PROVE  SettingsInv'
<1> DEFINE at == volume_at.session
<1>1. /\ volume_at.step = "look" /\ pal_vol = asked_volume /\ at \in SettingSessions
      /\ volume_at' = IF HasHandle(at) THEN [volume_at EXCEPT !.step = "send"] ELSE VolumeLoop(at)
      /\ UNCHANGED <<tty_mode, effects, call_mode, rx_device, pal_vol, call, call_pal, asked_volume, pal_deaf>>
  BY DEF LookAtHandle, cachedVars, routeVars, SettingsInv, SettingsTypeOK, VolumeStored
<1>2. volume_at' \in [session : SettingSessions, step : {"idle", "store", "look", "send"}]
  BY <1>1, VolumeLoopStep DEF SettingsInv, SettingsTypeOK
<1>3. SettingsTypeOK'
  BY <1>1, <1>2 DEF SettingsInv, SettingsTypeOK
<1>4. VolumeStored' /\ NoVolumeYet'
  BY <1>1 DEF SettingsInv, VolumeStored, NoVolumeYet
<1>5. ASSUME NEW i \in SettingSessions PROVE SettingsHeld(i)' /\ VolumeHeld(i)'
  <2>1. SettingsHeld(i)'
    BY <1>1 DEF SettingsInv, SettingsHeld, HasHandle
  <2>2. CASE HasHandle(at)
    <3>1. volume_at'.step = "send" /\ volume_at'.session = at
      BY <1>1, <2>2 DEF SettingsInv, SettingsTypeOK
    <3> QED
      BY <1>1, <2>1, <3>1 DEF SettingsInv, VolumeHeld, VolumeAhead
  <2>3. CASE ~HasHandle(at)
    <3>1. CASE i = at
      BY <1>1, <2>1, <2>3, <3>1 DEF VolumeHeld, HasHandle
    <3>2. CASE i # at
      <4>1. at <= i => i > at
        BY <1>1, <3>2, SettingSessionsAssumption
      <4>2. VolumeAhead(i) => VolumeAhead(i)'
        BY <1>1, <2>3, <4>1, VolumeLoopStep DEF VolumeAhead
      <4> QED
        BY <1>1, <2>1, <4>2 DEF SettingsInv, VolumeHeld
    <3> QED
      BY <3>1, <3>2
  <2> QED
    BY <2>2, <2>3
<1> QED
  BY <1>3, <1>4, <1>5 DEF SettingsInv

\* The stream a volume is sent to.
LEMMA VolumeStream ==
  ASSUME SettingsTypeOK, NEW i \in SettingSessions
  PROVE  LET new == [call_pal EXCEPT ![i].volume = pal_vol]
         IN /\ new \in [SettingSessions -> Stream]
            /\ new[i].volume = pal_vol
            /\ new[i].tty = call_pal[i].tty /\ new[i].pair = call_pal[i].pair
            /\ new[i].effects = call_pal[i].effects /\ new[i].rx = call_pal[i].rx
BY DEF SettingsTypeOK, Stream, HeardFrom

\* A volume that is sent to one session, and what the others keep.
LEMMA VolumeSent ==
  ASSUME SettingsInv, NEW i \in SettingSessions,
         TakenBy({i}, [call_pal EXCEPT ![i].volume = pal_vol]),
         UNCHANGED <<tty_mode, effects, call_mode, rx_device, pal_vol>>
  PROVE  /\ call_pal' \in [SettingSessions -> Stream] /\ pal_deaf' \subseteq SettingSessions
         /\ pal_deaf \subseteq pal_deaf'
         /\ i \notin pal_deaf' => call_pal'[i].volume = pal_vol
         /\ \A j \in SettingSessions \ {i} : call_pal'[j] = call_pal[j]
         /\ \A j \in SettingSessions : /\ call_pal'[j].tty = call_pal[j].tty
                                       /\ call_pal'[j].pair = call_pal[j].pair
                                       /\ call_pal'[j].effects = call_pal[j].effects
                                       /\ call_pal'[j].rx = call_pal[j].rx
                                       /\ pal_vol = NotSet => call_pal'[j].volume = NotSet
<1> DEFINE new == [call_pal EXCEPT ![i].volume = pal_vol]
<1>1. /\ new \in [SettingSessions -> Stream] /\ new[i].volume = pal_vol
      /\ new[i].tty = call_pal[i].tty /\ new[i].pair = call_pal[i].pair
      /\ new[i].effects = call_pal[i].effects /\ new[i].rx = call_pal[i].rx
  BY VolumeStream DEF SettingsInv
<1>2. TakenBy({i}, new) /\ {i} \in SUBSET SettingSessions
  OBVIOUS
<1> HIDE DEF new
<1>3. /\ call_pal' \in [SettingSessions -> Stream]
      /\ pal_deaf' \subseteq SettingSessions /\ pal_deaf \subseteq pal_deaf'
      /\ \A j \in {i} \ pal_deaf' : call_pal'[j] = new[j]
      /\ \A j \in SettingSessions : call_pal'[j] \in {call_pal[j], new[j]}
      /\ \A j \in SettingSessions \ {i} : call_pal'[j] = call_pal[j]
  BY <1>1, <1>2, TakenStep DEF SettingsInv
<1> QED
  BY <1>1, <1>3 DEF SettingsInv, NoVolumeYet

LEMMA SendVolumeInv ==
  ASSUME SettingsInv, SendVoiceVolume
  PROVE  SettingsInv'
<1> DEFINE at == volume_at.session
<1>1. /\ volume_at.step = "send" /\ pal_vol = asked_volume /\ at \in SettingSessions
      /\ volume_at' = VolumeLoop(at)
      /\ UNCHANGED <<tty_mode, effects, call_mode, rx_device, pal_vol, call, asked_volume>>
  BY DEF SendVoiceVolume, cachedVars, routeVars, SettingsInv, SettingsTypeOK, VolumeStored
<1>2. volume_at' \in [session : SettingSessions, step : {"idle", "store", "look", "send"}]
  BY <1>1, VolumeLoopStep
<1>3. ASSUME NEW i \in SettingSessions, i # at PROVE VolumeAhead(i) => VolumeAhead(i)'
  <2>0. at \in SettingSessions
    BY <1>1
  <2> HIDE DEF at
  <2>1. at <= i => i > at
    BY <1>3, <2>0, SettingSessionsAssumption
  <2> USE DEF at
  <2> QED
    BY <1>1, <1>3, <2>1, VolumeLoopStep DEF VolumeAhead
<1>4. CASE HasHandle(at)
  <2>1. TakenBy({at}, [call_pal EXCEPT ![at].volume = pal_vol])
    BY <1>4 DEF SendVoiceVolume
  <2>2. /\ call_pal' \in [SettingSessions -> Stream] /\ pal_deaf' \subseteq SettingSessions
        /\ pal_deaf \subseteq pal_deaf'
        /\ at \notin pal_deaf' => call_pal'[at].volume = pal_vol
        /\ \A j \in SettingSessions \ {at} : call_pal'[j] = call_pal[j]
        /\ \A j \in SettingSessions : /\ call_pal'[j].tty = call_pal[j].tty
                                      /\ call_pal'[j].pair = call_pal[j].pair
                                      /\ call_pal'[j].effects = call_pal[j].effects
                                      /\ call_pal'[j].rx = call_pal[j].rx
                                      /\ pal_vol = NotSet => call_pal'[j].volume = NotSet
    BY <1>1, <2>1, VolumeSent
  <2>3. SettingsTypeOK'
    BY <1>1, <1>2, <2>2 DEF SettingsInv, SettingsTypeOK, Stream, HeardFrom
  <2>4. VolumeStored' /\ NoVolumeYet'
    BY <1>1, <2>2 DEF SettingsInv, VolumeStored, NoVolumeYet
  <2>5. \A i \in SettingSessions : SettingsHeld(i)'
    BY <1>1, <2>2 DEF SettingsInv, SettingsHeld, HasHandle, HasAsked
  <2>6. \A i \in SettingSessions : VolumeHeld(i)'
    BY <1>1, <1>3, <2>2 DEF SettingsInv, VolumeHeld
  <2> QED
    BY <2>3, <2>4, <2>5, <2>6 DEF SettingsInv
<1>5. CASE ~HasHandle(at)
  <2>1. UNCHANGED <<call_pal, pal_deaf>>
    BY <1>5 DEF SendVoiceVolume
  <2>2. SettingsTypeOK'
    BY <1>1, <1>2, <2>1 DEF SettingsInv, SettingsTypeOK
  <2>3. VolumeStored' /\ NoVolumeYet'
    BY <1>1, <2>1 DEF SettingsInv, VolumeStored, NoVolumeYet
  <2>4. \A i \in SettingSessions : SettingsHeld(i)'
    BY <1>1, <2>1 DEF SettingsInv, SettingsHeld, HasHandle
  <2>5. \A i \in SettingSessions : VolumeHeld(i)'
    BY <1>1, <1>3, <1>5, <2>1 DEF SettingsInv, VolumeHeld, HasHandle
  <2> QED
    BY <2>2, <2>3, <2>4, <2>5 DEF SettingsInv
<1> QED
  BY <1>4, <1>5

-----------------------------------------------------------------------------
LEMMA OpenCallInv ==
  ASSUME SettingsInv, NEW i \in SettingSessions, OpenCall(i)
  PROVE  SettingsInv'
<1> DEFINE opened(taken) ==
             [tty |-> tty_mode[i], pair |-> PairFor(tty_mode[i]), effects |-> taken,
              rx |-> RxFor(tty_mode[i], call_mode, rx_device), volume |-> NotSet]
<1>1. /\ call' = [call EXCEPT ![i] = "opened"] /\ SettingsTypeOK
      /\ UNCHANGED <<tty_mode, effects, call_mode, rx_device, pal_vol, volume_at, asked_volume>>
  BY DEF OpenCall, cachedVars, routeVars, volumeCall, SettingsInv
<1>2. PICK taken \in SUBSET effects[i] :
        /\ call_pal' = [call_pal EXCEPT ![i] = opened(taken)]
        /\ pal_deaf' = IF taken = effects[i] THEN pal_deaf ELSE pal_deaf \cup {i}
  BY DEF OpenCall
<1>3. /\ tty_mode[i] \in TtyModes /\ taken \in SUBSET VoiceEffects
      /\ call_pal \in [SettingSessions -> Stream] /\ PairFor(tty_mode[i]) \in TtyModes
      /\ RxFor(tty_mode[i], call_mode, rx_device) \in HeardFrom
  BY <1>1, TtyAssumption, RxForType DEF SettingsTypeOK, Stream, HeardFrom, PairFor
<1>4. /\ call_pal' \in [SettingSessions -> Stream] /\ call_pal'[i] = opened(taken)
      /\ \A j \in SettingSessions \ {i} : call_pal'[j] = call_pal[j]
  <2>1. opened(taken) \in Stream
    BY <1>3 DEF Stream
  <2> QED
    BY <1>2, <1>3, <2>1
<1>5. /\ pal_deaf' \subseteq SettingSessions /\ pal_deaf \subseteq pal_deaf'
      /\ i \notin pal_deaf' => taken = effects[i]
  BY <1>1, <1>2 DEF SettingsTypeOK
<1>6. /\ call' \in [SettingSessions -> CallPoints] /\ call'[i] = "opened"
      /\ \A j \in SettingSessions \ {i} : call'[j] = call[j]
  BY <1>1 DEF SettingsTypeOK, CallPoints
<1>7. SettingsTypeOK'
  BY <1>1, <1>4, <1>5, <1>6 DEF SettingsTypeOK, Stream, HeardFrom
<1>8. VolumeStored' /\ NoVolumeYet'
  BY <1>1, <1>4 DEF SettingsInv, VolumeStored, NoVolumeYet
<1>9. \A j \in SettingSessions : SettingsHeld(j)'
  <2>1. SettingsHeld(i)'
    BY <1>1, <1>4, <1>5 DEF SettingsHeld, HasAsked, PairFor
  <2>2. \A j \in SettingSessions \ {i} : SettingsHeld(j)'
    BY <1>1, <1>4, <1>5, <1>6 DEF SettingsInv, SettingsHeld, HasHandle
  <2> QED
    BY <2>1, <2>2
<1>10. \A j \in SettingSessions : VolumeHeld(j)'
  BY <1>1, <1>4, <1>5, <1>6 DEF SettingsInv, VolumeHeld, VolumeAhead
<1> QED
  BY <1>7, <1>8, <1>9, <1>10 DEF SettingsInv

LEMMA ApplyVolumeInv ==
  ASSUME SettingsInv, NEW i \in SettingSessions, ApplyCachedVolume(i)
  PROVE  SettingsInv'
<1>1. /\ call[i] = "opened" /\ call' = [call EXCEPT ![i] = "volumed"] /\ SettingsTypeOK
      /\ UNCHANGED <<tty_mode, effects, call_mode, rx_device, pal_vol, volume_at, asked_volume>>
  BY DEF ApplyCachedVolume, cachedVars, routeVars, volumeCall, SettingsInv
<1>2. /\ call' \in [SettingSessions -> CallPoints]
      /\ \A j \in SettingSessions : call'[j] = "none" <=> call[j] = "none"
      /\ \A j \in SettingSessions \ {i} : call'[j] = call[j]
  BY <1>1 DEF SettingsTypeOK, CallPoints
<1>3. /\ call_pal' \in [SettingSessions -> Stream] /\ pal_deaf' \subseteq SettingSessions
      /\ pal_deaf \subseteq pal_deaf'
      /\ i \notin pal_deaf' => call_pal'[i].volume = pal_vol
      /\ \A j \in SettingSessions \ {i} : call_pal'[j] = call_pal[j]
      /\ \A j \in SettingSessions : /\ call_pal'[j].tty = call_pal[j].tty
                                    /\ call_pal'[j].pair = call_pal[j].pair
                                    /\ call_pal'[j].effects = call_pal[j].effects
                                    /\ call_pal'[j].rx = call_pal[j].rx
                                    /\ pal_vol = NotSet => call_pal'[j].volume = NotSet
  <2>1. CASE pal_vol = NotSet
    <3>1. UNCHANGED <<call_pal, pal_deaf>>
      BY <2>1 DEF ApplyCachedVolume
    <3> QED
      BY <1>1, <2>1, <3>1 DEF SettingsInv, SettingsTypeOK, NoVolumeYet, Stream, HeardFrom
  <2>2. CASE pal_vol # NotSet
    <3>1. TakenBy({i}, [call_pal EXCEPT ![i].volume = pal_vol])
      BY <2>2 DEF ApplyCachedVolume
    <3> QED
      BY <1>1, <3>1, VolumeSent
  <2> QED
    BY <2>1, <2>2
<1>4. SettingsTypeOK'
  BY <1>1, <1>2, <1>3 DEF SettingsTypeOK, Stream, HeardFrom
<1>5. VolumeStored' /\ NoVolumeYet'
  BY <1>1, <1>3 DEF SettingsInv, VolumeStored, NoVolumeYet
<1>6. \A j \in SettingSessions : SettingsHeld(j)'
  BY <1>1, <1>2, <1>3 DEF SettingsInv, SettingsHeld, HasHandle, HasAsked
<1>7. \A j \in SettingSessions : VolumeHeld(j)'
  BY <1>1, <1>2, <1>3 DEF SettingsInv, VolumeHeld, VolumeAhead
<1> QED
  BY <1>4, <1>5, <1>6, <1>7 DEF SettingsInv

LEMMA StartCallInv ==
  ASSUME SettingsInv, NEW i \in SettingSessions, StartCall(i)
  PROVE  SettingsInv'
<1>1. /\ call[i] = "volumed" /\ call' = [call EXCEPT ![i] = "active"] /\ SettingsTypeOK
      /\ UNCHANGED <<tty_mode, effects, call_mode, rx_device, pal_vol, call_pal, volume_at, asked_volume, pal_deaf>>
  BY DEF StartCall, cachedVars, routeVars, volumeCall, SettingsInv
<1>2. /\ call' \in [SettingSessions -> CallPoints]
      /\ \A j \in SettingSessions : call'[j] = "none" <=> call[j] = "none"
      /\ \A j \in SettingSessions :
           call'[j] \in {"volumed", "active"} <=> call[j] \in {"volumed", "active"}
  BY <1>1 DEF SettingsTypeOK, CallPoints
<1>3. SettingsTypeOK'
  BY <1>1, <1>2 DEF SettingsTypeOK
<1>4. VolumeStored' /\ NoVolumeYet'
  BY <1>1 DEF SettingsInv, VolumeStored, NoVolumeYet
<1>5. \A j \in SettingSessions : SettingsHeld(j)' /\ VolumeHeld(j)'
  BY <1>1, <1>2 DEF SettingsInv, SettingsHeld, HasHandle, VolumeHeld, VolumeAhead
<1> QED
  BY <1>3, <1>4, <1>5 DEF SettingsInv

LEMMA EndCallInv ==
  ASSUME SettingsInv, NEW i \in SettingSessions, EndCall(i)
  PROVE  SettingsInv'
<1>1. /\ call' = [call EXCEPT ![i] = "none"] /\ SettingsTypeOK
      /\ call_pal' = [call_pal EXCEPT ![i] = NewStream] /\ pal_deaf' = pal_deaf \ {i}
      /\ UNCHANGED <<tty_mode, effects, call_mode, rx_device, pal_vol, volume_at, asked_volume>>
  BY DEF EndCall, cachedVars, routeVars, volumeCall, SettingsInv
<1>2. NewStream \in Stream /\ NewStream.volume = NotSet
  BY TtyAssumption DEF NewStream, Stream, HeardFrom
<1>3. /\ call' \in [SettingSessions -> CallPoints] /\ call'[i] = "none"
      /\ \A j \in SettingSessions \ {i} : call'[j] = call[j]
  BY <1>1 DEF SettingsTypeOK, CallPoints
<1>4. /\ call_pal' \in [SettingSessions -> Stream] /\ call_pal'[i] = NewStream
      /\ \A j \in SettingSessions \ {i} : call_pal'[j] = call_pal[j]
      /\ pal_deaf' \subseteq SettingSessions
  BY <1>1, <1>2 DEF SettingsTypeOK, Stream, HeardFrom
<1>5. SettingsTypeOK'
  BY <1>1, <1>3, <1>4 DEF SettingsTypeOK, Stream, HeardFrom
<1>6. VolumeStored' /\ NoVolumeYet'
  BY <1>1, <1>2, <1>4 DEF SettingsInv, VolumeStored, NoVolumeYet
<1>7. \A j \in SettingSessions : SettingsHeld(j)' /\ VolumeHeld(j)'
  BY <1>1, <1>3, <1>4 DEF SettingsInv, SettingsHeld, HasHandle, VolumeHeld, VolumeAhead
<1> QED
  BY <1>5, <1>6, <1>7 DEF SettingsInv

-----------------------------------------------------------------------------
LEMMA SettingsNextInv == SettingsInv /\ [SettingsNext]_settingVars => SettingsInv'
<1> SUFFICES ASSUME SettingsInv, [SettingsNext]_settingVars PROVE SettingsInv'
  OBVIOUS
<1>1. ASSUME UNCHANGED settingVars PROVE SettingsInv'
  BY <1>1 DEF settingVars, cachedVars, routeVars, volumeCall, SettingsInv, SettingsTypeOK, VolumeStored,
              NoVolumeYet, SettingsHeld, HasHandle, VolumeHeld, VolumeAhead
<1> QED
  BY <1>1, SetTtyInv, SetEffectInv, SetHacInv, RouteCallsInv, SetCallModeInv, CallVolumeInv, StoreVolumeInv, LookAtHandleInv, SendVolumeInv,
     OpenCallInv, ApplyVolumeInv, StartCallInv, EndCallInv DEF SettingsNext

\* For any number of sessions and any devices, a call that is up has the settings made
\* before and during it, and the volume set last, even when it was set while the call
\* started; what it has is what was asked for, and volume boost is back when the call is
\* on a device that has it (AudioVoice.cpp:856-921, 1073-1094, 1147-1170); and the
\* variables have their types.
THEOREM SettingsCorrect == SettingsSpec => [](SettingsTypeOK /\ SettingsReach)
<1>1. SettingsInv => SettingsTypeOK /\ SettingsReach
  BY DEF SettingsInv, SettingsReach, SettingsHeld, HasAsked, VolumeHeld, VolumeAhead, IsActive, HasHandle,
         Idle
<1> QED
  BY <1>1, SettingsInitInv, SettingsNextInv, PTL DEF SettingsSpec

-----------------------------------------------------------------------------
(* The metadata for Bluetooth.                                            *)

\* What an update under way carries.
UpdateOK(d) ==
  update[d].step # "none" =>
    /\ update[d].stream \in listed /\ Dir(update[d].stream) = d
    /\ update[d].step = "copy" => update[d].tracks \subseteq OutputTracks \cup {"record"}

BtTypes ==
  /\ BtTypeOK /\ DOMAIN update = Dirs
  /\ \A d \in Dirs : UpdateOK(d)
  /\ call_at.step = "start" => call_at.session \in BtSessions
  /\ call_at.step \in {"lock", "send"} => call_at.dir \in Dirs

\* A stream that is not listed has no tracks.
UnlistedEmpty == \A s \in BtStreams \ listed : metadata[s] = {}

MutexHeld(d) ==
  /\ metadata_mutex[d] = "update" <=> update[d].step # "none"
  /\ metadata_mutex[d] = "call" <=> (call_at.step = "send" /\ call_at.dir = d)

\* What was gathered and is not sent yet is still what the streams have.
GatheredIsCurrent(d) ==
  d \notin untold =>
    /\ update[d].step = "send" => update[d].tracks = Aggregate(d, metadata)
    /\ call_at.step = "send" /\ call_at.dir = d => call_at.tracks = Aggregate(d, metadata)

\* No call is up, and the end of the last one is done with this direction.
Settled(d) ==
  /\ current_ = {}
  /\ \/ call_at.step = "idle"
     \/ call_at.step \in {"lock", "send"} /\ call_at.dir = "sink" /\ d = "source"

\* Then PAL has the tracks, or the update under way will send them.
SentIsCurrent(d) ==
  Settled(d) /\ d \notin untold =>
    /\ update[d].step = "copy" => ~update[d].voice_active
    /\ update[d].step # "send" => bt_pal[d] = Media(Aggregate(d, metadata))

BtInv ==
  /\ BtTypes
  /\ UnlistedEmpty
  /\ \A d \in Dirs : MutexHeld(d) /\ GatheredIsCurrent(d) /\ SentIsCurrent(d)

LEMMA BtInitInv == BtInit => BtInv
<1> SUFFICES ASSUME BtInit PROVE BtInv
  OBVIOUS
<1>1. BtTypes
  BY DEF BtInit, BtTypes, BtTypeOK, UpdateOK, NoTracks, NoUpdate, NoCall, Dirs
<1>2. UnlistedEmpty
  BY DEF BtInit, UnlistedEmpty, NoTracks
<1>3. \A d \in Dirs : MutexHeld(d) /\ GatheredIsCurrent(d)
  BY DEF BtInit, MutexHeld, GatheredIsCurrent, NoUpdate, NoCall
<1>4. \A d \in Dirs : Aggregate(d, metadata) = NoTracks
  BY DEF BtInit, Aggregate, NoTracks
<1>5. \A d \in Dirs : SentIsCurrent(d)
  BY <1>4 DEF BtInit, SentIsCurrent, NoUpdate
<1> QED
  BY <1>1, <1>2, <1>3, <1>5 DEF BtInv

\* Every direction has its streams.
LEMMA DirOf == \A s \in BtStreams, d \in Dirs : s \in OfDir(d) <=> Dir(s) = d
BY BtAssumption DEF BtStreams, Dirs, OfDir, Dir

\* The aggregate of a direction is that of the tracks of its listed streams.
LEMMA AggregateSame ==
  ASSUME NEW d \in Dirs, BtTypes, UnlistedEmpty, UnlistedEmpty',
         metadata' \in [BtStreams -> SUBSET (OutputTracks \cup {"record"})],
         \A s \in BtStreams : Dir(s) = d => metadata'[s] = metadata[s]
  PROVE  Aggregate(d, metadata)' = Aggregate(d, metadata)
<1>1. ASSUME NEW s \in BtStreams
      PROVE  (IF s \in listed' \cap OfDir(d) THEN metadata'[s] ELSE {})
              = (IF s \in listed \cap OfDir(d) THEN metadata[s] ELSE {})
  BY <1>1, DirOf DEF UnlistedEmpty
<1> QED
  BY <1>1 DEF Aggregate

LEMMA OpenStreamInv ==
  ASSUME BtInv, NEW s \in BtStreams, OpenStream(s)
  PROVE  BtInv'
<1>1. /\ listed' = listed \cup {s} /\ known' \subseteq Dirs
      /\ UNCHANGED <<metadata, metadata_mutex, update, current_, call_at, bt_pal, untold>>
  BY DEF OpenStream, BtInv, BtTypes, BtTypeOK, Dir, Dirs
<1>2. BtTypes'
  BY <1>1 DEF BtInv, BtTypes, BtTypeOK, UpdateOK, BtStreams, Dir
<1>3. UnlistedEmpty'
  BY <1>1 DEF BtInv, UnlistedEmpty
<1>4. \A d \in Dirs : Aggregate(d, metadata)' = Aggregate(d, metadata)
  BY <1>1, <1>3, AggregateSame DEF BtInv, BtTypes, BtTypeOK
<1>5. \A d \in Dirs : MutexHeld(d)' /\ GatheredIsCurrent(d)' /\ SentIsCurrent(d)'
  BY <1>1, <1>4 DEF BtInv, MutexHeld, GatheredIsCurrent, SentIsCurrent, Settled, Media
<1> QED
  BY <1>2, <1>3, <1>5 DEF BtInv

LEMMA CloseStreamInv ==
  ASSUME BtInv, NEW s \in BtStreams, CloseStream(s)
  PROVE  BtInv'
<1>1. /\ listed' = listed \ {s} /\ metadata' = [metadata EXCEPT ![s] = {}]
      /\ untold' = IF metadata[s] = {} THEN untold ELSE untold \cup {Dir(s)}
      /\ update[Dir(s)].step # "none" => update[Dir(s)].stream # s
      /\ UNCHANGED <<known, metadata_mutex, update, current_, call_at, bt_pal>>
  BY DEF CloseStream
<1>2. metadata' \in [BtStreams -> SUBSET (OutputTracks \cup {"record"})] /\ untold' \subseteq Dirs
  BY <1>1 DEF BtInv, BtTypes, BtTypeOK, Dir, Dirs
<1>3. \A d \in Dirs : UpdateOK(d)'
  BY <1>1 DEF BtInv, BtTypes, UpdateOK, Dir
<1>4. BtTypes'
  BY <1>1, <1>2, <1>3 DEF BtInv, BtTypes, BtTypeOK
<1>5. UnlistedEmpty'
  BY <1>1, <1>2 DEF BtInv, BtTypes, BtTypeOK, UnlistedEmpty
<1>6. ASSUME NEW d \in Dirs, d \notin untold'
      PROVE  d \notin untold /\ Aggregate(d, metadata)' = Aggregate(d, metadata)
  <2>1. d \notin untold /\ \A t \in BtStreams : Dir(t) = d => metadata'[t] = metadata[t]
    BY <1>1, <1>6 DEF BtInv, BtTypes, BtTypeOK
  <2> QED
    BY <1>2, <1>5, <2>1, AggregateSame DEF BtInv
<1>7. \A d \in Dirs : MutexHeld(d)' /\ GatheredIsCurrent(d)' /\ SentIsCurrent(d)'
  BY <1>1, <1>6 DEF BtInv, MutexHeld, GatheredIsCurrent, SentIsCurrent, Settled, Media
<1> QED
  BY <1>4, <1>5, <1>7 DEF BtInv

\* Steps that leave the streams and their tracks alone.
LEMMA StreamsKept ==
  ASSUME BtInv, UNCHANGED <<listed, metadata, known>>
  PROVE  UnlistedEmpty' /\ \A d \in Dirs : Aggregate(d, metadata)' = Aggregate(d, metadata)
BY DEF BtInv, UnlistedEmpty, Aggregate

LEMMA UpdateInv ==
  ASSUME BtInv, NEW s \in BtStreams, NEW tracks \in SUBSET TracksOf(s), UpdateMetadata(s, tracks)
  PROVE  BtInv'
<1> DEFINE at == Dir(s)
           new == [step |-> "copy", stream |-> s, tracks |-> tracks, voice_active |-> current_ # {}]
<1>1. /\ s \in listed /\ update[at].step = "none" /\ metadata_mutex[at] = "free" /\ at \in Dirs
      /\ metadata_mutex' = [metadata_mutex EXCEPT ![at] = "update"]
      /\ update' = [update EXCEPT ![at] = new]
      /\ UNCHANGED <<listed, metadata, known, current_, call_at, bt_pal, untold>>
  BY DEF UpdateMetadata, Dir, Dirs
<1>2. tracks \subseteq OutputTracks \cup {"record"}
  BY DEF TracksOf
<1>3. /\ update'[at] = new /\ metadata_mutex'[at] = "update"
      /\ \A d \in Dirs \ {at} : update'[d] = update[d] /\ metadata_mutex'[d] = metadata_mutex[d]
  BY <1>1 DEF BtInv, BtTypes, BtTypeOK
<1>4. BtTypes'
  <2>1. \A d \in Dirs : UpdateOK(d)'
    BY <1>1, <1>2, <1>3 DEF BtInv, BtTypes, UpdateOK, Dir
  <2> QED
    BY <1>1, <1>3, <2>1 DEF BtInv, BtTypes, BtTypeOK
<1>5. UnlistedEmpty' /\ \A d \in Dirs : Aggregate(d, metadata)' = Aggregate(d, metadata)
  BY <1>1, StreamsKept
<1>6. \A d \in Dirs : MutexHeld(d)'
  BY <1>1, <1>3 DEF BtInv, MutexHeld
<1>7. new.step = "copy" /\ (current_ = {} => ~new.voice_active)
  OBVIOUS
<1> HIDE DEF at, new
<1>8. \A d \in Dirs : GatheredIsCurrent(d)'
  BY <1>1, <1>3, <1>5, <1>7 DEF BtInv, GatheredIsCurrent
<1>9. \A d \in Dirs \ {at} : SentIsCurrent(d)'
  BY <1>1, <1>3, <1>5 DEF BtInv, SentIsCurrent, Settled, Media
<1>10. SentIsCurrent(at)'
  BY <1>1, <1>3, <1>5, <1>7 DEF BtInv, SentIsCurrent, Settled, Media, at
<1> QED
  BY <1>4, <1>5, <1>6, <1>8, <1>9, <1>10 DEF BtInv

LEMMA CopyTracksInv ==
  ASSUME BtInv, NEW d \in Dirs, CopyTracks(d)
  PROVE  BtInv'
<1> DEFINE s == update[d].stream
<1>1. /\ update[d].step = "copy" /\ s \in listed /\ s \in BtStreams /\ Dir(s) = d
      /\ metadata_mutex[d] = "update"
      /\ UNCHANGED <<listed, known, current_, call_at, bt_pal>>
  BY DEF CopyTracks, BtInv, BtTypes, BtTypeOK, UpdateOK, MutexHeld
<1>2. PICK communicating \in BOOLEAN :
        metadata' = [metadata EXCEPT ![s] = KeptTracks(update[d], communicating)]
  BY DEF CopyTracks
<1>3. KeptTracks(update[d], communicating) \subseteq OutputTracks \cup {"record"}
  BY <1>1 DEF KeptTracks, BtInv, BtTypes, UpdateOK
<1>4. /\ metadata' \in [BtStreams -> SUBSET (OutputTracks \cup {"record"})]
      /\ \A t \in BtStreams : Dir(t) # d => metadata'[t] = metadata[t]
      /\ \A t \in BtStreams : t # s => metadata'[t] = metadata[t]
  BY <1>1, <1>2, <1>3 DEF BtInv, BtTypes, BtTypeOK
<1> HIDE DEF s
<1>5. UnlistedEmpty'
  BY <1>1, <1>4 DEF BtInv, UnlistedEmpty
<1>6. \A e \in Dirs \ {d} : Aggregate(e, metadata)' = Aggregate(e, metadata)
  BY <1>4, <1>5, AggregateSame DEF BtInv
<1>7. CASE update[d].voice_active
  <2>1. /\ update' = [update EXCEPT ![d] = NoUpdate] /\ UNCHANGED untold
        /\ metadata_mutex' = [metadata_mutex EXCEPT ![d] = "free"]
    BY <1>7 DEF CopyTracks
  <2>2. /\ update'[d] = NoUpdate /\ metadata_mutex'[d] = "free" /\ NoUpdate.step = "none"
        /\ \A e \in Dirs \ {d} : update'[e] = update[e] /\ metadata_mutex'[e] = metadata_mutex[e]
    BY <2>1 DEF BtInv, BtTypes, BtTypeOK, NoUpdate
  <2>3. \A e \in Dirs : UpdateOK(e)'
    BY <1>1, <2>2 DEF BtInv, BtTypes, UpdateOK, Dir
  <2>4. BtTypes'
    BY <1>1, <1>4, <2>1, <2>2, <2>3 DEF BtInv, BtTypes, BtTypeOK
  <2>5. \A e \in Dirs : MutexHeld(e)'
    BY <1>1, <2>2 DEF BtInv, MutexHeld
  <2>6. \A e \in Dirs \ {d} : GatheredIsCurrent(e)' /\ SentIsCurrent(e)'
    BY <1>1, <1>6, <2>1, <2>2 DEF BtInv, GatheredIsCurrent, SentIsCurrent, Settled, Media
  <2>7. GatheredIsCurrent(d)'
    BY <1>1, <2>1, <2>2 DEF BtInv, GatheredIsCurrent, MutexHeld
  <2>8. SentIsCurrent(d)'
    BY <1>1, <1>7, <2>1 DEF BtInv, SentIsCurrent, Settled
  <2> QED
    BY <1>5, <2>4, <2>5, <2>6, <2>7, <2>8 DEF BtInv
<1>8. CASE ~update[d].voice_active
  <2> DEFINE new == [step |-> "send", stream |-> update[d].stream,
                     tracks |-> Aggregate(d, metadata')]
  <2>1. /\ update' = [update EXCEPT ![d] = new] /\ untold' = untold \ {d}
        /\ UNCHANGED metadata_mutex
    BY <1>8 DEF CopyTracks
  <2>2. update'[d] = new /\ \A e \in Dirs \ {d} : update'[e] = update[e]
    BY <2>1 DEF BtInv, BtTypes
  <2>3. Aggregate(d, metadata') = Aggregate(d, metadata)'
    BY <1>1 DEF Aggregate
  <2>4. /\ update'[d].step = "send" /\ update'[d].stream = s
        /\ update'[d].tracks = Aggregate(d, metadata)'
    BY <2>2, <2>3 DEF s
  <2> HIDE DEF new
  <2>5. \A e \in Dirs : UpdateOK(e)'
    BY <1>1, <2>2, <2>4 DEF BtInv, BtTypes, UpdateOK, Dir
  <2>6. BtTypes'
    BY <1>1, <1>4, <2>1, <2>2, <2>4, <2>5 DEF BtInv, BtTypes, BtTypeOK
  <2>7. \A e \in Dirs : MutexHeld(e)'
    BY <1>1, <2>1, <2>2, <2>4 DEF BtInv, MutexHeld
  <2>8. \A e \in Dirs \ {d} : GatheredIsCurrent(e)' /\ SentIsCurrent(e)'
    BY <1>1, <1>6, <2>1, <2>2 DEF BtInv, GatheredIsCurrent, SentIsCurrent, Settled, Media
  <2>9. GatheredIsCurrent(d)' /\ SentIsCurrent(d)'
    BY <1>1, <2>4 DEF BtInv, GatheredIsCurrent, SentIsCurrent, MutexHeld
  <2> QED
    BY <1>5, <2>6, <2>7, <2>8, <2>9 DEF BtInv
<1> QED
  BY <1>7, <1>8

\* An aggregate that is sent is what PAL has, or the direction is on record as untold.
LEMMA SentStep ==
  ASSUME BtTypes, NEW d \in Dirs, NEW tracks, SendAggregate(d, tracks)
  PROVE  /\ DOMAIN bt_pal' = Dirs /\ untold' \subseteq Dirs /\ untold \subseteq untold'
         /\ d \notin untold' => bt_pal'[d] = Media(tracks)
         /\ \A e \in Dirs \ {d} : bt_pal'[e] = bt_pal[e] /\ (e \in untold' <=> e \in untold)
BY DEF SendAggregate, BtTypes, BtTypeOK

LEMMA SendTracksInv ==
  ASSUME BtInv, NEW d \in Dirs, SendTracks(d)
  PROVE  BtInv'
<1>1. /\ update[d].step = "send" /\ metadata_mutex[d] = "update"
      /\ update' = [update EXCEPT ![d] = NoUpdate]
      /\ metadata_mutex' = [metadata_mutex EXCEPT ![d] = "free"]
      /\ UNCHANGED <<listed, metadata, known, current_, call_at>>
  BY DEF SendTracks, BtInv, MutexHeld
<1>2. /\ update'[d] = NoUpdate /\ metadata_mutex'[d] = "free" /\ NoUpdate.step = "none"
      /\ \A e \in Dirs \ {d} : update'[e] = update[e] /\ metadata_mutex'[e] = metadata_mutex[e]
  BY <1>1 DEF BtInv, BtTypes, BtTypeOK, NoUpdate
<1>3. /\ DOMAIN bt_pal' = Dirs /\ untold' \subseteq Dirs /\ untold \subseteq untold'
      /\ d \notin untold' => bt_pal'[d] = Media(update[d].tracks)
      /\ \A e \in Dirs \ {d} : bt_pal'[e] = bt_pal[e] /\ (e \in untold' <=> e \in untold)
  BY SentStep DEF SendTracks, BtInv
<1>4. UnlistedEmpty' /\ \A e \in Dirs : Aggregate(e, metadata)' = Aggregate(e, metadata)
  BY <1>1, StreamsKept
<1>5. \A e \in Dirs : UpdateOK(e)'
  BY <1>1, <1>2 DEF BtInv, BtTypes, UpdateOK, Dir
<1>6. BtTypes'
  BY <1>1, <1>2, <1>3, <1>5 DEF BtInv, BtTypes, BtTypeOK
<1>7. \A e \in Dirs : MutexHeld(e)'
  BY <1>1, <1>2 DEF BtInv, MutexHeld
<1>8. ASSUME NEW e \in Dirs \ {d} PROVE GatheredIsCurrent(e)' /\ SentIsCurrent(e)'
  <2>1. /\ update'[e] = update[e] /\ bt_pal'[e] = bt_pal[e] /\ (e \in untold' <=> e \in untold)
        /\ (Settled(e)' <=> Settled(e)) /\ Aggregate(e, metadata)' = Aggregate(e, metadata)
    BY <1>1, <1>2, <1>3, <1>4 DEF Settled
  <2> QED
    BY <1>1, <2>1 DEF BtInv, GatheredIsCurrent, SentIsCurrent, Media
<1>9. GatheredIsCurrent(d)' /\ SentIsCurrent(d)'
  BY <1>1, <1>2, <1>3, <1>4 DEF BtInv, GatheredIsCurrent, SentIsCurrent, MutexHeld, Media
<1> QED
  BY <1>4, <1>6, <1>7, <1>8, <1>9 DEF BtInv

-----------------------------------------------------------------------------
\* The steps of calls that leave the streams and their updates alone and do not
\* gather or send: nothing is settled after them, or nobody was told.
LEMMA CallChangesInv ==
  ASSUME BtInv, UNCHANGED <<listed, metadata, known, metadata_mutex, update>>,
         current_' \subseteq BtSessions, DOMAIN bt_pal' = Dirs,
         untold \subseteq untold', untold' \subseteq Dirs,
         call_at.step # "send", call_at'.step \in {"idle", "start", "lock"},
         call_at'.step = "start" => call_at'.session \in BtSessions,
         call_at'.step = "lock" => call_at'.dir \in Dirs,
         \A d \in Dirs : Settled(d)' => d \in untold' \/ (Settled(d) /\ bt_pal'[d] = bt_pal[d])
  PROVE  BtInv'
<1>1. UnlistedEmpty' /\ \A d \in Dirs : Aggregate(d, metadata)' = Aggregate(d, metadata)
  BY StreamsKept
<1>2. BtTypes'
  BY DEF BtInv, BtTypes, BtTypeOK, UpdateOK, Dir
<1>3. \A d \in Dirs : MutexHeld(d)'
  BY DEF BtInv, MutexHeld
<1>4. \A d \in Dirs : GatheredIsCurrent(d)'
  BY <1>1 DEF BtInv, GatheredIsCurrent
<1>5. \A d \in Dirs : SentIsCurrent(d)'
  BY <1>1 DEF BtInv, SentIsCurrent, Media
<1> QED
  BY <1>1, <1>2, <1>3, <1>4, <1>5 DEF BtInv

LEMMA StartVoiceInv ==
  ASSUME BtInv, NEW i \in BtSessions, StartVoice(i)
  PROVE  BtInv'
<1>1. /\ call_at.step = "idle" /\ call_at'.step = "start"
      /\ call_at'.session = i /\ DOMAIN bt_pal' = Dirs
      /\ UNCHANGED <<listed, metadata, known, metadata_mutex, update, current_, untold>>
  BY DEF StartVoice, AnnounceCall, NoCall
<1>2. \A d \in Dirs : ~Settled(d)'
  BY <1>1 DEF Settled
<1> QED
  BY <1>1, <1>2, CallChangesInv DEF BtInv, BtTypes, BtTypeOK

LEMMA VoiceStartedInv ==
  ASSUME BtInv, VoiceStarted
  PROVE  BtInv'
<1>1. /\ call_at.step = "start" /\ call_at'.step = "idle"
      /\ UNCHANGED <<listed, metadata, known, metadata_mutex, update, bt_pal>>
  BY DEF VoiceStarted, NoCall
<1>2. \/ current_' = current_ \cup {call_at.session} /\ UNCHANGED untold
      \/ untold' = Dirs /\ UNCHANGED current_
  BY DEF VoiceStarted
<1>3. \A d \in Dirs : Settled(d)' => d \in untold'
  BY <1>2 DEF Settled
<1> QED
  BY <1>1, <1>2, <1>3, CallChangesInv DEF BtInv, BtTypes, BtTypeOK

LEMMA StopVoiceInv ==
  ASSUME BtInv, NEW i \in BtSessions, StopVoice(i)
  PROVE  BtInv'
<1>1. /\ call_at.step = "idle" /\ call_at' = [step |-> "lock", dir |-> "source"]
      /\ current_' \in {current_, current_ \ {i}}
      /\ UNCHANGED <<listed, metadata, known, metadata_mutex, update, bt_pal, untold>>
  BY DEF StopVoice, NoCall
<1>2. \A d \in Dirs : ~Settled(d)'
  BY <1>1 DEF Settled
<1> QED
  BY <1>1, <1>2, CallChangesInv DEF BtInv, BtTypes, BtTypeOK, Dirs

LEMMA RouteCallInv ==
  ASSUME BtInv, RouteCall
  PROVE  BtInv'
<1>1. /\ call_at.step = "idle" /\ current_ # {} /\ DOMAIN bt_pal' = Dirs
      /\ UNCHANGED <<listed, metadata, known, metadata_mutex, update, current_, call_at, untold>>
  BY DEF RouteCall, AnnounceCall, NoCall
<1>2. \A d \in Dirs : ~Settled(d)'
  BY <1>1 DEF Settled
<1> QED
  BY <1>1, <1>2, CallChangesInv DEF BtInv, BtTypes, BtTypeOK

\* What is left to do after a direction: the sinks, or nothing.
LEMMA AfterRestoreStep ==
  ASSUME NEW d \in Dirs
  PROVE  /\ AfterRestore(d).step \in {"idle", "lock"}
         /\ AfterRestore(d).step = "idle" => d = "sink"
         /\ AfterRestore(d).step = "lock" => d = "source" /\ AfterRestore(d).dir = "sink"
BY DEF AfterRestore, NoCall, Dirs

LEMMA GatherKeptInv ==
  ASSUME BtInv, GatherKept
  PROVE  BtInv'
<1>1. PICK at \in Dirs :
        /\ call_at.step = "lock" /\ at = call_at.dir
        /\ UNCHANGED <<listed, metadata, known, update, current_, bt_pal>>
  BY DEF GatherKept, BtInv, BtTypes
<1>2. UnlistedEmpty' /\ \A d \in Dirs : Aggregate(d, metadata)' = Aggregate(d, metadata)
  BY <1>1, StreamsKept
<1>3. CASE at \in known
  <2>1. /\ metadata_mutex[at] = "free"
        /\ metadata_mutex' = [metadata_mutex EXCEPT ![at] = "call"]
        /\ call_at' = [step |-> "send", dir |-> at, tracks |-> Aggregate(at, metadata)]
        /\ untold' = untold \ {at}
    BY <1>1, <1>3 DEF GatherKept
  <2>2. /\ metadata_mutex'[at] = "call"
        /\ \A d \in Dirs \ {at} : metadata_mutex'[d] = metadata_mutex[d]
    BY <1>1, <2>1 DEF BtInv, BtTypes, BtTypeOK
  <2>3. /\ call_at'.step = "send" /\ call_at'.dir = at
        /\ call_at'.tracks = Aggregate(at, metadata)'
    BY <1>1, <1>2, <2>1
  <2>4. BtTypes'
    BY <1>1, <2>1, <2>2, <2>3 DEF BtInv, BtTypes, BtTypeOK, UpdateOK, Dir
  <2>5. \A d \in Dirs : MutexHeld(d)'
    BY <1>1, <2>1, <2>2, <2>3 DEF BtInv, MutexHeld
  <2>6. update[at].step = "none"
    BY <1>1, <2>1 DEF BtInv, MutexHeld, BtTypes, BtTypeOK
  <2>7. \A d \in Dirs : GatheredIsCurrent(d)'
    BY <1>1, <1>2, <2>1, <2>3, <2>6 DEF BtInv, GatheredIsCurrent
  <2>8. ASSUME NEW d \in Dirs, Settled(d)' PROVE SentIsCurrent(d)'
    <3>1. at = "sink" /\ d = "source"
      BY <2>3, <2>8 DEF Settled
    <3>2. Settled(d) /\ (d \in untold' <=> d \in untold)
      BY <1>1, <2>1, <2>8, <3>1 DEF Settled
    <3> QED
      BY <1>1, <1>2, <3>2 DEF BtInv, SentIsCurrent, Media
  <2> QED
    BY <1>2, <2>4, <2>5, <2>7, <2>8 DEF BtInv, SentIsCurrent
<1>4. CASE at \notin known
  <2>1. call_at' = AfterRestore(at) /\ untold' = untold \cup {at} /\ UNCHANGED metadata_mutex
    BY <1>1, <1>4 DEF GatherKept
  <2>2. /\ call_at'.step \in {"idle", "lock"}
        /\ call_at'.step = "idle" => at = "sink"
        /\ call_at'.step = "lock" => at = "source" /\ call_at'.dir = "sink"
    BY <1>1, <2>1, AfterRestoreStep
  <2>3. ASSUME NEW d \in Dirs, Settled(d)' PROVE d \in untold' \/ Settled(d)
    BY <1>1, <2>1, <2>2, <2>3 DEF Settled, Dirs
  <2> QED
    BY <1>1, <2>1, <2>2, <2>3, CallChangesInv DEF BtInv, BtTypes, BtTypeOK, Dirs
<1> QED
  BY <1>3, <1>4

LEMMA SendKeptInv ==
  ASSUME BtInv, SendKept
  PROVE  BtInv'
<1>1. PICK at \in Dirs :
        /\ call_at.step = "send" /\ at = call_at.dir /\ metadata_mutex[at] = "call"
        /\ metadata_mutex' = [metadata_mutex EXCEPT ![at] = "free"]
        /\ call_at' = AfterRestore(at)
        /\ UNCHANGED <<listed, metadata, known, update, current_>>
  BY DEF SendKept, BtInv, BtTypes, MutexHeld
<1>2. /\ DOMAIN bt_pal' = Dirs /\ untold' \subseteq Dirs /\ untold \subseteq untold'
      /\ at \notin untold' => bt_pal'[at] = Media(call_at.tracks)
      /\ \A d \in Dirs \ {at} : bt_pal'[d] = bt_pal[d] /\ (d \in untold' <=> d \in untold)
  BY <1>1, SentStep DEF SendKept, BtInv
<1>3. UnlistedEmpty' /\ \A d \in Dirs : Aggregate(d, metadata)' = Aggregate(d, metadata)
  BY <1>1, StreamsKept
<1>4. /\ metadata_mutex'[at] = "free"
      /\ \A d \in Dirs \ {at} : metadata_mutex'[d] = metadata_mutex[d]
  BY <1>1 DEF BtInv, BtTypes, BtTypeOK
<1>5. /\ call_at'.step \in {"idle", "lock"}
      /\ call_at'.step = "idle" => at = "sink"
      /\ call_at'.step = "lock" => at = "source" /\ call_at'.dir = "sink"
  BY <1>1, AfterRestoreStep
<1>6. update[at].step = "none"
  BY <1>1 DEF BtInv, MutexHeld, BtTypes, BtTypeOK
<1>7. at \notin untold' => bt_pal'[at] = Media(Aggregate(at, metadata))
  BY <1>1, <1>2 DEF BtInv, GatheredIsCurrent
<1>8. BtTypes'
  BY <1>1, <1>2, <1>4, <1>5 DEF BtInv, BtTypes, BtTypeOK, UpdateOK, Dir, Dirs
<1>9. \A d \in Dirs : MutexHeld(d)'
  BY <1>1, <1>4, <1>5, <1>6 DEF BtInv, MutexHeld
<1>10. \A d \in Dirs : GatheredIsCurrent(d)'
  BY <1>1, <1>2, <1>3, <1>5 DEF BtInv, GatheredIsCurrent
<1>11. \A d \in Dirs \ {at} : Settled(d)' => Settled(d)
  BY <1>1, <1>5 DEF Settled, Dirs
<1>12. \A d \in Dirs \ {at} : SentIsCurrent(d)'
  BY <1>1, <1>2, <1>3, <1>11 DEF BtInv, SentIsCurrent, Media
<1>13. SentIsCurrent(at)'
  BY <1>1, <1>3, <1>6, <1>7 DEF SentIsCurrent, Media
<1> QED
  BY <1>3, <1>8, <1>9, <1>10, <1>12, <1>13 DEF BtInv

LEMMA BtNextInv == BtInv /\ [BtNext]_btVars => BtInv'
<1> SUFFICES ASSUME BtInv, [BtNext]_btVars PROVE BtInv'
  OBVIOUS
<1>1. ASSUME UNCHANGED btVars PROVE BtInv'
  <2>1. UNCHANGED <<listed, metadata, known, metadata_mutex, update, current_, call_at, bt_pal, untold>>
    BY <1>1 DEF btVars
  <2>2. UnlistedEmpty' /\ \A d \in Dirs : Aggregate(d, metadata)' = Aggregate(d, metadata)
    BY <2>1, StreamsKept
  <2>3. BtTypes'
    BY <2>1 DEF BtInv, BtTypes, BtTypeOK, UpdateOK, Dir
  <2> QED
    BY <2>1, <2>2, <2>3 DEF BtInv, MutexHeld, GatheredIsCurrent, SentIsCurrent, Settled, Media
<1> QED
  BY <1>1, OpenStreamInv, CloseStreamInv, UpdateInv, CopyTracksInv, SendTracksInv, StartVoiceInv,
     VoiceStartedInv, StopVoiceInv, RouteCallInv, GatherKeptInv, SendKeptInv DEF BtNext

\* For any streams, tracks and sessions, no update of the tracks is lost to a call that
\* ends at the same time or to the update of another stream (AudioStream.cpp:993-1048,
\* AudioVoice.cpp:1209-1232); and the variables have their types.
THEOREM MetadataCorrect == BtSpec => [](BtTypeOK /\ MetadataCurrent)
<1>1. BtInv => BtTypeOK /\ MetadataCurrent
  BY DEF BtInv, BtTypes, MetadataCurrent, SentIsCurrent, Settled, NoUpdate, NoCall
<1> QED
  BY <1>1, BtInitInv, BtNextInv, PTL DEF BtSpec

-----------------------------------------------------------------------------
(* LC3.  While LC3 is off no field is of a round, because bt_ble clears    *)
(* them; so none can be there from an earlier round when the next begins.  *)

FieldsCurrent ==
  \A f \in Lc3Fields :
    /\ btsco_lc3_cfg[f] # "earlier"
    /\ ~bt_lc3_speech_enabled => btsco_lc3_cfg[f] # "round"

Lc3Typed ==
  /\ btsco_lc3_cfg \in [Lc3Fields -> Origins]
  /\ lc3_sent \in [Lc3Fields -> Origins]
  /\ bt_lc3_speech_enabled \in BOOLEAN

Lc3Inv == Lc3Typed /\ FieldsCurrent /\ Lc3OfThisRound

LEMMA Lc3InitInv == ParametersInit => Lc3Inv
BY DEF ParametersInit, Lc3Inv, Lc3Typed, FieldsCurrent, Lc3OfThisRound, NoLc3, Origins

\* Fields that are current stay so when more arrive, and what they complete is of this round.
LEMMA Lc3KeysStep ==
  ASSUME Lc3Inv, NEW cfg \in [Lc3Fields -> Origins], NEW on \in BOOLEAN,
         NEW fields \in SUBSET Lc3Fields,
         \A f \in Lc3Fields : cfg[f] # "earlier" /\ (~on => cfg[f] # "round"),
         Lc3Keys(cfg, on, fields), bt_lc3_speech_enabled' = on
  PROVE  Lc3Inv'
<1> DEFINE new == [f \in Lc3Fields |->
                     IF f \in fields THEN IF on THEN "round" ELSE "between" ELSE cfg[f]]
           complete == on /\ \A f \in Lc3Required : new[f] # "absent"
<1>1. /\ new \in [Lc3Fields -> Origins]
      /\ \A f \in Lc3Fields : new[f] # "earlier" /\ (~on => new[f] # "round")
  BY DEF Origins
<1>2. NoLc3 \in [Lc3Fields -> Origins] /\ \A f \in Lc3Fields : NoLc3[f] = "absent"
  BY DEF NoLc3, Origins
<1>3. /\ btsco_lc3_cfg' = IF complete THEN NoLc3 ELSE new
      /\ lc3_sent' = IF complete THEN new ELSE lc3_sent
  BY DEF Lc3Keys
<1>4. complete => \A f \in Lc3Required : new[f] # "absent"
  OBVIOUS
<1> HIDE DEF new, complete
<1>5. Lc3Typed' /\ FieldsCurrent'
  BY <1>1, <1>2, <1>3 DEF Lc3Inv, Lc3Typed, FieldsCurrent
<1>6. Lc3OfThisRound'
  BY <1>1, <1>3, <1>4 DEF Lc3Inv, Lc3OfThisRound
<1> QED
  BY <1>5, <1>6 DEF Lc3Inv

LEMMA Lc3NextInv == Lc3Inv /\ [ParametersNext]_parameterVars => Lc3Inv'
<1> SUFFICES ASSUME Lc3Inv, [ParametersNext]_parameterVars PROVE Lc3Inv'
  OBVIOUS
<1>1. ASSUME NEW fields \in SUBSET Lc3Fields, SetLc3(fields) PROVE Lc3Inv'
  BY <1>1, Lc3KeysStep DEF SetLc3, Lc3Inv, Lc3Typed, FieldsCurrent
<1>2. ASSUME NEW fields \in SUBSET Lc3Fields, NEW on \in BOOLEAN, SetBle(on, fields)
      PROVE  Lc3Inv'
  <2>1. /\ FieldsAfterBle(on) \in [Lc3Fields -> Origins]
        /\ \A f \in Lc3Fields : /\ FieldsAfterBle(on)[f] # "earlier"
                                /\ ~on => FieldsAfterBle(on)[f] # "round"
    <3>1. CASE ~on
      BY <3>1 DEF FieldsAfterBle, NoLc3, Origins
    <3>2. CASE on /\ bt_lc3_speech_enabled
      BY <3>2 DEF FieldsAfterBle, Lc3Inv, Lc3Typed, FieldsCurrent
    <3>3. CASE on /\ ~bt_lc3_speech_enabled
      BY <3>3 DEF FieldsAfterBle, NextRound, Lc3Inv, Lc3Typed, FieldsCurrent, Origins
    <3> QED
      BY <3>1, <3>2, <3>3
  <2> QED
    BY <1>2, <2>1, Lc3KeysStep DEF SetBle
<1>3. ASSUME ConnectionNext \/ RotationNext \/ UNCHANGED parameterVars PROVE Lc3Inv'
  <2>1. UNCHANGED lc3Vars
    BY <1>3 DEF ConnectionNext, RotationNext, parameterVars, ConnectAlreadyAdded, ConnectDevice,
                DisconnectDevice, StreamParameters, SetRotation, SetScreenRotation
  <2> QED
    BY <2>1 DEF lc3Vars, Lc3Inv, Lc3Typed, FieldsCurrent, Lc3OfThisRound
<1> QED
  BY <1>1, <1>2, <1>3 DEF ParametersNext, Lc3Next

\* A configuration that is sent has all its required fields and no field of an earlier
\* round, for any set of fields and any order of them with bt_ble (AudioDevice.cpp:1934).
THEOREM Lc3Correct == ParametersSpec => []Lc3OfThisRound
<1>1. Lc3Inv => Lc3OfThisRound
  BY DEF Lc3Inv
<1> QED
  BY <1>1, Lc3InitInv, Lc3NextInv, PTL DEF ParametersSpec

-----------------------------------------------------------------------------
(* Connections and rotations.  What PAL has connected is what some device  *)
(* that is still attached stands for.                                      *)

\* The devices of PAL an attached device stands for, whatever the streams did to dp.
StandsFor(device) ==
  IF device.kind = "AUX_DIGITAL" THEN {<<"AUX_DIGITAL", device.at>>}
  ELSE {<<device.kind, device.at>>} \cup
       (IF device.kind = "OUT_USB_HEADSET" THEN {<<"IN_USB", device.at>>} ELSE {})

Known(c) == \E device \in attached : c \in StandsFor(device)

ConnectionInv ==
  /\ attached \subseteq AudioDevices
  /\ dp.controller \in {-1, 0} /\ dp = [controller |-> dp.controller, stream |-> dp.stream]
  /\ ~pal_refused =>
       \A c \in pal_connected : Known(c) \/ (c[1] = "AUX_DIGITAL" /\ dp_lost)

RotationInv ==
  /\ current_rotation = asked_rotation
  /\ ~pal_refused => pal_rotation = asked_rotation /\ pal_screen = screen_rotation

LEMMA ReleasedFromInv == ConnectionInv /\ RotationInv => PalReleased
<1> SUFFICES ASSUME ConnectionInv, RotationInv, ~pal_refused
             PROVE  /\ attached = {} => {c \in pal_connected : c[1] # "AUX_DIGITAL" \/ ~dp_lost} = {}
                    /\ pal_rotation = asked_rotation /\ pal_screen = screen_rotation
  BY DEF PalReleased
<1>1. attached = {} => {c \in pal_connected : c[1] # "AUX_DIGITAL" \/ ~dp_lost} = {}
  BY DEF ConnectionInv, Known
<1> QED
  BY <1>1 DEF RotationInv

LEMMA PalInitInv == ParametersInit => ConnectionInv /\ RotationInv
BY DEF ParametersInit, ConnectionInv, RotationInv

\* A device attached with the controller at 0 is the one PAL is told of.
LEMMA PalDevicesAre ==
  ASSUME NEW device \in AudioDevices, NEW port, port.controller = 0,
         device.kind = "AUX_DIGITAL" => port.stream = device.at
  PROVE  PalDevices(device, port) = StandsFor(device)
<1>1. CASE device.kind = "AUX_DIGITAL"
  <2>1. device.at \in {0, 1}
    BY <1>1 DEF AudioDevices, UsbKinds, Monitors
  <2>2. DpDevice(port) = device.at
    BY <1>1, <2>1 DEF DpDevice, MAX_STREAMS_PER_CONTROLLER
  <2> QED
    BY <1>1, <2>2 DEF PalDevices, StandsFor
<1>2. CASE device.kind # "AUX_DIGITAL"
  BY <1>2 DEF PalDevices, StandsFor
<1> QED
  BY <1>1, <1>2

LEMMA ConnectInv ==
  ASSUME ConnectionInv, NEW device \in AudioDevices, ConnectDevice(device)
  PROVE  ConnectionInv'
<1>1. /\ attached' = attached \cup {device} /\ dp_lost' = dp_lost
      /\ TellPal(PalDevices(device, dp'), TRUE)
  BY DEF ConnectDevice
<1>2. /\ dp' = IF IsUsb(device) THEN dp ELSE [controller |-> 0, stream |-> device.at]
      /\ IsUsb(device) <=> device.kind # "AUX_DIGITAL"
  BY DEF ConnectDevice, IsUsb, AudioDevices, UsbKinds
<1>3. PalDevices(device, dp') = StandsFor(device)
  <2>1. CASE IsUsb(device)
    BY <1>2, <2>1 DEF PalDevices, StandsFor
  <2>2. CASE ~IsUsb(device)
    BY <1>2, <2>2, PalDevicesAre
  <2> QED
    BY <2>1, <2>2
<1>4. PICK taken \in SUBSET StandsFor(device) :
        /\ pal_connected' = pal_connected \cup taken
        /\ pal_refused' = (pal_refused \/ taken # StandsFor(device))
  BY <1>1, <1>3 DEF TellPal
<1>5. attached' \subseteq AudioDevices
  BY <1>1 DEF ConnectionInv
<1>6. dp'.controller \in {-1, 0} /\ dp' = [controller |-> dp'.controller, stream |-> dp'.stream]
  BY <1>2 DEF ConnectionInv
<1>7. ASSUME ~pal_refused', NEW c \in pal_connected'
      PROVE  Known(c)' \/ (c[1] = "AUX_DIGITAL" /\ dp_lost')
  <2>1. CASE c \in taken
    BY <1>1, <2>1 DEF Known
  <2>2. CASE c \in pal_connected
    BY <1>1, <1>4, <1>7, <2>2 DEF ConnectionInv, Known
  <2> QED
    BY <1>4, <1>7, <2>1, <2>2
<1> QED
  BY <1>5, <1>6, <1>7 DEF ConnectionInv

LEMMA DisconnectInv ==
  ASSUME ConnectionInv, NEW device \in AudioDevices, DisconnectDevice(device)
  PROVE  ConnectionInv'
<1>1. /\ attached' = attached \ {device}
      /\ TellPal(PalDevices(device, dp'), FALSE)
      /\ dp' = IF IsUsb(device) THEN dp ELSE [dp EXCEPT !.stream = device.at]
      /\ dp_lost' = (dp_lost \/ (~IsUsb(device) /\ dp.controller = -1))
  BY DEF DisconnectDevice
<1>2. IsUsb(device) <=> device.kind # "AUX_DIGITAL"
  BY DEF IsUsb, AudioDevices, UsbKinds
<1>3. dp'.controller \in {-1, 0} /\ dp' = [controller |-> dp'.controller, stream |-> dp'.stream]
  BY <1>1 DEF ConnectionInv
<1>4. ~(~IsUsb(device) /\ dp.controller = -1) => PalDevices(device, dp') = StandsFor(device)
  <2>1. CASE IsUsb(device)
    BY <1>2, <2>1 DEF PalDevices, StandsFor
  <2>2. CASE ~IsUsb(device) /\ dp.controller = 0
    <3>1. dp'.controller = 0 /\ dp'.stream = device.at
      BY <1>1, <2>2 DEF ConnectionInv
    <3> QED
      BY <3>1, PalDevicesAre
  <2> QED
    BY <2>1, <2>2 DEF ConnectionInv
<1>5. PICK taken \in SUBSET PalDevices(device, dp') :
        /\ pal_connected' = pal_connected \ taken
        /\ pal_refused' = (pal_refused \/ taken # PalDevices(device, dp'))
  BY <1>1 DEF TellPal
<1>6. attached' \subseteq AudioDevices
  BY <1>1 DEF ConnectionInv
<1>7. ASSUME ~pal_refused', NEW c \in pal_connected'
      PROVE  Known(c)' \/ (c[1] = "AUX_DIGITAL" /\ dp_lost')
  <2>1. c \in pal_connected /\ c \notin PalDevices(device, dp') /\ ~pal_refused
    BY <1>5, <1>7
  <2>2. CASE c[1] = "AUX_DIGITAL" /\ dp_lost
    BY <1>1, <2>2
  <2>3. ASSUME NEW d \in attached, c \in StandsFor(d)
        PROVE  Known(c)' \/ (c[1] = "AUX_DIGITAL" /\ dp_lost')
    <3>1. CASE d # device
      BY <1>1, <2>3, <3>1 DEF Known
    <3>2. CASE d = device
      <4>1. ~IsUsb(device) /\ dp.controller = -1
        BY <1>4, <2>1, <2>3, <3>2
      <4>2. c[1] = "AUX_DIGITAL"
        BY <1>2, <2>3, <3>2, <4>1 DEF StandsFor
      <4> QED
        BY <1>1, <4>1, <4>2
    <3> QED
      BY <3>1, <3>2
  <2> QED
    BY <2>1, <2>2, <2>3 DEF ConnectionInv, Known
<1> QED
  BY <1>3, <1>6, <1>7 DEF ConnectionInv

LEMMA ConnectionNextInv == ConnectionInv /\ [ParametersNext]_parameterVars => ConnectionInv'
<1> SUFFICES ASSUME ConnectionInv, [ParametersNext]_parameterVars PROVE ConnectionInv'
  OBVIOUS
<1>1. ASSUME NEW device \in AudioDevices, ConnectAlreadyAdded(device) PROVE ConnectionInv'
  BY <1>1 DEF ConnectAlreadyAdded, ConnectionInv, Known
<1>2. ASSUME StreamParameters PROVE ConnectionInv'
  BY <1>2 DEF StreamParameters, connectionVars, ConnectionInv, Known
<1>3. ASSUME RotationNext PROVE ConnectionInv'
  <2>1. /\ UNCHANGED <<dp, connectionVars, dp_lost>>
        /\ ~pal_refused' => ~pal_refused
    BY <1>3 DEF RotationNext, SetRotation, SetScreenRotation
  <2> QED
    BY <2>1 DEF connectionVars, ConnectionInv, Known
<1>4. ASSUME Lc3Next \/ UNCHANGED parameterVars PROVE ConnectionInv'
  <2>1. UNCHANGED <<dp, connectionVars, pal_refused, dp_lost>>
    BY <1>4 DEF Lc3Next, SetLc3, SetBle, UNCHANGED_other, parameterVars
  <2> QED
    BY <2>1 DEF connectionVars, ConnectionInv, Known
<1> QED
  BY <1>1, <1>2, <1>3, <1>4, ConnectInv, DisconnectInv DEF ParametersNext, ConnectionNext

LEMMA RotationNextInv == RotationInv /\ [ParametersNext]_parameterVars => RotationInv'
<1> SUFFICES ASSUME RotationInv, [ParametersNext]_parameterVars PROVE RotationInv'
  OBVIOUS
<1>1. ASSUME NEW angle \in Angles, SetRotation(angle) PROVE RotationInv'
  <2>1. asked_rotation' = Wanted(angle) /\ current_rotation' = Wanted(angle)
    BY <1>1 DEF SetRotation, Wanted, RotationInv
  <2>2. ASSUME ~pal_refused' PROVE pal_rotation' = Wanted(angle) /\ pal_screen' = screen_rotation'
    BY <1>1, <2>1, <2>2 DEF SetRotation, Wanted, RotationInv
  <2> QED
    BY <2>1, <2>2 DEF RotationInv
<1>2. ASSUME NEW new \in Screens, SetScreenRotation(new) PROVE RotationInv'
  BY <1>2 DEF SetScreenRotation, RotationInv
<1>3. ASSUME ConnectionNext PROVE RotationInv'
  <2>1. UNCHANGED rotationVars
    BY <1>3 DEF ConnectionNext, ConnectAlreadyAdded, ConnectDevice, DisconnectDevice,
                StreamParameters
  <2>2. pal_refused' = pal_refused \/ \E devices, connect : TellPal(devices, connect)
    BY <1>3 DEF ConnectionNext, ConnectAlreadyAdded, ConnectDevice, DisconnectDevice,
                StreamParameters
  <2>3. ~pal_refused' => ~pal_refused
    BY <2>2 DEF TellPal
  <2> QED
    BY <2>1, <2>3 DEF rotationVars, RotationInv
<1>4. ASSUME Lc3Next \/ UNCHANGED parameterVars PROVE RotationInv'
  <2>1. UNCHANGED <<rotationVars, pal_refused>>
    BY <1>4 DEF Lc3Next, parameterVars, SetLc3, SetBle, UNCHANGED_other
  <2> QED
    BY <2>1 DEF rotationVars, RotationInv
<1> QED
  BY <1>1, <1>2, <1>3, <1>4 DEF ParametersNext, RotationNext

\* Whatever was connected and disconnected, in any order and on any cards, nothing stays
\* connected in PAL, and the rotations are those asked for last (AudioDevice.cpp:1408, 1586,
\* 1788).
THEOREM PalIsReleased == ParametersSpec => []PalReleased
<1> QED
  BY ReleasedFromInv, PalInitInv, ConnectionNextInv, RotationNextInv, PTL DEF ParametersSpec

-----------------------------------------------------------------------------
\* The list without its k-th element.
LEMMA SeqErasedAt ==
  ASSUME NEW S, NEW l \in Seq(S), NEW k \in DOMAIN l
  PROVE  /\ RemoveAt(l, k) \in Seq(S) /\ Len(l) \in Nat \ {0}
         /\ DOMAIN RemoveAt(l, k) = 1 .. Len(l) - 1 /\ DOMAIN l = 1 .. Len(l)
         /\ \A i \in 1 .. Len(l) - 1 :
              RemoveAt(l, k)[i] = IF i < k THEN l[i] ELSE l[i + 1]
<1> DEFINE a == SubSeq(l, 1, k - 1)
           b == SubSeq(l, k + 1, Len(l))
<1>1. k \in 1 .. Len(l) /\ Len(l) \in Nat
  OBVIOUS
<1>2. /\ a \in Seq(S) /\ Len(a) = k - 1
      /\ \A i \in 1 .. k - 1 : a[i] = l[i]
  BY <1>1
<1>3. /\ b \in Seq(S) /\ Len(b) = Len(l) - k
      /\ \A i \in 1 .. Len(l) - k : b[i] = l[k + i]
  BY <1>1
<1>4. RemoveAt(l, k) = a \o b
  BY DEF RemoveAt
<1> HIDE DEF a, b
<1>5. RemoveAt(l, k) \in Seq(S) /\ Len(RemoveAt(l, k)) = Len(l) - 1
  BY <1>1, <1>2, <1>3, <1>4
<1>6. ASSUME NEW i \in 1 .. Len(l) - 1
      PROVE  RemoveAt(l, k)[i] = IF i < k THEN l[i] ELSE l[i + 1]
  <2>1. CASE i < k
    BY <2>1, <1>1, <1>2, <1>3, <1>4
  <2>2. CASE i >= k
    <3> DEFINE n == Len(l)
               m == i - (k - 1)
    <3>1. n \in Nat /\ k \in 1 .. n /\ i \in 1 .. n - 1
      BY <1>1
    <3> HIDE DEF n
    <3>2. m \in 1 .. n - k /\ k + m = i + 1 /\ i = (k - 1) + m
      BY <2>2, <3>1
    <3> HIDE DEF m
    <3>3. (a \o b)[i] = b[m]
      <4>1. /\ \A j \in 1 .. Len(a) + Len(b) :
                 (a \o b)[j] = IF j <= Len(a) THEN a[j] ELSE b[j - Len(a)]
            /\ Len(a) = k - 1 /\ Len(b) = n - k
        BY <1>2, <1>3, ConcatProperties DEF n
      <4>2. i \in 1 .. (k - 1) + (n - k) /\ ~(i <= k - 1) /\ i - (k - 1) = m
        BY <2>2, <3>1 DEF m
      <4> QED
        BY <4>1, <4>2
    <3>4. b[m] = l[k + m]
      BY <3>2, <1>3 DEF n
    <3>5. ~(i < k)
      BY <2>2, <3>1
    <3>6. RemoveAt(l, k)[i] = l[i + 1]
      BY <3>2, <3>3, <3>4, <1>4
    <3> QED
      BY <3>5, <3>6
  <2> QED
    BY <2>1, <2>2, <1>1
<1> QED
  BY <1>1, <1>5, <1>6

\* A list without one of its elements.
LEMMA SeqErasedSet ==
  ASSUME NEW S, NEW l \in Seq(S), NEW k \in DOMAIN l
  PROVE  /\ RemoveAt(l, k) \in Seq(S)
         /\ ToSet(RemoveAt(l, k)) \ {l[k]} = ToSet(l) \ {l[k]}
<1> PICK r : r = RemoveAt(l, k)
  OBVIOUS
<1> PICK n : n = Len(l)
  OBVIOUS
<1>1. /\ r \in Seq(S) /\ n \in Nat \ {0} /\ DOMAIN r = 1 .. n - 1 /\ DOMAIN l = 1 .. n
      /\ \A i \in 1 .. n - 1 : r[i] = IF i < k THEN l[i] ELSE l[i + 1]
  BY SeqErasedAt
<1>2. \A i \in 1 .. n - 1 : \E j \in 1 .. n : r[i] = l[j]
  BY <1>1
<1>3. ASSUME NEW j \in 1 .. n, j # k
      PROVE  \E i \in 1 .. n - 1 : r[i] = l[j]
  <2>1. CASE j < k
    BY <1>1, <2>1
  <2>2. CASE j > k
    <3>1. j - 1 \in 1 .. n - 1 /\ ~(j - 1 < k) /\ (j - 1) + 1 = j
      BY <1>1, <2>2
    <3> QED
      BY <1>1, <3>1
  <2> QED
    BY <1>1, <1>3, <2>1, <2>2
<1>4. \A x : x \in ToSet(r) <=> \E i \in 1 .. n - 1 : x = r[i]
  BY <1>1 DEF ToSet
<1>5. \A x : x \in ToSet(l) <=> \E i \in 1 .. n : x = l[i]
  BY <1>1 DEF ToSet
<1>6. ToSet(r) \subseteq ToSet(l) /\ ToSet(l) \ {l[k]} \subseteq ToSet(r)
  <2>1. ToSet(r) \subseteq ToSet(l)
    BY <1>2, <1>4, <1>5
  <2>2. ASSUME NEW x \in ToSet(l), x # l[k] PROVE x \in ToSet(r)
    <3>1. PICK j \in 1 .. n : x = l[j]
      BY <1>5
    <3>2. j # k
      BY <2>2, <3>1
    <3> QED
      BY <1>3, <1>4, <3>1, <3>2
  <2> QED
    BY <2>1, <2>2
<1> QED
  BY <1>1, <1>6

(* Patches.  That a stream is on the sinks of its patch is inductive with  *)
(* the types of the arrays: an operation that fails leaves the devices of  *)
(* a patched stream only as an update, which marks the patch, and routing  *)
(* a stream once more to what it has changes nothing, as the combination   *)
(* of a combination is itself.                                             *)

\* The devices of a patch, that of a released one, and what fills a new array.
Names == STRING \cup {"none", Unset}

Distinct(l) == \A i, j \in DOMAIN l : l[i] = l[j] => i = j

\* Erasing a device leaves a set without it, and no device that was not there.
LEMMA ErasedDevice ==
  ASSUME NEW l \in Seq(Names), Distinct(l), NEW d
  PROVE  /\ Erased(l, d) \in Seq(Names) /\ Distinct(Erased(l, d))
         /\ ~Contains(Erased(l, d), d)
         /\ \A e : Contains(Erased(l, d), e) => Contains(l, e)
<1>1. CASE ~Contains(l, d)
  BY <1>1 DEF Erased
<1>2. CASE Contains(l, d)
  <2> DEFINE k == CHOOSE i \in DOMAIN l : l[i] = d
             r == RemoveAt(l, k)
  <2>1. k \in DOMAIN l /\ l[k] = d
    BY <1>2 DEF Contains
  <2> HIDE DEF k
  <2>2. /\ r \in Seq(Names) /\ Len(l) \in Nat \ {0}
        /\ DOMAIN r = 1 .. Len(l) - 1 /\ DOMAIN l = 1 .. Len(l)
        /\ \A i \in 1 .. Len(l) - 1 : r[i] = IF i < k THEN l[i] ELSE l[i + 1]
    BY <2>1, SeqErasedAt
  <2>3. Erased(l, d) = r
    BY <1>2 DEF Erased, k
  <2> HIDE DEF r
  <2>4. \A i \in DOMAIN r : \E j \in DOMAIN l : r[i] = l[j] /\ j # k
    BY <2>1, <2>2
  <2>5. Distinct(r)
    <3> SUFFICES ASSUME NEW i \in 1 .. Len(l) - 1, NEW j \in 1 .. Len(l) - 1, r[i] = r[j]
                 PROVE  i = j
      BY <2>2 DEF Distinct
    <3> DEFINE At(h) == IF h < k THEN h ELSE h + 1
    <3>1. r[i] = l[At(i)] /\ r[j] = l[At(j)]
      BY <2>2
    <3>2. At(i) \in DOMAIN l /\ At(j) \in DOMAIN l
      BY <2>1, <2>2
    <3>3. At(i) = At(j)
      BY <3>1, <3>2 DEF Distinct
    <3> QED
      BY <3>3, <2>1, <2>2
  <2>6. \A i \in DOMAIN r : r[i] # d
    BY <2>1, <2>4 DEF Distinct
  <2>7. 1 .. Len(r) = DOMAIN r
    <3>1. r \in Seq(Names)
      BY <2>2
    <3> QED
      BY <3>1
  <2>8. \A e : Contains(r, e) => Contains(l, e)
    BY <2>2, <2>4, <2>7 DEF Contains
  <2>9. ~Contains(r, d)
    BY <2>6, <2>7 DEF Contains
  <2> QED
    BY <2>2, <2>3, <2>5, <2>8, <2>9
<1> QED
  BY <1>1, <1>2

LEMMA CombinedType ==
  ASSUME NEW devices \in Seq(Names)
  PROVE  Combined(devices) \in Seq(Names)
<1>1. ASSUME NEW l \in Seq(Names), NEW d PROVE Erased(l, d) \in Seq(Names)
  BY <1>1, SeqErasedAt DEF Erased, Contains
<1> QED
  BY <1>1 DEF Combined

\* RouteStream's combination of what it has combined already.
LEMMA CombinedAgain ==
  ASSUME NEW devices \in Routes
  PROVE  Combined(devices) \in Seq(Names) /\ Combined(Combined(devices)) = Combined(devices)
<1>1. devices \in Seq(Names) /\ Distinct(devices)
  <2>1. devices \in Seq(STRING)
    BY RoutesAssumption
  <2>2. devices \in [1 .. Len(devices) -> Names] /\ Len(devices) \in Nat
    BY <2>1 DEF Names
  <2> QED
    BY <2>2, RoutesAssumption DEF Distinct
<1>2. CASE ~(use_spk_whs_combo /\ Contains(devices, "speaker"))
  BY <1>1, <1>2 DEF Combined
<1>3. CASE use_spk_whs_combo /\ Contains(devices, "speaker")
  <2> DEFINE a == Erased(devices, "headset")
             b == Erased(a, "headphone")
  <2>1. a \in Seq(Names) /\ Distinct(a) /\ ~Contains(a, "headset")
    BY <1>1, ErasedDevice
  <2> HIDE DEF a
  <2>2. b \in Seq(Names) /\ ~Contains(b, "headset") /\ ~Contains(b, "headphone")
    BY <2>1, ErasedDevice
  <2>3. Combined(devices) = b
    BY <1>3 DEF Combined, a
  <2> HIDE DEF b
  <2>4. Erased(b, "headset") = b /\ Erased(b, "headphone") = b
    BY <2>2 DEF Erased
  <2> QED
    BY <2>2, <2>3, <2>4 DEF Combined
<1> QED
  BY <1>2, <1>3

\* A stream is on a device set.
On(s, devices) ==
  s \notin overrun =>
    /\ mAndroidOutDevices[s] = devices
    /\ IsPrefix(devices, mPalOutDevice[s])
    /\ s \notin out_refused => out_session[s] \in {<<>>, devices}

OutputTypeOK ==
  /\ mAndroidOutDevices \in [Outputs -> Seq(Names)]
  /\ mPalOutDevice \in [Outputs -> Seq(Names)]
  /\ out_session \in [Outputs -> Seq(Names)]

PatchInv == PatchesTypeOK /\ OutputTypeOK /\ PatchIsRouted

\* What a handler leaves alone, of the other streams.
OthersStay(s) ==
  \A o \in Outputs \ {s} : /\ mAndroidOutDevices'[o] = mAndroidOutDevices[o]
                           /\ mPalOutDevice'[o] = mPalOutDevice[o]
                           /\ out_session'[o] = out_session[o]
                           /\ o \in overrun' <=> o \in overrun
                           /\ o \in out_refused' <=> o \in out_refused

\* What an array begins with, element by element.
LEMMA PrefixElements ==
  ASSUME NEW a \in Seq(Names), NEW b \in Seq(Names)
  PROVE  IsPrefix(a, b) <=> Len(a) <= Len(b) /\ \A i \in 1 .. Len(a) : a[i] = b[i]
<1>1. SubSeq(a, 1, Len(a)) = a
  BY SubSeqFull
<1>2. ASSUME Len(a) <= Len(b)
      PROVE  /\ SubSeq(b, 1, Len(a)) \in Seq(Names) /\ Len(SubSeq(b, 1, Len(a))) = Len(a)
             /\ \A i \in 1 .. Len(a) : SubSeq(b, 1, Len(a))[i] = b[i]
  BY <1>2
<1>3. ASSUME Len(a) <= Len(b), \A i \in 1 .. Len(a) : a[i] = b[i]
      PROVE  a = SubSeq(b, 1, Len(a))
  BY <1>2, <1>3, SeqEqual
<1>4. IsPrefix(a, b) <=> Len(a) <= Len(b) /\ SubSeq(a, 1, Len(a)) = SubSeq(b, 1, Len(a))
  BY DEF IsPrefix
<1> QED
  BY <1>1, <1>2, <1>3, <1>4

\* The loop over the array gives it the types of its parts.
LEMMA FillStep ==
  ASSUME PatchInv, NEW s \in Outputs, NEW new \in Seq(Names), NEW n \in Nat, n <= Len(new),
         FillArray(s, new, n)
  PROVE  /\ mPalOutDevice' \in [Outputs -> Seq(Names)] /\ overrun' \subseteq Outputs
         /\ \A o \in Outputs \ {s} : mPalOutDevice'[o] = mPalOutDevice[o]
         /\ overrun \subseteq overrun' /\ overrun' \subseteq overrun \cup {s}
         /\ Len(mPalOutDevice'[s]) = Len(ArrayFor(s, new))
         /\ n = Len(new) /\ s \notin overrun' => IsPrefix(new, mPalOutDevice'[s])
         /\ IsPrefix(new, mPalOutDevice[s]) /\ mAndroidOutDevices[s] = new =>
              overrun' = overrun /\ mPalOutDevice'[s] = mPalOutDevice[s]
<1> DEFINE array == ArrayFor(s, new)
           filled == [i \in DOMAIN array |-> IF i <= n THEN new[i] ELSE array[i]]
<1>1. array \in Seq(Names)
  <2>1. CASE Len(new) # Len(mAndroidOutDevices[s])
    <3>1. array = [i \in 1 .. Len(new) |-> Unset]
      BY <2>1 DEF ArrayFor
    <3>2. array \in [1 .. Len(new) -> Names]
      BY <3>1 DEF Names, Unset
    <3> HIDE DEF array
    <3> QED
      BY <3>2
  <2>2. CASE Len(new) = Len(mAndroidOutDevices[s])
    BY <2>2 DEF ArrayFor, PatchInv, OutputTypeOK
  <2> QED
    BY <2>1, <2>2
<1>2. /\ mPalOutDevice' = [mPalOutDevice EXCEPT ![s] = filled]
      /\ overrun' = IF n <= Len(array) THEN overrun ELSE overrun \cup {s}
  BY DEF FillArray
<1>3. ASSUME IsPrefix(new, mPalOutDevice[s]), mAndroidOutDevices[s] = new
      PROVE  array = mPalOutDevice[s] /\ Len(new) <= Len(array)
             /\ \A i \in 1 .. Len(new) : new[i] = array[i]
  BY <1>1, <1>3, PrefixElements DEF ArrayFor
<1> HIDE DEF array
<1>4. /\ filled \in [1 .. Len(array) -> Names] /\ Len(array) \in Nat
      /\ \A i \in 1 .. Len(array) : filled[i] = IF i <= n THEN new[i] ELSE array[i]
  <2>1. \A i \in 1 .. Len(array) : array[i] \in Names /\ (i <= n => new[i] \in Names)
    BY <1>1
  <2> QED
    BY <1>1, <2>1
<1>5. filled \in Seq(Names) /\ Len(filled) = Len(array)
  BY <1>4
<1> HIDE DEF filled
<1>6. mPalOutDevice' \in [Outputs -> Seq(Names)] /\ mPalOutDevice'[s] = filled
  BY <1>2, <1>5 DEF PatchInv, OutputTypeOK
<1>7. ASSUME n = Len(new), s \notin overrun' PROVE IsPrefix(new, filled)
  <2>1. Len(new) <= Len(array)
    BY <1>2, <1>7
  <2> QED
    BY <1>1, <1>4, <1>5, <1>7, <2>1, PrefixElements
<1>8. ASSUME IsPrefix(new, mPalOutDevice[s]), mAndroidOutDevices[s] = new
      PROVE  overrun' = overrun /\ filled = mPalOutDevice[s]
  <2>1. \A i \in 1 .. Len(array) : filled[i] = array[i]
    BY <1>3, <1>4, <1>8
  <2>2. filled = array
    BY <1>1, <1>5, <2>1, SeqEqual
  <2> QED
    BY <1>1, <1>2, <1>3, <1>8, <2>2
<1>9. /\ overrun' \subseteq Outputs /\ overrun \subseteq overrun'
      /\ overrun' \subseteq overrun \cup {s}
      /\ \A o \in Outputs \ {s} : mPalOutDevice'[o] = mPalOutDevice[o]
  BY <1>2 DEF PatchInv, PatchesTypeOK, OutputTypeOK
<1> QED
  BY <1>5, <1>6, <1>7, <1>8, <1>9 DEF array

\* A routing that does not end at a USB device has the stream on the devices.
LEMMA RoutedOn ==
  ASSUME PatchInv, NEW s \in Outputs, NEW devices, NEW new \in Seq(Names),
         new = Combined(devices), RouteStream(s, devices) \/ RouteRefused(s, devices)
  PROVE  On(s, new)'
<1>1. FillArray(s, new, Len(new)) /\ Len(new) \in Nat
  BY DEF RouteStream, RouteRefused
<1>2. s \notin overrun' => IsPrefix(new, mPalOutDevice'[s])
  BY <1>1, FillStep
<1>3. /\ mAndroidOutDevices' = [mAndroidOutDevices EXCEPT ![s] = new]
      /\ \/ /\ out_session' = [out_session EXCEPT ![s] = IF @ = <<>> THEN @ ELSE new]
            /\ out_refused' = out_refused \ {s}
         \/ /\ out_session' = out_session
            /\ out_refused' = IF out_session[s] = new THEN out_refused ELSE out_refused \cup {s}
  BY DEF RouteStream, RouteRefused
<1> QED
  BY <1>2, <1>3 DEF PatchInv, OutputTypeOK, On

\* The three ends of RouteStream.
Routes3(s, devices) ==
  RouteStream(s, devices) \/ RouteRefused(s, devices) \/ RouteUsbFails(s, devices)

\* Each leaves typed arrays and the other streams alone, and takes no stream from where
\* it is.
LEMMA RouteStep ==
  ASSUME PatchInv, NEW s \in Outputs, NEW devices, NEW new \in Seq(Names),
         new = Combined(devices), Routes3(s, devices)
  PROVE  /\ OutputTypeOK' /\ OthersStay(s)
         /\ overrun' \subseteq Outputs /\ out_refused' \subseteq Outputs
         /\ On(s, new) => On(s, new)'
<1>1. OutputTypeOK /\ out_refused \subseteq Outputs
  BY DEF PatchInv, PatchesTypeOK
<1>2. CASE RouteStream(s, devices) \/ RouteRefused(s, devices)
  <2>1. FillArray(s, new, Len(new)) /\ Len(new) \in Nat
    BY <1>2 DEF RouteStream, RouteRefused
  <2>2. /\ mPalOutDevice' \in [Outputs -> Seq(Names)] /\ overrun' \subseteq Outputs
        /\ \A o \in Outputs \ {s} : mPalOutDevice'[o] = mPalOutDevice[o]
        /\ overrun \subseteq overrun' /\ overrun' \subseteq overrun \cup {s}
        /\ s \notin overrun' => IsPrefix(new, mPalOutDevice'[s])
    BY <2>1, FillStep
  <2>3. /\ mAndroidOutDevices' = [mAndroidOutDevices EXCEPT ![s] = new]
        /\ \/ /\ out_session' = [out_session EXCEPT ![s] = IF @ = <<>> THEN @ ELSE new]
              /\ out_refused' = out_refused \ {s}
           \/ /\ out_session' = out_session
              /\ out_refused' = IF out_session[s] = new THEN out_refused ELSE out_refused \cup {s}
    BY <1>2 DEF RouteStream, RouteRefused
  <2> QED
    BY <1>1, <1>2, <2>2, <2>3, RoutedOn DEF OutputTypeOK, OthersStay
<1>3. CASE RouteUsbFails(s, devices)
  <2>1. PICK i \in 1 .. Len(new) : FillArray(s, new, i)
    BY <1>3 DEF RouteUsbFails
  <2>2. i \in Nat /\ i <= Len(new)
    OBVIOUS
  <2>3. /\ mPalOutDevice' \in [Outputs -> Seq(Names)] /\ overrun' \subseteq Outputs
        /\ \A o \in Outputs \ {s} : mPalOutDevice'[o] = mPalOutDevice[o]
        /\ overrun \subseteq overrun' /\ overrun' \subseteq overrun \cup {s}
        /\ IsPrefix(new, mPalOutDevice[s]) /\ mAndroidOutDevices[s] = new =>
             overrun' = overrun /\ mPalOutDevice'[s] = mPalOutDevice[s]
    BY <2>1, <2>2, FillStep
  <2>4. UNCHANGED <<mAndroidOutDevices, out_session, out_refused>>
    BY <1>3 DEF RouteUsbFails
  <2> QED
    BY <1>1, <1>3, <2>3, <2>4 DEF OutputTypeOK, OthersStay, On
<1> QED
  BY <1>2, <1>3 DEF Routes3

\* A step that leaves the patches as they are keeps PatchIsRouted when it keeps the patched
\* streams that stay open where they are.
LEMMA SamePatches ==
  ASSUME PatchInv, UNCHANGED <<patch_map_, use_spk_whs_combo>>, OutputTypeOK',
         NEW s \in Outputs, OthersStay(s),
         stream_out_list_' \ {s} = stream_out_list_ \ {s},
         stream_out_list_' \subseteq Outputs, stream_out_primary_' \in {Primary, NoOutput},
         overrun' \subseteq Outputs, out_refused' \subseteq Outputs,
         \A h \in DOMAIN patch_map_ :
           /\ patch_map_[h].stream = s /\ s \in stream_out_list_' => s \in stream_out_list_
           /\ patch_map_[h].stream = s /\ s \in stream_out_list_' /\ ~patch_map_[h].unrouted =>
                \A sinks : sinks = Combined(patch_map_[h].sinks) /\ On(s, sinks) => On(s, sinks)'
  PROVE  PatchInv'
<1>1. \A d : Combined(d)' = Combined(d)
  BY DEF Combined, Erased, Contains
<1>2. PatchesTypeOK'
  BY DEF PatchInv, PatchesTypeOK
<1>3. ASSUME NEW h \in DOMAIN patch_map_', patch_map_'[h].stream \in stream_out_list_',
             ~patch_map_'[h].unrouted
      PROVE  On(patch_map_[h].stream, Combined(patch_map_[h].sinks))'
  <2> DEFINE o == patch_map_[h].stream
             sinks == Combined(patch_map_[h].sinks)
  <2>1. o \in Outputs /\ o \in stream_out_list_' /\ h \in DOMAIN patch_map_
        /\ patch_map_' = patch_map_
    BY <1>3 DEF PatchInv, PatchesTypeOK
  <2>2. o \in stream_out_list_
    BY <2>1
  <2>3. On(o, sinks)
    BY <1>3, <2>1, <2>2 DEF PatchInv, PatchIsRouted, On
  <2>4. sinks' = sinks
    BY <1>1, <2>1
  <2>5. CASE o = s
    BY <1>3, <2>1, <2>3, <2>4, <2>5
  <2>6. CASE o # s
    BY <2>1, <2>3, <2>4, <2>6 DEF On, OthersStay
  <2> QED
    BY <2>5, <2>6, <1>3
<1>4. PatchIsRouted'
  BY <1>3 DEF PatchIsRouted, On
<1> QED
  BY <1>2, <1>4 DEF PatchInv

\* A step on the patches of one stream keeps PatchIsRouted when that stream is on their
\* sinks, or they are marked.
LEMMA OneStreamsPatches ==
  ASSUME PatchInv, OutputTypeOK', PatchesTypeOK', NEW s \in Outputs, OthersStay(s),
         UNCHANGED_streams,
         \A h \in DOMAIN patch_map_' :
           \/ h \in DOMAIN patch_map_ /\ patch_map_'[h] = patch_map_[h] /\ patch_map_[h].stream # s
           \/ patch_map_'[h].unrouted
           \/ /\ patch_map_'[h].stream = s
              /\ \E sinks : sinks = Combined(patch_map_'[h].sinks) /\ On(s, sinks)'
  PROVE  PatchInv'
<1>1. \A d : Combined(d)' = Combined(d)
  BY DEF Combined, Erased, Contains, UNCHANGED_streams
<1>2. ASSUME NEW h \in DOMAIN patch_map_', patch_map_'[h].stream \in stream_out_list_',
             ~patch_map_'[h].unrouted,
             NEW o, NEW sinks, o = patch_map_'[h].stream, sinks = Combined(patch_map_'[h].sinks)
      PROVE  On(o, sinks)'
  <2>1. CASE o = s
    BY <1>2, <2>1
  <2>2. CASE o # s
    <3>1. h \in DOMAIN patch_map_ /\ patch_map_'[h] = patch_map_[h]
      BY <1>2, <2>2
    <3>2. o \in Outputs \ {s} /\ o \in stream_out_list_
      BY <1>2, <2>2, <3>1 DEF PatchInv, PatchesTypeOK, UNCHANGED_streams
    <3>3. On(o, sinks)
      BY <1>2, <3>1, <3>2 DEF PatchInv, PatchIsRouted, On
    <3> QED
      BY <3>2, <3>3 DEF On, OthersStay
  <2> QED
    BY <2>1, <2>2
<1>3. PatchIsRouted'
  BY <1>1, <1>2 DEF PatchIsRouted, On
<1> QED
  BY <1>3 DEF PatchInv

LEMMA PatchInitInv == PatchesInit => PatchInv
<1> SUFFICES ASSUME PatchesInit PROVE PatchInv
  OBVIOUS
<1>1. DOMAIN patch_map_ = {}
  BY DEF PatchesInit
<1> QED
  BY <1>1 DEF PatchesInit, PatchInv, PatchesTypeOK, OutputTypeOK, PatchIsRouted

LEMMA CreateOutInv ==
  ASSUME PatchInv, NEW s \in Outputs, NEW devices \in Routes, CreateStreamOut(s, devices)
  PROVE  PatchInv'
<1>1. \A h \in DOMAIN patch_map_ : patch_map_[h].stream # s
  BY DEF CreateStreamOut, Patched
<1>2. Combined(devices) \in Seq(Names)
  BY CombinedAgain
<1>3. OutputTypeOK' /\ OthersStay(s)
  BY <1>2 DEF CreateStreamOut, PatchInv, OutputTypeOK, OthersStay
<1>4. /\ UNCHANGED <<patch_map_, use_spk_whs_combo>>
      /\ overrun' \subseteq Outputs /\ out_refused' \subseteq Outputs
      /\ stream_out_list_' \ {s} = stream_out_list_ \ {s}
      /\ stream_out_list_' \subseteq Outputs /\ stream_out_primary_' \in {Primary, NoOutput}
  BY DEF CreateStreamOut, PatchInv, PatchesTypeOK
<1> QED
  BY <1>1, <1>3, <1>4, SamePatches

LEMMA CloseOutInv ==
  ASSUME PatchInv, NEW s \in Outputs, CloseStreamOut(s)
  PROVE  PatchInv'
<1>1. OutputTypeOK' /\ OthersStay(s)
  BY DEF CloseStreamOut, PatchInv, OutputTypeOK, OthersStay
<1>2. /\ UNCHANGED <<patch_map_, use_spk_whs_combo>> /\ s \notin stream_out_list_'
      /\ overrun' \subseteq Outputs /\ out_refused' \subseteq Outputs
      /\ stream_out_list_' \ {s} = stream_out_list_ \ {s}
      /\ stream_out_list_' \subseteq Outputs /\ stream_out_primary_' \in {Primary, NoOutput}
  BY DEF CloseStreamOut, PatchInv, PatchesTypeOK
<1> QED
  BY <1>1, <1>2, SamePatches

\* Open takes as many devices as the set has: all those of the array, if the two agree.
LEMMA OpenOutInv ==
  ASSUME PatchInv, NEW s \in Outputs, OpenOnDevices(s)
  PROVE  PatchInv'
<1> DEFINE android == mAndroidOutDevices[s]
           array == mPalOutDevice[s]
           opened == [i \in 1 .. Len(android) |-> IF i <= Len(array) THEN array[i] ELSE Unset]
<1>1. android \in Seq(Names) /\ array \in Seq(Names) /\ Unset \in Names
  BY DEF PatchInv, OutputTypeOK, Names
<1>2. out_session' = [out_session EXCEPT ![s] = opened]
  BY DEF OpenOnDevices
<1>3. opened \in Seq(Names) /\ opened \in [1 .. Len(android) -> Names]
  <2>1. Len(android) \in Nat /\ \A i \in 1 .. Len(android) : opened[i] \in Names
    BY <1>1
  <2>2. opened \in [1 .. Len(android) -> Names]
    BY <2>1
  <2> QED
    BY <2>1, <2>2
<1>4. ASSUME IsPrefix(android, array) PROVE opened = android
  <2>1. \A i \in 1 .. Len(android) : opened[i] = android[i]
    BY <1>1, <1>4, PrefixElements
  <2>2. android \in [1 .. Len(android) -> Names]
    BY <1>1
  <2> HIDE DEF opened
  <2> QED
    BY <1>3, <2>1, <2>2
<1> HIDE DEF opened
<1>5. OutputTypeOK' /\ OthersStay(s)
  BY <1>2, <1>3 DEF OpenOnDevices, PatchInv, OutputTypeOK, OthersStay
<1>6. ASSUME NEW sinks, On(s, sinks) PROVE On(s, sinks)'
  BY <1>2, <1>4, <1>6 DEF OpenOnDevices, PatchInv, OutputTypeOK, On
<1>7. /\ UNCHANGED <<patch_map_, use_spk_whs_combo, stream_out_list_>>
      /\ overrun' \subseteq Outputs /\ out_refused' \subseteq Outputs
      /\ s \in stream_out_list_
      /\ stream_out_list_' \subseteq Outputs /\ stream_out_primary_' \in {Primary, NoOutput}
  BY DEF OpenOnDevices, PatchInv, PatchesTypeOK
<1> QED
  BY <1>5, <1>6, <1>7, SamePatches

LEMMA CloseSessionInv ==
  ASSUME PatchInv, NEW s \in Outputs, CloseSession(s)
  PROVE  PatchInv'
<1>1. OutputTypeOK' /\ OthersStay(s)
  BY DEF CloseSession, PatchInv, OutputTypeOK, OthersStay
<1>2. ASSUME NEW sinks, On(s, sinks) PROVE On(s, sinks)'
  BY <1>2 DEF CloseSession, PatchInv, OutputTypeOK, On
<1>3. /\ UNCHANGED <<patch_map_, use_spk_whs_combo, stream_out_list_>>
      /\ overrun' \subseteq Outputs /\ out_refused' \subseteq Outputs
      /\ stream_out_list_' \subseteq Outputs /\ stream_out_primary_' \in {Primary, NoOutput}
  BY DEF CloseSession, PatchInv, PatchesTypeOK
<1> QED
  BY <1>1, <1>2, <1>3, SamePatches

\* What a stream has may be no combination, if an update failed: only the patched streams
\* that are on their sinks matter.
LEMMA RerouteInv ==
  ASSUME PatchInv, NEW s \in Outputs, Reroute(s)
  PROVE  PatchInv'
<1> PICK devices : devices = mAndroidOutDevices[s]
  OBVIOUS
<1>1. devices \in Seq(Names) /\ Routes3(s, devices)
  BY DEF PatchInv, OutputTypeOK, Reroute, Routes3
<1> PICK new \in Seq(Names) : new = Combined(devices)
  BY <1>1, CombinedType
<1>2. /\ OutputTypeOK' /\ OthersStay(s)
      /\ overrun' \subseteq Outputs /\ out_refused' \subseteq Outputs
      /\ On(s, new) => On(s, new)'
  BY <1>1, RouteStep
<1>3. ASSUME NEW h \in DOMAIN patch_map_, NEW sinks, sinks = Combined(patch_map_[h].sinks),
             On(s, sinks)
      PROVE  On(s, sinks)'
  <2>1. CASE s \in overrun
    <3>1. overrun \subseteq overrun'
      BY <1>1 DEF Routes3, RouteStream, RouteRefused, RouteUsbFails, FillArray
    <3> QED
      BY <2>1, <3>1 DEF On
  <2>2. CASE s \notin overrun
    <3>1. sinks \in Seq(Names) /\ Combined(sinks) = sinks
      BY <1>3, CombinedAgain, CombinedType DEF PatchInv, PatchesTypeOK
    <3>2. new = sinks
      BY <1>3, <2>2, <3>1 DEF On
    <3> QED
      BY <1>2, <1>3, <3>2
  <2> QED
    BY <2>1, <2>2
<1>4. /\ UNCHANGED <<patch_map_, use_spk_whs_combo, stream_out_list_>>
      /\ s \in stream_out_list_
      /\ stream_out_list_' \subseteq Outputs /\ stream_out_primary_' \in {Primary, NoOutput}
  BY DEF Reroute, PatchInv, PatchesTypeOK
<1> QED
  BY <1>2, <1>3, <1>4, SamePatches

\* One patch is set, the others stay.
Sets(h, s, devices) ==
  /\ DOMAIN patch_map_' = DOMAIN patch_map_ \cup {h}
  /\ \A g \in DOMAIN patch_map_ \ {h} : patch_map_'[g] = patch_map_[g]
  /\ patch_map_'[h] \in [stream : {s}, sinks : {devices}, unrouted : BOOLEAN]

LEMMA SetPatchSets ==
  ASSUME NEW h, NEW s, NEW devices
  PROVE  /\ SetPatch(h, s, devices, FALSE) => Sets(h, s, devices)
         /\ SetPatch(h, s, devices, TRUE) => Sets(h, s, devices) /\ patch_map_'[h].unrouted
<1>1. ASSUME SetPatch(h, s, devices, FALSE) PROVE Sets(h, s, devices)
  BY <1>1 DEF SetPatch, Sets
<1>2. ASSUME SetPatch(h, s, devices, TRUE) PROVE Sets(h, s, devices) /\ patch_map_'[h].unrouted
  <2>1. patch_map_'[h] = [stream |-> s, sinks |-> devices, unrouted |-> TRUE]
    BY <1>2 DEF SetPatch
  <2> QED
    BY <1>2, <2>1 DEF SetPatch, Sets
<1> QED
  BY <1>1, <1>2, Zenon

LEMMA SetPatchType ==
  ASSUME PatchInv, NEW h \in Handles, NEW s \in Outputs, NEW devices \in Routes,
         Sets(h, s, devices), UNCHANGED_streams,
         overrun' \subseteq Outputs, out_refused' \subseteq Outputs,
         \A g \in DOMAIN patch_map_ \ {h} : patch_map_[g].stream # s
  PROVE  /\ PatchesTypeOK'
         /\ patch_map_'[h].stream = s /\ patch_map_'[h].sinks = devices
         /\ \A g \in DOMAIN patch_map_' \ {h} :
              g \in DOMAIN patch_map_ /\ patch_map_'[g] = patch_map_[g] /\ patch_map_[g].stream # s
<1>1. /\ patch_map_'[h] \in [stream : Outputs, sinks : Routes, unrouted : BOOLEAN]
      /\ patch_map_'[h].stream = s /\ patch_map_'[h].sinks = devices
  BY DEF Sets
<1>2. PatchesTypeOK'
  BY <1>1 DEF PatchInv, PatchesTypeOK, UNCHANGED_streams, Sets
<1> QED
  BY <1>1, <1>2 DEF Sets

LEMMA CreatePatchInv ==
  ASSUME PatchInv, NEW h \in Handles, NEW s \in Outputs, NEW devices \in Routes,
         CreatePatch(h, s, devices)
  PROVE  PatchInv'
<1>1. \A g \in DOMAIN patch_map_ : patch_map_[g].stream # s
  BY DEF CreatePatch, Patched
<1> PICK new \in Seq(Names) : new = Combined(devices)
  BY CombinedAgain
<1>2. /\ OutputTypeOK' /\ OthersStay(s)
      /\ overrun' \subseteq Outputs /\ out_refused' \subseteq Outputs
  <2>1. Routes3(s, devices)
    BY DEF CreatePatch, Routes3
  <2> QED
    BY <2>1, RouteStep
<1>3. UNCHANGED_streams
  BY DEF CreatePatch
<1>4. CASE UNCHANGED patch_map_
  <2>1. PatchesTypeOK'
    BY <1>2, <1>3, <1>4 DEF PatchInv, PatchesTypeOK, UNCHANGED_streams
  <2> QED
    BY <1>1, <1>2, <1>3, <1>4, <2>1, OneStreamsPatches
<1>5. CASE RouteStream(s, devices) /\ SetPatch(h, s, devices, FALSE)
  <2>0. Sets(h, s, devices)
    BY <1>5, SetPatchSets
  <2>1. /\ PatchesTypeOK' /\ patch_map_'[h].stream = s /\ patch_map_'[h].sinks = devices
        /\ \A g \in DOMAIN patch_map_' \ {h} :
              g \in DOMAIN patch_map_ /\ patch_map_'[g] = patch_map_[g] /\ patch_map_[g].stream # s
    BY <1>1, <1>2, <1>3, <2>0, SetPatchType
  <2>2. On(s, new)'
    BY <1>5, RoutedOn
  <2> QED
    BY <1>2, <1>3, <2>1, <2>2, OneStreamsPatches
<1> QED
  BY <1>4, <1>5 DEF CreatePatch

LEMMA UpdatePatchInv ==
  ASSUME PatchInv, NEW h \in Handles, NEW devices \in Routes, UpdatePatch(h, devices)
  PROVE  PatchInv'
<1> PICK s : s = patch_map_[h].stream
  OBVIOUS
<1>1. /\ h \in DOMAIN patch_map_ /\ s \in Outputs
      /\ \A g \in DOMAIN patch_map_ \ {h} : patch_map_[g].stream # s
  BY DEF UpdatePatch, PatchInv, PatchesTypeOK
<1>2. /\ UNCHANGED_streams
      /\ \/ RouteStream(s, devices) /\ SetPatch(h, s, devices, FALSE)
         \/ RouteRefused(s, devices) /\ SetPatch(h, s, devices, FALSE)
         \/ RouteUsbFails(s, devices) /\ SetPatch(h, s, devices, TRUE)
  BY DEF UpdatePatch
<1> PICK new \in Seq(Names) : new = Combined(devices)
  BY CombinedAgain
<1>3. /\ OutputTypeOK' /\ OthersStay(s)
      /\ overrun' \subseteq Outputs /\ out_refused' \subseteq Outputs
  <2>1. Routes3(s, devices)
    BY <1>2 DEF Routes3
  <2> QED
    BY <1>1, <2>1, RouteStep
<1>4. CASE (RouteStream(s, devices) \/ RouteRefused(s, devices)) /\ SetPatch(h, s, devices, FALSE)
  <2>0. Sets(h, s, devices)
    BY <1>4, SetPatchSets
  <2>1. /\ PatchesTypeOK' /\ patch_map_'[h].stream = s /\ patch_map_'[h].sinks = devices
        /\ \A g \in DOMAIN patch_map_' \ {h} :
              g \in DOMAIN patch_map_ /\ patch_map_'[g] = patch_map_[g] /\ patch_map_[g].stream # s
    BY <1>1, <1>2, <1>3, <2>0, SetPatchType
  <2>2. On(s, new)'
    BY <1>1, <1>4, RoutedOn
  <2> QED
    BY <1>1, <1>2, <1>3, <2>1, <2>2, OneStreamsPatches
<1>5. CASE SetPatch(h, s, devices, TRUE)
  <2>0. Sets(h, s, devices) /\ patch_map_'[h].unrouted
    BY <1>5, SetPatchSets
  <2>1. /\ PatchesTypeOK'
        /\ \A g \in DOMAIN patch_map_' \ {h} :
              g \in DOMAIN patch_map_ /\ patch_map_'[g] = patch_map_[g] /\ patch_map_[g].stream # s
    BY <1>1, <1>2, <1>3, <2>0, SetPatchType
  <2> QED
    BY <1>1, <1>2, <1>3, <2>0, <2>1, OneStreamsPatches
<1> QED
  BY <1>2, <1>4, <1>5

LEMMA ReleasePatchInv ==
  ASSUME PatchInv, NEW h \in Handles, ReleasePatch(h)
  PROVE  PatchInv'
<1> PICK s : s = patch_map_[h].stream
  OBVIOUS
<1>1. /\ h \in DOMAIN patch_map_ /\ s \in Outputs
      /\ \A g \in DOMAIN patch_map_ \ {h} : patch_map_[g].stream # s
  BY DEF ReleasePatch, PatchInv, PatchesTypeOK
<1>2. UNCHANGED_streams /\ (RouteStream(s, <<"none">>) \/ RouteRefused(s, <<"none">>))
  BY DEF ReleasePatch
<1>3. /\ DOMAIN patch_map_' = DOMAIN patch_map_ \ {h}
      /\ \A g \in DOMAIN patch_map_ \ {h} : patch_map_'[g] = patch_map_[g]
  BY DEF ReleasePatch, Restrict
<1>4. <<"none">> \in Seq(Names) /\ Combined(<<"none">>) = <<"none">>
  BY DEF Names, Combined, Contains
<1>5. /\ OutputTypeOK' /\ OthersStay(s)
      /\ overrun' \subseteq Outputs /\ out_refused' \subseteq Outputs
  BY <1>1, <1>2, <1>4, RouteStep DEF Routes3
<1>6. PatchesTypeOK'
  BY <1>2, <1>3, <1>5 DEF PatchInv, PatchesTypeOK, UNCHANGED_streams
<1> QED
  BY <1>1, <1>2, <1>3, <1>5, <1>6, OneStreamsPatches

LEMMA PatchNextInv == PatchInv /\ [PatchesNext]_patchVars => PatchInv'
<1> SUFFICES ASSUME PatchInv, [PatchesNext]_patchVars PROVE PatchInv'
  OBVIOUS
<1>1. ASSUME NEW s \in Outputs, NEW devices \in Routes, CreateStreamOut(s, devices) PROVE PatchInv'
  BY <1>1, CreateOutInv
<1>2. ASSUME NEW s \in Outputs, CloseStreamOut(s) PROVE PatchInv'
  BY <1>2, CloseOutInv
<1>3. ASSUME NEW s \in Outputs, OpenOnDevices(s) PROVE PatchInv'
  BY <1>3, OpenOutInv
<1>4. ASSUME NEW s \in Outputs, CloseSession(s) PROVE PatchInv'
  BY <1>4, CloseSessionInv
<1>5. ASSUME NEW s \in Outputs, Reroute(s) PROVE PatchInv'
  BY <1>5, RerouteInv
<1>6. ASSUME NEW h \in Handles, NEW devices \in Routes, UpdatePatch(h, devices) PROVE PatchInv'
  BY <1>6, UpdatePatchInv
<1>7. ASSUME NEW h \in Handles, NEW s \in Outputs, NEW devices \in Routes,
             CreatePatch(h, s, devices)
      PROVE  PatchInv'
  BY <1>7, CreatePatchInv
<1>8. ASSUME NEW h \in Handles, ReleasePatch(h) PROVE PatchInv'
  BY <1>8, ReleasePatchInv
<1>9. CASE UNCHANGED patchVars
  <2>1. UNCHANGED <<stream_out_list_, stream_out_primary_, mAndroidOutDevices, mPalOutDevice,
                    out_session, patch_map_, use_spk_whs_combo, overrun, out_refused>>
    BY <1>9 DEF patchVars, outputState
  <2>2. OutputTypeOK' /\ OthersStay(Primary)
    BY <2>1 DEF PatchInv, OutputTypeOK, OthersStay
  <2>3. \A sinks : On(Primary, sinks) => On(Primary, sinks)'
    BY <2>1 DEF On
  <2> QED
    BY <2>1, <2>2, <2>3, SamePatches, PrimaryAssumption DEF PatchInv, PatchesTypeOK
<1> QED
  BY <1>1, <1>2, <1>3, <1>4, <1>5, <1>6, <1>7, <1>8, <1>9 DEF PatchesNext

\* Over any order of opens, closes, patches and failures of PAL, for any devices, the
\* stream of a patch is on the sinks of the patch, and so is the array its session is
\* opened on, unless an update ended at a USB device or an array was written past its end
\* (AudioDevice.cpp:505-527, AudioStream.cpp:2303-2373).
THEOREM PatchesAreRouted == PatchesSpec => []PatchIsRouted
<1>1. PatchInv => PatchIsRouted
  BY DEF PatchInv
<1> QED
  BY <1>1, PatchInitInv, PatchNextInv, PTL DEF PatchesSpec

\* The lists and the patches keep their types, and a stream has one patch.
THEOREM PatchesTypeCorrect == PatchesSpec => []PatchesTypeOK
<1>1. PatchInv => PatchesTypeOK
  BY DEF PatchInv
<1> QED
  BY <1>1, PatchInitInv, PatchNextInv, PTL DEF PatchesSpec
==============================================================================
