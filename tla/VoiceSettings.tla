----------------------------- MODULE VoiceSettings -----------------------------
(***************************************************************************)
(* The settings of hal/AudioVoice.cpp that outlive a call: the voice       *)
(* volume, teletype mode, slow talk, volume boost and HD voice.  Each is   *)
(* kept for every session, sent to the calls there are, and given to a     *)
(* call that starts.                                                       *)
(*                                                                         *)
(* Volume boost is for the handset and the speaker: VoiceSetDevice, which  *)
(* every routing of a call goes through, takes it from a call that is      *)
(* moved to another device and gives it back to one that returns, while    *)
(* the session goes on asking for it.                                      *)
(*                                                                         *)
(* VoiceSetParameters takes one key after the other; a value it does not   *)
(* know ends the call, and the keys behind it are lost.  The audio server  *)
(* makes no such call, and moves no call, while it starts calls, but       *)
(* SetVoiceVolume comes from another thread and takes no lock: it is a     *)
(* step for each thing it does.  VoiceCall has the calls themselves; here  *)
(* a call starts and stops.                                                *)
(***************************************************************************)
EXTENDS Naturals, FiniteSets

CONSTANTS
  SettingSessions,   \* the voice sessions
  VoiceVolumes,      \* the volumes, from 1; NotSet is the -1.0 of the constructor
  TtyModes,          \* OFF, VCO, HCO and FULL
  VoiceEffects,      \* those of "slow_talk", "volume_boost" and "hd_voice" that there are
  RxDevices          \* the devices a call can be heard from
\* The sessions are numbered from 1.
ASSUME SettingSessionsAssumption ==
  /\ 1 \in SettingSessions /\ SettingSessions \subseteq Nat \ {0}
  /\ \A i \in SettingSessions : 1..i \subseteq SettingSessions
ASSUME VoiceVolumesAssumption == 0 \notin VoiceVolumes
ASSUME TtyAssumption == "OFF" \in TtyModes /\ TtyModes \subseteq {"OFF", "VCO", "HCO", "FULL"}

VARIABLES
  tty_mode, effects,    \* of each session: its teletype mode, the effects that are on
  call_mode, rx_device, \* mode_ and pal_voice_rx_device_id_, of all calls
  pal_vol,              \* pal_vol_, which all sessions share
  call,                 \* of each session: how far its call is
  call_pal,             \* of each session: what its PAL stream was given
  volume_at,            \* SetVoiceVolume: the session it is at, and whether it has stored
  asked_volume,         \* SetVoiceVolume: its argument
  pal_deaf              \* history: the calls whose PAL stream refused a setting

cachedVars == <<tty_mode, effects, pal_vol>>
volumeCall == <<volume_at, asked_volume>>
routeVars == <<call_mode, rx_device>>
settingVars == <<cachedVars, routeVars, call, call_pal, volumeCall, pal_deaf>>

NotSet == 0
\* pal_stream_open has set pal_voice_handle; the state is ACTIVE when VoiceStart returns.
CallPoints == {"none", "opened", "volumed", "active"}
CallModes == {"NORMAL", "IN_CALL", "CALL_SCREEN"}
NewStream == [tty |-> "OFF", pair |-> "OFF", rx |-> "none", effects |-> {}, volume |-> NotSet]
Idle == [session |-> 1, step |-> "idle"]
IsActive(i) == call[i] = "active"
HasHandle(i) == call[i] # "none"

SettingsInit ==
  /\ tty_mode = [i \in SettingSessions |-> "OFF"]
  /\ effects = [i \in SettingSessions |-> {}]
  /\ pal_vol = NotSet
  /\ call_mode = "NORMAL" /\ rx_device \in RxDevices
  /\ call = [i \in SettingSessions |-> "none"]
  /\ call_pal = [i \in SettingSessions |-> NewStream]
  /\ volume_at = Idle /\ asked_volume = NotSet
  /\ pal_deaf = {}

-----------------------------------------------------------------------------
\* PAL may refuse each setting of a call; nobody looks at the result.
TakenBy(sessions, new) ==
  \E taken \in SUBSET sessions :
    /\ call_pal' = [i \in SettingSessions |-> IF i \in taken THEN new[i] ELSE call_pal[i]]
    /\ pal_deaf' = pal_deaf \cup (sessions \ taken)

ActiveCalls == {i \in SettingSessions : IsActive(i)}

\* For VCO and HCO the two devices of a call are paired.
PairFor(tty) == IF tty \in {"VCO", "HCO"} THEN tty ELSE "OFF"
\* The device a call is heard from: the one it was routed to, unless a proxy screens the
\* call or the pair has another one.
RxFor(tty, mode, rx) ==
  CASE tty = "HCO" /\ rx = "headset" -> "handset"
    [] tty = "VCO" /\ rx = "speaker" -> "headset"
    [] OTHER -> IF mode = "CALL_SCREEN" THEN "proxy" ELSE rx

Boost == "volume_boost"
BoostDevices == {"handset", "speaker"}

\* VoiceSetDevice: what it gives to the stream of a session that asks for these effects.
VoiceSetDevice(stream, tty, asked, rx) ==
  [stream EXCEPT !.pair = PairFor(tty), !.rx = rx,
                 !.effects = IF Boost \notin asked THEN @
                             ELSE IF rx \in BoostDevices THEN @ \cup {Boost} ELSE @ \ {Boost}]

\* VoiceSetDevice of some of the sessions, with the mode and the device there are now.
MoveCalls(sessions) ==
  TakenBy(sessions, [i \in SettingSessions |->
    VoiceSetDevice(call_pal[i], tty_mode[i], effects[i],
                   RxFor(tty_mode[i], call_mode', rx_device'))])

\* AUDIO_PARAMETER_KEY_TTY_MODE.  The calls are moved for VCO and HCO only: they stay
\* paired when the mode is left, until something else moves them.
SetTty(mode) ==
  /\ tty_mode' = [i \in SettingSessions |-> mode]
  /\ TakenBy(ActiveCalls, [i \in SettingSessions |->
       LET told == [call_pal[i] EXCEPT !.tty = mode]
       IN IF mode \in {"VCO", "HCO"}
          THEN VoiceSetDevice(told, mode, effects[i], RxFor(mode, call_mode, rx_device))
          ELSE told])
  /\ UNCHANGED <<effects, pal_vol, routeVars, call, volumeCall>>

\* AUDIO_PARAMETER_KEY_SLOWTALK, _VOLUME_BOOST and _HD_VOICE: sent to the calls there
\* are, volume boost whatever device they are on.
SetEffect(effect, on) ==
  LET Put(set) == IF on THEN set \cup {effect} ELSE set \ {effect}
  IN /\ effects' = [i \in SettingSessions |-> Put(effects[i])]
     /\ TakenBy(ActiveCalls,
          [i \in SettingSessions |-> [call_pal[i] EXCEPT !.effects = Put(@)]])
     /\ UNCHANGED <<tty_mode, pal_vol, routeVars, call, volumeCall>>

\* AUDIO_PARAMETER_KEY_HAC that differs: every call is moved to where it is.  What a
\* hearing aid changes in the devices' keys is left out.
SetHac ==
  /\ UNCHANGED <<cachedVars, routeVars, call, volumeCall>>
  /\ MoveCalls(ActiveCalls)

\* RouteStream.
RouteCalls(rx) ==
  /\ rx_device' = rx
  /\ UNCHANGED <<cachedVars, call_mode, call, volumeCall>>
  /\ MoveCalls(ActiveCalls)

\* SetMode: between a call and its screening, the first session is moved, and no other.
SetCallMode(mode) ==
  /\ call_mode # mode
  /\ call_mode' = mode
  /\ UNCHANGED <<cachedVars, rx_device, call, volumeCall>>
  /\ MoveCalls(IF "NORMAL" \in {mode, call_mode} THEN {} ELSE {1} \cap ActiveCalls)

-----------------------------------------------------------------------------
\* SetVoiceVolume: the loop over the sessions.
VolumeLoop(i) ==
  IF i + 1 \in SettingSessions THEN [session |-> i + 1, step |-> "store"] ELSE Idle

CallSetVoiceVolume(v) ==
  /\ volume_at = Idle
  /\ volume_at' = [session |-> 1, step |-> "store"]
  /\ asked_volume' = v
  /\ UNCHANGED <<cachedVars, routeVars, call, call_pal, pal_deaf>>

\* Mutant: the handle is looked at before the volume is stored.
LooksThenStores ==
  /\ volume_at.step = "store"
  /\ LET i == volume_at.session
     IN IF HasHandle(i)
        THEN pal_vol' = asked_volume /\ volume_at' = [volume_at EXCEPT !.step = "send"]
        ELSE pal_vol' = pal_vol /\ volume_at' = VolumeLoop(i)
  /\ UNCHANGED <<tty_mode, effects, routeVars, call, call_pal, asked_volume, pal_deaf>>

StoreVolume ==
  /\ volume_at.step = "store"
  /\ pal_vol' = asked_volume
  /\ volume_at' = [volume_at EXCEPT !.step = "look"]
  /\ UNCHANGED <<tty_mode, effects, routeVars, call, call_pal, asked_volume, pal_deaf>>

LookAtHandle ==
  /\ volume_at.step = "look"
  /\ volume_at' = IF HasHandle(volume_at.session) THEN [volume_at EXCEPT !.step = "send"]
                  ELSE VolumeLoop(volume_at.session)
  /\ UNCHANGED <<cachedVars, routeVars, call, call_pal, asked_volume, pal_deaf>>

\* pal_stream_set_volume reads what is stored.  A call that has ended meanwhile leaves a
\* handle that is closed.
SendVoiceVolume ==
  /\ volume_at.step = "send"
  /\ LET i == volume_at.session
     IN /\ volume_at' = VolumeLoop(i)
        /\ IF HasHandle(i)
           THEN TakenBy({i}, [call_pal EXCEPT ![i].volume = pal_vol])
           ELSE UNCHANGED <<call_pal, pal_deaf>>
  /\ UNCHANGED <<cachedVars, routeVars, call, asked_volume>>

-----------------------------------------------------------------------------
\* VoiceStart: the stream is opened with the mode and its pair of devices, then given the
\* effects that are on, volume boost on any device.
OpenCall(i) ==
  /\ call[i] = "none"
  /\ call' = [call EXCEPT ![i] = "opened"]
  /\ \E taken \in SUBSET effects[i] :
       /\ call_pal' = [call_pal EXCEPT ![i] =
            [tty |-> tty_mode[i], pair |-> PairFor(tty_mode[i]), effects |-> taken,
             rx |-> RxFor(tty_mode[i], call_mode, rx_device), volume |-> NotSet]]
       /\ pal_deaf' = IF taken = effects[i] THEN pal_deaf ELSE pal_deaf \cup {i}
  /\ UNCHANGED <<cachedVars, routeVars, volumeCall>>

\* "apply cached volume set by APM"
ApplyCachedVolume(i) ==
  /\ call[i] = "opened"
  /\ call' = [call EXCEPT ![i] = "volumed"]
  /\ IF pal_vol = NotSet THEN UNCHANGED <<call_pal, pal_deaf>>
     ELSE TakenBy({i}, [call_pal EXCEPT ![i].volume = pal_vol])
  /\ UNCHANGED <<cachedVars, routeVars, volumeCall>>

\* pal_stream_start and the state, which UpdateCalls sets.
StartCall(i) ==
  /\ call[i] = "volumed"
  /\ call' = [call EXCEPT ![i] = "active"]
  /\ UNCHANGED <<cachedVars, routeVars, call_pal, volumeCall, pal_deaf>>

\* VoiceStop, or a pal_stream_start that fails.
EndCall(i) ==
  /\ call[i] \in {"volumed", "active"}
  /\ call' = [call EXCEPT ![i] = "none"]
  /\ call_pal' = [call_pal EXCEPT ![i] = NewStream]
  /\ pal_deaf' = pal_deaf \ {i}
  /\ UNCHANGED <<cachedVars, routeVars, volumeCall>>

\* The audio server sets no parameter and moves no call while a call starts.
NoCallStarts == \A i \in SettingSessions : call[i] \in {"none", "active"}

SettingsNext ==
  \/ NoCallStarts /\ \E mode \in TtyModes : SetTty(mode)
  \/ NoCallStarts /\ \E effect \in VoiceEffects, on \in BOOLEAN : SetEffect(effect, on)
  \/ NoCallStarts /\ SetHac
  \/ NoCallStarts /\ \E rx \in RxDevices : RouteCalls(rx)
  \/ NoCallStarts /\ \E mode \in CallModes : SetCallMode(mode)
  \/ \E v \in VoiceVolumes : CallSetVoiceVolume(v)
  \/ StoreVolume \/ LookAtHandle \/ SendVoiceVolume
  \/ \E i \in SettingSessions :
       OpenCall(i) \/ ApplyCachedVolume(i) \/ StartCall(i) \/ EndCall(i)

SettingsSpec == SettingsInit /\ [][SettingsNext]_settingVars

-----------------------------------------------------------------------------
\* The variables have their types.
SettingsTypeOK ==
  /\ tty_mode \in [SettingSessions -> TtyModes]
  /\ effects \in [SettingSessions -> SUBSET VoiceEffects]
  /\ pal_vol \in VoiceVolumes \cup {NotSet} /\ asked_volume \in VoiceVolumes \cup {NotSet}
  /\ call \in [SettingSessions -> CallPoints]
  /\ call_mode \in CallModes /\ rx_device \in RxDevices
  /\ call_pal \in [SettingSessions -> [tty : TtyModes, pair : TtyModes,
                                       rx : RxDevices \cup {"handset", "headset", "proxy", "none"},
                                       effects : SUBSET VoiceEffects,
                                       volume : VoiceVolumes \cup {NotSet}]]
  /\ volume_at \in [session : SettingSessions,
                    step : {"idle", "store", "look", "send"}]
  /\ pal_deaf \subseteq SettingSessions

\* A call that is up has the settings made before it and during it, and the volume the
\* user set last even when it was set while the call started, in any order of the steps
\* of VoiceStart, VoiceSetDevice and SetVoiceVolume.  It has no effect nobody asked for,
\* and lacks one that was asked for only when that is volume boost and it is heard from
\* a device that has none: a move to such a device does not lose the boost for good
\* (there, a call may have it or not: only VoiceSetDevice looks at the device).  Excepted
\* is a call for which PAL refused a setting (AudioVoice.cpp:856-921, 1073-1094,
\* 1147-1170).
SettingsReach ==
  \A i \in SettingSessions : IsActive(i) /\ i \notin pal_deaf =>
    /\ call_pal[i].tty = tty_mode[i]
    /\ call_pal[i].effects \subseteq effects[i]
    /\ effects[i] \ call_pal[i].effects \subseteq
         IF call_pal[i].rx \in BoostDevices THEN {} ELSE {Boost}
    /\ volume_at = Idle => call_pal[i].volume = pal_vol
    /\ tty_mode[i] \in {"VCO", "HCO"} => call_pal[i].pair = tty_mode[i]
=============================================================================
