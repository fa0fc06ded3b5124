---------------------------- MODULE VolumeListener ----------------------------
(***************************************************************************)
(* audio-effects/post_proc/volume_listener.c: an effect that processes     *)
(* nothing.  The audio server attaches one to every output session to tell *)
(* it the volume and the device, and the library turns the loudness of     *)
(* what plays on the speaker into a gain dependent calibration level,      *)
(* which the HAL sends to the DSP.                                         *)
(*                                                                         *)
(* Every entry point holds vol_listner_init_lock, so each is one step.     *)
(* A volume stands for its amplitude in thousandths; loudness is compared  *)
(* by its square, so that no root is taken.                                *)
(***************************************************************************)
EXTENDS Integers, Sequences, FiniteSets, SequencesExt, Functions

CONSTANTS
  Listeners,    \* the contexts
  Volumes,      \* the volumes the audio server sets
  GainTable     \* volume_curve_gain_mapping_table: a sequence of [amp, level]

VARIABLES
  listener,             \* of each context: its stream type, state, device, volume
  vol_effect_list,      \* the contexts in the list, oldest first
  current_vol,          \* the loudness the current level was selected for
  current_gain_dep_cal_level,
  headset_cal_enabled,  \* property vendor.audio.volume.headset.gain.depcal
  send_gain_dep_cal,    \* FALSE when the HAL library has no such function
  dsp_level,            \* the level last sent to the DSP
  excused               \* history: the level is known to be behind, see below

volumeState == <<vol_effect_list, current_vol, current_gain_dep_cal_level, dsp_level, excused>>
volumeVars == <<listener, volumeState, headset_cal_enabled, send_gain_dep_cal>>

\* "HEADSET": earpiece, wired head set and head phones; "OTHER": any other device.
ListenerDevices == {"NONE", "SPEAKER", "HEADSET", "OTHER"}
ListenerTypes == {"VC_CALL", "MEDIA"}
FreeListener == [stream_type |-> "MEDIA", state |-> "none", dev_id |-> "NONE", volume |-> 0]
DEFAULT_CAL_STEP == 0

Square(amp) == amp * amp
Unity == Square(1000)
None == -1

\* verify_context: whether the level depends on this context.
verify_context(c) ==
  \/ c.stream_type = "VC_CALL" /\ headset_cal_enabled /\ c.dev_id = "HEADSET"
  \/ c.dev_id = "SPEAKER"

\* The squared volumes of the active contexts in a list that the level depends on.
Playing(list, of) ==
  LET playing == {l \in ToSet(list) : of[l].state = "ACTIVE" /\ verify_context(of[l])}
  IN [l \in playing |-> Square(of[l].volume)]

\* Their energy, capped at full scale; None when there is none.
Loudness(list, of) ==
  LET energy == SumFunction(Playing(list, of))
  IN IF DOMAIN Playing(list, of) = {} THEN None ELSE IF energy > Unity THEN Unity ELSE energy

\* The level the table gives for a loudness; None when it gives none.
LevelFor(loud) ==
  LET in == {i \in 1..Len(GainTable) - 1 :
               Square(GainTable[i].amp) <= loud /\ loud < Square(GainTable[i + 1].amp)}
  IN IF loud >= Unity THEN GainTable[Len(GainTable)].level
     ELSE IF loud = None THEN DEFAULT_CAL_STEP
     ELSE IF loud = 0 THEN GainTable[1].level
     ELSE IF in = {} THEN None
     ELSE GainTable[CHOOSE i \in in : \A j \in in : i <= j].level

\* check_and_set_gain_dep_cal on the new list and contexts, from the (vol, level) pair
\* that is current.  The level is excused when nothing could be sent: no level for this
\* loudness, a failed send, or a silence that equals the volume a release has reset.
check_and_set_gain_dep_cal(vol, level) ==
  LET loud == Loudness(vol_effect_list', listener')
      new == LevelFor(loud)
      Keep(behind) == /\ current_vol' = vol
                      /\ current_gain_dep_cal_level' = level
                      /\ excused' = behind
                      /\ UNCHANGED dsp_level
  IN \/ /\ loud = vol \/ ~send_gain_dep_cal
        /\ Keep(level = None)
     \/ /\ loud # vol /\ send_gain_dep_cal /\ new \in {None, level}
        /\ Keep(new = None)
     \/ /\ loud # vol /\ send_gain_dep_cal /\ new \notin {None, level}
        /\ \/ Keep(TRUE)
           \/ /\ current_vol' = loud
              /\ current_gain_dep_cal_level' = new
              /\ dsp_level' = new
              /\ excused' = FALSE

Recompute == check_and_set_gain_dep_cal(current_vol, current_gain_dep_cal_level)
SameLevel == UNCHANGED <<current_vol, current_gain_dep_cal_level, dsp_level, excused>>
UNCHANGED_setup == UNCHANGED <<headset_cal_enabled, send_gain_dep_cal>>

-----------------------------------------------------------------------------
VolumeInit ==
  /\ listener = [l \in Listeners |-> FreeListener]
  /\ vol_effect_list = <<>>
  /\ current_vol = 0
  /\ current_gain_dep_cal_level = None
  /\ headset_cal_enabled \in BOOLEAN
  /\ send_gain_dep_cal \in BOOLEAN
  /\ dsp_level = DEFAULT_CAL_STEP
  /\ excused = FALSE

\* vol_prc_lib_create
CreateListener(l, type) ==
  /\ listener[l].state = "none"
  /\ listener' = [listener EXCEPT
       ![l] = [FreeListener EXCEPT !.stream_type = type, !.state = "INITIALIZED"]]
  /\ vol_effect_list' = Append(vol_effect_list, l)
  /\ SameLevel /\ UNCHANGED_setup

\* EFFECT_CMD_ENABLE and EFFECT_CMD_DISABLE: refused in any other state.
SetActive(l, from, to) ==
  /\ listener[l].state = from
  /\ listener' = [listener EXCEPT ![l].state = to]
  /\ UNCHANGED vol_effect_list
  /\ IF verify_context(listener[l]) THEN Recompute ELSE SameLevel
  /\ UNCHANGED_setup

EnableListener(l) == SetActive(l, "INITIALIZED", "ACTIVE")

\* Mutant: a context that stops playing leaves the level as it is.
DisableQuietly(l) ==
  /\ listener[l].state = "ACTIVE"
  /\ listener' = [listener EXCEPT ![l].state = "INITIALIZED"]
  /\ UNCHANGED vol_effect_list
  /\ SameLevel /\ UNCHANGED_setup

DisableListener(l) == SetActive(l, "ACTIVE", "INITIALIZED")

\* EFFECT_CMD_SET_DEVICE looks for the speaker only: the level does not follow a call
\* that moves from another device to a calibrated head set.
SetListenerDevice(l, d) ==
  /\ listener[l].state # "none" /\ listener[l].dev_id # d
  /\ listener' = [listener EXCEPT ![l].dev_id = d]
  /\ UNCHANGED vol_effect_list
  /\ IF verify_context(listener[l]) \/ d = "SPEAKER" THEN Recompute
     ELSE /\ excused' = (excused \/ (listener[l].state = "ACTIVE" /\ verify_context(listener'[l])))
          /\ UNCHANGED <<current_vol, current_gain_dep_cal_level, dsp_level>>
  /\ UNCHANGED_setup

\* EFFECT_CMD_SET_VOLUME, the louder of the two channels.
SetListenerVolume(l, v) ==
  /\ listener[l].state # "none" /\ listener[l].volume # v
  /\ listener' = [listener EXCEPT ![l].volume = v]
  /\ UNCHANGED vol_effect_list
  /\ IF verify_context(listener[l]) THEN Recompute ELSE SameLevel
  /\ UNCHANGED_setup

\* vol_prc_lib_release: the walk stops at the context it removes, so what it counts, and
\* resets the level for, is "the oldest context goes", not "no stream is active".
ReleaseListener(l) ==
  /\ \E i \in DOMAIN vol_effect_list :
       vol_effect_list[i] = l /\ vol_effect_list' = RemoveAt(vol_effect_list, i)
  /\ listener' = [listener EXCEPT ![l] = FreeListener]
  /\ LET oldest == Head(vol_effect_list) = l
         vol == IF oldest THEN 0 ELSE current_vol
         level == IF oldest THEN None ELSE current_gain_dep_cal_level
     IN IF verify_context(listener[l]) THEN check_and_set_gain_dep_cal(vol, level)
        ELSE /\ current_vol' = vol /\ current_gain_dep_cal_level' = level
             /\ UNCHANGED <<dsp_level, excused>>
  /\ UNCHANGED_setup

VolumeNext ==
  \E l \in Listeners :
    \/ \E type \in ListenerTypes : CreateListener(l, type)
    \/ EnableListener(l)
    \/ DisableListener(l)
    \/ \E d \in ListenerDevices \ {"NONE"} : SetListenerDevice(l, d)
    \/ \E v \in Volumes : SetListenerVolume(l, v)
    \/ ReleaseListener(l)

VolumeSpec == VolumeInit /\ [][VolumeNext]_volumeVars

-----------------------------------------------------------------------------
\* The contexts, the list and the level have their types, and the list holds each
\* context that exists once.
VolumeTypeOK ==
  /\ listener \in [Listeners -> [stream_type : ListenerTypes, dev_id : ListenerDevices,
                     state : {"none", "INITIALIZED", "ACTIVE"}, volume : Volumes \cup {0}]]
  /\ ToSet(vol_effect_list) = {l \in Listeners : listener[l].state # "none"}
  /\ Cardinality(ToSet(vol_effect_list)) = Len(vol_effect_list)
  /\ current_vol \in None..Unity
  /\ {current_gain_dep_cal_level, dsp_level} \subseteq
       {None, DEFAULT_CAL_STEP} \cup {GainTable[i].level : i \in DOMAIN GainTable}
  /\ {headset_cal_enabled, send_gain_dep_cal, excused} \subseteq BOOLEAN

\* Over any order of enables, moves, volumes and releases of several outputs, the DSP has
\* the level of what is active on the speaker now (volume_listener.c:296-397): whoever changes
\* a context the level depends on also recomputes it.
LevelFollowsActive ==
  send_gain_dep_cal /\ ~excused =>
    dsp_level = LevelFor(Loudness(vol_effect_list, listener))

=============================================================================
