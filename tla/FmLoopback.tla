------------------------------ MODULE FmLoopback ------------------------------
(***************************************************************************)
(* hal/audio_extn/FM.cpp: the FM radio as a PAL loopback session from the  *)
(* tuner to the speaker or a wired device, run by the fm_* keys of         *)
(* SetParameters.  The volume and the mute are kept in `fm` and outlive    *)
(* every session; a change of device closes the session and opens another. *)
(***************************************************************************)
EXTENDS Integers

CONSTANT FmVolumes    \* the values of fm_volume, full scale is FullVolume
ASSUME FmVolumesAssumption == FmVolumes \subseteq Int

VARIABLES
  fm,            \* fm.running, fm.muted, fm.volume, and the device it plays to
  fm_pal,        \* the session: "none" or "started", and its volume
  fm_handle,     \* fm.stream_handle: "null", "live", or "closed" after a failed start
  fm_refused     \* history: PAL refused the last volume of the session

fmVars == <<fm, fm_pal, fm_handle, fm_refused>>

FullVolume == 10
FmDevices == {"speaker", "headset", "headphone"}
Clamped(value) == IF value < 0 THEN 0 ELSE IF value > FullVolume THEN FullVolume ELSE value

FmInit ==
  /\ fm = [running |-> FALSE, muted |-> FALSE, volume |-> 0, device |-> "speaker"]
  /\ fm_pal = [state |-> "none", heard |-> FullVolume]
  /\ fm_handle = "null"
  /\ fm_refused = FALSE

\* fm_set_volume(value, persist = true) clamps; persist = false never changes fm.volume, and
\* here is only called with a value in range.  What is sent is 0 when muted.
Sent(new, value) == IF new.muted THEN 0 ELSE Clamped(value)

\* fm_set_volume on a session that runs: PAL may refuse it.
SendFmVolume(new, value) ==
  \/ fm_pal' = [state |-> "started", heard |-> Sent(new, value)] /\ fm_refused' = FALSE
  \/ fm_pal' = [state |-> "started", heard |-> IF fm_pal.state = "none" THEN FullVolume
                                               ELSE fm_pal.heard] /\ fm_refused' = TRUE

\* fm_set_volume: ignored when nothing runs.
SetFm(new, value) ==
  /\ fm' = new
  /\ IF new.running THEN SendFmVolume(new, value) ELSE UNCHANGED <<fm_pal, fm_refused>>
  /\ UNCHANGED fm_handle

-----------------------------------------------------------------------------

\* fm_start, called when nothing runs: the volume is set between open and start.
Starts(d) ==
  /\ fm' = [fm EXCEPT !.running = TRUE, !.device = d]
  /\ \/ fm_pal' = [state |-> "started", heard |-> Sent(fm, fm.volume)] /\ fm_refused' = FALSE
     \/ fm_pal' = [state |-> "started", heard |-> FullVolume] /\ fm_refused' = TRUE
  /\ fm_handle' = "live"

\* fm_start that ends without a session: an unsupported device or a failed open leaves
\* the handle it found, a failed start the handle of the session it closed.
DoesNotStart(handle) ==
  /\ fm' = [fm EXCEPT !.running = FALSE]
  /\ fm_pal' = [state |-> "none", heard |-> FullVolume]
  /\ fm_handle' \in {handle, "closed"}
  /\ UNCHANGED fm_refused

\* handle_fm with AUDIO_DEVICE_OUT_FM.
HandleFmOn(d) ==
  /\ ~fm.running
  /\ Starts(d)

HandleFmOnFails ==
  /\ ~fm.running
  /\ DoesNotStart(fm_handle)

\* handle_fm without AUDIO_DEVICE_OUT_FM: silence, then fm_stop.
HandleFmOff ==
  /\ fm.running
  /\ fm' = [fm EXCEPT !.running = FALSE]
  /\ fm_pal' = [state |-> "none", heard |-> FullVolume]
  /\ fm_handle' = "null"
  /\ UNCHANGED fm_refused

\* fm_routing: silence, fm_stop, fm_start on the new device.
FmRouting(d) ==
  /\ fm.running
  /\ Starts(d)

FmRoutingFails ==
  /\ fm.running
  /\ DoesNotStart("null")

\* fm_volume
FmVolume(value) ==
  SetFm([fm EXCEPT !.volume = Clamped(value)], value)

\* Mutant: the end of the mute does not bring the volume back.
FmMuteKeepsSilence(muted) ==
  SetFm([fm EXCEPT !.muted = muted], 0)

\* fm_mute
FmMute(muted) ==
  SetFm([fm EXCEPT !.muted = muted], IF muted THEN 0 ELSE fm.volume)

\* fm_restore_volume
FmRestoreVolume ==
  SetFm(fm, fm.volume)

FmNext ==
  \/ \E d \in FmDevices : HandleFmOn(d) \/ FmRouting(d)
  \/ HandleFmOnFails \/ FmRoutingFails \/ HandleFmOff
  \/ \E value \in FmVolumes : FmVolume(value)
  \/ \E muted \in BOOLEAN : FmMute(muted)
  \/ FmRestoreVolume

FmSpec == FmInit /\ [][FmNext]_fmVars

-----------------------------------------------------------------------------
\* The variables have their types.
FmTypeOK ==
  /\ fm \in [running : BOOLEAN, muted : BOOLEAN, volume : 0..FullVolume, device : FmDevices]
  /\ fm_pal \in [state : {"none", "started"}, heard : 0..FullVolume]
  /\ fm_handle \in {"null", "live", "closed"} /\ fm_refused \in BOOLEAN

\* Over any order of volumes, mutes and changes of device, also those made while the
\* radio is off, a radio that plays has the last volume asked for, or is silent when it is
\* muted, unless PAL refused it (FM.cpp:87-133, 355-363).
FmVolumeHeard ==
  fm.running /\ ~fm_refused => fm_pal.heard = IF fm.muted THEN 0 ELSE fm.volume

\* A session is open exactly while the radio runs, and only then is fm_stop given a handle
\* that is open (FM.cpp:185-230): after a failed start the handle of the closed session stays.
FmHandleLive ==
  /\ fm.running <=> fm_handle = "live"
  /\ fm.running <=> fm_pal.state = "started"
=============================================================================
