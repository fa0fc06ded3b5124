------------------------------ MODULE HfpLoopback ------------------------------
(***************************************************************************)
(* hal/audio_extn/Hfp.cpp: a Bluetooth hands-free call as two PAL loopback *)
(* sessions, rx from the SCO head set to the speaker and tx from the       *)
(* microphone to the head set, run by the hfp_* keys of SetParameters.     *)
(*                                                                         *)
(* A call of SetParameters may carry several keys and handles them one     *)
(* after the other; each depends on the state alone, so each is an action. *)
(***************************************************************************)
EXTENDS Integers

CONSTANT HfpVolumes    \* the values of hfp_volume and hfp_mic_volume
ASSUME HfpVolumesAssumption == HfpVolumes \subseteq Int

VARIABLES
  is_hfp_running,
  rx_stream_handle, tx_stream_handle,   \* whether the handle is set
  hfp_volume,        \* the volume last asked for, as it was asked
  mic_volume,        \* what is remembered of it, in fifteenths
  sample_rate,
  hfp_pal,           \* of each session behind the handles: "none", "started"
  rx_heard,          \* the volume of the rx session
  sco,               \* what PAL was told of the SCO link
  rx_refused         \* history: PAL refused the last volume

hfpState == <<is_hfp_running, rx_stream_handle, tx_stream_handle, hfp_pal>>
volumes == <<hfp_volume, mic_volume, rx_heard, rx_refused>>
hfpVars == <<hfpState, volumes, sample_rate, sco>>

MaxVolume == 15
CAPTURE_VOLUME_DEFAULT == 15
NoSessions == [rx |-> "none", tx |-> "none"]

\* The volume as it is sent, in fifteenths.
InRange(value) == IF value < 0 THEN 0 ELSE IF value > MaxVolume THEN MaxVolume ELSE value

HfpInit ==
  /\ is_hfp_running = FALSE
  /\ rx_stream_handle = FALSE /\ tx_stream_handle = FALSE
  /\ hfp_volume = 0 /\ mic_volume = CAPTURE_VOLUME_DEFAULT * 15
  /\ sample_rate = 16000
  /\ hfp_pal = NoSessions
  /\ rx_heard = MaxVolume
  /\ sco = [devices |-> {}, on |-> FALSE, wide |-> FALSE]
  /\ rx_refused = FALSE

\* The volume of the rx session, which PAL may refuse.
SendVolume(value) ==
  \/ rx_heard' = InRange(value) /\ rx_refused' = FALSE
  \/ UNCHANGED rx_heard /\ rx_refused' = TRUE

-----------------------------------------------------------------------------
\* What PAL was told when start_hfp has done the first n of: SCO microphone, SCO head
\* set, SCO on, wide band.
ScoAfter(n) ==
  [devices |-> sco.devices \cup (IF n >= 1 THEN {"in"} ELSE {})
                           \cup (IF n >= 2 THEN {"out"} ELSE {}),
   on |-> sco.on \/ n >= 3,
   wide |-> IF n >= 4 THEN sample_rate = 16000 ELSE sco.wide]

\* start_hfp asks that neither handle is set.
HandlesFree == ~rx_stream_handle /\ ~tx_stream_handle

\* A parameter is refused, or the rx session does not open: what was set stays set.
StartSetupFails ==
  /\ ~is_hfp_running /\ HandlesFree
  /\ \E n \in 0..4 : sco' = ScoAfter(n)
  /\ UNCHANGED <<hfpState, volumes, sample_rate>>

\* The rx session opens and does not start: it is closed, but the handle stays.
StartRxFails ==
  /\ ~is_hfp_running /\ HandlesFree
  /\ sco' = ScoAfter(4)
  /\ rx_stream_handle' = TRUE
  /\ UNCHANGED <<is_hfp_running, tx_stream_handle, hfp_pal, volumes, sample_rate>>

\* Mutant: the rx session is not closed when the tx session fails.
StartTxLeaks ==
  /\ ~is_hfp_running /\ HandlesFree
  /\ sco' = ScoAfter(4)
  /\ hfp_pal' = [NoSessions EXCEPT !.rx = "started"]
  /\ UNCHANGED <<is_hfp_running, rx_stream_handle, tx_stream_handle, volumes, sample_rate>>

\* The tx session does not open, or does not start: both are closed and both handles cleared.
StartTxFails ==
  /\ ~is_hfp_running /\ HandlesFree
  /\ sco' = ScoAfter(4)
  /\ UNCHANGED <<hfpState, volumes, sample_rate>>

\* start_hfp; hfp_set_volume sends the volume asked for, the microphone's is left alone.
StartHfp ==
  /\ ~is_hfp_running /\ HandlesFree
  /\ sco' = ScoAfter(4)
  /\ hfp_pal' = [rx |-> "started", tx |-> "started"]
  /\ rx_stream_handle' = TRUE /\ tx_stream_handle' = TRUE
  /\ is_hfp_running' = TRUE
  /\ SendVolume(hfp_volume)
  /\ UNCHANGED <<hfp_volume, mic_volume, sample_rate>>

\* stop_hfp; bt_sco_on is sent as true here too.
StopHfp ==
  /\ is_hfp_running
  /\ is_hfp_running' = FALSE
  /\ rx_stream_handle' = FALSE /\ tx_stream_handle' = FALSE
  /\ hfp_pal' = [rx |-> IF rx_stream_handle THEN "none" ELSE hfp_pal.rx,
                 tx |-> IF tx_stream_handle THEN "none" ELSE hfp_pal.tx]
  /\ sco' = [sco EXCEPT !.on = TRUE, !.devices = {}]
  /\ UNCHANGED <<volumes, sample_rate>>

\* hfp_set_sampling_rate: a call under way keeps its rate.
SetSamplingRate(rate) ==
  /\ sample_rate' = rate
  /\ UNCHANGED <<hfpState, volumes, sco>>

\* hfp_set_volume
SetHfpVolume(value) ==
  /\ hfp_volume' = value
  /\ IF is_hfp_running THEN SendVolume(value) ELSE UNCHANGED <<rx_heard, rx_refused>>
  /\ UNCHANGED <<hfpState, mic_volume, sample_rate, sco>>

\* hfp_set_mic_volume: refused when no call runs.  When PAL takes it, what is remembered is
\* not the value, as it was before the first, but its fraction of the largest one.
SetHfpMicVolume(value) ==
  /\ is_hfp_running
  /\ mic_volume' = InRange(value)
  /\ UNCHANGED <<hfpState, hfp_volume, rx_heard, rx_refused, sample_rate, sco>>

HfpNext ==
  \/ StartSetupFails \/ StartRxFails \/ StartTxFails \/ StartHfp \/ StopHfp
  \/ \E rate \in {8000, 16000} : SetSamplingRate(rate)
  \/ \E value \in HfpVolumes : SetHfpVolume(value)
  \/ \E value \in HfpVolumes : SetHfpMicVolume(value)

HfpSpec == HfpInit /\ [][HfpNext]_hfpVars

-----------------------------------------------------------------------------
\* The variables have their types.
HfpTypeOK ==
  /\ is_hfp_running \in BOOLEAN /\ rx_refused \in BOOLEAN
  /\ rx_stream_handle \in BOOLEAN /\ tx_stream_handle \in BOOLEAN
  /\ hfp_volume \in HfpVolumes \cup {0} /\ mic_volume \in 0..MaxVolume * 15
  /\ sample_rate \in {8000, 16000} /\ rx_heard \in 0..MaxVolume
  /\ hfp_pal \in [rx : {"none", "started"}, tx : {"none", "started"}]
  /\ sco \in [devices : SUBSET {"in", "out"}, on : BOOLEAN, wide : BOOLEAN]

\* Whichever of the steps of start_hfp fails, a call is whole: while one runs both
\* sessions are started behind their handles, and without one neither session is open:
\* nobody hears the microphone of a call that did not come up (Hfp.cpp:346-397).
HfpWhole ==
  IF is_hfp_running
  THEN hfp_pal = [rx |-> "started", tx |-> "started"] /\ rx_stream_handle /\ tx_stream_handle
  ELSE hfp_pal = NoSessions /\ ~tx_stream_handle

\* The volume asked for before or during a call is the volume of the call, unless PAL
\* refused it: start_hfp sends what was stored while no call ran (Hfp.cpp:401).
HfpVolumeHeard ==
  is_hfp_running /\ ~rx_refused => rx_heard = InRange(hfp_volume)

=============================================================================
