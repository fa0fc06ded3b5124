--------------------------- MODULE VisualizerCapture ---------------------------
(***************************************************************************)
(* What one effect of the offload visualizer does with the captured data:  *)
(* the ring of samples VISUALIZER_CMD_CAPTURE copies from and the ring of  *)
(* measurements VISUALIZER_CMD_MEASURE reports, in audio-effects/          *)
(* visualizer/offload_visualizer.c.  When the thread captures is the       *)
(* subject of Visualizer; process and commands hold `lock`, so each is one *)
(* step.  The effect is offloaded: of one that is not, a capture leaves    *)
(* the reply as it came.                                                   *)
(*                                                                         *)
(* A sample is its number in the order captured, and 0 is silence; a       *)
(* measurement is the peak of its buffer, to which the average is handled  *)
(* alike.  The scaling of samples is left out.  Time is how long ago the   *)
(* last buffer came: less than MAX_STALL_TIME_MS, longer, or longer than   *)
(* DISCARD_MEASUREMENTS_TIME_MS.                                           *)
(***************************************************************************)
EXTENDS Integers, Sequences, FiniteSetsExt

CONSTANTS
  BufSize,        \* CAPTURE_BUF_SIZE
  CaptureSizeMax, \* VISUALIZER_CAPTURE_SIZE_MAX, the size of a new effect
  CaptureSizes,   \* the sizes asked for, which nobody checks against the ring
  Periods,        \* the numbers of frames in a buffer
  Window,         \* MEASUREMENT_WINDOW_MAX_SIZE_IN_BUFFERS
  Peaks,          \* the peaks of buffers
  MaxSamples      \* bound: samples captured between two resets
ASSUME CaptureAssumption ==
  /\ BufSize \in Nat \ {0} /\ Window \in Nat \ {0} /\ MaxSamples \in Nat
  /\ CaptureSizeMax \in 1..BufSize /\ CaptureSizes \subseteq Nat
  /\ Periods \subseteq Nat \ {0} /\ Peaks \subseteq Nat

VARIABLES
  effect_active,      \* context->state is ACTIVE
  capture_idx, last_capture_idx, capture_size, capture_buf,
  update_time_set,    \* buffer_update_time.tv_sec is not 0
  age,                \* how long ago the last buffer came
  meas_mode, meas_buffer_idx, past_meas,
  samples,            \* history: samples captured since the reset
  measured_peaks      \* history: the measurements made since they were discarded

ringVars == <<capture_idx, last_capture_idx, capture_size, capture_buf, samples>>
measureVars == <<meas_buffer_idx, past_meas, measured_peaks>>
captureVars ==
  <<effect_active, ringVars, update_time_set, age, meas_mode, measureVars>>

Silence == 0
Foreign == -1      \* a byte of the context outside the ring
NotValid == -1
Ages == {"fresh", "stalled", "old"}
NoMeasurements == [i \in 0..Window - 1 |-> NotValid]

\* effect_lib_create: the context is zero before visualizer_init, which resets too.
CaptureInit ==
  /\ effect_active = FALSE
  /\ capture_idx = 0 /\ last_capture_idx = 0 /\ samples = 0
  /\ capture_size = CaptureSizeMax
  /\ capture_buf = [i \in 0..BufSize - 1 |-> Silence]
  /\ update_time_set = FALSE /\ age = "fresh"
  /\ meas_mode = FALSE /\ meas_buffer_idx = 0
  /\ past_meas = NoMeasurements /\ measured_peaks = <<>>

RingReset ==
  /\ capture_idx' = 0 /\ last_capture_idx' = 0 /\ samples' = 0
  /\ capture_buf' = [i \in 0..BufSize - 1 |-> Silence]
  /\ update_time_set' = FALSE /\ age' = "fresh"

MeasurementsDiscarded ==
  past_meas' = NoMeasurements /\ meas_buffer_idx' = 0 /\ measured_peaks' = <<>>

\* visualizer_init by EFFECT_CMD_INIT, of an effect in use too.
InitCapture ==
  /\ RingReset /\ MeasurementsDiscarded
  /\ capture_size' = CaptureSizeMax
  /\ meas_mode' = FALSE
  /\ UNCHANGED effect_active

\* visualizer_reset, by EFFECT_CMD_RESET and set_config.  The measurements stay.
ResetCapture ==
  /\ RingReset
  /\ UNCHANGED <<effect_active, capture_size, meas_mode, measureVars>>

\* EFFECT_CMD_ENABLE and EFFECT_CMD_DISABLE.
SetEffectActive(active) ==
  /\ effect_active' = active
  /\ UNCHANGED <<ringVars, update_time_set, age, meas_mode, measureVars>>

\* visualizer_set_parameter.
SetCaptureSize(size) ==
  /\ capture_size' = size
  /\ UNCHANGED <<effect_active, capture_idx, last_capture_idx, capture_buf, samples,
                 update_time_set, age, meas_mode, measureVars>>
SetMeasurementMode(on) ==
  /\ meas_mode' = on
  /\ UNCHANGED <<effect_active, ringVars, update_time_set, age, measureVars>>

Aging ==
  /\ age # "old"
  /\ age' = IF age = "fresh" THEN "stalled" ELSE "old"
  /\ UNCHANGED <<effect_active, ringVars, update_time_set, meas_mode, measureVars>>

-----------------------------------------------------------------------------
\* Mutant: the index wraps a sample too early.
RingOneShort(frames) ==
  LET ring[j \in 0..frames] ==
        IF j = 0 THEN [idx |-> capture_idx, buf |-> capture_buf]
        ELSE LET at == IF ring[j - 1].idx >= BufSize - 1 THEN 0 ELSE ring[j - 1].idx
             IN [idx |-> at + 1, buf |-> [ring[j - 1].buf EXCEPT ![at] = samples + j]]
  IN ring[frames]

\* The loop of visualizer_process over the frames of a buffer: the index wraps before it
\* is used, so that it may be BufSize in between.
Ring(frames) ==
  LET ring[j \in 0..frames] ==
        IF j = 0 THEN [idx |-> capture_idx, buf |-> capture_buf]
        ELSE LET at == IF ring[j - 1].idx >= BufSize THEN 0 ELSE ring[j - 1].idx
             IN [idx |-> at + 1, buf |-> [ring[j - 1].buf EXCEPT ![at] = samples + j]]
  IN ring[frames]

\* visualizer_process: a measurement if they are wanted, then the samples.
ProcessBuffer(frames, peak) ==
  /\ samples + frames <= MaxSamples
  /\ IF meas_mode
     THEN /\ past_meas' = [past_meas EXCEPT ![meas_buffer_idx] = peak]
          /\ meas_buffer_idx' = (meas_buffer_idx + 1) % Window
          /\ measured_peaks' =
               <<peak>> \o SubSeq(measured_peaks, 1, Min({Len(measured_peaks), Window - 1}))
     ELSE UNCHANGED measureVars
  /\ capture_buf' = Ring(frames).buf
  /\ capture_idx' = Ring(frames).idx
  /\ samples' = samples + frames
  /\ update_time_set' = TRUE /\ age' = "fresh"
  /\ UNCHANGED <<effect_active, last_capture_idx, capture_size, meas_mode>>

\* visualizer_get_delta_time_ms_from_updated_time: 0 while no time is set.
OlderThan(ages) == update_time_set /\ age \in ages

\* How much of the reply comes from the end of the ring.  As the latency is 0, the reply
\* ends at the last sample captured.
BeforeWrap == IF capture_idx < capture_size THEN capture_size - capture_idx ELSE 0

InRing(place) == IF place \in 0..BufSize - 1 THEN capture_buf[place] ELSE Foreign
Copied ==
  [i \in 1..capture_size |->
     IF i <= BeforeWrap THEN InRing(BufSize - BeforeWrap + i - 1)
     ELSE InRing(capture_idx - capture_size + i - 1)]

\* No buffer since the last capture, nor for MAX_STALL_TIME_MS.
GoesIdle == capture_idx = last_capture_idx /\ OlderThan({"stalled", "old"})

\* What VISUALIZER_CMD_CAPTURE writes from the start of the reply on.  The silence of a
\* stall is written from where the copy went on after the end of the ring, and as long as
\* the whole reply: its head stays, and as much is written past its end.
CaptureReply ==
  IF ~effect_active THEN [i \in 1..capture_size |-> Silence]
  ELSE IF GoesIdle
  THEN [i \in 1..capture_size + BeforeWrap |-> IF i <= BeforeWrap THEN Copied[i] ELSE Silence]
  ELSE Copied

\* VISUALIZER_CMD_CAPTURE: what it leaves behind.
CommandCapture ==
  /\ effect_active
  /\ last_capture_idx' = capture_idx
  /\ update_time_set' = (update_time_set /\ ~GoesIdle)
  /\ UNCHANGED <<effect_active, capture_idx, capture_size, capture_buf, samples, age,
                 meas_mode, measureVars>>

\* The peak in the reply of VISUALIZER_CMD_MEASURE.
MeasureReply ==
  IF OlderThan({"old"}) THEN 0
  ELSE Max({0} \cup {past_meas[i] : i \in 0..Window - 1})

\* VISUALIZER_CMD_MEASURE discards what is too old, and changes nothing otherwise.
CommandMeasure ==
  /\ OlderThan({"old"})
  /\ MeasurementsDiscarded
  /\ UNCHANGED <<effect_active, ringVars, update_time_set, age, meas_mode>>

CaptureNext ==
  \/ InitCapture \/ ResetCapture \/ Aging \/ CommandCapture \/ CommandMeasure
  \/ \E on \in BOOLEAN : SetEffectActive(on) \/ SetMeasurementMode(on)
  \/ \E size \in CaptureSizes : SetCaptureSize(size)
  \/ \E frames \in Periods, peak \in Peaks : ProcessBuffer(frames, peak)

CaptureSpec == CaptureInit /\ [][CaptureNext]_captureVars

-----------------------------------------------------------------------------
CaptureTypeOK ==
  /\ effect_active \in BOOLEAN /\ update_time_set \in BOOLEAN /\ meas_mode \in BOOLEAN
  /\ capture_idx \in 0..BufSize /\ last_capture_idx \in 0..BufSize
  /\ capture_size \in CaptureSizes \cup {CaptureSizeMax}
  /\ capture_buf \in [0..BufSize - 1 -> 0..MaxSamples]
  /\ age \in Ages
  /\ meas_buffer_idx \in 0..Window - 1
  /\ past_meas \in [0..Window - 1 -> Peaks \cup {NotValid}]
  /\ samples \in 0..MaxSamples
  /\ measured_peaks \in Seq(Peaks)

\* What an active effect returns is the last samples captured, in their order and with
\* silence before the first, however often the ring has wrapped, as long as the size asked
\* for is one the ring has.  It says nothing of a stall, from the capture that notices it
\* to the next buffer (offload_visualizer.c:866-892).
CaptureIsRecent ==
  /\ effect_active /\ capture_size <= BufSize
  /\ samples = 0 \/ (update_time_set /\ ~GoesIdle)
  => \A i \in 1..capture_size :
       LET recent == samples - capture_size + i
       IN CaptureReply[i] = (IF recent > 0 THEN recent ELSE Silence)

\* The measurement returned is that of the last buffers measured, at most Window of them.
MeasureIsRecent ==
  MeasureReply = IF OlderThan({"old"}) THEN 0
                 ELSE Max({0} \cup {measured_peaks[i] : i \in DOMAIN measured_peaks})

RepliesAreRecent == CaptureIsRecent /\ MeasureIsRecent
===============================================================================
