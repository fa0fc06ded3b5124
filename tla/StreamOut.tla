------------------------------ MODULE StreamOut ------------------------------
(***************************************************************************)
(* StreamOutPrimary of hal/AudioStream.cpp: one playback stream of the     *)
(* HAL, the PAL sessions it opens, and the threads that call it at the     *)
(* same time: the writer (out_write), the control threads of the audio     *)
(* server (standby, pause, resume, flush, drain, position queries), the    *)
(* PAL callback threads and the sound card (subsystem restart).            *)
(*                                                                         *)
(* stream_mutex_ makes most handlers one step.  A handler is split where   *)
(* the code drops the mutex (the sound-card-offline branch of Standby, the *)
(* error path of write, the position queries) and where a PAL callback,    *)
(* which takes no stream_mutex_, can come between two of its statements    *)
(* (gapless metadata, and Standby between the stop and the close).         *)
(***************************************************************************)
EXTENDS Integers, FiniteSets

CONSTANTS
  Writer,       \* the thread that calls out_write
  Clients,      \* the threads that call every other operation
  NoThread,     \* stream_mutex_ is free
  Sessions,     \* the PAL session handles
  Null,         \* the NULL handle
  Usecases,     \* the use cases a stream may be created for
  MaxFrames,    \* bound on the frames a PCM offload client writes
  Latency       \* frames GetFramesWritten takes off: kernel buffers, DSP delay

ASSUME ThreadAssumption == /\ Writer \notin Clients
                           /\ NoThread \notin Clients \cup {Writer}
ASSUME SessionAssumption == Null \notin Sessions
ASSUME BoundAssumption == MaxFrames \in Nat \ {0} /\ Latency \in Nat

AllUsecases == {"OFFLOAD", "OFFLOAD2", "WITH_HAPTICS", "MMAP", "VOIP", "DEEP_BUFFER"}
ASSUME UsecaseAssumption == Usecases \subseteq AllUsecases /\ Usecases # {}

VARIABLES
  \* members of StreamOutPrimary, with the names of the source
  alive,                      \* between the constructor and the destructor
  usecase_,
  pal_stream_handle_,
  pal_haptics_stream_handle,
  stream_started_,
  stream_paused_,
  sendGaplessMetadata,
  mBytesWritten,              \* counted in frames
  mCachedPosition,
  stream_mutex_,              \* the thread that holds it, or NoThread
  pc,                         \* where each thread is in its handler
  seen,                       \* GetFramesWritten's result, before it is stored
  \* outside the stream
  sndCardState,               \* AudioDevice::sndCardState
  pal,                        \* state of each PAL session
  dsp,                        \* frames the main session reports as rendered
  queued,                     \* frames written to it and not rendered yet
  effects,                    \* session the offload effects bundle was started on
  mdata,                      \* sessions that were sent gapless metadata
  drain,                      \* drain the PAL session has not answered yet
  \* history
  framesSent,                 \* frames given to write since the stream exists
  lateRead,                   \* an offline position was read after the card was back
  lateDrain                   \* DRAIN_READY came after Standby stopped the session

lifeVars   == <<alive, usecase_>>
handleVars == <<pal_stream_handle_, pal_haptics_stream_handle, pal>>
flagVars   == <<stream_started_, stream_paused_>>
posVars    == <<mBytesWritten, mCachedPosition, dsp, queued, framesSent, lateRead>>
gapVars    == <<sendGaplessMetadata, mdata, drain, lateDrain>>
threadVars == <<stream_mutex_, pc, seen>>
vars == <<lifeVars, handleVars, flagVars, posVars, gapVars, threadVars,
          sndCardState, effects>>

Threads == Clients \cup {Writer}

\* Program points outside any handler, inside a handler without the mutex,
\* and inside a handler with the mutex held.
UnlockedPoints == {"onError", "ssrRead", "ssrStore", "ssrRelock", "posRead", "posStore"}
LockedPoints   == {"configured", "mdataSent", "ready", "standbyClose"}
Points         == {"idle"} \cup UnlockedPoints \cup LockedPoints

StandbyPoints == {"ssrRead", "ssrStore", "ssrRelock", "standbyClose"}

-----------------------------------------------------------------------------
(* Helpers.                                                                *)

\* streamAttributes_.type, as far as the handlers tell types apart.
IsCompressed == usecase_ = "OFFLOAD"
IsPcmOffload == usecase_ = "OFFLOAD2"
CheckOffloadEffectsType == IsCompressed \/ IsPcmOffload
HasHaptics == usecase_ = "WITH_HAPTICS"

Free(t) == alive /\ stream_mutex_ = NoThread /\ pc[t] = "idle"
Goto(t, p) == pc' = [pc EXCEPT ![t] = p]
Acquire(t, p) == stream_mutex_' = t /\ Goto(t, p) /\ UNCHANGED seen
Leave(t, p) == stream_mutex_' = NoThread /\ Goto(t, p) /\ UNCHANGED seen

\* PAL session states: set the sessions of S to state st.
SetPal(S, st) == [s \in Sessions |-> IF s \in S THEN st ELSE pal[s]]

\* The code's own counters saturate at their type's limit (UINT64_MAX).
AddWritten(n) == IF n < MaxFrames THEN n + 1 ELSE MaxFrames

\* GetFramesWritten: written frames less the estimated latency, never negative.
GetFramesWritten == IF mBytesWritten >= Latency THEN mBytesWritten - Latency ELSE 0

\* Mutant: the cached position is added a second time.
GetFramesTwice(old) ==
  IF pal_stream_handle_ = Null \/ ~stream_started_ THEN {0}
  ELSE {dsp + mCachedPosition + mCachedPosition, old}

\* The values GetFrames may leave in *frames when it held `old`: 0 without a
\* started session, the session time over the cached position otherwise, and
\* `old` when pal_get_timestamp fails.
GetFrames(old) ==
  IF pal_stream_handle_ = Null \/ ~stream_started_
  THEN {0}
  ELSE {dsp + mCachedPosition, old}

\* StartOffloadEffects / StopOffloadEffects: an output that is started
\* already is refused (-ENOSYS) and keeps the session it was started on.
StartOffloadEffects(m) ==
  IF CheckOffloadEffectsType /\ effects = Null THEN m ELSE effects

\* Mutant: compressed streams are forgotten.
StopOffloadEffectsPcmOnly == IF IsPcmOffload THEN Null ELSE effects

StopOffloadEffects == IF CheckOffloadEffectsType THEN Null ELSE effects

-----------------------------------------------------------------------------
(* Construction, destruction.                                              *)

Init ==
  /\ alive = TRUE
  /\ usecase_ \in Usecases
  /\ pal_stream_handle_ = Null /\ pal_haptics_stream_handle = Null
  /\ stream_started_ = FALSE /\ stream_paused_ = FALSE
  /\ sendGaplessMetadata = TRUE
  /\ mBytesWritten = 0 /\ mCachedPosition = 0
  /\ stream_mutex_ = NoThread
  /\ pc = [t \in Threads |-> "idle"]
  /\ seen = [t \in Threads |-> 0]
  /\ sndCardState = "ONLINE"
  /\ pal = [s \in Sessions |-> "closed"]
  /\ dsp = 0 /\ queued = 0
  /\ effects = Null
  /\ mdata = {} /\ drain = "none"
  /\ framesSent = 0 /\ lateRead = FALSE /\ lateDrain = FALSE

\* adev_close_output_stream drops the last reference: no thread is inside a
\* handler, since each holds a reference of its own while it runs.  The
\* destructor closes both sessions without stopping them.
Destroy ==
  /\ alive /\ stream_mutex_ = NoThread
  /\ \A t \in Threads : pc[t] = "idle"
  /\ alive' = FALSE
  /\ effects' = IF pal_stream_handle_ # Null THEN StopOffloadEffects ELSE effects
  /\ pal' = SetPal({pal_stream_handle_, pal_haptics_stream_handle}, "closed")
  /\ pal_stream_handle_' = Null
  /\ pal_haptics_stream_handle' = Null
  /\ mdata' = {} /\ drain' = "none"
  /\ UNCHANGED <<usecase_, flagVars, posVars, sendGaplessMetadata, lateDrain,
                 threadVars, sndCardState>>

\* adev_open_output_stream: offload and direct outputs are refused while the
\* sound card is offline.
Create ==
  /\ ~alive
  /\ alive' = TRUE
  /\ usecase_' \in Usecases
  /\ ~(sndCardState = "OFFLINE" /\ usecase_' \in {"OFFLOAD", "OFFLOAD2"})
  /\ stream_started_' = FALSE /\ stream_paused_' = FALSE
  /\ sendGaplessMetadata' = TRUE
  /\ mBytesWritten' = 0 /\ mCachedPosition' = 0
  /\ seen' = [t \in Threads |-> 0]
  /\ dsp' = 0 /\ queued' = 0 /\ framesSent' = 0
  /\ lateRead' = FALSE /\ lateDrain' = FALSE
  /\ UNCHANGED <<handleVars, mdata, drain, stream_mutex_, pc, sndCardState, effects>>

-----------------------------------------------------------------------------
(* out_write: configurePalOutputStream, then the data.                     *)

\* The sessions Open leaves in the two handles: the ones there already, or
\* new ones.  pal_stream_open of the haptics session may fail; Open goes on.
Opened(m, h) ==
  LET free == {s \in Sessions : pal[s] = "closed"}
  IN IF pal_stream_handle_ # Null
     THEN m = pal_stream_handle_ /\ h = pal_haptics_stream_handle
     ELSE /\ m \in free
          /\ h \in IF HasHaptics THEN (free \ {m}) \cup {Null}
                   ELSE {pal_haptics_stream_handle}

\* A newly opened main session starts with session time 0 and empty buffers.
OpenResetsTime ==
  IF pal_stream_handle_ = Null
  THEN dsp' = 0 /\ queued' = 0
  ELSE UNCHANGED <<dsp, queued>>

\* AudioFlinger never calls write on an MMAP stream.
MayWrite == Free(Writer) /\ usecase_ # "MMAP" /\ framesSent < MaxFrames

CountFrame ==
  /\ mBytesWritten' = AddWritten(mBytesWritten)
  /\ framesSent' = IF IsPcmOffload THEN framesSent + 1 ELSE framesSent
  /\ UNCHANGED <<mCachedPosition, lateRead>>

\* Every failure of configurePalOutputStream ends the same way: the bytes are
\* counted, the mutex is released and onWriteError will call Standby.
ConfigureFailed ==
  /\ CountFrame
  /\ Leave(Writer, "onError")
  /\ UNCHANGED <<lifeVars, flagVars, gapVars, sndCardState, effects>>

\* Open fails before or at pal_stream_open of the main session.
OpenFails ==
  /\ MayWrite /\ pal_stream_handle_ = Null
  /\ ConfigureFailed
  /\ UNCHANGED <<handleVars, dsp, queued>>

\* Open fails after the session is open (set_buffer_size, convert buffer):
\* the handle is left set and configurePalOutputStream returns.
BufferSetupFails ==
  /\ MayWrite /\ pal_stream_handle_ = Null
  /\ \E m \in Sessions, h \in Sessions \cup {Null} :
       /\ Opened(m, h)
       /\ pal_stream_handle_' = m
       /\ pal_haptics_stream_handle' = h
       /\ pal' = SetPal({m, h}, "open")
  /\ OpenResetsTime
  /\ ConfigureFailed

\* Mutant: the haptics handle is reset without closing its session.
ClosedOnStartFailureMainOnly(m, h) == {m}

\* pal_stream_start of the main session fails: both sessions are closed.
ClosedOnStartFailure(m, h) == {m, h}

StartFails ==
  /\ MayWrite /\ ~stream_started_
  /\ \E m \in Sessions, h \in Sessions \cup {Null} :
       /\ Opened(m, h)
       /\ pal' = [s \in Sessions |-> IF s \in ClosedOnStartFailure(m, h) THEN "closed"
                                     ELSE SetPal({m, h}, "open")[s]]
  /\ pal_stream_handle_' = Null
  /\ pal_haptics_stream_handle' =
       IF HasHaptics THEN Null ELSE pal_haptics_stream_handle
  /\ UNCHANGED <<dsp, queued>>
  /\ ConfigureFailed

\* The main session runs, the haptics one fails to start: it alone is closed.
HapticsStartFails ==
  /\ MayWrite /\ ~stream_started_ /\ HasHaptics
  /\ \E m \in Sessions, h \in Sessions \cup {Null} :
       /\ Opened(m, h)
       /\ pal_stream_handle_' = m
       /\ pal' = [s \in Sessions |-> IF s = h THEN "closed" ELSE SetPal({m}, "running")[s]]
  /\ pal_haptics_stream_handle' = Null
  /\ OpenResetsTime
  /\ ConfigureFailed

\* The sessions are opened if need be, and started; a session without haptics
\* handle cannot get here in the haptics use case (starting NULL fails).
StreamStarts ==
  /\ MayWrite /\ ~stream_started_
  /\ \E m \in Sessions, h \in Sessions \cup {Null} :
       /\ Opened(m, h)
       /\ HasHaptics => h # Null
       /\ pal_stream_handle_' = m
       /\ pal_haptics_stream_handle' = h
       /\ pal' = SetPal(IF HasHaptics THEN {m, h} ELSE {m}, "running")
       /\ effects' = StartOffloadEffects(m)
  /\ stream_started_' = TRUE
  /\ OpenResetsTime
  /\ Acquire(Writer, "configured")
  /\ UNCHANGED <<lifeVars, stream_paused_, mBytesWritten, mCachedPosition,
                 framesSent, lateRead, gapVars, sndCardState>>

\* The stream is started: nothing to configure but the metadata.
AlreadyStarted ==
  /\ MayWrite /\ stream_started_
  /\ pal_stream_handle_ # Null
  /\ Acquire(Writer, "configured")
  /\ UNCHANGED <<lifeVars, handleVars, flagVars, posVars, gapVars, sndCardState,
                 effects>>

\* `if (COMPRESSED && sendGaplessMetadata)`: the flag is read, the metadata
\* sent, and the flag cleared only then.
SendGaplessMetadata ==
  /\ pc[Writer] = "configured" /\ IsCompressed /\ sendGaplessMetadata
  /\ mdata' = mdata \cup {pal_stream_handle_}
  /\ Goto(Writer, "mdataSent")
  /\ UNCHANGED <<lifeVars, handleVars, flagVars, posVars, sendGaplessMetadata, drain,
                 lateDrain, stream_mutex_, seen, sndCardState, effects>>

ClearGaplessFlag ==
  /\ pc[Writer] = "mdataSent"
  /\ sendGaplessMetadata' = FALSE
  /\ Goto(Writer, "ready")
  /\ UNCHANGED <<lifeVars, handleVars, flagVars, posVars, mdata, drain, lateDrain,
                 stream_mutex_, seen, sndCardState, effects>>

NoGaplessMetadata ==
  /\ pc[Writer] = "configured" /\ ~(IsCompressed /\ sendGaplessMetadata)
  /\ Goto(Writer, "ready")
  /\ UNCHANGED <<lifeVars, handleVars, flagVars, posVars, gapVars, stream_mutex_,
                 seen, sndCardState, effects>>

\* pal_stream_write takes the data.  PAL drops it while the card is offline.
WriteData ==
  /\ pc[Writer] = "ready"
  /\ CountFrame
  /\ queued' = IF IsPcmOffload /\ sndCardState = "ONLINE" THEN queued + 1 ELSE queued
  /\ Leave(Writer, "idle")
  /\ UNCHANGED <<lifeVars, handleVars, flagVars, dsp, gapVars, sndCardState, effects>>

\* pal_stream_write fails: the bytes count as written all the same.
WriteFails ==
  /\ pc[Writer] = "ready"
  /\ CountFrame
  /\ Leave(Writer, "onError")
  /\ UNCHANGED <<lifeVars, handleVars, flagVars, dsp, queued, gapVars, sndCardState,
                 effects>>

\* The format-conversion branch refuses the buffer: it returns -EINVAL at once,
\* without counting the bytes and without onWriteError.
WriteRejected ==
  /\ pc[Writer] = "ready" /\ ~IsCompressed /\ ~HasHaptics
  /\ Leave(Writer, "idle")
  /\ UNCHANGED <<lifeVars, handleVars, flagVars, posVars, gapVars, sndCardState, effects>>

-----------------------------------------------------------------------------
(* Standby, called by a client or by the error path of a handler.          *)

\* A client calls Standby from nowhere; a failed write or a failed mmap setup
\* calls it with the mutex released.
EntersStandby(t) ==
  /\ alive /\ stream_mutex_ = NoThread
  /\ pc[t] = "onError" \/ (pc[t] = "idle" /\ t \in Clients)

\* Mutants: a flag keeps its value across Standby.
StandbyKeepsPaused ==
  stream_started_' = FALSE /\ UNCHANGED stream_paused_ /\ sendGaplessMetadata' = TRUE
StandbyKeepsStarted ==
  UNCHANGED stream_started_ /\ stream_paused_' = FALSE /\ sendGaplessMetadata' = TRUE
StandbyKeepsGapless ==
  stream_started_' = FALSE /\ stream_paused_' = FALSE /\ UNCHANGED sendGaplessMetadata

StandbyFlags ==
  stream_started_' = FALSE /\ stream_paused_' = FALSE /\ sendGaplessMetadata' = TRUE

\* The part of Standby from pal_stream_stop to the reset flags, with the mutex
\* held.  A failed stop leaves its session running until the close.
StopStream(t) ==
  /\ \E stopped \in SUBSET ({pal_stream_handle_, pal_haptics_stream_handle} \ {Null}) :
       pal' = IF pal_stream_handle_ # Null THEN SetPal(stopped, "open") ELSE pal
  /\ StandbyFlags
  /\ Acquire(t, "standbyClose")
  /\ UNCHANGED <<lifeVars, pal_stream_handle_, pal_haptics_stream_handle, mBytesWritten,
                 dsp, queued, framesSent, lateRead, mdata, drain, lateDrain,
                 sndCardState, effects>>

\* The card is online, or the position is not cached for this type.
StandbyStop(t) ==
  /\ EntersStandby(t)
  /\ ~(pal_stream_handle_ # Null /\ IsPcmOffload /\ sndCardState = "OFFLINE")
  /\ mCachedPosition' \in
       IF pal_stream_handle_ # Null /\ IsPcmOffload THEN GetFrames(mCachedPosition)
       ELSE {mCachedPosition}
  /\ StopStream(t)

\* The card is offline: the mutex is dropped because GetFramesWritten takes it.
StandbyOffline(t) ==
  /\ EntersStandby(t)
  /\ pal_stream_handle_ # Null /\ IsPcmOffload /\ sndCardState = "OFFLINE"
  /\ Goto(t, "ssrRead")
  /\ UNCHANGED <<lifeVars, handleVars, flagVars, posVars, gapVars, stream_mutex_,
                 seen, sndCardState, effects>>

\* GetFramesWritten under its own lock, for Standby and for position queries.
ReadWritten(t) ==
  /\ pc[t] \in {"ssrRead", "posRead"} /\ stream_mutex_ = NoThread
  /\ seen' = [seen EXCEPT ![t] = GetFramesWritten]
  /\ Goto(t, IF pc[t] = "ssrRead" THEN "ssrStore" ELSE "posStore")
  /\ lateRead' = (lateRead \/ sndCardState = "ONLINE")
  /\ UNCHANGED <<lifeVars, handleVars, flagVars, mBytesWritten, mCachedPosition, dsp,
                 queued, framesSent, gapVars, stream_mutex_, sndCardState, effects>>

\* The assignment to mCachedPosition, made without the mutex.
StoreCached(t) ==
  /\ pc[t] \in {"ssrStore", "posStore"}
  /\ mCachedPosition' = seen[t]
  /\ seen' = [seen EXCEPT ![t] = 0]
  /\ Goto(t, IF pc[t] = "ssrStore" THEN "ssrRelock" ELSE "idle")
  /\ UNCHANGED <<lifeVars, handleVars, flagVars, mBytesWritten, dsp, queued, framesSent,
                 lateRead, gapVars, stream_mutex_, sndCardState, effects>>

\* Standby takes the mutex again and goes on without a second look at
\* pal_stream_handle_, which another Standby may have closed meanwhile.
StandbyRelock(t) ==
  /\ pc[t] = "ssrRelock" /\ stream_mutex_ = NoThread
  /\ UNCHANGED mCachedPosition
  /\ StopStream(t)

\* Mutant: Standby returns early, with the mutex held, when there is no session.
StandbyReturnLocked(t) ==
  /\ stream_mutex_' = IF pal_stream_handle_ = Null THEN t ELSE NoThread
  /\ Goto(t, "idle")
  /\ UNCHANGED seen

StandbyReturn(t) == Leave(t, "idle")

\* The rest of Standby: effects and visualizer, the closes, the unlock.  The
\* haptics session is closed only together with a main session.
StandbyClose(t) ==
  /\ pc[t] = "standbyClose"
  /\ effects' = StopOffloadEffects
  /\ IF pal_stream_handle_ # Null
     THEN LET h == IF HasHaptics THEN pal_haptics_stream_handle ELSE Null
          IN /\ pal' = SetPal({pal_stream_handle_, h}, "closed")
             /\ mdata' = mdata \ {pal_stream_handle_}
             /\ drain' = "none"
             /\ pal_stream_handle_' = Null
             /\ pal_haptics_stream_handle' =
                  IF HasHaptics THEN Null ELSE pal_haptics_stream_handle
     ELSE UNCHANGED <<handleVars, mdata, drain>>
  /\ StandbyReturn(t)
  /\ UNCHANGED <<lifeVars, flagVars, posVars, sendGaplessMetadata, lateDrain,
                 sndCardState>>

-----------------------------------------------------------------------------
(* Pause, Resume, Flush, Drain: one step each, under the mutex.            *)

Pause(t) ==
  /\ Free(t) /\ t \in Clients
  /\ pal_stream_handle_ # Null /\ stream_started_
  /\ usecase_ # "VOIP"
  /\ pal' = SetPal({pal_stream_handle_}, "paused")
  /\ stream_paused_' = TRUE
  /\ UNCHANGED <<lifeVars, pal_stream_handle_, pal_haptics_stream_handle, stream_started_,
                 posVars, gapVars, threadVars, sndCardState, effects>>

Resume(t) ==
  /\ Free(t) /\ t \in Clients
  /\ pal_stream_handle_ # Null /\ stream_started_
  /\ pal' = SetPal({pal_stream_handle_}, "running")
  /\ stream_paused_' = FALSE
  /\ UNCHANGED <<lifeVars, pal_stream_handle_, pal_haptics_stream_handle, stream_started_,
                 posVars, gapVars, threadVars, sndCardState, effects>>

\* Flush of a paused stream drops the buffers and resumes it; pal_stream_flush
\* or the resume may fail.  The written count and the gapless flag are reset
\* whatever PAL answers, and also when the stream is not paused.
Flush(t) ==
  /\ Free(t) /\ t \in Clients
  /\ \E flushed, resumed \in BOOLEAN :
       LET paused == pal_stream_handle_ # Null /\ stream_paused_
       IN /\ queued' = IF paused /\ flushed THEN 0 ELSE queued
          /\ IF paused /\ flushed /\ resumed
             THEN pal' = SetPal({pal_stream_handle_}, "running") /\ stream_paused_' = FALSE
             ELSE UNCHANGED <<pal, stream_paused_>>
  /\ mBytesWritten' = IF pal_stream_handle_ # Null THEN 0 ELSE mBytesWritten
  /\ sendGaplessMetadata' = TRUE
  /\ UNCHANGED <<lifeVars, pal_stream_handle_, pal_haptics_stream_handle, stream_started_,
                 mCachedPosition, dsp, framesSent, lateRead, mdata, drain, lateDrain,
                 threadVars, sndCardState, effects>>

\* A compressed session answers a drain later, with a callback.
Drain(t, type) ==
  /\ Free(t) /\ t \in Clients
  /\ pal_stream_handle_ # Null /\ IsCompressed
  /\ drain' = type
  /\ UNCHANGED <<lifeVars, handleVars, flagVars, posVars, sendGaplessMetadata, mdata,
                 lateDrain, threadVars, sndCardState, effects>>

-----------------------------------------------------------------------------
(* MMAP streams: CreateMmapBuffer, Start, Stop.                            *)

MmapOpens(t, p) ==
  /\ Free(t) /\ t \in Clients /\ usecase_ = "MMAP"
  /\ pal_stream_handle_ = Null
  /\ \E m \in Sessions :
       /\ pal[m] = "closed"
       /\ pal_stream_handle_' = m
       /\ pal' = SetPal({m}, "open")
  /\ dsp' = 0 /\ queued' = 0
  /\ Goto(t, p)
  /\ UNCHANGED <<lifeVars, pal_haptics_stream_handle, flagVars, mBytesWritten,
                 mCachedPosition, framesSent, lateRead, gapVars, stream_mutex_, seen,
                 sndCardState, effects>>

\* The buffer is created, or Open itself failed late: it returns an error with
\* the session open, and no Standby is called.
CreateMmapBuffer(t) == MmapOpens(t, "idle")

\* pal_stream_create_mmap_buffer fails: Standby is called without the mutex.
CreateMmapBufferFails(t) == MmapOpens(t, "onError")

MmapStart(t) ==
  /\ Free(t) /\ t \in Clients /\ usecase_ = "MMAP"
  /\ pal_stream_handle_ # Null /\ ~stream_started_
  /\ pal' = SetPal({pal_stream_handle_}, "running")
  /\ stream_started_' = TRUE
  /\ UNCHANGED <<lifeVars, pal_stream_handle_, pal_haptics_stream_handle, stream_paused_,
                 posVars, gapVars, threadVars, sndCardState, effects>>

MmapStop(t) ==
  /\ Free(t) /\ t \in Clients /\ usecase_ = "MMAP"
  /\ pal_stream_handle_ # Null /\ stream_started_
  /\ pal' = SetPal({pal_stream_handle_}, "open")
  /\ stream_started_' = FALSE
  /\ stream_paused_' = FALSE
  /\ UNCHANGED <<lifeVars, pal_stream_handle_, pal_haptics_stream_handle,
                 posVars, gapVars, threadVars, sndCardState, effects>>

-----------------------------------------------------------------------------
(* Position queries, the PAL callbacks, the sound card, the DSP.           *)

\* astream_out_get_presentation_position / out_get_render_position: a PCM
\* offload stream of an offline card reports the written frames and caches
\* them.  The other branches change nothing.
QueryPositionOffline(t) ==
  /\ alive /\ pc[t] = "idle" /\ t \in Clients
  /\ IsPcmOffload /\ sndCardState = "OFFLINE"
  /\ Goto(t, "posRead")
  /\ UNCHANGED <<lifeVars, handleVars, flagVars, posVars, gapVars, stream_mutex_,
                 seen, sndCardState, effects>>

\* pal_callback DRAIN_READY and PARTIAL_DRAIN_READY, without stream_mutex_.  It
\* comes from a session that is open, stopped or not.
DrainReady ==
  /\ drain # "none" /\ pal_stream_handle_ # Null
  /\ drain' = "none"
  /\ sendGaplessMetadata' = (drain = "partial")
  /\ lateDrain' = (lateDrain \/ \E t \in Threads : pc[t] = "standbyClose")
  /\ UNCHANGED <<lifeVars, handleVars, flagVars, posVars, mdata, threadVars, sndCardState,
                 effects>>

\* PAL_SND_CARD_STATE.  PAL tears the sessions' graphs down with the card: the
\* session time restarts from 0 and what was buffered is lost.
CardOffline ==
  /\ sndCardState = "ONLINE"
  /\ sndCardState' = "OFFLINE"
  /\ dsp' = 0 /\ queued' = 0
  /\ UNCHANGED <<lifeVars, handleVars, flagVars, mBytesWritten, mCachedPosition,
                 framesSent, lateRead, gapVars, threadVars, effects>>

CardOnline ==
  /\ sndCardState = "OFFLINE"
  /\ sndCardState' = "ONLINE"
  /\ UNCHANGED <<lifeVars, handleVars, flagVars, posVars, gapVars, threadVars, effects>>

\* The DSP renders one frame of a running session.
Render ==
  /\ pal_stream_handle_ # Null /\ queued > 0 /\ sndCardState = "ONLINE"
  /\ pal[pal_stream_handle_] = "running"
  /\ dsp' = dsp + 1
  /\ queued' = queued - 1
  /\ UNCHANGED <<lifeVars, handleVars, flagVars, mBytesWritten, mCachedPosition,
                 framesSent, lateRead, gapVars, threadVars, sndCardState, effects>>

-----------------------------------------------------------------------------
Write ==
  \/ OpenFails \/ BufferSetupFails \/ StartFails \/ HapticsStartFails
  \/ StreamStarts \/ AlreadyStarted
  \/ SendGaplessMetadata \/ ClearGaplessFlag \/ NoGaplessMetadata
  \/ WriteData \/ WriteFails \/ WriteRejected

Standby(t) ==
  \/ StandbyStop(t) \/ StandbyOffline(t) \/ StandbyRelock(t) \/ StandbyClose(t)

Position(t) == ReadWritten(t) \/ StoreCached(t) \/ QueryPositionOffline(t)

Control(t) ==
  \/ Pause(t) \/ Resume(t) \/ Flush(t)
  \/ \E type \in {"all", "partial"} : Drain(t, type)
  \/ CreateMmapBuffer(t) \/ CreateMmapBufferFails(t) \/ MmapStart(t) \/ MmapStop(t)

Environment == DrainReady \/ CardOffline \/ CardOnline \/ Render

Next ==
  \/ Write
  \/ \E t \in Threads : Standby(t) \/ Position(t) \/ Control(t)
  \/ Environment
  \/ Destroy \/ Create

Spec == Init /\ [][Next]_vars

\* A thread inside a handler goes on with it (the operating system schedules
\* every thread), and std::mutex lets in a thread that finds it free again and
\* again.  Nothing is assumed of the callers, of PAL or of the card.
Fairness ==
  /\ WF_vars(SendGaplessMetadata \/ ClearGaplessFlag \/ NoGaplessMetadata)
  /\ WF_vars(WriteData \/ WriteFails \/ WriteRejected)
  /\ \A t \in Threads :
       /\ WF_vars(StandbyClose(t)) /\ WF_vars(StoreCached(t))
       /\ SF_vars(ReadWritten(t)) /\ SF_vars(StandbyRelock(t))
       /\ SF_vars(pc[t] = "onError" /\ (StandbyStop(t) \/ StandbyOffline(t)))

FairSpec == Spec /\ Fairness

-----------------------------------------------------------------------------
(* Properties.                                                             *)

\* Every variable has its type: in particular no count goes below 0.
TypeOK ==
  /\ alive \in BOOLEAN
  /\ usecase_ \in Usecases
  /\ pal_stream_handle_ \in Sessions \cup {Null}
  /\ pal_haptics_stream_handle \in Sessions \cup {Null}
  /\ stream_started_ \in BOOLEAN
  /\ stream_paused_ \in BOOLEAN
  /\ sendGaplessMetadata \in BOOLEAN
  /\ mBytesWritten \in 0..MaxFrames
  /\ mCachedPosition \in Nat
  /\ stream_mutex_ \in Threads \cup {NoThread}
  /\ pc \in [Threads -> Points]
  /\ seen \in [Threads -> Nat]
  /\ sndCardState \in {"ONLINE", "OFFLINE"}
  /\ pal \in [Sessions -> {"closed", "open", "running", "paused"}]
  /\ dsp \in Nat
  /\ queued \in Nat
  /\ effects \in Sessions \cup {Null}
  /\ mdata \subseteq Sessions
  /\ drain \in {"none", "all", "partial"}
  /\ framesSent \in Nat
  /\ lateRead \in BOOLEAN
  /\ lateDrain \in BOOLEAN

\* No PAL session is lost and none is used after its close: the open sessions
\* are the ones the two handles name, through every failure of Open and start,
\* two Standbys at once, and the destructor.
SessionsOwned ==
  /\ {s \in Sessions : pal[s] # "closed"} =
       {pal_stream_handle_, pal_haptics_stream_handle} \ {Null}
  /\ pal_stream_handle_ = Null => pal_haptics_stream_handle = Null

\* The two flags say what the PAL session does.  A session runs without the
\* stream being marked started only while a thread is on its way to close it
\* (the haptics session failed to start, or its stop failed).
FlagsMatchSession ==
  /\ stream_paused_ => stream_started_
  /\ stream_started_ /\ alive =>
       /\ pal_stream_handle_ # Null
       /\ pal[pal_stream_handle_] = IF stream_paused_ THEN "paused" ELSE "running"
  /\ pal_stream_handle_ # Null /\ ~stream_started_ /\ pal[pal_stream_handle_] # "open"
       => \E t \in Threads : pc[t] \in {"onError", "standbyClose"}

\* The offload effects of this output are attached to the session that plays,
\* and to nothing once that session is closed.
EffectsFollowSession ==
  /\ effects # Null => effects = pal_stream_handle_
  /\ stream_started_ /\ alive /\ CheckOffloadEffectsType => effects = pal_stream_handle_

\* Data is written only to a session that was started and is still open: no
\* Standby gets between configurePalOutputStream and pal_stream_write.
DataOnLiveSession ==
  pc[Writer] \in {"configured", "mdataSent", "ready"} =>
    stream_started_ /\ pal_stream_handle_ # Null

\* A compressed session gets its gapless metadata before any data, unless a
\* drain of the session before it was answered while Standby was closing it:
\* the callback then clears the flag Standby has just raised.
GaplessBeforeData ==
  IsCompressed /\ pc[Writer] = "ready" => lateDrain \/ pal_stream_handle_ \in mdata

\* The position a started PCM offload stream reports, and the one it caches, is
\* never ahead of the frames the client wrote, through standbys, flushes and
\* card restarts, unless a query or a Standby saw the card offline and read the
\* count after it was back.
PositionNotAhead ==
  IsPcmOffload /\ ~lateRead =>
    /\ mCachedPosition <= framesSent
    /\ stream_started_ => mCachedPosition + dsp <= framesSent

\* hal/inc/AudioStream.h: mCachedPosition is there to "cache pcm offload
\* position when entering standby": entering standby never loses what the
\* earlier sessions played.
StandbyKeepsPosition ==
  [][\A t \in Threads : StandbyStop(t) => mCachedPosition' >= mCachedPosition]_vars

\* Every Standby, and every position query, that is under way returns.
HandlersReturn ==
  \A t \in Threads : pc[t] # "idle" ~> pc[t] = "idle"

\* The abstract life of a stream: see PlaybackLifecycle.
Mode ==
  IF ~alive THEN "gone"
  ELSE IF pal_stream_handle_ = Null THEN "standby"
  ELSE IF ~stream_started_ THEN "held"
  ELSE IF stream_paused_ THEN "paused" ELSE "playing"

Lifecycle == INSTANCE PlaybackLifecycle
  WITH mode <- Mode, held <- {s \in Sessions : pal[s] # "closed"}

\* The stream implements that life: what it holds of PAL follows its mode, and
\* only the destructor closes a session that was not stopped first.
ImplementsLifecycle == Lifecycle!Spec
==============================================================================
