--------------------------- MODULE StreamOutProofs ---------------------------
(***************************************************************************)
(* Proofs about StreamOut, for any number of control threads and of PAL    *)
(* sessions and any bound on the frames.                                   *)
(*                                                                         *)
(* The argument has two layers.  Safe says who is inside stream_mutex_:    *)
(* it is inductive by itself, gives the type invariant and the fact that   *)
(* no Standby gets under a write.  On top of it, Owned, Flagged and        *)
(* Attached relate the handles, the flags and the offload effects to what  *)
(* PAL holds; together they show that every step is a step of              *)
(* PlaybackLifecycle.  Unstarted says that no open session is forgotten    *)
(* unstarted; with it the gapless flag (Gapless) and the position          *)
(* (Rendered) can be followed from one session to the next.                *)
(***************************************************************************)
EXTENDS StreamOut, TLAPS

\* The thread at a point inside the locked part is the one that holds the mutex.
LockOK == \A t \in Threads : pc[t] \in LockedPoints <=> stream_mutex_ = t

\* The destructor leaves no thread in a handler and no session.
DeadIsIdle ==
  ~alive => pal_stream_handle_ = Null /\ \A t \in Threads : pc[t] = "idle"

Safe == TypeOK /\ LockOK /\ DataOnLiveSession /\ DeadIsIdle

\* The two handles never name the same session.
Owned ==
  /\ SessionsOwned
  /\ pal_haptics_stream_handle # Null =>
       HasHaptics /\ pal_haptics_stream_handle # pal_stream_handle_

Closing == \E t \in Threads : pc[t] = "standbyClose"

\* FlagsMatchSession, and: nothing is marked started while Standby closes, and
\* the thread that has left a session running is not a PCM offload one, which
\* could drop the mutex on its way to the close.
Flagged ==
  /\ stream_paused_ => stream_started_
  /\ stream_started_ /\ alive =>
       /\ pal_stream_handle_ # Null
       /\ pal[pal_stream_handle_] = IF stream_paused_ THEN "paused" ELSE "running"
  /\ Closing => ~stream_started_
  /\ pal_stream_handle_ # Null /\ ~stream_started_ /\ pal[pal_stream_handle_] # "open"
       => \/ Closing
          \/ \E t \in Threads : pc[t] = "onError" /\ ~IsPcmOffload

\* The effects are attached from the start of the stream to the close.
Attached ==
  /\ effects # Null =>
       /\ effects = pal_stream_handle_ /\ CheckOffloadEffectsType
       /\ stream_started_ \/ Closing
  /\ stream_started_ /\ alive /\ CheckOffloadEffectsType => effects = pal_stream_handle_

\* The writer is on its way to the Standby of its error path.
Failing == pc[Writer] \in {"onError", "ssrRead", "ssrStore", "ssrRelock"}

\* A session that is open and not started is about to be closed (MMAP apart):
\* a write never finds one that an earlier write left.
Unstarted ==
  usecase_ # "MMAP" /\ pal_stream_handle_ # Null /\ ~stream_started_ =>
    Failing \/ Closing

\* GaplessBeforeData, and: as long as no late drain answer comes, the flag is
\* raised when there is no session, so that the first write to a new one sends
\* the metadata; a session past that has them.
Gapless ==
  /\ drain # "none" => IsCompressed /\ pal_stream_handle_ # Null
  /\ IsCompressed /\ ~lateDrain =>
       /\ alive /\ (Closing \/ pal_stream_handle_ = Null) => sendGaplessMetadata
       /\ pal_stream_handle_ # Null =>
            \/ pal_stream_handle_ \in mdata \/ Failing \/ Closing
            \/ pc[Writer] = "configured" /\ sendGaplessMetadata /\ drain = "none"
       /\ pc[Writer] \in {"mdataSent", "ready"} => pal_stream_handle_ \in mdata

\* PositionNotAhead with what is still to be rendered, for the position cached
\* and for one a thread has read and not stored yet.
Rendered ==
  IsPcmOffload /\ ~lateRead =>
    /\ mBytesWritten <= framesSent
    /\ sndCardState = "OFFLINE" => dsp = 0 /\ queued = 0
    /\ mCachedPosition <= framesSent
    /\ stream_started_ => mCachedPosition + dsp + queued <= framesSent
    /\ \A t \in Threads :
         pc[t] \in {"ssrStore", "posStore"} => seen[t] + dsp + queued <= framesSent

Held == {s \in Sessions : pal[s] # "closed"}

USE DEF Threads, lifeVars, handleVars, flagVars, posVars, gapVars, threadVars

-----------------------------------------------------------------------------
(* Steps.                                                                  *)

\* No step of any thread breaks Safe.
LEMMA SafeStep ==
  ASSUME Safe, [Next]_vars
  PROVE  Safe'
<1> USE ThreadAssumption, SessionAssumption, BoundAssumption
        DEF Safe, TypeOK, LockOK, DataOnLiveSession, DeadIsIdle, Points, UnlockedPoints,
            LockedPoints
<1>1. CASE OpenFails
  BY <1>1 DEF OpenFails, MayWrite, Free, ConfigureFailed, CountFrame, AddWritten, Leave,
             Goto
<1>2. CASE BufferSetupFails
  BY <1>2 DEF BufferSetupFails, MayWrite, Free, Opened, SetPal, OpenResetsTime,
             ConfigureFailed, CountFrame, AddWritten, Leave, Goto
<1>3. CASE StartFails
  BY <1>3 DEF StartFails, MayWrite, Free, Opened, SetPal, ClosedOnStartFailure,
             ConfigureFailed, CountFrame, AddWritten, Leave, Goto
<1>4. CASE HapticsStartFails
  BY <1>4 DEF HapticsStartFails, MayWrite, Free, Opened, SetPal, OpenResetsTime,
             ConfigureFailed, CountFrame, AddWritten, Leave, Goto
<1>5. CASE StreamStarts
  BY <1>5 DEF StreamStarts, MayWrite, Free, Opened, SetPal, OpenResetsTime,
             StartOffloadEffects, Acquire, Goto
<1>6. CASE AlreadyStarted
  BY <1>6 DEF AlreadyStarted, MayWrite, Free, Acquire, Goto
<1>7. CASE SendGaplessMetadata
  BY <1>7 DEF SendGaplessMetadata, Goto
<1>8. CASE ClearGaplessFlag
  BY <1>8 DEF ClearGaplessFlag, Goto
<1>9. CASE NoGaplessMetadata
  BY <1>9 DEF NoGaplessMetadata, Goto
<1>10. CASE WriteData
  BY <1>10 DEF WriteData, CountFrame, AddWritten, Leave, Goto
<1>11. CASE WriteFails
  BY <1>11 DEF WriteFails, CountFrame, AddWritten, Leave, Goto
<1>12. CASE WriteRejected
  BY <1>12 DEF WriteRejected, Leave, Goto
<1>13. ASSUME NEW t \in Threads, StandbyStop(t)
       PROVE  Safe'
  <2>1. mCachedPosition' \in Nat
    BY <1>13 DEF StandbyStop, GetFrames
  <2>2. pal' \in [Sessions -> {"closed", "open", "running", "paused"}]
    BY <1>13 DEF StandbyStop, StopStream, SetPal
  <2>3. TypeOK'
    BY <1>13, <2>1, <2>2
    DEF StandbyStop, EntersStandby, StopStream, StandbyFlags, Acquire, Goto
  <2>4. LockOK' /\ DataOnLiveSession' /\ DeadIsIdle'
    BY <1>13 DEF StandbyStop, EntersStandby, StopStream, StandbyFlags, Acquire, Goto
  <2> QED BY <2>3, <2>4
<1>14. ASSUME NEW t \in Threads, StandbyOffline(t)
       PROVE  Safe'
  BY <1>14 DEF StandbyOffline, EntersStandby, Goto
<1>15. ASSUME NEW t \in Threads, StandbyRelock(t)
       PROVE  Safe'
  BY <1>15 DEF StandbyRelock, StopStream, SetPal, StandbyFlags, Acquire, Goto
<1>16. ASSUME NEW t \in Threads, StandbyClose(t)
       PROVE  Safe'
  BY <1>16 DEF StandbyClose, StopOffloadEffects, SetPal, StandbyReturn, Leave, Goto
<1>17. ASSUME NEW t \in Threads, ReadWritten(t)
       PROVE  Safe'
  BY <1>17 DEF ReadWritten, GetFramesWritten, Goto
<1>18. ASSUME NEW t \in Threads, StoreCached(t)
       PROVE  Safe'
  BY <1>18 DEF StoreCached, Goto
<1>19. ASSUME NEW t \in Threads, QueryPositionOffline(t)
       PROVE  Safe'
  BY <1>19 DEF QueryPositionOffline, Goto
<1>20. ASSUME NEW t \in Threads, Pause(t)
       PROVE  Safe'
  BY <1>20 DEF Pause, Free, SetPal
<1>21. ASSUME NEW t \in Threads, Resume(t)
       PROVE  Safe'
  BY <1>21 DEF Resume, Free, SetPal
<1>22. ASSUME NEW t \in Threads, Flush(t)
       PROVE  Safe'
  <2>1. queued' \in Nat /\ mBytesWritten' \in 0..MaxFrames
    BY <1>22 DEF Flush
  <2>2. /\ pal' \in [Sessions -> {"closed", "open", "running", "paused"}]
        /\ stream_paused_' \in BOOLEAN
    BY <1>22 DEF Flush, SetPal
  <2>3. TypeOK'
    BY <1>22, <2>1, <2>2 DEF Flush
  <2>4. LockOK' /\ DataOnLiveSession' /\ DeadIsIdle'
    BY <1>22 DEF Flush, Free
  <2> QED BY <2>3, <2>4
<1>23. ASSUME NEW t \in Threads, NEW type \in {"all", "partial"}, Drain(t, type)
       PROVE  Safe'
  BY <1>23 DEF Drain, Free
<1>24. ASSUME NEW t \in Threads, CreateMmapBuffer(t)
       PROVE  Safe'
  BY <1>24 DEF CreateMmapBuffer, MmapOpens, Free, SetPal, Goto
<1>25. ASSUME NEW t \in Threads, CreateMmapBufferFails(t)
       PROVE  Safe'
  BY <1>25 DEF CreateMmapBufferFails, MmapOpens, Free, SetPal, Goto
<1>26. ASSUME NEW t \in Threads, MmapStart(t)
       PROVE  Safe'
  BY <1>26 DEF MmapStart, Free, SetPal
<1>27. ASSUME NEW t \in Threads, MmapStop(t)
       PROVE  Safe'
  BY <1>27 DEF MmapStop, Free, SetPal
<1>28. CASE DrainReady
  BY <1>28 DEF DrainReady
<1>29. CASE CardOffline
  BY <1>29 DEF CardOffline
<1>30. CASE CardOnline
  BY <1>30 DEF CardOnline
<1>31. CASE Render
  BY <1>31 DEF Render
<1>32. CASE Destroy
  BY <1>32 DEF Destroy, StopOffloadEffects, SetPal
<1>33. CASE Create
  <2>1. alive' \in BOOLEAN /\ usecase_' \in Usecases
    BY <1>33 DEF Create
  <2>2. pal_stream_handle_' \in Sessions \cup {Null} /\ LockOK' /\ DeadIsIdle'
    BY <1>33 DEF Create
  <2>3. DataOnLiveSession'
    BY <1>33 DEF Create
  <2>4. TypeOK'
    <3>1. mBytesWritten' \in 0..MaxFrames /\ seen' \in [Threads -> Nat]
      BY <1>33 DEF Create
    <3>2. dsp' \in Nat /\ queued' \in Nat /\ framesSent' \in Nat /\ mCachedPosition' \in Nat
      BY <1>33 DEF Create
    <3> QED BY <1>33, <2>1, <3>1, <3>2 DEF Create
  <2> QED BY <2>2, <2>3, <2>4
<1>34. CASE UNCHANGED vars
  BY <1>34 DEF vars
<1> QED
  BY <1>1, <1>2, <1>3, <1>4, <1>5, <1>6, <1>7, <1>8, <1>9, <1>10, <1>11, <1>12, <1>13,
     <1>14, <1>15, <1>16, <1>17, <1>18, <1>19, <1>20, <1>21, <1>22, <1>23, <1>24, <1>25,
     <1>26, <1>27, <1>28, <1>29, <1>30, <1>31, <1>32, <1>33, <1>34
  DEF Next, Write, Standby, Position, Control, Environment

\* No step loses a session or keeps a closed one.
LEMMA OwnedStep ==
  ASSUME Safe, Owned, [Next]_vars
  PROVE  Owned'
<1> USE ThreadAssumption, SessionAssumption
        DEF Safe, TypeOK, DeadIsIdle, Owned, SessionsOwned, HasHaptics
<1>1. CASE OpenFails
  BY <1>1 DEF OpenFails, MayWrite, Free, ConfigureFailed, CountFrame, AddWritten, Leave,
             Goto
<1>2. CASE BufferSetupFails
  BY <1>2 DEF BufferSetupFails, MayWrite, Free, Opened, SetPal, OpenResetsTime,
             ConfigureFailed, CountFrame, AddWritten, Leave, Goto
<1>3. CASE StartFails
  BY <1>3 DEF StartFails, MayWrite, Free, Opened, SetPal, ClosedOnStartFailure,
             ConfigureFailed, CountFrame, AddWritten, Leave, Goto
<1>4. CASE HapticsStartFails
  BY <1>4 DEF HapticsStartFails, MayWrite, Free, Opened, SetPal, OpenResetsTime,
             ConfigureFailed, CountFrame, AddWritten, Leave, Goto
<1>5. CASE StreamStarts
  BY <1>5 DEF StreamStarts, MayWrite, Free, Opened, SetPal, OpenResetsTime,
             StartOffloadEffects, Acquire, Goto
<1>6. CASE AlreadyStarted
  BY <1>6 DEF AlreadyStarted, MayWrite, Free, Acquire, Goto
<1>7. CASE SendGaplessMetadata
  BY <1>7 DEF SendGaplessMetadata, Goto
<1>8. CASE ClearGaplessFlag
  BY <1>8 DEF ClearGaplessFlag, Goto
<1>9. CASE NoGaplessMetadata
  BY <1>9 DEF NoGaplessMetadata, Goto
<1>10. CASE WriteData
  BY <1>10 DEF WriteData, CountFrame, AddWritten, Leave, Goto
<1>11. CASE WriteFails
  BY <1>11 DEF WriteFails, CountFrame, AddWritten, Leave, Goto
<1>12. CASE WriteRejected
  BY <1>12 DEF WriteRejected, Leave, Goto
<1>13. ASSUME NEW t \in Threads, StandbyStop(t)
       PROVE  Owned'
  BY <1>13 DEF StandbyStop, EntersStandby, GetFrames, StopStream, SetPal, StandbyFlags,
             Acquire, Goto
<1>14. ASSUME NEW t \in Threads, StandbyOffline(t)
       PROVE  Owned'
  BY <1>14 DEF StandbyOffline, EntersStandby, Goto
<1>15. ASSUME NEW t \in Threads, StandbyRelock(t)
       PROVE  Owned'
  BY <1>15 DEF StandbyRelock, StopStream, SetPal, StandbyFlags, Acquire, Goto
<1>16. ASSUME NEW t \in Threads, StandbyClose(t)
       PROVE  Owned'
  BY <1>16 DEF StandbyClose, StopOffloadEffects, SetPal, StandbyReturn, Leave, Goto
<1>17. ASSUME NEW t \in Threads, ReadWritten(t)
       PROVE  Owned'
  BY <1>17 DEF ReadWritten, GetFramesWritten, Goto
<1>18. ASSUME NEW t \in Threads, StoreCached(t)
       PROVE  Owned'
  BY <1>18 DEF StoreCached, Goto
<1>19. ASSUME NEW t \in Threads, QueryPositionOffline(t)
       PROVE  Owned'
  BY <1>19 DEF QueryPositionOffline, Goto
<1>20. ASSUME NEW t \in Threads, Pause(t)
       PROVE  Owned'
  BY <1>20 DEF Pause, Free, SetPal
<1>21. ASSUME NEW t \in Threads, Resume(t)
       PROVE  Owned'
  BY <1>21 DEF Resume, Free, SetPal
<1>22. ASSUME NEW t \in Threads, Flush(t)
       PROVE  Owned'
  BY <1>22 DEF Flush, Free, SetPal
<1>23. ASSUME NEW t \in Threads, NEW type \in {"all", "partial"}, Drain(t, type)
       PROVE  Owned'
  BY <1>23 DEF Drain, Free
<1>24. ASSUME NEW t \in Threads, CreateMmapBuffer(t)
       PROVE  Owned'
  BY <1>24 DEF CreateMmapBuffer, MmapOpens, Free, SetPal, Goto
<1>25. ASSUME NEW t \in Threads, CreateMmapBufferFails(t)
       PROVE  Owned'
  BY <1>25 DEF CreateMmapBufferFails, MmapOpens, Free, SetPal, Goto
<1>26. ASSUME NEW t \in Threads, MmapStart(t)
       PROVE  Owned'
  BY <1>26 DEF MmapStart, Free, SetPal
<1>27. ASSUME NEW t \in Threads, MmapStop(t)
       PROVE  Owned'
  BY <1>27 DEF MmapStop, Free, SetPal
<1>28. CASE DrainReady
  BY <1>28 DEF DrainReady
<1>29. CASE CardOffline
  BY <1>29 DEF CardOffline
<1>30. CASE CardOnline
  BY <1>30 DEF CardOnline
<1>31. CASE Render
  BY <1>31 DEF Render
<1>32. CASE Destroy
  BY <1>32 DEF Destroy, StopOffloadEffects, SetPal
<1>33. CASE Create
  BY <1>33 DEF Create
<1>34. CASE UNCHANGED vars
  BY <1>34 DEF vars
<1> QED
  BY <1>1, <1>2, <1>3, <1>4, <1>5, <1>6, <1>7, <1>8, <1>9, <1>10, <1>11, <1>12, <1>13,
     <1>14, <1>15, <1>16, <1>17, <1>18, <1>19, <1>20, <1>21, <1>22, <1>23, <1>24, <1>25,
     <1>26, <1>27, <1>28, <1>29, <1>30, <1>31, <1>32, <1>33, <1>34
  DEF Next, Write, Standby, Position, Control, Environment

\* No step parts the flags from what the session does.
LEMMA FlaggedStep ==
  ASSUME Safe, Owned, Flagged, [Next]_vars
  PROVE  Flagged'
<1> USE ThreadAssumption, SessionAssumption
        DEF Safe, TypeOK, LockOK, LockedPoints, DeadIsIdle, Owned, SessionsOwned,
            Flagged, Closing, IsPcmOffload, HasHaptics
<1>1. CASE OpenFails
  BY <1>1 DEF OpenFails, MayWrite, Free, ConfigureFailed, CountFrame, AddWritten, Leave,
             Goto
<1>2. CASE BufferSetupFails
  BY <1>2 DEF BufferSetupFails, MayWrite, Free, Opened, SetPal, OpenResetsTime,
             ConfigureFailed, CountFrame, AddWritten, Leave, Goto
<1>3. CASE StartFails
  BY <1>3 DEF StartFails, MayWrite, Free, Opened, SetPal, ClosedOnStartFailure,
             ConfigureFailed, CountFrame, AddWritten, Leave, Goto
<1>4. CASE HapticsStartFails
  BY <1>4 DEF HapticsStartFails, MayWrite, Free, Opened, SetPal, OpenResetsTime,
             ConfigureFailed, CountFrame, AddWritten, Leave, Goto
<1>5. CASE StreamStarts
  BY <1>5 DEF StreamStarts, MayWrite, Free, Opened, SetPal, OpenResetsTime,
             StartOffloadEffects, Acquire, Goto
<1>6. CASE AlreadyStarted
  BY <1>6 DEF AlreadyStarted, MayWrite, Free, Acquire, Goto
<1>7. CASE SendGaplessMetadata
  BY <1>7 DEF SendGaplessMetadata, Goto
<1>8. CASE ClearGaplessFlag
  BY <1>8 DEF ClearGaplessFlag, Goto
<1>9. CASE NoGaplessMetadata
  BY <1>9 DEF NoGaplessMetadata, Goto
<1>10. CASE WriteData
  BY <1>10 DEF WriteData, CountFrame, AddWritten, Leave, Goto
<1>11. CASE WriteFails
  BY <1>11 DEF WriteFails, CountFrame, AddWritten, Leave, Goto
<1>12. CASE WriteRejected
  BY <1>12 DEF WriteRejected, Leave, Goto
<1>13. ASSUME NEW t \in Threads, StandbyStop(t)
       PROVE  Flagged'
  BY <1>13 DEF StandbyStop, EntersStandby, GetFrames, StopStream, SetPal, StandbyFlags,
             Acquire, Goto
<1>14. ASSUME NEW t \in Threads, StandbyOffline(t)
       PROVE  Flagged'
  BY <1>14 DEF StandbyOffline, EntersStandby, Goto
<1>15. ASSUME NEW t \in Threads, StandbyRelock(t)
       PROVE  Flagged'
  BY <1>15 DEF StandbyRelock, StopStream, SetPal, StandbyFlags, Acquire, Goto
<1>16. ASSUME NEW t \in Threads, StandbyClose(t)
       PROVE  Flagged'
  BY <1>16 DEF StandbyClose, StopOffloadEffects, SetPal, StandbyReturn, Leave, Goto
<1>17. ASSUME NEW t \in Threads, ReadWritten(t)
       PROVE  Flagged'
  BY <1>17 DEF ReadWritten, GetFramesWritten, Goto
<1>18. ASSUME NEW t \in Threads, StoreCached(t)
       PROVE  Flagged'
  BY <1>18 DEF StoreCached, Goto
<1>19. ASSUME NEW t \in Threads, QueryPositionOffline(t)
       PROVE  Flagged'
  BY <1>19 DEF QueryPositionOffline, Goto
<1>20. ASSUME NEW t \in Threads, Pause(t)
       PROVE  Flagged'
  BY <1>20 DEF Pause, Free, SetPal
<1>21. ASSUME NEW t \in Threads, Resume(t)
       PROVE  Flagged'
  BY <1>21 DEF Resume, Free, SetPal
<1>22. ASSUME NEW t \in Threads, Flush(t)
       PROVE  Flagged'
  BY <1>22 DEF Flush, Free, SetPal
<1>23. ASSUME NEW t \in Threads, NEW type \in {"all", "partial"}, Drain(t, type)
       PROVE  Flagged'
  BY <1>23 DEF Drain, Free
<1>24. ASSUME NEW t \in Threads, CreateMmapBuffer(t)
       PROVE  Flagged'
  BY <1>24 DEF CreateMmapBuffer, MmapOpens, Free, SetPal, Goto
<1>25. ASSUME NEW t \in Threads, CreateMmapBufferFails(t)
       PROVE  Flagged'
  BY <1>25 DEF CreateMmapBufferFails, MmapOpens, Free, SetPal, Goto
<1>26. ASSUME NEW t \in Threads, MmapStart(t)
       PROVE  Flagged'
  BY <1>26 DEF MmapStart, Free, SetPal
<1>27. ASSUME NEW t \in Threads, MmapStop(t)
       PROVE  Flagged'
  BY <1>27 DEF MmapStop, Free, SetPal
<1>28. CASE DrainReady
  BY <1>28 DEF DrainReady
<1>29. CASE CardOffline
  BY <1>29 DEF CardOffline
<1>30. CASE CardOnline
  BY <1>30 DEF CardOnline
<1>31. CASE Render
  BY <1>31 DEF Render
<1>32. CASE Destroy
  BY <1>32 DEF Destroy, StopOffloadEffects, SetPal
<1>33. CASE Create
  BY <1>33 DEF Create
<1>34. CASE UNCHANGED vars
  BY <1>34 DEF vars
<1> QED
  BY <1>1, <1>2, <1>3, <1>4, <1>5, <1>6, <1>7, <1>8, <1>9, <1>10, <1>11, <1>12, <1>13,
     <1>14, <1>15, <1>16, <1>17, <1>18, <1>19, <1>20, <1>21, <1>22, <1>23, <1>24, <1>25,
     <1>26, <1>27, <1>28, <1>29, <1>30, <1>31, <1>32, <1>33, <1>34
  DEF Next, Write, Standby, Position, Control, Environment

\* No step leaves an open session that nobody starts, closes or is about to close.
LEMMA UnstartedStep ==
  ASSUME Safe, Unstarted, [Next]_vars
  PROVE  Unstarted'
<1> USE ThreadAssumption, SessionAssumption
        DEF Safe, TypeOK, LockOK, LockedPoints, DeadIsIdle, Unstarted, Failing, Closing,
            HasHaptics
<1>1. CASE OpenFails
  BY <1>1 DEF OpenFails, MayWrite, Free, ConfigureFailed, CountFrame, AddWritten, Leave,
             Goto
<1>2. CASE BufferSetupFails
  BY <1>2 DEF BufferSetupFails, MayWrite, Free, Opened, SetPal, OpenResetsTime,
             ConfigureFailed, CountFrame, AddWritten, Leave, Goto
<1>3. CASE StartFails
  BY <1>3 DEF StartFails, MayWrite, Free, Opened, SetPal, ClosedOnStartFailure,
             ConfigureFailed, CountFrame, AddWritten, Leave, Goto
<1>4. CASE HapticsStartFails
  BY <1>4 DEF HapticsStartFails, MayWrite, Free, Opened, SetPal, OpenResetsTime,
             ConfigureFailed, CountFrame, AddWritten, Leave, Goto
<1>5. CASE StreamStarts
  BY <1>5 DEF StreamStarts, MayWrite, Free, Opened, SetPal, OpenResetsTime,
             StartOffloadEffects, Acquire, Goto
<1>6. CASE AlreadyStarted
  BY <1>6 DEF AlreadyStarted, MayWrite, Free, Acquire, Goto
<1>7. CASE SendGaplessMetadata
  BY <1>7 DEF SendGaplessMetadata, Goto
<1>8. CASE ClearGaplessFlag
  BY <1>8 DEF ClearGaplessFlag, Goto
<1>9. CASE NoGaplessMetadata
  BY <1>9 DEF NoGaplessMetadata, Goto
<1>10. CASE WriteData
  BY <1>10 DEF WriteData, CountFrame, AddWritten, Leave, Goto
<1>11. CASE WriteFails
  BY <1>11 DEF WriteFails, CountFrame, AddWritten, Leave, Goto
<1>12. CASE WriteRejected
  BY <1>12 DEF WriteRejected, Leave, Goto
<1>13. ASSUME NEW t \in Threads, StandbyStop(t)
       PROVE  Unstarted'
  BY <1>13 DEF StandbyStop, EntersStandby, GetFrames, StopStream, SetPal, StandbyFlags,
             Acquire, Goto
<1>14. ASSUME NEW t \in Threads, StandbyOffline(t)
       PROVE  Unstarted'
  BY <1>14 DEF StandbyOffline, EntersStandby, Goto
<1>15. ASSUME NEW t \in Threads, StandbyRelock(t)
       PROVE  Unstarted'
  BY <1>15 DEF StandbyRelock, StopStream, SetPal, StandbyFlags, Acquire, Goto
<1>16. ASSUME NEW t \in Threads, StandbyClose(t)
       PROVE  Unstarted'
  BY <1>16 DEF StandbyClose, StopOffloadEffects, SetPal, StandbyReturn, Leave, Goto
<1>17. ASSUME NEW t \in Threads, ReadWritten(t)
       PROVE  Unstarted'
  BY <1>17 DEF ReadWritten, GetFramesWritten, Goto
<1>18. ASSUME NEW t \in Threads, StoreCached(t)
       PROVE  Unstarted'
  BY <1>18 DEF StoreCached, Goto
<1>19. ASSUME NEW t \in Threads, QueryPositionOffline(t)
       PROVE  Unstarted'
  BY <1>19 DEF QueryPositionOffline, Goto
<1>20. ASSUME NEW t \in Threads, Pause(t)
       PROVE  Unstarted'
  BY <1>20 DEF Pause, Free, SetPal
<1>21. ASSUME NEW t \in Threads, Resume(t)
       PROVE  Unstarted'
  BY <1>21 DEF Resume, Free, SetPal
<1>22. ASSUME NEW t \in Threads, Flush(t)
       PROVE  Unstarted'
  BY <1>22 DEF Flush, Free, SetPal
<1>23. ASSUME NEW t \in Threads, NEW type \in {"all", "partial"}, Drain(t, type)
       PROVE  Unstarted'
  BY <1>23 DEF Drain, Free
<1>24. ASSUME NEW t \in Threads, CreateMmapBuffer(t)
       PROVE  Unstarted'
  BY <1>24 DEF CreateMmapBuffer, MmapOpens, Free, SetPal, Goto
<1>25. ASSUME NEW t \in Threads, CreateMmapBufferFails(t)
       PROVE  Unstarted'
  BY <1>25 DEF CreateMmapBufferFails, MmapOpens, Free, SetPal, Goto
<1>26. ASSUME NEW t \in Threads, MmapStart(t)
       PROVE  Unstarted'
  BY <1>26 DEF MmapStart, Free, SetPal
<1>27. ASSUME NEW t \in Threads, MmapStop(t)
       PROVE  Unstarted'
  BY <1>27 DEF MmapStop, Free, SetPal
<1>28. CASE DrainReady
  BY <1>28 DEF DrainReady
<1>29. CASE CardOffline
  BY <1>29 DEF CardOffline
<1>30. CASE CardOnline
  BY <1>30 DEF CardOnline
<1>31. CASE Render
  BY <1>31 DEF Render
<1>32. CASE Destroy
  BY <1>32 DEF Destroy, StopOffloadEffects, SetPal
<1>33. CASE Create
  BY <1>33 DEF Create
<1>34. CASE UNCHANGED vars
  BY <1>34 DEF vars
<1> QED
  BY <1>1, <1>2, <1>3, <1>4, <1>5, <1>6, <1>7, <1>8, <1>9, <1>10, <1>11, <1>12, <1>13,
     <1>14, <1>15, <1>16, <1>17, <1>18, <1>19, <1>20, <1>21, <1>22, <1>23, <1>24, <1>25,
     <1>26, <1>27, <1>28, <1>29, <1>30, <1>31, <1>32, <1>33, <1>34
  DEF Next, Write, Standby, Position, Control, Environment

\* No step lets data reach a session without its metadata.
LEMMA GaplessStep ==
  ASSUME Safe, Unstarted, Gapless, [Next]_vars
  PROVE  Gapless'
<1> USE ThreadAssumption, SessionAssumption
        DEF Safe, TypeOK, LockOK, LockedPoints, DataOnLiveSession, DeadIsIdle, Unstarted,
            Gapless, Failing, Closing, IsCompressed, HasHaptics
<1>1. CASE OpenFails
  BY <1>1 DEF OpenFails, MayWrite, Free, ConfigureFailed, CountFrame, AddWritten, Leave,
             Goto
<1>2. CASE BufferSetupFails
  BY <1>2 DEF BufferSetupFails, MayWrite, Free, Opened, SetPal, OpenResetsTime,
             ConfigureFailed, CountFrame, AddWritten, Leave, Goto
<1>3. CASE StartFails
  BY <1>3 DEF StartFails, MayWrite, Free, Opened, SetPal, ClosedOnStartFailure,
             ConfigureFailed, CountFrame, AddWritten, Leave, Goto
<1>4. CASE HapticsStartFails
  BY <1>4 DEF HapticsStartFails, MayWrite, Free, Opened, SetPal, OpenResetsTime,
             ConfigureFailed, CountFrame, AddWritten, Leave, Goto
<1>5. CASE StreamStarts
  BY <1>5 DEF StreamStarts, MayWrite, Free, Opened, SetPal, OpenResetsTime,
             StartOffloadEffects, Acquire, Goto
<1>6. CASE AlreadyStarted
  BY <1>6 DEF AlreadyStarted, MayWrite, Free, Acquire, Goto
<1>7. CASE SendGaplessMetadata
  BY <1>7 DEF SendGaplessMetadata, Goto
<1>8. CASE ClearGaplessFlag
  BY <1>8 DEF ClearGaplessFlag, Goto
<1>9. CASE NoGaplessMetadata
  BY <1>9 DEF NoGaplessMetadata, Goto
<1>10. CASE WriteData
  BY <1>10 DEF WriteData, CountFrame, AddWritten, Leave, Goto
<1>11. CASE WriteFails
  BY <1>11 DEF WriteFails, CountFrame, AddWritten, Leave, Goto
<1>12. CASE WriteRejected
  BY <1>12 DEF WriteRejected, Leave, Goto
<1>13. ASSUME NEW t \in Threads, StandbyStop(t)
       PROVE  Gapless'
  BY <1>13 DEF StandbyStop, EntersStandby, GetFrames, StopStream, SetPal, StandbyFlags,
             Acquire, Goto
<1>14. ASSUME NEW t \in Threads, StandbyOffline(t)
       PROVE  Gapless'
  BY <1>14 DEF StandbyOffline, EntersStandby, Goto
<1>15. ASSUME NEW t \in Threads, StandbyRelock(t)
       PROVE  Gapless'
  BY <1>15 DEF StandbyRelock, StopStream, SetPal, StandbyFlags, Acquire, Goto
<1>16. ASSUME NEW t \in Threads, StandbyClose(t)
       PROVE  Gapless'
  BY <1>16 DEF StandbyClose, StopOffloadEffects, SetPal, StandbyReturn, Leave, Goto
<1>17. ASSUME NEW t \in Threads, ReadWritten(t)
       PROVE  Gapless'
  BY <1>17 DEF ReadWritten, GetFramesWritten, Goto
<1>18. ASSUME NEW t \in Threads, StoreCached(t)
       PROVE  Gapless'
  BY <1>18 DEF StoreCached, Goto
<1>19. ASSUME NEW t \in Threads, QueryPositionOffline(t)
       PROVE  Gapless'
  BY <1>19 DEF QueryPositionOffline, Goto
<1>20. ASSUME NEW t \in Threads, Pause(t)
       PROVE  Gapless'
  BY <1>20 DEF Pause, Free, SetPal
<1>21. ASSUME NEW t \in Threads, Resume(t)
       PROVE  Gapless'
  BY <1>21 DEF Resume, Free, SetPal
<1>22. ASSUME NEW t \in Threads, Flush(t)
       PROVE  Gapless'
  BY <1>22 DEF Flush, Free, SetPal
<1>23. ASSUME NEW t \in Threads, NEW type \in {"all", "partial"}, Drain(t, type)
       PROVE  Gapless'
  BY <1>23 DEF Drain, Free
<1>24. ASSUME NEW t \in Threads, CreateMmapBuffer(t)
       PROVE  Gapless'
  BY <1>24 DEF CreateMmapBuffer, MmapOpens, Free, SetPal, Goto
<1>25. ASSUME NEW t \in Threads, CreateMmapBufferFails(t)
       PROVE  Gapless'
  BY <1>25 DEF CreateMmapBufferFails, MmapOpens, Free, SetPal, Goto
<1>26. ASSUME NEW t \in Threads, MmapStart(t)
       PROVE  Gapless'
  BY <1>26 DEF MmapStart, Free, SetPal
<1>27. ASSUME NEW t \in Threads, MmapStop(t)
       PROVE  Gapless'
  BY <1>27 DEF MmapStop, Free, SetPal
<1>28. CASE DrainReady
  BY <1>28 DEF DrainReady
<1>29. CASE CardOffline
  BY <1>29 DEF CardOffline
<1>30. CASE CardOnline
  BY <1>30 DEF CardOnline
<1>31. CASE Render
  BY <1>31 DEF Render
<1>32. CASE Destroy
  BY <1>32 DEF Destroy, StopOffloadEffects, SetPal
<1>33. CASE Create
  BY <1>33 DEF Create
<1>34. CASE UNCHANGED vars
  BY <1>34 DEF vars
<1> QED
  BY <1>1, <1>2, <1>3, <1>4, <1>5, <1>6, <1>7, <1>8, <1>9, <1>10, <1>11, <1>12, <1>13,
     <1>14, <1>15, <1>16, <1>17, <1>18, <1>19, <1>20, <1>21, <1>22, <1>23, <1>24, <1>25,
     <1>26, <1>27, <1>28, <1>29, <1>30, <1>31, <1>32, <1>33, <1>34
  DEF Next, Write, Standby, Position, Control, Environment

\* No step takes a position past the frames sent.
LEMMA RenderedStep ==
  ASSUME Safe, Unstarted, Rendered, [Next]_vars
  PROVE  Rendered'
<1> USE ThreadAssumption, SessionAssumption, BoundAssumption
        DEF Safe, TypeOK, LockOK, LockedPoints, DeadIsIdle, Unstarted, Failing, Closing,
            Rendered, IsPcmOffload
<1>1. CASE OpenFails
  BY <1>1 DEF OpenFails, MayWrite, Free, ConfigureFailed, CountFrame, AddWritten, Leave,
             Goto
<1>2. CASE BufferSetupFails
  BY <1>2 DEF BufferSetupFails, MayWrite, Free, Opened, SetPal, OpenResetsTime,
             ConfigureFailed, CountFrame, AddWritten, Leave, Goto
<1>3. CASE StartFails
  BY <1>3 DEF StartFails, MayWrite, Free, Opened, SetPal, ClosedOnStartFailure,
             ConfigureFailed, CountFrame, AddWritten, Leave, Goto
<1>4. CASE HapticsStartFails
  BY <1>4 DEF HapticsStartFails, MayWrite, Free, Opened, SetPal, OpenResetsTime,
             ConfigureFailed, CountFrame, AddWritten, Leave, Goto
<1>5. CASE StreamStarts
  BY <1>5 DEF StreamStarts, MayWrite, Free, Opened, SetPal, OpenResetsTime,
             StartOffloadEffects, Acquire, Goto
<1>6. CASE AlreadyStarted
  BY <1>6 DEF AlreadyStarted, MayWrite, Free, Acquire, Goto
<1>7. CASE SendGaplessMetadata
  BY <1>7 DEF SendGaplessMetadata, Goto
<1>8. CASE ClearGaplessFlag
  BY <1>8 DEF ClearGaplessFlag, Goto
<1>9. CASE NoGaplessMetadata
  BY <1>9 DEF NoGaplessMetadata, Goto
<1>10. CASE WriteData
  BY <1>10 DEF WriteData, CountFrame, AddWritten, Leave, Goto
<1>11. CASE WriteFails
  BY <1>11 DEF WriteFails, CountFrame, AddWritten, Leave, Goto
<1>12. CASE WriteRejected
  BY <1>12 DEF WriteRejected, Leave, Goto
<1>13. ASSUME NEW t \in Threads, StandbyStop(t)
       PROVE  Rendered'
  <2> SUFFICES ASSUME IsPcmOffload', ~lateRead' PROVE Rendered'
    BY DEF Rendered
  <2>1. /\ IsPcmOffload /\ ~lateRead
        /\ UNCHANGED <<mBytesWritten, framesSent, dsp, queued, sndCardState, seen>>
        /\ stream_started_' = FALSE /\ pc' = [pc EXCEPT ![t] = "standbyClose"]
    BY <1>13 DEF StandbyStop, StopStream, StandbyFlags, Acquire, Goto
  <2>2. mCachedPosition' \in Nat /\ mCachedPosition' <= framesSent
    BY <1>13, <2>1 DEF StandbyStop, GetFrames
  <2> QED
    BY <2>1, <2>2
<1>14. ASSUME NEW t \in Threads, StandbyOffline(t)
       PROVE  Rendered'
  BY <1>14 DEF StandbyOffline, EntersStandby, Goto
<1>15. ASSUME NEW t \in Threads, StandbyRelock(t)
       PROVE  Rendered'
  BY <1>15 DEF StandbyRelock, StopStream, SetPal, StandbyFlags, Acquire, Goto
<1>16. ASSUME NEW t \in Threads, StandbyClose(t)
       PROVE  Rendered'
  BY <1>16 DEF StandbyClose, StopOffloadEffects, SetPal, StandbyReturn, Leave, Goto
<1>17. ASSUME NEW t \in Threads, ReadWritten(t)
       PROVE  Rendered'
  BY <1>17 DEF ReadWritten, GetFramesWritten, Goto
<1>18. ASSUME NEW t \in Threads, StoreCached(t)
       PROVE  Rendered'
  BY <1>18 DEF StoreCached, Goto
<1>19. ASSUME NEW t \in Threads, QueryPositionOffline(t)
       PROVE  Rendered'
  BY <1>19 DEF QueryPositionOffline, Goto
<1>20. ASSUME NEW t \in Threads, Pause(t)
       PROVE  Rendered'
  BY <1>20 DEF Pause, Free, SetPal
<1>21. ASSUME NEW t \in Threads, Resume(t)
       PROVE  Rendered'
  BY <1>21 DEF Resume, Free, SetPal
<1>22. ASSUME NEW t \in Threads, Flush(t)
       PROVE  Rendered'
  BY <1>22 DEF Flush, Free, SetPal
<1>23. ASSUME NEW t \in Threads, NEW type \in {"all", "partial"}, Drain(t, type)
       PROVE  Rendered'
  BY <1>23 DEF Drain, Free
<1>24. ASSUME NEW t \in Threads, CreateMmapBuffer(t)
       PROVE  Rendered'
  BY <1>24 DEF CreateMmapBuffer, MmapOpens, Free, SetPal, Goto
<1>25. ASSUME NEW t \in Threads, CreateMmapBufferFails(t)
       PROVE  Rendered'
  BY <1>25 DEF CreateMmapBufferFails, MmapOpens, Free, SetPal, Goto
<1>26. ASSUME NEW t \in Threads, MmapStart(t)
       PROVE  Rendered'
  BY <1>26 DEF MmapStart, Free, SetPal
<1>27. ASSUME NEW t \in Threads, MmapStop(t)
       PROVE  Rendered'
  BY <1>27 DEF MmapStop, Free, SetPal
<1>28. CASE DrainReady
  BY <1>28 DEF DrainReady
<1>29. CASE CardOffline
  BY <1>29 DEF CardOffline
<1>30. CASE CardOnline
  BY <1>30 DEF CardOnline
<1>31. CASE Render
  BY <1>31 DEF Render
<1>32. CASE Destroy
  BY <1>32 DEF Destroy, StopOffloadEffects, SetPal
<1>33. CASE Create
  BY <1>33 DEF Create
<1>34. CASE UNCHANGED vars
  BY <1>34 DEF vars
<1> QED
  BY <1>1, <1>2, <1>3, <1>4, <1>5, <1>6, <1>7, <1>8, <1>9, <1>10, <1>11, <1>12, <1>13,
     <1>14, <1>15, <1>16, <1>17, <1>18, <1>19, <1>20, <1>21, <1>22, <1>23, <1>24, <1>25,
     <1>26, <1>27, <1>28, <1>29, <1>30, <1>31, <1>32, <1>33, <1>34
  DEF Next, Write, Standby, Position, Control, Environment

\* No step parts the offload effects from the session that plays.
LEMMA AttachedStep ==
  ASSUME Safe, Owned, Flagged, Attached, [Next]_vars
  PROVE  Attached'
<1> USE ThreadAssumption, SessionAssumption
        DEF Safe, TypeOK, LockOK, LockedPoints, DeadIsIdle, Owned, SessionsOwned,
            Flagged, Closing, Attached, CheckOffloadEffectsType, IsCompressed,
            IsPcmOffload, HasHaptics
<1>1. CASE OpenFails
  BY <1>1 DEF OpenFails, MayWrite, Free, ConfigureFailed, CountFrame, AddWritten, Leave,
             Goto
<1>2. CASE BufferSetupFails
  BY <1>2 DEF BufferSetupFails, MayWrite, Free, Opened, SetPal, OpenResetsTime,
             ConfigureFailed, CountFrame, AddWritten, Leave, Goto
<1>3. CASE StartFails
  BY <1>3 DEF StartFails, MayWrite, Free, Opened, SetPal, ClosedOnStartFailure,
             ConfigureFailed, CountFrame, AddWritten, Leave, Goto
<1>4. CASE HapticsStartFails
  BY <1>4 DEF HapticsStartFails, MayWrite, Free, Opened, SetPal, OpenResetsTime,
             ConfigureFailed, CountFrame, AddWritten, Leave, Goto
<1>5. CASE StreamStarts
  BY <1>5 DEF StreamStarts, MayWrite, Free, Opened, SetPal, OpenResetsTime,
             StartOffloadEffects, Acquire, Goto
<1>6. CASE AlreadyStarted
  BY <1>6 DEF AlreadyStarted, MayWrite, Free, Acquire, Goto
<1>7. CASE SendGaplessMetadata
  BY <1>7 DEF SendGaplessMetadata, Goto
<1>8. CASE ClearGaplessFlag
  BY <1>8 DEF ClearGaplessFlag, Goto
<1>9. CASE NoGaplessMetadata
  BY <1>9 DEF NoGaplessMetadata, Goto
<1>10. CASE WriteData
  BY <1>10 DEF WriteData, CountFrame, AddWritten, Leave, Goto
<1>11. CASE WriteFails
  BY <1>11 DEF WriteFails, CountFrame, AddWritten, Leave, Goto
<1>12. CASE WriteRejected
  BY <1>12 DEF WriteRejected, Leave, Goto
<1>13. ASSUME NEW t \in Threads, StandbyStop(t)
       PROVE  Attached'
  BY <1>13 DEF StandbyStop, EntersStandby, GetFrames, StopStream, SetPal, StandbyFlags,
             Acquire, Goto
<1>14. ASSUME NEW t \in Threads, StandbyOffline(t)
       PROVE  Attached'
  BY <1>14 DEF StandbyOffline, EntersStandby, Goto
<1>15. ASSUME NEW t \in Threads, StandbyRelock(t)
       PROVE  Attached'
  BY <1>15 DEF StandbyRelock, StopStream, SetPal, StandbyFlags, Acquire, Goto
<1>16. ASSUME NEW t \in Threads, StandbyClose(t)
       PROVE  Attached'
  BY <1>16 DEF StandbyClose, StopOffloadEffects, SetPal, StandbyReturn, Leave, Goto
<1>17. ASSUME NEW t \in Threads, ReadWritten(t)
       PROVE  Attached'
  BY <1>17 DEF ReadWritten, GetFramesWritten, Goto
<1>18. ASSUME NEW t \in Threads, StoreCached(t)
       PROVE  Attached'
  BY <1>18 DEF StoreCached, Goto
<1>19. ASSUME NEW t \in Threads, QueryPositionOffline(t)
       PROVE  Attached'
  BY <1>19 DEF QueryPositionOffline, Goto
<1>20. ASSUME NEW t \in Threads, Pause(t)
       PROVE  Attached'
  BY <1>20 DEF Pause, Free, SetPal
<1>21. ASSUME NEW t \in Threads, Resume(t)
       PROVE  Attached'
  BY <1>21 DEF Resume, Free, SetPal
<1>22. ASSUME NEW t \in Threads, Flush(t)
       PROVE  Attached'
  BY <1>22 DEF Flush, Free, SetPal
<1>23. ASSUME NEW t \in Threads, NEW type \in {"all", "partial"}, Drain(t, type)
       PROVE  Attached'
  BY <1>23 DEF Drain, Free
<1>24. ASSUME NEW t \in Threads, CreateMmapBuffer(t)
       PROVE  Attached'
  BY <1>24 DEF CreateMmapBuffer, MmapOpens, Free, SetPal, Goto
<1>25. ASSUME NEW t \in Threads, CreateMmapBufferFails(t)
       PROVE  Attached'
  BY <1>25 DEF CreateMmapBufferFails, MmapOpens, Free, SetPal, Goto
<1>26. ASSUME NEW t \in Threads, MmapStart(t)
       PROVE  Attached'
  BY <1>26 DEF MmapStart, Free, SetPal
<1>27. ASSUME NEW t \in Threads, MmapStop(t)
       PROVE  Attached'
  BY <1>27 DEF MmapStop, Free, SetPal
<1>28. CASE DrainReady
  BY <1>28 DEF DrainReady
<1>29. CASE CardOffline
  BY <1>29 DEF CardOffline
<1>30. CASE CardOnline
  BY <1>30 DEF CardOnline
<1>31. CASE Render
  BY <1>31 DEF Render
<1>32. CASE Destroy
  BY <1>32 DEF Destroy, StopOffloadEffects, SetPal
<1>33. CASE Create
  BY <1>33 DEF Create
<1>34. CASE UNCHANGED vars
  BY <1>34 DEF vars
<1> QED
  BY <1>1, <1>2, <1>3, <1>4, <1>5, <1>6, <1>7, <1>8, <1>9, <1>10, <1>11, <1>12, <1>13,
     <1>14, <1>15, <1>16, <1>17, <1>18, <1>19, <1>20, <1>21, <1>22, <1>23, <1>24, <1>25,
     <1>26, <1>27, <1>28, <1>29, <1>30, <1>31, <1>32, <1>33, <1>34
  DEF Next, Write, Standby, Position, Control, Environment

\* How an action of PlaybackLifecycle is met.
AbstractStep == [Lifecycle!Next]_<<Mode, Held>>

LEMMA AcquireStep ==
  ASSUME Mode = "standby", Mode' \in {"held", "playing"},
         Held' \subseteq Sessions, Held' # {}
  PROVE  AbstractStep
<1>1. Lifecycle!Acquire
  BY DEF Lifecycle!Acquire, Held
<1> QED
  BY <1>1 DEF AbstractStep, Lifecycle!Next

LEMMA NarrowStep ==
  ASSUME Mode = "held", Mode' = "held", Held' \subseteq Held, Held' # {}
  PROVE  AbstractStep
<1>1. Lifecycle!Narrow
  BY DEF Lifecycle!Narrow, Held
<1> QED
  BY <1>1 DEF AbstractStep, Lifecycle!Next

\* Every step is a step of PlaybackLifecycle or changes nothing there.
LEMMA LifecycleStep ==
  ASSUME Safe, Owned, Flagged, [Next]_vars
  PROVE  AbstractStep
<1> USE ThreadAssumption, SessionAssumption
        DEF Safe, TypeOK, LockOK, LockedPoints, DeadIsIdle, Owned, SessionsOwned,
            Flagged, Closing, IsPcmOffload, HasHaptics, Mode, Held, AbstractStep,
            Lifecycle!Next, Lifecycle!Acquire, Lifecycle!Play, Lifecycle!Narrow,
            Lifecycle!Pause, Lifecycle!Resume, Lifecycle!Halt, Lifecycle!Release,
            Lifecycle!Discard, Lifecycle!Create, Lifecycle!Active
<1>1. CASE OpenFails
  BY <1>1 DEF OpenFails, MayWrite, Free, ConfigureFailed, CountFrame, AddWritten, Leave,
             Goto
<1>2. CASE BufferSetupFails
  <2>1. Held' # {} /\ Held' \subseteq Sessions
    BY <1>2 DEF BufferSetupFails, MayWrite, Free, Opened, SetPal, OpenResetsTime,
              ConfigureFailed, CountFrame, AddWritten, Leave, Goto
  <2>2. pal_stream_handle_ = Null => Mode = "standby" /\ Mode' \in {"held", "playing"}
    BY <1>2 DEF BufferSetupFails, MayWrite, Free, Opened, SetPal, OpenResetsTime,
              ConfigureFailed, CountFrame, AddWritten, Leave, Goto
  <2>3. CASE pal_stream_handle_ = Null
    <3> HIDE DEF Mode, Held, AbstractStep
    <3> QED BY <2>1, <2>2, <2>3, AcquireStep
  <2>4. CASE pal_stream_handle_ # Null
    BY <1>2, <2>1, <2>4 DEF BufferSetupFails, MayWrite, Free, Opened, SetPal,
              OpenResetsTime, ConfigureFailed, CountFrame, AddWritten,
              Leave, Goto
  <2> QED BY <2>3, <2>4
<1>3. CASE StartFails
  BY <1>3 DEF StartFails, MayWrite, Free, Opened, SetPal, ClosedOnStartFailure,
             ConfigureFailed, CountFrame, AddWritten, Leave, Goto
<1>4. CASE HapticsStartFails
  <2>1. Held' # {} /\ Held' \subseteq Sessions
    BY <1>4 DEF HapticsStartFails, MayWrite, Free, Opened, SetPal, OpenResetsTime,
              ConfigureFailed, CountFrame, AddWritten, Leave, Goto
  <2>2. pal_stream_handle_ = Null => Mode = "standby" /\ Mode' \in {"held", "playing"}
    BY <1>4 DEF HapticsStartFails, MayWrite, Free, Opened, SetPal, OpenResetsTime,
              ConfigureFailed, CountFrame, AddWritten, Leave, Goto
  <2>3. CASE pal_stream_handle_ = Null
    <3> HIDE DEF Mode, Held, AbstractStep
    <3> QED BY <2>1, <2>2, <2>3, AcquireStep
  <2>4. CASE pal_stream_handle_ # Null
    <3>1. Mode = "held" /\ Mode' = "held" /\ Held' \subseteq Held
      BY <1>4, <2>4 DEF HapticsStartFails, MayWrite, Free, Opened, SetPal,
              OpenResetsTime, ConfigureFailed, CountFrame, AddWritten, Leave,
              Goto
    <3> HIDE DEF Mode, Held, AbstractStep
    <3> QED BY <2>1, <3>1, NarrowStep
  <2> QED BY <2>3, <2>4
<1>5. CASE StreamStarts
  <2>1. Held' # {} /\ Held' \subseteq Sessions
    BY <1>5 DEF StreamStarts, MayWrite, Free, Opened, SetPal, OpenResetsTime,
              StartOffloadEffects, Acquire, Goto
  <2>2. pal_stream_handle_ = Null => Mode = "standby" /\ Mode' \in {"held", "playing"}
    BY <1>5 DEF StreamStarts, MayWrite, Free, Opened, SetPal, OpenResetsTime,
              StartOffloadEffects, Acquire, Goto
  <2>3. CASE pal_stream_handle_ = Null
    <3> HIDE DEF Mode, Held, AbstractStep
    <3> QED BY <2>1, <2>2, <2>3, AcquireStep
  <2>4. CASE pal_stream_handle_ # Null
    BY <1>5, <2>1, <2>4 DEF StreamStarts, MayWrite, Free, Opened, SetPal,
              OpenResetsTime, StartOffloadEffects, Acquire, Goto
  <2> QED BY <2>3, <2>4
<1>6. CASE AlreadyStarted
  BY <1>6 DEF AlreadyStarted, MayWrite, Free, Acquire, Goto
<1>7. CASE SendGaplessMetadata
  BY <1>7 DEF SendGaplessMetadata, Goto
<1>8. CASE ClearGaplessFlag
  BY <1>8 DEF ClearGaplessFlag, Goto
<1>9. CASE NoGaplessMetadata
  BY <1>9 DEF NoGaplessMetadata, Goto
<1>10. CASE WriteData
  BY <1>10 DEF WriteData, CountFrame, AddWritten, Leave, Goto
<1>11. CASE WriteFails
  BY <1>11 DEF WriteFails, CountFrame, AddWritten, Leave, Goto
<1>12. CASE WriteRejected
  BY <1>12 DEF WriteRejected, Leave, Goto
<1>13. ASSUME NEW t \in Threads, StandbyStop(t)
       PROVE  AbstractStep
  BY <1>13 DEF StandbyStop, EntersStandby, GetFrames, StopStream, SetPal, StandbyFlags,
             Acquire, Goto
<1>14. ASSUME NEW t \in Threads, StandbyOffline(t)
       PROVE  AbstractStep
  BY <1>14 DEF StandbyOffline, EntersStandby, Goto
<1>15. ASSUME NEW t \in Threads, StandbyRelock(t)
       PROVE  AbstractStep
  BY <1>15 DEF StandbyRelock, StopStream, SetPal, StandbyFlags, Acquire, Goto
<1>16. ASSUME NEW t \in Threads, StandbyClose(t)
       PROVE  AbstractStep
  BY <1>16 DEF StandbyClose, StopOffloadEffects, SetPal, StandbyReturn, Leave, Goto
<1>17. ASSUME NEW t \in Threads, ReadWritten(t)
       PROVE  AbstractStep
  BY <1>17 DEF ReadWritten, GetFramesWritten, Goto
<1>18. ASSUME NEW t \in Threads, StoreCached(t)
       PROVE  AbstractStep
  BY <1>18 DEF StoreCached, Goto
<1>19. ASSUME NEW t \in Threads, QueryPositionOffline(t)
       PROVE  AbstractStep
  BY <1>19 DEF QueryPositionOffline, Goto
<1>20. ASSUME NEW t \in Threads, Pause(t)
       PROVE  AbstractStep
  BY <1>20 DEF Pause, Free, SetPal
<1>21. ASSUME NEW t \in Threads, Resume(t)
       PROVE  AbstractStep
  BY <1>21 DEF Resume, Free, SetPal
<1>22. ASSUME NEW t \in Threads, Flush(t)
       PROVE  AbstractStep
  BY <1>22 DEF Flush, Free, SetPal
<1>23. ASSUME NEW t \in Threads, NEW type \in {"all", "partial"}, Drain(t, type)
       PROVE  AbstractStep
  BY <1>23 DEF Drain, Free
<1>24. ASSUME NEW t \in Threads, CreateMmapBuffer(t)
       PROVE  AbstractStep
  <2>1. Held' # {} /\ Held' \subseteq Sessions
    BY <1>24 DEF CreateMmapBuffer, MmapOpens, Free, SetPal, Goto
  <2>2. pal_stream_handle_ = Null => Mode = "standby" /\ Mode' \in {"held", "playing"}
    BY <1>24 DEF CreateMmapBuffer, MmapOpens, Free, SetPal, Goto
  <2>3. CASE pal_stream_handle_ = Null
    <3> HIDE DEF Mode, Held, AbstractStep
    <3> QED BY <2>1, <2>2, <2>3, AcquireStep
  <2> QED BY <2>3, <1>24 DEF CreateMmapBuffer, MmapOpens, Free, SetPal, Goto
<1>25. ASSUME NEW t \in Threads, CreateMmapBufferFails(t)
       PROVE  AbstractStep
  <2>1. Held' # {} /\ Held' \subseteq Sessions
    BY <1>25 DEF CreateMmapBufferFails, MmapOpens, Free, SetPal, Goto
  <2>2. pal_stream_handle_ = Null => Mode = "standby" /\ Mode' \in {"held", "playing"}
    BY <1>25 DEF CreateMmapBufferFails, MmapOpens, Free, SetPal, Goto
  <2>3. CASE pal_stream_handle_ = Null
    <3> HIDE DEF Mode, Held, AbstractStep
    <3> QED BY <2>1, <2>2, <2>3, AcquireStep
  <2> QED BY <2>3, <1>25 DEF CreateMmapBufferFails, MmapOpens, Free, SetPal, Goto
<1>26. ASSUME NEW t \in Threads, MmapStart(t)
       PROVE  AbstractStep
  BY <1>26 DEF MmapStart, Free, SetPal
<1>27. ASSUME NEW t \in Threads, MmapStop(t)
       PROVE  AbstractStep
  BY <1>27 DEF MmapStop, Free, SetPal
<1>28. CASE DrainReady
  BY <1>28 DEF DrainReady
<1>29. CASE CardOffline
  BY <1>29 DEF CardOffline
<1>30. CASE CardOnline
  BY <1>30 DEF CardOnline
<1>31. CASE Render
  BY <1>31 DEF Render
<1>32. CASE Destroy
  BY <1>32 DEF Destroy, StopOffloadEffects, SetPal
<1>33. CASE Create
  BY <1>33 DEF Create
<1>34. CASE UNCHANGED vars
  BY <1>34 DEF vars
<1> HIDE DEF AbstractStep
<1> QED
  BY <1>1, <1>2, <1>3, <1>4, <1>5, <1>6, <1>7, <1>8, <1>9, <1>10, <1>11, <1>12, <1>13,
     <1>14, <1>15, <1>16, <1>17, <1>18, <1>19, <1>20, <1>21, <1>22, <1>23, <1>24, <1>25,
     <1>26, <1>27, <1>28, <1>29, <1>30, <1>31, <1>32, <1>33, <1>34
  DEF Next, Write, Standby, Position, Control, Environment

-----------------------------------------------------------------------------
(* Theorems.                                                               *)

\* A new stream satisfies every part of the invariant.
LEMMA InitAll ==
  Init => /\ Safe /\ Owned /\ Flagged /\ Attached
          /\ Unstarted /\ Gapless /\ Rendered
<1> SUFFICES ASSUME Init
    PROVE  /\ Safe /\ Owned /\ Flagged /\ Attached
           /\ Unstarted /\ Gapless /\ Rendered
  OBVIOUS
<1> USE ThreadAssumption, SessionAssumption DEF Init
<1>1. TypeOK
  <2>1. pc \in [Threads -> Points] /\ seen \in [Threads -> Nat]
    BY DEF Points
  <2>2. pal \in [Sessions -> {"closed", "open", "running", "paused"}]
    OBVIOUS
  <2>3. mBytesWritten \in 0..MaxFrames
    BY BoundAssumption
  <2> QED
    BY <2>1, <2>2, <2>3 DEF TypeOK
<1>2. LockOK /\ DataOnLiveSession /\ DeadIsIdle
  BY DEF LockOK, DataOnLiveSession, DeadIsIdle, LockedPoints
<1>3. Owned
  BY DEF Owned, SessionsOwned
<1>4. Flagged /\ Attached
  BY DEF Flagged, Closing, Attached
<1>5. Unstarted /\ Gapless /\ Rendered
  BY DEF Unstarted, Gapless, Closing, Rendered
<1> QED
  BY <1>1, <1>2, <1>3, <1>4, <1>5 DEF Safe

\* The mutex layer holds in every behaviour.
LEMMA SafeAlways == Spec => []Safe
<1>1. Init => Safe
  BY InitAll
<1>2. Safe /\ [Next]_vars => Safe'
  BY SafeStep
<1> QED
  BY <1>1, <1>2, PTL DEF Spec

\* The handles name the open sessions in every behaviour.
LEMMA OwnedAlways == Spec => []Owned
<1>1. Init => Owned
  BY InitAll
<1>2. Safe /\ Owned /\ [Next]_vars => Owned'
  BY OwnedStep
<1> QED
  BY <1>1, <1>2, SafeAlways, PTL DEF Spec

\* The flags follow the session in every behaviour.
LEMMA FlaggedAlways == Spec => []Flagged
<1>1. Init => Flagged
  BY InitAll
<1>2. Safe /\ Owned /\ Flagged /\ [Next]_vars => Flagged'
  BY FlaggedStep
<1> QED
  BY <1>1, <1>2, SafeAlways, OwnedAlways, PTL DEF Spec

\* No open session is forgotten unstarted.
LEMMA UnstartedAlways == Spec => []Unstarted
<1>1. Init => Unstarted
  BY InitAll
<1>2. Safe /\ Unstarted /\ [Next]_vars => Unstarted'
  BY UnstartedStep
<1> QED
  BY <1>1, <1>2, SafeAlways, PTL DEF Spec

\* Every variable keeps its type, whatever the number of threads and sessions:
\* in particular the latency never takes a position below 0.
THEOREM TypeCorrect == Spec => []TypeOK
<1>1. Safe => TypeOK
  BY DEF Safe
<1> QED
  BY <1>1, SafeAlways, PTL

\* Between configurePalOutputStream and pal_stream_write the stream stays
\* started on an open session: the mutex keeps Standby, stop and the destructor
\* out.
THEOREM WriteIsLive == Spec => []DataOnLiveSession
<1>1. Safe => DataOnLiveSession
  BY DEF Safe
<1> QED
  BY <1>1, SafeAlways, PTL

\* No PAL session is lost or used after its close.
THEOREM NoSessionLost == Spec => []SessionsOwned
<1>1. Owned => SessionsOwned
  BY DEF Owned
<1> QED
  BY <1>1, OwnedAlways, PTL

\* stream_started_ and stream_paused_ say what the PAL session does.
THEOREM FlagsCorrect == Spec => []FlagsMatchSession
<1>1. Flagged => FlagsMatchSession
  BY DEF Flagged, Closing, FlagsMatchSession
<1> QED
  BY <1>1, FlaggedAlways, PTL

\* The offload effects are attached to the session that plays, and to no other.
THEOREM EffectsCorrect == Spec => []EffectsFollowSession
<1>1. Init => Attached
  BY InitAll
<1>2. Safe /\ Owned /\ Flagged /\ Attached /\ [Next]_vars => Attached'
  BY AttachedStep
<1>3. Attached => EffectsFollowSession
  BY DEF Attached, EffectsFollowSession
<1> QED
  BY <1>1, <1>2, <1>3, SafeAlways, OwnedAlways, FlaggedAlways, PTL DEF Spec

\* A compressed session gets its gapless metadata before any data, unless the
\* answer to a drain came between the stop and the close of a Standby.
THEOREM GaplessFirst == Spec => []GaplessBeforeData
<1>1. Init => Gapless
  BY InitAll
<1>2. Safe /\ Unstarted /\ Gapless /\ [Next]_vars => Gapless'
  BY GaplessStep
<1>3. Gapless => GaplessBeforeData
  BY DEF Gapless, GaplessBeforeData
<1> QED
  BY <1>1, <1>2, <1>3, SafeAlways, UnstartedAlways, PTL DEF Spec

\* The position of a PCM offload stream is never ahead of the frames written,
\* whatever the latency and however many threads query it.
THEOREM PositionCorrect == Spec => []PositionNotAhead
<1>1. Init => Rendered
  BY InitAll
<1>2. Safe /\ Unstarted /\ Rendered /\ [Next]_vars => Rendered'
  BY RenderedStep
<1>3. Safe /\ Rendered => PositionNotAhead
  BY DEF Safe, TypeOK, Rendered, PositionNotAhead
<1> QED
  BY <1>1, <1>2, <1>3, SafeAlways, UnstartedAlways, PTL DEF Spec

\* The stream implements PlaybackLifecycle: its sessions follow its mode through
\* every failure, interleaving and card restart.
THEOREM LifecycleImplemented == Spec => ImplementsLifecycle
<1>1. Init => Lifecycle!Init
  BY SessionAssumption DEF Init, Lifecycle!Init, Mode
<1>2. Safe /\ Owned /\ Flagged /\ [Next]_vars => [Lifecycle!Next]_<<Mode, Held>>
  BY LifecycleStep DEF AbstractStep
<1> QED
  BY <1>1, <1>2, SafeAlways, OwnedAlways, FlaggedAlways, PTL
  DEF Spec, ImplementsLifecycle, Lifecycle!Spec, Held
==============================================================================
