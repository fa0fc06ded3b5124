------------------------------- MODULE StreamIn -------------------------------
(***************************************************************************)
(* Capture: the StreamInPrimary objects of hal/AudioStream.cpp, the list   *)
(* AudioDevice keeps of them, the microphone mute it sends along that list *)
(* and the sound trigger bridge of hal/audio_extn/soundtrigger.cpp, which  *)
(* lends a stream the PAL session of the sound trigger HAL.                *)
(*                                                                         *)
(* stream_mutex_ makes a handler one step.  Split are the error path of    *)
(* read and of CreateMmapBuffer (the mutex is dropped before Standby) and  *)
(* SetMicMute, which visits the streams one after the other and does not   *)
(* lock the list.  The lock of the sound trigger list is taken and dropped *)
(* inside the steps.  num_va_sessions_ is shared by streams with a mutex    *)
(* each: its load and its store are two steps.                             *)
(***************************************************************************)
EXTENDS Integers, Sequences, SequencesExt

CONSTANTS
  Streams,      \* stream objects; each names the PAL session it opens itself
  LabStreams,   \* those whose io handle is a capture handle of sound trigger
  StSessions,   \* PAL sessions of the sound trigger HAL
  Null,         \* the NULL handle
  NoStream,     \* an empty shared_ptr, an object that does not exist
  NoSession,    \* a session PAL does not have
  Mics, Usbs,   \* input devices; those of Usbs may fail the capability query
  Routed,       \* bound: the streams that are not always on the same device
  MicMutes,     \* bound: the values SetMicMute is called with
  StDevs,       \* whether the sound trigger library may be there
  MaxVa         \* bound on num_va_sessions_

ASSUME LabAssumption == LabStreams \subseteq Streams
ASSUME NameAssumption == /\ Streams \cap StSessions = {}
                         /\ Null \notin Streams \cup StSessions
                         /\ NoStream \notin Streams
                         /\ "unknown" \notin Mics \cup Usbs
ASSUME InAssumption == StDevs \subseteq BOOLEAN /\ StDevs # {} /\ MicMutes \subseteq BOOLEAN
                       /\ MaxVa \in Nat \ {0}

Devices == Mics \cup Usbs
DevicesOf(s) == IF s \in Routed THEN Devices ELSE Mics

\* usecase_ and source_, as far as the handlers tell them apart.
Kinds == {"RECORD", "MMAP", "RECOGNITION"}

VARIABLES
  in,                   \* the StreamInPrimary objects
  pal,                  \* the PAL sessions they opened
  stream_in_list_,
  stream_in_primary_,   \* AudioVoice's reference to the last stream created
  num_va_sessions_,
  mute_,
  visit,                \* index of SetMicMute's loop, 0 outside it
  st_dev,               \* the sound trigger bridge was initialised
  registered,           \* p_ses per capture handle, Null when not in its list
  \* history
  shrunk,               \* a stream left the list while SetMicMute walked it
  misrouted,            \* streams whose last routing was refused half way
  miscounted            \* the counter lost a reader and one has read ever since

listVars == <<stream_in_list_, stream_in_primary_>>
muteVars == <<mute_, visit, shrunk>>
stVars   == <<st_dev, registered>>
countVars == <<num_va_sessions_, miscounted>>
vars == <<in, pal, listVars, muteVars, stVars, countVars, misrouted>>

\* Members of StreamInPrimary; pc is "standbyDue" in an error path, "counting"
\* or "uncounting" between the load and the store of num_va_sessions_, with
\* stream_mutex_ held; loaded is the value read.
Object == [kind : Kinds, pc : {"idle", "standbyDue", "counting", "uncounting"},
           loaded : 0..MaxVa,
           pal_stream_handle_ : Streams \cup StSessions \cup {Null},
           is_st_session : BOOLEAN, stream_started_ : BOOLEAN,
           mAndroidInDevices : Devices, mPalInDevice : Devices]

\* What PAL knows of a session.  A mute or device is "unknown" once PAL refused
\* to change it.
Session == [started : BOOLEAN, mute : BOOLEAN, muteKnown : BOOLEAN,
            device : Devices \cup {"unknown"}]

ASSUME NoneAssumption == NoSession \notin Session /\ NoStream \notin Object

-----------------------------------------------------------------------------
(* Helpers.                                                                *)

Exists(s) == in[s] # NoStream
Listed(s) == \E i \in DOMAIN stream_in_list_ : stream_in_list_[i] = s

\* in_get_stream finds listed streams only; one client is in a stream.
Callable(s) == Listed(s) /\ in[s].pc = "idle"

HasOwn(s) == Exists(s) /\ in[s].pal_stream_handle_ = s

\* audio_extn_sound_trigger_check_session_activity.
SessionActive(s) == st_dev /\ s \in LabStreams /\ registered[s] # Null

\* Sound trigger clients reading look-ahead data.
LabReaders == {s \in LabStreams : Exists(s) /\ in[s].is_st_session /\ in[s].stream_started_}

\* Another thread has stored to num_va_sessions_ since s loaded it.
Raced(s) == num_va_sessions_ # in[s].loaded

\* num_va_sessions_ becomes n; wrong: other than by one for a reader that comes
\* or goes.
Count(n, wrong) ==
  /\ num_va_sessions_' = n
  /\ miscounted' = (LabReaders' # {} /\ (miscounted \/ wrong))

NewSession(s) == [started |-> FALSE, mute |-> FALSE, muteKnown |-> TRUE,
                  device |-> in[s].mPalInDevice]

\* Open: what it may leave in the handle and in is_st_session, and whether it
\* succeeds.  A session whose buffer size is refused stays open.
Open(s) ==
  IF SessionActive(s)
  THEN {[h |-> registered[s], st |-> TRUE, ok |-> TRUE]}
  ELSE LET st == ~st_dev /\ in[s].is_st_session
       IN  {[h |-> Null, st |-> st, ok |-> FALSE], [h |-> s, st |-> st, ok |-> FALSE],
            [h |-> s, st |-> st, ok |-> TRUE]}

\* The session a handler goes on with: the one it has, or a new one.
Reach(s) ==
  IF in[s].pal_stream_handle_ # Null
  THEN {[h |-> in[s].pal_stream_handle_, st |-> in[s].is_st_session, ok |-> TRUE]}
  ELSE Open(s)

\* The stream and its PAL session after Reach.
Attached(s, r) == [in[s] EXCEPT !.pal_stream_handle_ = r.h, !.is_st_session = r.st]
SessionOf(s, r) == IF in[s].pal_stream_handle_ = Null /\ r.h = s THEN NewSession(s) ELSE pal[s]

\* pal_stream_set_mute with the cached mute on a session: done, or refused.
Muting(p) == {[p EXCEPT !.mute = mute_, !.muteKnown = TRUE], [p EXCEPT !.muteKnown = FALSE]}

\* Mutant: the destructor leaves the session to Standby.
ReleaseNothing(S) == pal

\* The destructor of the objects in S: a session of their own is closed.
Release(S) ==
  [s \in Streams |-> IF s \in S /\ HasOwn(s) /\ ~in[s].is_st_session THEN NoSession ELSE pal[s]]

-----------------------------------------------------------------------------
(* The stream list.                                                        *)

Init ==
  /\ in = [s \in Streams |-> NoStream]
  /\ pal = [s \in Streams |-> NoSession]
  /\ stream_in_list_ = <<>> /\ stream_in_primary_ = NoStream
  /\ num_va_sessions_ = 0
  /\ mute_ = FALSE /\ visit = 0
  /\ st_dev \in StDevs
  /\ registered = [s \in LabStreams |-> Null]
  /\ shrunk = FALSE /\ misrouted = {} /\ miscounted = FALSE

\* The constructor.  Without the sound trigger library it leaves is_st_session
\* as it finds it in memory.
Constructed(s, k, d) ==
  {[kind |-> k, pc |-> "idle", loaded |-> 0, pal_stream_handle_ |-> Null, is_st_session |-> st,
    stream_started_ |-> FALSE, mAndroidInDevices |-> d, mPalInDevice |-> d] :
     st \in IF st_dev THEN {SessionActive(s)} ELSE BOOLEAN}

\* CreateStreamIn: voice_ drops its reference to an older stream, which may be
\* the last one.
CreateStreamIn(s, k, d) ==
  /\ ~Exists(s)
  /\ (s \in LabStreams) = (k = "RECOGNITION")
  /\ LET dropped == {p \in Streams : p = stream_in_primary_ /\ Exists(p) /\ ~Listed(p)}
     IN  /\ \E o \in Constructed(s, k, d) :
              in' = [p \in Streams |-> IF p = s THEN o
                                       ELSE IF p \in dropped THEN NoStream ELSE in[p]]
         /\ pal' = Release(dropped)
  /\ stream_in_list_' = Append(stream_in_list_, s)
  /\ stream_in_primary_' = s
  /\ misrouted' = misrouted \ {s}
  /\ Count(num_va_sessions_, FALSE)
  /\ UNCHANGED <<muteVars, stVars>>

\* CloseStreamIn: the object lives on while voice_ refers to it.
CloseStreamIn(s) ==
  /\ Callable(s)
  /\ LET gone == {s} \ {stream_in_primary_}
     IN  /\ in' = [p \in Streams |-> IF p \in gone THEN NoStream ELSE in[p]]
         /\ pal' = Release(gone)
  /\ \E i \in DOMAIN stream_in_list_ :
       stream_in_list_[i] = s /\ stream_in_list_' = RemoveAt(stream_in_list_, i)
  /\ shrunk' = (shrunk \/ visit > 0)
  /\ Count(num_va_sessions_, FALSE)
  /\ UNCHANGED <<stream_in_primary_, mute_, visit, stVars, misrouted>>

-----------------------------------------------------------------------------
(* Standby, MMAP.                                                          *)

\* The stream is on a lent session that is registered.
Lent(s) == in[s].pal_stream_handle_ # Null /\ in[s].is_st_session /\ SessionActive(s)

\* A stream after Standby; a lent session keeps its handle.
Stopped(o, own) ==
  [o EXCEPT !.stream_started_ = FALSE,
            !.pal_stream_handle_ = IF own THEN Null ELSE o.pal_stream_handle_]

\* Standby: a session of its own is stopped and closed; a lent session that is
\* registered is uncounted first.
StandbyThen(s, pc) ==
  LET own == in[s].pal_stream_handle_ # Null /\ ~in[s].is_st_session
  IN  /\ ~Lent(s)
      /\ in' = [in EXCEPT ![s] = [Stopped(in[s], own) EXCEPT !.pc = pc]]
      /\ pal' = IF own THEN [pal EXCEPT ![s] = NoSession] ELSE pal
      /\ Count(num_va_sessions_, FALSE)
      /\ UNCHANGED <<listVars, muteVars, stVars, misrouted>>

\* A client may send a stream to standby while another thread is between the
\* two steps of an error path.
Standby(s) ==
  Listed(s) /\ in[s].pc \in {"idle", "standbyDue"} /\ StandbyThen(s, in[s].pc)

\* onReadError, and CreateMmapBuffer after PAL refused the buffer.
StandbyAfterError(s) ==
  Listed(s) /\ in[s].pc = "standbyDue" /\ StandbyThen(s, "idle")

\* Standby of a lent session: whether the stream was counted is not looked at.
\* (No error path leaves a stream with a lent session.)
StandbyLent(s) ==
  /\ Callable(s) /\ Lent(s)
  /\ in' = [in EXCEPT ![s].pc = "uncounting", ![s].loaded = num_va_sessions_]
  /\ UNCHANGED <<pal, listVars, muteVars, stVars, countVars, misrouted>>

Uncount(s) ==
  /\ Listed(s) /\ in[s].pc = "uncounting"
  /\ in' = [in EXCEPT ![s] = [Stopped(in[s], FALSE) EXCEPT !.pc = "idle", !.loaded = 0]]
  /\ IF in[s].loaded > 0
     THEN Count(in[s].loaded - 1, Raced(s) \/ ~in[s].stream_started_)
     ELSE Count(num_va_sessions_, FALSE)
  /\ UNCHANGED <<pal, listVars, muteVars, stVars, misrouted>>

\* Start and Stop of a MMAP stream, successful (they change nothing otherwise).
StartMmap(s) ==
  /\ Callable(s) /\ in[s].kind = "MMAP"
  /\ in[s].pal_stream_handle_ # Null /\ ~in[s].stream_started_
  /\ in' = [in EXCEPT ![s].stream_started_ = TRUE]
  /\ pal' = [pal EXCEPT ![s].started = TRUE]
  /\ UNCHANGED <<listVars, muteVars, stVars, countVars, misrouted>>

StopMmap(s) ==
  /\ Callable(s) /\ in[s].kind = "MMAP"
  /\ in[s].pal_stream_handle_ # Null /\ in[s].stream_started_
  /\ in' = [in EXCEPT ![s].stream_started_ = FALSE]
  /\ pal' = [pal EXCEPT ![s].started = FALSE]
  /\ UNCHANGED <<listVars, muteVars, stVars, countVars, misrouted>>

\* The stream s after an Open r that ends in an error path, or not.
GoOn(s, r, failed) ==
  /\ in' = [in EXCEPT ![s] = [Attached(s, r) EXCEPT !.pc = IF failed THEN "standbyDue" ELSE "idle"]]
  /\ pal' = [pal EXCEPT ![s] = SessionOf(s, r)]

\* CreateMmapBuffer: when PAL refuses the buffer the mutex is dropped and
\* Standby follows; when Open fails nothing does.
CreateMmapBuffer(s) ==
  /\ Callable(s) /\ in[s].kind = "MMAP" /\ in[s].pal_stream_handle_ = Null
  /\ \E r \in Open(s), refused \in BOOLEAN : GoOn(s, r, r.ok /\ refused)
  /\ UNCHANGED <<listVars, muteVars, stVars, countVars, misrouted>>

-----------------------------------------------------------------------------
(* read.                                                                   *)

Reads(s) == Callable(s) /\ in[s].kind # "MMAP"

\* Open fails.
ReadNotOpened(s) ==
  /\ Reads(s)
  /\ \E r \in Reach(s) : ~r.ok /\ GoOn(s, r, TRUE)
  /\ UNCHANGED <<listVars, muteVars, stVars, countVars, misrouted>>

\* Mutant: a lent session is counted when it is opened, not when it starts.
CountedAtOpen(s) == in[s].pal_stream_handle_ = Null

\* A lent session is counted when its stream starts.
Counted(s) == ~in[s].stream_started_

\* The stream reads from a lent session: silence unless it is registered.  A
\* failed read gives silence and changes nothing.
ReadLab(s) ==
  /\ Reads(s)
  /\ \E r \in Reach(s) :
       /\ r.ok /\ r.st
       /\ num_va_sessions_ < MaxVa \/ ~SessionActive(s) \/ ~Counted(s)
       /\ LET o == Attached(s, r)
          IN  in' = [in EXCEPT ![s] =
                IF SessionActive(s) /\ Counted(s)
                THEN [o EXCEPT !.pc = "counting", !.loaded = num_va_sessions_]
                ELSE [o EXCEPT !.stream_started_ = @ \/ SessionActive(s)]]
       /\ pal' = [pal EXCEPT ![s] = SessionOf(s, r)]
  /\ UNCHANGED <<listVars, muteVars, stVars, countVars, misrouted>>

CountReader(s) ==
  /\ Listed(s) /\ in[s].pc = "counting"
  /\ in' = [in EXCEPT ![s].pc = "idle", ![s].loaded = 0, ![s].stream_started_ = TRUE]
  /\ Count(in[s].loaded + 1, Raced(s))
  /\ UNCHANGED <<pal, listVars, muteVars, stVars, misrouted>>

\* pal_stream_start fails: the session is closed at once.
ReadNotStarted(s) ==
  /\ Reads(s) /\ ~in[s].stream_started_
  /\ \E r \in Reach(s) :
       /\ r.ok /\ ~r.st
       /\ in' = [in EXCEPT ![s] = [Attached(s, [r EXCEPT !.h = Null]) EXCEPT !.pc = "standbyDue"]]
  /\ pal' = [pal EXCEPT ![s] = NoSession]
  /\ UNCHANGED <<listVars, muteVars, stVars, countVars, misrouted>>

\* The PCM a read returns is zeroed while sessions are counted, except for
\* voice recognition (va_concurrency_mute_enabled is set).
Zeroed(s) == num_va_sessions_ > 0 /\ in[s].kind # "RECOGNITION"

\* Mutant: a session that starts is not told the cached mute.
WithoutCachedMute(s, p) == {p}

\* The session p of a read: the cached mute is applied when the stream starts.
WithCachedMute(s, p) == IF ~in[s].stream_started_ /\ mute_ THEN Muting(p) ELSE {p}

\* A stream reads from a session of its own, started first if need be.  What
\* the client gets is silence if Zeroed(s).
ReadPcm(s) ==
  /\ Reads(s)
  /\ \E r \in Reach(s), failed \in BOOLEAN :
       /\ r.ok /\ ~r.st
       /\ in' = [in EXCEPT ![s] = [Attached(s, r) EXCEPT
                   !.stream_started_ = TRUE, !.pc = IF failed THEN "standbyDue" ELSE "idle"]]
       /\ \E q \in WithCachedMute(s, [SessionOf(s, r) EXCEPT !.started = TRUE]) :
            pal' = [pal EXCEPT ![s] = q]
  /\ UNCHANGED <<countVars, listVars, muteVars, stVars, misrouted>>

-----------------------------------------------------------------------------
(* Routing, microphone mute, sound trigger.                                *)

\* Mutant: only a started session is told.
ToldWhenStarted(s, d) == IF HasOwn(s) /\ pal[s].started THEN {d, "unknown"} ELSE {pal[s].device}

\* pal_stream_set_device on a session that is open: done, or refused.
Told(s, d) == {d, "unknown"}

\* RouteStream to a device it is not on, or forced.  The device is recorded
\* whether or not PAL accepts it.
RouteStream(s, d) ==
  /\ Callable(s)
  /\ in' = [in EXCEPT ![s].mPalInDevice = d, ![s].mAndroidInDevices = d]
  /\ IF HasOwn(s) THEN \E x \in Told(s, d) : pal' = [pal EXCEPT ![s].device = x]
     ELSE UNCHANGED pal
  /\ misrouted' = misrouted \ {s}
  /\ UNCHANGED <<listVars, muteVars, stVars, countVars>>

\* RouteStream to a USB device whose capability query fails.
RouteRefused(s, d) ==
  /\ Callable(s) /\ d \in Usbs
  /\ in' = [in EXCEPT ![s].mPalInDevice = d]
  /\ misrouted' = misrouted \cup {s}
  /\ UNCHANGED <<pal, listVars, muteVars, stVars, countVars>>

\* AudioDevice::SetMicMute, called by one thread at a time: the cached value
\* first, then each stream of the list.
SetMicMute(b) ==
  /\ visit = 0 /\ visit' = 1
  /\ mute_' = b
  /\ shrunk' = FALSE
  /\ UNCHANGED <<in, pal, listVars, stVars, countVars, misrouted>>

\* StreamInPrimary::SetMicMute on the stream the loop is at.
MuteStream ==
  /\ visit \in DOMAIN stream_in_list_
  /\ visit' = visit + 1
  /\ LET s == stream_in_list_[visit]
     IN  IF HasOwn(s) THEN \E q \in Muting(pal[s]) : pal' = [pal EXCEPT ![s] = q]
         ELSE UNCHANGED pal
  /\ UNCHANGED <<in, mute_, shrunk, listVars, stVars, countVars, misrouted>>

MuteDone ==
  /\ visit > Len(stream_in_list_)
  /\ visit' = 0
  /\ UNCHANGED <<in, pal, mute_, shrunk, listVars, stVars, countVars, misrouted>>

\* audio_hw_call_back: REGISTER adds a session or replaces the one there.
Register(s, x) ==
  /\ st_dev
  /\ registered' = [registered EXCEPT ![s] = x]
  /\ UNCHANGED <<in, pal, st_dev, listVars, muteVars, countVars, misrouted>>

Deregister(s) ==
  /\ st_dev /\ registered[s] # Null
  /\ registered' = [registered EXCEPT ![s] = Null]
  /\ UNCHANGED <<in, pal, st_dev, listVars, muteVars, countVars, misrouted>>

-----------------------------------------------------------------------------
Next ==
  \/ \E s \in Streams, k \in Kinds : \E d \in DevicesOf(s) : CreateStreamIn(s, k, d)
  \/ \E s \in Streams : CloseStreamIn(s)
  \/ \E s \in Streams : Standby(s)
  \/ \E s \in Streams : StandbyAfterError(s)
  \/ \E s \in LabStreams : StandbyLent(s)
  \/ \E s \in LabStreams : Uncount(s)
  \/ \E s \in Streams : StartMmap(s)
  \/ \E s \in Streams : StopMmap(s)
  \/ \E s \in Streams : CreateMmapBuffer(s)
  \/ \E s \in Streams : ReadNotOpened(s)
  \/ \E s \in Streams : ReadLab(s)
  \/ \E s \in LabStreams : CountReader(s)
  \/ \E s \in Streams : ReadNotStarted(s)
  \/ \E s \in Streams : ReadPcm(s)
  \/ \E s \in Streams : \E d \in DevicesOf(s) : RouteStream(s, d)
  \/ \E s \in Streams : \E d \in DevicesOf(s) : RouteRefused(s, d)
  \/ \E b \in MicMutes : SetMicMute(b)
  \/ MuteStream
  \/ MuteDone
  \/ \E s \in LabStreams, x \in StSessions : Register(s, x)
  \/ \E s \in LabStreams : Deregister(s)

Spec == Init /\ [][Next]_vars

-----------------------------------------------------------------------------
(* Properties.                                                             *)

TypeOK ==
  /\ in \in [Streams -> Object \cup {NoStream}]
  /\ pal \in [Streams -> Session \cup {NoSession}]
  /\ stream_in_list_ \in Seq(Streams)
  /\ stream_in_primary_ \in Streams \cup {NoStream}
  /\ num_va_sessions_ \in 0..MaxVa
  /\ mute_ \in BOOLEAN /\ visit \in Nat
  /\ st_dev \in BOOLEAN
  /\ registered \in [LabStreams -> StSessions \cup {Null}]
  /\ shrunk \in BOOLEAN /\ misrouted \subseteq Streams /\ miscounted \in BOOLEAN

\* No capture session is lost: PAL has one open exactly for a stream object
\* whose handle names it, and of the objects that left the list only the one
\* AudioVoice still refers to exists (with the sound trigger library there:
\* without it is_st_session is not initialised).
SessionsOwned ==
  st_dev => \A s \in Streams :
    /\ pal[s] # NoSession <=> HasOwn(s)
    /\ Exists(s) => Listed(s) \/ stream_in_primary_ = s

\* stream_started_ says what PAL does: a stream on a session of its own is
\* started when the session is, and one without a session is not started.
FlagsMatchSession ==
  st_dev => \A s \in Streams :
    /\ HasOwn(s) => (in[s].stream_started_ <=> pal[s].started)
    /\ Exists(s) /\ in[s].pal_stream_handle_ = Null => ~in[s].stream_started_

\* The microphone mute reaches every capture, whether it started before, after
\* or while the mute was set: once SetMicMute is done, a started session has
\* the cached mute (unless PAL refused, or the list shrank under the loop; a
\* MMAP stream is not told the cached mute when it starts).
MuteReaches ==
  visit = 0 /\ ~shrunk =>
    \A s \in Streams :
      Listed(s) /\ HasOwn(s) /\ in[s].kind # "MMAP" /\ pal[s].started /\ pal[s].muteKnown
        => pal[s].mute = mute_

\* A session is on the device the stream recorded, unless PAL refused the
\* change or the stream's last routing failed at the capability query, which
\* has recorded the device for the next Open only.
RouteReaches ==
  \A s \in Streams :
    HasOwn(s) /\ s \notin misrouted
      => pal[s].device \in {in[s].mAndroidInDevices, "unknown"}

\* While a sound trigger client reads look-ahead data, a read of any other
\* client gives silence, as long as the counter has not lost a reader: by a
\* Standby of a stream that was not counted, or by two threads that changed it
\* at once.  The excuse ends with the last reader; without it the code lets PCM
\* through (AudioStream.cpp:4088, 4950).
LabReadMutesPcm ==
  LabReaders # {} /\ ~miscounted =>
    \A s \in Streams : Exists(s) /\ in[s].kind # "RECOGNITION" => Zeroed(s)

\* The other direction of read's comment, "mute pcm data if sva client is reading
\* lab data" (AudioStream.cpp:5017): capture is muted only while a sound trigger
\* client reads look-ahead data.
PcmMutedOnlyForLab == num_va_sessions_ > 0 => LabReaders # {}
==============================================================================
