---------------------------- MODULE StreamInProofs ----------------------------
(***************************************************************************)
(* Proofs about StreamIn, for any number of streams, sound trigger         *)
(* sessions and devices.                                                   *)
(*                                                                         *)
(* Good(s, o, p) is what a stream object o and its PAL session p have to   *)
(* be to each other.  Most handlers touch one listed stream: they are      *)
(* shown to leave a good pair (the lemmas on Reach), and OneStream lifts   *)
(* that to the whole state.  The list, the loop of SetMicMute and the      *)
(* count of look-ahead readers have an invariant each on top.              *)
(***************************************************************************)
EXTENDS StreamIn, FiniteSetTheorems, SequenceTheorems, TLAPS

\* Which sessions a stream object may name, and when it is started.
Handled(s, o) ==
  /\ o.pal_stream_handle_ \in {Null, s} \cup StSessions
  /\ o.pal_stream_handle_ \in StSessions => st_dev /\ s \in LabStreams /\ o.is_st_session
  /\ s \in LabStreams <=> o.kind = "RECOGNITION"
  /\ o.pal_stream_handle_ = Null => ~o.stream_started_
  /\ st_dev /\ o.pal_stream_handle_ = s => ~o.is_st_session
  /\ o.is_st_session /\ o.stream_started_ /\ o.kind # "MMAP" =>
       o.pal_stream_handle_ \in StSessions
  /\ o.pc \in {"counting", "uncounting"} => o.pal_stream_handle_ \in StSessions
  /\ o.pc = "counting" => o.loaded < MaxVa /\ ~o.stream_started_

\* A session of its own exists, and runs when the stream says so.  (A MMAP
\* stream with an uninitialised is_st_session stops without telling PAL.)
Paired(s, o, p) ==
  /\ o.pal_stream_handle_ = s => p \in Session
  /\ st_dev => (p # NoSession <=> o.pal_stream_handle_ = s)
  /\ o.pal_stream_handle_ = s /\ (o.kind # "MMAP" \/ ~o.is_st_session) =>
       (o.stream_started_ <=> p.started)

\* RouteReaches, and why the next Open uses the device on record.
OnRecord(s, o, p) ==
  /\ o.mPalInDevice = o.mAndroidInDevices
  /\ o.pal_stream_handle_ = s => p.device \in {o.mAndroidInDevices, "unknown"}

RoutedRight(s, o, p) == s \notin misrouted => OnRecord(s, o, p)

Good(s, o, p) ==
  /\ o \in Object /\ p \in Session \cup {NoSession}
  /\ Handled(s, o) /\ Paired(s, o, p) /\ RoutedRight(s, o, p)

\* A session has the cached mute, or is unmuted and still to be started.
MutedRight(s, o, p) ==
  o.pal_stream_handle_ = s /\ o.kind # "MMAP" /\ p.muteKnown =>
    p.mute = mute_ \/ (~p.started /\ ~p.mute)

\* The list names existing streams once; what it does not name is AudioVoice's.
ListOK ==
  /\ \A i, j \in DOMAIN stream_in_list_ : stream_in_list_[i] = stream_in_list_[j] => i = j
  /\ \A i \in DOMAIN stream_in_list_ : Exists(stream_in_list_[i])
  /\ \A s \in Streams : Exists(s) => Listed(s) \/ stream_in_primary_ = s
  /\ st_dev => \A s \in Streams : ~Exists(s) => pal[s] = NoSession

\* SetMicMute has told every stream before its loop's index.
MuteOK ==
  ~shrunk => \A i \in DOMAIN stream_in_list_ :
    visit = 0 \/ i < visit =>
      MutedRight(stream_in_list_[i], in[stream_in_list_[i]], pal[stream_in_list_[i]])

Reading(s, o) == s \in LabStreams /\ o.is_st_session /\ o.stream_started_

\* The counter has at least the readers, unless it lost one.
CountOK ==
  ~miscounted => IsFiniteSet(LabReaders) /\ Cardinality(LabReaders) <= num_va_sessions_

GoodStreams == \A s \in Streams : Exists(s) => Good(s, in[s], pal[s])

InInv == TypeOK /\ GoodStreams /\ ListOK /\ MuteOK /\ CountOK

USE DEF listVars, muteVars, stVars, countVars

-----------------------------------------------------------------------------
LEMMA InitInv == Init => InInv
<1> SUFFICES ASSUME Init PROVE InInv
  OBVIOUS
<1>1. TypeOK
  <2>1. registered \in [LabStreams -> StSessions \cup {Null}]
    BY DEF Init
  <2>2. num_va_sessions_ \in 0..MaxVa /\ st_dev \in BOOLEAN
    BY InAssumption DEF Init
  <2>3. /\ in \in [Streams -> Object \cup {NoStream}]
        /\ pal \in [Streams -> Session \cup {NoSession}]
    BY DEF Init
  <2>4. stream_in_list_ \in Seq(Streams) /\ stream_in_primary_ \in Streams \cup {NoStream}
    BY DEF Init
  <2>5. /\ mute_ \in BOOLEAN /\ visit \in Nat
        /\ shrunk \in BOOLEAN /\ misrouted \subseteq Streams /\ miscounted \in BOOLEAN
    BY DEF Init
  <2> QED
    BY <2>1, <2>2, <2>3, <2>4, <2>5 DEF TypeOK
<1>2. \A s \in Streams : ~Exists(s)
  BY DEF Init, Exists
<1>3. ListOK /\ MuteOK
  BY <1>2 DEF ListOK, MuteOK, Init
<1> QED
  <2>1. LabReaders = {} /\ num_va_sessions_ = 0
    BY <1>2, LabAssumption DEF LabReaders, Init
  <2>2. CountOK
    BY <2>1, FS_EmptySet DEF CountOK
  <2> QED
    BY <1>1, <1>2, <1>3, <2>2 DEF InInv, GoodStreams

\* What InInv says of the properties.
LEMMA InvHolds ==
  InInv => /\ SessionsOwned /\ FlagsMatchSession /\ MuteReaches /\ RouteReaches
           /\ LabReadMutesPcm
<1> SUFFICES ASSUME InInv
             PROVE  /\ SessionsOwned /\ FlagsMatchSession /\ MuteReaches /\ RouteReaches
                    /\ LabReadMutesPcm
  OBVIOUS
<1> USE NameAssumption, LabAssumption DEF InInv, GoodStreams, Good, Exists, HasOwn
<1>1. SessionsOwned
  BY DEF SessionsOwned, ListOK, Paired
<1>2. FlagsMatchSession
  BY DEF FlagsMatchSession, Paired, Handled
<1>3. MuteReaches
  BY DEF MuteReaches, MuteOK, MutedRight, Listed
<1>4. RouteReaches
  BY DEF RouteReaches, RoutedRight, OnRecord
<1>5. LabReadMutesPcm
  <2> SUFFICES ASSUME LabReaders # {}, ~miscounted PROVE num_va_sessions_ > 0
    BY DEF LabReadMutesPcm, Zeroed
  <2>1. IsFiniteSet(LabReaders) /\ Cardinality(LabReaders) <= num_va_sessions_
    BY DEF CountOK
  <2>2. Cardinality(LabReaders) \in Nat /\ Cardinality(LabReaders) # 0
    BY <2>1, FS_CardinalityType, FS_EmptySet
  <2>3. num_va_sessions_ \in 0 .. MaxVa
    BY DEF TypeOK
  <2> QED
    BY <2>1, <2>2, <2>3, InAssumption
<1> QED
  BY <1>1, <1>2, <1>3, <1>4, <1>5

\* The look-ahead readers after a handler of one stream.
LEMMA OneReader ==
  ASSUME InInv, NEW s \in Streams, Listed(s), NEW o \in Object, in' = [in EXCEPT ![s] = o]
  PROVE  LabReaders' = IF Reading(s, o) THEN LabReaders \cup {s} ELSE LabReaders \ {s}
<1>1. in \in [Streams -> Object \cup {NoStream}] /\ Exists(s)
  BY DEF InInv, TypeOK, ListOK, Listed
<1>2. /\ in'[s] = o /\ o # NoStream
      /\ \A q \in Streams : q # s => in'[q] = in[q]
  BY <1>1, NoneAssumption
<1>3. LabReaders' = {q \in LabStreams : in'[q] # NoStream /\ in'[q].is_st_session
                                        /\ in'[q].stream_started_}
  BY DEF LabReaders, Exists
<1>4. LabReaders = {q \in LabStreams : in[q] # NoStream /\ in[q].is_st_session
                                       /\ in[q].stream_started_}
  BY DEF LabReaders, Exists
<1>5. LabStreams \subseteq Streams
  BY LabAssumption
<1>6. ASSUME NEW q PROVE q \in LabReaders' <=>
        IF q = s THEN Reading(s, o) ELSE q \in LabReaders
  BY <1>2, <1>3, <1>4, <1>5 DEF Reading
<1>7. CASE Reading(s, o)
  BY <1>6, <1>7
<1>8. CASE ~Reading(s, o)
  BY <1>6, <1>8
<1> QED
  BY <1>7, <1>8

\* The count is right as long as no reader is added.
LEMMA CountKept ==
  ASSUME InInv, LabReaders' \subseteq LabReaders,
         UNCHANGED countVars \/ Count(num_va_sessions_, FALSE)
  PROVE  CountOK' /\ num_va_sessions_' \in 0..MaxVa /\ miscounted' \in BOOLEAN
<1>1. /\ num_va_sessions_' = num_va_sessions_ /\ num_va_sessions_ \in 0 .. MaxVa
      /\ miscounted' \in BOOLEAN
      /\ ~miscounted' => ~miscounted \/ LabReaders' = {}
  BY DEF Count, InInv, TypeOK
<1>2. CASE LabReaders' = {}
  BY <1>1, <1>2, FS_EmptySet, InAssumption DEF CountOK
<1>3. CASE ~miscounted
  <2>1. IsFiniteSet(LabReaders) /\ Cardinality(LabReaders) <= num_va_sessions_
    BY <1>3 DEF InInv, CountOK
  <2>2. IsFiniteSet(LabReaders') /\ Cardinality(LabReaders') <= Cardinality(LabReaders)
    BY <2>1, FS_Subset
  <2>3. Cardinality(LabReaders) \in Nat /\ Cardinality(LabReaders') \in Nat
    BY <2>1, <2>2, FS_CardinalityType
  <2> QED
    BY <1>1, <2>1, <2>2, <2>3, InAssumption DEF CountOK
<1>4. CASE miscounted'
  BY <1>1, <1>4 DEF CountOK
<1> QED
  BY <1>1, <1>2, <1>3, <1>4

\* A handler that changes one listed stream and its session, and leaves them good.
LEMMA OneStream ==
  ASSUME InInv, NEW s \in Streams, Listed(s), NEW o \in Object,
         NEW p \in Session \cup {NoSession},
         in' = [in EXCEPT ![s] = o], pal' = [pal EXCEPT ![s] = p],
         UNCHANGED <<listVars, muteVars, stVars>>,
         misrouted' \subseteq Streams, misrouted' \ {s} = misrouted \ {s},
         num_va_sessions_' \in 0..MaxVa, miscounted' \in BOOLEAN, CountOK',
         Handled(s, o), Paired(s, o, p), s \notin misrouted' => OnRecord(s, o, p),
         MutedRight(s, in[s], pal[s]) => MutedRight(s, o, p)
  PROVE  InInv'
<1> USE NameAssumption, NoneAssumption, LabAssumption DEF InInv
<1>0. Exists(s) /\ in \in [Streams -> Object \cup {NoStream}]
      /\ pal \in [Streams -> Session \cup {NoSession}]
      /\ num_va_sessions_ \in 0..MaxVa
  BY DEF ListOK, Listed, TypeOK
<1>1. /\ in'[s] = o /\ pal'[s] = p
      /\ \A q \in Streams : q # s => in'[q] = in[q] /\ pal'[q] = pal[q]
      /\ \A q \in Streams : q # s => (q \in misrouted' <=> q \in misrouted)
      /\ \A q \in Streams : Exists(q)' <=> Exists(q)
      /\ \A q \in Streams : Listed(q)' <=> Listed(q)
  BY <1>0 DEF Exists, Listed
<1>2. TypeOK'
  BY <1>0 DEF TypeOK
<1>3. GoodStreams'
  <2> SUFFICES ASSUME NEW q \in Streams, Exists(q)' PROVE Good(q, in[q], pal[q])'
    BY DEF GoodStreams
  <2>1. CASE q = s
    BY <2>1, <1>1 DEF Good, Handled, Paired, RoutedRight, OnRecord
  <2>2. CASE q # s
    <3>1. Good(q, in[q], pal[q])
      BY <1>1 DEF GoodStreams
    <3> QED
      BY <3>1, <2>2, <1>1 DEF Good, Handled, Paired, RoutedRight, OnRecord
  <2> QED
    BY <2>1, <2>2
<1>4. ListOK'
  BY <1>0, <1>1 DEF ListOK, TypeOK, Listed
<1>5. MuteOK'
  <2> SUFFICES ASSUME ~shrunk, NEW i \in DOMAIN stream_in_list_, visit = 0 \/ i < visit
               PROVE  MutedRight(stream_in_list_[i], in'[stream_in_list_[i]],
                                 pal'[stream_in_list_[i]])
    BY DEF MuteOK, MutedRight
  <2>1. MutedRight(stream_in_list_[i], in[stream_in_list_[i]], pal[stream_in_list_[i]])
    BY DEF MuteOK
  <2>2. stream_in_list_[i] \in Streams
    BY DEF TypeOK
  <2> QED
    BY <2>1, <2>2, <1>1
<1> QED
  BY <1>2, <1>3, <1>4, <1>5

-----------------------------------------------------------------------------
(* What the handlers of one stream do to its pair.                         *)

\* Nothing depends on where the handler of the stream is, once it has counted.
LEMMA PcFree ==
  ASSUME NEW s, NEW o \in Object, NEW p, NEW c \in {"idle", "standbyDue"}
  PROVE  LET q == [o EXCEPT !.pc = c]
         IN /\ q \in Object
            /\ Handled(s, o) => Handled(s, q)
            /\ Paired(s, q, p) <=> Paired(s, o, p)
            /\ RoutedRight(s, q, p) <=> RoutedRight(s, o, p)
            /\ MutedRight(s, q, p) <=> MutedRight(s, o, p)
            /\ Reading(s, q) <=> Reading(s, o)
BY DEF Object, Handled, Paired, RoutedRight, OnRecord, MutedRight, Reading

\* Open and Reach leave a good pair, started as before: a new session is not
\* muted, not started and on the device on record.
LEMMA ReachGood ==
  ASSUME InInv, NEW s \in Streams, Listed(s), NEW r \in Reach(s)
  PROVE  LET o == Attached(s, r)
             p == SessionOf(s, r)
         IN /\ o \in Object /\ p \in Session \cup {NoSession}
            /\ Handled(s, o) /\ Paired(s, o, p) /\ RoutedRight(s, o, p)
            /\ MutedRight(s, in[s], pal[s]) => MutedRight(s, o, p)
            /\ o.stream_started_ = in[s].stream_started_
            /\ o.kind = in[s].kind /\ o.pc = in[s].pc
            /\ o.is_st_session = r.st /\ o.pal_stream_handle_ = r.h
            /\ r.st /\ r.ok /\ in[s].kind # "MMAP" /\ r.h = s => ~st_dev
            /\ r.ok => r.h # Null
            /\ Reading(s, o) => Reading(s, in[s]) \/ ~in[s].stream_started_
<1> USE NameAssumption, NoneAssumption, LabAssumption
<1>1. /\ Exists(s) /\ in[s] \in Object /\ pal[s] \in Session \cup {NoSession}
      /\ Good(s, in[s], pal[s])
      /\ registered \in [LabStreams -> StSessions \cup {Null}]
  BY DEF InInv, ListOK, Listed, TypeOK, GoodStreams, Exists
<1>2. CASE in[s].pal_stream_handle_ # Null
  <2>1. r = [h |-> in[s].pal_stream_handle_, st |-> in[s].is_st_session, ok |-> TRUE]
    BY <1>2 DEF Reach
  <2>2. Attached(s, r) = in[s] /\ SessionOf(s, r) = pal[s]
    BY <1>1, <1>2, <2>1 DEF Attached, SessionOf, Object
  <2> QED
    BY <1>1, <1>2, <2>1, <2>2 DEF Good, Handled
<1>3. CASE in[s].pal_stream_handle_ = Null
  <2>1. r \in Open(s) /\ ~in[s].stream_started_
    BY <1>1, <1>3 DEF Reach, Good, Handled
  <2>2. CASE SessionActive(s)
    <3>1. /\ r = [h |-> registered[s], st |-> TRUE, ok |-> TRUE]
          /\ st_dev /\ s \in LabStreams /\ registered[s] \in StSessions
      BY <1>1, <2>1, <2>2 DEF Open, SessionActive
    <3>2. SessionOf(s, r) = pal[s]
      BY <3>1 DEF SessionOf
    <3>3. /\ Attached(s, r) \in Object
          /\ Attached(s, r).pal_stream_handle_ = registered[s]
          /\ Attached(s, r).is_st_session
          /\ Attached(s, r).kind = in[s].kind
          /\ Attached(s, r).pc = in[s].pc /\ Attached(s, r).loaded = in[s].loaded
          /\ Attached(s, r).stream_started_ = in[s].stream_started_
          /\ Attached(s, r).mPalInDevice = in[s].mPalInDevice
          /\ Attached(s, r).mAndroidInDevices = in[s].mAndroidInDevices
      BY <1>1, <3>1 DEF Attached, Object
    <3> QED
      BY <1>1, <1>3, <2>1, <3>1, <3>2, <3>3
         DEF Good, Handled, Paired, RoutedRight, OnRecord, MutedRight, Reading
  <2>3. CASE ~SessionActive(s)
    <3> DEFINE st == ~st_dev /\ in[s].is_st_session
    <3>0. st \in BOOLEAN
      OBVIOUS
    <3>1. /\ r.h \in {Null, s} /\ r.st \in BOOLEAN /\ (r.st <=> st)
          /\ r.ok \in BOOLEAN /\ (r.ok => r.h = s)
      <4>1. \/ r = [h |-> Null, st |-> st, ok |-> FALSE]
            \/ r = [h |-> s, st |-> st, ok |-> FALSE]
            \/ r = [h |-> s, st |-> st, ok |-> TRUE]
        BY <2>1, <2>3, Zenon DEF Open
      <4> HIDE DEF st
      <4>2. r.st = st
        BY <4>1
      <4>3. \/ r.h = Null /\ r.ok = FALSE
            \/ r.h = s /\ r.ok = FALSE
            \/ r.h = s /\ r.ok = TRUE
        BY <4>1
      <4>4. r.h \in {Null, s} /\ r.ok \in BOOLEAN /\ (r.ok => r.h = s)
        BY <4>3, Zenon
      <4> QED
        BY <4>2, <4>4, <3>0
    <3>2. st_dev \in BOOLEAN /\ in[s].is_st_session \in BOOLEAN /\ r.st \in BOOLEAN
      BY <1>1, <3>0, <3>1 DEF InInv, TypeOK, Object
    <3>3. /\ Attached(s, r) \in Object
          /\ Attached(s, r).pal_stream_handle_ = r.h
          /\ Attached(s, r).is_st_session = r.st
          /\ Attached(s, r).kind = in[s].kind
          /\ Attached(s, r).pc = in[s].pc /\ Attached(s, r).loaded = in[s].loaded
          /\ Attached(s, r).stream_started_ = in[s].stream_started_
          /\ Attached(s, r).mPalInDevice = in[s].mPalInDevice
          /\ Attached(s, r).mAndroidInDevices = in[s].mAndroidInDevices
      BY <1>1, <3>1, <3>2 DEF Attached, Object
    <3>4. CASE r.h = s
      <4>1. /\ SessionOf(s, r) = NewSession(s) /\ NewSession(s) \in Session
            /\ NewSession(s).device = in[s].mPalInDevice
            /\ ~NewSession(s).mute /\ ~NewSession(s).started
        BY <1>1, <1>3, <3>4 DEF SessionOf, NewSession, Session, Object
      <4> QED
        BY <1>1, <1>3, <2>1, <3>1, <3>2, <3>3, <3>4, <4>1
           DEF Good, Handled, Paired, RoutedRight, OnRecord, MutedRight, Reading
    <3>5. CASE r.h # s
      <4>1. SessionOf(s, r) = pal[s] /\ r.h = Null
        BY <3>1, <3>5 DEF SessionOf
      <4> QED
        BY <1>1, <1>3, <2>1, <3>1, <3>2, <3>3, <4>1
           DEF Good, Handled, Paired, RoutedRight, OnRecord, MutedRight, Reading
    <3> QED
      BY <3>4, <3>5
  <2> QED
    BY <2>2, <2>3
<1> QED
  BY <1>2, <1>3

-----------------------------------------------------------------------------
(* The handlers of one stream.                                             *)

\* What is known of a listed stream.
LEMMA ListedGood ==
  ASSUME InInv, NEW s \in Streams, Listed(s)
  PROVE  /\ Exists(s) /\ in[s] \in Object /\ pal[s] \in Session \cup {NoSession}
         /\ Good(s, in[s], pal[s])
         /\ in \in [Streams -> Object \cup {NoStream}]
         /\ pal \in [Streams -> Session \cup {NoSession}]
         /\ num_va_sessions_ \in 0..MaxVa /\ misrouted \subseteq Streams
BY DEF InInv, ListOK, Listed, TypeOK, GoodStreams, Exists

\* A handler of one stream that starts no look-ahead reader leaves the count right.
LEMMA NoNewReader ==
  ASSUME InInv, NEW s \in Streams, Listed(s), NEW o \in Object, in' = [in EXCEPT ![s] = o],
         Reading(s, o) => Reading(s, in[s]),
         UNCHANGED countVars \/ Count(num_va_sessions_, FALSE)
  PROVE  CountOK' /\ num_va_sessions_' \in 0..MaxVa /\ miscounted' \in BOOLEAN
<1>1. LabReaders' = IF Reading(s, o) THEN LabReaders \cup {s} ELSE LabReaders \ {s}
  BY OneReader
<1>2. Reading(s, in[s]) => s \in LabReaders
  BY ListedGood DEF Reading, LabReaders
<1>3. LabReaders' \subseteq LabReaders
  BY <1>1, <1>2
<1> QED
  BY <1>3, CountKept

\* Standby: an own session goes with its handle, a lent one is uncounted with its reader.
LEMMA StandbyInv ==
  ASSUME InInv, NEW s \in Streams, Listed(s), NEW c \in {"idle", "standbyDue"},
         in[s].pc \in {"idle", "standbyDue"}, StandbyThen(s, c)
  PROVE  InInv'
<1> USE NameAssumption, NoneAssumption, LabAssumption, InAssumption
<1> DEFINE own == in[s].pal_stream_handle_ # Null /\ ~in[s].is_st_session
           q == Stopped(in[s], own)
           o == [q EXCEPT !.pc = c]
           p == IF own THEN NoSession ELSE pal[s]
<1>1. /\ in[s] \in Object /\ pal[s] \in Session \cup {NoSession} /\ Good(s, in[s], pal[s])
      /\ in \in [Streams -> Object \cup {NoStream}]
      /\ pal \in [Streams -> Session \cup {NoSession}]
      /\ num_va_sessions_ \in 0..MaxVa /\ misrouted \subseteq Streams
  BY ListedGood
<1>2. /\ in' = [in EXCEPT ![s] = o] /\ UNCHANGED <<listVars, muteVars, stVars, misrouted>>
  BY DEF StandbyThen
<1>3. pal' = [pal EXCEPT ![s] = p]
  BY <1>1 DEF StandbyThen
<1>4. Count(num_va_sessions_, FALSE)
  BY DEF StandbyThen
<1>5. /\ q \in Object /\ ~q.stream_started_
      /\ q.pal_stream_handle_ = IF own THEN Null ELSE in[s].pal_stream_handle_
      /\ q.is_st_session = in[s].is_st_session /\ q.kind = in[s].kind
      /\ q.pc = in[s].pc
      /\ q.mPalInDevice = in[s].mPalInDevice
      /\ q.mAndroidInDevices = in[s].mAndroidInDevices
  BY <1>1 DEF Stopped, Object
<1> HIDE DEF q
<1>6. /\ Handled(s, q) /\ Paired(s, q, p) /\ RoutedRight(s, q, p) /\ ~Reading(s, q)
      /\ MutedRight(s, in[s], pal[s]) => MutedRight(s, q, p)
  BY <1>1, <1>5 DEF Good, Handled, Paired, RoutedRight, OnRecord, MutedRight, Reading
<1>7. /\ o \in Object
      /\ Handled(s, o) /\ Paired(s, o, p) /\ RoutedRight(s, o, p) /\ ~Reading(s, o)
      /\ MutedRight(s, in[s], pal[s]) => MutedRight(s, o, p)
  BY <1>5, <1>6, PcFree
<1>8. CountOK' /\ num_va_sessions_' \in 0..MaxVa /\ miscounted' \in BOOLEAN
  <2> HIDE DEF o
  <2> QED
    BY <1>2, <1>4, <1>7, NoNewReader
<1>9. s \notin misrouted' => OnRecord(s, o, p)
  BY <1>2, <1>7 DEF RoutedRight
<1>10. p \in Session \cup {NoSession}
  BY <1>1
<1> HIDE DEF o, p
<1> QED
  BY <1>1, <1>2, <1>3, <1>7, <1>9, <1>10, <1>8, OneStream

\* Start and Stop of a MMAP stream.
LEMMA MmapInv ==
  ASSUME InInv, NEW s \in Streams, StartMmap(s) \/ StopMmap(s)
  PROVE  InInv'
<1> USE NameAssumption, NoneAssumption, LabAssumption, InAssumption
<1>0. PICK b \in BOOLEAN :
        /\ Listed(s) /\ in[s].kind = "MMAP" /\ in[s].pal_stream_handle_ # Null
        /\ in[s].pc = "idle"
        /\ in' = [in EXCEPT ![s].stream_started_ = b]
        /\ pal' = [pal EXCEPT ![s].started = b]
        /\ UNCHANGED <<listVars, muteVars, stVars, countVars, misrouted>>
  BY DEF StartMmap, StopMmap, Callable
<1> DEFINE o == [in[s] EXCEPT !.stream_started_ = b]
           p == [pal[s] EXCEPT !.started = b]
<1>1. /\ in[s] \in Object /\ Good(s, in[s], pal[s])
      /\ num_va_sessions_ \in 0..MaxVa /\ misrouted \subseteq Streams
  BY <1>0, ListedGood
<1>2. in[s].pal_stream_handle_ = s /\ pal[s] \in Session /\ s \notin LabStreams
  BY <1>0, <1>1 DEF Good, Handled, Paired
<1>3. in' = [in EXCEPT ![s] = o] /\ pal' = [pal EXCEPT ![s] = p]
  BY <1>0
<1>4. /\ o \in Object /\ p \in Session
      /\ o.stream_started_ = b /\ p.started = b
      /\ o.pal_stream_handle_ = s /\ o.kind = "MMAP"
      /\ o.is_st_session = in[s].is_st_session /\ o.pc = "idle"
      /\ o.mPalInDevice = in[s].mPalInDevice
      /\ o.mAndroidInDevices = in[s].mAndroidInDevices
      /\ p.device = pal[s].device
  BY <1>0, <1>1, <1>2 DEF Object, Session
<1> HIDE DEF o, p
<1>5. /\ Handled(s, o) /\ Paired(s, o, p) /\ RoutedRight(s, o, p) /\ ~Reading(s, o)
      /\ MutedRight(s, o, p)
  BY <1>1, <1>2, <1>4 DEF Good, Handled, Paired, RoutedRight, OnRecord, MutedRight, Reading
<1>6. s \notin misrouted' => OnRecord(s, o, p)
  BY <1>0, <1>5 DEF RoutedRight
<1>7. CountOK' /\ num_va_sessions_' \in 0..MaxVa /\ miscounted' \in BOOLEAN
  BY <1>0, <1>3, <1>4, <1>5, NoNewReader
<1> QED
  BY <1>0, <1>1, <1>2, <1>3, <1>4, <1>5, <1>6, <1>7, OneStream

\* GoOn after Open: the read that does not open, and CreateMmapBuffer.
LEMMA GoOnInv ==
  ASSUME InInv, NEW s \in Streams, Listed(s), NEW r \in Reach(s), NEW failed \in BOOLEAN,
         GoOn(s, r, failed),
         in[s].kind = "MMAP" \/ ~r.ok,
         UNCHANGED <<listVars, muteVars, stVars, countVars, misrouted>>
  PROVE  InInv'
<1> USE NameAssumption, NoneAssumption, LabAssumption, InAssumption
<1> DEFINE q == Attached(s, r)
           o == [q EXCEPT !.pc = IF failed THEN "standbyDue" ELSE "idle"]
           p == SessionOf(s, r)
<1>1. /\ q \in Object /\ p \in Session \cup {NoSession}
      /\ Handled(s, q) /\ Paired(s, q, p) /\ RoutedRight(s, q, p)
      /\ MutedRight(s, in[s], pal[s]) => MutedRight(s, q, p)
      /\ Reading(s, q) => Reading(s, in[s]) \/ ~in[s].stream_started_
      /\ q.stream_started_ = in[s].stream_started_
  BY ReachGood
<1>2. in' = [in EXCEPT ![s] = o] /\ pal' = [pal EXCEPT ![s] = p]
  BY DEF GoOn
<1> HIDE DEF q, p
<1>3. /\ o \in Object /\ Handled(s, o) /\ Paired(s, o, p) /\ RoutedRight(s, o, p)
      /\ MutedRight(s, in[s], pal[s]) => MutedRight(s, o, p)
      /\ Reading(s, o) => Reading(s, q)
  BY <1>1, PcFree
<1>4. s \notin misrouted' => OnRecord(s, o, p)
  BY <1>3 DEF RoutedRight
<1>5. misrouted \subseteq Streams
  BY ListedGood
<1> HIDE DEF o
<1>6. CountOK' /\ num_va_sessions_' \in 0..MaxVa /\ miscounted' \in BOOLEAN
  BY <1>1, <1>2, <1>3, NoNewReader DEF Reading
<1> QED
  BY <1>1, <1>2, <1>3, <1>4, <1>5, <1>6, OneStream

\* A read from a lent session counts its reader next, or changes nothing but the handle.
LEMMA ReadLabInv ==
  ASSUME InInv, NEW s \in Streams, ReadLab(s)
  PROVE  InInv'
<1> USE NameAssumption, NoneAssumption, LabAssumption, InAssumption
<1> DEFINE active == SessionActive(s)
           counts == active /\ Counted(s)
<1>0. PICK r \in Reach(s) :
        /\ r.ok /\ r.st
        /\ num_va_sessions_ < MaxVa \/ ~active \/ ~Counted(s)
        /\ in' = [in EXCEPT ![s] =
             IF counts
             THEN [Attached(s, r) EXCEPT !.pc = "counting", !.loaded = num_va_sessions_]
             ELSE [Attached(s, r) EXCEPT !.stream_started_ = @ \/ active]]
        /\ pal' = [pal EXCEPT ![s] = SessionOf(s, r)]
  BY Zenon DEF ReadLab
<1> DEFINE q == Attached(s, r)
           o == IF counts THEN [q EXCEPT !.pc = "counting", !.loaded = num_va_sessions_]
                ELSE [q EXCEPT !.stream_started_ = @ \/ active]
           p == SessionOf(s, r)
<1>1. /\ Listed(s) /\ in[s].kind # "MMAP" /\ in[s].pc = "idle"
      /\ UNCHANGED <<listVars, muteVars, stVars, countVars, misrouted>>
  BY DEF ReadLab, Reads, Callable
<1>2. /\ in[s] \in Object /\ Good(s, in[s], pal[s])
      /\ num_va_sessions_ \in 0..MaxVa /\ misrouted \subseteq Streams
  BY <1>1, ListedGood
<1>3. /\ q \in Object /\ p \in Session \cup {NoSession}
      /\ Handled(s, q) /\ Paired(s, q, p) /\ RoutedRight(s, q, p)
      /\ MutedRight(s, in[s], pal[s]) => MutedRight(s, q, p)
      /\ q.stream_started_ = in[s].stream_started_ /\ q.kind = in[s].kind
      /\ q.is_st_session = r.st /\ q.pal_stream_handle_ = r.h /\ q.pc = in[s].pc
      /\ r.st /\ r.ok /\ in[s].kind # "MMAP" /\ r.h = s => ~st_dev
      /\ r.ok => r.h # Null
      /\ Reading(s, q) => Reading(s, in[s]) \/ ~in[s].stream_started_
  BY <1>1, ReachGood
<1>4. in' = [in EXCEPT ![s] = o] /\ pal' = [pal EXCEPT ![s] = p]
  BY <1>0
<1>5. active \in BOOLEAN /\ (active => st_dev)
  BY DEF SessionActive
<1>6. ~counts => o.stream_started_ = q.stream_started_
  <2>1. q.stream_started_ \in BOOLEAN
    BY <1>3 DEF Object
  <2>2. ~counts => (q.stream_started_ \/ active <=> q.stream_started_)
    BY <1>3 DEF Counted
  <2> HIDE DEF q, active, counts
  <2>3. ~counts => o.stream_started_ = (q.stream_started_ \/ active)
    BY <1>3, <1>5 DEF Object
  <2> QED
    BY <2>1, <2>2, <2>3
<1> HIDE DEF q, p, active
<1>7. /\ o \in Object
      /\ o.pal_stream_handle_ = q.pal_stream_handle_ /\ o.kind = q.kind
      /\ o.is_st_session = q.is_st_session
      /\ o.mPalInDevice = q.mPalInDevice /\ o.mAndroidInDevices = q.mAndroidInDevices
      /\ counts => /\ o.pc = "counting" /\ o.loaded = num_va_sessions_
                   /\ o.stream_started_ = q.stream_started_
      /\ ~counts => o.pc = "idle"
  BY <1>1, <1>2, <1>3, <1>5 DEF Object
<1>8. counts => num_va_sessions_ < MaxVa /\ ~in[s].stream_started_ /\ r.h \in StSessions
  BY <1>0, <1>1, <1>3, <1>5 DEF Counted, Handled
<1> HIDE DEF o, counts
<1>9. o.stream_started_ = q.stream_started_
  BY <1>6, <1>7
<1>10. /\ Handled(s, o) /\ Paired(s, o, p) /\ RoutedRight(s, o, p)
       /\ MutedRight(s, in[s], pal[s]) => MutedRight(s, o, p)
       /\ Reading(s, o) <=> Reading(s, q)
  BY <1>3, <1>7, <1>8, <1>9 DEF Handled, Paired, RoutedRight, OnRecord, MutedRight, Reading
<1>11. s \notin misrouted' => OnRecord(s, o, p)
  BY <1>1, <1>10 DEF RoutedRight
<1>12. CountOK' /\ num_va_sessions_' \in 0..MaxVa /\ miscounted' \in BOOLEAN
  BY <1>1, <1>3, <1>4, <1>7, <1>10, NoNewReader DEF Reading
<1> QED
  BY <1>1, <1>2, <1>3, <1>4, <1>7, <1>10, <1>11, <1>12, OneStream

\* A step between the load and the store of the counter leaves the stream's
\* handle, session and device alone.
LEMMA SameHandle ==
  ASSUME InInv, NEW s \in Streams, Listed(s), NEW o \in Object,
         in' = [in EXCEPT ![s] = o],
         UNCHANGED <<pal, listVars, muteVars, stVars, misrouted>>,
         in[s].pal_stream_handle_ \in StSessions,
         \A f \in {"kind", "pal_stream_handle_", "is_st_session", "mAndroidInDevices",
                   "mPalInDevice"} : o[f] = in[s][f],
         o.pc = "counting" => o.loaded < MaxVa /\ ~o.stream_started_,
         CountOK', num_va_sessions_' \in 0..MaxVa, miscounted' \in BOOLEAN
  PROVE  InInv'
<1> USE NameAssumption, NoneAssumption, LabAssumption, InAssumption
<1>1. /\ in[s] \in Object /\ pal[s] \in Session \cup {NoSession} /\ Good(s, in[s], pal[s])
      /\ pal \in [Streams -> Session \cup {NoSession}] /\ misrouted \subseteq Streams
  BY ListedGood
<1>2. /\ o.kind = in[s].kind /\ o.pal_stream_handle_ = in[s].pal_stream_handle_
      /\ o.is_st_session = in[s].is_st_session
      /\ o.mAndroidInDevices = in[s].mAndroidInDevices /\ o.mPalInDevice = in[s].mPalInDevice
  OBVIOUS
<1>3. /\ Handled(s, o) /\ Paired(s, o, pal[s]) /\ RoutedRight(s, o, pal[s])
      /\ MutedRight(s, in[s], pal[s]) => MutedRight(s, o, pal[s])
  BY <1>1, <1>2 DEF Good, Handled, Paired, RoutedRight, OnRecord, MutedRight
<1>4. pal' = [pal EXCEPT ![s] = pal[s]]
  BY <1>1
<1>5. s \notin misrouted' => OnRecord(s, o, pal[s])
  BY <1>3 DEF RoutedRight
<1> QED
  BY <1>1, <1>3, <1>4, <1>5, OneStream

\* Standby of a lent session, up to its load of the counter.
LEMMA StandbyLentInv ==
  ASSUME InInv, NEW s \in Streams, StandbyLent(s)
  PROVE  InInv'
<1> USE NameAssumption, NoneAssumption, LabAssumption, InAssumption
<1> DEFINE o == [in[s] EXCEPT !.pc = "uncounting", !.loaded = num_va_sessions_]
<1>1. /\ Listed(s) /\ Lent(s)
      /\ UNCHANGED <<pal, listVars, muteVars, stVars, countVars, misrouted>>
  BY DEF StandbyLent, Callable
<1>2. /\ in[s] \in Object /\ Good(s, in[s], pal[s]) /\ num_va_sessions_ \in 0..MaxVa
      /\ in \in [Streams -> Object \cup {NoStream}]
  BY <1>1, ListedGood
<1>3. in[s].pal_stream_handle_ \in StSessions
  BY <1>1, <1>2 DEF Lent, SessionActive, Good, Handled
<1>4. in' = [in EXCEPT ![s] = o]
  BY <1>2 DEF StandbyLent
<1>5. /\ o \in Object /\ o.pc = "uncounting" /\ o.stream_started_ = in[s].stream_started_
      /\ \A f \in {"kind", "pal_stream_handle_", "is_st_session", "mAndroidInDevices",
                   "mPalInDevice"} : o[f] = in[s][f]
  BY <1>2 DEF Object
<1> HIDE DEF o
<1>6. Reading(s, o) => Reading(s, in[s])
  BY <1>5 DEF Reading
<1>7. CountOK' /\ num_va_sessions_' \in 0..MaxVa /\ miscounted' \in BOOLEAN
  BY <1>1, <1>4, <1>5, <1>6, NoNewReader
<1> QED
  BY <1>1, <1>3, <1>4, <1>5, <1>7, SameHandle

\* The store that counts a reader: the counter grows with the readers, or
\* another thread stored first.
LEMMA CountReaderInv ==
  ASSUME InInv, NEW s \in Streams, CountReader(s)
  PROVE  InInv'
<1> USE NameAssumption, NoneAssumption, LabAssumption, InAssumption
<1> DEFINE o == [in[s] EXCEPT !.pc = "idle", !.loaded = 0, !.stream_started_ = TRUE]
<1>1. /\ Listed(s) /\ in[s].pc = "counting"
      /\ Count(in[s].loaded + 1, Raced(s))
      /\ UNCHANGED <<pal, listVars, muteVars, stVars, misrouted>>
  BY DEF CountReader
<1>2. /\ in[s] \in Object /\ Good(s, in[s], pal[s]) /\ num_va_sessions_ \in 0..MaxVa
      /\ in \in [Streams -> Object \cup {NoStream}]
  BY <1>1, ListedGood
<1>3. /\ in[s].pal_stream_handle_ \in StSessions /\ s \in LabStreams
      /\ in[s].is_st_session /\ in[s].loaded < MaxVa /\ ~in[s].stream_started_
      /\ in[s].loaded \in 0..MaxVa
  BY <1>1, <1>2 DEF Good, Handled, Object
<1>4. 0 \in 0..MaxVa
  OBVIOUS
<1>5. in' = [in EXCEPT ![s] = o]
  BY <1>2 DEF CountReader
<1>6. /\ o \in Object /\ o.pc = "idle" /\ o.stream_started_
      /\ \A f \in {"kind", "pal_stream_handle_", "is_st_session", "mAndroidInDevices",
                   "mPalInDevice"} : o[f] = in[s][f]
  BY <1>2, <1>4 DEF Object
<1> HIDE DEF o
<1>7. LabReaders' = LabReaders \cup {s}
  <2>1. Reading(s, o)
    BY <1>3, <1>6 DEF Reading
  <2> QED
    BY <2>1, <1>1, <1>5, <1>6, OneReader
<1>8. /\ num_va_sessions_' = in[s].loaded + 1 /\ num_va_sessions_' \in 0..MaxVa
      /\ miscounted' \in BOOLEAN
      /\ ~miscounted' => ~miscounted /\ num_va_sessions_ = in[s].loaded
  <2>1. num_va_sessions_' = in[s].loaded + 1
    BY <1>1 DEF Count
  <2>2. miscounted' = (LabReaders' # {} /\ (miscounted \/ Raced(s)))
    BY <1>1 DEF Count
  <2>3. LabReaders' # {}
    BY <1>7
  <2>4. num_va_sessions_' \in 0..MaxVa
    BY <2>1, <1>3
  <2>5. miscounted' \in BOOLEAN /\ (~miscounted' => ~miscounted /\ ~Raced(s))
    BY <2>2, <2>3, Zenon
  <2> QED
    BY <2>1, <2>4, <2>5 DEF Raced
<1>9. CountOK'
  <2> SUFFICES ASSUME ~miscounted'
               PROVE  /\ IsFiniteSet(LabReaders')
                      /\ Cardinality(LabReaders') <= num_va_sessions_'
    BY DEF CountOK
  <2>1. IsFiniteSet(LabReaders) /\ Cardinality(LabReaders) <= num_va_sessions_
    BY <1>8 DEF InInv, CountOK
  <2>2. /\ IsFiniteSet(LabReaders') /\ Cardinality(LabReaders) \in Nat
        /\ Cardinality(LabReaders') \in {Cardinality(LabReaders), Cardinality(LabReaders) + 1}
    BY <2>1, <1>7, FS_AddElement, FS_CardinalityType
  <2> QED
    BY <2>1, <2>2, <1>2, <1>8
<1> QED
  BY <1>1, <1>3, <1>5, <1>6, <1>8, <1>9, SameHandle

\* The store of a Standby: the counter shrinks with the readers, or the stream
\* was none, or another thread stored first.
LEMMA UncountInv ==
  ASSUME InInv, NEW s \in Streams, Uncount(s)
  PROVE  InInv'
<1> USE NameAssumption, NoneAssumption, LabAssumption, InAssumption
<1> DEFINE o == [Stopped(in[s], FALSE) EXCEPT !.pc = "idle", !.loaded = 0]
<1>1. /\ Listed(s) /\ in[s].pc = "uncounting"
      /\ IF in[s].loaded > 0
         THEN Count(in[s].loaded - 1, Raced(s) \/ ~in[s].stream_started_)
         ELSE Count(num_va_sessions_, FALSE)
      /\ UNCHANGED <<pal, listVars, muteVars, stVars, misrouted>>
  BY DEF Uncount
<1>2. /\ in[s] \in Object /\ Good(s, in[s], pal[s]) /\ num_va_sessions_ \in 0..MaxVa
      /\ in \in [Streams -> Object \cup {NoStream}]
  BY <1>1, ListedGood
<1>3. /\ in[s].pal_stream_handle_ \in StSessions /\ s \in LabStreams
      /\ in[s].is_st_session /\ in[s].loaded \in 0..MaxVa
  BY <1>1, <1>2 DEF Good, Handled, Object
<1>4. 0 \in 0..MaxVa
  OBVIOUS
<1>5. in' = [in EXCEPT ![s] = o]
  BY <1>2 DEF Uncount
<1>6. /\ o \in Object /\ o.pc = "idle" /\ ~o.stream_started_
      /\ \A f \in {"kind", "pal_stream_handle_", "is_st_session", "mAndroidInDevices",
                   "mPalInDevice"} : o[f] = in[s][f]
  BY <1>2, <1>4 DEF Object, Stopped
<1> HIDE DEF o
<1>7. ~Reading(s, o) /\ LabReaders' = LabReaders \ {s}
  <2>1. ~Reading(s, o)
    BY <1>6 DEF Reading
  <2> QED
    BY <2>1, <1>1, <1>5, <1>6, OneReader
<1>8. CountOK' /\ num_va_sessions_' \in 0..MaxVa /\ miscounted' \in BOOLEAN
  <2>1. CASE in[s].loaded > 0
    <3>1. /\ num_va_sessions_' = in[s].loaded - 1 /\ num_va_sessions_' \in 0..MaxVa
          /\ miscounted' \in BOOLEAN
          /\ ~miscounted' => \/ LabReaders' = {}
                             \/ /\ ~miscounted /\ num_va_sessions_ = in[s].loaded
                                /\ in[s].stream_started_
      <4>1. num_va_sessions_' = in[s].loaded - 1
        BY <1>1, <2>1 DEF Count
      <4>2. miscounted' = (LabReaders' # {} /\ (miscounted \/ Raced(s) \/ ~in[s].stream_started_))
        BY <1>1, <2>1, Zenon DEF Count
      <4>3. num_va_sessions_' \in 0..MaxVa
        BY <4>1, <2>1, <1>3
      <4>4. /\ miscounted' \in BOOLEAN
            /\ ~miscounted' => \/ LabReaders' = {}
                               \/ ~miscounted /\ ~Raced(s) /\ in[s].stream_started_
        BY <4>2, Zenon
      <4> QED
        BY <4>1, <4>3, <4>4 DEF Raced
    <3>2. CASE LabReaders' = {}
      BY <3>1, <3>2, FS_EmptySet DEF CountOK
    <3>3. CASE miscounted'
      BY <3>1, <3>3 DEF CountOK
    <3>4. CASE ~miscounted' /\ LabReaders' # {}
      <4>1. s \in LabReaders
        BY <3>1, <3>4, <1>1, <1>3, ListedGood DEF LabReaders
      <4>2. IsFiniteSet(LabReaders) /\ Cardinality(LabReaders) <= num_va_sessions_
        BY <3>1, <3>4 DEF InInv, CountOK
      <4>3. /\ IsFiniteSet(LabReaders') /\ Cardinality(LabReaders) \in Nat
            /\ Cardinality(LabReaders') = Cardinality(LabReaders) - 1
        BY <4>1, <4>2, <1>7, FS_RemoveElement, FS_CardinalityType
      <4> QED
        BY <4>2, <4>3, <3>1, <3>4, <1>2 DEF CountOK
    <3> QED
      BY <3>1, <3>2, <3>3, <3>4
  <2>2. CASE ~(in[s].loaded > 0)
    BY <2>2, <1>1, <1>5, <1>6, <1>7, NoNewReader
  <2> QED
    BY <2>1, <2>2
<1> QED
  BY <1>1, <1>3, <1>5, <1>6, <1>8, SameHandle

\* A failed start closes the session of the stream.
LEMMA ReadNotStartedInv ==
  ASSUME InInv, NEW s \in Streams, ReadNotStarted(s)
  PROVE  InInv'
<1> USE NameAssumption, NoneAssumption, LabAssumption, InAssumption
<1>0. PICK r \in Reach(s) :
        /\ r.ok /\ ~r.st
        /\ in' = [in EXCEPT ![s] =
                    [Attached(s, [r EXCEPT !.h = Null]) EXCEPT !.pc = "standbyDue"]]
  BY DEF ReadNotStarted
<1> DEFINE c == [r EXCEPT !.h = Null]
           q == Attached(s, c)
           o == [q EXCEPT !.pc = "standbyDue"]
<1>1. /\ Listed(s) /\ ~in[s].stream_started_ /\ in[s].pc = "idle"
      /\ pal' = [pal EXCEPT ![s] = NoSession]
      /\ UNCHANGED <<listVars, muteVars, stVars, countVars, misrouted>>
  BY DEF ReadNotStarted, Reads, Callable
<1>2. /\ in[s] \in Object /\ Good(s, in[s], pal[s])
      /\ num_va_sessions_ \in 0..MaxVa /\ misrouted \subseteq Streams
  BY <1>1, ListedGood
<1>3. r.st \in BOOLEAN
  <2>1. Attached(s, r) \in Object /\ Attached(s, r).is_st_session = r.st
    BY <1>1, ReachGood
  <2> QED
    BY <2>1 DEF Object
<1>4. c.h = Null /\ c.st = r.st
  <2>1. r = [h |-> r.h, st |-> r.st, ok |-> r.ok]
    BY DEF Reach, Open
  <2> QED
    BY <2>1
<1> HIDE DEF c
<1>5. /\ q \in Object /\ q.pal_stream_handle_ = Null /\ q.is_st_session = r.st
      /\ q.pc = "idle"
      /\ q.kind = in[s].kind /\ q.stream_started_ = in[s].stream_started_
      /\ q.mPalInDevice = in[s].mPalInDevice
      /\ q.mAndroidInDevices = in[s].mAndroidInDevices
  BY <1>1, <1>2, <1>3, <1>4 DEF Attached, Object
<1> HIDE DEF q
<1>6. /\ Handled(s, q) /\ Paired(s, q, NoSession) /\ RoutedRight(s, q, NoSession)
      /\ MutedRight(s, q, NoSession) /\ ~Reading(s, q)
  BY <1>0, <1>1, <1>2, <1>5
     DEF Good, Handled, Paired, RoutedRight, OnRecord, MutedRight, Reading
<1>7. /\ o \in Object /\ Handled(s, o) /\ Paired(s, o, NoSession)
      /\ RoutedRight(s, o, NoSession) /\ MutedRight(s, o, NoSession) /\ ~Reading(s, o)
  BY <1>5, <1>6, PcFree
<1>8. s \notin misrouted' => OnRecord(s, o, NoSession)
  BY <1>1, <1>7 DEF RoutedRight
<1>9. in' = [in EXCEPT ![s] = o]
  BY <1>0 DEF q, c
<1> HIDE DEF o
<1>10. CountOK' /\ num_va_sessions_' \in 0..MaxVa /\ miscounted' \in BOOLEAN
  BY <1>1, <1>7, <1>9, NoNewReader
<1> QED
  BY <1>1, <1>2, <1>7, <1>8, <1>9, <1>10, OneStream

\* A session that starts has the cached mute, or PAL refused it.
LEMMA ReadPcmInv ==
  ASSUME InInv, NEW s \in Streams, ReadPcm(s)
  PROVE  InInv'
<1> USE NameAssumption, NoneAssumption, LabAssumption, InAssumption
<1>0. PICK r \in Reach(s), failed \in BOOLEAN :
        /\ r.ok /\ ~r.st
        /\ in' = [in EXCEPT ![s] = [Attached(s, r) EXCEPT
                    !.stream_started_ = TRUE, !.pc = IF failed THEN "standbyDue" ELSE "idle"]]
        /\ \E x \in WithCachedMute(s, [SessionOf(s, r) EXCEPT !.started = TRUE]) :
             pal' = [pal EXCEPT ![s] = x]
  BY Zenon DEF ReadPcm
<1> DEFINE q == Attached(s, r)
           o == [q EXCEPT !.stream_started_ = TRUE,
                          !.pc = IF failed THEN "standbyDue" ELSE "idle"]
           p == SessionOf(s, r)
           p1 == [p EXCEPT !.started = TRUE]
<1>1. /\ Listed(s) /\ in[s].kind # "MMAP"
      /\ UNCHANGED <<listVars, muteVars, stVars, countVars, misrouted>>
  BY DEF ReadPcm, Reads, Callable
<1>2. /\ in[s] \in Object /\ Good(s, in[s], pal[s])
      /\ num_va_sessions_ \in 0..MaxVa /\ misrouted \subseteq Streams
      /\ mute_ \in BOOLEAN
  BY <1>1, ListedGood DEF InInv, TypeOK
<1>3. /\ q \in Object /\ p \in Session \cup {NoSession}
      /\ Handled(s, q) /\ Paired(s, q, p) /\ RoutedRight(s, q, p)
      /\ MutedRight(s, in[s], pal[s]) => MutedRight(s, q, p)
      /\ q.stream_started_ = in[s].stream_started_ /\ q.kind = in[s].kind
      /\ q.is_st_session = r.st /\ q.pal_stream_handle_ = r.h
      /\ r.ok => r.h # Null
  BY <1>1, ReachGood
<1>4. PICK x \in WithCachedMute(s, p1) : pal' = [pal EXCEPT ![s] = x]
  BY <1>0
<1>5. in' = [in EXCEPT ![s] = o]
  BY <1>0
<1> HIDE DEF q, p
<1>6. /\ o \in Object /\ o.stream_started_ /\ o.pc \in {"idle", "standbyDue"}
      /\ o.pal_stream_handle_ = q.pal_stream_handle_ /\ o.kind = q.kind
      /\ o.is_st_session = q.is_st_session
      /\ o.mPalInDevice = q.mPalInDevice /\ o.mAndroidInDevices = q.mAndroidInDevices
  BY <1>3 DEF Object
<1> HIDE DEF o
<1>7. q.pal_stream_handle_ = s /\ p \in Session
  BY <1>0, <1>3 DEF Handled, Paired
<1>8. /\ p1 \in Session /\ p1.started /\ p1.device = p.device
      /\ p1.mute = p.mute /\ p1.muteKnown = p.muteKnown
  BY <1>7 DEF Session
<1> HIDE DEF p1
<1>9. /\ x \in Session /\ x.started /\ x.device = p.device
      /\ MutedRight(s, in[s], pal[s]) => (x.muteKnown => x.mute = mute_)
  <2>1. CASE ~in[s].stream_started_ /\ mute_
    <3>1. \/ x = [p1 EXCEPT !.mute = mute_, !.muteKnown = TRUE]
          \/ x = [p1 EXCEPT !.muteKnown = FALSE]
      BY <1>4, <2>1 DEF WithCachedMute, Muting
    <3> QED
      BY <3>1, <1>2, <1>8 DEF Session
  <2>2. CASE ~(~in[s].stream_started_ /\ mute_)
    <3>1. x = p1
      BY <1>4, <2>2 DEF WithCachedMute
    <3>2. q.stream_started_ <=> p.started
      BY <1>0, <1>3, <1>7 DEF Paired
    <3>3. p.mute \in BOOLEAN
      BY <1>7 DEF Session
    <3> QED
      BY <1>1, <1>2, <1>3, <1>7, <1>8, <2>2, <3>1, <3>2, <3>3 DEF MutedRight
  <2> QED
    BY <2>1, <2>2
<1>10. /\ Handled(s, o) /\ Paired(s, o, x) /\ RoutedRight(s, o, x) /\ ~Reading(s, o)
       /\ MutedRight(s, in[s], pal[s]) => MutedRight(s, o, x)
  BY <1>0, <1>3, <1>6, <1>7, <1>9
     DEF Handled, Paired, RoutedRight, OnRecord, MutedRight, Reading
<1>11. s \notin misrouted' => OnRecord(s, o, x)
  BY <1>1, <1>10 DEF RoutedRight
<1>12. CountOK' /\ num_va_sessions_' \in 0..MaxVa /\ miscounted' \in BOOLEAN
  BY <1>1, <1>5, <1>6, <1>10, NoNewReader
<1> QED
  BY <1>1, <1>2, <1>4, <1>5, <1>6, <1>9, <1>10, <1>11, <1>12, OneStream

\* Routing records the device and tells the session.
LEMMA RouteStreamInv ==
  ASSUME InInv, NEW s \in Streams, NEW d \in Devices, RouteStream(s, d)
  PROVE  InInv'
<1> USE NameAssumption, NoneAssumption, LabAssumption, InAssumption
<1> DEFINE o == [in[s] EXCEPT !.mPalInDevice = d, !.mAndroidInDevices = d]
<1>1. /\ Listed(s) /\ in' = [in EXCEPT ![s] = o]
      /\ UNCHANGED <<listVars, muteVars, stVars, countVars>>
      /\ misrouted' = misrouted \ {s}
  <2>1. in' = [in EXCEPT ![s].mPalInDevice = d, ![s].mAndroidInDevices = d]
    BY DEF RouteStream
  <2>2. Listed(s)
    BY DEF RouteStream, Callable
  <2>3. in' = [in EXCEPT ![s] = o]
    BY <2>1, <2>2, ListedGood
  <2> QED
    BY <2>2, <2>3 DEF RouteStream
<1>2. /\ in[s] \in Object /\ pal[s] \in Session \cup {NoSession} /\ Good(s, in[s], pal[s])
      /\ num_va_sessions_ \in 0..MaxVa /\ misrouted \subseteq Streams
      /\ Exists(s) /\ pal \in [Streams -> Session \cup {NoSession}]
  BY <1>1, ListedGood
<1>3. /\ o \in Object /\ o.mPalInDevice = d /\ o.mAndroidInDevices = d
      /\ o.pal_stream_handle_ = in[s].pal_stream_handle_ /\ o.kind = in[s].kind
      /\ o.is_st_session = in[s].is_st_session
      /\ o.stream_started_ = in[s].stream_started_ /\ o.pc = in[s].pc
      /\ o.loaded = in[s].loaded
  BY <1>2 DEF Object
<1> HIDE DEF o
<1>4. PICK p \in Session \cup {NoSession} :
        /\ pal' = [pal EXCEPT ![s] = p]
        /\ in[s].pal_stream_handle_ = s =>
             /\ p \in Session /\ p.device \in {d, "unknown"}
             /\ p.started = pal[s].started /\ p.mute = pal[s].mute
             /\ p.muteKnown = pal[s].muteKnown
        /\ in[s].pal_stream_handle_ # s => p = pal[s]
  <2>1. CASE HasOwn(s)
    <3>1. PICK x \in {d, "unknown"} : pal' = [pal EXCEPT ![s].device = x]
      BY <2>1 DEF RouteStream, Told
    <3>2. pal[s] \in Session /\ in[s].pal_stream_handle_ = s
      BY <2>1, <1>2 DEF HasOwn, Good, Paired
    <3> DEFINE p == [pal[s] EXCEPT !.device = x]
    <3>3. /\ p \in Session /\ p.device = x /\ p.started = pal[s].started
          /\ p.mute = pal[s].mute /\ p.muteKnown = pal[s].muteKnown
      BY <3>2 DEF Session
    <3>4. pal' = [pal EXCEPT ![s] = p]
      BY <3>1
    <3> QED
      BY <3>2, <3>3, <3>4
  <2>2. CASE ~HasOwn(s)
    <3>1. pal' = [pal EXCEPT ![s] = pal[s]]
      BY <2>2, <1>2 DEF RouteStream
    <3> QED
      BY <2>2, <3>1, <1>2 DEF HasOwn
  <2> QED
    BY <2>1, <2>2
<1>5. /\ Handled(s, o) /\ Paired(s, o, p) /\ OnRecord(s, o, p)
      /\ Reading(s, o) <=> Reading(s, in[s])
      /\ MutedRight(s, in[s], pal[s]) => MutedRight(s, o, p)
  <2>1. CASE in[s].pal_stream_handle_ = s
    BY <2>1, <1>2, <1>3, <1>4 DEF Good, Handled, Paired, OnRecord, MutedRight, Reading
  <2>2. CASE in[s].pal_stream_handle_ # s
    BY <2>2, <1>2, <1>3, <1>4 DEF Good, Handled, Paired, OnRecord, MutedRight, Reading
  <2> QED
    BY <2>1, <2>2
<1>6. misrouted' \subseteq Streams /\ misrouted' \ {s} = misrouted \ {s}
  BY <1>1, <1>2
<1>7. CountOK' /\ num_va_sessions_' \in 0..MaxVa /\ miscounted' \in BOOLEAN
  BY <1>1, <1>3, <1>5, NoNewReader
<1> QED
  BY <1>1, <1>3, <1>4, <1>5, <1>6, <1>7, OneStream

\* A refused routing changes the device of the next Open only.
LEMMA RouteRefusedInv ==
  ASSUME InInv, NEW s \in Streams, NEW d \in Devices, RouteRefused(s, d)
  PROVE  InInv'
<1> USE NameAssumption, NoneAssumption, LabAssumption, InAssumption
<1> DEFINE o == [in[s] EXCEPT !.mPalInDevice = d]
<1>1. /\ Listed(s) /\ in' = [in EXCEPT ![s] = o]
      /\ UNCHANGED <<pal, listVars, muteVars, stVars, countVars>>
      /\ misrouted' = misrouted \cup {s}
  BY DEF RouteRefused, Callable
<1>2. /\ in[s] \in Object /\ pal[s] \in Session \cup {NoSession} /\ Good(s, in[s], pal[s])
      /\ num_va_sessions_ \in 0..MaxVa /\ misrouted \subseteq Streams
      /\ pal \in [Streams -> Session \cup {NoSession}]
  BY <1>1, ListedGood
<1>3. /\ o \in Object
      /\ o.pal_stream_handle_ = in[s].pal_stream_handle_ /\ o.kind = in[s].kind
      /\ o.is_st_session = in[s].is_st_session
      /\ o.stream_started_ = in[s].stream_started_ /\ o.pc = in[s].pc
      /\ o.loaded = in[s].loaded
  BY <1>2 DEF Object
<1> HIDE DEF o
<1>4. /\ Handled(s, o) /\ Paired(s, o, pal[s]) /\ (Reading(s, o) <=> Reading(s, in[s]))
      /\ MutedRight(s, in[s], pal[s]) => MutedRight(s, o, pal[s])
  BY <1>2, <1>3 DEF Good, Handled, Paired, MutedRight, Reading
<1>5. pal' = [pal EXCEPT ![s] = pal[s]]
  BY <1>1, <1>2
<1>6. CountOK' /\ num_va_sessions_' \in 0..MaxVa /\ miscounted' \in BOOLEAN
  BY <1>1, <1>3, <1>4, NoNewReader
<1> QED
  BY <1>1, <1>2, <1>3, <1>4, <1>5, <1>6, OneStream

-----------------------------------------------------------------------------
(* The list, the mute loop and the sound trigger.                          *)

\* A new stream goes to the end of the list; the one voice_ drops was not in it.
LEMMA CreateInv ==
  ASSUME InInv, NEW s \in Streams, NEW k \in Kinds, NEW d \in Devices,
         CreateStreamIn(s, k, d)
  PROVE  InInv'
<1> USE NameAssumption, NoneAssumption, LabAssumption, InAssumption
<1> DEFINE dropped == {p \in Streams : p = stream_in_primary_ /\ Exists(p) /\ ~Listed(p)}
           l == stream_in_list_
<1>1. PICK o \in Constructed(s, k, d) :
        in' = [p \in Streams |-> IF p = s THEN o
                                 ELSE IF p \in dropped THEN NoStream ELSE in[p]]
  BY DEF CreateStreamIn
<1>2. /\ ~Exists(s) /\ (s \in LabStreams) = (k = "RECOGNITION")
      /\ pal' = Release(dropped)
      /\ l' = Append(l, s) /\ stream_in_primary_' = s /\ misrouted' = misrouted \ {s}
      /\ Count(num_va_sessions_, FALSE) /\ UNCHANGED <<muteVars, stVars>>
  BY DEF CreateStreamIn
<1>3. /\ in \in [Streams -> Object \cup {NoStream}]
      /\ pal \in [Streams -> Session \cup {NoSession}]
      /\ l \in Seq(Streams) /\ num_va_sessions_ \in 0..MaxVa /\ st_dev \in BOOLEAN
      /\ misrouted \subseteq Streams /\ visit \in Nat
  BY DEF InInv, TypeOK
<1>4. /\ o \in Object /\ o.pal_stream_handle_ = Null /\ ~o.stream_started_
      /\ o.mPalInDevice = d /\ o.mAndroidInDevices = d /\ o.kind = k /\ o.pc = "idle"
  <2>1. PICK b \in BOOLEAN :
          o = [kind |-> k, pc |-> "idle", loaded |-> 0, pal_stream_handle_ |-> Null, is_st_session |-> b,
               stream_started_ |-> FALSE, mAndroidInDevices |-> d, mPalInDevice |-> d]
    BY DEF Constructed, SessionActive
  <2>2. 0 \in 0 .. MaxVa
    BY InAssumption
  <2> QED
    BY <2>1, <2>2 DEF Object
<1>5. /\ DOMAIN l' = 1 .. Len(l) + 1 /\ DOMAIN l = 1 .. Len(l) /\ Len(l) \in Nat
      /\ \A i \in DOMAIN l : l'[i] = l[i] /\ l[i] \in Streams
      /\ l'[Len(l) + 1] = s
  BY <1>2, <1>3
<1>6. \A q \in Streams : q # s /\ q \notin dropped => in'[q] = in[q] /\ pal'[q] = pal[q]
  BY <1>1, <1>2 DEF Release
<1>7. /\ in'[s] = o
      /\ \A q \in dropped : q # s => in'[q] = NoStream
      /\ pal'[s] = pal[s]
  BY <1>1, <1>2 DEF Release
<1>8. \A i \in DOMAIN l : l[i] # s /\ l[i] \notin dropped
  BY <1>2 DEF InInv, ListOK, Listed
<1> HIDE DEF l
<1>9. GoodStreams'
  <2> SUFFICES ASSUME NEW q \in Streams, Exists(q)' PROVE Good(q, in[q], pal[q])'
    BY DEF GoodStreams
  <2>1. CASE q = s
    <3>1. st_dev => pal[s] = NoSession
      BY <1>2 DEF InInv, ListOK
    <3> QED
      BY <2>1, <3>1, <1>2, <1>3, <1>4, <1>7
         DEF Good, Handled, Paired, RoutedRight, OnRecord
  <2>2. CASE q # s
    <3>1. q \notin dropped
      BY <2>2, <1>7 DEF Exists
    <3>2. in'[q] = in[q] /\ pal'[q] = pal[q] /\ Exists(q)
      BY <2>2, <3>1, <1>6 DEF Exists
    <3>3. Good(q, in[q], pal[q])
      BY <3>2 DEF InInv, GoodStreams
    <3> QED
      BY <2>2, <3>2, <3>3, <1>2 DEF Good, Handled, Paired, RoutedRight, OnRecord
  <2> QED
    BY <2>1, <2>2
<1>10. ListOK'
  <2>1. \A i, j \in DOMAIN l' : l'[i] = l'[j] => i = j
    BY <1>5, <1>8 DEF InInv, ListOK, l
  <2>2. \A i \in DOMAIN l' : in'[l'[i]] # NoStream
    BY <1>4, <1>5, <1>6, <1>7, <1>8 DEF InInv, ListOK, l, Exists
  <2>3. ASSUME NEW q \in Streams, Exists(q)' PROVE Listed(q)' \/ stream_in_primary_' = q
    <3>1. CASE q # s
      <4>1. q \notin dropped /\ Exists(q)
        BY <3>1, <2>3, <1>6, <1>7 DEF Exists
      <4>2. Listed(q)
        BY <4>1 DEF InInv, ListOK
      <4> QED
        BY <4>2, <1>5 DEF Listed, l
    <3> QED
      BY <3>1, <1>2
  <2>4. ASSUME st_dev, NEW q \in Streams, ~Exists(q)' PROVE pal'[q] = NoSession
    <3>1. q # s
      BY <2>4, <1>4, <1>7 DEF Exists
    <3>2. CASE q \in dropped
      <4>1. Good(q, in[q], pal[q])
        BY <3>2 DEF InInv, GoodStreams
      <4> QED
        BY <2>4, <3>2, <4>1, <1>2 DEF Release, HasOwn, Good, Handled, Paired
    <3>3. CASE q \notin dropped
      BY <2>4, <3>1, <3>3, <1>6 DEF InInv, ListOK, Exists
    <3> QED
      BY <3>2, <3>3
  <2> QED
    BY <2>1, <2>2, <2>3, <2>4, <1>2 DEF ListOK, l, Exists
<1>11. MuteOK'
  <2> SUFFICES ASSUME ~shrunk, NEW i \in DOMAIN l', visit = 0 \/ i < visit
               PROVE  MutedRight(l'[i], in'[l'[i]], pal'[l'[i]])
    BY <1>2 DEF MuteOK, MutedRight, l
  <2>1. CASE i \in DOMAIN l
    <3>1. MutedRight(l[i], in[l[i]], pal[l[i]])
      BY <2>1 DEF InInv, MuteOK, l
    <3> QED
      BY <2>1, <3>1, <1>5, <1>6, <1>8
  <2>2. CASE i \notin DOMAIN l
    <3>1. l'[i] = s
      BY <2>2, <1>5
    <3> QED
      BY <3>1, <1>4, <1>7 DEF MutedRight
  <2> QED
    BY <2>1, <2>2
<1>12. LabReaders' \subseteq LabReaders
  <2> SUFFICES ASSUME NEW q \in LabReaders' PROVE q \in LabReaders
    OBVIOUS
  <2>1. /\ q \in LabStreams /\ q \in Streams /\ in'[q] # NoStream
        /\ in'[q].is_st_session /\ in'[q].stream_started_
    BY DEF LabReaders, Exists
  <2>2. q # s /\ q \notin dropped
    BY <2>1, <1>4, <1>7
  <2> QED
    BY <2>1, <2>2, <1>6 DEF LabReaders, Exists
<1>13. CountOK' /\ num_va_sessions_' \in 0..MaxVa /\ miscounted' \in BOOLEAN
  BY <1>2, <1>12, CountKept
<1>14. TypeOK'
  <2>1. /\ in' \in [Streams -> Object \cup {NoStream}]
        /\ pal' \in [Streams -> Session \cup {NoSession}]
    BY <1>1, <1>2, <1>3, <1>4 DEF Release
  <2>2. l' \in Seq(Streams)
    BY <1>2, <1>3
  <2> QED
    BY <1>2, <1>3, <1>13, <2>1, <2>2 DEF InInv, TypeOK, l
<1> QED
  BY <1>9, <1>10, <1>11, <1>13, <1>14 DEF InInv

\* The list without its k-th element.
LEMMA ErasedAt ==
  ASSUME NEW S, NEW l \in Seq(S), NEW k \in DOMAIN l
  PROVE  /\ RemoveAt(l, k) \in Seq(S) /\ Len(l) \in Nat \ {0}
         /\ DOMAIN RemoveAt(l, k) = 1 .. Len(l) - 1 /\ DOMAIN l = 1 .. Len(l)
         /\ \A i \in 1 .. Len(l) - 1 :
              RemoveAt(l, k)[i] = IF i < k THEN l[i] ELSE l[i + 1]
<1> DEFINE a == SubSeq(l, 1, k - 1)
           b == SubSeq(l, k + 1, Len(l))
<1>1. k \in 1 .. Len(l) /\ Len(l) \in Nat
  OBVIOUS
<1>2. /\ a \in Seq(S) /\ Len(a) = k - 1
      /\ \A i \in 1 .. k - 1 : a[i] = l[i]
  BY <1>1
<1>3. /\ b \in Seq(S) /\ Len(b) = Len(l) - k
      /\ \A i \in 1 .. Len(l) - k : b[i] = l[k + i]
  BY <1>1
<1>4. RemoveAt(l, k) = a \o b
  BY DEF RemoveAt
<1> HIDE DEF a, b
<1>5. RemoveAt(l, k) \in Seq(S) /\ Len(RemoveAt(l, k)) = Len(l) - 1
  BY <1>1, <1>2, <1>3, <1>4
<1>6. ASSUME NEW i \in 1 .. Len(l) - 1
      PROVE  RemoveAt(l, k)[i] = IF i < k THEN l[i] ELSE l[i + 1]
  <2>1. CASE i < k
    BY <2>1, <1>1, <1>2, <1>3, <1>4
  <2>2. CASE i >= k
    <3> DEFINE n == Len(l)
               m == i - (k - 1)
    <3>1. n \in Nat /\ k \in 1 .. n /\ i \in 1 .. n - 1
      BY <1>1
    <3> HIDE DEF n
    <3>2. m \in 1 .. n - k /\ k + m = i + 1 /\ i = (k - 1) + m
      BY <2>2, <3>1
    <3> HIDE DEF m
    <3>3. (a \o b)[i] = b[m]
      <4>1. /\ \A j \in 1 .. Len(a) + Len(b) :
                 (a \o b)[j] = IF j <= Len(a) THEN a[j] ELSE b[j - Len(a)]
            /\ Len(a) = k - 1 /\ Len(b) = n - k
        BY <1>2, <1>3, ConcatProperties DEF n
      <4>2. i \in 1 .. (k - 1) + (n - k) /\ ~(i <= k - 1) /\ i - (k - 1) = m
        BY <2>2, <3>1 DEF m
      <4> QED
        BY <4>1, <4>2
    <3>4. b[m] = l[k + m]
      BY <3>2, <1>3 DEF n
    <3>5. ~(i < k)
      BY <2>2, <3>1
    <3>6. RemoveAt(l, k)[i] = l[i + 1]
      BY <3>2, <3>3, <3>4, <1>4
    <3> QED
      BY <3>5, <3>6
  <2> QED
    BY <2>1, <2>2, <1>1
<1> QED
  BY <1>1, <1>5, <1>6

\* A closed stream leaves the list; unless it is AudioVoice's the object goes too.
LEMMA CloseInv ==
  ASSUME InInv, NEW s \in Streams, CloseStreamIn(s)
  PROVE  InInv'
<1> USE NameAssumption, NoneAssumption, LabAssumption, InAssumption
<1> DEFINE gone == {s} \ {stream_in_primary_}
           l == stream_in_list_
<1>1. /\ in' = [p \in Streams |-> IF p \in gone THEN NoStream ELSE in[p]]
      /\ pal' = Release(gone) /\ Listed(s)
      /\ shrunk' <=> shrunk \/ visit > 0
      /\ shrunk' \in BOOLEAN
      /\ Count(num_va_sessions_, FALSE)
      /\ UNCHANGED <<stream_in_primary_, mute_, visit, stVars, misrouted>>
  BY DEF CloseStreamIn, Callable, InInv, TypeOK
<1>2. PICK k \in DOMAIN l : l[k] = s /\ l' = RemoveAt(l, k)
  BY DEF CloseStreamIn
<1>3. /\ in \in [Streams -> Object \cup {NoStream}]
      /\ pal \in [Streams -> Session \cup {NoSession}]
      /\ l \in Seq(Streams) /\ visit \in Nat /\ shrunk \in BOOLEAN
  BY DEF InInv, TypeOK
<1>4. /\ l' \in Seq(Streams) /\ DOMAIN l' = 1 .. Len(l) - 1 /\ Len(l) \in Nat \ {0}
      /\ DOMAIN l = 1 .. Len(l)
      /\ \A i \in DOMAIN l' : l'[i] = IF i < k THEN l[i] ELSE l[i + 1]
  <2> DEFINE m == RemoveAt(l, k)
  <2>1. /\ m \in Seq(Streams) /\ DOMAIN m = 1 .. Len(l) - 1 /\ Len(l) \in Nat \ {0}
        /\ DOMAIN l = 1 .. Len(l)
        /\ \A i \in 1 .. Len(l) - 1 : m[i] = IF i < k THEN l[i] ELSE l[i + 1]
    BY <1>3, ErasedAt
  <2>2. l' = m
    BY <1>2
  <2> HIDE DEF l, m
  <2> QED
    BY <2>1, <2>2
<1>5. \A q \in Streams : q \notin gone => in'[q] = in[q] /\ pal'[q] = pal[q]
  BY <1>1 DEF Release
<1>6. \A q \in gone : in'[q] = NoStream
  BY <1>1
<1> HIDE DEF l
<1>7. \A i, j \in DOMAIN l : l[i] = l[j] => i = j
  BY DEF InInv, ListOK, l
<1>8. \A i \in DOMAIN l' : l'[i] \in Streams \ {s} /\ \E j \in DOMAIN l : l'[i] = l[j]
  BY <1>2, <1>3, <1>4, <1>7
<1>9. GoodStreams'
  <2> SUFFICES ASSUME NEW q \in Streams, Exists(q)' PROVE Good(q, in[q], pal[q])'
    BY DEF GoodStreams
  <2>1. in'[q] = in[q] /\ pal'[q] = pal[q] /\ Exists(q)
    BY <1>5, <1>6 DEF Exists
  <2>2. Good(q, in[q], pal[q])
    BY <2>1 DEF InInv, GoodStreams
  <2> QED
    BY <2>1, <2>2, <1>1 DEF Good, Handled, Paired, RoutedRight, OnRecord
<1>10. ListOK'
  <2>1. \A i, j \in DOMAIN l' : l'[i] = l'[j] => i = j
    BY <1>2, <1>4, <1>7
  <2>2. \A i \in DOMAIN l' : in'[l'[i]] # NoStream
    BY <1>5, <1>8 DEF InInv, ListOK, l, Exists
  <2>3. ASSUME NEW q \in Streams, Exists(q)' PROVE Listed(q)' \/ stream_in_primary_' = q
    <3>1. q \notin gone /\ Exists(q)
      BY <2>3, <1>5, <1>6 DEF Exists
    <3>2. CASE q = s
      BY <3>1, <3>2, <1>1
    <3>3. CASE q # s
      <4>1. stream_in_primary_ = q \/ \E j \in DOMAIN l : l[j] = q
        BY <3>1 DEF InInv, ListOK, Listed, l
      <4>2. ASSUME NEW j \in DOMAIN l, l[j] = q PROVE \E i \in DOMAIN l' : l'[i] = q
        <5>1. CASE j < k
          BY <5>1, <4>2, <1>2, <1>4
        <5>2. CASE j > k
          <6>1. j - 1 \in DOMAIN l' /\ l'[j - 1] = q
            BY <5>2, <4>2, <1>2, <1>4
          <6> QED
            BY <6>1
        <5>3. j # k
          BY <4>2, <3>3, <1>2
        <5> QED
          BY <5>1, <5>2, <5>3, <1>2, <1>4
      <4> QED
        BY <4>1, <4>2, <1>1 DEF Listed, l
    <3> QED
      BY <3>2, <3>3
  <2>4. ASSUME st_dev, NEW q \in Streams, ~Exists(q)' PROVE pal'[q] = NoSession
    <3>1. CASE q \in gone
      <4>1. Good(q, in[q], pal[q])
        BY <3>1, <1>1 DEF InInv, GoodStreams, ListOK, Listed, Exists
      <4> QED
        BY <2>4, <3>1, <4>1, <1>1 DEF Release, HasOwn, Good, Handled, Paired, Exists,
           InInv, ListOK, Listed
    <3>2. CASE q \notin gone
      BY <2>4, <3>2, <1>5 DEF InInv, ListOK, Exists
    <3> QED
      BY <3>1, <3>2
  <2> QED
    BY <2>1, <2>2, <2>3, <2>4, <1>1 DEF ListOK, l, Exists
<1>11. MuteOK'
  <2> SUFFICES ASSUME ~shrunk', NEW i \in DOMAIN l', visit = 0 \/ i < visit
               PROVE  MutedRight(l'[i], in'[l'[i]], pal'[l'[i]])
    BY <1>1 DEF MuteOK, MutedRight, l
  <2>1. ~shrunk /\ visit = 0
    BY <1>1, <1>3
  <2>2. PICK j \in DOMAIN l : l'[i] = l[j]
    BY <1>8
  <2>3. MutedRight(l[j], in[l[j]], pal[l[j]])
    BY <2>1 DEF InInv, MuteOK, l
  <2> QED
    BY <2>2, <2>3, <1>5, <1>8
<1>12. LabReaders' \subseteq LabReaders
  <2> SUFFICES ASSUME NEW q \in LabReaders' PROVE q \in LabReaders
    OBVIOUS
  <2>1. /\ q \in LabStreams /\ q \in Streams /\ in'[q] # NoStream
        /\ in'[q].is_st_session /\ in'[q].stream_started_
    BY DEF LabReaders, Exists
  <2> QED
    BY <2>1, <1>5, <1>6 DEF LabReaders, Exists
<1>13. CountOK' /\ num_va_sessions_' \in 0..MaxVa /\ miscounted' \in BOOLEAN
  BY <1>1, <1>12, CountKept
<1>14. TypeOK'
  <2>1. /\ in' \in [Streams -> Object \cup {NoStream}]
        /\ pal' \in [Streams -> Session \cup {NoSession}]
    BY <1>1, <1>3 DEF Release
  <2> QED
    BY <1>1, <1>3, <1>4, <1>13, <2>1 DEF InInv, TypeOK, l
<1> QED
  BY <1>9, <1>10, <1>11, <1>13, <1>14 DEF InInv

\* The loop of SetMicMute has told the streams it is past.
LEMMA MuteInv ==
  ASSUME InInv, (\E b \in BOOLEAN : SetMicMute(b)) \/ MuteStream \/ MuteDone
  PROVE  InInv'
<1> USE NameAssumption, NoneAssumption, LabAssumption, InAssumption
<1>0. /\ in \in [Streams -> Object \cup {NoStream}]
      /\ pal \in [Streams -> Session \cup {NoSession}]
      /\ stream_in_list_ \in Seq(Streams) /\ visit \in Nat /\ mute_ \in BOOLEAN
  BY DEF InInv, TypeOK
<1>1. ASSUME NEW b \in BOOLEAN, SetMicMute(b) PROVE InInv'
  <2>1. TypeOK'
    BY <1>1 DEF SetMicMute, InInv, TypeOK
  <2>4. ListOK'
    BY <1>1 DEF SetMicMute, InInv, ListOK, Listed, Exists
  <2>5. CountOK'
    BY <1>1 DEF SetMicMute, InInv, CountOK, LabReaders, Exists
  <2>2. GoodStreams'
    BY <1>1 DEF SetMicMute, InInv, GoodStreams, Good, Handled, Paired, RoutedRight,
       OnRecord, Exists
  <2>3. MuteOK'
    BY <1>0, <1>1 DEF SetMicMute, MuteOK
  <2> QED
    BY <2>1, <2>2, <2>3, <2>4, <2>5 DEF InInv
<1>2. CASE MuteStream
  <2> DEFINE s == stream_in_list_[visit]
  <2>1. /\ visit \in DOMAIN stream_in_list_ /\ visit' = visit + 1
        /\ UNCHANGED <<in, mute_, shrunk, listVars, stVars, countVars, misrouted>>
    BY <1>2 DEF MuteStream
  <2>2. s \in Streams /\ Exists(s) /\ Good(s, in[s], pal[s])
    BY <2>1, <1>0 DEF InInv, ListOK, GoodStreams
  <2>3. PICK p \in Session \cup {NoSession} :
          /\ pal' = [pal EXCEPT ![s] = p]
          /\ Good(s, in[s], p) /\ MutedRight(s, in[s], p)
    <3>1. CASE HasOwn(s)
      <4>1. PICK q \in Muting(pal[s]) : pal' = [pal EXCEPT ![s] = q]
        BY <1>2, <3>1 DEF MuteStream
      <4>2. pal[s] \in Session /\ in[s].pal_stream_handle_ = s
        BY <3>1, <2>2 DEF HasOwn, Good, Paired
      <4>3. /\ q \in Session /\ q.started = pal[s].started /\ q.device = pal[s].device
            /\ q.muteKnown => q.mute = mute_
        <5>1. \/ q = [pal[s] EXCEPT !.mute = mute_, !.muteKnown = TRUE]
              \/ q = [pal[s] EXCEPT !.muteKnown = FALSE]
          BY <4>1 DEF Muting
        <5>2. CASE q = [pal[s] EXCEPT !.mute = mute_, !.muteKnown = TRUE]
          BY <5>2, <4>2, <1>0 DEF Session
        <5>3. CASE q = [pal[s] EXCEPT !.muteKnown = FALSE]
          BY <5>3, <4>2, <1>0 DEF Session
        <5> QED
          BY <5>1, <5>2, <5>3
      <4>4. Good(s, in[s], q) /\ MutedRight(s, in[s], q)
        BY <4>2, <4>3, <2>2
           DEF Good, Handled, Paired, RoutedRight, OnRecord, MutedRight
      <4> QED
        BY <4>1, <4>3, <4>4
    <3>2. CASE ~HasOwn(s)
      <4>1. pal' = [pal EXCEPT ![s] = pal[s]]
        BY <1>0, <1>2, <2>2, <3>2 DEF MuteStream
      <4> QED
        BY <4>1, <2>2, <3>2, <1>0 DEF HasOwn, MutedRight
    <3> QED
      BY <3>1, <3>2
  <2> HIDE DEF s
  <2>4. /\ pal'[s] = p /\ pal' \in [Streams -> Session \cup {NoSession}]
        /\ \A q \in Streams : q # s => pal'[q] = pal[q]
    BY <2>2, <2>3, <1>0
  <2>5. TypeOK' /\ CountOK'
    BY <2>1, <2>4, <1>0 DEF InInv, TypeOK, CountOK, LabReaders, Exists
  <2>6. ListOK'
    BY <2>1, <2>2, <2>4 DEF InInv, ListOK, Listed, Exists
  <2>7. GoodStreams'
    <3> SUFFICES ASSUME NEW q \in Streams, Exists(q) PROVE Good(q, in[q], pal[q])'
      BY <2>1 DEF GoodStreams, Exists
    <3>1. Good(q, in[q], pal'[q])
      BY <2>3, <2>4 DEF InInv, GoodStreams
    <3> QED
      BY <3>1, <2>1 DEF Good, Handled, Paired, RoutedRight, OnRecord
  <2>8. MuteOK'
    <3> SUFFICES ASSUME ~shrunk, NEW i \in DOMAIN stream_in_list_, i < visit + 1
                 PROVE  MutedRight(stream_in_list_[i], in[stream_in_list_[i]],
                                   pal'[stream_in_list_[i]])
      BY <2>1, <1>0 DEF MuteOK, MutedRight
    <3>1. CASE i = visit
      BY <3>1, <2>3, <2>4 DEF s
    <3>2. CASE i # visit
      <4>1. i < visit /\ stream_in_list_[i] # s /\ stream_in_list_[i] \in Streams
        BY <3>2, <2>1, <1>0 DEF s, InInv, ListOK
      <4> QED
        BY <4>1, <2>4 DEF InInv, MuteOK
    <3> QED
      BY <3>1, <3>2
  <2> QED
    BY <2>5, <2>6, <2>7, <2>8 DEF InInv
<1>3. CASE MuteDone
  <2>1. TypeOK' /\ ListOK' /\ CountOK'
    BY <1>3 DEF MuteDone, InInv, TypeOK, ListOK, CountOK, LabReaders, Listed, Exists
  <2>2. GoodStreams'
    BY <1>3 DEF MuteDone, InInv, GoodStreams, Good, Handled, Paired, RoutedRight,
       OnRecord, Exists
  <2>3. MuteOK'
    BY <1>0, <1>3 DEF MuteDone, InInv, MuteOK, MutedRight
  <2> QED
    BY <2>1, <2>2, <2>3 DEF InInv
<1> QED
  BY <1>1, <1>2, <1>3

\* Sound trigger sessions come and go without the streams.
LEMMA RegisterInv ==
  ASSUME InInv, NEW s \in LabStreams,
         (\E x \in StSessions : Register(s, x)) \/ Deregister(s)
  PROVE  InInv'
<1>1. PICK x \in StSessions \cup {Null} :
        /\ registered' = [registered EXCEPT ![s] = x]
        /\ UNCHANGED <<in, pal, st_dev, listVars, muteVars, countVars, misrouted>>
  BY DEF Register, Deregister
<1>2. TypeOK'
  BY <1>1 DEF InInv, TypeOK
<1>3. GoodStreams'
  BY <1>1 DEF InInv, GoodStreams, Good, Handled, Paired, RoutedRight, OnRecord, Exists
<1>4. ListOK' /\ MuteOK' /\ CountOK'
  BY <1>1 DEF InInv, ListOK, MuteOK, MutedRight, CountOK, LabReaders, Listed, Exists
<1> QED
  BY <1>2, <1>3, <1>4 DEF InInv

-----------------------------------------------------------------------------
LEMMA NextInv == InInv /\ [Next]_vars => InInv'
<1> SUFFICES ASSUME InInv, [Next]_vars PROVE InInv'
  OBVIOUS
<1>1. ASSUME NEW s \in Streams, Standby(s) \/ StandbyAfterError(s) PROVE InInv'
  <2>1. PICK c \in {"idle", "standbyDue"} :
          Listed(s) /\ in[s].pc \in {"idle", "standbyDue"} /\ StandbyThen(s, c)
    BY <1>1 DEF Standby, StandbyAfterError
  <2> QED
    BY <2>1, StandbyInv
<1>2. ASSUME NEW s \in Streams, CreateMmapBuffer(s) PROVE InInv'
  <2>1. PICK r \in Open(s), refused \in BOOLEAN : GoOn(s, r, r.ok /\ refused)
    BY <1>2 DEF CreateMmapBuffer
  <2>2. r \in Reach(s) /\ Listed(s) /\ in[s].kind = "MMAP"
    BY <1>2 DEF CreateMmapBuffer, Reach, Callable
  <2>3. UNCHANGED <<listVars, muteVars, stVars, countVars, misrouted>>
    BY <1>2 DEF CreateMmapBuffer
  <2>4. GoOn(s, r, TRUE) \/ GoOn(s, r, FALSE)
    BY <2>1 DEF GoOn
  <2> QED
    BY <2>2, <2>3, <2>4, GoOnInv
<1>3. ASSUME NEW s \in Streams, ReadNotOpened(s) PROVE InInv'
  <2>1. PICK r \in Reach(s) : ~r.ok /\ GoOn(s, r, TRUE)
    BY <1>3 DEF ReadNotOpened
  <2> QED
    BY <1>3, <2>1, GoOnInv DEF ReadNotOpened, Reads, Callable
<1>4. ASSUME NEW s \in Streams, NEW d \in DevicesOf(s),
             (\E k \in Kinds : CreateStreamIn(s, k, d)) \/ RouteStream(s, d)
               \/ RouteRefused(s, d)
      PROVE  InInv'
  <2>1. d \in Devices
    BY DEF DevicesOf, Devices
  <2> QED
    BY <1>4, <2>1, CreateInv, RouteStreamInv, RouteRefusedInv
<1>5. ASSUME NEW s \in LabStreams, StandbyLent(s) \/ CountReader(s) \/ Uncount(s) PROVE InInv'
  BY <1>5, LabAssumption, StandbyLentInv, CountReaderInv, UncountInv
<1>6. ASSUME NEW b \in MicMutes, SetMicMute(b) PROVE InInv'
  BY <1>6, InAssumption, MuteInv
<1>7. CASE UNCHANGED vars
  BY <1>7 DEF vars, InInv, TypeOK, GoodStreams, Good, Handled, Paired, RoutedRight,
     OnRecord, ListOK, MuteOK, MutedRight, CountOK, LabReaders, Listed, Exists
<1> QED
  BY <1>1, <1>2, <1>3, <1>4, <1>7, <1>5, <1>6, CloseInv, MmapInv, ReadLabInv, ReadNotStartedInv,
     ReadPcmInv, MuteInv, RegisterInv DEF Next

LEMMA AlwaysInv == Spec => []InInv
<1>1. Init => InInv
  BY InitInv
<1>2. InInv /\ [Next]_vars => InInv'
  BY NextInv
<1> QED
  BY <1>1, <1>2, PTL DEF Spec

\* The capture module's variables keep their types: the count of look-ahead
\* readers, the handles and the cached mute and devices of every session.
THEOREM TypeCorrect == Spec => []TypeOK
<1>1. InInv => TypeOK
  BY DEF InInv
<1> QED
  BY <1>1, AlwaysInv, PTL

\* No capture session is lost, however streams are created, read, sent to
\* standby and closed, and whichever of PAL's calls fail.
THEOREM SessionsAreOwned == Spec => []SessionsOwned
<1>1. InInv => SessionsOwned
  BY InvHolds
<1> QED
  BY <1>1, AlwaysInv, PTL

\* stream_started_ says what PAL does with the stream's own session.
THEOREM FlagsMatch == Spec => []FlagsMatchSession
<1>1. InInv => FlagsMatchSession
  BY InvHolds
<1> QED
  BY <1>1, AlwaysInv, PTL

\* The microphone mute reaches every capture, started before, after or while
\* SetMicMute walks the list.
THEOREM MuteReachesAll == Spec => []MuteReaches
<1>1. InInv => MuteReaches
  BY InvHolds
<1> QED
  BY <1>1, AlwaysInv, PTL

\* A session is on the device its stream recorded, also when it was opened
\* after a routing that failed and routed again.
THEOREM RouteReachesAll == Spec => []RouteReaches
<1>1. InInv => RouteReaches
  BY InvHolds
<1> QED
  BY <1>1, AlwaysInv, PTL

\* No client hears PCM while a sound trigger client reads look-ahead data, as long
\* as the counter has not lost a reader: for any number of look-ahead readers.
THEOREM LabReadsMute == Spec => []LabReadMutesPcm
<1>1. InInv => LabReadMutesPcm
  BY InvHolds
<1> QED
  BY <1>1, AlwaysInv, PTL
===============================================================================
