------------------------------ MODULE BtMetadata ------------------------------
(***************************************************************************)
(* What Bluetooth is told of the tracks that play and record:              *)
(* out_update_source_metadata_v7, in_update_sink_metadata_v7 and the two   *)
(* SetAggregate functions of hal/AudioStream.cpp, and updateVoiceMetadata- *)
(* ForBT of hal/AudioVoice.cpp.                                            *)
(*                                                                         *)
(* Each stream keeps the tracks it was told last; PAL gets those of all    *)
(* streams of a direction together.  During a call PAL has the call        *)
(* instead: updates are kept and not sent, and the end of the call sends   *)
(* what was kept.  sourceMetadata_mutex_ and sinkMetadata_mutex_ are       *)
(* static: one for all outputs and one for all inputs.  The state of the   *)
(* calls is read without voice_mutex_, and the calls announce themselves   *)
(* without the metadata mutexes.                                           *)
(*                                                                         *)
(* An aggregate is gathered in one step: the lists of streams, which       *)
(* OutGetBLEStreamOutputs reads without their mutex, do not change inside  *)
(* it.  Call handlers come one at a time, as the audio server makes them.  *)
(***************************************************************************)
EXTENDS Naturals, FiniteSets

CONSTANTS
  Sources, Sinks,    \* the output and the input streams
  PrimaryOutput,     \* the one opened with AUDIO_OUTPUT_FLAG_PRIMARY
  OutputTracks,      \* what tells tracks of outputs apart: speech of a call, and others
  BtSessions         \* the voice sessions
ASSUME BtAssumption ==
  PrimaryOutput \in Sources /\ Sources \cap Sinks = {} /\ "speech" \in OutputTracks

VARIABLES
  listed,         \* stream_out_list_ and stream_in_list_
  metadata,       \* btSourceMetadata and btSinkMetadata of each stream
  known,          \* stream_out_primary_ and stream_in_primary_ of AudioVoice are set
  metadata_mutex, \* of each direction: who holds its mutex
  update,         \* of each direction: the update under way
  current_,       \* the sessions whose call is ACTIVE
  call_at,        \* the call handler under way
  bt_pal,         \* of each direction: what PAL was told last
  untold          \* history: the directions of which PAL missed something

btVars == <<listed, metadata, known, metadata_mutex, update, current_, call_at, bt_pal, untold>>

Dirs == {"source", "sink"}
BtStreams == Sources \cup Sinks
Dir(s) == IF s \in Sources THEN "source" ELSE "sink"
OfDir(d) == IF d = "source" THEN Sources ELSE Sinks
TracksOf(s) == IF s \in Sources THEN OutputTracks ELSE {"record"}

NoTracks == [s \in BtStreams |-> {}]
\* SetAggregateSourceMetadata, SetAggregateSinkMetadata: the tracks of all listed streams.
Aggregate(d, kept) ==
  [s \in BtStreams |-> IF s \in listed \cap OfDir(d) THEN kept[s] ELSE {}]
Media(tracks) == [call |-> FALSE, tracks |-> tracks]
TheCall == [call |-> TRUE, tracks |-> NoTracks]

NoUpdate == [step |-> "none"]
NoCall == [step |-> "idle"]

BtInit ==
  /\ listed = {} /\ metadata = NoTracks
  /\ known = {}
  /\ metadata_mutex = [d \in Dirs |-> "free"]
  /\ update = [d \in Dirs |-> NoUpdate]
  /\ current_ = {} /\ call_at = NoCall
  /\ bt_pal = [d \in Dirs |-> Media(NoTracks)]
  /\ untold = {}

-----------------------------------------------------------------------------
\* CreateStreamOut and CreateStreamIn.  Every input becomes stream_in_primary_.
OpenStream(s) ==
  /\ s \notin listed
  /\ listed' = listed \cup {s}
  /\ known' = IF s \in Sinks \cup {PrimaryOutput} THEN known \cup {Dir(s)} ELSE known
  /\ UNCHANGED <<metadata, metadata_mutex, update, current_, call_at, bt_pal, untold>>

\* CloseStreamOut and CloseStreamIn.  Nobody tells PAL that the tracks are gone.
CloseStream(s) ==
  /\ s \in listed
  /\ update[Dir(s)].step # "none" => update[Dir(s)].stream # s
  /\ listed' = listed \ {s}
  /\ metadata' = [metadata EXCEPT ![s] = {}]
  /\ untold' = IF metadata[s] = {} THEN untold ELSE untold \cup {Dir(s)}
  /\ UNCHANGED <<known, metadata_mutex, update, current_, call_at, bt_pal>>

\* pal_set_param with an aggregate that was gathered; PAL may refuse.
SendAggregate(d, tracks) ==
  \/ /\ bt_pal' = [bt_pal EXCEPT ![d] = Media(tracks)]
     /\ UNCHANGED untold
  \/ untold' = untold \cup {d} /\ UNCHANGED bt_pal

\* Mutant: the update does without the mutex.
UpdateWithoutMutex(s, tracks) ==
  /\ s \in listed
  /\ update[Dir(s)].step = "none"
  /\ metadata_mutex' = [metadata_mutex EXCEPT ![Dir(s)] = "update"]
  /\ update' = [update EXCEPT ![Dir(s)] = [step |-> "copy", stream |-> s, tracks |-> tracks,
                                            voice_active |-> current_ # {}]]
  /\ UNCHANGED <<listed, metadata, known, current_, call_at, bt_pal, untold>>

\* The update takes the mutex and asks get_voice_call_state.
UpdateMetadata(s, tracks) ==
  /\ s \in listed
  /\ update[Dir(s)].step = "none"
  /\ metadata_mutex[Dir(s)] = "free"
  /\ metadata_mutex' = [metadata_mutex EXCEPT ![Dir(s)] = "update"]
  /\ update' = [update EXCEPT ![Dir(s)] = [step |-> "copy", stream |-> s, tracks |-> tracks,
                                            voice_active |-> current_ # {}]]
  /\ UNCHANGED <<listed, metadata, known, current_, call_at, bt_pal, untold>>

\* Speech tracks are kept in a call and in AUDIO_MODE_IN_COMMUNICATION only.
KeptTracks(u, communicating) ==
  IF u.voice_active \/ communicating THEN u.tracks ELSE u.tracks \ {"speech"}

\* The tracks are stored; unless there is a call, the aggregate is gathered.
CopyTracks(d) ==
  /\ update[d].step = "copy"
  /\ \E communicating \in BOOLEAN :
       metadata' = [metadata EXCEPT ![update[d].stream] = KeptTracks(update[d], communicating)]
  /\ IF update[d].voice_active
     THEN /\ update' = [update EXCEPT ![d] = NoUpdate]
          /\ metadata_mutex' = [metadata_mutex EXCEPT ![d] = "free"]
          /\ UNCHANGED untold
     ELSE /\ update' = [update EXCEPT ![d] = [step |-> "send", stream |-> update[d].stream,
                                               tracks |-> Aggregate(d, metadata')]]
          /\ untold' = untold \ {d}
          /\ UNCHANGED metadata_mutex
  /\ UNCHANGED <<listed, known, current_, call_at, bt_pal>>

SendTracks(d) ==
  /\ update[d].step = "send"
  /\ SendAggregate(d, update[d].tracks)
  /\ update' = [update EXCEPT ![d] = NoUpdate]
  /\ metadata_mutex' = [metadata_mutex EXCEPT ![d] = "free"]
  /\ UNCHANGED <<listed, metadata, known, current_, call_at>>

-----------------------------------------------------------------------------
\* updateVoiceMetadataForBT(true): both directions, and nobody looks at the results.
AnnounceCall ==
  \E told \in SUBSET Dirs : bt_pal' = [d \in Dirs |-> IF d \in told THEN TheCall ELSE bt_pal[d]]

\* UpdateCalls for a session that becomes ACTIVE: PAL is told before VoiceStart.
StartVoice(i) ==
  /\ call_at = NoCall /\ i \notin current_
  /\ AnnounceCall
  /\ call_at' = [step |-> "start", session |-> i]
  /\ UNCHANGED <<listed, metadata, known, metadata_mutex, update, current_, untold>>

\* VoiceStart returns.  After a failure PAL is left with the call.
VoiceStarted ==
  /\ call_at.step = "start"
  /\ \/ current_' = current_ \cup {call_at.session} /\ UNCHANGED untold
     \/ untold' = Dirs /\ UNCHANGED current_
  /\ call_at' = NoCall
  /\ UNCHANGED <<listed, metadata, known, metadata_mutex, update, bt_pal>>

\* UpdateCalls for a session that becomes INACTIVE.  Should VoiceStop fail the session
\* stays ACTIVE, and the metadata is restored all the same.
StopVoice(i) ==
  /\ call_at = NoCall /\ i \in current_
  /\ current_' \in {current_, current_ \ {i}}
  /\ call_at' = [step |-> "lock", dir |-> "source"]
  /\ UNCHANGED <<listed, metadata, known, metadata_mutex, update, bt_pal, untold>>

\* RouteStream while a call is up.
RouteCall ==
  /\ call_at = NoCall /\ current_ # {}
  /\ AnnounceCall
  /\ UNCHANGED <<listed, metadata, known, metadata_mutex, update, current_, call_at, untold>>

AfterRestore(d) == IF d = "source" THEN [step |-> "lock", dir |-> "sink"] ELSE NoCall

\* updateVoiceMetadataForBT(false): with the mutex of the direction it gathers what was kept.
GatherKept ==
  /\ call_at.step = "lock"
  /\ LET d == call_at.dir
     IN IF d \in known
        THEN /\ metadata_mutex[d] = "free"
             /\ metadata_mutex' = [metadata_mutex EXCEPT ![d] = "call"]
             /\ call_at' = [step |-> "send", dir |-> d, tracks |-> Aggregate(d, metadata)]
             /\ untold' = untold \ {d}
        ELSE /\ call_at' = AfterRestore(d)
             /\ untold' = untold \cup {d}
             /\ UNCHANGED metadata_mutex
  /\ UNCHANGED <<listed, metadata, known, update, current_, bt_pal>>

SendKept ==
  /\ call_at.step = "send"
  /\ SendAggregate(call_at.dir, call_at.tracks)
  /\ metadata_mutex' = [metadata_mutex EXCEPT ![call_at.dir] = "free"]
  /\ call_at' = AfterRestore(call_at.dir)
  /\ UNCHANGED <<listed, metadata, known, update, current_>>

BtNext ==
  \/ \E s \in BtStreams :
       \/ OpenStream(s)
       \/ CloseStream(s)
       \/ \E tracks \in SUBSET TracksOf(s) : UpdateMetadata(s, tracks)
  \/ \E d \in Dirs : CopyTracks(d) \/ SendTracks(d)
  \/ \E i \in BtSessions : StartVoice(i) \/ StopVoice(i)
  \/ VoiceStarted \/ RouteCall \/ GatherKept \/ SendKept

BtSpec == BtInit /\ [][BtNext]_btVars

-----------------------------------------------------------------------------
BtTypeOK ==
  /\ listed \subseteq BtStreams
  /\ metadata \in [BtStreams -> SUBSET (OutputTracks \cup {"record"})]
  /\ known \subseteq Dirs
  /\ metadata_mutex \in [Dirs -> {"free", "update", "call"}]
  /\ \A d \in Dirs : update[d].step \in {"none", "copy", "send"}
  /\ current_ \subseteq BtSessions
  /\ call_at.step \in {"idle", "start", "lock", "send"}
  /\ DOMAIN bt_pal = Dirs
  /\ untold \subseteq Dirs

\* When no call is up or changing and no update is under way, Bluetooth has the tracks of
\* all streams as they are now: no update is lost to a call that ends at the same time or
\* to the update of another stream.  Left out are a stream closed since, a call that did
\* not start, a call that ended before its primary stream was opened, and a refusal by PAL.
MetadataCurrent ==
  call_at = NoCall /\ current_ = {} =>
    \A d \in Dirs :
      update[d] = NoUpdate /\ d \notin untold => bt_pal[d] = Media(Aggregate(d, metadata))
===============================================================================
