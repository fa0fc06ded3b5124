# Verification of the Qualcomm AR audio HAL

This directory models the audio HAL of this repository (`hal/`, which turns the
calls of Android's audio server into sessions of PAL, the platform audio layer)
and the effect libraries beside it (`audio-effects/`).  TLC checks the models on
small instances; TLAPS proves the main results about them for every size.  The
source is the reference: names of variables and actions are those of the code,
and `PROJECT.json` (`map`) gives the lines each definition stands for.

## 1. The system: components, state, operations

| Component | State it keeps | Operations | What is hard |
|---|---|---|---|
| Playback stream, `StreamOutPrimary` (hal/AudioStream.cpp) | two PAL handles, `stream_started_`, `stream_paused_`, `sendGaplessMetadata`, `mBytesWritten`, `mCachedPosition`, `stream_mutex_` | open, write, Standby, Pause, Resume, Flush, Drain, Start/Stop/CreateMmapBuffer, position queries | writer against control threads; Standby unlocks in the middle; callbacks without the lock; every PAL call can fail |
| Capture stream, `StreamInPrimary` (hal/AudioStream.cpp) | PAL handle, `stream_started_`, the sound trigger session it reads from, `num_va_sessions_` | Open, read, Standby, RouteStream, SetMicMute | capture from a sound trigger session that may be deregistered; counters changed on several paths |
| Voice calls, `AudioVoice` (hal/AudioVoice.cpp) | mode, `in_call`, current and new state, handle and mute of each session, device ids, `voice_mutex_` | SetMode, RouteStream, UpdateCallState, device mute, hac, SetMicMute, TTY, slow talk, HD voice, SetVoiceVolume | two callers hold the mutex, two do not; a start that half succeeds |
| Device, `AudioDevice` (hal/AudioDevice.cpp) | lists of streams, patch map and handle counter, `sndCardState`, `mute_`, charging state | CreateStream*/Close*, CreateAudioPatch, ReleaseAudioPatch, SetMicMute, SetParameters | patches that fail half way; lists read without their mutex |
| Offload effects bundle (audio-effects/post_proc/bundle.c and bass_boost, virtualizer, equalizer, reverb) | created effects, active outputs, the effects of each output; per effect: state, strength, device, flags | create, release, command, hal start/stop of an output | effects and outputs appear and disappear in any order; what is on in the DSP is remembered in flags |
| Offload visualizer (audio-effects/visualizer) | the effect list, output list, capture thread, lock and condition variable | enable, disable, start/stop output, capture | thread start and stop against commands |
| Volume listener (audio-effects/post_proc/volume_listener.c) | list of listeners, current gain step, HAL library handle | create, command, release | the gain depends on every listener's state |
| Voice processing (audio-effects/voice_processing) | per capture session: which pre-processing effects exist and are on | create, enable, disable, release | shared sessions |
| Battery listener (hal/audio_extn/battery_listener.cpp) | status, health service handle, a waiting thread | init, healthInfoChanged, serviceDied, reset | callbacks on binder threads, death and rebirth of the service |
| HFP and FM loopbacks (hal/audio_extn/Hfp.cpp, FM.cpp) | running flag, two stream handles, volume, mute | start, stop, set parameters | a second stream that fails to open |
| Sound trigger bridge (hal/audio_extn/soundtrigger.cpp) | list of capture sessions | REGISTER, DEREGISTER, lookup | callbacks from another HAL |
| Speaker calibration (hal/fsm_cali_ar, hal/audio_extn/AudioExtn.cpp) | `g_fsmLock`, mode and DAC port of the amplifiers, Re and F0 in globals, the result in `cali_data` and in a file | calibrate (a thread each), ask for the result | calibrations that overlap; globals read and cleared without the lock |
| Metadata for Bluetooth (hal/AudioStream.cpp, AudioVoice.cpp) | the tracks each stream was told last, two static mutexes, what PAL was sent | update of an output or an input, announce, start and end of a call | an update that meets the end of a call |

**Interactions.**  The audio server calls the HAL from several threads: one
writer per stream, and control threads.  `AudioDevice` makes the streams and
hands every routing of the primary output on to `AudioVoice`.  A playback stream
calls PAL under `stream_mutex_`; PAL calls `pal_callback` (drain answers) and the
global callback (sound card lost, sound card back) from its own threads without
that mutex.  A stream that offloads tells the effects bundle and the visualizer of
the start and the stop of its output.  `AudioVoice::VoiceStart` reads the
microphone mute `AudioDevice::SetMicMute` writes.

**What makes each correct.**  *Playback*: the PAL sessions open are exactly those
the handles name; flags, effects and metadata agree with what the session does;
data is written only to a started session; the reported position is never ahead of
the data.  *Voice*: an active call has a running stream and an inactive one has
none; all sessions are routed together; a muted microphone stays muted in a call
that starts meanwhile; a call asked to end ends.  *Effects*: the lists of the
bundle agree; what is on in the DSP was switched on by an effect that is attached.
*Capture*: the sound trigger session read from is one that is registered; session
counters do not drift.  *Patches*: a handle the framework holds names a patch the
device keeps, and a failed request changes nothing.  *Visualizer*: the capture
thread runs exactly while an output and an enabled effect need it, and stops when
told.  *Battery*: no status change is lost, `reset` is final and every join returns.  *Loopbacks*:
whichever step of a start fails, both sessions run or none is open; the volume asked for
last is heard.  *Calibration*: the amplifiers are back in normal mode whenever the lock is
free; a result is reported as good only when it was stored.  *Volume listener*: the
calibration level follows what plays on the speaker.  *Metadata*: once nothing is under
way, Bluetooth has the tracks of all streams.  *Settings*: a call that is up has them,
those made while it started too.

## 2. The modules

One module per component, named after what it models; an `MC...` module with the
same constants extends it for TLC; proofs are in a module of their own.

| Module | Models | Checked by | Proved in |
|---|---|---|---|
| `StreamOut` | one `StreamOutPrimary`, its PAL sessions, the writer, the control threads, PAL's callbacks, card restarts, and the calls into the effects bundle | `StreamOut`, `StreamOutLive`, `StreamOutPosition` | `StreamOutProofs` |
| `PlaybackLifecycle` | the abstract life of a stream: what a client of it may rely on | as a property of `StreamOut` | `StreamOutProofs` |
| `VoiceCall` | `AudioVoice` with its sessions and its four callers | `VoiceCall`, `VoiceCallUnlocked` | `VoiceCallProofs` |
| `CallLifecycle` | the abstract life of the voice sessions: what telephony and PAL may rely on | no run: by proof | `VoiceCallProofs` |
| `StreamIn` | the `StreamInPrimary` objects, the list of them, `SetMicMute`, the sound trigger bridge | `StreamIn`, `CaptureSilenced` | `StreamInProofs` |
| `OffloadEffects` | bundle.c and the four effect files, the modules on in the DSP | `OffloadEffects` | `OffloadEffectsProofs` |
| `Visualizer` | the visualizer library and its capture thread | `Visualizer` | `VisualizerProofs` |
| `BatteryListener` | both versions of the battery listener and `AudioDevice`'s use of it | `BatteryListener`, `BatteryReinit` | `BatteryListenerProofs` |
| `AudioPatches` | the patch map and handle counter of `AudioDevice`, and `RouteStream` of the outputs the patches route | `HalServices` | `CallServicesProofs` |
| `DeviceParameters` | the keys of `SetParameters` that leave state: USB and DisplayPort connections, rotations, the LC3 configuration | `HalServices` | `CallServicesProofs` |
| `VoiceSettings` | volume, TTY, slow talk, volume boost and HD voice, against calls that start and end | `HalServices` | `CallServicesProofs` |
| `BtMetadata` | the tracks told to Bluetooth, against calls | `HalServices` | `CallServicesProofs` |
| `HfpLoopback`, `FmLoopback` | the hfp_* and fm_* keys and their loopback sessions | `HalServices` | `HalServicesProofs` |
| `SpeakerCalibration` | the calibration threads, their lock, the amplifiers, the result | `HalServices` | `HalServicesProofs` |
| `VoiceProcessing` | echo canceller and noise suppressor of the capture sessions | `HalServices` | `HalServicesProofs` |
| `VolumeListener` | the list of listeners and the calibration level they make | `HalServices` | `HalServicesProofs` |
| `VisualizerCapture` | the ring of samples and the measurements of one visualizer | `HalServices` | `HalServicesProofs` |
| `HalServices` | the ten modules from `AudioPatches` on, side by side | `HalServices` | `HalServicesProofs` |

`HalServices` composes parts that share no state with one another.  Its variable `part`
says which one moves, so TLC explores the sum of their state spaces and not the
product; a property of one part holds of the product exactly when it holds there, as
nothing the others do can change a variable of it.  `DeviceParameters` counts as three
parts.

Definitions whose comment begins with "Mutant" are slips of the kind each property
is there to catch (a dropped guard, a missed signal, a flag not reset).  No
specification uses them; `PROJECT.json` (`mutants`) says which definition each one
takes the place of, and the named property must then fail.

### How the models correspond to the code

**A step is what nobody can see the inside of.**  A handler that holds its mutex from
end to end is one action; it contains every call the handler makes that changes
state.  It is split at each place where another thread can get in:

* *StreamOut*.  `Standby` is split where its sound-card-offline branch drops
  `stream_mutex_` (`ssrRead`, `ssrStore`, `ssrRelock`) and between the stop and the
  close (`standbyClose`), where `pal_callback`, which takes no mutex, can arrive;
  `write` is split around the gapless metadata and at its error path, which drops the
  mutex and calls `Standby` (`onError`); the position queries between the look at
  `sndCardState`, the read of the count and the store.  `stream_mutex_` names the
  thread that holds it.
* *VoiceCall*.  `UpdateCalls` is split where it reads a session's state, opens a
  stream, starts it, closes it, forgets its handle, and reads the microphone mute (twice,
  as the code does), and `SetMicMute` between its test of a handle and its use, because
  `SetMode` and `SetMicMute` do not take `voice_mutex_`; `RouteStream` and
  `UpdateCallState` take it for lines 575-598 and 630-643 only.  PAL may give a new stream
  the handle of one that was closed.  `pc`, `idx` and `failed` are each caller's place,
  loop index and error; `found` is the handle `SetMicMute` has tested.
* *StreamIn*.  The error path of `read` and of `CreateMmapBuffer` drops the mutex
  before `Standby`; `SetMicMute` visits the list by index, without its mutex;
  `num_va_sessions_`, which the mutexes of the streams do not guard, is loaded and stored
  in two steps.
* *OffloadEffects*.  Every entry point holds the library's `lock`: one action each.
* *Visualizer*.  The thread's code between two of `pthread_cond_wait` and
  `pal_stream_read` is one step (`lock` is held); a stop is split at `pthread_join`,
  where `lock` is dropped and `thread_lock` is kept (`stopping`).
* *BatteryListener*.  The thread is split at its two waits and around the callback;
  `init` at its calls to the health service, because `AudioDevice::Init` runs it
  without `mLock`; `serviceDied` around its join.
* *AudioPatches, DeviceParameters, HfpLoopback, FmLoopback*.  `CreateAudioPatch` and
  `ReleaseAudioPatch` are an action each, and so is each key of `SetParameters`: a call
  with several keys handles them one after the other, and each block looks at the state
  only.
* *VoiceSettings*.  `SetVoiceVolume` takes no lock and is split into its store, its look at
  each session and its send; the start of a call into open, volume and start.  The other
  settings, and the routings that move a call, come from the thread that starts the calls
  and are one action each, with the calls of `VoiceSetDevice` they make.
* *BtMetadata*.  An update is split at the metadata mutex with its look at the calls, the
  copy with the gathering of all tracks, and the send; a call at its announcement, its
  start and the restoring of the media tracks.
* *SpeakerCalibration*.  `do_spkcal` is a step for each lock operation, measurement and
  access to the globals; the client's question reads them in between.
* *VoiceProcessing, VolumeListener, VisualizerCapture*.  The callers hold a lock: one
  action for each entry point.

**PAL** is external.  It is modelled by what the code relies on: a session is opened,
started, paused, stopped and closed by its handle, any call the code checks may
fail, and the state of the sessions is kept in the model so that the properties can
compare it with what the HAL remembers.

**History variables** (marked so at their declaration) record that a known exception
has happened.  The properties name their exceptions in terms of them instead of
being weakened in general; each exception is behaviour of the code, described in
the comment of the property.

## 3. What is abstracted

* *Data.*  Audio is counted in frames (playback), numbered in the order captured
  (visualizer) or left out.  The values of effect parameters other than
  strength (0 or 1), formats, channel masks, buffer sizes and the volume of streams are
  left out, as are log messages.
* *Playback.*  Karaoke, which is dead code (`static bool karaoke = false`,
  hal/AudioStream.cpp:65, is never set), and the volume.  The
  latency is a constant number of frames.  The counters saturate at `MaxFrames`, where
  the code's saturate at `UINT64_MAX`.
* *Voice.*  The receive and transmit device of a call are one id; keys of devices, the
  custom key of the hearing aid among them (it is appended to a `palDevices` that
  `VoiceStart` leaves uninitialised, hal/AudioVoice.cpp:836), are left out.  The
  `pal_stream_stop` before a close is one step with it: what lies between is PAL's own.
  PAL takes a microphone mute for a stream that is open and not started; a device mute
  without a handle ends in an error.  The loop of a parameter over the sessions is one step.
* *HFP.*  What is remembered of the microphone volume is in fifteenths, as the code divides
  the volume it was given before it keeps it.
* *Patches.*  What a write past the end of an array of devices does to the heap is not
  followed: `overrun` names the streams it has happened to.
* *Volume listener.*  A volume is its amplitude in thousandths, and loudness is compared by
  its square, so that no root is taken.
* *Calibration.*  A measurement of the four speakers is "zero" (none, or not stored), "good" or
  "bad"; registers, mixer controls other than mode and DAC port, and test tones are left
  out.  The result of `fclose` is ignored by the code (fsalgo_calib.c:675): a file that is
  "lost" then counts as written, for the code and for `OkIsStored`.
* *Visualizer captures.*  A measurement is the peak of its buffer; the average is handled
  alike.  Time is one of the three spans the code tells apart.  A capture size larger than
  the ring, which nobody refuses, makes the copies leave the ring: `Foreign` stands for
  what they find.  What the silence of a stall overwrites past the end of the reply is not
  followed.
* *Metadata.*  A list of tracks is one value.  Gathering them is one step: the lists of
  streams do not change inside it.
* *Capture.*  The flags for echo and noise suppression, the MMAP file descriptor, the
  volume and constructor failures.
* *Effects.*  Four devices stand for the classes the device tables tell apart.
  `EFFECT_CMD_INIT` (`Reinit`) comes in `INITIALIZED` only, as the audio framework sends it;
  the code would take it in any state (bundle.c:588).
* *Battery.*  FULL is CHARGING, and DISCHARGING stands for the other states, as for
  `statusToBool`.  The object is not destroyed while `serviceDied` runs: a strong
  reference keeps it in the HIDL version; for the static of the other version it is
  an assumption.

## 4. The runs

| Run | Instance | Distinct states | What it shows |
|---|---|---|---|
| `StreamOut` | a writer, 2 control threads, 3 sessions, all 6 use cases, 3 frames, latency 1 | 141 221 | sessions are never lost, flags, effects, metadata and positions agree with PAL, `PlaybackLifecycle` is implemented |
| `StreamOutLive` | a writer, 1 control thread, 2 sessions, 3 use cases, 2 frames | 13 950 | a `Standby` or a position query under way returns |
| `StreamOutPosition` | as `StreamOut`, smaller | violation | see finding 1 |
| `VoiceCall` | 2 sessions, 2 streams, 3 callers one at a time, 1 TTY mode, all PAL failures | 769 228 | what starts a call marks it; sessions are routed together; a call asked to end ends |
| `VoiceCallUnlocked` | 2 sessions, 2 streams, 4 callers interleaved, closes that fail, until two callers are at one session | 3 639 054 | no session keeps a closed stream; no stream is lost; streams follow calls; a muted microphone stays muted |
| `StreamIn` | one plain and two sound trigger streams, 2 lent sessions, 2 devices, counter up to 2; two capture handles at a time in `LabBound` | 1 866 484 | no capture session is lost; mute and route reach the sessions; nobody hears PCM while look-ahead data is read, as long as the counter has lost no reader |
| `CaptureSilenced` | one sound trigger stream, 1 lent session | violation | see finding 2 |
| `OffloadEffects` | 2 effects of any kinds, 2 outputs, 2 sessions | 481 700 | nothing is left on in the DSP; what is enabled, and allowed by its device, is on |
| `Visualizer` | 2 effects, 2 outputs, 2 threads | 77 904 | one capture thread, its session given back; it misses no signal; stops return; enabled effects are heard |
| `BatteryListener` | both versions, 4 states, a service that dies and returns without limit | 22 617 | PAL is up to date when the thread sleeps; joins are sound and return |
| `BatteryReinit` | the version without QTI_HEALTH | violation | see finding 3 |
| `HalServices` | 2 outputs, 2 patch handles, 3 routes; 1 card, 3 LC3 fields; 2 voice sessions, 1 volume, 2 TTY modes, volume boost, 2 devices; 2 calibrations; 2 capture sessions, 2 configurations; 2 listeners, 3 volumes; metadata of 2 outputs, 1 input and 1 call; a ring of 3 samples, 7 samples in all | 959 476 | patches are routed; connections are released; LC3 fields are of one round; settings reach calls; loopbacks are whole and at the volume asked for; amplifiers are restored; good results are stored; levels follow the listeners; metadata and captures are recent |

**Why the bounds are enough.**  *StreamOut*: two control threads give two Standbys at
once with a write between; three sessions give the pair of a haptics stream and one
that is opened while another is closing; three frames give a position across two
sessions and one more; what is unbounded in threads, sessions and frames is proved.
*VoiceCall*: two sessions is the code's own limit (`MAX_VOICE_SESSIONS`); two streams,
one for each, are also one that is closed and given to the other; a second receive device
would only rename the first, as the proxy of call screening and the one of TTY are others.
`VoiceCallUnlocked` stops (`NoOverlap`) where two callers have met at one session: its four
properties say nothing from there on, and `overlapped` stays.  With one session, mutes
that fail and device mutes too it has 882 640 states and the same result; with two
sessions, no constraint and without `SetMicMute`, 6 713 108.  *StreamIn*: two sessions of
sound trigger on one handle give a session replaced while its stream reads; a second handle
gives the Standby of a stream that was not counted and the lost update of the counter; the
plain stream is the client that must not hear.  `LabBound` keeps the two handles from being
multiplied with the mutes and routings of the rest: while both are in use nothing is muted
or moved, and one session is lent to both.  *OffloadEffects*: two
effects on two outputs give every relation of an effect to an output and to another
effect.  *Visualizer*: two outputs make the last stop and an overlapping start, two
effects the one that goes on when the other ends, two threads the one being joined
and its successor; every size is proved for the safety properties.  *HalServices*: two
outputs and three routes give a shared device, a device that does not answer and a
stream routed while another is; two patch handles a handle reused after a release; two
voice sessions are the code's limit, and volume boost is the effect that depends on the
device (slow talk and HD voice do less; with two volumes the settings alone have 2 542 899
states and the same result); `ServicesBound` does not go on from a write past an array, of
which nothing is claimed, and lets PAL refuse settings of one call at a time, as each
session is claimed by itself; two calibrations overlap in every way two can; two
listeners on one device or on two give every maximum and sum; the ring of 3 and 7
samples wrap twice and the window of 2 measurements wraps too.

No constraint stands in a run with a temporal formula other than `OkIsStored`, an action
property of calibrations, which `ServicesBound` does not touch.

For the safety properties the bounds matter less than that: each of them is also proved for
every value of the constants (section 5).  They matter for liveness, and for what the runs
show besides: that every action happens, and that a slip in the code is noticed.

`RightModulesOn`, `CaptureOwned` and `RepliesAreRecent` are each the conjunction of two
properties that one mutant run breaks together (`EnabledIsOn` and `DeviceRespected`;
`OneCaptureThread` and `CaptureReleased`; `CaptureIsRecent` and `MeasureIsRecent`).  Type
invariants are proved where section 5 says so, and not run again there.

Deadlock is checked in every run but `HalServices`: its patches can really come to an end,
because a patch of a stream that was closed never leaves the map and the handles of the
instance run out.

**Fairness.**  `StreamOut`: weak fairness of a thread inside a handler, because it is
scheduled; strong fairness where it takes `stream_mutex_` again, because the mutex is
given to each waiter eventually though others take it in between.  `VoiceCall`: weak
fairness of a caller inside a handler.  `Visualizer`: weak fairness of the capture
thread, which includes that `pal_stream_read` returns, and of the join.
`BatteryListener`: weak fairness of the listener thread, including the end of its 3 s
wait, and of the death handler.  Nothing is assumed of clients, of telephony or of
the health service: no call has to be made and no service has to come back.

## 5. What is proved

The modules ending in `Proofs` are checked by TLAPS and hold for every value of
the constants under the assumptions named in the modules (names are distinct, bounds
are natural numbers).  Each proves an inductive invariant, and from it the properties the
runs check on an instance.

**StreamOut** (any number of control threads and sessions, any bound on frames).
`SessionsOwned` is not inductive: it needs to know that between a stop and the close
nobody else has the mutex.  The argument has layers.

* `Safe`: the type invariant; `LockOK`, a thread is at a point inside the locked part
  exactly when `stream_mutex_` names it; `DataOnLiveSession`; and a destroyed stream has
  no thread in a handler and no session.  Inductive by itself.  Theorems
  `TypeCorrect`, `WriteIsLive`.
* `Owned`, over `Safe`: `SessionsOwned`, and the two handles differ.  Theorem
  `NoSessionLost`.
* `Flagged`, over both: `FlagsMatchSession`, nothing is marked started while Standby
  closes, and a thread that left a session running on the error path is not one of a
  PCM offload stream, whose Standby could drop the mutex before the close.  Theorem
  `FlagsCorrect`.
* `Attached`, over all: the effects output is attached from start to close.  Theorem
  `EffectsCorrect`.
* `Unstarted`, over `Safe`: an open session that is not started is about to be closed
  by the writer's error path or by a Standby (MMAP apart), so that a write never finds
  a session with old buffers or old metadata.  Over it, `Gapless` follows the flag
  from the reset in Standby to the first write to the next session, and `Rendered`
  bounds what is cached, what a thread has read and not stored yet, and what is still
  queued by the frames written.  Theorems `GaplessFirst`, `PositionCorrect`.
* `LifecycleImplemented`: under the mapping `Mode` and the open sessions, each of the
  module's actions is an action of `PlaybackLifecycle` or a stutter.

**VoiceCall** (any number of sessions, streams and devices).  Two groups of results with
different assumptions about the callers.

*However the four callers interleave*, until two of them have been at one session at once
(`overlapped`), `Agree` is inductive over the type invariant.  It says what a caller inside a start
or a stop knows of its session's handle (`StreamOK`), that a session nobody is at has a
running stream or none (`SessionOK`), that a handle names a closed stream only while the caller
that closed it is about to forget it (`Leaving`), and that two sessions share a handle only when
one of them is about to forget it, as PAL may have given it out again (`Apart`).  Theorems
`HandlesAreOpen`, `NoStreamIsLeft`, `StreamsFollowCalls`.  Over it `MicOK` says of each session that
it is mute, or that `VoiceStart` has the switch still to read, or `SetMicMute` the session
still to visit or its handle in hand: theorem `MuteIsHeld`.  Nothing in the code serializes
`SetMode` with the callers that lock, and these four assume nothing of the kind.  Without the
exception they do not hold: two `VoiceStart`s of one session orphan a stream, and of two callers
that stop one session the second closes a handle that PAL may have given to the other.  TLC
finds both when `~overlapped` is taken out of the properties.

*With SetMode, RouteStream and VoiceSetParameters called one at a time* (`Serialized`), which is
the audio server's doing and not the code's, are proved the three results that are about the
order of whole handlers.  `CallsMarked` says why a call that runs has a mark: it is marked, or
nothing runs and nothing starts, or `StopCall` has taken the mark away and the sessions it has
passed are over (`Ending`); theorem `ActiveIsMarked`.  `SwitchedSoFar`, that the sessions
`RouteStream`'s loop has passed are on the call's device, gives the action property
`RoutedTogether`: theorem `AllAreRouted`.  `LifeOK` adds to `Agree` that a stream which is open and
not started belongs to the session that is being started.  It gives `CallsImplemented`: under the
mapping `Asked`, `ActiveCalls`, `Stages`, a request is an `Ask` of `CallLifecycle`, the steps of
`UpdateCalls` open, give up, start, connect, stray or end one session, and everything else
is a stutter.  A session strays when PAL refuses its device mute: `VoiceStart` then reports
an error for a stream that runs (AudioVoice.cpp:938), and the next `Open` forgets it.  No run
checks this refinement, because the proof covers every instance with `Serialized`; with
`ImplementsCalls` as a property of two sessions and no device mutes, TLC agrees on 2 173 932
states.

**OffloadEffects** (any effects, outputs and sessions).  `BundleInv` has two halves.
`SettingsOK` says what an effect remembers in each state, for instance that nothing is
flagged before it is enabled and that an unforced virtualizer on an unsupported device
is disabled for the device.  `ListsOK` ties lists, outputs and sessions together and
adds that no session belongs to two outputs, and that two effects of a kind on a session
have contested it.  Between them, `NothingLeftOn` and `FlaggedIsOn` are preserved by
every command for one reason, the predicate `Conveys`: a command sends the flags it
changes.  `UpdateInv` uses it once, and each command proves it.  Theorems
`ListsStayTogether`, `NothingIsLeftOn`, `ModulesAreRight`.

**Visualizer** (any effects, outputs and threads).  The invariant is the conjunction of
`TypeOK`, the four safety properties and `JoinInv`: while a stop joins there is no
output, the thread has been told to exit and has not been forgotten, and at no other
time is a thread told so.  Without `JoinInv`, `OneCaptureThread` fails at the end of a
stop.  `SignalWakesAll` is the lemma behind `NoLostWakeup`: as one thread waits at most,
`pthread_cond_signal`, which wakes one, wakes all.  Theorems `CaptureIsOwned`,
`WakeupsKept`, `ListsAlwaysAgree`.

**BatteryListener** (both versions).  `BatteryInv` says at which steps of an init the thread
is missing, that a thread which waits has seen the present status, and that PAL has
what the thread saw last.  Theorems `PalIsUpToDate`, `JoinsAreGood`, `ResetIsQuiet`.

**StreamIn** (any streams, sound trigger sessions and devices).  `InInv` is `TypeOK` with four
parts.  `GoodStreams` says of each stream and its PAL session what they must be to each
other (`Good`): which handle it may hold, that it is started only with one, that a session
of its own runs when the stream says so, and that it is on the recorded device and has
the recorded mute.  `ListOK`: no stream is listed twice, and the others exist only as
the kept primary.  `MuteOK`: captures that the loop of `SetMicMute` has passed have the new
mute, and those still ahead of it have either.  `CountOK`: there are no more started look-ahead
readers than the counter says, however many sound trigger streams there are, until it has
lost one (`miscounted`): to a Standby of a stream that was not counted, or to a store over
another thread's.  Most handlers touch one listed stream; lemmas show that each leaves a good
pair, and `OneStream` lifts that to the state.  Theorems `SessionsAreOwned`, `FlagsMatch`,
`MuteReachesAll`, `RouteReachesAll`, `LabReadsMute`.

The proof of `RouteReachesAll` refuted an earlier form of `RouteReaches`, which left out
streams whose two records of the device differ.  With two USB devices the records can
agree again while the session is elsewhere; the property now leaves out the streams whose
last routing failed (`misrouted`).

**Services.**

* *HFP, FM, voice processing* (`HalServicesProofs`): `HfpCallWhole` and `HfpVolumeCorrect` (both HFP sessions or none, at the
  volume asked for); `FmVolumeCorrect` and `FmHandleCorrect`; `ProcessingCorrect` and
  `ConfigHeld` (the masks, the states and the session list of voice processing agree, and
  no session is reconfigured under an enabled effect).
* *Calibration* (`HalServicesProofs`): `CaliRestoresAmp` and `CaliLockCorrect`, for any number of
  overlapping calibrations, from `CaliInv`, which says which mode the amplifiers are in at
  each step of the thread that holds the lock.  `CaliOkIsStored` has two invariants, one for
  each half of the property.  `WriteInv`, for calibrations that overlap: a good resistance in
  the global is in the file, or the holder of the lock is about to put it there.  `ResultInv`,
  for one that overlaps no other: `ResultOf` follows its values from the measurement through
  the file to the answer.
* *Volume listener* (`HalServicesProofs`): `LevelIsFollowed`, for any gain table.  The level last sent is
  the level of the volume last computed (`LevelCurrent`), so a volume that did not change
  need not be sent; and a command that sends nothing did not change the sum, because it
  touched no context of it.
* *Visualizer's capture* (`HalServicesProofs`): `RepliesRecent`.  A cell of the ring is named by its
  distance back from the index (`Back`), and what it must hold is a function of that
  distance (`RingHolds`).  `RingStep` shows, by induction on the number of samples of a
  buffer, that the recursive function which writes them keeps this; the two copies of a
  reply then give the last samples whatever the index.  Any sizes may be asked for; of those
  larger than the ring, and of the capture that notices a stall, nothing is claimed.
* *Device parameters* (`CallServicesProofs`): `Lc3Correct`, whose invariant needs `FieldsCurrent`, that fields
  collected so far are of this round; `PalIsReleased`, for any cards and angles.
* *Patches* (`CallServicesProofs`): `PatchesAreRouted`, `PatchesTypeCorrect`.  Sinks pass through the
  combination of speaker and headset at the construction of a stream, at a route and
  again when it is routed once more; `CombinedAgain`, that a combination is not changed by
  another, is why they agree.  `FillStep` says of the array what a route leaves it: the new
  devices at its head, whatever its length, or an overrun.
* *Settings, metadata* (`CallServicesProofs`): `SettingsCorrect`, for any effects and devices: a volume
  that was stored is either sent or still ahead of the call's start, and a call has the
  effects asked for from its open on, but for volume boost on a device without it
  (`HasAsked`), which `MovedAgrees` shows `VoiceSetDevice` to keep; `MetadataCorrect`, for any
  streams and tracks: what was gathered under the mutex is current until it is released, and
  what was sent is current unless an update is under way or a call is up.
* *Composition* (`HalServicesProofs`): `ServicesImplementParts`, that `ServicesSpec` implements the specification
  of each of its ten parts, and from it `ServicesCorrect`, the twelve properties of the run
  as theorems of what the run explores.

**Induction over data.**  The library's induction theorems take an operator as a parameter, which the
installed provers cannot instantiate.  Induction over a *set* is within reach: the well-founded
minimum of the set of counterexamples (`LeastNat` in `HalServicesProofs`) serves where a model computes
with a recursive function, as the ring does.

**Only model-checked.**  The liveness properties `HandlersReturn`, `AskedCallEnds`, `StopReturns`,
`EnabledIsHeard` and `ServiceDiedReturns`: TLAPS handles neither fairness nor ENABLED.  Every
invariant and every action property that a passing run checks is also a theorem.

## 6. Findings

Where the code does not do what its own comments or log messages say.

1. *`StreamOutPosition`*.  `mCachedPosition` should keep the position when entering standby
   (hal/inc/AudioStream.h:586).  After an `Open` that failed late, Standby finds a handle
   without a started session and caches 0 (hal/AudioStream.cpp:2188).
2. *`CaptureSilenced`*.  PCM is to be muted "if sva client is reading lab data"
   (hal/AudioStream.cpp:5017).  A session that is deregistered before its stream stands
   by stays counted (4085), and all other capture stays muted.
3. *`BatteryReinit`*.  "health service died, reinit"
   (hal/audio_extn/battery_listener.cpp:310): the version without QTI_HEALTH, the one
   hal/audio_extn/Android.bp builds (line 107 defines HEALTH_AIDL only), joins a thread it has not woken and hangs.

Noted without a run, as the models do what the code does and no property claims
otherwise:

* Routing a call to no device should "teardown the usecase" (hal/AudioVoice.cpp:537-540),
  but lines 541-546 log, clear the error and leave the call as it is.
* `capture_thread_loop` processes every effect attached to an active output, enabled or
  not, where the comment at audio-effects/visualizer/offload_visualizer.c:165 speaks of
  enabled ones.
* A virtualizer with strength 0 is to be switched off explicitly
  (audio-effects/post_proc/virtualizer.c:74-79); enabled before its output starts it is
  switched on (549).
* A visualizer should return silence after a stall: "we must clear the capture buffer to return
  silence" (offload_visualizer.c:897-898).  Only the first capture of a stall is silenced, and
  from where its second copy began (904): the head of a reply that wraps is old samples, as
  much is written past its end, and later captures return the buffer, which is not cleared.
  `CaptureReply` does the same, and TLC refutes the claim "effect active, no buffer since the
  last capture, `age # "fresh"`: the reply is silence" in VisualizerCapture; `CaptureIsRecent`
  therefore claims nothing of that capture.  The stall also clears `buffer_update_time`, so
  that a measurement taken later is not discarded as old (929).
* `RouteStream` says it re-allocates the arrays of devices (hal/AudioStream.cpp:2304), and does
  when the number of devices differs from that of `mAndroidOutDevices` (2305).  A route to
  fewer devices that ends at a USB device which does not answer (2370-2373) has shortened the
  arrays by then and leaves `mAndroidOutDevices`: the next route of the old size writes past
  their end (2328, 2352).  TLC reaches it: the claim `overrun = {}` of AudioPatches fails.
* PCM is muted "if sva client is reading lab data" (hal/AudioStream.cpp:5017) only while
  `num_va_sessions_` counts that client: the Standby of any other stream on a registered
  sound trigger session takes one off (4088), counted or not.  TLC refutes `LabReadMutesPcm`
  without `~miscounted`.
* Nothing checks a capture size against the ring (offload_visualizer.c:727), and nothing the
  result of `fclose` on the calibration's file (hal/fsm_cali_ar/fsalgo_calib.c:675).
* A failed start of the HFP rx session leaves its closed handle set (hal/audio_extn/Hfp.cpp:349),
  and no call can start until one was stopped (259).
* After the reset at audio-effects/post_proc/volume_listener.c:861 the level is sent again only
  if something plays.
* A USB microphone whose card was already added as an output is not told to PAL
  (hal/AudioDevice.cpp:1553).
* The patch of a stream that was closed stays in the patch map.
* The tracks for speech that came during a call are sent when it ends, despite the comment at
  hal/AudioStream.cpp:1014-1018; a call that ends while another session is active sends the
  media tracks, despite the comment at 3584; an update between the announcement of a
  call and its ACTIVE overwrites the call's metadata; and a failed `VoiceStart` leaves the
  call's metadata in PAL.

## 7. What is not modelled

`PROJECT.json` lists every component with its status.  The parts of a modelled component
that are left out are in section 3.  Wrappers around vendor libraries (media listener,
hardware accelerator, GEF, gain), the layout of effect parameters, the calibration's register and
mixer I/O, adsprpcd and the configuration data keep no state a property could be about.
Of `SetParameters`, keys that are handed to PAL as they come; of `AudioDevice`, the tables that
map devices and `GetParameters`; of the capture stream, the echo and noise flags and the
parameters of compressed capture.

## 8. Plan

Done, in this order: `StreamOut` with `PlaybackLifecycle` and its proofs, `VoiceCall`,
`OffloadEffects`, `StreamIn`, `Visualizer` with its proofs, `BatteryListener`; then the ten
small modules and `HalServices`, and the proofs of `VoiceCall`, `OffloadEffects`, `BatteryListener`,
`StreamIn`, of the small ones and of their composition; then `CallLifecycle` and its refinement.

What is left:

1. The echo and noise flags of a capture stream (hal/AudioStream.cpp:4114-4211, 4998-5009),
   as operations of `StreamIn`.
2. The HDR keys of `AudioDevice` (148-258, 1468-1490), as a fourth part of `DeviceParameters`.
3. Further proofs: the abstract specifications the small modules would deserve, as `StreamOut`
   has `PlaybackLifecycle` and `VoiceCall` has `CallLifecycle`.
