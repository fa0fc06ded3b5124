----------------------------- MODULE AudioPatches -----------------------------
(***************************************************************************)
(* The patches of hal/AudioDevice.cpp (CreateAudioPatch,                   *)
(* ReleaseAudioPatch, the list of output streams) and the routing they     *)
(* order, StreamOutPrimary::RouteStream of hal/AudioStream.cpp.            *)
(*                                                                         *)
(* A stream keeps two arrays for PAL, of which mPalOutDevice is the one    *)
(* that is opened, and beside them the set mAndroidOutDevices, whose size  *)
(* RouteStream takes for theirs.  A routing that fails leaves arrays of    *)
(* another size than the set: the next one may then write past their end,  *)
(* and what that does is not followed.  A device set is written as a       *)
(* sequence in the order std::set has it.                                  *)
(*                                                                         *)
(* RouteStream holds stream_mutex_, the map and the list have their own    *)
(* mutexes, and the calls for one stream come from one thread: a patch     *)
(* operation shares nothing with that of another stream between its steps, *)
(* and is one action.                                                      *)
(***************************************************************************)
EXTENDS Naturals, Sequences, SequencesExt, Functions

CONSTANTS
  Outputs,       \* the io handles of output streams
  Primary,       \* the one with AUDIO_OUTPUT_FLAG_PRIMARY
  Routes,        \* the device sets a patch may name, as sequences without repetition
  Handles,       \* the patch handles
  NoOutput
ASSUME PrimaryAssumption == Primary \in Outputs /\ NoOutput \notin Outputs
\* A std::set names a device once.
ASSUME RoutesAssumption ==
  \A r \in Routes : r \in Seq(STRING) /\ \A i, j \in DOMAIN r : r[i] = r[j] => i = j

VARIABLES
  stream_out_list_,      \* the streams that are open
  stream_out_primary_,   \* the primary stream the voice calls keep alive
  mAndroidOutDevices,    \* of each stream
  mPalOutDevice,         \* of each stream: the ids in the array for PAL, as long as it is
  out_session,           \* of each stream: the devices of its PAL session, <<>> when closed
  patch_map_,            \* of each patch: its stream, its sinks, and whether the last
                         \* routing to them ended at a USB device
  use_spk_whs_combo,     \* ro.vendor property: one PAL device plays on both
  overrun,               \* history: the streams whose array was written past its end
  out_refused                \* history: the streams whose session refused its devices

outputState == <<mAndroidOutDevices, mPalOutDevice, out_session, overrun, out_refused>>
patchVars == <<stream_out_list_, stream_out_primary_, outputState, patch_map_, use_spk_whs_combo>>

\* PAL_DEVICE_NONE, what a new array is filled with.
Unset == "unset"
UsbDevices == {"usb"}

\* std::set::erase
Erased(devices, d) ==
  IF Contains(devices, d) THEN RemoveAt(devices, CHOOSE i \in DOMAIN devices : devices[i] = d)
  ELSE devices

\* The combination speaker and wired device is one PAL device with a key of its own.
Combined(devices) ==
  IF use_spk_whs_combo /\ Contains(devices, "speaker")
  THEN Erased(Erased(devices, "headset"), "headphone")
  ELSE devices

PatchesInit ==
  /\ stream_out_list_ = {} /\ stream_out_primary_ = NoOutput
  /\ mAndroidOutDevices = [s \in Outputs |-> <<>>]
  /\ mPalOutDevice = [s \in Outputs |-> <<>>]
  /\ out_session = [s \in Outputs |-> <<>>]
  /\ patch_map_ = <<>>
  /\ use_spk_whs_combo \in BOOLEAN
  /\ overrun = {} /\ out_refused = {}

-----------------------------------------------------------------------------
\* The audio server keeps one patch for a stream.
Patched == {patch_map_[h].stream : h \in DOMAIN patch_map_}

\* CreateStreamOut and the constructor.  A new primary stream replaces the one the voice calls keep.  The
\* audio server gives no stream the io handle of a patch that is still there.
CreateStreamOut(s, devices) ==
  /\ s \notin stream_out_list_ \cup Patched
  /\ stream_out_list_' = stream_out_list_ \cup {s}
  /\ stream_out_primary_' = IF s = Primary THEN s ELSE stream_out_primary_
  /\ mAndroidOutDevices' = [mAndroidOutDevices EXCEPT ![s] = Combined(devices)]
  /\ mPalOutDevice' = [mPalOutDevice EXCEPT ![s] = Combined(devices)]
  /\ out_session' = [out_session EXCEPT ![s] = <<>>]
  /\ overrun' = overrun \ {s} /\ out_refused' = out_refused \ {s}
  /\ UNCHANGED <<patch_map_, use_spk_whs_combo>>

\* CloseStreamOut: the stream is destroyed, and with it its session, unless the voice
\* calls keep it.
CloseStreamOut(s) ==
  /\ s \in stream_out_list_
  /\ stream_out_list_' = stream_out_list_ \ {s}
  /\ out_session' = [out_session EXCEPT ![s] = IF s = stream_out_primary_ THEN @ ELSE <<>>]
  /\ UNCHANGED <<stream_out_primary_, mAndroidOutDevices, mPalOutDevice, patch_map_,
                 use_spk_whs_combo, overrun, out_refused>>

\* StreamOutPrimary::Open: as many devices of the array as mAndroidOutDevices has, also
\* when the array has fewer (Unset stands for what is read then).
OpenOnDevices(s) ==
  /\ s \in stream_out_list_ /\ out_session[s] = <<>>
  /\ LET n == Len(mAndroidOutDevices[s])
     IN out_session' = [out_session EXCEPT ![s] =
          [i \in 1..n |-> IF i <= Len(mPalOutDevice[s]) THEN mPalOutDevice[s][i] ELSE Unset]]
  /\ UNCHANGED <<stream_out_list_, stream_out_primary_, mAndroidOutDevices, mPalOutDevice,
                 patch_map_, use_spk_whs_combo, overrun, out_refused>>

\* Standby
CloseSession(s) ==
  /\ out_session[s] # <<>>
  /\ out_session' = [out_session EXCEPT ![s] = <<>>]
  /\ out_refused' = out_refused \ {s}
  /\ UNCHANGED <<stream_out_list_, stream_out_primary_, mAndroidOutDevices, mPalOutDevice,
                 patch_map_, use_spk_whs_combo, overrun>>

-----------------------------------------------------------------------------
\* The array RouteStream fills: a new one when the number of devices is not that of
\* mAndroidOutDevices, else the one there is, however long.
ArrayFor(s, new) ==
  IF Len(new) # Len(mAndroidOutDevices[s]) THEN [i \in DOMAIN new |-> Unset] ELSE mPalOutDevice[s]

\* The loop over the array, up to the n-th of the new devices.
FillArray(s, new, n) ==
  LET array == ArrayFor(s, new)
  IN /\ mPalOutDevice' = [mPalOutDevice EXCEPT ![s] =
          [i \in DOMAIN array |-> IF i <= n THEN new[i] ELSE array[i]]]
     /\ overrun' = IF n <= Len(array) THEN overrun ELSE overrun \cup {s}

\* RouteStream that ends at a USB device which does not answer: the array already has the
\* new devices up to that one, mAndroidOutDevices still the old ones.
RouteUsbFails(s, devices) ==
  /\ LET new == Combined(devices)
     IN \E i \in DOMAIN new : new[i] \in UsbDevices /\ FillArray(s, new, i)
  /\ UNCHANGED <<mAndroidOutDevices, out_session, out_refused>>

\* RouteStream whose session refuses the devices: the stream says it has them.
RouteRefused(s, devices) ==
  /\ out_session[s] # <<>>
  /\ LET new == Combined(devices)
     IN /\ FillArray(s, new, Len(new))
        /\ mAndroidOutDevices' = [mAndroidOutDevices EXCEPT ![s] = new]
        /\ out_refused' = IF out_session[s] = new THEN out_refused ELSE out_refused \cup {s}
  /\ UNCHANGED out_session

\* RouteStream.
RouteStream(s, devices) ==
  /\ LET new == Combined(devices)
     IN /\ FillArray(s, new, Len(new))
        /\ mAndroidOutDevices' = [mAndroidOutDevices EXCEPT ![s] = new]
        /\ out_session' = [out_session EXCEPT ![s] = IF @ = <<>> THEN @ ELSE new]
  /\ out_refused' = out_refused \ {s}

\* AUDIO_PARAMETER_KEY_HAC: a stream is routed once more to the devices it has.
Reroute(s) ==
  /\ s \in stream_out_list_ /\ mAndroidOutDevices[s] # <<>>
  /\ \/ RouteStream(s, mAndroidOutDevices[s])
     \/ RouteRefused(s, mAndroidOutDevices[s])
     \/ RouteUsbFails(s, mAndroidOutDevices[s])
  /\ UNCHANGED <<stream_out_list_, stream_out_primary_, patch_map_, use_spk_whs_combo>>

SetPatch(h, s, devices, unrouted) ==
  patch_map_' = [g \in DOMAIN patch_map_ \cup {h} |->
    IF g = h THEN [stream |-> s, sinks |-> devices, unrouted |-> unrouted] ELSE patch_map_[g]]

UNCHANGED_streams == UNCHANGED <<stream_out_list_, stream_out_primary_, use_spk_whs_combo>>

\* Mutant: the patch goes into the map before its result is known.
CreatePatchAlways(h, s, devices) ==
  /\ s \in stream_out_list_ \ Patched /\ h \notin DOMAIN patch_map_
  /\ RouteStream(s, devices) \/ RouteRefused(s, devices) \/ RouteUsbFails(s, devices)
  /\ SetPatch(h, s, devices, FALSE)
  /\ UNCHANGED_streams

\* CreateAudioPatch with no handle: the patch is kept when both the voice calls and the
\* stream take the devices.  When only the calls refuse, the stream has them all the same.
CreatePatch(h, s, devices) ==
  /\ s \in stream_out_list_ \ Patched /\ h \notin DOMAIN patch_map_
  /\ \/ RouteStream(s, devices) /\ SetPatch(h, s, devices, FALSE)
     \/ RouteStream(s, devices) /\ UNCHANGED patch_map_
     \/ (RouteRefused(s, devices) \/ RouteUsbFails(s, devices)) /\ UNCHANGED patch_map_
  /\ UNCHANGED_streams

\* CreateAudioPatch with the handle of a patch: its sinks are overwritten before the
\* routing, and stay when it fails.
UpdatePatch(h, devices) ==
  /\ h \in DOMAIN patch_map_
  /\ LET s == patch_map_[h].stream
     IN /\ s \in stream_out_list_
        /\ \/ RouteStream(s, devices) /\ SetPatch(h, s, devices, FALSE)
           \/ RouteRefused(s, devices) /\ SetPatch(h, s, devices, FALSE)
           \/ RouteUsbFails(s, devices) /\ SetPatch(h, s, devices, TRUE)
  /\ UNCHANGED_streams

\* ReleaseAudioPatch: RouteStream({AUDIO_DEVICE_NONE}) gives the stream the device none.
\* Without its stream a patch is not found, and never leaves the map.
ReleasePatch(h) ==
  /\ h \in DOMAIN patch_map_
  /\ patch_map_[h].stream \in stream_out_list_
  /\ \/ RouteStream(patch_map_[h].stream, <<"none">>)
     \/ RouteRefused(patch_map_[h].stream, <<"none">>)
  /\ patch_map_' = Restrict(patch_map_, DOMAIN patch_map_ \ {h})
  /\ UNCHANGED_streams

PatchesNext ==
  \/ \E s \in Outputs :
       \/ \E devices \in Routes : CreateStreamOut(s, devices)
       \/ CloseStreamOut(s) \/ OpenOnDevices(s) \/ CloseSession(s) \/ Reroute(s)
  \/ \E h \in Handles :
       \/ \E devices \in Routes : UpdatePatch(h, devices)
       \/ \E s \in Outputs, devices \in Routes : CreatePatch(h, s, devices)
       \/ ReleasePatch(h)

PatchesSpec == PatchesInit /\ [][PatchesNext]_patchVars

-----------------------------------------------------------------------------
\* The variables have their types, and a stream has at most one patch.
PatchesTypeOK ==
  /\ stream_out_list_ \subseteq Outputs /\ stream_out_primary_ \in {Primary, NoOutput}
  /\ DOMAIN patch_map_ \subseteq Handles
  /\ \A h \in DOMAIN patch_map_ :
       patch_map_[h] \in [stream : Outputs, sinks : Routes, unrouted : BOOLEAN]
  /\ \A g, h \in DOMAIN patch_map_ : patch_map_[g].stream = patch_map_[h].stream => g = h
  /\ use_spk_whs_combo \in BOOLEAN
  /\ overrun \subseteq Outputs /\ out_refused \subseteq Outputs

\* A patch in the map says where its stream is: over any order of opens, closes, new,
\* changed and released patches and failures of PAL, its stream is on the sinks of the
\* patch, the array its session is opened on begins with them, however long it was left
\* by what failed before, and so does the session it has, unless it is still the one that
\* refused them: a session opened later is on them.  Only an update that ended at a USB
\* device leaves a patch the stream knows nothing of, and nothing is claimed of a stream
\* whose array was too short (AudioDevice.cpp:505-527, AudioStream.cpp:2303-2373).
PatchIsRouted ==
  \A h \in DOMAIN patch_map_ :
    LET s == patch_map_[h].stream
        sinks == Combined(patch_map_[h].sinks)
    IN s \in stream_out_list_ \ overrun /\ ~patch_map_[h].unrouted =>
         /\ mAndroidOutDevices[s] = sinks
         /\ IsPrefix(sinks, mPalOutDevice[s])
         /\ s \notin out_refused => out_session[s] \in {<<>>, sinks}
=============================================================================
