---------------------------- MODULE OffloadEffects ----------------------------
(***************************************************************************)
(* The offload effects bundle of audio-effects/post_proc: the effects the  *)
(* audio server creates (bundle.c with bass_boost.c, virtualizer.c,        *)
(* equalizer.c, reverb.c), the outputs the HAL starts and stops, and the   *)
(* modules switched on in the DSP behind the PAL session of each output.   *)
(*                                                                         *)
(* Every entry point holds the library's `lock`, so each is one step.  An  *)
(* effect can be created, released, moved, enabled and changed at any time *)
(* before, while and after its output plays: what it last told the DSP is  *)
(* only remembered in its enable flag.                                     *)
(***************************************************************************)
EXTENDS Naturals, FiniteSets

CONSTANTS
  Effects,      \* the effect contexts
  Outputs,      \* the io handles of the offload outputs
  Sessions,     \* the PAL session handles
  Null,         \* the NULL handle
  Kinds,        \* the kinds of effect this instance may create
  PbeEnabled    \* property vendor.audio.safx.pbe.enabled

AllKinds == {"bass", "virtualizer", "equalizer", "presetReverb", "envReverb"}

ASSUME HandleAssumption == Null \notin Sessions \cup Outputs
ASSUME KindAssumption == Kinds \subseteq AllKinds /\ PbeEnabled \in BOOLEAN

VARIABLES
  kind,               \* of each effect: which file its ops are from
  state,              \* context->state; "none" when the context does not exist
  out_handle,         \* the output an effect belongs to
  pal_stream_handle,  \* the session an effect sends its parameters to
  settings,           \* of each effect, see Settings
  outputs,            \* active_outputs_list: the session of each active output
  effects_list,       \* of each active output
  dsp,                \* the modules switched on in each session
  contested           \* history: sessions on which two effects of a kind have met

listVars == <<out_handle, pal_stream_handle, outputs, effects_list, contested>>
vars == <<kind, state, listVars, settings, dsp>>

Devices == {"NONE", "SPEAKER", "HEADSET", "EARPIECE"}

\* The DSP modules an effect of a kind drives.  The bass effect holds two
\* sub-contexts, one for head sets (bass boost) and one for the speaker (PBE).
ModulesOf(k) ==
  [bass |-> {"bassboost", "pbe"}, virtualizer |-> {"virt"}, equalizer |-> {"eq"},
   presetReverb |-> {"reverb"}, envReverb |-> {"reverb"}][k]

AllModules == {"bassboost", "pbe", "virt", "eq", "reverb"}

\* strength: 0, or "some" strength; for a preset reverb 0 is PRESET_NONE.
\* enable_flag: the modules whose parameters say enabled.  temp_disabled: the
\* modules switched off for the device's sake.
Settings == [strength : {0, 1}, device : Devices, forced : BOOLEAN,
             enable_flag : SUBSET AllModules, temp_disabled : SUBSET AllModules]

\* *_init leaves the strength (and the preset) alone; it is 0 in a new context.
Initialized(strength) ==
  [strength |-> strength, device |-> "NONE", forced |-> FALSE,
   enable_flag |-> {}, temp_disabled |-> {}]

Exists(e) == state[e] # "none"
IsActive(e) == state[e] = "ACTIVE"
Modules(e) == ModulesOf(kind[e])

\* The devices a module works on; the equalizer and the reverb take any.
BassBoostDevices == {"HEADSET"}
PbeDevices == IF PbeEnabled THEN {"SPEAKER"} ELSE {}
VirtualizerDevices == Devices \ {"SPEAKER"}

-----------------------------------------------------------------------------
(* The operations of the effects: what each does to the settings, and what *)
(* it sends.                                                               *)

\* *_send_params_pal with an ENABLE flag for each module of `sent`: the DSP
\* follows the flags F.
Sent(on, sent, F) == (on \ sent) \cup (sent \cap F)

\* An effect gets new settings and sends the flags of some of its modules, when
\* it has a session to send to.
Update(e, new, sent) ==
  /\ settings' = [settings EXCEPT ![e] = new]
  /\ dsp' = [s \in Sessions |->
              IF s = pal_stream_handle[e] THEN Sent(dsp[s], sent, new.enable_flag)
                                          ELSE dsp[s]]

\* Which modules *_start sends to a session that starts: all that are flagged,
\* but an environmental reverb sends nothing.
SentOnStart(e) == IF kind[e] = "envReverb" THEN {} ELSE settings[e].enable_flag

\* Mutant: what is flagged with strength 0 is not switched off.
SentOnStopStrong(e) == IF settings[e].strength = 0 THEN {} ELSE settings[e].enable_flag

\* Which modules *_stop switches off: all that are flagged but PBE.
SentOnStop(e) == settings[e].enable_flag \ {"pbe"}

\* What is on in session s after the effects of S stopped and those of T started.
Restarted(s, S, T) ==
  (dsp[s] \ UNION {SentOnStop(e) : e \in S}) \cup UNION {SentOnStart(e) : e \in T}

-----------------------------------------------------------------------------
Init ==
  /\ kind = [e \in Effects |-> "none"]
  /\ state = [e \in Effects |-> "none"]
  /\ out_handle = [e \in Effects |-> Null]
  /\ pal_stream_handle = [e \in Effects |-> Null]
  /\ settings = [e \in Effects |-> Initialized(0)]
  /\ outputs = [o \in Outputs |-> Null]
  /\ effects_list = [o \in Outputs |-> {}]
  /\ dsp = [s \in Sessions |-> {}]
  /\ contested = {}

Active(o) == outputs[o] # Null

\* Two effects of a kind on a session contest it, until its output stops.
Contest ==
  contested' = {s \in Sessions :
    /\ \E o \in Outputs : outputs'[o] = s
    /\ \/ s \in contested
       \/ \E e, f \in Effects : /\ e # f /\ kind'[e] = kind'[f]
                               /\ pal_stream_handle'[e] = s /\ pal_stream_handle'[f] = s}

\* The effect leaves the output it was on and joins output o, if that is active;
\* o = Null when the effect goes away.
Move(e, o) ==
  LET old == out_handle[e]
      left == IF e \in effects_list[old] THEN pal_stream_handle[e] ELSE Null
      met == IF o \in Outputs /\ Active(o) THEN outputs[o] ELSE Null
  IN /\ effects_list' = [p \in Outputs |->
                          IF p = o /\ Active(o) THEN effects_list[p] \cup {e}
                          ELSE IF p = old THEN effects_list[p] \ {e}
                          ELSE effects_list[p]]
     /\ pal_stream_handle' = [pal_stream_handle EXCEPT ![e] = met]
     /\ dsp' = [s \in Sessions |-> Restarted(s, IF s = left THEN {e} ELSE {},
                                                IF s = met THEN {e} ELSE {})]
     /\ UNCHANGED outputs

\* effect_lib_create: a new context joins its output when that is active.
Create(e, k, o) ==
  /\ ~Exists(e)
  /\ kind' = [kind EXCEPT ![e] = k]
  /\ state' = [state EXCEPT ![e] = "INITIALIZED"]
  /\ out_handle' = [out_handle EXCEPT ![e] = o]
  /\ settings' = [settings EXCEPT ![e] = Initialized(0)]
  /\ effects_list' = IF Active(o) THEN [effects_list EXCEPT ![o] = @ \cup {e}]
                                  ELSE effects_list
  /\ pal_stream_handle' = [pal_stream_handle EXCEPT ![e] = outputs[o]]
  /\ UNCHANGED <<outputs, dsp>>
  /\ Contest

Free(e) ==
  /\ state' = [state EXCEPT ![e] = "none"]
  /\ kind' = [kind EXCEPT ![e] = "none"]
  /\ settings' = [settings EXCEPT ![e] = Initialized(0)]
  /\ out_handle' = [out_handle EXCEPT ![e] = Null]

\* effect_lib_release, whether the effect is enabled or not.
Release(e) ==
  /\ Exists(e)
  /\ Move(e, Null)
  /\ Free(e)
  /\ Contest

\* EFFECT_CMD_INIT, which the framework sends to a new effect, before it enables it.  (Of an
\* ACTIVE effect the code takes it too, and forgets flags the DSP has.)  A
\* preset reverb loads its preset if it has not yet, and sends its flag with it.
Reinit(e) ==
  /\ state[e] = "INITIALIZED"
  /\ \E sent \in {{}, {"reverb"}} :
       /\ sent # {} => kind[e] = "presetReverb" /\ settings[e].strength > 0
       /\ Update(e, Initialized(settings[e].strength), sent)
  /\ UNCHANGED <<kind, state, listVars>>

\* Modules `fresh` become flagged, and those of `sent` are sent.
Raise(e, fresh, sent) ==
  Update(e, [settings[e] EXCEPT !.enable_flag = @ \cup fresh], fresh \cap sent)

\* Modules of the effect neither flagged nor disabled for the device.
Fresh(e) == Modules(e) \ (settings[e].enable_flag \cup settings[e].temp_disabled)

\* bassboost_enable and pbe_enable: strength 0 is flagged, not sent.
EnableBass(e) ==
  /\ kind[e] = "bass"
  /\ Raise(e, Fresh(e), {m \in Modules(e) : m = "bassboost" => settings[e].strength > 0})

\* virtualizer_enable: strength 0 is flagged, not sent.
EnableVirtualizer(e) ==
  /\ kind[e] = "virtualizer"
  /\ Raise(e, Fresh(e), {m \in Modules(e) : settings[e].strength > 0})

SentOnEqualizerEnable(e) == Modules(e)

\* equalizer_enable.
EnableEqualizer(e) ==
  kind[e] = "equalizer" /\ Raise(e, Fresh(e), SentOnEqualizerEnable(e))

\* reverb_enable: only flagged, and not that without a preset.
EnableReverb(e) ==
  /\ kind[e] \in {"presetReverb", "envReverb"}
  /\ Raise(e, {m \in Fresh(e) : kind[e] = "presetReverb" => settings[e].strength > 0}, {})

\* EFFECT_CMD_ENABLE.
Enable(e) ==
  /\ state[e] = "INITIALIZED"
  /\ state' = [state EXCEPT ![e] = "ACTIVE"]
  /\ EnableBass(e) \/ EnableVirtualizer(e) \/ EnableEqualizer(e) \/ EnableReverb(e)
  /\ UNCHANGED <<kind, listVars>>

\* What *_disable sends: whatever is flagged, of any kind.
SentOnDisable(e) == settings[e].enable_flag

\* EFFECT_CMD_DISABLE.
Disable(e) ==
  /\ IsActive(e)
  /\ state' = [state EXCEPT ![e] = "INITIALIZED"]
  /\ Update(e, [settings[e] EXCEPT !.enable_flag = {}], SentOnDisable(e))
  /\ UNCHANGED <<kind, listVars>>

-----------------------------------------------------------------------------
(* EFFECT_CMD_SET_PARAM.                                                   *)

\* Bass boost strength: ignored but on a head set, or before any device is set.
SetBassStrength(e, n) ==
  /\ kind[e] = "bass" /\ settings[e].device \in {"NONE", "HEADSET"}
  /\ Update(e, [settings[e] EXCEPT !.strength = n], {"bassboost"})

VirtualizerFlag(e, n) == n > 0 /\ "virt" \notin settings[e].temp_disabled

\* Virtualizer strength: 0 switches the module off.
SetVirtualizerStrength(e, n) ==
  /\ kind[e] = "virtualizer"
  /\ LET cur == settings[e]
         flags == IF ~IsActive(e) THEN cur.enable_flag
                  ELSE IF VirtualizerFlag(e, n) THEN {"virt"} ELSE {}
     IN Update(e, [cur EXCEPT !.strength = n, !.enable_flag = flags], {"virt"})

\* Reverb preset: PRESET_NONE switches the module off.
SetReverbPreset(e, n) ==
  /\ kind[e] = "presetReverb"
  /\ LET cur == settings[e]
     IN IF IsActive(e)
        THEN Update(e, [cur EXCEPT !.strength = n,
                                   !.enable_flag = IF n > 0 THEN {"reverb"} ELSE {}],
                    {"reverb"})
        ELSE Update(e, [cur EXCEPT !.strength = n], {})

\* Equalizer presets and bands: the flag is sent along with the value.
SetEqualizer(e) == kind[e] = "equalizer" /\ Update(e, settings[e], Modules(e))

\* Environmental reverb levels: the flag is sent along with the value.
SetReverbLevel(e) == kind[e] = "envReverb" /\ Update(e, settings[e], Modules(e))

\* A virtualizer that is ACTIVE is switched on or off and told the DSP; `keep`
\* is what stays of the settings.
Switch(e, keep, use) ==
  LET off == "virt" \in keep.temp_disabled
  IN IF use # off
     THEN Update(e, keep, {})
     ELSE Update(e,
            [keep EXCEPT
               !.temp_disabled = IF use THEN {} ELSE {"virt"},
               !.enable_flag = IF ~IsActive(e) THEN @ ELSE IF use THEN {"virt"} ELSE {}],
            IF IsActive(e) THEN {"virt"} ELSE {})

\* Mutant: leaving the forced mode does not look at the device.
UseUnforcedAnyDevice(e) == IsActive(e)

UseUnforced(e) == IsActive(e) /\ settings[e].device \in VirtualizerDevices

\* Virtualizer, forced mode: a supported device forces it, NONE or an
\* unsupported one ends that.
ForceMode(e, d) ==
  /\ kind[e] = "virtualizer"
  /\ LET force == d # "NONE" /\ d \in VirtualizerDevices
     IN Switch(e, [settings[e] EXCEPT !.forced = force],
               IF force THEN IsActive(e) ELSE UseUnforced(e))

SetParameter(e) ==
  /\ Exists(e)
  /\ \/ \E n \in {0, 1} : SetBassStrength(e, n) \/ SetVirtualizerStrength(e, n)
                            \/ SetReverbPreset(e, n)
     \/ SetEqualizer(e) \/ SetReverbLevel(e)
     \/ \E d \in Devices : ForceMode(e, d)
  /\ UNCHANGED <<kind, state, listVars>>

-----------------------------------------------------------------------------
(* EFFECT_CMD_SET_DEVICE.  (The equalizer and the reverb only store it.)   *)

\* The bass sub-contexts are never marked ACTIVE, so bassboost_set_device and
\* pbe_set_device change temp_disabled and neither the flag nor the DSP.
SetBassDevice(e, d) ==
  /\ kind[e] = "bass"
  /\ Update(e, [settings[e] EXCEPT !.device = d,
                  !.temp_disabled = IF d \in BassBoostDevices THEN {"pbe"}
                                    ELSE IF d \in PbeDevices THEN {"bassboost"}
                                    ELSE {"bassboost", "pbe"}], {})

SetVirtualizerDevice(e, d) ==
  /\ kind[e] = "virtualizer"
  /\ LET cur == [settings[e] EXCEPT !.device = d]
     IN IF cur.forced THEN Update(e, cur, {}) ELSE Switch(e, cur, d \in VirtualizerDevices)

SetDevice(e, d) ==
  /\ Exists(e) /\ d # "NONE"
  /\ SetBassDevice(e, d) \/ SetVirtualizerDevice(e, d)
  /\ UNCHANGED <<kind, state, listVars>>

MoveTo(e, o) == Move(e, o)

\* EFFECT_CMD_OFFLOAD: the effect moves to another output.
Offload(e, o) ==
  /\ Exists(e) /\ o # out_handle[e]
  /\ MoveTo(e, o)
  /\ out_handle' = [out_handle EXCEPT ![e] = o]
  /\ UNCHANGED <<kind, state, settings>>
  /\ Contest

-----------------------------------------------------------------------------
(* The interface to the HAL (StreamOut's StartOffloadEffects and Stop-).   *)

\* offload_effects_bundle_hal_start_output: the effects of that output are
\* started on the session, which the stream has just opened.  (An output that
\* is started already is refused.)
HalStart(o, s) ==
  /\ ~Active(o) /\ \A p \in Outputs : outputs[p] # s
  /\ dsp[s] = {}
  /\ LET on == {e \in Effects : Exists(e) /\ out_handle[e] = o}
     IN /\ effects_list' = [effects_list EXCEPT ![o] = on]
        /\ pal_stream_handle' = [e \in Effects |-> IF e \in on THEN s
                                                  ELSE pal_stream_handle[e]]
        /\ dsp' = [dsp EXCEPT ![s] = Restarted(s, {}, on)]
  /\ outputs' = [outputs EXCEPT ![o] = s]
  /\ UNCHANGED <<kind, state, out_handle, settings>>
  /\ Contest

\* offload_effects_bundle_hal_stop_output: the listed effects are stopped.
HalStop(o) ==
  /\ Active(o)
  /\ LET on == effects_list[o]
     IN /\ pal_stream_handle' = [e \in Effects |-> IF e \in on THEN Null
                                                  ELSE pal_stream_handle[e]]
        /\ dsp' = [dsp EXCEPT ![outputs[o]] = Restarted(outputs[o], on, {})]
  /\ outputs' = [outputs EXCEPT ![o] = Null]
  /\ effects_list' = [effects_list EXCEPT ![o] = {}]
  /\ UNCHANGED <<kind, state, out_handle, settings>>
  /\ Contest

\* pal_stream_close after the stop: what was left on is gone with the session.
PalClose(s) ==
  /\ \A o \in Outputs : outputs[o] # s
  /\ dsp[s] # {}
  /\ dsp' = [dsp EXCEPT ![s] = {}]
  /\ UNCHANGED <<kind, state, listVars, settings>>

Next ==
  \/ \E e \in Effects :
       \/ \E k \in Kinds, o \in Outputs : Create(e, k, o)
       \/ Release(e) \/ Reinit(e) \/ Enable(e) \/ Disable(e) \/ SetParameter(e)
       \/ \E d \in Devices : SetDevice(e, d)
       \/ \E o \in Outputs : Offload(e, o)
  \/ \E o \in Outputs : HalStop(o) \/ \E s \in Sessions : HalStart(o, s)
  \/ \E s \in Sessions : PalClose(s)

Spec == Init /\ [][Next]_vars

-----------------------------------------------------------------------------
(* Properties.                                                             *)

\* Every variable has its type; a context that does not exist has no output,
\* and an effect flags only modules it drives.
TypeOK ==
  /\ kind \in [Effects -> Kinds \cup {"none"}]
  /\ state \in [Effects -> {"none", "INITIALIZED", "ACTIVE"}]
  /\ out_handle \in [Effects -> Outputs \cup {Null}]
  /\ pal_stream_handle \in [Effects -> Sessions \cup {Null}]
  /\ settings \in [Effects -> Settings]
  /\ outputs \in [Outputs -> Sessions \cup {Null}]
  /\ effects_list \in [Outputs -> SUBSET Effects]
  /\ dsp \in [Sessions -> SUBSET AllModules]
  /\ contested \subseteq Sessions
  /\ \A e \in Effects :
       /\ Exists(e) <=> kind[e] # "none"
       /\ Exists(e) <=> out_handle[e] # Null
       /\ Exists(e) => settings[e].enable_flag \subseteq Modules(e)

\* However effects and outputs come, move and go, an effect is listed exactly on
\* its output while that is active, and sends exactly to that output's session.
ListsAgree ==
  \A e \in Effects :
    /\ \A o \in Outputs : e \in effects_list[o] <=> Active(o) /\ out_handle[e] = o
    /\ pal_stream_handle[e] = IF Exists(e) THEN outputs[out_handle[e]] ELSE Null

\* A module that is on in a session was switched on for an effect that is still
\* attached to that session and still wants it on: none stays on for an effect
\* that was disabled, moved or released.  (PBE is the exception: pbe_stop tells
\* the DSP nothing.)
NothingLeftOn ==
  \A s \in Sessions : \A m \in dsp[s] \ {"pbe"} :
    \E e \in Effects : pal_stream_handle[e] = s /\ m \in settings[e].enable_flag

\* No two effects of a kind have been on the session e sends to.
Alone(e) == pal_stream_handle[e] \notin contested

\* An effect that should be heard is: a flagged module is on in the session of
\* its effect, and an enabled equalizer, or virtualizer with strength and not
\* disabled for its device, is flagged, in whatever order it was created,
\* enabled, given its strength, moved, and its output started.  Strength 0 may
\* be off, two effects of a kind on one session switch each other off, and
\* a reverb is not switched on before its output starts or its next parameter.
EnabledIsOn ==
  \A e \in Effects :
    Exists(e) /\ Alone(e) /\ kind[e] \notin {"presetReverb", "envReverb"} =>
      \A m \in {n \in Modules(e) : n \in {"bassboost", "virt"} => settings[e].strength > 0} :
        /\ m \in settings[e].enable_flag /\ pal_stream_handle[e] # Null
             => m \in dsp[pal_stream_handle[e]]
        /\ IsActive(e) /\ kind[e] # "bass" /\ m \notin settings[e].temp_disabled
             => m \in settings[e].enable_flag

\* A virtualizer on a device it does not support is off unless its mode is
\* forced, through changes of device, of mode and of strength, and whatever it
\* was when it was enabled.
DeviceRespected ==
  \A e \in Effects :
    /\ kind[e] = "virtualizer" /\ ~settings[e].forced
    /\ settings[e].device \notin VirtualizerDevices
    => "virt" \notin settings[e].enable_flag

\* The modules on in the DSP are those the effects, as they are enabled and as their
\* devices allow, should have on.
RightModulesOn == EnabledIsOn /\ DeviceRespected

==============================================================================
