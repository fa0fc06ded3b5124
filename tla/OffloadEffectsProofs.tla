------------------------- MODULE OffloadEffectsProofs -------------------------
(***************************************************************************)
(* The safety of the offload effects bundle, for any numbers of effects,   *)
(* outputs and sessions.                                                   *)
(*                                                                         *)
(* What an effect remembers (SettingsOK) is inductive by itself.  The DSP  *)
(* follows it as long as each update of the settings sends the flags it    *)
(* changes (Conveys): that is the obligation of each command, and          *)
(* UpdateInv is the one place where it is used.                            *)
(***************************************************************************)
EXTENDS OffloadEffects, TLAPS

Reverbs == {"presetReverb", "envReverb"}

\* The modules a send of settings x may leave off though they are flagged.
Weak(x) == IF x.strength > 0 THEN {} ELSE {"bassboost", "virt"}

\* What an effect of kind k in state st remembers: nothing is flagged unless it is
\* enabled; on an unsupported device an unforced virtualizer is disabled for the
\* device, and so not flagged; what is enabled and not disabled is flagged.
SettingOK(k, st, x) ==
  /\ x \in Settings
  /\ k # "none" => x.enable_flag \subseteq ModulesOf(k)
  /\ st # "ACTIVE" => x.enable_flag = {}
  /\ k = "virtualizer" =>
       /\ "virt" \in x.temp_disabled => "virt" \notin x.enable_flag
       /\ ~x.forced /\ x.device \notin VirtualizerDevices => "virt" \in x.temp_disabled
  /\ st = "ACTIVE" /\ k = "equalizer" => "eq" \in x.temp_disabled \cup x.enable_flag
  /\ st = "ACTIVE" /\ k = "virtualizer" /\ x.strength > 0
       => "virt" \in x.temp_disabled \cup x.enable_flag

BundleTypes ==
  /\ kind \in [Effects -> Kinds \cup {"none"}]
  /\ state \in [Effects -> {"none", "INITIALIZED", "ACTIVE"}]
  /\ out_handle \in [Effects -> Outputs \cup {Null}]
  /\ pal_stream_handle \in [Effects -> Sessions \cup {Null}]
  /\ settings \in [Effects -> Settings]
  /\ outputs \in [Outputs -> Sessions \cup {Null}]
  /\ effects_list \in [Outputs -> SUBSET Effects]
  /\ dsp \in [Sessions -> SUBSET AllModules]
  /\ contested \subseteq Sessions
  /\ \A e \in Effects : /\ Exists(e) <=> kind[e] # "none"
                        /\ Exists(e) <=> out_handle[e] # Null

SettingsOK == \A e \in Effects : SettingOK(kind[e], state[e], settings[e])

\* No session belongs to two outputs, and two effects of a kind have met on a session
\* they share.
SessionsDiffer ==
  \A o, p \in Outputs : outputs[o] = outputs[p] /\ outputs[o] # Null => o = p

KindsDiffer ==
  \A e, f \in Effects :
    /\ e # f /\ kind[e] = kind[f] /\ pal_stream_handle[e] = pal_stream_handle[f]
    /\ pal_stream_handle[e] # Null
    => pal_stream_handle[e] \in contested

FlaggedIsOn ==
  \A e \in Effects :
    Exists(e) /\ Alone(e) /\ kind[e] \notin Reverbs /\ pal_stream_handle[e] # Null =>
      settings[e].enable_flag \ Weak(settings[e]) \subseteq dsp[pal_stream_handle[e]]

ListsOK == BundleTypes /\ ListsAgree /\ SessionsDiffer /\ KindsDiffer

BundleInv == ListsOK /\ SettingsOK /\ NothingLeftOn /\ FlaggedIsOn

-----------------------------------------------------------------------------
(* The modules of the kinds.                                               *)

LEMMA KindModules ==
  /\ ModulesOf("bass") = {"bassboost", "pbe"}
  /\ ModulesOf("virtualizer") = {"virt"}
  /\ ModulesOf("equalizer") = {"eq"}
  /\ ModulesOf("presetReverb") = {"reverb"}
  /\ ModulesOf("envReverb") = {"reverb"}
BY DEF ModulesOf

LEMMA ModulesDisjoint ==
  ASSUME NEW k \in AllKinds, NEW l \in AllKinds, k # l, k \notin Reverbs
  PROVE  ModulesOf(k) \cap ModulesOf(l) = {}
BY KindModules DEF AllKinds, Reverbs

LEMMA ModulesKnown ==
  ASSUME NEW k \in AllKinds PROVE ModulesOf(k) \subseteq AllModules
BY KindModules DEF AllKinds, AllModules

\* A fresh context has nothing flagged and nothing disabled.
LEMMA InitializedOK ==
  ASSUME NEW k, NEW st \in {"none", "INITIALIZED"}, NEW n \in {0, 1}
  PROVE  /\ SettingOK(k, st, Initialized(n))
         /\ Initialized(n).enable_flag = {}
BY DEF SettingOK, Initialized, Settings, Devices, VirtualizerDevices, AllModules

-----------------------------------------------------------------------------
(* Updates of one effect.                                                  *)

\* New settings of effect e, with the flags of `sent` told to the DSP: what is no
\* longer flagged is sent, and what is flagged was on before or is sent.
Conveys(e, new, sent) ==
  /\ SettingOK(kind[e], state'[e], new)
  /\ sent \subseteq Modules(e)
  /\ settings[e].enable_flag \ new.enable_flag \subseteq sent
  /\ kind[e] \notin Reverbs =>
       new.enable_flag \ Weak(new)
         \subseteq sent \cup (settings[e].enable_flag \ Weak(settings[e]))

LEMMA UpdateInv ==
  ASSUME BundleInv, NEW e \in Effects, Exists(e), NEW new, NEW sent,
         NEW st \in {"INITIALIZED", "ACTIVE"}, state' = [state EXCEPT ![e] = st],
         Update(e, new, sent), Conveys(e, new, sent), UNCHANGED <<kind, listVars>>
  PROVE  BundleInv'
<1> USE DEF BundleInv, ListsOK, Exists, listVars
<1>1. kind[e] \in AllKinds /\ sent \subseteq AllModules
  BY ModulesKnown, KindAssumption DEF BundleTypes, Conveys, Modules
<1>2. new \in Settings /\ state'[e] = st
  BY DEF Conveys, SettingOK, BundleTypes
<1>3. settings' = [settings EXCEPT ![e] = new]
  BY DEF Update
<1>4. dsp' = [s \in Sessions |-> IF s = pal_stream_handle[e]
                                 THEN (dsp[s] \ sent) \cup (sent \cap new.enable_flag)
                                 ELSE dsp[s]]
  BY DEF Update, Sent
<1>5. BundleTypes'
  <2>1. dsp' \in [Sessions -> SUBSET AllModules]
    BY <1>1, <1>4 DEF BundleTypes
  <2> QED
    BY <1>2, <1>3, <2>1 DEF BundleTypes
<1>6. (ListsAgree /\ SessionsDiffer /\ KindsDiffer)'
  BY DEF ListsAgree, Active, SessionsDiffer, KindsDiffer, BundleTypes
<1>7. SettingsOK'
  BY <1>2, <1>3 DEF SettingsOK, Conveys, BundleTypes
<1>8. NothingLeftOn'
  <2> SUFFICES ASSUME NEW s \in Sessions, NEW x \in dsp'[s] \ {"pbe"}
               PROVE  \E f \in Effects : /\ pal_stream_handle[f] = s
                                         /\ x \in settings'[f].enable_flag
    BY DEF NothingLeftOn
  <2>1. CASE x \in dsp[s]
    <3>1. PICK f \in Effects : pal_stream_handle[f] = s /\ x \in settings[f].enable_flag
      BY <2>1 DEF NothingLeftOn
    <3>2. CASE f # e
      BY <1>3, <3>1, <3>2 DEF BundleTypes
    <3>3. CASE f = e
      <4>1. x \notin sent \/ x \in new.enable_flag
        BY <1>4, <3>1, <3>3
      <4>2. x \in new.enable_flag
        BY <3>1, <3>3, <4>1 DEF Conveys
      <4> QED
        BY <1>3, <3>1, <3>3, <4>2 DEF BundleTypes
    <3> QED
      BY <3>2, <3>3
  <2>2. CASE x \notin dsp[s]
    BY <1>3, <1>4, <2>2 DEF BundleTypes
  <2> QED
    BY <2>1, <2>2
<1>9. FlaggedIsOn'
  <2> SUFFICES ASSUME NEW f \in Effects, Exists(f)', Alone(f)', kind[f] \notin Reverbs,
                      pal_stream_handle[f] # Null,
                      NEW x \in settings'[f].enable_flag \ Weak(settings'[f])
               PROVE  x \in dsp'[pal_stream_handle[f]]
    BY DEF FlaggedIsOn
  <2> DEFINE s == pal_stream_handle[f]
  <2>1. s \in Sessions /\ Alone(f) /\ Exists(f)
    BY DEF BundleTypes, Alone
  <2>2. CASE f = e
    <3>1. settings'[f] = new
      BY <1>3, <2>2 DEF BundleTypes
    <3>2. x \in sent \/ x \in settings[e].enable_flag \ Weak(settings[e])
      BY <2>2, <3>1 DEF Conveys
    <3>3. x \in sent \/ x \in dsp[s]
      BY <2>1, <2>2, <3>2 DEF FlaggedIsOn
    <3> QED
      BY <1>4, <2>1, <2>2, <3>1, <3>3
  <2>3. CASE f # e
    <3>1. settings'[f] = settings[f]
      BY <1>3, <2>3 DEF BundleTypes
    <3>2. x \in dsp[s]
      BY <2>1, <3>1 DEF FlaggedIsOn
    <3>3. CASE s # pal_stream_handle[e]
      BY <1>4, <2>1, <3>2, <3>3
    <3>4. CASE s = pal_stream_handle[e]
      <4>1. kind[e] # kind[f]
        BY <2>1, <2>3, <3>4 DEF KindsDiffer, Alone
      <4>2. kind[f] \in AllKinds
        BY <2>1, KindAssumption DEF BundleTypes
      <4>3. x \notin sent
        <5>1. x \in ModulesOf(kind[f])
          BY <3>1, <4>2 DEF SettingsOK, SettingOK, AllKinds
        <5>2. ModulesOf(kind[f]) \cap ModulesOf(kind[e]) = {}
          BY <1>1, <4>1, <4>2, ModulesDisjoint
        <5> QED
          BY <5>1, <5>2 DEF Conveys, Modules
      <4> QED
        BY <1>4, <2>1, <3>2, <4>3
    <3> QED
      BY <3>3, <3>4
  <2> QED
    BY <2>2, <2>3
<1> QED
  BY <1>5, <1>6, <1>7, <1>8, <1>9

\* What is known of an effect that exists.
LEMMA EffectExists ==
  ASSUME BundleInv, NEW e \in Effects, Exists(e)
  PROVE  /\ kind[e] \in AllKinds /\ state[e] \in {"INITIALIZED", "ACTIVE"}
         /\ settings[e] \in Settings /\ SettingOK(kind[e], state[e], settings[e])
         /\ state = [state EXCEPT ![e] = state[e]]
BY KindAssumption DEF BundleInv, ListsOK, BundleTypes, Exists, SettingsOK

LEMMA ReinitInv ==
  ASSUME BundleInv, NEW e \in Effects, Reinit(e) PROVE BundleInv'
<1>1. Exists(e) /\ state[e] = "INITIALIZED" /\ state' = state
  BY DEF Reinit, Exists
<1>2. PICK sent \in {{}, {"reverb"}} :
        /\ sent # {} => kind[e] = "presetReverb"
        /\ Update(e, Initialized(settings[e].strength), sent)
  BY DEF Reinit
<1>3. Conveys(e, Initialized(settings[e].strength), sent)
  <2>1. settings[e].strength \in {0, 1} /\ settings[e].enable_flag = {}
    BY <1>1, EffectExists DEF Settings, SettingOK
  <2>2. /\ SettingOK(kind[e], state'[e], Initialized(settings[e].strength))
        /\ Initialized(settings[e].strength).enable_flag = {}
    BY <1>1, <2>1, InitializedOK
  <2> QED
    BY <1>2, <2>1, <2>2, KindModules DEF Conveys, Modules
<1> QED
  BY <1>1, <1>2, <1>3, UpdateInv, EffectExists DEF Reinit

\* Raising the flags of modules that are neither flagged nor disabled.
LEMMA RaiseConveys ==
  ASSUME BundleInv, NEW e \in Effects, state[e] = "INITIALIZED", state'[e] = "ACTIVE",
         NEW fresh \in SUBSET Fresh(e), NEW sent \in SUBSET Modules(e),
         kind[e] \notin Reverbs => fresh \ Weak(settings[e]) \subseteq sent,
         kind[e] \in {"virtualizer", "equalizer"} => fresh = Fresh(e)
  PROVE  Conveys(e, [settings[e] EXCEPT !.enable_flag = @ \cup fresh], fresh \cap sent)
<1> DEFINE new == [settings[e] EXCEPT !.enable_flag = @ \cup fresh]
<1>1. /\ kind[e] \in AllKinds /\ settings[e] \in Settings /\ settings[e].enable_flag = {}
      /\ SettingOK(kind[e], state[e], settings[e])
  BY EffectExists DEF Exists, SettingOK
<1>2. fresh \subseteq Modules(e) \ settings[e].temp_disabled /\ fresh \subseteq AllModules
  BY <1>1, ModulesKnown DEF Fresh, Modules
<1>3. /\ new \in Settings /\ new.enable_flag = fresh /\ new.strength = settings[e].strength
      /\ new.temp_disabled = settings[e].temp_disabled
      /\ new.device = settings[e].device /\ new.forced = settings[e].forced
  BY <1>1, <1>2 DEF Settings
<1>4. kind[e] = "equalizer" => "eq" \in settings[e].temp_disabled \cup fresh
  BY <1>1, KindModules DEF Fresh, Modules
<1>5. kind[e] = "virtualizer" => "virt" \in settings[e].temp_disabled \cup fresh
  BY <1>1, KindModules DEF Fresh, Modules
<1>6. SettingOK(kind[e], "ACTIVE", new)
  BY <1>1, <1>2, <1>3, <1>4, <1>5 DEF SettingOK, Modules
<1> HIDE DEF new
<1>7. Conveys(e, new, fresh \cap sent)
  BY <1>1, <1>2, <1>3, <1>6 DEF Conveys, Weak
<1> QED
  BY <1>7 DEF new

LEMMA EnableInv ==
  ASSUME BundleInv, NEW e \in Effects, Enable(e) PROVE BundleInv'
<1>1. /\ Exists(e) /\ state[e] = "INITIALIZED" /\ state' = [state EXCEPT ![e] = "ACTIVE"]
      /\ state'[e] = "ACTIVE"
  BY DEF Enable, Exists, BundleInv, ListsOK, BundleTypes
<1>2. ASSUME NEW fresh \in SUBSET Fresh(e), NEW sent \in SUBSET Modules(e),
             kind[e] \notin Reverbs => fresh \ Weak(settings[e]) \subseteq sent,
             kind[e] \in {"virtualizer", "equalizer"} => fresh = Fresh(e),
             Raise(e, fresh, sent)
      PROVE  BundleInv'
  <2> DEFINE new == [settings[e] EXCEPT !.enable_flag = @ \cup fresh]
  <2>1. Conveys(e, new, fresh \cap sent)
    BY <1>1, <1>2, RaiseConveys
  <2>2. Update(e, new, fresh \cap sent) /\ UNCHANGED <<kind, listVars>>
    BY <1>2 DEF Raise, Enable
  <2> HIDE DEF new
  <2> QED
    BY <1>1, <2>1, <2>2, UpdateInv
<1>3. Fresh(e) \subseteq Modules(e)
  BY DEF Fresh
<1>4. CASE EnableBass(e)
  <2> DEFINE sent == {x \in Modules(e) : x = "bassboost" => settings[e].strength > 0}
  <2>1. sent \in SUBSET Modules(e) /\ Fresh(e) \ Weak(settings[e]) \subseteq sent
    BY <1>3 DEF Weak
  <2> QED
    BY <1>2, <1>4, <2>1 DEF EnableBass
<1>5. CASE EnableVirtualizer(e)
  <2> DEFINE sent == {x \in Modules(e) : settings[e].strength > 0}
  <2>1. sent \in SUBSET Modules(e) /\ Fresh(e) \ Weak(settings[e]) \subseteq sent
    BY <1>3, <1>5, KindModules DEF Weak, EnableVirtualizer, Modules
  <2> QED
    BY <1>2, <1>5, <2>1 DEF EnableVirtualizer
<1>6. CASE EnableEqualizer(e)
  BY <1>2, <1>3, <1>6 DEF EnableEqualizer, SentOnEqualizerEnable
<1>7. CASE EnableReverb(e)
  <2> DEFINE fresh == {x \in Fresh(e) : kind[e] = "presetReverb" => settings[e].strength > 0}
  <2>1. /\ fresh \in SUBSET Fresh(e) /\ {} \in SUBSET Modules(e)
        /\ kind[e] \in Reverbs /\ kind[e] \notin {"virtualizer", "equalizer"}
    BY <1>7 DEF EnableReverb, Reverbs
  <2>2. Raise(e, fresh, {})
    BY <1>7 DEF EnableReverb
  <2> HIDE DEF fresh
  <2> QED
    BY <1>2, <2>1, <2>2
<1> QED
  BY <1>4, <1>5, <1>6, <1>7 DEF Enable

LEMMA DisableInv ==
  ASSUME BundleInv, NEW e \in Effects, Disable(e) PROVE BundleInv'
<1>1. /\ Exists(e) /\ state' = [state EXCEPT ![e] = "INITIALIZED"]
      /\ state'[e] = "INITIALIZED"
  BY DEF Disable, IsActive, Exists, BundleInv, ListsOK, BundleTypes
<1> DEFINE new == [settings[e] EXCEPT !.enable_flag = {}]
<1>2. /\ kind[e] \in AllKinds /\ settings[e] \in Settings
      /\ SettingOK(kind[e], state[e], settings[e])
  BY <1>1, EffectExists
<1>3. /\ new \in Settings /\ new.enable_flag = {} /\ new.forced = settings[e].forced
      /\ new.temp_disabled = settings[e].temp_disabled /\ new.device = settings[e].device
  BY <1>2 DEF Settings
<1>4. SettingOK(kind[e], "INITIALIZED", new)
  BY <1>2, <1>3 DEF SettingOK
<1>5. settings[e].enable_flag \subseteq Modules(e)
  BY <1>2 DEF SettingOK, AllKinds, Modules
<1> HIDE DEF new
<1>6. Conveys(e, new, SentOnDisable(e))
  BY <1>1, <1>3, <1>4, <1>5 DEF Conveys, SentOnDisable
<1>7. Update(e, new, SentOnDisable(e))
  BY DEF Disable, new
<1> QED
  BY <1>1, <1>6, <1>7, UpdateInv DEF Disable

-----------------------------------------------------------------------------
(* Parameters and devices.                                                 *)

\* A step that leaves the lists and the state of effect e alone.
LEMMA KeepInv ==
  ASSUME BundleInv, NEW e \in Effects, Exists(e), UNCHANGED <<kind, state, listVars>>,
         NEW new, NEW sent, Update(e, new, sent),
         SettingOK(kind[e], state[e], new), sent \subseteq Modules(e),
         settings[e].enable_flag \ new.enable_flag \subseteq sent,
         kind[e] \notin Reverbs =>
           new.enable_flag \ Weak(new)
             \subseteq sent \cup (settings[e].enable_flag \ Weak(settings[e]))
  PROVE  BundleInv'
<1>1. Conveys(e, new, sent)
  BY DEF Conveys
<1> QED
  BY <1>1, UpdateInv, EffectExists

LEMMA SetBassStrengthInv ==
  ASSUME BundleInv, NEW e \in Effects, Exists(e), UNCHANGED <<kind, state, listVars>>,
         NEW n \in {0, 1}, SetBassStrength(e, n)
  PROVE  BundleInv'
<1> DEFINE new == [settings[e] EXCEPT !.strength = n]
<1>1. /\ kind[e] = "bass" /\ Modules(e) = {"bassboost", "pbe"}
      /\ settings[e] \in Settings /\ SettingOK(kind[e], state[e], settings[e])
      /\ Update(e, new, {"bassboost"})
  BY EffectExists, KindModules DEF SetBassStrength, Modules
<1>2. /\ new \in Settings /\ new.strength = n
      /\ new.enable_flag = settings[e].enable_flag
      /\ new.temp_disabled = settings[e].temp_disabled
  BY <1>1 DEF Settings
<1> HIDE DEF new
<1>3. SettingOK(kind[e], state[e], new)
  BY <1>1, <1>2 DEF SettingOK
<1>4. new.enable_flag \ Weak(new) \subseteq
        {"bassboost"} \cup (settings[e].enable_flag \ Weak(settings[e]))
  BY <1>1, <1>2, <1>3, KindModules DEF Weak, SettingOK
<1> QED
  BY <1>1, <1>2, <1>3, <1>4, KeepInv

LEMMA SetVirtualizerStrengthInv ==
  ASSUME BundleInv, NEW e \in Effects, Exists(e), UNCHANGED <<kind, state, listVars>>,
         NEW n \in {0, 1}, SetVirtualizerStrength(e, n)
  PROVE  BundleInv'
<1> DEFINE flags == IF ~IsActive(e) THEN settings[e].enable_flag
                    ELSE IF VirtualizerFlag(e, n) THEN {"virt"} ELSE {}
           new == [settings[e] EXCEPT !.strength = n, !.enable_flag = flags]
<1>1. /\ kind[e] = "virtualizer" /\ Modules(e) = {"virt"}
      /\ settings[e] \in Settings /\ SettingOK(kind[e], state[e], settings[e])
      /\ Update(e, new, {"virt"})
  BY EffectExists, KindModules DEF SetVirtualizerStrength, Modules
<1>2. flags \subseteq {"virt"} /\ settings[e].enable_flag \subseteq {"virt"}
  BY <1>1, KindModules DEF SettingOK
<1>3. /\ new \in Settings /\ new.strength = n /\ new.enable_flag = flags
      /\ new.temp_disabled = settings[e].temp_disabled
      /\ new.device = settings[e].device /\ new.forced = settings[e].forced
  BY <1>1, <1>2 DEF Settings, AllModules
<1>4. SettingOK(kind[e], state[e], new)
  <2>1. ~IsActive(e) => flags = {}
    BY <1>1 DEF SettingOK, IsActive
  <2>2. "virt" \in settings[e].temp_disabled => "virt" \notin flags
    BY <1>1, <2>1 DEF VirtualizerFlag
  <2>3. IsActive(e) /\ n > 0 => "virt" \in settings[e].temp_disabled \cup flags
    BY DEF VirtualizerFlag
  <2> HIDE DEF new, flags
  <2> QED
    BY <1>1, <1>2, <1>3, <2>1, <2>2, <2>3 DEF SettingOK, IsActive, Modules
<1> HIDE DEF new, flags
<1> QED
  BY <1>1, <1>2, <1>3, <1>4, KeepInv

LEMMA SetReverbPresetInv ==
  ASSUME BundleInv, NEW e \in Effects, Exists(e), UNCHANGED <<kind, state, listVars>>,
         NEW n \in {0, 1}, SetReverbPreset(e, n)
  PROVE  BundleInv'
<1>1. /\ kind[e] = "presetReverb" /\ Modules(e) = {"reverb"} /\ kind[e] \in Reverbs
      /\ settings[e] \in Settings /\ SettingOK(kind[e], state[e], settings[e])
      /\ settings[e].enable_flag \subseteq {"reverb"}
  BY EffectExists, KindModules DEF SetReverbPreset, Modules, Reverbs, SettingOK
<1>2. CASE IsActive(e)
  <2> DEFINE new == [settings[e] EXCEPT !.strength = n,
                       !.enable_flag = IF n > 0 THEN {"reverb"} ELSE {}]
  <2>1. Update(e, new, {"reverb"})
    BY <1>2 DEF SetReverbPreset
  <2>2. new \in Settings /\ new.enable_flag \subseteq {"reverb"}
    BY <1>1 DEF Settings, AllModules
  <2> HIDE DEF new
  <2>3. SettingOK(kind[e], state[e], new)
    BY <1>1, <1>2, <2>2 DEF SettingOK, IsActive, Modules
  <2> QED
    BY <1>1, <2>1, <2>3, KeepInv
<1>3. CASE ~IsActive(e)
  <2> DEFINE new == [settings[e] EXCEPT !.strength = n]
  <2>1. Update(e, new, {})
    BY <1>3 DEF SetReverbPreset
  <2>2. new \in Settings /\ new.enable_flag = settings[e].enable_flag
    BY <1>1 DEF Settings
  <2> HIDE DEF new
  <2>3. SettingOK(kind[e], state[e], new)
    BY <1>1, <2>2 DEF SettingOK
  <2> QED
    BY <1>1, <2>1, <2>2, <2>3, KeepInv
<1> QED
  BY <1>2, <1>3

\* What Switch leaves is right for the device when `use` says what the device and the
\* mode allow.
LEMMA SwitchInv ==
  ASSUME BundleInv, NEW e \in Effects, Exists(e), UNCHANGED <<kind, state, listVars>>,
         kind[e] = "virtualizer", NEW d \in Devices, NEW f \in BOOLEAN, NEW use \in BOOLEAN,
         use => f \/ d \in VirtualizerDevices,
         Switch(e, [settings[e] EXCEPT !.device = d, !.forced = f], use)
  PROVE  BundleInv'
<1> DEFINE keep == [settings[e] EXCEPT !.device = d, !.forced = f]
<1>1. /\ settings[e] \in Settings /\ SettingOK(kind[e], state[e], settings[e])
      /\ settings[e].enable_flag \subseteq {"virt"} /\ Modules(e) = {"virt"}
  BY EffectExists, KindModules DEF SettingOK, Modules
<1>2. /\ keep \in Settings /\ keep.enable_flag = settings[e].enable_flag
      /\ keep.temp_disabled = settings[e].temp_disabled
      /\ keep.strength = settings[e].strength /\ keep.device = d /\ keep.forced = f
  BY <1>1 DEF Settings
<1>3. Switch(e, keep, use)
  OBVIOUS
<1> HIDE DEF keep
<1>4. CASE use # ("virt" \in keep.temp_disabled)
  <2>1. Update(e, keep, {})
    BY <1>3, <1>4 DEF Switch
  <2>2. SettingOK(kind[e], state[e], keep)
    BY <1>1, <1>2, <1>4 DEF SettingOK
  <2>3. Weak(keep) = Weak(settings[e])
    BY <1>2 DEF Weak
  <2> QED
    BY <1>2, <2>1, <2>2, <2>3, KeepInv
<1>5. CASE use = ("virt" \in keep.temp_disabled)
  <2> DEFINE temp == IF use THEN {} ELSE {"virt"}
             flags == IF ~IsActive(e) THEN keep.enable_flag
                      ELSE IF use THEN {"virt"} ELSE {}
             sent == IF IsActive(e) THEN {"virt"} ELSE {}
             new == [keep EXCEPT !.temp_disabled = temp, !.enable_flag = flags]
  <2>1. Update(e, new, sent)
    BY <1>3, <1>5 DEF Switch
  <2>2. temp \subseteq {"virt"} /\ flags \subseteq {"virt"}
    BY <1>1, <1>2
  <2>3. /\ new \in Settings /\ new.enable_flag = flags /\ new.temp_disabled = temp
        /\ new.strength = settings[e].strength /\ new.device = d /\ new.forced = f
    BY <1>2, <2>2 DEF Settings, AllModules
  <2>4. ~IsActive(e) => flags = {}
    BY <1>1, <1>2 DEF SettingOK, IsActive
  <2>5. /\ "virt" \in temp => "virt" \notin flags
        /\ ~f /\ d \notin VirtualizerDevices => "virt" \in temp
        /\ IsActive(e) => "virt" \in temp \cup flags
    BY <2>4
  <2>6. SettingOK(kind[e], state[e], new)
    <3> HIDE DEF new, flags, temp
    <3> QED
      BY <1>1, <2>2, <2>3, <2>4, <2>5 DEF SettingOK, IsActive, Modules
  <2>7. /\ sent \subseteq Modules(e)
        /\ settings[e].enable_flag \ flags \subseteq sent /\ flags \subseteq sent
    BY <1>1, <1>2, <2>2, <2>4
  <2> HIDE DEF new, flags, temp, sent
  <2> QED
    BY <2>1, <2>3, <2>6, <2>7, KeepInv
<1> QED
  BY <1>4, <1>5

LEMMA ForceModeInv ==
  ASSUME BundleInv, NEW e \in Effects, Exists(e), UNCHANGED <<kind, state, listVars>>,
         NEW d \in Devices, ForceMode(e, d)
  PROVE  BundleInv'
<1> DEFINE force == d # "NONE" /\ d \in VirtualizerDevices
           use == IF force THEN IsActive(e) ELSE UseUnforced(e)
           cur == settings[e]
<1>1. kind[e] = "virtualizer" /\ cur \in Settings /\ cur.device \in Devices
  BY EffectExists DEF ForceMode, Settings
<1>2. [cur EXCEPT !.forced = force] = [cur EXCEPT !.device = cur.device, !.forced = force]
  BY <1>1 DEF Settings
<1>3. Switch(e, [cur EXCEPT !.device = cur.device, !.forced = force], use)
  BY <1>2 DEF ForceMode
<1>4. /\ force \in BOOLEAN /\ use \in BOOLEAN
      /\ use => force \/ cur.device \in VirtualizerDevices
  BY DEF UseUnforced, IsActive
<1> HIDE DEF force, use
<1> QED
  BY <1>1, <1>3, <1>4, SwitchInv

LEMMA SetParameterInv ==
  ASSUME BundleInv, NEW e \in Effects, SetParameter(e) PROVE BundleInv'
<1>1. Exists(e) /\ UNCHANGED <<kind, state, listVars>>
  BY DEF SetParameter
<1>2. ASSUME Update(e, settings[e], Modules(e)) PROVE BundleInv'
  <2>1. SettingOK(kind[e], state[e], settings[e])
    BY <1>1, EffectExists
  <2> QED
    BY <1>1, <1>2, <2>1, KeepInv
<1> QED
  BY <1>1, <1>2, SetBassStrengthInv, SetVirtualizerStrengthInv, SetReverbPresetInv, ForceModeInv
  DEF SetParameter, SetEqualizer, SetReverbLevel

LEMMA SetDeviceInv ==
  ASSUME BundleInv, NEW e \in Effects, NEW d \in Devices, SetDevice(e, d) PROVE BundleInv'
<1>1. Exists(e) /\ UNCHANGED <<kind, state, listVars>>
  BY DEF SetDevice
<1>2. settings[e] \in Settings /\ SettingOK(kind[e], state[e], settings[e])
  BY <1>1, EffectExists
<1>3. CASE SetBassDevice(e, d)
  <2> DEFINE temp == IF d \in BassBoostDevices THEN {"pbe"}
                     ELSE IF d \in PbeDevices THEN {"bassboost"} ELSE {"bassboost", "pbe"}
             new == [settings[e] EXCEPT !.device = d, !.temp_disabled = temp]
  <2>1. kind[e] = "bass" /\ Update(e, new, {})
    BY <1>3 DEF SetBassDevice
  <2>2. /\ new \in Settings /\ new.enable_flag = settings[e].enable_flag
        /\ new.strength = settings[e].strength
    BY <1>2 DEF Settings, AllModules
  <2> HIDE DEF new
  <2>3. SettingOK(kind[e], state[e], new) /\ Weak(new) = Weak(settings[e])
    BY <1>2, <2>1, <2>2 DEF SettingOK, Weak
  <2> QED
    BY <1>1, <2>1, <2>2, <2>3, KeepInv
<1>4. CASE SetVirtualizerDevice(e, d)
  <2> DEFINE cur == [settings[e] EXCEPT !.device = d]
  <2>1. /\ kind[e] = "virtualizer" /\ cur \in Settings
        /\ cur.forced = settings[e].forced /\ cur.device = d /\ cur.strength = settings[e].strength
        /\ cur.enable_flag = settings[e].enable_flag
        /\ cur.temp_disabled = settings[e].temp_disabled
    BY <1>2, <1>4 DEF SetVirtualizerDevice, Settings
  <2>2. CASE cur.forced
    <3>1. Update(e, cur, {})
      BY <1>4, <2>2 DEF SetVirtualizerDevice
    <3> HIDE DEF cur
    <3>2. SettingOK(kind[e], state[e], cur) /\ Weak(cur) = Weak(settings[e])
      BY <1>2, <2>1, <2>2 DEF SettingOK, Weak
    <3> QED
      BY <1>1, <2>1, <3>1, <3>2, KeepInv
  <2>3. CASE ~cur.forced
    <3>1. Switch(e, cur, d \in VirtualizerDevices)
      BY <1>4, <2>3 DEF SetVirtualizerDevice
    <3>2. /\ cur = [settings[e] EXCEPT !.device = d, !.forced = settings[e].forced]
          /\ settings[e].forced \in BOOLEAN
      BY <1>2 DEF Settings
    <3> HIDE DEF cur
    <3> DEFINE use == d \in VirtualizerDevices
               f == settings[e].forced
    <3>3. Switch(e, [settings[e] EXCEPT !.device = d, !.forced = f], use)
      BY <3>1, <3>2
    <3>4. use \in BOOLEAN /\ f \in BOOLEAN /\ (use => f \/ d \in VirtualizerDevices)
      BY <3>2
    <3> HIDE DEF use, f
    <3> QED
      BY <1>1, <2>1, <3>3, <3>4, SwitchInv
  <2> QED
    BY <2>2, <2>3
<1> QED
  BY <1>3, <1>4 DEF SetDevice

-----------------------------------------------------------------------------
(* Effects and outputs that come, move and go.                             *)

\* After a step, sessions that are attached were uncontested before if they are now, and
\* their effects differ in kind.
LEMMA ContestInv ==
  ASSUME BundleTypes', ListsAgree', Contest
  PROVE  /\ KindsDiffer'
         /\ \A e \in Effects : Exists(e)' /\ Alone(e)' /\ pal_stream_handle'[e] # Null
              => pal_stream_handle'[e] \notin contested
<1>1. \A e \in Effects : pal_stream_handle'[e] # Null
        => /\ pal_stream_handle'[e] \in Sessions
           /\ \E o \in Outputs : outputs'[o] = pal_stream_handle'[e]
  BY HandleAssumption DEF ListsAgree, BundleTypes
<1> QED
  BY <1>1 DEF Contest, KindsDiffer, Alone

LEMMA CreateInv ==
  ASSUME BundleInv, NEW e \in Effects, NEW k \in Kinds, NEW o \in Outputs, Create(e, k, o)
  PROVE  BundleInv'
<1> USE DEF BundleInv, ListsOK
<1>1. /\ ~Exists(e) /\ kind' = [kind EXCEPT ![e] = k]
      /\ state' = [state EXCEPT ![e] = "INITIALIZED"]
      /\ out_handle' = [out_handle EXCEPT ![e] = o]
      /\ settings' = [settings EXCEPT ![e] = Initialized(0)]
      /\ pal_stream_handle' = [pal_stream_handle EXCEPT ![e] = outputs[o]]
      /\ UNCHANGED <<outputs, dsp>> /\ Contest
  BY DEF Create
<1>2. /\ SettingOK(k, "INITIALIZED", Initialized(0)) /\ Initialized(0).enable_flag = {}
      /\ Initialized(0) \in Settings
  BY InitializedOK DEF SettingOK
<1>3. k # "none" /\ o # Null
  BY KindAssumption, HandleAssumption DEF AllKinds
<1>4. effects_list' \in [Outputs -> SUBSET Effects]
  BY DEF Create, BundleTypes
<1>5. BundleTypes'
  BY <1>1, <1>2, <1>3, <1>4 DEF BundleTypes, Exists, Contest
<1>6. pal_stream_handle[e] = Null
  BY <1>1 DEF ListsAgree
<1>7. ListsAgree'
  <2> SUFFICES ASSUME NEW f \in Effects
               PROVE  /\ \A p \in Outputs :
                           f \in effects_list'[p] <=> Active(p)' /\ out_handle'[f] = p
                      /\ pal_stream_handle'[f] = IF Exists(f)' THEN outputs'[out_handle'[f]]
                                                              ELSE Null
    BY DEF ListsAgree
  <2>1. CASE f = e
    <3>1. \A p \in Outputs : e \notin effects_list[p]
      BY <1>1, HandleAssumption DEF ListsAgree, BundleTypes, Exists
    <3>2. \A p \in Outputs : e \in effects_list'[p] <=> Active(o) /\ p = o
      <4>1. effects_list' = IF Active(o) THEN [effects_list EXCEPT ![o] = @ \cup {e}]
                                         ELSE effects_list
        BY DEF Create
      <4>2. effects_list \in [Outputs -> SUBSET Effects]
        BY DEF BundleTypes
      <4> QED
        BY <3>1, <4>1, <4>2
    <3>3. /\ state'[e] = "INITIALIZED" /\ out_handle'[e] = o /\ outputs' = outputs
          /\ pal_stream_handle'[e] = outputs[o]
      BY <1>1 DEF BundleTypes
    <3> QED
      BY <2>1, <3>2, <3>3 DEF Exists, Active
  <2>2. CASE f # e
    BY <1>1, <2>2 DEF Create, ListsAgree, BundleTypes, Exists, Active
  <2> QED
    BY <2>1, <2>2
<1>8. SessionsDiffer'
  BY <1>1 DEF SessionsDiffer
<1>9. SettingsOK'
  BY <1>1, <1>2 DEF SettingsOK, BundleTypes
<1>10. NothingLeftOn'
  BY <1>1, <1>6, HandleAssumption DEF NothingLeftOn, BundleTypes
<1>11. FlaggedIsOn'
  BY <1>1, <1>2, <1>5, <1>7, ContestInv DEF FlaggedIsOn, BundleTypes, Exists, Alone
<1> QED
  BY <1>1, <1>5, <1>7, <1>8, <1>9, <1>10, <1>11, ContestInv

\* What the DSP has on after effect e left its output and joined o.
LEMMA MoveDsp ==
  ASSUME ListsOK, NEW e \in Effects, Exists(e), NEW o \in Outputs \cup {Null}, Move(e, o)
  PROVE  LET met == IF o \in Outputs THEN outputs[o] ELSE Null
         IN /\ pal_stream_handle' = [pal_stream_handle EXCEPT ![e] = met]
            /\ \A s \in Sessions :
                 dsp'[s] = (dsp[s] \ (IF s = pal_stream_handle[e] THEN SentOnStop(e) ELSE {}))
                           \cup (IF s = met THEN SentOnStart(e) ELSE {})
<1> DEFINE old == out_handle[e]
           left == IF e \in effects_list[old] THEN pal_stream_handle[e] ELSE Null
           met == IF o \in Outputs THEN outputs[o] ELSE Null
<1>1. old \in Outputs
  BY DEF ListsOK, BundleTypes
<1>2. left = pal_stream_handle[e]
  BY <1>1 DEF ListsOK, ListsAgree, Active
<1>3. (IF o \in Outputs /\ Active(o) THEN outputs[o] ELSE Null) = met
  BY DEF Active
<1>4. /\ pal_stream_handle' = [pal_stream_handle EXCEPT ![e] = met]
      /\ dsp' = [s \in Sessions |-> Restarted(s, IF s = left THEN {e} ELSE {},
                                                 IF s = met THEN {e} ELSE {})]
  BY <1>3 DEF Move
<1>5. ASSUME NEW s \in Sessions
      PROVE  /\ UNION {SentOnStop(f) : f \in IF s = left THEN {e} ELSE {}}
                  = IF s = left THEN SentOnStop(e) ELSE {}
             /\ UNION {SentOnStart(f) : f \in IF s = met THEN {e} ELSE {}}
                  = IF s = met THEN SentOnStart(e) ELSE {}
  OBVIOUS
<1> HIDE DEF met, left
<1>6. \A s \in Sessions :
        dsp'[s] = (dsp[s] \ (IF s = left THEN SentOnStop(e) ELSE {}))
                  \cup (IF s = met THEN SentOnStart(e) ELSE {})
  BY <1>4, <1>5 DEF Restarted
<1> QED
  BY <1>2, <1>4, <1>6 DEF met

\* Effect e moves to output o, or goes away (o = Null) and is cleared.
LEMMA MoveInv ==
  ASSUME BundleInv, NEW e \in Effects, Exists(e), NEW o \in Outputs \cup {Null},
         o # out_handle[e], Move(e, o), Contest,
         out_handle' = [out_handle EXCEPT ![e] = o],
         NEW k \in Kinds \cup {"none"}, kind' = [kind EXCEPT ![e] = k],
         NEW st \in {"none", "INITIALIZED", "ACTIVE"}, state' = [state EXCEPT ![e] = st],
         NEW x \in Settings, settings' = [settings EXCEPT ![e] = x],
         o \in Outputs => k = kind[e] /\ st = state[e] /\ x = settings[e],
         o = Null => k = "none" /\ st = "none" /\ x = Initialized(0)
  PROVE  BundleInv'
<1> USE DEF BundleInv, ListsOK
<1> DEFINE met == IF o \in Outputs THEN outputs[o] ELSE Null
           off(s) == IF s = pal_stream_handle[e] THEN SentOnStop(e) ELSE {}
           on(s) == IF s = met THEN SentOnStart(e) ELSE {}
<1>1. /\ pal_stream_handle' = [pal_stream_handle EXCEPT ![e] = met]
      /\ \A s \in Sessions : dsp'[s] = (dsp[s] \ off(s)) \cup on(s)
  BY MoveDsp
<1>2. /\ kind[e] \in AllKinds /\ ModulesOf(kind[e]) \subseteq AllModules
      /\ SettingOK(kind[e], state[e], settings[e])
      /\ settings[e].enable_flag \subseteq ModulesOf(kind[e])
  BY EffectExists, ModulesKnown DEF SettingOK, AllKinds
<1>3. /\ SentOnStart(e) \subseteq settings[e].enable_flag
      /\ SentOnStop(e) = settings[e].enable_flag \ {"pbe"}
      /\ kind[e] \notin Reverbs => SentOnStart(e) = settings[e].enable_flag
  BY DEF SentOnStart, SentOnStop, Reverbs
<1>4. met \in Sessions \cup {Null} /\ outputs' = outputs
  BY DEF BundleTypes, Move
<1>5. BundleTypes'
  <2>1. dsp' \in [Sessions -> SUBSET AllModules]
    <3>1. DOMAIN dsp' = Sessions /\ dsp' = [s \in Sessions |-> dsp'[s]]
      BY DEF Move
    <3>2. \A s \in Sessions : dsp'[s] \in SUBSET AllModules
      BY <1>1, <1>2, <1>3 DEF BundleTypes
    <3> QED
      BY <3>1, <3>2
  <2>2. effects_list' \in [Outputs -> SUBSET Effects]
    BY DEF Move, BundleTypes
  <2>3. contested' \subseteq Sessions
    BY DEF Contest
  <2>4. \A f \in Effects : /\ Exists(f)' <=> kind'[f] # "none"
                           /\ Exists(f)' <=> out_handle'[f] # Null
    <3>1. o \in Outputs => o # Null /\ st # "none" /\ k # "none"
      BY HandleAssumption DEF BundleTypes, Exists
    <3> QED
      BY <3>1 DEF BundleTypes, Exists
  <2> QED
    BY <1>1, <1>4, <2>1, <2>2, <2>3, <2>4 DEF BundleTypes
<1>6. ListsAgree'
  <2>1. \A p \in Outputs : effects_list'[p] =
          IF p = o /\ Active(o) THEN effects_list[p] \cup {e}
          ELSE IF p = out_handle[e] THEN effects_list[p] \ {e} ELSE effects_list[p]
    BY DEF Move
  <2> SUFFICES ASSUME NEW f \in Effects
               PROVE  /\ \A p \in Outputs :
                           f \in effects_list'[p] <=> Active(p)' /\ out_handle'[f] = p
                      /\ pal_stream_handle'[f] = IF Exists(f)' THEN outputs'[out_handle'[f]]
                                                              ELSE Null
    BY DEF ListsAgree
  <2>2. CASE f = e
    <3>1. \A p \in Outputs : e \in effects_list[p] <=> Active(p) /\ out_handle[e] = p
      BY DEF ListsAgree
    <3>2. \A p \in Outputs : e \in effects_list'[p] <=> Active(p) /\ o = p
      BY <2>1, <3>1
    <3>3. out_handle'[e] = o /\ pal_stream_handle'[e] = met /\ (Exists(e)' <=> o # Null)
      BY <1>1, <1>5 DEF BundleTypes
    <3>4. o \in Outputs => o # Null
      BY HandleAssumption
    <3>5. \A p \in Outputs : Active(p)' <=> Active(p)
      BY <1>4 DEF Active
    <3>6. met = IF Exists(e)' THEN outputs'[o] ELSE Null
      BY <1>4, <3>3, <3>4
    <3> HIDE DEF met
    <3> QED
      BY <2>2, <3>2, <3>3, <3>5, <3>6
  <2>3. CASE f # e
    <3>1. \A p \in Outputs : f \in effects_list'[p] <=> f \in effects_list[p]
      <4> SUFFICES ASSUME NEW p \in Outputs
                   PROVE  f \in effects_list'[p] <=> f \in effects_list[p]
        OBVIOUS
      <4>1. \/ effects_list'[p] = effects_list[p] \cup {e}
            \/ effects_list'[p] = effects_list[p] \ {e}
            \/ effects_list'[p] = effects_list[p]
        BY <2>1
      <4> QED
        BY <2>3, <4>1
    <3>2. /\ out_handle'[f] = out_handle[f] /\ Exists(f)' = Exists(f)
          /\ pal_stream_handle'[f] = pal_stream_handle[f]
      BY <1>1, <2>3 DEF BundleTypes, Exists
    <3> QED
      BY <1>4, <3>1, <3>2 DEF ListsAgree, Active
  <2> QED
    BY <2>2, <2>3
<1>7. SessionsDiffer'
  BY <1>4 DEF SessionsDiffer
<1>8. SettingsOK'
  <2>1. SettingOK(k, st, x)
    BY <1>2, InitializedOK
  <2> QED
    BY <2>1 DEF SettingsOK, BundleTypes
<1> HIDE DEF off, on, met
<1>9. NothingLeftOn'
  <2> SUFFICES ASSUME NEW s \in Sessions, NEW y \in dsp'[s] \ {"pbe"}
               PROVE  \E f \in Effects : /\ pal_stream_handle'[f] = s
                                         /\ y \in settings'[f].enable_flag
    BY DEF NothingLeftOn
  <2>1. CASE y \in on(s)
    <3>1. s = met /\ y \in settings[e].enable_flag
      BY <1>3, <2>1 DEF on
    <3>2. o \in Outputs
      BY <3>1, HandleAssumption DEF met
    <3> QED
      BY <1>1, <3>1, <3>2 DEF BundleTypes
  <2>2. CASE y \in dsp[s] \ off(s)
    <3>1. PICK f \in Effects : pal_stream_handle[f] = s /\ y \in settings[f].enable_flag
      BY <2>2 DEF NothingLeftOn
    <3>2. f # e
      BY <1>3, <2>2, <3>1 DEF off
    <3> QED
      BY <1>1, <3>1, <3>2 DEF BundleTypes
  <2> QED
    BY <1>1, <2>1, <2>2
<1>10. FlaggedIsOn'
  <2> SUFFICES ASSUME NEW f \in Effects, Exists(f)', Alone(f)', kind'[f] \notin Reverbs,
                      pal_stream_handle'[f] # Null,
                      NEW y \in settings'[f].enable_flag \ Weak(settings'[f])
               PROVE  y \in dsp'[pal_stream_handle'[f]]
    BY DEF FlaggedIsOn
  <2>1. CASE f = e
    <3>1. pal_stream_handle'[e] = met /\ o \in Outputs
      BY <1>1, <2>1 DEF met, BundleTypes
    <3>2. kind'[e] = kind[e] /\ settings'[e] = settings[e]
      BY <3>1 DEF BundleTypes
    <3>3. y \in on(met) /\ met \in Sessions
      BY <1>3, <1>4, <2>1, <3>1, <3>2 DEF on
    <3> QED
      BY <1>1, <2>1, <3>1, <3>3
  <2>2. CASE f # e
    <3> DEFINE s == pal_stream_handle[f]
    <3>1. /\ pal_stream_handle'[f] = s /\ settings'[f] = settings[f] /\ kind'[f] = kind[f]
          /\ Exists(f) /\ s \in Sessions
      BY <1>1, <2>2 DEF BundleTypes, Exists
    <3>2. s \notin contested
      BY <1>5, <1>6, <3>1, ContestInv
    <3>3. y \in dsp[s]
      BY <3>1, <3>2 DEF FlaggedIsOn, Alone
    <3>4. y \notin off(s)
      <4> SUFFICES ASSUME s = pal_stream_handle[e] PROVE y \notin SentOnStop(e)
        BY DEF off
      <4>1. kind[f] # kind[e]
        BY <2>2, <3>1, <3>2 DEF KindsDiffer
      <4>2. kind[f] \in AllKinds /\ y \in ModulesOf(kind[f])
        BY <3>1, EffectExists DEF SettingOK, AllKinds
      <4>3. ModulesOf(kind[f]) \cap ModulesOf(kind[e]) = {}
        BY <1>2, <3>1, <4>1, <4>2, ModulesDisjoint
      <4> QED
        BY <1>2, <1>3, <4>2, <4>3
    <3> QED
      BY <1>1, <3>1, <3>3, <3>4
  <2> QED
    BY <2>1, <2>2
<1> QED
  BY <1>5, <1>6, <1>7, <1>8, <1>9, <1>10, ContestInv

LEMMA ReleaseInv ==
  ASSUME BundleInv, NEW e \in Effects, Release(e) PROVE BundleInv'
<1>1. /\ Exists(e) /\ Move(e, Null) /\ Contest
      /\ out_handle' = [out_handle EXCEPT ![e] = Null]
      /\ kind' = [kind EXCEPT ![e] = "none"] /\ state' = [state EXCEPT ![e] = "none"]
      /\ settings' = [settings EXCEPT ![e] = Initialized(0)]
  BY DEF Release, Free
<1>2. out_handle[e] # Null /\ Initialized(0) \in Settings /\ Null \notin Outputs
  BY <1>1, InitializedOK, HandleAssumption DEF BundleInv, ListsOK, BundleTypes, SettingOK
<1> DEFINE x == Initialized(0)
<1>3. x \in Settings /\ settings' = [settings EXCEPT ![e] = x] /\ x = Initialized(0)
  BY <1>1, <1>2
<1> HIDE DEF x
<1>4. /\ Null \in Outputs \cup {Null} /\ "none" \in Kinds \cup {"none"}
      /\ "none" \in {"none", "INITIALIZED", "ACTIVE"}
  OBVIOUS
<1> QED
  BY <1>1, <1>2, <1>3, <1>4, MoveInv

LEMMA OffloadInv ==
  ASSUME BundleInv, NEW e \in Effects, NEW o \in Outputs, Offload(e, o) PROVE BundleInv'
<1>1. /\ Exists(e) /\ o # out_handle[e] /\ Move(e, o) /\ Contest
      /\ out_handle' = [out_handle EXCEPT ![e] = o]
      /\ UNCHANGED <<kind, state, settings>>
  BY DEF Offload, MoveTo
<1> DEFINE k == kind[e] st == state[e] x == settings[e]
<1>2. /\ k \in Kinds \cup {"none"} /\ kind' = [kind EXCEPT ![e] = k]
      /\ st \in {"none", "INITIALIZED", "ACTIVE"} /\ state' = [state EXCEPT ![e] = st]
      /\ x \in Settings /\ settings' = [settings EXCEPT ![e] = x]
  BY <1>1 DEF BundleInv, ListsOK, BundleTypes
<1>3. /\ o \in Outputs \cup {Null}
      /\ o \in Outputs => k = kind[e] /\ st = state[e] /\ x = settings[e]
      /\ o = Null => k = "none" /\ st = "none" /\ x = Initialized(0)
  BY HandleAssumption
<1> HIDE DEF k, st, x
<1>4. /\ k \in Kinds \cup {"none"} /\ st \in {"none", "INITIALIZED", "ACTIVE"}
      /\ x \in Settings /\ Exists(e) /\ o # out_handle[e] /\ Move(e, o) /\ Contest
  BY <1>1, <1>2
<1>5. /\ kind' = [kind EXCEPT ![e] = k] /\ state' = [state EXCEPT ![e] = st]
      /\ settings' = [settings EXCEPT ![e] = x]
      /\ out_handle' = [out_handle EXCEPT ![e] = o]
  BY <1>1, <1>2
<1> QED
  BY <1>3, <1>4, <1>5, MoveInv, Zenon

LEMMA HalStartInv ==
  ASSUME BundleInv, NEW o \in Outputs, NEW s \in Sessions, HalStart(o, s) PROVE BundleInv'
<1> USE DEF BundleInv, ListsOK
<1> DEFINE on == {e \in Effects : Exists(e) /\ out_handle[e] = o}
<1>1. /\ ~Active(o) /\ \A p \in Outputs : outputs[p] # s
      /\ dsp[s] = {} /\ outputs' = [outputs EXCEPT ![o] = s]
      /\ effects_list' = [effects_list EXCEPT ![o] = on]
      /\ pal_stream_handle' = [e \in Effects |-> IF e \in on THEN s
                                                 ELSE pal_stream_handle[e]]
      /\ dsp' = [dsp EXCEPT ![s] = Restarted(s, {}, on)]
      /\ UNCHANGED <<kind, state, out_handle, settings>> /\ Contest
  BY DEF HalStart
<1>2. Restarted(s, {}, on) = UNION {SentOnStart(e) : e \in on}
  BY <1>1 DEF Restarted
<1>3. \A e \in Effects : SentOnStart(e) \subseteq settings[e].enable_flag
  BY DEF SentOnStart
<1>4. \A e \in Effects : Exists(e) => settings[e].enable_flag \subseteq AllModules
  <2> SUFFICES ASSUME NEW e \in Effects, Exists(e)
               PROVE  settings[e].enable_flag \subseteq AllModules
    OBVIOUS
  <2> QED
    BY EffectExists DEF Settings
<1>5. Restarted(s, {}, on) \in SUBSET AllModules
  BY <1>2, <1>3, <1>4
<1>6. BundleTypes'
  BY <1>1, <1>5 DEF BundleTypes, Contest, Exists
<1>7. ListsAgree'
  <2>1. Null \notin Sessions /\ \A p \in Outputs : outputs'[p] = IF p = o THEN s ELSE outputs[p]
    BY <1>1, HandleAssumption DEF BundleTypes
  <2>2. \A p \in Outputs : effects_list'[p] = IF p = o THEN on ELSE effects_list[p]
    BY <1>1 DEF BundleTypes
  <2> SUFFICES ASSUME NEW f \in Effects
               PROVE  /\ \A p \in Outputs :
                           f \in effects_list'[p] <=> Active(p)' /\ out_handle[f] = p
                      /\ pal_stream_handle'[f] = IF Exists(f) THEN outputs'[out_handle[f]]
                                                              ELSE Null
    BY <1>1 DEF ListsAgree, Exists
  <2>3. \A p \in Outputs : f \in effects_list'[p] <=> Active(p)' /\ out_handle[f] = p
    <3>1. out_handle[f] = o => Exists(f)
      BY HandleAssumption DEF BundleTypes
    <3>2. s # Null
      BY <2>1
    <3>3. f \in effects_list'[o] <=> Active(o)' /\ out_handle[f] = o
      <4>1. effects_list'[o] = on /\ outputs'[o] = s
        BY <2>1, <2>2
      <4>2. f \in on <=> out_handle[f] = o
        BY <3>1
      <4> QED
        BY <3>2, <4>1, <4>2 DEF Active
    <3>4. ASSUME NEW p \in Outputs, p # o
          PROVE  f \in effects_list'[p] <=> Active(p)' /\ out_handle[f] = p
      <4>1. effects_list'[p] = effects_list[p] /\ outputs'[p] = outputs[p]
        BY <2>1, <2>2, <3>4
      <4>2. f \in effects_list[p] <=> Active(p) /\ out_handle[f] = p
        BY DEF ListsAgree
      <4> QED
        BY <4>1, <4>2 DEF Active
    <3> QED
      BY <3>3, <3>4
  <2>4. pal_stream_handle'[f] = IF Exists(f) THEN outputs'[out_handle[f]] ELSE Null
    <3>1. Exists(f) => out_handle[f] \in Outputs
      BY DEF BundleTypes
    <3> QED
      BY <1>1, <2>1, <3>1 DEF ListsAgree
  <2> QED
    BY <2>3, <2>4
<1>8. SessionsDiffer'
  BY <1>1 DEF SessionsDiffer, BundleTypes
<1>9. SettingsOK'
  BY <1>1 DEF SettingsOK
<1>10. NothingLeftOn'
  <2> SUFFICES ASSUME NEW t \in Sessions, NEW y \in dsp'[t] \ {"pbe"}
               PROVE  \E f \in Effects : /\ pal_stream_handle'[f] = t
                                         /\ y \in settings[f].enable_flag
    BY <1>1 DEF NothingLeftOn
  <2>1. CASE t = s
    <3>1. PICK f \in on : y \in SentOnStart(f)
      BY <1>1, <1>2, <2>1 DEF BundleTypes
    <3> QED
      BY <1>1, <1>3, <2>1, <3>1
  <2>2. CASE t # s
    <3>1. PICK f \in Effects : pal_stream_handle[f] = t /\ y \in settings[f].enable_flag
      BY <1>1, <2>2 DEF NothingLeftOn, BundleTypes
    <3>2. f \notin on
      BY <1>1, <3>1, HandleAssumption DEF ListsAgree, Active
    <3> QED
      BY <1>1, <3>1, <3>2
  <2> QED
    BY <2>1, <2>2
<1>11. FlaggedIsOn'
  <2> SUFFICES ASSUME NEW f \in Effects, Exists(f), Alone(f)', kind[f] \notin Reverbs,
                      pal_stream_handle'[f] # Null,
                      NEW y \in settings[f].enable_flag \ Weak(settings[f])
               PROVE  y \in dsp'[pal_stream_handle'[f]]
    BY <1>1 DEF FlaggedIsOn, Exists
  <2>1. CASE f \in on
    <3>1. y \in SentOnStart(f)
      BY DEF SentOnStart, Reverbs
    <3>2. y \in Restarted(s, {}, on)
      BY <1>2, <2>1, <3>1
    <3> QED
      BY <1>1, <2>1, <3>2 DEF BundleTypes
  <2>2. CASE f \notin on
    <3>1. pal_stream_handle'[f] = pal_stream_handle[f] /\ pal_stream_handle[f] # s
      <4>1. pal_stream_handle'[f] = pal_stream_handle[f]
        BY <1>1, <2>2
      <4>2. out_handle[f] \in Outputs /\ pal_stream_handle[f] = outputs[out_handle[f]]
        BY DEF ListsAgree, BundleTypes
      <4> QED
        BY <1>1, <4>1, <4>2
    <3>2. Exists(f)'
      BY <1>1 DEF Exists
    <3>3. pal_stream_handle[f] \notin contested
      <4>1. pal_stream_handle'[f] \notin contested
        BY <1>1, <1>6, <1>7, <3>2, ContestInv
      <4> QED
        BY <3>1, <4>1
    <3>4. y \in dsp[pal_stream_handle[f]] /\ pal_stream_handle[f] \in Sessions
      BY <3>1, <3>3 DEF FlaggedIsOn, Alone, BundleTypes
    <3> QED
      BY <1>1, <3>1, <3>4 DEF BundleTypes
  <2> QED
    BY <2>1, <2>2
<1> QED
  BY <1>1, <1>6, <1>7, <1>8, <1>9, <1>10, <1>11, ContestInv

LEMMA HalStopInv ==
  ASSUME BundleInv, NEW o \in Outputs, HalStop(o) PROVE BundleInv'
<1> USE DEF BundleInv, ListsOK
<1> DEFINE s == outputs[o]
           on == effects_list[o]
<1>1. /\ s \in Sessions /\ s # Null
      /\ outputs' = [outputs EXCEPT ![o] = Null]
      /\ effects_list' = [effects_list EXCEPT ![o] = {}]
      /\ pal_stream_handle' = [e \in Effects |-> IF e \in on THEN Null
                                                 ELSE pal_stream_handle[e]]
      /\ dsp' = [dsp EXCEPT ![s] = Restarted(s, on, {})]
      /\ UNCHANGED <<kind, state, out_handle, settings>> /\ Contest
  BY DEF HalStop, Active, BundleTypes
<1>2. Restarted(s, on, {}) = dsp[s] \ UNION {SentOnStop(e) : e \in on}
  BY DEF Restarted
<1>3. on = {e \in Effects : out_handle[e] = o} /\ on \subseteq Effects
  BY <1>1 DEF ListsAgree, BundleTypes, Active
<1>4. \A e \in Effects : pal_stream_handle[e] = s => e \in on
  <2> SUFFICES ASSUME NEW e \in Effects, pal_stream_handle[e] = s PROVE e \in on
    OBVIOUS
  <2>1. Exists(e) /\ outputs[out_handle[e]] = s /\ out_handle[e] \in Outputs
    BY <1>1 DEF ListsAgree, BundleTypes
  <2>2. out_handle[e] = o
    BY <1>1, <2>1 DEF SessionsDiffer
  <2> QED
    BY <1>3, <2>2
<1>5. Restarted(s, on, {}) \subseteq {"pbe"} /\ Restarted(s, on, {}) \in SUBSET AllModules
  <2>1. ASSUME NEW y \in dsp[s], y # "pbe" PROVE y \in UNION {SentOnStop(e) : e \in on}
    <3>1. PICK e \in Effects : pal_stream_handle[e] = s /\ y \in settings[e].enable_flag
      BY <1>1, <2>1 DEF NothingLeftOn
    <3>2. e \in on /\ y \in SentOnStop(e)
      BY <1>4, <2>1, <3>1 DEF SentOnStop
    <3> QED
      BY <3>2
  <2> QED
    BY <1>1, <1>2, <2>1 DEF BundleTypes
<1> HIDE DEF on
<1>6. BundleTypes'
  BY <1>1, <1>5 DEF BundleTypes, Contest, Exists
<1>7. ListsAgree'
  <2>1. /\ \A p \in Outputs : outputs'[p] = IF p = o THEN Null ELSE outputs[p]
        /\ \A p \in Outputs : effects_list'[p] = IF p = o THEN {} ELSE effects_list[p]
    BY <1>1 DEF BundleTypes
  <2> SUFFICES ASSUME NEW f \in Effects
               PROVE  /\ \A p \in Outputs :
                           f \in effects_list'[p] <=> Active(p)' /\ out_handle[f] = p
                      /\ pal_stream_handle'[f] = IF Exists(f) THEN outputs'[out_handle[f]]
                                                              ELSE Null
    BY <1>1 DEF ListsAgree, Exists
  <2>2. \A p \in Outputs : f \in effects_list'[p] <=> Active(p)' /\ out_handle[f] = p
    BY <2>1 DEF ListsAgree, Active
  <2>3. pal_stream_handle'[f] = IF Exists(f) THEN outputs'[out_handle[f]] ELSE Null
    <3>1. Exists(f) => out_handle[f] \in Outputs
      BY DEF BundleTypes
    <3> QED
      BY <1>1, <1>3, <2>1, <3>1 DEF ListsAgree
  <2> QED
    BY <2>2, <2>3
<1>8. SessionsDiffer'
  BY <1>1 DEF SessionsDiffer, BundleTypes
<1>9. SettingsOK'
  BY <1>1 DEF SettingsOK
<1>10. NothingLeftOn'
  <2> SUFFICES ASSUME NEW t \in Sessions, NEW y \in dsp'[t] \ {"pbe"}
               PROVE  \E f \in Effects : /\ pal_stream_handle'[f] = t
                                         /\ y \in settings[f].enable_flag
    BY <1>1 DEF NothingLeftOn
  <2>1. t # s /\ y \in dsp[t]
    BY <1>1, <1>5 DEF BundleTypes
  <2>2. PICK f \in Effects : pal_stream_handle[f] = t /\ y \in settings[f].enable_flag
    BY <2>1 DEF NothingLeftOn
  <2>3. out_handle[f] # o
    BY <2>1, <2>2, HandleAssumption DEF ListsAgree
  <2> QED
    BY <1>1, <1>3, <2>2, <2>3
<1>11. FlaggedIsOn'
  <2> SUFFICES ASSUME NEW f \in Effects, Exists(f), Exists(f)', Alone(f)',
                      kind[f] \notin Reverbs, pal_stream_handle'[f] # Null,
                      NEW y \in settings[f].enable_flag \ Weak(settings[f])
               PROVE  y \in dsp'[pal_stream_handle'[f]]
    BY <1>1 DEF FlaggedIsOn, Exists
  <2>1. pal_stream_handle'[f] = pal_stream_handle[f] /\ pal_stream_handle[f] # s
    BY <1>1, <1>4
  <2>2. pal_stream_handle[f] \notin contested
    BY <1>1, <1>6, <1>7, <2>1, ContestInv
  <2>3. y \in dsp[pal_stream_handle[f]] /\ pal_stream_handle[f] \in Sessions
    BY <2>1, <2>2 DEF FlaggedIsOn, Alone, BundleTypes
  <2> QED
    BY <1>1, <2>1, <2>3 DEF BundleTypes
<1> QED
  BY <1>1, <1>6, <1>7, <1>8, <1>9, <1>10, <1>11, ContestInv

LEMMA PalCloseInv ==
  ASSUME BundleInv, NEW s \in Sessions, PalClose(s) PROVE BundleInv'
<1> USE DEF BundleInv, ListsOK
<1>1. /\ \A o \in Outputs : outputs[o] # s
      /\ dsp' = [dsp EXCEPT ![s] = {}] /\ UNCHANGED <<kind, state, listVars, settings>>
  BY DEF PalClose
<1>2. \A e \in Effects : pal_stream_handle[e] # s
  BY <1>1, HandleAssumption DEF ListsAgree, BundleTypes
<1>3. BundleTypes'
  BY <1>1 DEF BundleTypes, listVars, Exists
<1>4. (ListsAgree /\ SessionsDiffer /\ KindsDiffer /\ SettingsOK)'
  BY <1>1 DEF ListsAgree, SessionsDiffer, KindsDiffer, SettingsOK, listVars, Exists, Active
<1>5. NothingLeftOn'
  BY <1>1 DEF NothingLeftOn, listVars, BundleTypes
<1>6. FlaggedIsOn'
  BY <1>1, <1>2 DEF FlaggedIsOn, listVars, BundleTypes, Exists, Alone
<1> QED
  BY <1>3, <1>4, <1>5, <1>6

-----------------------------------------------------------------------------
LEMMA InitInv == Init => BundleInv
<1> SUFFICES ASSUME Init PROVE BundleInv
  OBVIOUS
<1>1. SettingOK("none", "none", Initialized(0)) /\ Initialized(0) \in Settings
  BY InitializedOK DEF SettingOK
<1>2. BundleTypes
  BY <1>1 DEF Init, BundleTypes, Exists
<1>3. ListsAgree /\ SessionsDiffer /\ KindsDiffer
  BY DEF Init, ListsAgree, SessionsDiffer, KindsDiffer, Active, Exists
<1>4. SettingsOK /\ NothingLeftOn /\ FlaggedIsOn
  BY <1>1 DEF Init, SettingsOK, NothingLeftOn, FlaggedIsOn, Exists
<1> QED
  BY <1>2, <1>3, <1>4 DEF BundleInv, ListsOK

LEMMA NextInv == BundleInv /\ [Next]_vars => BundleInv'
<1> SUFFICES ASSUME BundleInv, [Next]_vars PROVE BundleInv'
  OBVIOUS
<1>1. CASE UNCHANGED vars
  BY <1>1 DEF vars, listVars, BundleInv, ListsOK, BundleTypes, ListsAgree, SessionsDiffer,
              KindsDiffer, SettingsOK, NothingLeftOn, FlaggedIsOn, Exists, Active, Alone
<1>2. CASE Next
  BY <1>2, CreateInv, ReleaseInv, ReinitInv, EnableInv, DisableInv, SetParameterInv,
     SetDeviceInv, OffloadInv, HalStartInv, HalStopInv, PalCloseInv DEF Next
<1> QED
  BY <1>1, <1>2

LEMMA InvariantHolds == Spec => []BundleInv
BY InitInv, NextInv, PTL DEF Spec

-----------------------------------------------------------------------------
\* However effects and outputs come, move and go, the list of each output, the output each
\* effect names and the session it sends to agree (bundle.c:153-188, 217-300,
\* 321-507).
THEOREM ListsStayTogether == Spec => [](TypeOK /\ ListsAgree)
<1>1. BundleInv => TypeOK /\ ListsAgree
  <2> SUFFICES ASSUME BundleInv PROVE TypeOK /\ ListsAgree
    OBVIOUS
  <2>1. \A e \in Effects : Exists(e) => settings[e].enable_flag \subseteq Modules(e)
    BY EffectExists DEF SettingOK, AllKinds, Modules
  <2> QED
    BY <2>1 DEF BundleInv, ListsOK, BundleTypes, TypeOK
<1> QED
  BY <1>1, InvariantHolds, PTL

\* No module stays on in the DSP for an effect that was disabled, moved or released
\* (bundle.c:483-507, and the moves of bundle.c:566-782).
THEOREM NothingIsLeftOn == Spec => []NothingLeftOn
<1>1. BundleInv => NothingLeftOn
  BY DEF BundleInv
<1> QED
  BY <1>1, InvariantHolds, PTL

\* The modules on in the DSP are those the effects, as they are enabled and as their devices
\* allow, should have on (virtualizer.c:69-243, 412-575).
THEOREM ModulesAreRight == Spec => []RightModulesOn
<1>1. BundleInv => RightModulesOn
  <2> SUFFICES ASSUME BundleInv PROVE EnabledIsOn /\ DeviceRespected
    BY DEF RightModulesOn
  <2>1. EnabledIsOn
    <3> SUFFICES ASSUME NEW e \in Effects, Exists(e), Alone(e), kind[e] \notin Reverbs,
                        NEW y \in Modules(e),
                        y \in {"bassboost", "virt"} => settings[e].strength > 0
                 PROVE  /\ y \in settings[e].enable_flag /\ pal_stream_handle[e] # Null
                             => y \in dsp[pal_stream_handle[e]]
                        /\ /\ IsActive(e) /\ kind[e] # "bass"
                           /\ y \notin settings[e].temp_disabled
                           => y \in settings[e].enable_flag
      BY DEF EnabledIsOn, Reverbs
    <3>1. kind[e] \in AllKinds /\ SettingOK(kind[e], state[e], settings[e])
      BY EffectExists
    <3>2. y \notin Weak(settings[e])
      BY DEF Weak
    <3>3. y \in settings[e].enable_flag /\ pal_stream_handle[e] # Null
            => y \in dsp[pal_stream_handle[e]]
      BY <3>2 DEF BundleInv, FlaggedIsOn
    <3>4. IsActive(e) /\ kind[e] # "bass" /\ y \notin settings[e].temp_disabled
            => y \in settings[e].enable_flag
      BY <3>1, KindModules DEF SettingOK, IsActive, Modules, AllKinds, Reverbs
    <3> QED
      BY <3>3, <3>4
  <2>2. DeviceRespected
    BY DEF BundleInv, SettingsOK, SettingOK, DeviceRespected
  <2> QED
    BY <2>1, <2>2
<1> QED
  BY <1>1, InvariantHolds, PTL

===============================================================================
