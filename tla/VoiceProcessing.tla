---------------------------- MODULE VoiceProcessing ----------------------------
(***************************************************************************)
(* audio-effects/voice_processing/voice_processing.c: echo canceller and   *)
(* noise suppressor of the capture sessions.  The library does no signal   *)
(* processing, the DSP does; it keeps, for each audio session, which       *)
(* effects exist, which are enabled and which have seen the current        *)
(* buffer, each as a bit mask beside the states of the effects.            *)
(*                                                                         *)
(* The audio server calls the library with its own lock held, so each      *)
(* entry is one step.                                                      *)
(***************************************************************************)
EXTENDS Naturals, FiniteSets

CONSTANTS
  CaptureSessions,   \* the audio session ids
  Configs            \* the configurations a session may be given

Preprocessors == {"AEC", "NS"}

VARIABLES
  session_list,   \* the ids of the sessions that exist
  preprocessor,   \* of each session: the state of each effect
  config,         \* of each session; "default" until one is set
  created_msk, enabled_msk, processed_msk    \* of each session, as sets

maskVars == <<created_msk, enabled_msk, processed_msk>>
processingVars == <<session_list, preprocessor, config, maskVars>>

PreprocessorStates == {"INIT", "CREATED", "CONFIG", "ACTIVE"}

ProcessingInit ==
  /\ session_list = {}
  /\ preprocessor = [s \in CaptureSessions |-> [p \in Preprocessors |-> "INIT"]]
  /\ config = [s \in CaptureSessions |-> "default"]
  /\ created_msk = [s \in CaptureSessions |-> {}]
  /\ enabled_msk = [s \in CaptureSessions |-> {}]
  /\ processed_msk = [s \in CaptureSessions |-> {}]

-----------------------------------------------------------------------------
\* Mutant: an effect that goes from ACTIVE to INIT stays in the enabled mask.
StaysEnabled(s, p, to) ==
  /\ preprocessor' = [preprocessor EXCEPT ![s][p] = to]
  /\ CASE to = "ACTIVE" -> enabled_msk' = [enabled_msk EXCEPT ![s] = @ \cup {p}]
       [] to = "CONFIG" -> enabled_msk' = [enabled_msk EXCEPT ![s] = @ \ {p}]
       [] OTHER -> UNCHANGED enabled_msk
  /\ UNCHANGED processed_msk

\* A change of the enabled mask also forgets which effects have seen the buffer.
session_set_fx_enabled(s, p, enabled) ==
  /\ enabled_msk' = [enabled_msk EXCEPT ![s] = IF enabled THEN @ \cup {p} ELSE @ \ {p}]
  /\ processed_msk' = [processed_msk EXCEPT ![s] = {}]

\* effect_set_state, for a transition it allows.
effect_set_state(s, p, to) ==
  /\ preprocessor' = [preprocessor EXCEPT ![s][p] = to]
  /\ IF (preprocessor[s][p] = "ACTIVE") = (to = "ACTIVE")
     THEN UNCHANGED <<enabled_msk, processed_msk>>
     ELSE session_set_fx_enabled(s, p, to = "ACTIVE")

\* get_session: the session of that id, or a new one at the end of the list.
get_session(s, p) ==
  /\ p \notin created_msk[s]
  /\ session_list' = session_list \cup {s}

\* The first effect of a session sets its configuration and clears its masks.
session_create_effect(s, p) ==
  /\ preprocessor[s][p] = "INIT"
  /\ preprocessor' = [preprocessor EXCEPT ![s][p] = "CREATED"]
  /\ created_msk' = [created_msk EXCEPT ![s] = @ \cup {p}]
  /\ LET new == created_msk[s] = {}
     IN /\ enabled_msk' = [enabled_msk EXCEPT ![s] = IF new THEN {} ELSE @]
        /\ processed_msk' = [processed_msk EXCEPT ![s] = IF new THEN {} ELSE @]
        /\ config' = [config EXCEPT ![s] = IF new THEN "default" ELSE @]

\* lib_create
CreatePreprocessor(s, p) ==
  get_session(s, p) /\ session_create_effect(s, p)

\* The handle the audio server holds: it gives no other to the library.
Holds(s, p) == p \in created_msk[s]

\* The session is freed with its last effect.
session_release_effect(s, p) ==
  /\ effect_set_state(s, p, "INIT")
  /\ created_msk' = [created_msk EXCEPT ![s] = @ \ {p}]
  /\ session_list' = IF created_msk[s] = {p} THEN session_list \ {s} ELSE session_list

\* lib_release
ReleasePreprocessor(s, p) ==
  /\ Holds(s, p) /\ s \in session_list
  /\ session_release_effect(s, p)
  /\ UNCHANGED config

\* While an effect of the session is enabled only the configuration it has is accepted.
session_set_config(s, c) ==
  /\ enabled_msk[s] # {} => c = config[s]
  /\ config' = [config EXCEPT ![s] = c]

\* EFFECT_CMD_SET_CONFIG
SetConfig(s, p, c) ==
  /\ Holds(s, p)
  /\ session_set_config(s, c)
  /\ IF preprocessor[s][p] = "ACTIVE"
     THEN UNCHANGED <<preprocessor, enabled_msk, processed_msk>>
     ELSE effect_set_state(s, p, "CONFIG")
  /\ UNCHANGED <<session_list, created_msk>>

\* EFFECT_CMD_ENABLE: refused before a configuration, ignored when enabled.
EnablePreprocessor(s, p) ==
  /\ Holds(s, p) /\ preprocessor[s][p] \in {"CONFIG", "ACTIVE"}
  /\ effect_set_state(s, p, "ACTIVE")
  /\ UNCHANGED <<session_list, created_msk, config>>

\* EFFECT_CMD_DISABLE: to CONFIG from any state but INIT.
DisablePreprocessor(s, p) ==
  /\ Holds(s, p)
  /\ effect_set_state(s, p, "CONFIG")
  /\ UNCHANGED <<session_list, created_msk, config>>

\* fx_process: the call that completes the enabled effects returns 0 and clears the mask,
\* the ones before it return -ENODATA.
Process(s, p) ==
  /\ Holds(s, p)
  /\ LET seen == processed_msk[s] \cup {p}
         done == enabled_msk[s] \subseteq seen
     IN processed_msk' = [processed_msk EXCEPT ![s] = IF done THEN {} ELSE seen]
  /\ UNCHANGED <<session_list, preprocessor, config, created_msk, enabled_msk>>

ProcessingNext ==
  \E s \in CaptureSessions, p \in Preprocessors :
    \/ CreatePreprocessor(s, p)
    \/ ReleasePreprocessor(s, p)
    \/ \E c \in Configs : SetConfig(s, p, c)
    \/ EnablePreprocessor(s, p)
    \/ DisablePreprocessor(s, p)
    \/ Process(s, p)

ProcessingSpec == ProcessingInit /\ [][ProcessingNext]_processingVars

-----------------------------------------------------------------------------
\* The variables have their types.
ProcessingTypeOK ==
  /\ session_list \subseteq CaptureSessions
  /\ preprocessor \in [CaptureSessions -> [Preprocessors -> PreprocessorStates]]
  /\ config \in [CaptureSessions -> Configs \cup {"default"}]
  /\ created_msk \in [CaptureSessions -> SUBSET Preprocessors]
  /\ enabled_msk \in [CaptureSessions -> SUBSET Preprocessors]
  /\ processed_msk \in [CaptureSessions -> SUBSET Preprocessors]

\* The three masks say the same as the states of the effects and the list says the same as
\* the masks, over any order of the commands of both effects: an effect released while
\* enabled leaves no bit behind, on which fx_process would wait for ever and
\* session_set_config refuse every configuration (voice_processing.c:333-346, 392-408).
\* A buffer that every enabled effect has seen is never left waiting for another call.
MasksAgree ==
  \A s \in CaptureSessions :
    /\ enabled_msk[s] = {p \in Preprocessors : preprocessor[s][p] = "ACTIVE"}
    /\ created_msk[s] = {p \in Preprocessors : preprocessor[s][p] # "INIT"}
    /\ s \in session_list <=> created_msk[s] # {}
    /\ enabled_msk[s] # {} => ~(enabled_msk[s] \subseteq processed_msk[s])

\* A capture session is never reconfigured under an effect that runs in it, even by the
\* other effect (voice_processing.c:362-374).
ConfigHeldWhileEnabled ==
  [][\A s \in CaptureSessions, p \in Preprocessors :
       preprocessor[s][p] = "ACTIVE" /\ preprocessor'[s][p] = "ACTIVE"
         => config'[s] = config[s]]_processingVars
=============================================================================
