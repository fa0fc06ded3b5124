--------------------------- MODULE HalServicesProofs --------------------------
(* VoiceProcessing, SpeakerCalibration, HfpLoopback, FmLoopback,           *)
(* VolumeListener and VisualizerCapture for any number of capture          *)
(* sessions, overlapping calibrations, outputs and volumes and any sizes   *)
(* of buffers; and HalServices, which puts them beside the others.         *)
EXTENDS HalServices, CallServicesProofs, WellFoundedInduction, TLAPS

-----------------------------------------------------------------------------
(* VoiceProcessing.                                                        *)

\* What MasksAgree says of one session.
EnabledAgrees(s) == enabled_msk[s] = {p \in Preprocessors : preprocessor[s][p] = "ACTIVE"}
CreatedAgrees(s) == created_msk[s] = {p \in Preprocessors : preprocessor[s][p] # "INIT"}
ListAgrees(s) == s \in session_list <=> created_msk[s] # {}
NothingWaits(s) == enabled_msk[s] # {} => ~(enabled_msk[s] \subseteq processed_msk[s])
Agrees(s) == EnabledAgrees(s) /\ CreatedAgrees(s) /\ ListAgrees(s) /\ NothingWaits(s)

ProcessingInv == ProcessingTypeOK /\ \A s \in CaptureSessions : Agrees(s)

LEMMA AgreesIsMasksAgree == (\A s \in CaptureSessions : Agrees(s)) <=> MasksAgree
BY DEF Agrees, EnabledAgrees, CreatedAgrees, ListAgrees, NothingWaits, MasksAgree

\* A change of one effect of one session leaves the rest alone.
LEMMA SetStateChanges ==
  ASSUME ProcessingTypeOK, NEW s \in CaptureSessions, NEW p \in Preprocessors,
         NEW to \in PreprocessorStates,
         preprocessor' = [preprocessor EXCEPT ![s][p] = to]
  PROVE  /\ preprocessor' \in [CaptureSessions -> [Preprocessors -> PreprocessorStates]]
         /\ preprocessor'[s][p] = to
         /\ \A q \in Preprocessors \ {p} : preprocessor'[s][q] = preprocessor[s][q]
         /\ \A t \in CaptureSessions \ {s} : preprocessor'[t] = preprocessor[t]
BY DEF ProcessingTypeOK

\* The enabled mask follows the state, and nothing waits for a mask that changed.
LEMMA SetStateAgrees ==
  ASSUME ProcessingInv, NEW s \in CaptureSessions, NEW p \in Preprocessors,
         NEW to \in PreprocessorStates, effect_set_state(s, p, to)
  PROVE  /\ enabled_msk' \in [CaptureSessions -> SUBSET Preprocessors]
         /\ processed_msk' \in [CaptureSessions -> SUBSET Preprocessors]
         /\ \A t \in CaptureSessions \ {s} : /\ enabled_msk'[t] = enabled_msk[t]
                                             /\ processed_msk'[t] = processed_msk[t]
         /\ EnabledAgrees(s)' /\ NothingWaits(s)'
<1> USE DEF ProcessingInv, effect_set_state
<1>1. /\ enabled_msk \in [CaptureSessions -> SUBSET Preprocessors]
      /\ processed_msk \in [CaptureSessions -> SUBSET Preprocessors]
  BY DEF ProcessingTypeOK
<1>2. /\ preprocessor'[s][p] = to
      /\ \A q \in Preprocessors \ {p} : preprocessor'[s][q] = preprocessor[s][q]
  BY SetStateChanges
<1>3. EnabledAgrees(s) /\ NothingWaits(s)
  BY DEF Agrees
<1>4. CASE (preprocessor[s][p] = "ACTIVE") = (to = "ACTIVE")
  <2>1. enabled_msk' = enabled_msk /\ processed_msk' = processed_msk
    BY <1>4
  <2>2. \A q \in Preprocessors : preprocessor'[s][q] = "ACTIVE" <=> preprocessor[s][q] = "ACTIVE"
    BY <1>2, <1>4
  <2> QED
    BY <1>1, <1>3, <2>1, <2>2 DEF EnabledAgrees, NothingWaits
<1>5. CASE (preprocessor[s][p] = "ACTIVE") # (to = "ACTIVE")
  <2>1. /\ enabled_msk' = [enabled_msk EXCEPT ![s] = IF to = "ACTIVE" THEN @ \cup {p} ELSE @ \ {p}]
        /\ processed_msk' = [processed_msk EXCEPT ![s] = {}]
    BY <1>5 DEF session_set_fx_enabled
  <2>2. processed_msk'[s] = {}
    BY <1>1, <2>1
  <2>3. enabled_msk'[s] = IF to = "ACTIVE" THEN enabled_msk[s] \cup {p} ELSE enabled_msk[s] \ {p}
    BY <1>1, <2>1
  <2>4. EnabledAgrees(s)'
    BY <1>2, <1>3, <2>3 DEF EnabledAgrees
  <2>5. NothingWaits(s)'
    BY <2>2 DEF NothingWaits
  <2>6. /\ enabled_msk' \in [CaptureSessions -> SUBSET Preprocessors]
        /\ processed_msk' \in [CaptureSessions -> SUBSET Preprocessors]
        /\ \A t \in CaptureSessions \ {s} : /\ enabled_msk'[t] = enabled_msk[t]
                                            /\ processed_msk'[t] = processed_msk[t]
    BY <1>1, <2>1
  <2> QED
    BY <2>4, <2>5, <2>6
<1> QED
  BY <1>4, <1>5

\* A session whose variables did not change still agrees.
LEMMA OtherSessions ==
  ASSUME NEW t \in CaptureSessions, Agrees(t),
         preprocessor'[t] = preprocessor[t], created_msk'[t] = created_msk[t],
         enabled_msk'[t] = enabled_msk[t], processed_msk'[t] = processed_msk[t],
         t \in session_list' <=> t \in session_list
  PROVE  Agrees(t)'
BY DEF Agrees, EnabledAgrees, CreatedAgrees, ListAgrees, NothingWaits

LEMMA CreateInv ==
  ASSUME ProcessingInv, NEW s \in CaptureSessions, NEW p \in Preprocessors,
         CreatePreprocessor(s, p)
  PROVE  ProcessingInv'
<1> USE DEF CreatePreprocessor, get_session, session_create_effect
<1>1. ProcessingTypeOK /\ Agrees(s)
  BY DEF ProcessingInv
<1>2. "CREATED" \in PreprocessorStates
  BY DEF PreprocessorStates
<1>3. /\ preprocessor' \in [CaptureSessions -> [Preprocessors -> PreprocessorStates]]
      /\ preprocessor'[s][p] = "CREATED"
      /\ \A q \in Preprocessors \ {p} : preprocessor'[s][q] = preprocessor[s][q]
      /\ \A t \in CaptureSessions \ {s} : preprocessor'[t] = preprocessor[t]
  BY <1>1, <1>2, SetStateChanges
<1>4. ProcessingTypeOK'
  BY <1>1, <1>3 DEF ProcessingTypeOK
<1>5. /\ created_msk'[s] = created_msk[s] \cup {p} /\ session_list' = session_list \cup {s}
      /\ enabled_msk'[s] = enabled_msk[s] /\ processed_msk'[s] \in {processed_msk[s], {}}
  <2>1. created_msk[s] = {} => enabled_msk[s] = {}
    BY <1>1 DEF Agrees, EnabledAgrees, CreatedAgrees
  <2> QED
    BY <1>1, <2>1 DEF ProcessingTypeOK
<1>6. EnabledAgrees(s)'
  <2>1. preprocessor[s][p] # "ACTIVE"
    OBVIOUS
  <2> QED
    BY <1>1, <1>3, <1>5, <2>1 DEF Agrees, EnabledAgrees
<1>7. CreatedAgrees(s)'
  BY <1>1, <1>3, <1>5 DEF Agrees, CreatedAgrees
<1>8. ListAgrees(s)' /\ NothingWaits(s)'
  BY <1>1, <1>5 DEF Agrees, ListAgrees, NothingWaits
<1>9. \A t \in CaptureSessions \ {s} : Agrees(t)'
  BY <1>1, <1>3, OtherSessions DEF ProcessingInv, ProcessingTypeOK
<1> QED
  BY <1>4, <1>6, <1>7, <1>8, <1>9 DEF ProcessingInv, Agrees

LEMMA ReleaseInv ==
  ASSUME ProcessingInv, NEW s \in CaptureSessions, NEW p \in Preprocessors,
         ReleasePreprocessor(s, p)
  PROVE  ProcessingInv'
<1> USE DEF ReleasePreprocessor, session_release_effect
<1>1. ProcessingTypeOK /\ Agrees(s)
  BY DEF ProcessingInv
<1>2. "INIT" \in PreprocessorStates
  BY DEF PreprocessorStates
<1>3. /\ preprocessor' \in [CaptureSessions -> [Preprocessors -> PreprocessorStates]]
      /\ preprocessor'[s][p] = "INIT"
      /\ \A q \in Preprocessors \ {p} : preprocessor'[s][q] = preprocessor[s][q]
      /\ \A t \in CaptureSessions \ {s} : preprocessor'[t] = preprocessor[t]
  BY <1>1, <1>2, SetStateChanges DEF effect_set_state
<1>4. /\ enabled_msk' \in [CaptureSessions -> SUBSET Preprocessors]
      /\ processed_msk' \in [CaptureSessions -> SUBSET Preprocessors]
      /\ \A t \in CaptureSessions \ {s} : /\ enabled_msk'[t] = enabled_msk[t]
                                          /\ processed_msk'[t] = processed_msk[t]
      /\ EnabledAgrees(s)' /\ NothingWaits(s)'
  BY <1>2, SetStateAgrees
<1>5. ProcessingTypeOK'
  BY <1>1, <1>3, <1>4 DEF ProcessingTypeOK
<1>6. created_msk'[s] = created_msk[s] \ {p}
  BY <1>1 DEF ProcessingTypeOK
<1>7. CreatedAgrees(s)'
  BY <1>1, <1>3, <1>6 DEF Agrees, CreatedAgrees
<1>8. ListAgrees(s)'
  <2>1. created_msk'[s] = {} <=> created_msk[s] = {p}
    BY <1>6 DEF Holds
  <2> QED
    BY <2>1 DEF ListAgrees
<1>9. \A t \in CaptureSessions \ {s} : Agrees(t)'
  BY <1>1, <1>3, <1>4, OtherSessions DEF ProcessingInv, ProcessingTypeOK
<1> QED
  BY <1>4, <1>5, <1>7, <1>8, <1>9 DEF ProcessingInv, Agrees

\* Enabling, disabling and configuring leave the effects of a session created.
LEMMA SwitchInv ==
  ASSUME ProcessingInv, NEW s \in CaptureSessions, NEW p \in Preprocessors,
         NEW to \in {"CONFIG", "ACTIVE"}, Holds(s, p), effect_set_state(s, p, to),
         UNCHANGED <<session_list, created_msk>>,
         config' \in [CaptureSessions -> Configs \cup {"default"}]
  PROVE  ProcessingInv'
<1>1. ProcessingTypeOK /\ Agrees(s) /\ to \in PreprocessorStates
  BY DEF ProcessingInv, PreprocessorStates
<1>2. /\ preprocessor' \in [CaptureSessions -> [Preprocessors -> PreprocessorStates]]
      /\ preprocessor'[s][p] = to
      /\ \A q \in Preprocessors \ {p} : preprocessor'[s][q] = preprocessor[s][q]
      /\ \A t \in CaptureSessions \ {s} : preprocessor'[t] = preprocessor[t]
  BY <1>1, SetStateChanges DEF effect_set_state
<1>3. /\ enabled_msk' \in [CaptureSessions -> SUBSET Preprocessors]
      /\ processed_msk' \in [CaptureSessions -> SUBSET Preprocessors]
      /\ \A t \in CaptureSessions \ {s} : /\ enabled_msk'[t] = enabled_msk[t]
                                          /\ processed_msk'[t] = processed_msk[t]
      /\ EnabledAgrees(s)' /\ NothingWaits(s)'
  BY <1>1, SetStateAgrees
<1>4. ProcessingTypeOK'
  BY <1>1, <1>2, <1>3 DEF ProcessingTypeOK
<1>5. CreatedAgrees(s)'
  BY <1>1, <1>2 DEF Agrees, CreatedAgrees, Holds
<1>6. ListAgrees(s)'
  BY <1>1 DEF Agrees, ListAgrees
<1>7. \A t \in CaptureSessions \ {s} : Agrees(t)'
  BY <1>2, <1>3, OtherSessions DEF ProcessingInv
<1> QED
  BY <1>3, <1>4, <1>5, <1>6, <1>7 DEF ProcessingInv, Agrees

LEMMA SetConfigInv ==
  ASSUME ProcessingInv, NEW s \in CaptureSessions, NEW p \in Preprocessors, NEW c \in Configs,
         SetConfig(s, p, c)
  PROVE  ProcessingInv'
<1>1. config' \in [CaptureSessions -> Configs \cup {"default"}]
  BY DEF SetConfig, session_set_config, ProcessingInv, ProcessingTypeOK
<1>2. CASE preprocessor[s][p] = "ACTIVE"
  <2>1. UNCHANGED <<session_list, preprocessor, maskVars>>
    BY <1>2 DEF SetConfig, maskVars
  <2> QED
    BY <1>1, <2>1 DEF maskVars, ProcessingInv, ProcessingTypeOK, Agrees, EnabledAgrees,
                      CreatedAgrees, ListAgrees, NothingWaits
<1>3. CASE preprocessor[s][p] # "ACTIVE"
  BY <1>1, <1>3, SwitchInv DEF SetConfig
<1> QED
  BY <1>2, <1>3

LEMMA ProcessInv ==
  ASSUME ProcessingInv, NEW s \in CaptureSessions, NEW p \in Preprocessors, Process(s, p)
  PROVE  ProcessingInv'
<1> DEFINE seen == processed_msk[s] \cup {p}
<1>1. ProcessingTypeOK /\ Agrees(s)
  BY DEF ProcessingInv
<1>2. processed_msk' = [processed_msk EXCEPT ![s] = IF enabled_msk[s] \subseteq seen THEN {} ELSE seen]
  BY DEF Process
<1>3. processed_msk'[s] = IF enabled_msk[s] \subseteq seen THEN {} ELSE seen
  BY <1>1, <1>2 DEF ProcessingTypeOK
<1>4. UNCHANGED <<session_list, preprocessor, config, created_msk, enabled_msk>>
  BY DEF Process
<1>5. ProcessingTypeOK'
  BY <1>1, <1>2, <1>4 DEF ProcessingTypeOK
<1>6. NothingWaits(s)'
  BY <1>3, <1>4 DEF NothingWaits
<1>7. Agrees(s)'
  BY <1>1, <1>4, <1>6 DEF Agrees, EnabledAgrees, CreatedAgrees, ListAgrees
<1>8. \A t \in CaptureSessions \ {s} : Agrees(t)'
  BY <1>1, <1>2, <1>4, OtherSessions DEF ProcessingInv, ProcessingTypeOK
<1> QED
  BY <1>5, <1>7, <1>8 DEF ProcessingInv

LEMMA ProcessingInitInv == ProcessingInit => ProcessingInv
BY DEF ProcessingInit, ProcessingInv, ProcessingTypeOK, PreprocessorStates, Agrees, EnabledAgrees,
       CreatedAgrees, ListAgrees, NothingWaits

LEMMA ProcessingNextInv == ProcessingInv /\ [ProcessingNext]_processingVars => ProcessingInv'
<1> SUFFICES ASSUME ProcessingInv, [ProcessingNext]_processingVars PROVE ProcessingInv'
  OBVIOUS
<1>0. ProcessingTypeOK
  BY DEF ProcessingInv
<1>1. ASSUME NEW s \in CaptureSessions, NEW p \in Preprocessors, EnablePreprocessor(s, p)
      PROVE  ProcessingInv'
  BY <1>0, <1>1, SwitchInv DEF EnablePreprocessor, ProcessingTypeOK
<1>2. ASSUME NEW s \in CaptureSessions, NEW p \in Preprocessors, DisablePreprocessor(s, p)
      PROVE  ProcessingInv'
  BY <1>0, <1>2, SwitchInv DEF DisablePreprocessor, ProcessingTypeOK
<1>3. ASSUME UNCHANGED processingVars PROVE ProcessingInv'
  BY <1>3 DEF processingVars, maskVars, ProcessingInv, ProcessingTypeOK, Agrees, EnabledAgrees,
              CreatedAgrees, ListAgrees, NothingWaits
<1> QED
  BY <1>1, <1>2, <1>3, CreateInv, ReleaseInv, SetConfigInv, ProcessInv DEF ProcessingNext

\* The masks, the states of the effects and the list of sessions agree after any sequence of
\* commands to any sessions, and the variables have their types (voice_processing.c:333-408).
THEOREM ProcessingCorrect == ProcessingSpec => [](ProcessingTypeOK /\ MasksAgree)
<1>1. ProcessingInv => ProcessingTypeOK /\ MasksAgree
  BY AgreesIsMasksAgree DEF ProcessingInv
<1> QED
  BY <1>1, ProcessingInitInv, ProcessingNextInv, PTL DEF ProcessingSpec

\* The configuration of a session is that of its enabled effects until the last of them is
\* disabled or released (voice_processing.c:362-374).
THEOREM ConfigHeld == ProcessingSpec => ConfigHeldWhileEnabled
<1> DEFINE Held == \A s \in CaptureSessions, p \in Preprocessors :
                     preprocessor[s][p] = "ACTIVE" /\ preprocessor'[s][p] = "ACTIVE"
                       => config'[s] = config[s]
<1>1. ProcessingInv /\ [ProcessingNext]_processingVars => [Held]_processingVars
  <2> SUFFICES ASSUME ProcessingInv, ProcessingNext,
                      NEW t \in CaptureSessions, NEW q \in Preprocessors,
                      preprocessor[t][q] = "ACTIVE"
               PROVE  config'[t] = config[t]
    OBVIOUS
  <2>0. ProcessingTypeOK /\ q \in enabled_msk[t] /\ q \in created_msk[t]
    BY DEF ProcessingInv, Agrees, EnabledAgrees, CreatedAgrees
  <2>1. ASSUME NEW s \in CaptureSessions, NEW p \in Preprocessors, CreatePreprocessor(s, p)
        PROVE  config'[t] = config[t]
    BY <2>0, <2>1 DEF CreatePreprocessor, session_create_effect, ProcessingTypeOK
  <2>2. ASSUME NEW s \in CaptureSessions, NEW p \in Preprocessors, NEW c \in Configs,
               SetConfig(s, p, c)
        PROVE  config'[t] = config[t]
    BY <2>0, <2>2 DEF SetConfig, session_set_config, ProcessingTypeOK
  <2>3. ASSUME NEW s \in CaptureSessions, NEW p \in Preprocessors,
               \/ ReleasePreprocessor(s, p) \/ EnablePreprocessor(s, p)
               \/ DisablePreprocessor(s, p) \/ Process(s, p)
        PROVE  config'[t] = config[t]
    BY <2>3 DEF ReleasePreprocessor, EnablePreprocessor, DisablePreprocessor, Process
  <2> QED
    BY <2>1, <2>2, <2>3 DEF ProcessingNext
<1> QED
  BY <1>1, ProcessingInitInv, ProcessingNextInv, PTL DEF ProcessingSpec, ConfigHeldWhileEnabled

-----------------------------------------------------------------------------
(* SpeakerCalibration.                                                     *)

Restored == [dac |-> "off", calib_mode |-> FALSE]
CaliPlaces == {"idle", "created", "lock", "set_mode", "measure", "store",
               "exit_mode", "exit", "measured", "check"}

\* The threads and the amplifiers, of which the argument speaks.
AmpTypeOK ==
  /\ cali_pc \in [CaliThreads -> CaliPlaces]
  /\ measuring \in [CaliThreads -> {"Re", "F0"}]
  /\ fsm_lock \in CaliThreads \cup {NoThread}
  /\ amp \in [dac : {"off", "some", "on"}, calib_mode : BOOLEAN]

\* The calibration mode is entered and left for the resistance alone.
ModeForRe ==
  \A c \in CaliThreads : cali_pc[c] \in {"set_mode", "store", "exit_mode"} => measuring[c] = "Re"

\* Inside fsm_algo_force_calib the mode is on only between its two ends.
ModeBetween ==
  \A c \in CaliThreads :
    fsm_lock = c /\ ~refused /\ amp.calib_mode
      => cali_pc[c] \in {"measure", "store", "exit_mode"} /\ measuring[c] = "Re"

CaliInv == AmpTypeOK /\ LockHeld /\ ModeForRe /\ ModeBetween /\ AmpRestored

LEMMA CaliInitInv == CaliInit => CaliInv
BY NoThreadAssumption
   DEF CaliInit, CaliInv, AmpTypeOK, CaliPlaces, LockHeld, InForceCalib, ModeForRe, ModeBetween,
       AmpRestored

\* A thread that moves leaves the others where they are.
LEMMA GoesToStep ==
  ASSUME AmpTypeOK, NEW c \in CaliThreads, NEW from, NEW to \in CaliPlaces, GoesTo(c, from, to)
  PROVE  /\ cali_pc[c] = from /\ cali_pc'[c] = to
         /\ cali_pc' \in [CaliThreads -> CaliPlaces]
         /\ \A d \in CaliThreads \ {c} : cali_pc'[d] = cali_pc[d]
BY DEF GoesTo, AmpTypeOK

\* A step outside fsm_algo_force_calib that leaves the amplifiers alone.
LEMMA OutsideStep ==
  ASSUME CaliInv, NEW c \in CaliThreads, NEW from \in CaliPlaces \ InForceCalib,
         NEW to \in CaliPlaces \ InForceCalib, GoesTo(c, from, to),
         measuring' \in [CaliThreads -> {"Re", "F0"}],
         \A d \in CaliThreads \ {c} : measuring'[d] = measuring[d],
         UNCHANGED <<fsm_lock, amp, refused>>
  PROVE  CaliInv'
<1>1. AmpTypeOK /\ AmpTypeOK'
  BY GoesToStep DEF CaliInv, AmpTypeOK
<1>2. /\ cali_pc[c] = from /\ cali_pc'[c] = to /\ fsm_lock # c
      /\ \A d \in CaliThreads \ {c} : cali_pc'[d] = cali_pc[d]
  BY <1>1, GoesToStep DEF CaliInv, LockHeld
<1>3. LockHeld' /\ AmpRestored'
  BY <1>2 DEF CaliInv, LockHeld, AmpRestored
<1>4. ModeForRe' /\ ModeBetween'
  BY <1>2 DEF CaliInv, ModeForRe, ModeBetween, InForceCalib
<1> QED
  BY <1>1, <1>3, <1>4 DEF CaliInv

\* A step of the lock's holder that keeps the lock.
LEMMA InsideStep ==
  ASSUME CaliInv, NEW c \in CaliThreads, NEW from \in InForceCalib, NEW to \in InForceCalib,
         GoesTo(c, from, to), UNCHANGED <<measuring, fsm_lock>>,
         amp' \in [dac : {"off", "some", "on"}, calib_mode : BOOLEAN],
         to \in {"set_mode", "store", "exit_mode"} => measuring[c] = "Re",
         ~refused' /\ amp'.calib_mode
           => to \in {"measure", "store", "exit_mode"} /\ measuring[c] = "Re"
  PROVE  CaliInv'
<1>1. to \in CaliPlaces
  BY DEF InForceCalib, CaliPlaces
<1>2. AmpTypeOK /\ AmpTypeOK'
  BY <1>1, GoesToStep DEF CaliInv, AmpTypeOK
<1>3. /\ cali_pc[c] = from /\ cali_pc'[c] = to /\ fsm_lock = c
      /\ \A d \in CaliThreads \ {c} : cali_pc'[d] = cali_pc[d]
  BY <1>1, <1>2, GoesToStep DEF CaliInv, LockHeld
<1>4. LockHeld' /\ AmpRestored'
  BY <1>3, NoThreadAssumption DEF CaliInv, LockHeld, AmpRestored
<1>5. ModeForRe'
  BY <1>3 DEF CaliInv, ModeForRe
<1>6. ModeBetween'
  BY <1>3 DEF ModeBetween
<1> QED
  BY <1>2, <1>4, <1>5, <1>6 DEF CaliInv

\* The two steps that take and leave the lock.
LEMMA ForceCalibInv ==
  ASSUME CaliInv, NEW c \in CaliThreads, ForceCalib(c)
  PROVE  CaliInv'
<1> DEFINE to == IF measuring[c] = "Re" THEN "set_mode" ELSE "measure"
<1>1. to \in CaliPlaces /\ to \in InForceCalib /\ AmpTypeOK
  BY DEF CaliPlaces, InForceCalib, CaliInv
<1>2. /\ cali_pc[c] = "lock" /\ cali_pc'[c] = to /\ fsm_lock = NoThread /\ fsm_lock' = c
      /\ cali_pc' \in [CaliThreads -> CaliPlaces]
      /\ \A d \in CaliThreads \ {c} : cali_pc'[d] = cali_pc[d]
  BY <1>1, GoesToStep DEF ForceCalib
<1>3. PICK dac \in {amp.dac, "some", "on"} :
        amp' = [amp EXCEPT !.dac = dac] /\ UNCHANGED <<measuring, refused>>
  BY DEF ForceCalib, caliResults
<1>4. AmpTypeOK' /\ amp'.calib_mode = amp.calib_mode
  BY <1>1, <1>2, <1>3 DEF AmpTypeOK
<1>5. LockHeld' /\ AmpRestored'
  BY <1>1, <1>2, NoThreadAssumption DEF CaliInv, LockHeld, AmpRestored
<1>6. ModeForRe'
  BY <1>2, <1>3 DEF CaliInv, ModeForRe
<1>7. ModeBetween'
  BY <1>2, <1>3, <1>4 DEF CaliInv, ModeBetween, AmpRestored
<1> QED
  BY <1>4, <1>5, <1>6, <1>7 DEF CaliInv

LEMMA ExitForceCalibInv ==
  ASSUME CaliInv, NEW c \in CaliThreads, ExitForceCalib(c)
  PROVE  CaliInv'
<1>1. AmpTypeOK /\ "measured" \in CaliPlaces
  BY DEF CaliPlaces, CaliInv
<1>2. /\ cali_pc[c] = "exit" /\ cali_pc'[c] = "measured" /\ fsm_lock' = NoThread
      /\ cali_pc' \in [CaliThreads -> CaliPlaces]
      /\ \A d \in CaliThreads \ {c} : cali_pc'[d] = cali_pc[d]
  BY <1>1, GoesToStep DEF ExitForceCalib
<1>3. fsm_lock = c /\ UNCHANGED measuring
  BY <1>2 DEF CaliInv, LockHeld, InForceCalib, ExitForceCalib
<1>4. /\ amp' \in [dac : {"off", "some", "on"}, calib_mode : BOOLEAN]
      /\ ~refused' => ~refused /\ amp'.dac = "off" /\ amp'.calib_mode = amp.calib_mode
  <2>1. CASE amp' = [amp EXCEPT !.dac = "off"] /\ UNCHANGED refused
    BY <1>1, <2>1 DEF AmpTypeOK
  <2>2. CASE amp' = [amp EXCEPT !.dac = "some"] /\ refused' = TRUE
    BY <1>1, <2>2 DEF AmpTypeOK
  <2> QED
    BY <2>1, <2>2 DEF ExitForceCalib
<1>5. AmpTypeOK'
  BY <1>1, <1>2, <1>3, <1>4 DEF AmpTypeOK
<1>6. LockHeld'
  BY <1>2, <1>3, NoThreadAssumption DEF CaliInv, LockHeld, InForceCalib
<1>7. ModeForRe' /\ ModeBetween'
  BY <1>2, <1>3, NoThreadAssumption DEF CaliInv, ModeForRe, ModeBetween
<1>8. AmpRestored'
  <2> SUFFICES ASSUME ~refused' PROVE amp' = Restored
    BY DEF AmpRestored, Restored
  <2>1. ~amp.calib_mode
    BY <1>2, <1>3, <1>4 DEF CaliInv, ModeBetween
  <2> QED
    BY <1>4, <2>1 DEF Restored
<1> QED
  BY <1>5, <1>6, <1>7, <1>8 DEF CaliInv

LEMMA CaliNextInv == CaliInv /\ [CaliNext]_caliVars => CaliInv'
<1> SUFFICES ASSUME CaliInv, [CaliNext]_caliVars PROVE CaliInv'
  OBVIOUS
<1>0. AmpTypeOK
  BY DEF CaliInv
<1> USE DEF CaliPlaces, InForceCalib
<1>1. ASSUME NEW c \in CaliThreads,
             \/ StartCalibration(c) \/ BeginCalibration(c)
             \/ CopyResult(c) \/ CheckCalibration(c)
      PROVE  CaliInv'
  <2>1. /\ measuring' \in [CaliThreads -> {"Re", "F0"}]
        /\ \A d \in CaliThreads \ {c} : measuring'[d] = measuring[d]
        /\ UNCHANGED <<fsm_lock, amp, refused>>
    BY <1>0, <1>1 DEF StartCalibration, BeginCalibration, CopyResult, CheckCalibration,
                      AmpTypeOK
  <2> QED
    BY <1>1, <2>1, OutsideStep
    DEF StartCalibration, BeginCalibration, CopyResult, CheckCalibration
<1>2. ASSUME NEW c \in CaliThreads, ForceCalibFails(c) PROVE CaliInv'
  <2>1. /\ cali_pc[c] = "lock" /\ cali_pc'[c] = "measured"
        /\ cali_pc' \in [CaliThreads -> CaliPlaces]
        /\ \A d \in CaliThreads \ {c} : cali_pc'[d] = cali_pc[d]
    BY <1>0, <1>2, GoesToStep DEF ForceCalibFails
  <2>2. /\ fsm_lock = NoThread /\ UNCHANGED <<measuring, fsm_lock>>
        /\ amp' \in [dac : {"off", "some", "on"}, calib_mode : BOOLEAN]
        /\ ~refused' => ~refused /\ amp' = amp
    BY <1>0, <1>2 DEF ForceCalibFails, AmpTypeOK
  <2>3. AmpTypeOK'
    BY <1>0, <2>1, <2>2 DEF AmpTypeOK
  <2>4. LockHeld' /\ ModeForRe'
    BY <2>1, <2>2, NoThreadAssumption DEF CaliInv, LockHeld, ModeForRe
  <2>5. ModeBetween' /\ AmpRestored'
    BY <2>2, NoThreadAssumption DEF CaliInv, ModeBetween, AmpRestored
  <2> QED
    BY <2>3, <2>4, <2>5 DEF CaliInv
<1>3. ASSUME NEW c \in CaliThreads, SetCalibMode(c) \/ SetCalibModeFails(c) PROVE CaliInv'
  <2>1. measuring[c] = "Re" /\ UNCHANGED <<measuring, fsm_lock>>
    BY <1>3 DEF SetCalibMode, SetCalibModeFails, GoesTo, CaliInv, ModeForRe
  <2>2. amp' \in [dac : {"off", "some", "on"}, calib_mode : BOOLEAN]
    BY <1>0, <1>3 DEF SetCalibMode, SetCalibModeFails, AmpTypeOK
  <2> QED
    BY <1>3, <2>1, <2>2, InsideStep DEF SetCalibMode, SetCalibModeFails
<1>4. ASSUME NEW c \in CaliThreads, Measure(c) PROVE CaliInv'
  <2> DEFINE to == IF measuring[c] = "Re" THEN "store" ELSE "exit"
  <2>1. /\ cali_pc[c] = "measure" /\ fsm_lock = c
        /\ UNCHANGED <<measuring, fsm_lock, amp, refused>>
    BY <1>4 DEF Measure, GoesTo, CaliInv, LockHeld
  <2>2. ~refused' /\ amp'.calib_mode => measuring[c] = "Re"
    BY <2>1 DEF CaliInv, ModeBetween
  <2>3. amp' \in [dac : {"off", "some", "on"}, calib_mode : BOOLEAN]
    BY <1>0, <2>1 DEF AmpTypeOK
  <2>4. GoesTo(c, "measure", to) /\ to \in InForceCalib
    BY <1>4 DEF Measure
  <2>5. measuring[c] = "Re" => to = "store"
    OBVIOUS
  <2>6. to \in {"set_mode", "store", "exit_mode"} => measuring[c] = "Re"
    OBVIOUS
  <2> HIDE DEF to
  <2> QED
    BY <2>1, <2>2, <2>3, <2>4, <2>5, <2>6, InsideStep
<1>5. ASSUME NEW c \in CaliThreads, Store(c) PROVE CaliInv'
  <2>1. measuring[c] = "Re" /\ UNCHANGED <<measuring, fsm_lock, amp, refused>>
    BY <1>5 DEF Store, GoesTo, CaliInv, ModeForRe
  <2>2. amp' \in [dac : {"off", "some", "on"}, calib_mode : BOOLEAN]
    BY <1>0, <2>1 DEF AmpTypeOK
  <2> QED
    BY <1>5, <2>1, <2>2, InsideStep DEF Store
<1>6. ASSUME NEW c \in CaliThreads, LeaveCalibMode(c) PROVE CaliInv'
  <2>1. UNCHANGED <<measuring, fsm_lock>> /\ GoesTo(c, "exit_mode", "exit")
    BY <1>6 DEF LeaveCalibMode, caliResults
  <2>2. /\ amp' \in [dac : {"off", "some", "on"}, calib_mode : BOOLEAN]
        /\ ~refused' => ~amp'.calib_mode
    <3>1. CASE amp' = [amp EXCEPT !.calib_mode = FALSE]
      BY <1>0, <3>1 DEF AmpTypeOK
    <3>2. CASE UNCHANGED amp /\ refused' = TRUE
      BY <1>0, <3>2 DEF AmpTypeOK
    <3> QED
      BY <1>6, <3>1, <3>2 DEF LeaveCalibMode
  <2> QED
    BY <2>1, <2>2, InsideStep
<1>7. ASSUME AskResult \/ UNCHANGED caliVars PROVE CaliInv'
  <2>1. UNCHANGED <<cali_pc, measuring, fsm_lock, amp, refused>>
    BY <1>7 DEF AskResult, caliVars, caliThread
  <2> QED
    BY <2>1 DEF CaliInv, AmpTypeOK, LockHeld, ModeForRe, ModeBetween, AmpRestored
<1> QED
  BY <1>1, <1>2, <1>3, <1>4, <1>5, <1>6, <1>7, ForceCalibInv, ExitForceCalibInv DEF CaliNext

\* However many calibrations overlap and whichever of their steps fail, the amplifiers are
\* left as they were found, unless they refused the control that would do it
\* (fsalgo_calib.c:735-830).
THEOREM CaliRestoresAmp == CaliSpec => []AmpRestored
<1>1. CaliInv => AmpRestored
  BY DEF CaliInv
<1> QED
  BY <1>1, CaliInitInv, CaliNextInv, PTL DEF CaliSpec

\* One calibration at a time drives the amplifiers, and it is the holder of g_fsmLock.
THEOREM CaliLockCorrect == CaliSpec => []LockHeld
<1>1. CaliInv => LockHeld
  BY DEF CaliInv
<1> QED
  BY <1>1, CaliInitInv, CaliNextInv, PTL DEF CaliSpec

\* What the client is told of a calibration that overlaps no other.
ToldIsStored ==
  cali_data.calib_status = "OK" /\ ~overlapped =>
    Written /\ cali_data.Re = "good" /\ cali_data.F0 = "good"

\* Nobody else calibrates, unless the calibrations are marked.
Alone == ~overlapped => \A c, d \in Running : c = d

\* A resistance that is good by the end of its measurement is the one stored.
Kept == measured.Re = "good" => Written

\* A calibration that runs alone: what has been measured, stored and copied when.
ResultOf(c) ==
  cali_pc[c] \notin {"idle", "created"} =>
    /\ cali_data.calib_status = "ONGING"
    /\ cali_pc[c] = "store" /\ measured.Re = "good" => live[c] = "good"
    /\ cali_pc[c] \in {"lock", "set_mode"} => measured.Re # "good" \/ measuring[c] = "F0"
    /\ cali_pc[c] \in {"exit_mode", "exit", "measured"} \/ measuring[c] = "F0" => Kept
    /\ measuring[c] = "F0" => cali_data.Re = measured.Re
    /\ cali_pc[c] = "check" => measuring[c] = "F0" /\ cali_data.F0 = measured.F0
    /\ cali_pc[c] \in {"set_mode", "store", "exit_mode"} => measuring[c] = "Re"

ResultTypeOK ==
  /\ cali_pc \in [CaliThreads -> CaliPlaces]
  /\ measuring \in [CaliThreads -> {"Re", "F0"}]
  /\ live \in [CaliThreads -> Values]
  /\ measured \in [{"Re", "F0"} -> Values]
  /\ cali_data \in [calib_status : {"NOTIN", "ONGING", "OK", "ERROR"}, Re : Values, F0 : Values]
  /\ stored \in Values \cup {"none", "lost"}
  /\ overlapped \in BOOLEAN

ResultInv ==
  /\ ResultTypeOK /\ Alone /\ ToldIsStored
  /\ ~overlapped => \A c \in CaliThreads : ResultOf(c)

LEMMA ResultInitInv == CaliInit => ResultInv
<1> SUFFICES ASSUME CaliInit PROVE ResultInv
  OBVIOUS
<1>1. /\ cali_pc \in [CaliThreads -> CaliPlaces] /\ measuring \in [CaliThreads -> {"Re", "F0"}]
      /\ live \in [CaliThreads -> Values]
      /\ stored \in Values \cup {"none", "lost"} /\ overlapped \in BOOLEAN
  BY DEF CaliInit, CaliPlaces, Values
<1>2. /\ measured \in [{"Re", "F0"} -> Values]
      /\ cali_data \in [calib_status : {"NOTIN", "ONGING", "OK", "ERROR"},
                       Re : Values, F0 : Values]
      /\ cali_data.calib_status = "NOTIN"
  BY DEF CaliInit, NoResult, Values
<1>3. \A c \in CaliThreads : cali_pc[c] = "idle"
  BY DEF CaliInit
<1> QED
  BY <1>1, <1>2, <1>3 DEF ResultInv, ResultTypeOK, Alone, Running, ToldIsStored, ResultOf

\* A thread moves on: the others stay, and wait when it is alone.
LEMMA MoveStep ==
  ASSUME ResultInv, NEW c \in CaliThreads, NEW from, NEW to \in CaliPlaces, GoesTo(c, from, to)
  PROVE  /\ cali_pc[c] = from /\ cali_pc'[c] = to
         /\ cali_pc' \in [CaliThreads -> CaliPlaces]
         /\ \A d \in CaliThreads \ {c} : cali_pc'[d] = cali_pc[d]
         /\ ~overlapped /\ from # "idle" => \A d \in CaliThreads \ {c} : cali_pc[d] = "idle"
BY DEF GoesTo, ResultInv, ResultTypeOK, Alone, Running

\* A thread that goes on alone: the rest follows from its own part of the invariant.
LEMMA AloneStep ==
  ASSUME ResultInv, NEW c \in CaliThreads, NEW from \in CaliPlaces \ {"idle", "created"},
         NEW to \in CaliPlaces, GoesTo(c, from, to), overlapped' = overlapped,
         ResultTypeOK', ~overlapped => ResultOf(c)',
         ~overlapped /\ cali_data'.calib_status = "OK" =>
           Written' /\ cali_data'.Re = "good" /\ cali_data'.F0 = "good"
  PROVE  ResultInv'
<1>1. /\ cali_pc[c] = from /\ cali_pc'[c] = to
      /\ \A d \in CaliThreads \ {c} : cali_pc'[d] = cali_pc[d]
      /\ ~overlapped => \A d \in CaliThreads \ {c} : cali_pc[d] = "idle"
  BY MoveStep
<1>2. Alone'
  BY <1>1 DEF Alone, Running
<1>3. ~overlapped => \A d \in CaliThreads : ResultOf(d)'
  BY <1>1 DEF ResultOf
<1> QED
  BY <1>2, <1>3 DEF ResultInv, ToldIsStored

LEMMA ResultNextInv == ResultInv /\ [CaliNext]_caliVars => ResultInv'
<1> SUFFICES ASSUME ResultInv, [CaliNext]_caliVars PROVE ResultInv'
  OBVIOUS
<1>0. ResultTypeOK
  BY DEF ResultInv
<1> USE DEF CaliPlaces, Values
<1>1. ASSUME NEW c \in CaliThreads, StartCalibration(c) PROVE ResultInv'
  <2>1. /\ cali_pc[c] = "idle" /\ cali_pc'[c] = "created"
        /\ cali_pc' \in [CaliThreads -> CaliPlaces]
        /\ \A d \in CaliThreads \ {c} : cali_pc'[d] = cali_pc[d]
    BY <1>1, MoveStep DEF StartCalibration
  <2>2. /\ UNCHANGED <<measuring, live, measured, cali_data, stored>>
        /\ overlapped' <=> overlapped \/ Running # {}
        /\ overlapped' \in BOOLEAN
    BY <1>0, <1>1 DEF StartCalibration, caliResults, ResultTypeOK
  <2>3. ResultTypeOK'
    BY <1>0, <2>1, <2>2 DEF ResultTypeOK
  <2>4. ~overlapped' => ~overlapped /\ \A d \in CaliThreads \ {c} : cali_pc'[d] = "idle"
    BY <2>1, <2>2 DEF Running
  <2>5. Alone'
    BY <2>4 DEF Alone, Running
  <2>6. ToldIsStored'
    BY <2>2, <2>4 DEF ResultInv, ToldIsStored, Written
  <2>7. ASSUME ~overlapped', NEW d \in CaliThreads PROVE ResultOf(d)'
    BY <2>1, <2>4, <2>7 DEF ResultOf
  <2> QED
    BY <2>3, <2>5, <2>6, <2>7 DEF ResultInv
<1>2. ASSUME NEW c \in CaliThreads, BeginCalibration(c) PROVE ResultInv'
  <2>1. /\ cali_pc[c] = "created" /\ cali_pc'[c] = "lock"
        /\ cali_pc' \in [CaliThreads -> CaliPlaces]
        /\ \A d \in CaliThreads \ {c} : cali_pc'[d] = cali_pc[d]
    BY <1>2, MoveStep DEF BeginCalibration
  <2>2. /\ measuring' = [measuring EXCEPT ![c] = "Re"] /\ UNCHANGED <<stored, live>>
        /\ measured' = [Re |-> "zero", F0 |-> "zero"]
        /\ cali_data' = [calib_status |-> "ONGING", Re |-> "zero", F0 |-> "zero"]
        /\ overlapped' <=> Running # {c}
        /\ overlapped' \in BOOLEAN
    BY <1>2 DEF BeginCalibration, NoResult
  <2>3. ResultTypeOK'
    BY <1>0, <2>1, <2>2 DEF ResultTypeOK
  <2>4. ~overlapped' => \A d \in CaliThreads \ {c} : cali_pc'[d] = "idle"
    BY <2>1, <2>2 DEF Running
  <2>5. Alone'
    BY <2>4 DEF Alone, Running
  <2>6. cali_data'.calib_status = "ONGING" /\ ToldIsStored'
    BY <2>2 DEF ToldIsStored
  <2>7. ASSUME ~overlapped', NEW d \in CaliThreads PROVE ResultOf(d)'
    <3>1. measuring'[c] = "Re" /\ measured'.Re = "zero"
      BY <1>0, <2>2 DEF ResultTypeOK
    <3> QED
      BY <2>1, <2>4, <2>6, <2>7, <3>1 DEF ResultOf
  <2> QED
    BY <2>3, <2>5, <2>6, <2>7 DEF ResultInv
<1>3. ASSUME NEW c \in CaliThreads,
             \/ ForceCalibFails(c) \/ ForceCalib(c) \/ SetCalibMode(c)
             \/ SetCalibModeFails(c) \/ LeaveCalibMode(c) \/ ExitForceCalib(c)
      PROVE  ResultInv'
  <2>1. UNCHANGED <<measuring, live, measured, cali_data, stored, overlapped>>
    BY <1>3 DEF ForceCalibFails, ForceCalib, SetCalibMode, SetCalibModeFails, LeaveCalibMode,
                ExitForceCalib, caliResults
  <2>2. PICK from \in CaliPlaces \ {"idle", "created"}, to \in CaliPlaces :
          /\ GoesTo(c, from, to)
          /\ \/ from = "lock" /\ to = "measured"
             \/ from = "lock" /\ to = "set_mode" /\ measuring[c] = "Re"
             \/ from = "lock" /\ to = "measure" /\ measuring[c] # "Re"
             \/ from = "set_mode" /\ to \in {"measure", "exit_mode"}
             \/ from = "exit_mode" /\ to = "exit"
             \/ from = "exit" /\ to = "measured"
    BY <1>3 DEF ForceCalibFails, ForceCalib, SetCalibMode, SetCalibModeFails, LeaveCalibMode,
                ExitForceCalib
  <2>3. cali_pc[c] = from /\ cali_pc'[c] = to /\ cali_pc' \in [CaliThreads -> CaliPlaces]
    BY <2>2, MoveStep
  <2>4. ResultTypeOK'
    BY <1>0, <2>1, <2>3 DEF ResultTypeOK
  <2>5. ~overlapped => ResultOf(c)'
    BY <1>0, <2>1, <2>2, <2>3 DEF ResultInv, ResultOf, Kept, Written, ResultTypeOK
  <2>6. ~overlapped /\ cali_data'.calib_status = "OK" =>
          Written' /\ cali_data'.Re = "good" /\ cali_data'.F0 = "good"
    BY <2>1 DEF ResultInv, ToldIsStored, Written
  <2> QED
    BY <2>1, <2>2, <2>4, <2>5, <2>6, AloneStep
<1>4. ASSUME NEW c \in CaliThreads, Measure(c) PROVE ResultInv'
  <2> DEFINE to == IF measuring[c] = "Re" THEN "store" ELSE "exit"
  <2>1. /\ GoesTo(c, "measure", to) /\ UNCHANGED <<measuring, cali_data, stored, overlapped>>
        /\ to \in CaliPlaces
    BY <1>4 DEF Measure
  <2>2. PICK v \in {"good", "bad"} :
          /\ measured' = [measured EXCEPT ![measuring[c]] = v]
          /\ live' = IF measuring[c] = "Re" THEN [live EXCEPT ![c] = v] ELSE live
    BY <1>4 DEF Measure
  <2>3. /\ cali_pc[c] = "measure" /\ cali_pc'[c] = to
        /\ cali_pc' \in [CaliThreads -> CaliPlaces]
    BY <2>1, MoveStep
  <2>4. /\ measuring[c] \in {"Re", "F0"}
        /\ measuring[c] = "F0" => measured'.Re = measured.Re /\ to = "exit"
        /\ measuring[c] = "Re" => to = "store" /\ measured'.Re = v /\ live'[c] = v
        /\ live' \in [CaliThreads -> Values]
    BY <1>0, <2>2 DEF ResultTypeOK
  <2> HIDE DEF to
  <2>5. ResultTypeOK'
    BY <1>0, <2>1, <2>2, <2>3 DEF ResultTypeOK
  <2>6. ~overlapped => ResultOf(c)'
    BY <2>1, <2>3, <2>4 DEF ResultInv, ResultOf, Kept, Written
  <2>7. ~overlapped /\ cali_data'.calib_status = "OK" =>
          Written' /\ cali_data'.Re = "good" /\ cali_data'.F0 = "good"
    BY <2>1 DEF ResultInv, ToldIsStored, Written
  <2> QED
    BY <2>1, <2>5, <2>6, <2>7, AloneStep
<1>5. ASSUME NEW c \in CaliThreads, Store(c) PROVE ResultInv'
  <2>1. /\ GoesTo(c, "store", "exit_mode") /\ UNCHANGED <<measuring, live, cali_data, overlapped>>
    BY <1>5 DEF Store
  <2>2. /\ cali_pc[c] = "store" /\ cali_pc'[c] = "exit_mode"
        /\ cali_pc' \in [CaliThreads -> CaliPlaces]
    BY <2>1, MoveStep
  <2>3. /\ measured' \in [{"Re", "F0"} -> Values]
        /\ stored' \in Values \cup {"none", "lost"}
        /\ ~overlapped /\ measured'.Re = "good" => Written'
    <3>1. CASE stored' \in {live[c], "lost"} /\ UNCHANGED measured
      BY <1>0, <2>2, <3>1 DEF ResultTypeOK, ResultInv, ResultOf, Written
    <3>2. CASE measured' = [measured EXCEPT !.Re = "zero"] /\ UNCHANGED stored
      BY <1>0, <3>2 DEF ResultTypeOK
    <3> QED
      BY <1>5, <3>1, <3>2 DEF Store
  <2>4. ResultTypeOK'
    BY <1>0, <2>1, <2>2, <2>3 DEF ResultTypeOK
  <2>5. ~overlapped => ResultOf(c)' /\ cali_data'.calib_status = "ONGING"
    BY <2>1, <2>2, <2>3 DEF ResultInv, ResultOf, Kept, Written
  <2> QED
    BY <2>1, <2>4, <2>5, AloneStep
<1>6. ASSUME NEW c \in CaliThreads, CopyResult(c) PROVE ResultInv'
  <2> DEFINE to == IF measuring[c] = "Re" THEN "lock" ELSE "check"
  <2>1. /\ GoesTo(c, "measured", to) /\ to \in CaliPlaces
        /\ UNCHANGED <<live, measured, stored, overlapped>>
        /\ measuring' = [measuring EXCEPT ![c] = "F0"]
        /\ cali_data' = [cali_data EXCEPT ![measuring[c]] = measured[measuring[c]]]
    BY <1>6 DEF CopyResult
  <2>2. /\ cali_pc[c] = "measured" /\ cali_pc'[c] = to
        /\ cali_pc' \in [CaliThreads -> CaliPlaces]
    BY <2>1, MoveStep
  <2>3. measuring[c] \in {"Re", "F0"} /\ measuring'[c] = "F0"
        /\ measuring' \in [CaliThreads -> {"Re", "F0"}]
    BY <1>0, <2>1 DEF ResultTypeOK
  <2>4. CASE measuring[c] = "Re"
    <3>1. /\ cali_data' = [cali_data EXCEPT !.Re = measured.Re] /\ to = "lock"
          /\ measured.Re \in Values
      BY <1>0, <2>1, <2>4 DEF ResultTypeOK
    <3>2. /\ cali_data' \in [calib_status : {"NOTIN", "ONGING", "OK", "ERROR"},
                             Re : Values, F0 : Values]
          /\ cali_data'.calib_status = cali_data.calib_status
          /\ cali_data'.Re = measured.Re
      BY <1>0, <3>1 DEF ResultTypeOK
    <3>3. ResultTypeOK'
      BY <1>0, <2>1, <2>2, <2>3, <3>2 DEF ResultTypeOK
    <3>4. ~overlapped => ResultOf(c)' /\ cali_data'.calib_status = "ONGING"
      BY <2>1, <2>2, <2>3, <3>1, <3>2 DEF ResultInv, ResultOf, Kept, Written
    <3> QED
      BY <2>1, <3>3, <3>4, AloneStep
  <2>5. CASE measuring[c] = "F0"
    <3>1. /\ cali_data' = [cali_data EXCEPT !.F0 = measured.F0] /\ to = "check"
          /\ measured.F0 \in Values
      BY <1>0, <2>1, <2>5 DEF ResultTypeOK
    <3>2. /\ cali_data' \in [calib_status : {"NOTIN", "ONGING", "OK", "ERROR"},
                             Re : Values, F0 : Values]
          /\ cali_data'.calib_status = cali_data.calib_status
          /\ cali_data'.Re = cali_data.Re /\ cali_data'.F0 = measured.F0
      BY <1>0, <3>1 DEF ResultTypeOK
    <3>3. ResultTypeOK'
      BY <1>0, <2>1, <2>2, <2>3, <3>2 DEF ResultTypeOK
    <3>4. ~overlapped => ResultOf(c)' /\ cali_data'.calib_status = "ONGING"
      BY <2>1, <2>2, <2>3, <2>5, <3>1, <3>2 DEF ResultInv, ResultOf, Kept, Written
    <3> QED
      BY <2>1, <3>3, <3>4, AloneStep
  <2> QED
    BY <2>3, <2>4, <2>5
<1>7. ASSUME NEW c \in CaliThreads, CheckCalibration(c) PROVE ResultInv'
  <2> DEFINE st == IF measured = [Re |-> "good", F0 |-> "good"] THEN "OK" ELSE "ERROR"
  <2>1. /\ GoesTo(c, "check", "idle")
        /\ UNCHANGED <<measuring, live, measured, stored, overlapped>>
        /\ cali_data' = [cali_data EXCEPT !.calib_status = st]
    BY <1>7 DEF CheckCalibration
  <2>2. /\ cali_pc[c] = "check" /\ cali_pc'[c] = "idle"
        /\ cali_pc' \in [CaliThreads -> CaliPlaces]
    BY <2>1, MoveStep
  <2>3. /\ cali_data' \in [calib_status : {"NOTIN", "ONGING", "OK", "ERROR"},
                           Re : Values, F0 : Values]
        /\ cali_data'.calib_status = st
        /\ cali_data'.Re = cali_data.Re /\ cali_data'.F0 = cali_data.F0
    BY <1>0, <2>1 DEF ResultTypeOK
  <2>4. ResultTypeOK'
    BY <1>0, <2>1, <2>2, <2>3 DEF ResultTypeOK
  <2>5. st = "OK" => measured.Re = "good" /\ measured.F0 = "good"
    BY DEF st
  <2> HIDE DEF st
  <2>6. ResultOf(c)'
    BY <2>2 DEF ResultOf
  <2>7. ~overlapped /\ cali_data'.calib_status = "OK" =>
          Written' /\ cali_data'.Re = "good" /\ cali_data'.F0 = "good"
    BY <2>1, <2>2, <2>3, <2>5 DEF ResultInv, ResultOf, Kept, Written
  <2> QED
    BY <2>1, <2>4, <2>6, <2>7, AloneStep
<1>8. CASE AskResult
  <2>1. /\ UNCHANGED <<cali_pc, measuring, live, measured, stored, overlapped>>
        /\ cali_data' = NoResult /\ cali_data.calib_status # "ONGING"
    BY <1>8 DEF AskResult, caliThread
  <2>2. ResultTypeOK'
    BY <1>0, <2>1 DEF ResultTypeOK, NoResult
  <2>3. Alone' /\ ToldIsStored'
    BY <2>1 DEF ResultInv, Alone, Running, ToldIsStored, Written, NoResult
  <2>4. ~overlapped => \A c \in CaliThreads : ResultOf(c)'
    BY <2>1 DEF ResultInv, ResultOf
  <2> QED
    BY <2>1, <2>2, <2>3, <2>4 DEF ResultInv
<1>9. CASE UNCHANGED caliVars
  BY <1>9 DEF caliVars, caliThread, caliResults, ResultInv, ResultTypeOK, Alone, Running,
     ToldIsStored, ResultOf, Kept, Written
<1> QED
  BY <1>1, <1>2, <1>3, <1>4, <1>5, <1>6, <1>7, <1>8, <1>9 DEF CaliNext


\* Also while calibrations overlap: a resistance in the global that is good is in the file,
\* or the holder of g_fsmLock is about to put it there.
Pending == \E d \in CaliThreads : cali_pc[d] = "store" /\ live[d] = "good"
WriteInv ==
  /\ ResultTypeOK /\ LockHeld
  /\ measured.Re = "good" =>
       /\ Written \/ Pending
       /\ \A d \in CaliThreads : cali_pc[d] = "store" => live[d] = "good"

LEMMA WriteInitInv == CaliInit => WriteInv
<1>1. CaliInit => LockHeld
  BY CaliInitInv DEF CaliInv
<1>2. CaliInit => ResultTypeOK /\ measured.Re = "zero"
  BY ResultInitInv DEF ResultInv, CaliInit
<1> QED
  BY <1>1, <1>2 DEF WriteInv

LEMMA WriteNextInv ==
  WriteInv /\ CaliInv /\ CaliInv' /\ ResultInv' /\ [CaliNext]_caliVars => WriteInv'
<1> SUFFICES ASSUME WriteInv, CaliInv, CaliInv', ResultInv', [CaliNext]_caliVars
             PROVE  WriteInv'
  OBVIOUS
<1>0. ResultTypeOK /\ LockHeld /\ ResultTypeOK' /\ LockHeld'
  BY DEF WriteInv, CaliInv, ResultInv
<1> USE DEF Values
<1>1. ASSUME NEW c \in CaliThreads, Measure(c) PROVE WriteInv'
  <2>1. /\ cali_pc[c] = "measure" /\ stored' = stored
        /\ \A d \in CaliThreads \ {c} : cali_pc'[d] = cali_pc[d] /\ cali_pc[d] # "store"
    BY <1>0, <1>1 DEF Measure, GoesTo, LockHeld, InForceCalib, ResultTypeOK
  <2>2. CASE measuring[c] = "Re"
    <3>1. /\ cali_pc'[c] = "store" /\ live'[c] = measured'.Re
      BY <1>0, <1>1, <2>2 DEF Measure, GoesTo, ResultTypeOK
    <3> QED
      BY <1>0, <2>1, <3>1 DEF WriteInv, Pending
  <2>3. CASE measuring[c] # "Re"
    <3>1. cali_pc'[c] = "exit" /\ live' = live /\ measured'.Re = measured.Re
      BY <1>0, <1>1, <2>3 DEF Measure, GoesTo, ResultTypeOK
    <3> QED
      BY <1>0, <2>1, <3>1 DEF WriteInv, Pending, Written
  <2> QED
    BY <2>2, <2>3
<1>2. ASSUME NEW c \in CaliThreads, Store(c) PROVE WriteInv'
  <2>1. /\ cali_pc[c] = "store" /\ cali_pc'[c] = "exit_mode" /\ live' = live
        /\ \A d \in CaliThreads \ {c} : cali_pc'[d] = cali_pc[d] /\ cali_pc[d] # "store"
    BY <1>0, <1>2 DEF Store, GoesTo, LockHeld, InForceCalib, ResultTypeOK
  <2>2. CASE stored' \in {live[c], "lost"} /\ UNCHANGED measured
    BY <1>0, <2>1, <2>2 DEF WriteInv, Written
  <2>3. CASE measured' = [measured EXCEPT !.Re = "zero"] /\ UNCHANGED stored
    BY <1>0, <2>1, <2>3 DEF WriteInv, ResultTypeOK
  <2> QED
    BY <1>2, <2>2, <2>3 DEF Store
<1>3. ASSUME NEW c \in CaliThreads, BeginCalibration(c) PROVE WriteInv'
  BY <1>0, <1>3 DEF BeginCalibration, WriteInv
<1>4. ASSUME NEW c \in CaliThreads,
             \/ StartCalibration(c) \/ ForceCalib(c) \/ ForceCalibFails(c)
             \/ SetCalibMode(c) \/ SetCalibModeFails(c)
             \/ LeaveCalibMode(c) \/ ExitForceCalib(c)
             \/ CopyResult(c) \/ CheckCalibration(c)
      PROVE  WriteInv'
  <2>1. UNCHANGED <<live, measured, stored>>
    BY <1>4 DEF StartCalibration, ForceCalib, ForceCalibFails, SetCalibMode,
                SetCalibModeFails, LeaveCalibMode, ExitForceCalib, CopyResult,
                CheckCalibration, caliResults
  <2>2. /\ cali_pc[c] # "store" /\ cali_pc'[c] # "store"
        /\ \A d \in CaliThreads \ {c} : cali_pc'[d] = cali_pc[d]
    BY <1>0, <1>4 DEF StartCalibration, ForceCalib, ForceCalibFails, SetCalibMode,
                SetCalibModeFails, LeaveCalibMode, ExitForceCalib, CopyResult,
                CheckCalibration, GoesTo, ResultTypeOK
  <2> QED
    BY <1>0, <2>1, <2>2 DEF WriteInv, Pending, Written
<1>5. CASE AskResult \/ UNCHANGED caliVars
  BY <1>0, <1>5 DEF AskResult, caliVars, caliThread, caliResults, WriteInv, Pending, Written
<1> QED
  BY <1>1, <1>2, <1>3, <1>4, <1>5 DEF CaliNext

\* The step that tells "ok".
LEMMA TellsStored ==
  ASSUME WriteInv, ResultInv, ResultInv', CaliNext,
         NEW c \in CaliThreads, cali_pc[c] = "check", cali_pc'[c] = "idle",
         cali_data'.calib_status = "OK"
  PROVE  /\ Written \/ Pending
         /\ ~overlapped => Written /\ cali_data'.Re = "good" /\ cali_data'.F0 = "good"
<1>1. CheckCalibration(c)
  BY DEF CaliNext, StartCalibration, BeginCalibration, ForceCalib, ForceCalibFails,
     SetCalibMode, SetCalibModeFails, Measure, Store, LeaveCalibMode, ExitForceCalib,
     CopyResult, CheckCalibration, AskResult, caliThread, GoesTo, ResultInv, ResultTypeOK
<1>2. measured = [Re |-> "good", F0 |-> "good"] /\ UNCHANGED <<stored, overlapped>>
  BY <1>1 DEF CheckCalibration, ResultInv, ResultTypeOK
<1>3. Written \/ Pending
  BY <1>2 DEF WriteInv
<1>4. ~overlapped => Written /\ cali_data'.Re = "good" /\ cali_data'.F0 = "good"
  BY <1>2 DEF ResultInv, ToldIsStored, Written
<1> QED
  BY <1>3, <1>4

\* "ok" is only told of a resistance in range that was put in the file opened for it or is
\* about to be, whatever fails on the way and however calibrations overlap; and, of a
\* calibration that overlaps no other, only with the values it stored
\* (fsalgo_calib.c:671-677, 809-813, 971-996).
THEOREM CaliOkIsStored == CaliSpec => OkIsStored
<1> DEFINE Inv == CaliInv /\ ResultInv /\ WriteInv
<1>1. CaliInit => Inv
  BY CaliInitInv, ResultInitInv, WriteInitInv
<1>2. Inv /\ [CaliNext]_caliVars => Inv'
  BY CaliNextInv, ResultNextInv, WriteNextInv
<1> DEFINE Tells ==
      \A c \in CaliThreads :
        cali_pc[c] = "check" /\ cali_pc'[c] = "idle" /\ cali_data'.calib_status = "OK" =>
          /\ Written \/ \E d \in CaliThreads : cali_pc[d] = "store" /\ live[d] = "good"
          /\ ~overlapped => Written /\ cali_data'.Re = "good" /\ cali_data'.F0 = "good"
<1>3. Inv /\ Inv' /\ [CaliNext]_caliVars => [Tells]_caliVars
  BY TellsStored DEF Pending
<1> HIDE DEF Inv
<1>4. CaliSpec => [][Tells]_caliVars
  BY <1>1, <1>2, <1>3, PTL DEF CaliSpec
<1> QED
  BY <1>4 DEF OkIsStored

USE DEF hfpState, volumes, MaxVolume, NoSessions

-----------------------------------------------------------------------------
(* HFP.  The three invariants together are inductive: that a call is whole *)
(* needs the handles to be set while one runs, as stop_hfp closes only     *)
(* what a handle names.                                                    *)

HfpInv == HfpTypeOK /\ HfpWhole /\ HfpVolumeHeard

LEMMA HfpInitInv == HfpInit => HfpInv
<1> SUFFICES ASSUME HfpInit PROVE HfpInv
  OBVIOUS
<1>1. HfpTypeOK
  <2>1. /\ is_hfp_running \in BOOLEAN /\ rx_refused \in BOOLEAN
        /\ rx_stream_handle \in BOOLEAN /\ tx_stream_handle \in BOOLEAN
    <3>1. /\ is_hfp_running = FALSE /\ rx_refused = FALSE
          /\ rx_stream_handle = FALSE /\ tx_stream_handle = FALSE
      BY DEF HfpInit
    <3> QED
      BY <3>1
  <2>2. /\ hfp_volume \in HfpVolumes \cup {0} /\ mic_volume \in 0..MaxVolume * 15
        /\ sample_rate \in {8000, 16000} /\ rx_heard \in 0..MaxVolume
    BY DEF HfpInit, CAPTURE_VOLUME_DEFAULT
  <2>3. hfp_pal \in [rx : {"none", "started"}, tx : {"none", "started"}]
    BY DEF HfpInit
  <2>4. sco \in [devices : SUBSET {"in", "out"}, on : BOOLEAN, wide : BOOLEAN]
    BY DEF HfpInit
  <2> QED
    BY <2>1, <2>2, <2>3, <2>4 DEF HfpTypeOK
<1>2. HfpWhole /\ HfpVolumeHeard
  BY DEF HfpInit, HfpWhole, HfpVolumeHeard
<1> QED
  BY <1>1, <1>2 DEF HfpInv

\* Whatever is sent to the head set is in range.
LEMMA InRangeType ==
  ASSUME NEW value \in Int
  PROVE  InRange(value) \in 0..MaxVolume
BY DEF InRange

LEMMA ScoType ==
  ASSUME HfpTypeOK, NEW n \in 0..4
  PROVE  ScoAfter(n) \in [devices : SUBSET {"in", "out"}, on : BOOLEAN, wide : BOOLEAN]
<1> DEFINE told == sco.devices \cup (IF n >= 1 THEN {"in"} ELSE {})
                               \cup (IF n >= 2 THEN {"out"} ELSE {})
           on == sco.on \/ n >= 3
           wide == IF n >= 4 THEN sample_rate = 16000 ELSE sco.wide
<1>1. sco.devices \in SUBSET {"in", "out"} /\ sco.on \in BOOLEAN /\ sco.wide \in BOOLEAN
  BY DEF HfpTypeOK
<1>2. told \in SUBSET {"in", "out"}
  BY <1>1
<1>3. on \in BOOLEAN
  BY <1>1
<1>4. wide \in BOOLEAN
  <2>1. CASE n >= 4
    <3>1. wide = (sample_rate = 16000)
      BY <2>1
    <3> HIDE DEF wide
    <3> QED
      BY <3>1
  <2>2. CASE ~(n >= 4)
    BY <1>1, <2>2
  <2> QED
    BY <2>1, <2>2
<1>5. ScoAfter(n) = [devices |-> told, on |-> on, wide |-> wide]
  BY DEF ScoAfter
<1> HIDE DEF told, on, wide
<1> QED
  BY <1>2, <1>3, <1>4, <1>5

\* A volume that is sent is heard, or its refusal is on record.
LEMMA SendVolumeStep ==
  ASSUME HfpTypeOK, NEW value \in Int, SendVolume(value)
  PROVE  /\ rx_heard' \in 0..MaxVolume /\ rx_refused' \in BOOLEAN
         /\ ~rx_refused' => rx_heard' = InRange(value)
<1>1. InRange(value) \in 0..MaxVolume
  BY InRangeType
<1>2. rx_heard' \in 0..MaxVolume
  BY <1>1 DEF SendVolume, HfpTypeOK
<1>3. rx_refused' \in BOOLEAN
  BY Zenon DEF SendVolume
<1>4. ~rx_refused' => rx_heard' = InRange(value)
  BY Zenon DEF SendVolume
<1> QED
  BY <1>2, <1>3, <1>4

LEMMA HfpNextInv == HfpInv /\ [HfpNext]_hfpVars => HfpInv'
<1> SUFFICES ASSUME HfpInv, [HfpNext]_hfpVars PROVE HfpInv'
  OBVIOUS
<1> USE DEF HfpInv
<1>0. hfp_volume \in Int
  BY HfpVolumesAssumption DEF HfpTypeOK
<1>1. ASSUME StartSetupFails PROVE HfpInv'
  BY <1>1, ScoType DEF StartSetupFails, HfpTypeOK, HfpWhole, HfpVolumeHeard
<1>2. ASSUME StartRxFails PROVE HfpInv'
  BY <1>2, ScoType DEF StartRxFails, HandlesFree, HfpTypeOK, HfpWhole, HfpVolumeHeard
<1>3. ASSUME StartTxFails PROVE HfpInv'
  BY <1>3, ScoType DEF StartTxFails, HfpTypeOK, HfpWhole, HfpVolumeHeard
<1>4. ASSUME StartHfp PROVE HfpInv'
  <2>1. HfpTypeOK' /\ HfpWhole'
    BY <1>4, <1>0, ScoType, SendVolumeStep DEF StartHfp, HfpTypeOK, HfpWhole
  <2>2. HfpVolumeHeard'
    BY <1>4, <1>0, SendVolumeStep DEF StartHfp, HfpVolumeHeard, InRange
  <2> QED
    BY <2>1, <2>2
<1>5. ASSUME StopHfp PROVE HfpInv'
  <2>1. /\ is_hfp_running' = FALSE /\ rx_stream_handle' = FALSE /\ tx_stream_handle' = FALSE
        /\ UNCHANGED <<volumes, sample_rate>>
    BY <1>5 DEF StopHfp
  <2>2. hfp_pal' = NoSessions
    BY <1>5 DEF StopHfp, HfpWhole
  <2>3. sco' \in [devices : SUBSET {"in", "out"}, on : BOOLEAN, wide : BOOLEAN]
    <3>1. sco' = [sco EXCEPT !.on = TRUE, !.devices = {}]
      BY <1>5 DEF StopHfp
    <3>2. sco \in [devices : SUBSET {"in", "out"}, on : BOOLEAN, wide : BOOLEAN]
      BY DEF HfpTypeOK
    <3> QED
      BY <3>1, <3>2
  <2>4. /\ is_hfp_running' \in BOOLEAN /\ rx_refused' \in BOOLEAN
        /\ rx_stream_handle' \in BOOLEAN /\ tx_stream_handle' \in BOOLEAN
    <3>1. rx_refused' = rx_refused
      BY <2>1
    <3>2. rx_refused \in BOOLEAN
      BY DEF HfpTypeOK
    <3>3. rx_refused' \in BOOLEAN
      BY <3>1, <3>2, Zenon
    <3> QED
      BY <2>1, <3>3
  <2>5. HfpTypeOK'
    BY <2>1, <2>2, <2>3, <2>4 DEF HfpTypeOK
  <2>6. HfpWhole' /\ HfpVolumeHeard'
    BY <2>1, <2>2 DEF HfpWhole, HfpVolumeHeard
  <2> QED
    BY <2>5, <2>6
<1>6. ASSUME NEW rate \in {8000, 16000}, SetSamplingRate(rate) PROVE HfpInv'
  BY <1>6 DEF SetSamplingRate, HfpTypeOK, HfpWhole, HfpVolumeHeard
<1>7. ASSUME NEW value \in HfpVolumes, SetHfpVolume(value) PROVE HfpInv'
  <2>1. value \in Int
    BY HfpVolumesAssumption
  <2>2. HfpTypeOK' /\ HfpWhole'
    BY <1>7, <2>1, SendVolumeStep DEF SetHfpVolume, HfpTypeOK, HfpWhole
  <2>3. HfpVolumeHeard'
    BY <1>7, <2>1, SendVolumeStep DEF SetHfpVolume, HfpVolumeHeard, InRange
  <2> QED
    BY <2>2, <2>3
<1>8. ASSUME NEW value \in HfpVolumes, SetHfpMicVolume(value) PROVE HfpInv'
  <2>1. InRange(value) \in 0..MaxVolume
    BY HfpVolumesAssumption, InRangeType
  <2> QED
    BY <1>8, <2>1 DEF SetHfpMicVolume, HfpTypeOK, HfpWhole, HfpVolumeHeard
<1>9. ASSUME UNCHANGED hfpVars PROVE HfpInv'
  BY <1>9 DEF hfpVars, HfpTypeOK, HfpWhole, HfpVolumeHeard
<1> QED
  BY <1>1, <1>2, <1>3, <1>4, <1>5, <1>6, <1>7, <1>8, <1>9 DEF HfpNext

\* start_hfp and stop_hfp leave no half of a call behind, whichever step fails, for any
\* volumes (Hfp.cpp:346-397).
THEOREM HfpCallWhole == HfpSpec => []HfpWhole
<1>1. HfpInv => HfpWhole
  BY DEF HfpInv
<1> QED
  BY <1>1, HfpInitInv, HfpNextInv, PTL DEF HfpSpec

\* A call has the volume asked for last, in range, unless PAL refused it (Hfp.cpp:401).
THEOREM HfpVolumeCorrect == HfpSpec => [](HfpTypeOK /\ HfpVolumeHeard)
<1>1. HfpInv => HfpTypeOK /\ HfpVolumeHeard
  BY DEF HfpInv
<1> QED
  BY <1>1, HfpInitInv, HfpNextInv, PTL DEF HfpSpec

-----------------------------------------------------------------------------
(* FM.  That the handle is live exactly while the radio runs is what makes *)
(* a volume sent through it reach a session.                               *)

FmInv == FmTypeOK /\ FmVolumeHeard /\ FmHandleLive

\* A clamped volume is in range, and clamping again changes nothing.
LEMMA ClampedType ==
  ASSUME NEW value \in Int
  PROVE  /\ Clamped(value) \in 0..FullVolume
         /\ Clamped(Clamped(value)) = Clamped(value)
         /\ value \in 0..FullVolume => Clamped(value) = value
BY DEF Clamped, FullVolume

LEMMA FmInitInv == FmInit => FmInv
<1> SUFFICES ASSUME FmInit PROVE FmInv
  OBVIOUS
<1>1. fm \in [running : BOOLEAN, muted : BOOLEAN, volume : 0..FullVolume, device : FmDevices]
  BY DEF FmInit, FullVolume, FmDevices
<1>2. fm_pal \in [state : {"none", "started"}, heard : 0..FullVolume]
  BY DEF FmInit, FullVolume
<1>3. fm_handle \in {"null", "live", "closed"} /\ fm_refused \in BOOLEAN
  BY DEF FmInit
<1>4. FmVolumeHeard /\ FmHandleLive
  BY DEF FmInit, FmVolumeHeard, FmHandleLive
<1> QED
  BY <1>1, <1>2, <1>3, <1>4 DEF FmInv, FmTypeOK

\* A change of volume or mute: the session hears the new volume, or its refusal is on record.
LEMMA SetFmStep ==
  ASSUME FmInv, NEW new \in [running : BOOLEAN, muted : BOOLEAN, volume : 0..FullVolume,
                             device : FmDevices],
         NEW value \in Int, SetFm(new, value), new.running = fm.running,
         ~new.muted => Clamped(value) = new.volume
  PROVE  FmInv'
<1>1. Clamped(value) \in 0..FullVolume
  BY ClampedType
<1>2. CASE new.running
  <2>1. FmTypeOK'
    <3>1. fm_pal' \in [state : {"none", "started"}, heard : 0..FullVolume]
      BY <1>1, <1>2 DEF SetFm, SendFmVolume, Sent, FmInv, FmTypeOK, FullVolume
    <3>2. fm_refused' \in BOOLEAN
      BY <1>2, Zenon DEF SetFm, SendFmVolume
    <3>3. fm' = new /\ fm_handle' = fm_handle
      BY DEF SetFm
    <3> QED
      BY <3>1, <3>2, <3>3 DEF FmInv, FmTypeOK
  <2>2. FmVolumeHeard'
    BY <1>1, <1>2 DEF SetFm, SendFmVolume, Sent, FmVolumeHeard
  <2>3. FmHandleLive'
    BY <1>2 DEF SetFm, SendFmVolume, FmInv, FmHandleLive
  <2> QED
    BY <2>1, <2>2, <2>3 DEF FmInv
<1>3. CASE ~new.running
  BY <1>3 DEF SetFm, FmInv, FmTypeOK, FmVolumeHeard, FmHandleLive
<1> QED
  BY <1>2, <1>3

LEMMA StartsStep ==
  ASSUME FmInv, NEW d \in FmDevices, Starts(d)
  PROVE  FmInv'
<1>1. fm.volume \in 0..FullVolume /\ Clamped(fm.volume) = fm.volume
  <2>1. fm.volume \in 0..FullVolume
    BY DEF FmInv, FmTypeOK
  <2>2. fm.volume \in Int
    BY <2>1 DEF FullVolume
  <2> QED
    BY <2>1, <2>2, ClampedType
<1>2. FmTypeOK'
  <2>1. fm' \in [running : BOOLEAN, muted : BOOLEAN, volume : 0..FullVolume, device : FmDevices]
    BY DEF Starts, FmInv, FmTypeOK
  <2>2. fm_pal' \in [state : {"none", "started"}, heard : 0..FullVolume]
    BY <1>1 DEF Starts, Sent, FullVolume
  <2>3. fm_handle' \in {"null", "live", "closed"}
    BY DEF Starts
  <2>4. fm_refused' \in BOOLEAN
    BY Zenon DEF Starts
  <2> QED
    BY <2>1, <2>2, <2>3, <2>4 DEF FmTypeOK
<1>3. FmVolumeHeard' /\ FmHandleLive'
  BY <1>1 DEF Starts, Sent, FmInv, FmTypeOK, FmVolumeHeard, FmHandleLive
<1> QED
  BY <1>2, <1>3 DEF FmInv

LEMMA DoesNotStartStep ==
  ASSUME FmInv, NEW handle \in {"null", "closed"}, DoesNotStart(handle)
  PROVE  FmInv'
<1>1. fm' \in [running : BOOLEAN, muted : BOOLEAN, volume : 0..FullVolume, device : FmDevices]
  BY DEF DoesNotStart, FmInv, FmTypeOK
<1>2. fm_pal' \in [state : {"none", "started"}, heard : 0..FullVolume]
  BY DEF DoesNotStart, FullVolume
<1>3. fm_handle' \in {"null", "closed"} /\ fm_refused' = fm_refused
  BY DEF DoesNotStart
<1>4. fm'.running = FALSE /\ fm_pal'.state = "none"
  BY DEF DoesNotStart, FmInv, FmTypeOK
<1> QED
  BY <1>1, <1>2, <1>3, <1>4 DEF FmInv, FmTypeOK, FmVolumeHeard, FmHandleLive

LEMMA FmNextInv == FmInv /\ [FmNext]_fmVars => FmInv'
<1> SUFFICES ASSUME FmInv, [FmNext]_fmVars PROVE FmInv'
  OBVIOUS
<1>0. fm.volume \in Int /\ Clamped(fm.volume) = fm.volume
  <2>1. fm.volume \in 0..FullVolume
    BY DEF FmInv, FmTypeOK
  <2>2. fm.volume \in Int
    BY <2>1 DEF FullVolume
  <2> QED
    BY <2>1, <2>2, ClampedType
<1>1. ASSUME NEW d \in FmDevices, HandleFmOn(d) \/ FmRouting(d) PROVE FmInv'
  BY <1>1, StartsStep DEF HandleFmOn, FmRouting
<1>2. ASSUME HandleFmOnFails PROVE FmInv'
  <2>1. fm_handle \in {"null", "closed"}
    BY <1>2 DEF HandleFmOnFails, FmInv, FmTypeOK, FmHandleLive
  <2> QED
    BY <1>2, <2>1, DoesNotStartStep DEF HandleFmOnFails
<1>3. ASSUME FmRoutingFails PROVE FmInv'
  BY <1>3, DoesNotStartStep DEF FmRoutingFails
<1>4. ASSUME HandleFmOff PROVE FmInv'
  <2>1. fm' \in [running : BOOLEAN, muted : BOOLEAN, volume : 0..FullVolume, device : FmDevices]
    BY <1>4 DEF HandleFmOff, FmInv, FmTypeOK
  <2>2. fm_pal' \in [state : {"none", "started"}, heard : 0..FullVolume]
    BY <1>4 DEF HandleFmOff, FullVolume
  <2>3. fm_handle' = "null" /\ fm_refused' = fm_refused
    BY <1>4 DEF HandleFmOff
  <2>4. fm'.running = FALSE /\ fm_pal'.state = "none"
    BY <1>4 DEF HandleFmOff, FmInv, FmTypeOK
  <2> QED
    BY <2>1, <2>2, <2>3, <2>4 DEF FmInv, FmTypeOK, FmVolumeHeard, FmHandleLive
<1>5. ASSUME NEW value \in FmVolumes, FmVolume(value) PROVE FmInv'
  <2>1. value \in Int
    BY FmVolumesAssumption
  <2> DEFINE new == [fm EXCEPT !.volume = Clamped(value)]
  <2>2. /\ new \in [running : BOOLEAN, muted : BOOLEAN, volume : 0..FullVolume, device : FmDevices]
        /\ new.running = fm.running /\ new.volume = Clamped(value)
    BY <2>1, ClampedType DEF FmInv, FmTypeOK
  <2>3. SetFm(new, value)
    BY <1>5 DEF FmVolume
  <2> HIDE DEF new
  <2> QED
    BY <2>1, <2>2, <2>3, SetFmStep
<1>6. ASSUME NEW muted \in BOOLEAN, FmMute(muted) PROVE FmInv'
  <2> DEFINE new == [fm EXCEPT !.muted = muted]
             value == IF muted THEN 0 ELSE fm.volume
  <2>1. /\ new \in [running : BOOLEAN, muted : BOOLEAN, volume : 0..FullVolume, device : FmDevices]
        /\ new.running = fm.running /\ new.volume = fm.volume /\ new.muted = muted
    BY DEF FmInv, FmTypeOK
  <2>2. SetFm(new, value)
    BY <1>6 DEF FmMute
  <2>3. value \in Int /\ (~muted => Clamped(value) = fm.volume)
    BY <1>0
  <2> HIDE DEF new, value
  <2> QED
    BY <2>1, <2>2, <2>3, SetFmStep
<1>7. ASSUME FmRestoreVolume PROVE FmInv'
  <2>1. fm \in [running : BOOLEAN, muted : BOOLEAN, volume : 0..FullVolume, device : FmDevices]
    BY DEF FmInv, FmTypeOK
  <2> QED
    BY <1>0, <1>7, <2>1, SetFmStep DEF FmRestoreVolume
<1>8. ASSUME UNCHANGED fmVars PROVE FmInv'
  BY <1>8 DEF fmVars, FmInv, FmTypeOK, FmVolumeHeard, FmHandleLive
<1> QED
  BY <1>1, <1>2, <1>3, <1>4, <1>5, <1>6, <1>7, <1>8 DEF FmNext

\* A radio that plays has the last volume asked for, or is silent when muted, for any order
\* of volumes, mutes, routings and failed starts (FM.cpp:87-133).
THEOREM FmVolumeCorrect == FmSpec => []FmVolumeHeard
<1>1. FmInv => FmVolumeHeard
  BY DEF FmInv
<1> QED
  BY <1>1, FmInitInv, FmNextInv, PTL DEF FmSpec

\* fm_stop and the volume are only ever given the handle of an open session (FM.cpp:185-230).
THEOREM FmHandleCorrect == FmSpec => [](FmTypeOK /\ FmHandleLive)
<1>1. FmInv => FmTypeOK /\ FmHandleLive
  BY DEF FmInv
<1> QED
  BY <1>1, FmInitInv, FmNextInv, PTL DEF FmSpec

-----------------------------------------------------------------------------
(* The volume listener.  The level that is current is the one the DSP has, *)
(* and the one for the loudness it was computed from: that is why          *)
(* check_and_set_gain_dep_cal need not send it again when neither changed. *)
(* A handler that computes nothing leaves what plays as it was.            *)

LevelCurrent ==
  current_gain_dep_cal_level # None =>
    /\ dsp_level = current_gain_dep_cal_level
    /\ current_gain_dep_cal_level = LevelFor(current_vol)

Context == [stream_type : ListenerTypes, dev_id : ListenerDevices,
            state : {"none", "INITIALIZED", "ACTIVE"}, volume : Volumes \cup {0}]

ListenerTypeOK ==
  /\ listener \in [Listeners -> Context]
  /\ vol_effect_list \in Seq(Listeners)

LevelInv == ListenerTypeOK /\ LevelCurrent /\ LevelFollowsActive

\* What the sum of Loudness counts.
Plays(l, list, of) == l \in ToSet(list) /\ of[l].state = "ACTIVE" /\ verify_context(of[l])

\* A change of one context, in a list that loses or gains at most that context: what
\* the others play is the same.
LEMMA OneSilent ==
  ASSUME ListenerTypeOK, NEW l \in Listeners, NEW c \in Context,
         listener' = [listener EXCEPT ![l] = c],
         ToSet(vol_effect_list') \ {l} = ToSet(vol_effect_list) \ {l},
         ~Plays(l, vol_effect_list, listener), ~Plays(l, vol_effect_list', listener')
  PROVE  Loudness(vol_effect_list', listener') = Loudness(vol_effect_list, listener)
<1>1. ToSet(vol_effect_list) \subseteq Listeners
  BY DEF ListenerTypeOK, ToSet
<1>2. \A m \in ToSet(vol_effect_list) \ {l} : listener'[m] = listener[m]
  BY <1>1 DEF ListenerTypeOK
<1>3. \A m : Plays(m, vol_effect_list, listener) <=> Plays(m, vol_effect_list', listener')
  BY <1>2 DEF Plays
<1>4. \A m : Plays(m, vol_effect_list, listener) => listener'[m].volume = listener[m].volume
  BY <1>2 DEF Plays
<1>5. Playing(vol_effect_list', listener') = Playing(vol_effect_list, listener)
  BY <1>3, <1>4 DEF Playing, Plays
<1> QED
  BY <1>5 DEF Loudness

\* A handler that recomputes: whatever it leaves is right or excused.
LEMMA RecomputeStep ==
  ASSUME LevelInv, UNCHANGED_setup, ListenerTypeOK', NEW vol, NEW level,
         level # None => dsp_level = level /\ level = LevelFor(vol),
         check_and_set_gain_dep_cal(vol, level)
  PROVE  LevelInv'
<1> PICK loud : loud = Loudness(vol_effect_list', listener')
  OBVIOUS
<1>1. Loudness(vol_effect_list, listener)' = loud
  BY DEF UNCHANGED_setup, Loudness, Playing, verify_context
<1>2. /\ LevelCurrent' = (current_gain_dep_cal_level' # None =>
                            /\ dsp_level' = current_gain_dep_cal_level'
                            /\ current_gain_dep_cal_level' = LevelFor(current_vol'))
      /\ LevelFollowsActive' = (send_gain_dep_cal /\ ~excused' => dsp_level' = LevelFor(loud))
  BY <1>1 DEF LevelCurrent, LevelFollowsActive, LevelFor, UNCHANGED_setup
<1>3. CASE loud = vol \/ ~send_gain_dep_cal
  <2>1. /\ current_vol' = vol /\ current_gain_dep_cal_level' = level
        /\ dsp_level' = dsp_level /\ excused' = (level = None)
    BY <1>3 DEF check_and_set_gain_dep_cal
  <2> QED
    BY <1>2, <1>3, <2>1 DEF LevelInv
<1>4. CASE loud # vol /\ send_gain_dep_cal /\ LevelFor(loud) \in {None, level}
  <2>1. /\ current_vol' = vol /\ current_gain_dep_cal_level' = level
        /\ dsp_level' = dsp_level /\ excused' = (LevelFor(loud) = None)
    BY <1>4 DEF check_and_set_gain_dep_cal
  <2> QED
    BY <1>2, <1>4, <2>1 DEF LevelInv
<1>5. CASE loud # vol /\ send_gain_dep_cal /\ LevelFor(loud) \notin {None, level}
  <2>1. \/ /\ current_vol' = vol /\ current_gain_dep_cal_level' = level
           /\ dsp_level' = dsp_level /\ excused' = TRUE
        \/ /\ current_vol' = loud /\ current_gain_dep_cal_level' = LevelFor(loud)
           /\ dsp_level' = LevelFor(loud)
    BY <1>5 DEF check_and_set_gain_dep_cal
  <2> QED
    BY <1>2, <1>5, <2>1 DEF LevelInv
<1> QED
  BY <1>3, <1>4, <1>5

\* A handler that does not recompute, as what plays is the same.
LEMMA SilentStep ==
  ASSUME LevelInv, UNCHANGED_setup, ListenerTypeOK',
         Loudness(vol_effect_list', listener') = Loudness(vol_effect_list, listener),
         dsp_level' = dsp_level, excused => excused',
         \/ UNCHANGED <<current_vol, current_gain_dep_cal_level>>
         \/ current_gain_dep_cal_level' = None
  PROVE  LevelInv'
<1> PICK loud : loud = Loudness(vol_effect_list', listener')
  OBVIOUS
<1>1. Loudness(vol_effect_list, listener)' = loud
  BY DEF UNCHANGED_setup, Loudness, Playing, verify_context
<1>2. LevelFollowsActive' = (send_gain_dep_cal /\ ~excused' => dsp_level = LevelFor(loud))
  BY <1>1 DEF LevelFollowsActive, LevelFor, UNCHANGED_setup
<1>3. LevelCurrent'
  BY DEF LevelInv, LevelCurrent, LevelFor
<1> QED
  BY <1>2, <1>3 DEF LevelInv, LevelFollowsActive

LEMMA LevelInitInv == VolumeInit => LevelInv
<1> SUFFICES ASSUME VolumeInit PROVE LevelInv
  OBVIOUS
<1>1. ListenerTypeOK
  BY DEF VolumeInit, ListenerTypeOK, Context, FreeListener, ListenerTypes, ListenerDevices
<1>2. LevelFor(Loudness(vol_effect_list, listener)) = DEFAULT_CAL_STEP
  <2>1. ToSet(vol_effect_list) = {}
    BY DEF VolumeInit, ToSet
  <2>2. Loudness(vol_effect_list, listener) = None
    BY <2>1 DEF Loudness, Playing
  <2> QED
    BY <2>2 DEF LevelFor, None, Unity, Square
<1> QED
  BY <1>1, <1>2 DEF VolumeInit, LevelInv, LevelCurrent, LevelFollowsActive

LEMMA CreateListenerInv ==
  ASSUME LevelInv, NEW l \in Listeners, NEW type \in ListenerTypes, CreateListener(l, type)
  PROVE  LevelInv'
<1> PICK c : c = [FreeListener EXCEPT !.stream_type = type, !.state = "INITIALIZED"]
  OBVIOUS
<1>1. /\ c \in Context /\ c.state = "INITIALIZED"
      /\ listener' = [listener EXCEPT ![l] = c] /\ vol_effect_list' = Append(vol_effect_list, l)
  BY DEF CreateListener, FreeListener, Context, ListenerDevices
<1>2. ListenerTypeOK /\ ListenerTypeOK' /\ ToSet(vol_effect_list') = ToSet(vol_effect_list) \cup {l}
  BY <1>1 DEF LevelInv, ListenerTypeOK, ToSet
<1>3. listener[l].state = "none" /\ listener'[l].state = "INITIALIZED"
  BY <1>1, <1>2 DEF CreateListener, ListenerTypeOK
<1>4. Loudness(vol_effect_list', listener') = Loudness(vol_effect_list, listener)
  BY <1>1, <1>2, <1>3, OneSilent DEF Plays
<1> QED
  BY <1>2, <1>4, SilentStep DEF CreateListener, SameLevel

\* A handler that changes one context and looks at it before.
LEMMA ChangeStep ==
  ASSUME LevelInv, UNCHANGED_setup, UNCHANGED vol_effect_list, NEW l \in Listeners,
         NEW c \in Context, listener' = [listener EXCEPT ![l] = c],
         \/ Recompute
         \/ /\ SameLevel /\ ~verify_context(listener[l])
            /\ ~(c.state = "ACTIVE" /\ verify_context(c))
  PROVE  LevelInv'
<1>1. ListenerTypeOK /\ ListenerTypeOK' /\ listener'[l] = c
  BY DEF LevelInv, ListenerTypeOK
<1>2. CASE Recompute
  BY <1>1, <1>2, RecomputeStep DEF Recompute, LevelInv, LevelCurrent
<1>3. CASE SameLevel /\ ~verify_context(listener[l]) /\ ~(c.state = "ACTIVE" /\ verify_context(c))
  <2>1. Loudness(vol_effect_list', listener') = Loudness(vol_effect_list, listener)
    BY <1>1, <1>3, OneSilent DEF Plays
  <2> QED
    BY <1>1, <1>3, <2>1, SilentStep DEF SameLevel
<1> QED
  BY <1>2, <1>3

LEMMA SetActiveInv ==
  ASSUME LevelInv, NEW l \in Listeners, NEW from, NEW to \in {"INITIALIZED", "ACTIVE"},
         SetActive(l, from, to)
  PROVE  LevelInv'
<1> PICK c : c = [listener[l] EXCEPT !.state = to]
  OBVIOUS
<1>1. listener[l] \in Context /\ DOMAIN listener = Listeners
  BY DEF LevelInv, ListenerTypeOK
<1>2. /\ c \in Context /\ listener' = [listener EXCEPT ![l] = c]
      /\ c.dev_id = listener[l].dev_id /\ c.stream_type = listener[l].stream_type
  BY <1>1 DEF SetActive, Context
<1>3. verify_context(c) <=> verify_context(listener[l])
  BY <1>2 DEF verify_context
<1> QED
  BY <1>2, <1>3, ChangeStep DEF SetActive

LEMMA SetDeviceInv ==
  ASSUME LevelInv, NEW l \in Listeners, NEW d \in ListenerDevices, SetListenerDevice(l, d)
  PROVE  LevelInv'
<1> PICK c : c = [listener[l] EXCEPT !.dev_id = d]
  OBVIOUS
<1>1. listener[l] \in Context /\ DOMAIN listener = Listeners
  BY DEF LevelInv, ListenerTypeOK
<1>2. /\ c \in Context /\ listener' = [listener EXCEPT ![l] = c] /\ listener'[l] = c
      /\ c.state = listener[l].state
  BY <1>1 DEF SetListenerDevice, Context
<1>3. CASE verify_context(listener[l]) \/ d = "SPEAKER"
  BY <1>2, <1>3, ChangeStep DEF SetListenerDevice
<1>4. CASE ~(verify_context(listener[l]) \/ d = "SPEAKER")
  <2>1. /\ UNCHANGED <<current_vol, current_gain_dep_cal_level, dsp_level>>
        /\ excused' = (excused \/ (c.state = "ACTIVE" /\ verify_context(c)))
    BY <1>2, <1>4 DEF SetListenerDevice
  <2>2. CASE c.state = "ACTIVE" /\ verify_context(c)
    <3>1. excused'
      BY <2>1, <2>2
    <3>2. ListenerTypeOK'
      BY <1>2 DEF SetListenerDevice, LevelInv, ListenerTypeOK
    <3> QED
      BY <2>1, <3>1, <3>2 DEF LevelInv, LevelCurrent, LevelFollowsActive, LevelFor
  <2>3. CASE ~(c.state = "ACTIVE" /\ verify_context(c))
    <3>1. ListenerTypeOK /\ ListenerTypeOK' /\ vol_effect_list' = vol_effect_list
      BY <1>2 DEF SetListenerDevice, LevelInv, ListenerTypeOK
    <3>2. Loudness(vol_effect_list', listener') = Loudness(vol_effect_list, listener)
      BY <1>2, <1>4, <2>3, <3>1, OneSilent DEF Plays
    <3> QED
      BY <2>1, <3>1, <3>2, SilentStep DEF SetListenerDevice
  <2> QED
    BY <2>2, <2>3
<1> QED
  BY <1>3, <1>4

LEMMA SetVolumeInv ==
  ASSUME LevelInv, NEW l \in Listeners, NEW v \in Volumes, SetListenerVolume(l, v)
  PROVE  LevelInv'
<1> PICK c : c = [listener[l] EXCEPT !.volume = v]
  OBVIOUS
<1>1. listener[l] \in Context /\ DOMAIN listener = Listeners
  BY DEF LevelInv, ListenerTypeOK
<1>2. /\ c \in Context /\ listener' = [listener EXCEPT ![l] = c]
      /\ c.dev_id = listener[l].dev_id /\ c.stream_type = listener[l].stream_type
  BY <1>1 DEF SetListenerVolume, Context
<1>3. verify_context(c) <=> verify_context(listener[l])
  BY <1>2 DEF verify_context
<1> QED
  BY <1>2, <1>3, ChangeStep DEF SetListenerVolume

\* The context that goes plays no more; the level that is reset with the oldest is
\* computed afresh next time.
LEMMA ReleaseListenerInv ==
  ASSUME LevelInv, NEW l \in Listeners, ReleaseListener(l)
  PROVE  LevelInv'
<1> PICK k \in DOMAIN vol_effect_list :
      vol_effect_list[k] = l /\ vol_effect_list' = RemoveAt(vol_effect_list, k)
  BY DEF ReleaseListener
<1>1. /\ FreeListener \in Context /\ FreeListener.state = "none"
      /\ listener' = [listener EXCEPT ![l] = FreeListener]
  BY DEF ReleaseListener, FreeListener, Context, ListenerTypes, ListenerDevices
<1>2. ToSet(vol_effect_list') \ {l} = ToSet(vol_effect_list) \ {l} /\ vol_effect_list' \in Seq(Listeners)
  BY SeqErasedSet DEF LevelInv, ListenerTypeOK
<1>3. ListenerTypeOK /\ ListenerTypeOK' /\ listener'[l].state = "none"
  BY <1>1, <1>2 DEF LevelInv, ListenerTypeOK
<1> DEFINE oldest == Head(vol_effect_list) = l
           vol == IF oldest THEN 0 ELSE current_vol
           level == IF oldest THEN None ELSE current_gain_dep_cal_level
<1>4. level # None => dsp_level = level /\ level = LevelFor(vol)
  BY DEF LevelInv, LevelCurrent
<1>5. CASE verify_context(listener[l])
  <2>1. check_and_set_gain_dep_cal(vol, level) /\ UNCHANGED_setup
    BY <1>5 DEF ReleaseListener
  <2> HIDE DEF vol, level
  <2> QED
    BY <1>3, <1>4, <2>1, RecomputeStep
<1>6. CASE ~verify_context(listener[l])
  <2>1. Loudness(vol_effect_list', listener') = Loudness(vol_effect_list, listener)
    BY <1>1, <1>2, <1>3, <1>6, OneSilent DEF Plays
  <2>2. /\ UNCHANGED_setup /\ dsp_level' = dsp_level /\ excused' = excused
        /\ \/ UNCHANGED <<current_vol, current_gain_dep_cal_level>>
           \/ current_gain_dep_cal_level' = None
    BY <1>6 DEF ReleaseListener
  <2> QED
    BY <1>3, <2>1, <2>2, SilentStep
<1> QED
  BY <1>5, <1>6

LEMMA LevelNextInv == LevelInv /\ [VolumeNext]_volumeVars => LevelInv'
<1> SUFFICES ASSUME LevelInv, [VolumeNext]_volumeVars PROVE LevelInv'
  OBVIOUS
<1>1. ASSUME NEW l \in Listeners, NEW type \in ListenerTypes, CreateListener(l, type)
      PROVE  LevelInv'
  BY <1>1, CreateListenerInv
<1>2. ASSUME NEW l \in Listeners, EnableListener(l) \/ DisableListener(l) PROVE LevelInv'
  BY <1>2, SetActiveInv DEF EnableListener, DisableListener
<1>3. ASSUME NEW l \in Listeners, NEW d \in ListenerDevices, SetListenerDevice(l, d)
      PROVE  LevelInv'
  BY <1>3, SetDeviceInv
<1>4. ASSUME NEW l \in Listeners, NEW v \in Volumes, SetListenerVolume(l, v) PROVE LevelInv'
  BY <1>4, SetVolumeInv
<1>5. ASSUME NEW l \in Listeners, ReleaseListener(l) PROVE LevelInv'
  BY <1>5, ReleaseListenerInv
<1>6. CASE UNCHANGED volumeVars
  <2>1. /\ UNCHANGED <<listener, vol_effect_list, current_vol, current_gain_dep_cal_level,
                       dsp_level, excused>>
        /\ UNCHANGED_setup
    BY <1>6 DEF volumeVars, volumeState, UNCHANGED_setup
  <2>2. ListenerTypeOK'
    BY <2>1 DEF LevelInv, ListenerTypeOK
  <2> QED
    BY <2>1, <2>2, SilentStep
<1> QED
  BY <1>1, <1>2, <1>3, <1>4, <1>5, <1>6 DEF VolumeNext

\* Over any order of enables, moves, volumes and releases of any number of outputs, with
\* any gain table, the DSP has the level of what is active on the speaker, unless nothing
\* could be sent (volume_listener.c:296-397).
THEOREM LevelIsFollowed == VolumeSpec => []LevelFollowsActive
<1>1. LevelInv => LevelFollowsActive
  BY DEF LevelInv
<1> QED
  BY <1>1, LevelInitInv, LevelNextInv, PTL DEF VolumeSpec

-----------------------------------------------------------------------------
(* The captures of the visualizer.  Both rings are told by how far back    *)
(* their entries are: the sample or the measurement d before the last is   *)
(* at the place d before the index.  For the samples this goes through the *)
(* loop of visualizer_process, by induction on the frames of a buffer.     *)

LessThan == {ss \in Nat \X Nat : ss[1] < ss[2]}

\* The library has the order of Nat, and minima of well founded relations.
LEMMA LessWF == IsWellFoundedOn(LessThan, Nat)
BY NatLessThanWellFounded, Zenon DEF OpToRel, LessThan

LEMMA LeastNat ==
  ASSUME NEW T, T \subseteq Nat, T # {}
  PROVE  \E n \in T : \A m \in T : n <= m
<1>1. PICK n \in T : \A m \in T : ~(<<m, n>> \in LessThan)
  BY WFMin, LessWF
<1>2. \A m \in T : ~(m < n)
  BY <1>1 DEF LessThan
<1> QED
  BY <1>2

\* Induction, for a set of numbers in the place of a predicate.
LEMMA InductionSet ==
  ASSUME NEW T, 0 \in T, \A n \in Nat : n \in T => n + 1 \in T
  PROVE  Nat \subseteq T
<1> SUFFICES ASSUME Nat \ T # {} PROVE FALSE
  OBVIOUS
<1>1. PICK n \in Nat \ T : \A m \in Nat \ T : n <= m
  BY LeastNat
<1>2. n - 1 \in Nat /\ n - 1 \in T
  BY <1>1
<1> QED
  BY <1>1, <1>2

\* The place d before the next one in a ring of a size.
Back(idx, d, size) == IF d < idx THEN idx - 1 - d ELSE idx - 1 - d + size

\* A ring whose index stands at idx holds the last of n samples.
RingHolds(idx, buf, n) ==
  /\ idx \in 0 .. BufSize
  /\ \A d \in 0 .. BufSize - 1 : buf[Back(idx, d, BufSize)] = IF n - d > 0 THEN n - d ELSE Silence

\* One frame.
LEMMA FrameStep ==
  ASSUME NEW idx, NEW buf, NEW n \in Nat, RingHolds(idx, buf, n),
         DOMAIN buf = 0 .. BufSize - 1, NEW at, at = IF idx >= BufSize THEN 0 ELSE idx
  PROVE  /\ RingHolds(at + 1, [buf EXCEPT ![at] = n + 1], n + 1)
         /\ DOMAIN [buf EXCEPT ![at] = n + 1] = 0 .. BufSize - 1
<1>1. BufSize \in Nat \ {0} /\ idx \in 0 .. BufSize /\ at \in 0 .. BufSize - 1
  BY CaptureAssumption DEF RingHolds
<1> DEFINE b == [buf EXCEPT ![at] = n + 1]
<1>2. b[at] = n + 1 /\ \A p \in 0 .. BufSize - 1 : p # at => b[p] = buf[p]
  BY <1>1
<1> HIDE DEF b
<1>3. ASSUME NEW d \in 0 .. BufSize - 1
      PROVE  b[Back(at + 1, d, BufSize)] = IF (n + 1) - d > 0 THEN (n + 1) - d ELSE Silence
  <2>1. CASE d = 0
    BY <1>1, <1>2, <2>1 DEF Back
  <2>2. CASE d # 0
    <3>1. /\ d - 1 \in 0 .. BufSize - 1 /\ n - (d - 1) = (n + 1) - d
          /\ Back(at + 1, d, BufSize) = Back(idx, d - 1, BufSize)
          /\ Back(idx, d - 1, BufSize) \in 0 .. BufSize - 1
          /\ Back(idx, d - 1, BufSize) # at
      BY <1>1, <2>2 DEF Back
    <3>2. buf[Back(idx, d - 1, BufSize)] = IF (n + 1) - d > 0 THEN (n + 1) - d ELSE Silence
      BY <3>1 DEF RingHolds
    <3> QED
      BY <1>2, <3>1, <3>2
  <2> QED
    BY <2>1, <2>2
<1> QED
  BY <1>1, <1>3 DEF RingHolds, b

\* The recursion of Ring, as a condition on a function.
Step(r, j) ==
  LET at == IF r.idx >= BufSize THEN 0 ELSE r.idx
  IN [idx |-> at + 1, buf |-> [r.buf EXCEPT ![at] = samples + j]]
IsRing(f, frames) ==
  f = [j \in 0 .. frames |-> IF j = 0 THEN [idx |-> capture_idx, buf |-> capture_buf]
                             ELSE Step(f[j - 1], j)]

\* There is such a function, so that Ring is one's last value.
LEMMA RingExists == \A n \in Nat : \E f : IsRing(f, n)
<1> DEFINE first == [idx |-> capture_idx, buf |-> capture_buf]
           T == {n \in Nat : \E f : IsRing(f, n)}
<1>1. 0 \in T
  <2>1. IsRing([j \in 0 .. 0 |-> first], 0)
    BY DEF IsRing
  <2> QED
    BY <2>1
<1>2. ASSUME NEW n \in Nat, n \in T PROVE n + 1 \in T
  <2>1. PICK f : IsRing(f, n)
    BY <1>2
  <2> DEFINE last == Step(f[n], n + 1)
             g == [j \in 0 .. n + 1 |-> IF j = n + 1 THEN last ELSE f[j]]
  <2> HIDE DEF last
  <2>2. ASSUME NEW j \in 0 .. n + 1
        PROVE  g[j] = IF j = 0 THEN first ELSE Step(g[j - 1], j)
    <3>1. CASE j = n + 1
      <4>1. j # 0 /\ j - 1 \in 0 .. n + 1 /\ j - 1 # n + 1 /\ j - 1 = n
        BY <3>1
      <4>2. g[j - 1] = f[n]
        BY <4>1
      <4> QED
        BY <3>1, <4>1, <4>2 DEF last
    <3>2. CASE j \in 0 .. n
      <4>1. f[j] = IF j = 0 THEN first ELSE Step(f[j - 1], j)
        BY <2>1, <3>2 DEF IsRing
      <4>2. g[j] = f[j] /\ (j # 0 => g[j - 1] = f[j - 1])
        BY <3>2
      <4> QED
        BY <4>1, <4>2
    <3> QED
      BY <3>1, <3>2
  <2>3. g = [j \in 0 .. n + 1 |-> IF j = 0 THEN first ELSE Step(g[j - 1], j)]
    <3> HIDE DEF first
    <3>1. g = [j \in 0 .. n + 1 |-> g[j]]
      OBVIOUS
    <3> HIDE DEF g
    <3> QED
      BY <2>2, <3>1
  <2>4. IsRing(g, n + 1)
    BY <2>3 DEF IsRing
  <2> QED
    BY <2>4
<1> QED
  BY <1>1, <1>2, InductionSet

\* After the frames of a buffer the ring holds the last samples, those frames included.
LEMMA RingStep ==
  ASSUME NEW frames \in Nat, samples \in Nat, RingHolds(capture_idx, capture_buf, samples),
         DOMAIN capture_buf = 0 .. BufSize - 1
  PROVE  /\ RingHolds(Ring(frames).idx, Ring(frames).buf, samples + frames)
         /\ DOMAIN Ring(frames).buf = 0 .. BufSize - 1
<1>1. PICK f : IsRing(f, frames) /\ Ring(frames) = f[frames]
  <2>1. \E f : IsRing(f, frames)
    BY RingExists
  <2> QED
    BY <2>1 DEF Ring, IsRing, Step
<1> DEFINE HoldsAt(j) == /\ RingHolds(f[j].idx, f[j].buf, samples + j)
                       /\ DOMAIN f[j].buf = 0 .. BufSize - 1
           T == {j \in Nat : j <= frames => HoldsAt(j)}
<1>2. 0 \in T
  <2>1. f[0] = [idx |-> capture_idx, buf |-> capture_buf]
    BY <1>1 DEF IsRing
  <2>2. f[0].idx = capture_idx /\ f[0].buf = capture_buf /\ samples + 0 = samples
    BY <2>1
  <2> QED
    BY <2>2
<1>3. ASSUME NEW j \in Nat, j \in T PROVE j + 1 \in T
  <2> SUFFICES ASSUME j + 1 <= frames PROVE HoldsAt(j + 1)
    OBVIOUS
  <2>1. HoldsAt(j) /\ samples + j \in Nat
    BY <1>3
  <2> DEFINE r == f[j]
             at == IF r.idx >= BufSize THEN 0 ELSE r.idx
  <2>2. f[j + 1] = Step(r, j + 1)
    BY <1>1 DEF IsRing
  <2>3. /\ f[j + 1].idx = at + 1 /\ (samples + j) + 1 = samples + (j + 1)
        /\ f[j + 1].buf = [r.buf EXCEPT ![at] = (samples + j) + 1]
    BY <2>2 DEF Step
  <2> HIDE DEF r
  <2>4. RingHolds(r.idx, r.buf, samples + j) /\ DOMAIN r.buf = 0 .. BufSize - 1
    BY <2>1 DEF r
  <2>5. /\ RingHolds(at + 1, [r.buf EXCEPT ![at] = (samples + j) + 1], (samples + j) + 1)
        /\ DOMAIN [r.buf EXCEPT ![at] = (samples + j) + 1] = 0 .. BufSize - 1
    BY <2>1, <2>4, FrameStep
  <2> QED
    BY <2>3, <2>5
<1>4. frames \in T
  <2> HIDE DEF T
  <2> QED
    BY <1>2, <1>3, InductionSet
<1> QED
  BY <1>1, <1>4

\* The measurements: that the ring of a window holds the list of the last ones.
WindowHolds(idx, ring, peaks) ==
  /\ idx \in 0 .. Window - 1 /\ DOMAIN ring = 0 .. Window - 1
  /\ peaks \in Seq(Peaks) /\ Len(peaks) <= Window
  /\ \A d \in 0 .. Window - 1 :
       ring[Back(idx, d, Window)] = IF d < Len(peaks) THEN peaks[d + 1] ELSE NotValid

CaptureInv ==
  /\ samples \in Nat /\ capture_size \in Nat
  /\ RingHolds(capture_idx, capture_buf, samples) /\ DOMAIN capture_buf = 0 .. BufSize - 1
  /\ WindowHolds(meas_buffer_idx, past_meas, measured_peaks)

\* A ring after a reset, and an empty window.
LEMMA EmptyRing == RingHolds(0, [i \in 0 .. BufSize - 1 |-> Silence], 0)
<1>1. \A d \in 0 .. BufSize - 1 : Back(0, d, BufSize) \in 0 .. BufSize - 1
  BY CaptureAssumption DEF Back
<1> QED
  BY <1>1, CaptureAssumption DEF RingHolds

LEMMA EmptyWindow == WindowHolds(0, NoMeasurements, <<>>)
<1>1. \A d \in 0 .. Window - 1 : Back(0, d, Window) \in 0 .. Window - 1
  BY CaptureAssumption DEF Back
<1> QED
  BY <1>1, CaptureAssumption DEF WindowHolds, NoMeasurements

\* An element in front of the first k of a list.
LEMMA Prepended ==
  ASSUME NEW S, NEW x \in S, NEW l \in Seq(S), NEW k \in Nat, k <= Len(l)
  PROVE  /\ <<x>> \o SubSeq(l, 1, k) \in Seq(S)
         /\ Len(<<x>> \o SubSeq(l, 1, k)) = k + 1
         /\ (<<x>> \o SubSeq(l, 1, k))[1] = x
         /\ \A i \in 1 .. k : (<<x>> \o SubSeq(l, 1, k))[i + 1] = l[i]
<1> PICK q : q = SubSeq(l, 1, k)
  OBVIOUS
<1>1. q \in Seq(S) /\ Len(q) = k /\ \A i \in 1 .. k : q[i] = l[i]
  OBVIOUS
<1>2. <<x>> \in Seq(S) /\ Len(<<x>>) = 1 /\ <<x>>[1] = x
  OBVIOUS
<1>3. /\ <<x>> \o q \in Seq(S)
      /\ Len(<<x>> \o q) = Len(<<x>>) + Len(q)
      /\ \A i \in 1 .. Len(<<x>>) + Len(q) :
           (<<x>> \o q)[i] = IF i <= Len(<<x>>) THEN <<x>>[i] ELSE q[i - Len(<<x>>)]
  BY <1>1, <1>2, ConcatProperties
<1> QED
  BY <1>1, <1>2, <1>3

\* One measurement: the oldest makes room.
LEMMA MeasurementStep ==
  ASSUME NEW idx, NEW ring, NEW peaks, WindowHolds(idx, ring, peaks), NEW peak \in Peaks,
         NEW kept, kept = Min({Len(peaks), Window - 1})
  PROVE  WindowHolds((idx + 1) % Window, [ring EXCEPT ![idx] = peak],
                     <<peak>> \o SubSeq(peaks, 1, kept))
<1>1. /\ Window \in Nat \ {0} /\ idx \in 0 .. Window - 1 /\ DOMAIN ring = 0 .. Window - 1
      /\ peaks \in Seq(Peaks) /\ Len(peaks) \in 0 .. Window
  BY CaptureAssumption DEF WindowHolds
<1>2. kept = IF Len(peaks) = Window THEN Window - 1 ELSE Len(peaks)
  <2>1. kept \in {Len(peaks), Window - 1} /\ \A y \in {Len(peaks), Window - 1} : kept <= y
    <3>1. \E x \in {Len(peaks), Window - 1} : \A y \in {Len(peaks), Window - 1} : x <= y
      BY <1>1
    <3> QED
      BY <3>1 DEF Min
  <2> QED
    BY <1>1, <2>1
<1> DEFINE new == (idx + 1) % Window
           r == [ring EXCEPT ![idx] = peak]
           p == <<peak>> \o SubSeq(peaks, 1, kept)
<1>3. new = IF idx + 1 = Window THEN 0 ELSE idx + 1
  <2>1. CASE idx + 1 = Window
    BY <1>1, <2>1
  <2>2. CASE idx + 1 # Window
    BY <1>1, <2>2
  <2> QED
    BY <2>1, <2>2
<1>4. /\ p \in Seq(Peaks) /\ Len(p) = kept + 1 /\ p[1] = peak
      /\ \A i \in 1 .. kept : p[i + 1] = peaks[i]
  <2>1. kept \in Nat /\ kept <= Len(peaks)
    BY <1>1, <1>2
  <2>2. peaks \in Seq(Peaks) /\ peak \in Peaks
    BY <1>1
  <2>3. /\ <<peak>> \o SubSeq(peaks, 1, kept) \in Seq(Peaks)
        /\ Len(<<peak>> \o SubSeq(peaks, 1, kept)) = kept + 1
        /\ (<<peak>> \o SubSeq(peaks, 1, kept))[1] = peak
        /\ \A i \in 1 .. kept : (<<peak>> \o SubSeq(peaks, 1, kept))[i + 1] = peaks[i]
    <3> HIDE DEF p
    <3> QED
      BY ONLY <2>1, <2>2, Prepended
  <2> QED
    BY <2>3
<1> HIDE DEF new, r, p
<1>5. r[idx] = peak /\ \A i \in 0 .. Window - 1 : i # idx => r[i] = ring[i]
  BY <1>1 DEF r
<1>6. ASSUME NEW d \in 0 .. Window - 1
      PROVE  r[Back(new, d, Window)] = IF d < Len(p) THEN p[d + 1] ELSE NotValid
  <2>1. CASE d = 0
    <3>1. Back(new, d, Window) = idx /\ d < Len(p)
      BY <1>1, <1>2, <1>3, <1>4, <2>1 DEF Back
    <3> QED
      BY <1>4, <1>5, <2>1, <3>1
  <2>2. CASE d # 0
    <3>1. /\ d - 1 \in 0 .. Window - 1
          /\ Back(new, d, Window) = Back(idx, d - 1, Window)
          /\ Back(idx, d - 1, Window) \in 0 .. Window - 1
          /\ Back(idx, d - 1, Window) # idx
          /\ (d - 1) + 1 = d
      BY <1>1, <1>3, <2>2 DEF Back
    <3>2. ring[Back(idx, d - 1, Window)] = IF d - 1 < Len(peaks) THEN peaks[d] ELSE NotValid
      BY <3>1 DEF WindowHolds
    <3>3. d - 1 < Len(peaks) <=> d < Len(p)
      BY <1>1, <1>2, <1>4, <2>2
    <3>4. ASSUME d - 1 < Len(peaks) PROVE p[d + 1] = peaks[d]
      <4>1. d \in 1 .. kept
        BY <1>1, <1>2, <2>2, <3>4
      <4> QED
        BY <1>4, <4>1
    <3> QED
      BY <1>5, <3>1, <3>2, <3>3, <3>4
  <2> QED
    BY <2>1, <2>2
<1>7. new \in 0 .. Window - 1 /\ Len(p) <= Window /\ DOMAIN r = 0 .. Window - 1
  BY <1>1, <1>2, <1>3, <1>4 DEF r
<1> QED
  BY <1>4, <1>6, <1>7 DEF WindowHolds, new, r, p

LEMMA SizeMaxNat == CaptureSizeMax \in Nat
BY CaptureAssumption

LEMMA CaptureInitInv == CaptureInit => CaptureInv
BY EmptyRing, EmptyWindow, SizeMaxNat DEF CaptureInit, CaptureInv

LEMMA ProcessBufferInv ==
  ASSUME CaptureInv, NEW frames \in Periods, NEW peak \in Peaks, ProcessBuffer(frames, peak)
  PROVE  CaptureInv'
<1>1. frames \in Nat
  BY CaptureAssumption
<1>2. /\ samples' \in Nat /\ capture_size' \in Nat
      /\ RingHolds(capture_idx', capture_buf', samples')
      /\ DOMAIN capture_buf' = 0 .. BufSize - 1
  BY <1>1, RingStep DEF CaptureInv, ProcessBuffer
<1>3. CASE meas_mode
  <2> PICK kept : kept = Min({Len(measured_peaks), Window - 1})
    OBVIOUS
  <2>1. /\ past_meas' = [past_meas EXCEPT ![meas_buffer_idx] = peak]
        /\ meas_buffer_idx' = (meas_buffer_idx + 1) % Window
        /\ measured_peaks' = <<peak>> \o SubSeq(measured_peaks, 1, kept)
    BY <1>3 DEF ProcessBuffer
  <2>2. WindowHolds((meas_buffer_idx + 1) % Window, [past_meas EXCEPT ![meas_buffer_idx] = peak],
                    <<peak>> \o SubSeq(measured_peaks, 1, kept))
    BY <1>1, MeasurementStep DEF CaptureInv
  <2>3. WindowHolds(meas_buffer_idx', past_meas', measured_peaks')
    BY <2>1, <2>2
  <2> QED
    BY <1>2, <2>3 DEF CaptureInv, RingHolds, WindowHolds
<1>4. CASE ~meas_mode
  <2>1. UNCHANGED measureVars
    BY <1>4 DEF ProcessBuffer
  <2> QED
    BY <1>2, <2>1 DEF measureVars, CaptureInv, RingHolds, WindowHolds
<1> QED
  BY <1>3, <1>4

LEMMA CaptureNextInv == CaptureInv /\ [CaptureNext]_captureVars => CaptureInv'
<1> SUFFICES ASSUME CaptureInv, [CaptureNext]_captureVars PROVE CaptureInv'
  OBVIOUS
<1> USE DEF ringVars, measureVars
<1>1. CASE InitCapture
  BY <1>1, EmptyRing, EmptyWindow, SizeMaxNat
     DEF InitCapture, RingReset, MeasurementsDiscarded, CaptureInv, RingHolds, WindowHolds
<1>2. CASE ResetCapture
  BY <1>2, EmptyRing DEF ResetCapture, RingReset, CaptureInv, RingHolds, WindowHolds
<1>3. CASE CommandMeasure
  BY <1>3, EmptyWindow DEF CommandMeasure, MeasurementsDiscarded, CaptureInv, RingHolds, WindowHolds
<1>4. CASE \E size \in CaptureSizes : SetCaptureSize(size)
  BY <1>4, CaptureAssumption DEF SetCaptureSize, CaptureInv, RingHolds, WindowHolds
<1>5. CASE Aging \/ CommandCapture \/ \E on \in BOOLEAN : SetEffectActive(on) \/ SetMeasurementMode(on)
  <2>1. UNCHANGED <<samples, capture_size, capture_idx, capture_buf, meas_buffer_idx, past_meas,
                    measured_peaks>>
    BY <1>5 DEF Aging, CommandCapture, SetEffectActive, SetMeasurementMode
  <2> QED
    BY <2>1 DEF CaptureInv, RingHolds, WindowHolds
<1>6. CASE UNCHANGED captureVars
  BY <1>6 DEF captureVars, CaptureInv, RingHolds, WindowHolds
<1> QED
  BY <1>1, <1>2, <1>3, <1>4, <1>5, <1>6, ProcessBufferInv DEF CaptureNext

\* The copy of a capture walks the ring in the order of the samples.
LEMMA CopyIsRecent == CaptureInv => CaptureIsRecent
<1> SUFFICES ASSUME CaptureInv, effect_active, capture_size <= BufSize,
                    samples = 0 \/ (update_time_set /\ ~GoesIdle), NEW i \in 1 .. capture_size
             PROVE  CaptureReply[i] = IF samples - capture_size + i > 0
                                      THEN samples - capture_size + i ELSE Silence
  BY DEF CaptureIsRecent
<1>1. /\ capture_size \in 1 .. BufSize /\ BufSize \in Nat \ {0} /\ samples \in Nat
      /\ capture_idx \in 0 .. BufSize
  BY CaptureAssumption DEF CaptureInv, RingHolds
<1> DEFINE d == capture_size - i
<1>3. d \in 0 .. BufSize - 1 /\ samples - d = samples - capture_size + i
  BY <1>1
<1>4. Copied[i] = capture_buf[Back(capture_idx, d, BufSize)]
  <2>1. CASE i <= BeforeWrap
    <3>1. Back(capture_idx, d, BufSize) = BufSize - BeforeWrap + i - 1
      BY <1>1, <2>1 DEF Back, BeforeWrap
    <3>2. Back(capture_idx, d, BufSize) \in 0 .. BufSize - 1
      BY <1>1, <1>3 DEF Back
    <3> QED
      BY <2>1, <3>1, <3>2 DEF Copied, InRing
  <2>2. CASE ~(i <= BeforeWrap)
    <3>1. Back(capture_idx, d, BufSize) = capture_idx - capture_size + i - 1
      BY <1>1, <2>2 DEF Back, BeforeWrap
    <3>2. Back(capture_idx, d, BufSize) \in 0 .. BufSize - 1
      BY <1>1, <1>3 DEF Back
    <3> QED
      BY <2>2, <3>1, <3>2 DEF Copied, InRing
  <2> QED
    BY <2>1, <2>2
<1>5. capture_buf[Back(capture_idx, d, BufSize)] = IF samples - d > 0 THEN samples - d ELSE Silence
  BY <1>3 DEF CaptureInv, RingHolds
<1>6. Copied[i] = IF samples - d > 0 THEN samples - d ELSE Silence
  BY <1>4, <1>5
<1>2. CASE ~GoesIdle
  BY <1>2, <1>3, <1>6 DEF CaptureReply
<1>7. CASE samples = 0 /\ GoesIdle
  <2>1. Copied[i] = Silence /\ ~(samples - d > 0)
    BY <1>1, <1>3, <1>6, <1>7 DEF Silence
  <2>2. BeforeWrap \in Nat /\ i \in 1 .. capture_size + BeforeWrap
    BY <1>1 DEF BeforeWrap
  <2>3. CaptureReply[i] = Silence
    BY <1>7, <2>1, <2>2 DEF CaptureReply
  <2> QED
    BY <1>3, <2>1, <2>3
<1> QED
  BY <1>2, <1>7

\* The largest measurement in the ring is the largest of the list: the ring has besides
\* only what is not valid.
LEMMA MeasurementIsRecent == CaptureInv => MeasureIsRecent
<1> SUFFICES ASSUME CaptureInv
             PROVE  Max({0} \cup {past_meas[i] : i \in 0 .. Window - 1})
                      = Max({0} \cup {measured_peaks[i] : i \in DOMAIN measured_peaks})
  BY DEF MeasureIsRecent, MeasureReply
<1> DEFINE A == {0} \cup {past_meas[i] : i \in 0 .. Window - 1}
           B == {0} \cup {measured_peaks[i] : i \in DOMAIN measured_peaks}
<1>1. /\ Window \in Nat \ {0} /\ meas_buffer_idx \in 0 .. Window - 1
      /\ measured_peaks \in Seq(Peaks) /\ Len(measured_peaks) \in 0 .. Window
  BY CaptureAssumption DEF CaptureInv, WindowHolds
<1>2. \A i \in 0 .. Window - 1 :
        \E d \in 0 .. Window - 1 : i = Back(meas_buffer_idx, d, Window)
  <2> TAKE i \in 0 .. Window - 1
  <2>1. CASE i < meas_buffer_idx
    <3>1. /\ meas_buffer_idx - 1 - i \in 0 .. Window - 1
          /\ i = Back(meas_buffer_idx, meas_buffer_idx - 1 - i, Window)
      BY <1>1, <2>1 DEF Back
    <3> QED
      BY <3>1
  <2>2. CASE ~(i < meas_buffer_idx)
    <3>1. /\ meas_buffer_idx - 1 - i + Window \in 0 .. Window - 1
          /\ i = Back(meas_buffer_idx, meas_buffer_idx - 1 - i + Window, Window)
      BY <1>1, <2>2 DEF Back
    <3> QED
      BY <3>1
  <2> QED
    BY <2>1, <2>2
<1>3. \A d \in 0 .. Window - 1 : Back(meas_buffer_idx, d, Window) \in 0 .. Window - 1
  BY <1>1 DEF Back
<1>4. \A d \in 0 .. Window - 1 :
        past_meas[Back(meas_buffer_idx, d, Window)] =
          IF d < Len(measured_peaks) THEN measured_peaks[d + 1] ELSE NotValid
  BY DEF CaptureInv, WindowHolds
<1>5. ASSUME NEW x \in A PROVE x \in B \cup {NotValid}
  <2>1. CASE x = 0
    BY <2>1
  <2>2. CASE x # 0
    <3>1. PICK i \in 0 .. Window - 1 : x = past_meas[i]
      BY <1>5, <2>2
    <3>2. PICK d \in 0 .. Window - 1 : i = Back(meas_buffer_idx, d, Window)
      BY <1>2
    <3>3. CASE d < Len(measured_peaks)
      <4>1. d + 1 \in DOMAIN measured_peaks /\ x = measured_peaks[d + 1]
        BY <1>1, <1>4, <3>1, <3>2, <3>3
      <4> QED
        BY <4>1
    <3>4. CASE ~(d < Len(measured_peaks))
      BY <1>4, <3>1, <3>2, <3>4
    <3> QED
      BY <3>3, <3>4
  <2> QED
    BY <2>1, <2>2
<1>6. ASSUME NEW x \in B PROVE x \in A
  <2>1. CASE x = 0
    BY <2>1
  <2>2. CASE x # 0
    <3>1. PICK i \in DOMAIN measured_peaks : x = measured_peaks[i]
      BY <1>6, <2>2
    <3>2. i - 1 \in 0 .. Window - 1 /\ i - 1 < Len(measured_peaks) /\ (i - 1) + 1 = i
      BY <1>1
    <3>3. x = past_meas[Back(meas_buffer_idx, i - 1, Window)]
      BY <1>4, <3>1, <3>2
    <3> QED
      BY <1>3, <3>2, <3>3
  <2> QED
    BY <2>1, <2>2
<1>7. 0 \in A /\ 0 \in B /\ B \subseteq Nat /\ NotValid = -1
  <2>1. \A i \in DOMAIN measured_peaks : measured_peaks[i] \in Nat
    <3>1. \A i \in DOMAIN measured_peaks : measured_peaks[i] \in Peaks
      BY <1>1
    <3> QED
      BY <3>1, CaptureAssumption
  <2>2. B \subseteq Nat
    BY <2>1
  <2>3. 0 \in A /\ 0 \in B
    OBVIOUS
  <2> QED
    BY <2>2, <2>3 DEF NotValid
<1> HIDE DEF A, B
<1>8. \A x : (x \in A /\ \A y \in A : x >= y) <=> (x \in B /\ \A y \in B : x >= y)
  <2>1. ASSUME NEW x \in A, \A y \in A : x >= y PROVE x \in B /\ \A y \in B : x >= y
    <3>1. x # NotValid
      BY <1>7, <2>1
    <3> QED
      BY <1>5, <1>6, <2>1, <3>1
  <2>2. ASSUME NEW x \in B, \A y \in B : x >= y PROVE x \in A /\ \A y \in A : x >= y
    <3>1. x \in Nat
      BY <1>7
    <3>2. ASSUME NEW y \in A PROVE x >= y
      <4>1. CASE y \in B
        BY <2>2, <4>1
      <4>2. CASE y \notin B
        <5>1. y = -1
          BY <1>5, <1>7, <4>2
        <5> QED
          BY <3>1, <5>1
      <4> QED
        BY <4>1, <4>2
    <3> QED
      BY <1>6, <3>2
  <2> QED
    BY <2>1, <2>2
<1>9. (CHOOSE x \in A : \A y \in A : x >= y) = (CHOOSE x \in B : \A y \in B : x >= y)
  BY <1>8
<1>10. Max(A) = Max(B)
  BY <1>9 DEF Max
<1> QED
  BY <1>10 DEF A, B

\* Whatever the sizes of the ring, the captures and the buffers, and over any order of
\* commands, what a client is given is the last samples, of as many as the ring has and
\* until a stall is noticed, and the last measurements (offload_visualizer.c:810-835,
\* 866-960).
THEOREM RepliesRecent == CaptureSpec => []RepliesAreRecent
<1>1. CaptureInv => RepliesAreRecent
  BY CopyIsRecent, MeasurementIsRecent DEF RepliesAreRecent
<1> QED
  BY <1>1, CaptureInitInv, CaptureNextInv, PTL DEF CaptureSpec

-----------------------------------------------------------------------------
(* All the parts side by side: a step of HalServices is a step of one part *)
(* and none of the others, so that it implements each of them.             *)

LEMMA PartsInit ==
  ServicesInit => /\ PatchesInit /\ ParametersInit /\ SettingsInit /\ HfpInit /\ FmInit
                  /\ CaliInit /\ ProcessingInit /\ VolumeInit /\ BtInit /\ CaptureInit
BY DEF ServicesInit

LEMMA PartsStep ==
  ASSUME [ServicesNext]_serviceVars
  PROVE  /\ [PatchesNext]_patchVars /\ [ParametersNext]_parameterVars
         /\ [SettingsNext]_settingVars /\ [HfpNext]_hfpVars /\ [FmNext]_fmVars
         /\ [CaliNext]_caliVars /\ [ProcessingNext]_processingVars
         /\ [VolumeNext]_volumeVars /\ [BtNext]_btVars /\ [CaptureNext]_captureVars
<1>1. CASE ServicesNext
  <2>1. [ParametersNext]_parameterVars
    BY <1>1 DEF ServicesNext, ParametersNext
  <2> QED
    BY <1>1, <2>1 DEF ServicesNext
<1>2. CASE UNCHANGED serviceVars
  BY <1>2 DEF serviceVars
<1> QED
  BY <1>1, <1>2

\* The services of the HAL, side by side, implement the specification of each of them.
THEOREM ServicesImplementParts ==
  ServicesSpec => /\ PatchesSpec /\ ParametersSpec /\ SettingsSpec /\ HfpSpec /\ FmSpec
                  /\ CaliSpec /\ ProcessingSpec /\ VolumeSpec /\ BtSpec /\ CaptureSpec
BY PartsInit, PartsStep, PTL
   DEF ServicesSpec, PatchesSpec, ParametersSpec, SettingsSpec, HfpSpec, FmSpec, CaliSpec,
       ProcessingSpec, VolumeSpec, BtSpec, CaptureSpec

\* What holds of each service holds of all of them side by side: the theorems about the
\* parts are theorems about the run that explores them together.
THEOREM ServicesCorrect ==
  ServicesSpec => /\ []( /\ PatchIsRouted /\ PalReleased /\ Lc3OfThisRound /\ SettingsReach
                         /\ HfpWhole /\ FmVolumeHeard /\ MasksAgree /\ AmpRestored
                         /\ LevelFollowsActive /\ MetadataCurrent /\ RepliesAreRecent)
                  /\ OkIsStored
BY ServicesImplementParts, PatchesAreRouted, PalIsReleased, Lc3Correct, SettingsCorrect,
   HfpCallWhole, FmVolumeCorrect, ProcessingCorrect, CaliRestoresAmp, CaliOkIsStored,
   LevelIsFollowed, MetadataCorrect, RepliesRecent, PTL
===============================================================================
