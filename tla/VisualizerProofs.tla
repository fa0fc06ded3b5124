--------------------------- MODULE VisualizerProofs ---------------------------
(* The safety properties of Visualizer, for every set of effects, outputs  *)
(* and threads.                                                            *)
EXTENDS Visualizer, TLAPS

USE DEF effectVars, threadVars, loopVars

\* While a stop joins, no output is left and the thread it joins has been told
\* to exit; no other time is a thread told so, and none ends before that.
JoinInv ==
  /\ \A o \in stopping :
       /\ stopping = {o}
       /\ active_outputs = {} /\ exit_thread /\ thread_status = "ok"
       /\ capture_thread \in CaptureThreads /\ at[capture_thread] # "none"
  /\ \A c \in CaptureThreads :
       at[c] = "exited" \/ (at[c] # "none" /\ exit_thread) => stopping # {}
  /\ thread_status = "ok" => capture_thread \in CaptureThreads

IInv ==
  /\ TypeOK
  /\ OneCaptureThread
  /\ CaptureReleased
  /\ NoLostWakeup
  /\ ListsAgree
  /\ JoinInv

\* When one thread waits at most, pthread_cond_signal leaves none waiting and
\* changes nothing else.
LEMMA SignalWakesAll ==
  ASSUME NEW p \in [CaptureThreads -> Points], NEW t,
         \A c \in CaptureThreads : p[c] \in Waits => c = t,
         NEW q \in Signalled(p)
  PROVE  /\ q \in [CaptureThreads -> Points]
         /\ \A c \in CaptureThreads :
              q[c] = IF p[c] \in Waits THEN "awake" ELSE p[c]
<1> DEFINE waiting == {c \in CaptureThreads : p[c] \in Waits}
<1>1. CASE waiting = {}
  <2>1. q = p
    BY <1>1 DEF Signalled
  <2> QED
    BY <2>1, <1>1
<1>2. CASE waiting # {}
  <2>1. PICK c \in waiting : q = [p EXCEPT ![c] = "awake"]
    BY <1>2 DEF Signalled
  <2>2. c = t /\ \A d \in CaptureThreads : d # c => p[d] \notin Waits
    BY <2>1
  <2> QED
    BY <2>1, <2>2 DEF Points, Waits
<1> QED
  BY <1>1, <1>2

\* With one capture thread, that is so of every signal.
LEMMA SignalInv ==
  ASSUME TypeOK, OneCaptureThread, NEW q \in Signalled(at)
  PROVE  /\ q \in [CaptureThreads -> Points]
         /\ \A c \in CaptureThreads :
              q[c] = IF at[c] \in Waits THEN "awake" ELSE at[c]
<1>1. at \in [CaptureThreads -> Points]
  BY DEF TypeOK
<1>2. \A c \in CaptureThreads : at[c] \in Waits => c = capture_thread
  BY DEF OneCaptureThread, Waits
<1> QED
  BY <1>1, <1>2, SignalWakesAll

LEMMA InitInv == Init => IInv
  BY DEF Init, IInv, TypeOK, OneCaptureThread, CaptureReleased, NoLostWakeup, ListsAgree,
         JoinInv, Live, Points, Waits, EffectsEnabled, Captured, Exists, Attached

-----------------------------------------------------------------------------
(* One lemma for each group of actions.                                    *)

\* When nothing is being joined and no output is active there is no thread.
LEMMA NoThreadWithoutOutput ==
  ASSUME IInv, stopping = {}, active_outputs = {}
  PROVE  \A c \in CaptureThreads : at[c] = "none"
BY DEF IInv, TypeOK, OneCaptureThread, JoinInv, Live, Points, Waits

LEMMA StartStep ==
  ASSUME IInv, NEW o \in Outputs, StartOutput(o)
  PROVE  IInv'
<1> USE DEF ThreadLockFree
<1>1. stopping = {} /\ stopping' = {} /\ TypeOK /\ OneCaptureThread
  BY DEF StartOutput, IInv
<1>2. ListsAgree' /\ effects_list' \in [Outputs -> SUBSET Effects]
  BY DEF StartOutput, IInv, ListsAgree, TypeOK, Exists
<1>3. CASE active_outputs = {}
  <2>1. \A c \in CaptureThreads : at[c] = "none"
    BY <1>1, <1>3, NoThreadWithoutOutput
  <2>2. exit_thread' = FALSE
    BY <1>3 DEF StartOutput
  <2>3. CASE ThreadNotCreated
    <3>1. at' = at
      <4>1. at' \in Signalled(at)
        BY <2>3 DEF ThreadNotCreated
      <4> QED
        BY <4>1, <2>1 DEF Signalled, Waits
    <3> QED
      BY <1>1, <1>2, <2>1, <2>2, <2>3, <3>1
      DEF StartOutput, ThreadNotCreated, IInv, TypeOK, OneCaptureThread, CaptureReleased,
          NoLostWakeup, JoinInv, Live, Points, Waits
  <2>4. ASSUME NEW c \in CaptureThreads, ThreadCreated(c) PROVE IInv'
    <3>1. at' = [at EXCEPT ![c] = "awake"]
      <4>1. at' \in Signalled([at EXCEPT ![c] = "awake"])
        BY <2>4 DEF ThreadCreated
      <4> QED
        BY <4>1, <2>1, <1>1 DEF Signalled, Waits, TypeOK
    <3>2. \A d \in CaptureThreads : at'[d] = IF d = c THEN "awake" ELSE "none"
      BY <3>1, <2>1, <1>1 DEF TypeOK
    <3>3. at' \in [CaptureThreads -> Points]
      BY <3>1, <1>1 DEF TypeOK, Points, Waits
    <3>4. capture_enabled = {} /\ capture_enabled' = {}
      BY <2>1 DEF StartOutput, IInv, CaptureReleased, TypeOK
    <3>5. TypeOK'
      BY <1>1, <1>2, <2>2, <2>4, <3>3, <3>4 DEF StartOutput, ThreadCreated, TypeOK
    <3>6. OneCaptureThread' /\ JoinInv'
      BY <1>1, <2>2, <2>4, <3>2 DEF StartOutput, ThreadCreated, OneCaptureThread, JoinInv, Live, Points, Waits
    <3>7. CaptureReleased' /\ NoLostWakeup'
      BY <2>2, <3>2, <3>4 DEF CaptureReleased, NoLostWakeup, Waits
    <3> QED
      BY <1>2, <3>5, <3>6, <3>7 DEF IInv
  <2> QED
    BY <1>3, <2>3, <2>4 DEF StartOutput
<1>4. CASE active_outputs # {}
  <2>1. /\ at' \in [CaptureThreads -> Points]
        /\ \A c \in CaptureThreads : at'[c] = IF at[c] \in Waits THEN "awake" ELSE at[c]
    BY <1>1, <1>4, SignalInv DEF StartOutput
  <2>2. TypeOK'
    BY <1>1, <1>2, <1>4, <2>1 DEF StartOutput, TypeOK
  <2>3. OneCaptureThread' /\ JoinInv'
    BY <1>1, <1>4, <2>1 DEF StartOutput, IInv, OneCaptureThread, JoinInv, Live, Points, Waits
  <2>4. CaptureReleased' /\ NoLostWakeup'
    BY <1>1, <1>4, <2>1 DEF StartOutput, IInv, TypeOK, CaptureReleased, NoLostWakeup, Waits
  <2> QED
    BY <1>2, <2>2, <2>3, <2>4 DEF IInv
<1> QED
  BY <1>3, <1>4

LEMMA StopStep ==
  ASSUME IInv, NEW o \in Outputs, StopOutput(o)
  PROVE  IInv'
<1> USE DEF ThreadLockFree
<1>1. stopping = {} /\ TypeOK /\ OneCaptureThread /\ o \in active_outputs
  BY DEF StopOutput, IInv
<1>2. /\ at' \in [CaptureThreads -> Points]
      /\ \A c \in CaptureThreads : at'[c] = IF at[c] \in Waits THEN "awake" ELSE at[c]
  BY <1>1, SignalInv DEF StopOutput
<1>3. ListsAgree'
  BY <1>1 DEF StopOutput, IInv, ListsAgree, TypeOK, Exists
<1>4. TypeOK'
  BY <1>1, <1>2 DEF StopOutput, TypeOK
<1>5. CASE active_outputs = {o} /\ thread_status = "ok"
  <2>1. stopping' = {o} /\ exit_thread' /\ active_outputs' = {} /\ thread_status' = "ok"
    BY <1>1, <1>5 DEF StopOutput
  <2>2. capture_thread' = capture_thread /\ Live(capture_thread) /\ capture_thread \in CaptureThreads
    BY <1>1, <1>5 DEF StopOutput, OneCaptureThread, IInv, JoinInv
  <2>3. OneCaptureThread' /\ JoinInv'
    BY <1>1, <1>2, <2>1, <2>2 DEF StopOutput, OneCaptureThread, JoinInv, Live, Points, Waits
  <2>4. CaptureReleased' /\ NoLostWakeup'
    BY <1>1, <1>2, <2>1 DEF StopOutput, IInv, TypeOK, CaptureReleased, NoLostWakeup, Waits
  <2> QED
    BY <1>3, <1>4, <2>3, <2>4 DEF IInv
<1>6. CASE active_outputs = {o} /\ thread_status # "ok"
  <2>1. \A c \in CaptureThreads : at[c] = "none" /\ at'[c] = "none"
    BY <1>1, <1>2, <1>6 DEF OneCaptureThread, Waits
  <2> QED
    BY <1>1, <1>3, <1>4, <1>6, <2>1
    DEF StopOutput, IInv, TypeOK, OneCaptureThread, CaptureReleased, NoLostWakeup, JoinInv, Live, Points, Waits
<1>7. CASE active_outputs # {o}
  <2>1. stopping' = {} /\ exit_thread' = exit_thread /\ active_outputs' # {}
    BY <1>1, <1>7 DEF StopOutput
  <2>2. OneCaptureThread' /\ JoinInv'
    BY <1>1, <1>2, <2>1 DEF StopOutput, IInv, OneCaptureThread, JoinInv, Live, Points, Waits
  <2>3. CaptureReleased' /\ NoLostWakeup'
    BY <1>1, <1>2, <2>1 DEF StopOutput, IInv, TypeOK, CaptureReleased, NoLostWakeup, Waits
  <2> QED
    BY <1>3, <1>4, <2>2, <2>3 DEF IInv
<1> QED
  BY <1>5, <1>6, <1>7

LEMMA JoinedStep ==
  ASSUME IInv, NEW o \in Outputs, StopOutputJoined(o)
  PROVE  IInv'
<1>1. /\ stopping = {o} /\ stopping' = {} /\ active_outputs = {} /\ TypeOK
      /\ capture_thread \in CaptureThreads /\ thread_status' = "none"
  BY DEF StopOutputJoined, IInv, JoinInv
<1>2. \A c \in CaptureThreads : at'[c] = "none"
  BY <1>1 DEF StopOutputJoined, IInv, TypeOK, OneCaptureThread
<1>3. at' \in [CaptureThreads -> Points]
  BY <1>1 DEF StopOutputJoined, TypeOK, Points
<1>4. capture_enabled' = {}
  BY <1>1 DEF StopOutputJoined, IInv, CaptureReleased, TypeOK, OneCaptureThread
<1>5. TypeOK' /\ ListsAgree'
  BY <1>1, <1>3 DEF StopOutputJoined, IInv, TypeOK, ListsAgree, Exists
<1>6. OneCaptureThread' /\ JoinInv'
  BY <1>1, <1>2 DEF OneCaptureThread, JoinInv, Live
<1>7. CaptureReleased' /\ NoLostWakeup'
  BY <1>2, <1>4 DEF CaptureReleased, NoLostWakeup, Waits
<1> QED
  BY <1>5, <1>6, <1>7 DEF IInv

\* What a command leaves: with the outputs, the threads and the sessions as they
\* were, only the lists and what the thread sleeps over can be disturbed.
LEMMA CommandStep ==
  ASSUME IInv, TypeOK', ListsAgree', UNCHANGED <<active_outputs, threadVars, capture_enabled, at>>,
         moved => moved', EffectsEnabled' => moved' \/ EffectsEnabled
  PROVE  IInv'
<1>1. OneCaptureThread' /\ JoinInv'
  BY DEF IInv, OneCaptureThread, JoinInv, Live
<1>2. CaptureReleased' /\ NoLostWakeup'
  BY DEF IInv, CaptureReleased, NoLostWakeup
<1> QED
  BY <1>1, <1>2 DEF IInv

LEMMA CreateStep ==
  ASSUME IInv, NEW e \in Effects, NEW o \in Outputs, Create(e, o)
  PROVE  IInv'
<1>1. TypeOK'
  BY DEF Create, IInv, TypeOK, ListsWith
<1>2. ListsAgree'
  BY DEF Create, IInv, TypeOK, ListsAgree, ListsWith, Exists
<1>3. ASSUME NEW f \in Effects, Captured(f)' PROVE Captured(f)
  <2>1. f # e /\ state'[f] = state[f]
    BY <1>3 DEF Create, Captured, IInv, TypeOK
  <2>2. PICK p \in active_outputs : f \in effects_list'[p]
    BY <1>3 DEF Captured, Attached, Create
  <2>3. f \in effects_list[p]
    BY <2>1, <2>2 DEF Create, ListsWith, IInv, TypeOK
  <2> QED
    BY <1>3, <2>1, <2>3 DEF Captured, Attached
<1>4. EffectsEnabled' => EffectsEnabled
  BY <1>3 DEF EffectsEnabled
<1> QED
  BY <1>1, <1>2, <1>4, CommandStep DEF Create

LEMMA ReleaseStep ==
  ASSUME IInv, NEW e \in Effects, Release(e)
  PROVE  IInv'
<1>1. TypeOK'
  BY DEF Release, IInv, TypeOK, ListsWithout
<1>2. ListsAgree'
  BY DEF Release, IInv, TypeOK, ListsAgree, ListsWithout, Exists
<1>3. ASSUME NEW f \in Effects, Captured(f)' PROVE Captured(f)
  <2>1. state'[f] = state[f]
    BY <1>3 DEF Release, Captured, IInv, TypeOK
  <2>2. PICK p \in active_outputs : f \in effects_list'[p]
    BY <1>3 DEF Captured, Attached, Release
  <2>3. f \in effects_list[p]
    BY <2>2 DEF Release, ListsWithout, IInv, TypeOK
  <2> QED
    BY <1>3, <2>1, <2>3 DEF Captured, Attached
<1>4. EffectsEnabled' => EffectsEnabled
  BY <1>3 DEF EffectsEnabled
<1> QED
  BY <1>1, <1>2, <1>4, CommandStep DEF Release

LEMMA OffloadStep ==
  ASSUME IInv, NEW e \in Effects, NEW o \in Outputs, Offload(e, o)
  PROVE  IInv'
<1> DEFINE lists == [ListsWithout(e) EXCEPT ![o] = ListsWith(e, o)[o]]
<1>1. lists \in [Outputs -> SUBSET Effects]
  BY DEF IInv, TypeOK, ListsWith, ListsWithout
<1>2. TypeOK'
  BY <1>1 DEF Offload, IInv, TypeOK
<1>3. \A p \in active_outputs : lists[p] =
        IF p = o THEN effects_list[o] \cup {e}
        ELSE IF p = out_handle[e] THEN effects_list[p] \ {e} ELSE effects_list[p]
  BY DEF IInv, TypeOK, ListsWith, ListsWithout, Offload
<1>4. ListsAgree'
  <2>1. ASSUME NEW p \in active_outputs
        PROVE  lists[p] = {f \in Effects : Exists(f) /\ out_handle'[f] = p}
    <3>1. effects_list[p] = {f \in Effects : Exists(f) /\ out_handle[f] = p}
      BY <2>1 DEF IInv, ListsAgree
    <3>2. Exists(e) /\ \A f \in Effects : out_handle'[f] = IF f = e THEN o ELSE out_handle[f]
      BY DEF Offload, IInv, TypeOK
    <3>3. lists[p] = IF p = o THEN effects_list[p] \cup {e}
                     ELSE IF p = out_handle[e] THEN effects_list[p] \ {e} ELSE effects_list[p]
      BY <1>3, <2>1
    <3> HIDE DEF lists
    <3>4. o # out_handle[e]
      BY DEF Offload
    <3>5. ASSUME NEW f \in Effects
          PROVE  f \in lists[p] <=> Exists(f) /\ out_handle'[f] = p
      BY <3>1, <3>2, <3>3, <3>4, <3>5
    <3>6. lists[p] \subseteq Effects
      BY <3>1, <3>3
    <3> QED
      BY <3>5, <3>6
  <2>2. active_outputs' = active_outputs /\ effects_list' = lists /\ state' = state
    BY DEF Offload
  <2> QED
    BY <2>1, <2>2 DEF ListsAgree, Exists
<1>5. ASSUME NEW f \in Effects, Captured(f)' PROVE moved' \/ Captured(f)
  <2>1. state'[f] = state[f] /\ (f = e /\ state[e] = "ACTIVE" => moved')
    BY DEF Offload
  <2>2. PICK p \in active_outputs : f \in lists[p]
    BY <1>5 DEF Captured, Attached, Offload
  <2> HIDE DEF lists
  <2>3. f # e => f \in effects_list[p]
    BY <1>3, <2>2
  <2> QED
    BY <1>5, <2>1, <2>3 DEF Captured, Attached
<1>6. EffectsEnabled' => moved' \/ EffectsEnabled
  BY <1>5 DEF EffectsEnabled
<1>7. moved => moved'
  BY DEF Offload
<1> QED
  BY <1>2, <1>4, <1>6, <1>7, CommandStep DEF Offload

LEMMA ResetStep ==
  ASSUME IInv, NEW e \in Effects, Reset(e)
  PROVE  IInv'
<1>1. TypeOK' /\ ListsAgree'
  BY DEF Reset, IInv, TypeOK, ListsAgree, Exists
<1>2. EffectsEnabled' => EffectsEnabled
  BY DEF Reset, EffectsEnabled, Captured, Attached
<1> QED
  BY <1>1, <1>2, CommandStep DEF Reset

\* ENABLE and DISABLE wake the thread, so nothing sleeps over the change.
LEMMA SwitchStep ==
  ASSUME IInv, NEW e \in Effects, NEW from \in {"INITIALIZED", "ACTIVE"},
         NEW to \in {"INITIALIZED", "ACTIVE"}, Switch(e, from, to)
  PROVE  IInv'
<1>1. /\ at' \in [CaptureThreads -> Points]
      /\ \A c \in CaptureThreads : at'[c] = IF at[c] \in Waits THEN "awake" ELSE at[c]
  BY SignalInv DEF Switch, IInv
<1>2. TypeOK' /\ ListsAgree'
  BY <1>1 DEF Switch, IInv, TypeOK, ListsAgree, Exists
<1>3. OneCaptureThread' /\ JoinInv'
  BY <1>1 DEF Switch, IInv, OneCaptureThread, JoinInv, Live, Points, Waits
<1>4. CaptureReleased' /\ NoLostWakeup'
  BY <1>1 DEF Switch, IInv, TypeOK, CaptureReleased, NoLostWakeup, Waits
<1> QED
  BY <1>2, <1>3, <1>4 DEF IInv

LEMMA WakeupStep ==
  ASSUME IInv, NEW c \in CaptureThreads, SpuriousWakeup(c)
  PROVE  IInv'
<1>1. /\ at' \in [CaptureThreads -> Points] /\ at[c] \in Waits
      /\ \A d \in CaptureThreads : at'[d] = IF d = c THEN "awake" ELSE at[d]
  BY DEF SpuriousWakeup, IInv, TypeOK, Points
<1>2. TypeOK' /\ ListsAgree'
  BY <1>1 DEF SpuriousWakeup, IInv, TypeOK, ListsAgree, Exists
<1>3. OneCaptureThread' /\ JoinInv'
  BY <1>1 DEF SpuriousWakeup, IInv, OneCaptureThread, JoinInv, Live, Points, Waits
<1>4. CaptureReleased' /\ NoLostWakeup'
  BY <1>1 DEF SpuriousWakeup, IInv, TypeOK, CaptureReleased, NoLostWakeup, Waits,
              EffectsEnabled, Captured, Attached
<1> QED
  BY <1>2, <1>3, <1>4 DEF IInv

\* The thread c is the only one; it looks at exit_thread and at the effects, and
\* goes where they send it.
LEMMA LoopStep ==
  ASSUME IInv, NEW c \in CaptureThreads, Loop(c)
  PROVE  IInv'
<1>1. PICK p \in {"exited", "reading", "waitFailed", "waitIdle"} :
        /\ at' = [at EXCEPT ![c] = p]
        /\ p = "exited" => exit_thread
        /\ p # "exited" => ~exit_thread
        /\ p = "waitIdle" => ~EffectsEnabled
        /\ capture_enabled' = IF p = "reading" THEN capture_enabled \cup {c}
                              ELSE capture_enabled \ {c}
  BY DEF Loop, ExitThread, CaptureStarts, CaptureRefused, CaptureGoesOn, CaptureStops, Goes
<1>2. AtTop(c) /\ moved' = FALSE
  BY DEF Loop, ExitThread, CaptureStarts, CaptureRefused, CaptureGoesOn, CaptureStops, Goes
<1>3. at[c] \in {"awake", "reading"} /\ Live(c)
  BY <1>2 DEF AtTop, ReadOk, ReadFails, Live, Points
<1>4. /\ \A d \in CaptureThreads : at'[d] = IF d = c THEN p ELSE at[d]
      /\ at' \in [CaptureThreads -> Points]
  BY <1>1 DEF IInv, TypeOK, Points, Waits
<1>5. \A d \in CaptureThreads : at[d] # "none" => d = c
  BY <1>3 DEF IInv, OneCaptureThread, Live, Points
<1>6. heard' \subseteq Effects
  <2>1. Attached \subseteq Effects
    BY DEF Attached, IInv, TypeOK
  <2> QED
    BY <1>2, <2>1 DEF AtTop, ReadOk, ReadFails, IInv, TypeOK
<1>7. read_status' \in [CaptureThreads -> {"none", "data", "error"}]
  BY <1>2 DEF AtTop, ReadOk, ReadFails, IInv, TypeOK
<1>8. TypeOK' /\ ListsAgree'
  BY <1>1, <1>2, <1>4, <1>6, <1>7 DEF AtTop, IInv, TypeOK, ListsAgree, Exists
<1>9. p = "exited" => stopping # {} /\ active_outputs = {}
  BY <1>1, <1>3 DEF IInv, JoinInv, Live
<1>10. OneCaptureThread'
  BY <1>2, <1>3, <1>4, <1>5, <1>9 DEF AtTop, IInv, OneCaptureThread, Live, Points, Waits
<1>11. JoinInv'
  BY <1>1, <1>2, <1>3, <1>4, <1>5, <1>9 DEF AtTop, IInv, JoinInv, Live, Points, Waits
<1>12. CaptureReleased'
  BY <1>1, <1>2, <1>3, <1>4, <1>5 DEF AtTop, IInv, TypeOK, CaptureReleased, OneCaptureThread
<1>13. EffectsEnabled' <=> EffectsEnabled
  BY <1>2 DEF AtTop, EffectsEnabled, Captured, Attached
<1>14. NoLostWakeup'
  BY <1>1, <1>2, <1>4, <1>5, <1>13 DEF AtTop, NoLostWakeup, Waits
<1> QED
  BY <1>8, <1>10, <1>11, <1>12, <1>14 DEF IInv

-----------------------------------------------------------------------------
(* The theorems.                                                           *)

LEMMA NextInv == IInv /\ [Next]_vars => IInv'
<1> SUFFICES ASSUME IInv, [Next]_vars PROVE IInv'
  OBVIOUS
<1>1. ASSUME NEW o \in Outputs, StartOutput(o) \/ StopOutput(o) \/ StopOutputJoined(o)
      PROVE  IInv'
  BY <1>1, StartStep, StopStep, JoinedStep
<1>2. ASSUME NEW e \in Effects, Release(e) \/ Enable(e) \/ Disable(e) \/ Reset(e)
      PROVE  IInv'
  BY <1>2, ReleaseStep, SwitchStep, ResetStep DEF Enable, Disable
<1>3. ASSUME NEW e \in Effects, NEW o \in Outputs, Create(e, o) \/ Offload(e, o)
      PROVE  IInv'
  BY <1>3, CreateStep, OffloadStep
<1>4. ASSUME NEW c \in CaptureThreads, SpuriousWakeup(c) \/ Loop(c)
      PROVE  IInv'
  BY <1>4, WakeupStep, LoopStep
<1>5. CASE UNCHANGED vars
  BY <1>5 DEF vars, IInv, TypeOK, OneCaptureThread, CaptureReleased, NoLostWakeup, ListsAgree,
              JoinInv, Live, EffectsEnabled, Captured, Attached, Exists
<1> QED
  BY <1>1, <1>2, <1>3, <1>4, <1>5 DEF Next

\* The inductive invariant holds in every behaviour of the visualizer.
THEOREM InvariantHolds == Spec => []IInv
<1>1. Init => IInv
  BY InitInv
<1>2. IInv /\ [Next]_vars => IInv'
  BY NextInv
<1> QED
  BY <1>1, <1>2, PTL DEF Spec

\* visualizer_hal_start_output and visualizer_hal_stop_output never leave two
\* capture threads, none where one is needed, or one where none is.
THEOREM CaptureIsOwned == Spec => []CaptureOwned
<1>1. IInv => CaptureOwned
  BY DEF IInv, CaptureOwned
<1> QED
  BY <1>1, InvariantHolds, PTL

\* The condition variable is signalled wherever it has to be, EFFECT_CMD_OFFLOAD
\* excepted.
THEOREM WakeupsKept == Spec => []NoLostWakeup
<1>1. IInv => NoLostWakeup
  BY DEF IInv
<1> QED
  BY <1>1, InvariantHolds, PTL

\* The lists the capture thread walks hold the effects that exist, and types
\* are respected.
THEOREM ListsAlwaysAgree == Spec => [](ListsAgree /\ TypeOK)
<1>1. IInv => ListsAgree /\ TypeOK
  BY DEF IInv
<1> QED
  BY <1>1, InvariantHolds, PTL
==============================================================================
