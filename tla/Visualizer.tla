------------------------------ MODULE Visualizer ------------------------------
(***************************************************************************)
(* The offload visualizer, audio-effects/visualizer/offload_visualizer.c:  *)
(* effects the audio server creates and enables, outputs the HAL starts    *)
(* and stops, and the capture thread, which lives while there is an output *)
(* and holds a PAL capture session while some effect is enabled on one.    *)
(*                                                                         *)
(* `lock` guards the lists and is held by the thread except in             *)
(* pthread_cond_wait and pal_stream_read, so the code between two of those *)
(* points is one step, and so is a command.  `thread_lock` is held by a    *)
(* start or a stop from end to end; it matters where a stop drops `lock`,  *)
(* in pthread_join.                                                        *)
(***************************************************************************)
CONSTANTS
  Effects,         \* the effect contexts
  Outputs,         \* the io handles of the outputs
  CaptureThreads,  \* the threads pthread_create can return
  NoThread

ASSUME ThreadAssumption == NoThread \notin CaptureThreads

VARIABLES
  state,           \* context->state; "none" when the context does not exist
  out_handle,      \* the output an effect belongs to
  active_outputs,  \* active_outputs_list
  effects_list,    \* of each active output
  exit_thread,
  thread_status,   \* "ok" for 0, "failed" for a pthread_create error, "none" for -1
  capture_thread,
  stopping,        \* the outputs whose stop waits in pthread_join, holding thread_lock
  at,              \* where each capture thread is
  capture_enabled, \* the threads that hold a started PAL session
  read_status,     \* of the last pal_stream_read of each thread
  heard,           \* the effects with captured data in their capture_buf
  moved            \* history: an active effect moved since the thread last looked

effectVars == <<state, out_handle, effects_list>>
threadVars == <<exit_thread, thread_status, capture_thread, stopping>>
loopVars == <<capture_enabled, read_status>>
vars == <<effectVars, active_outputs, threadVars, at, loopVars, heard, moved>>

\* waitIdle and waitFailed are the pthread_cond_wait with no effect enabled and
\* the ones after a PAL error; awake is on the way to `lock`.
Waits == {"waitIdle", "waitFailed"}
Points == {"none", "awake", "reading", "exited"} \cup Waits

Live(c) == at[c] \in Points \ {"none", "exited"}
Exists(e) == state[e] # "none"
Attached == UNION {effects_list[o] : o \in active_outputs}

\* effects_enabled(): what the capture thread captures for.
Captured(e) == state[e] = "ACTIVE" /\ e \in Attached
EffectsEnabled == \E e \in Effects : Captured(e)

Init ==
  /\ state = [e \in Effects |-> "none"]
  /\ out_handle \in [Effects -> Outputs]
  /\ active_outputs = {}
  /\ effects_list = [o \in Outputs |-> {}]
  /\ exit_thread = FALSE
  /\ thread_status = "none"
  /\ capture_thread = NoThread
  /\ stopping = {}
  /\ at = [c \in CaptureThreads |-> "none"]
  /\ capture_enabled = {}
  /\ read_status = [c \in CaptureThreads |-> "none"]
  /\ heard = {}
  /\ moved = FALSE

-----------------------------------------------------------------------------
(* The condition variable.                                                 *)

\* pthread_cond_signal wakes one of the threads that wait, if any does.
Signalled(p) ==
  LET waiting == {c \in CaptureThreads : p[c] \in Waits}
  IN  IF waiting = {} THEN {p} ELSE {[p EXCEPT ![c] = "awake"] : c \in waiting}

\* pthread_cond_wait may return for no reason.
SpuriousWakeup(c) ==
  /\ at[c] \in Waits
  /\ at' = [at EXCEPT ![c] = "awake"]
  /\ UNCHANGED <<effectVars, active_outputs, threadVars, loopVars, heard, moved>>

-----------------------------------------------------------------------------
(* The HAL starts and stops an output.                                     *)

ThreadLockFree == stopping = {}

\* pthread_create; the thread runs when it gets `lock`.
ThreadCreated(c) ==
  /\ at[c] = "none"
  /\ capture_thread' = c
  /\ thread_status' = "ok"
  /\ at' \in Signalled([at EXCEPT ![c] = "awake"])
  /\ read_status' = [read_status EXCEPT ![c] = "none"]

ThreadNotCreated ==
  /\ thread_status' = "failed"
  /\ at' \in Signalled(at)
  /\ UNCHANGED <<capture_thread, read_status>>

\* Mutant: a further output starts without a signal.
StartOutputQuietly(o) ==
  /\ ThreadLockFree
  /\ o \notin active_outputs
  /\ effects_list' =
       [effects_list EXCEPT ![o] = {e \in Effects : Exists(e) /\ out_handle[e] = o}]
  /\ active_outputs' = active_outputs \cup {o}
  /\ IF active_outputs = {}
       THEN /\ exit_thread' = FALSE
            /\ ThreadNotCreated \/ \E c \in CaptureThreads : ThreadCreated(c)
       ELSE UNCHANGED <<at, exit_thread, capture_thread, thread_status, read_status>>
  /\ UNCHANGED <<state, out_handle, stopping, capture_enabled, heard, moved>>

StartOutput(o) ==
  /\ ThreadLockFree
  /\ o \notin active_outputs
  /\ effects_list' =
       [effects_list EXCEPT ![o] = {e \in Effects : Exists(e) /\ out_handle[e] = o}]
  /\ active_outputs' = active_outputs \cup {o}
  /\ IF active_outputs = {}
       THEN /\ exit_thread' = FALSE
            /\ ThreadNotCreated \/ \E c \in CaptureThreads : ThreadCreated(c)
       ELSE /\ at' \in Signalled(at)
            /\ UNCHANGED <<exit_thread, capture_thread, thread_status, read_status>>
  /\ UNCHANGED <<state, out_handle, stopping, capture_enabled, heard, moved>>

\* Mutant: exit_thread is not set for the thread to join.
StopOutputNoExit(o) ==
  /\ ThreadLockFree
  /\ o \in active_outputs
  /\ active_outputs' = active_outputs \ {o}
  /\ effects_list' = [effects_list EXCEPT ![o] = {}]
  /\ at' \in Signalled(at)
  /\ stopping' = IF active_outputs = {o} /\ thread_status = "ok"
                   THEN stopping \cup {o} ELSE stopping
  /\ UNCHANGED <<state, out_handle, exit_thread, thread_status, capture_thread, loopVars, heard, moved>>

\* The last output takes the thread with it: `lock` is dropped for the join.
StopOutput(o) ==
  /\ ThreadLockFree
  /\ o \in active_outputs
  /\ active_outputs' = active_outputs \ {o}
  /\ effects_list' = [effects_list EXCEPT ![o] = {}]
  /\ at' \in Signalled(at)
  /\ IF active_outputs = {o} /\ thread_status = "ok"
       THEN exit_thread' = TRUE /\ stopping' = stopping \cup {o}
       ELSE UNCHANGED <<exit_thread, stopping>>
  /\ UNCHANGED <<state, out_handle, thread_status, capture_thread, loopVars, heard, moved>>

\* pthread_join has returned.
StopOutputJoined(o) ==
  /\ o \in stopping
  /\ at[capture_thread] = "exited"
  /\ at' = [at EXCEPT ![capture_thread] = "none"]
  /\ thread_status' = "none"
  /\ stopping' = stopping \ {o}
  /\ UNCHANGED <<effectVars, active_outputs, exit_thread, capture_thread, loopVars, heard, moved>>

-----------------------------------------------------------------------------
(* The audio server creates effects and sends them commands.               *)

\* add_effect_to_output and remove_effect_from_output, when the output is active.
ListsWith(e, o) ==
  [p \in Outputs |-> IF p = o /\ p \in active_outputs
                       THEN effects_list[p] \cup {e} ELSE effects_list[p]]
ListsWithout(e) ==
  [p \in Outputs |-> IF p = out_handle[e] /\ p \in active_outputs
                       THEN effects_list[p] \ {e} ELSE effects_list[p]]

Create(e, o) ==
  /\ ~Exists(e)
  /\ state' = [state EXCEPT ![e] = "INITIALIZED"]
  /\ out_handle' = [out_handle EXCEPT ![e] = o]
  /\ effects_list' = ListsWith(e, o)
  /\ heard' = heard \ {e}
  /\ UNCHANGED <<active_outputs, threadVars, at, loopVars, moved>>

Release(e) ==
  /\ Exists(e)
  /\ effects_list' = ListsWithout(e)
  /\ state' = [state EXCEPT ![e] = "none"]
  /\ heard' = heard \ {e}
  /\ UNCHANGED <<out_handle, active_outputs, threadVars, at, loopVars, moved>>

\* Mutant: a command does not signal the thread.
SwitchQuietly(e, from, to) ==
  /\ state[e] = from
  /\ state' = [state EXCEPT ![e] = to]
  /\ UNCHANGED <<out_handle, effects_list, active_outputs, threadVars, at, loopVars, heard, moved>>

\* EFFECT_CMD_ENABLE and EFFECT_CMD_DISABLE.
Switch(e, from, to) ==
  /\ state[e] = from
  /\ state' = [state EXCEPT ![e] = to]
  /\ at' \in Signalled(at)
  /\ UNCHANGED <<out_handle, effects_list, active_outputs, threadVars, loopVars, heard, moved>>

Enable(e) == Switch(e, "INITIALIZED", "ACTIVE")
Disable(e) == Switch(e, "ACTIVE", "INITIALIZED")

\* EFFECT_CMD_RESET, EFFECT_CMD_INIT and EFFECT_CMD_SET_CONFIG clear capture_buf.
Reset(e) ==
  /\ Exists(e)
  /\ heard' = heard \ {e}
  /\ UNCHANGED <<effectVars, active_outputs, threadVars, at, loopVars, moved>>

\* EFFECT_CMD_OFFLOAD with another io handle.  Nobody is signalled.
Offload(e, o) ==
  /\ Exists(e)
  /\ o # out_handle[e]
  /\ out_handle' = [out_handle EXCEPT ![e] = o]
  /\ effects_list' = [ListsWithout(e) EXCEPT ![o] = ListsWith(e, o)[o]]
  /\ moved' = (moved \/ state[e] = "ACTIVE")
  /\ UNCHANGED <<state, active_outputs, threadVars, at, loopVars, heard>>

-----------------------------------------------------------------------------
(* capture_thread_loop.  It arrives at the top of the loop from its start, *)
(* from a wait, or from a read, whose data all the effects attached to an  *)
(* active output are given, enabled or not.                                *)

ReadOk(c) ==
  /\ at[c] = "reading"
  /\ read_status' = [read_status EXCEPT ![c] = "data"]
  /\ heard' = heard \cup Attached

ReadFails(c) ==
  /\ at[c] = "reading"
  /\ read_status' = [read_status EXCEPT ![c] = "error"]
  /\ UNCHANGED heard

AtTop(c) ==
  /\ \/ at[c] = "awake" /\ UNCHANGED <<read_status, heard>>
     \/ ReadOk(c)
     \/ ReadFails(c)
  /\ UNCHANGED <<effectVars, active_outputs, threadVars>>

\* The thread goes to point p, having looked at the effects.
Goes(c, p) == at' = [at EXCEPT ![c] = p] /\ moved' = FALSE

\* Mutant: the thread leaves its session open.
ExitThreadCapturing(c) ==
  /\ AtTop(c)
  /\ exit_thread
  /\ UNCHANGED capture_enabled
  /\ Goes(c, "exited")

ExitThread(c) ==
  /\ AtTop(c)
  /\ exit_thread
  /\ capture_enabled' = capture_enabled \ {c}
  /\ Goes(c, "exited")

CaptureStarts(c) ==
  /\ AtTop(c)
  /\ ~exit_thread /\ EffectsEnabled /\ c \notin capture_enabled
  /\ capture_enabled' = capture_enabled \cup {c}
  /\ Goes(c, "reading")

\* Open, set_buffer_size or start fails; what was opened is closed.
CaptureRefused(c) ==
  /\ AtTop(c)
  /\ ~exit_thread /\ EffectsEnabled /\ c \notin capture_enabled
  /\ UNCHANGED capture_enabled
  /\ Goes(c, "waitFailed")

CaptureGoesOn(c) ==
  /\ AtTop(c)
  /\ ~exit_thread /\ EffectsEnabled /\ c \in capture_enabled
  /\ UNCHANGED capture_enabled
  /\ Goes(c, "reading")

CaptureStops(c) ==
  /\ AtTop(c)
  /\ ~exit_thread /\ ~EffectsEnabled
  /\ capture_enabled' = capture_enabled \ {c}
  /\ Goes(c, "waitIdle")

Loop(c) ==
  \/ ExitThread(c) \/ CaptureStarts(c) \/ CaptureRefused(c)
  \/ CaptureGoesOn(c) \/ CaptureStops(c)

-----------------------------------------------------------------------------
Next ==
  \/ \E o \in Outputs : StartOutput(o) \/ StopOutput(o) \/ StopOutputJoined(o)
  \/ \E e \in Effects : Release(e) \/ Enable(e) \/ Disable(e) \/ Reset(e)
  \/ \E e \in Effects, o \in Outputs : Create(e, o) \/ Offload(e, o)
  \/ \E c \in CaptureThreads : SpuriousWakeup(c) \/ Loop(c)

Spec == Init /\ [][Next]_vars

\* The capture thread is scheduled, and PAL answers a read, with data or with
\* an error; a join returns when its thread has ended.
Fairness ==
  /\ \A c \in CaptureThreads : WF_vars(Loop(c))
  /\ \A o \in Outputs : WF_vars(StopOutputJoined(o))

FairSpec == Spec /\ Fairness

-----------------------------------------------------------------------------
(* Properties.                                                             *)

\* Every variable has its type.
TypeOK ==
  /\ state \in [Effects -> {"none", "INITIALIZED", "ACTIVE"}]
  /\ out_handle \in [Effects -> Outputs]
  /\ active_outputs \subseteq Outputs
  /\ effects_list \in [Outputs -> SUBSET Effects]
  /\ exit_thread \in BOOLEAN
  /\ thread_status \in {"none", "ok", "failed"}
  /\ capture_thread \in CaptureThreads \cup {NoThread}
  /\ stopping \subseteq Outputs
  /\ at \in [CaptureThreads -> Points]
  /\ capture_enabled \subseteq CaptureThreads
  /\ read_status \in [CaptureThreads -> {"none", "data", "error"}]
  /\ heard \subseteq Effects
  /\ moved \in BOOLEAN

\* There is one capture thread at most, the one capture_thread names, and one
\* while an output is active unless it could not be created: a start that
\* comes while the last stop joins its thread does not make a second one.
OneCaptureThread ==
  /\ \A c \in CaptureThreads : at[c] # "none" => c = capture_thread /\ thread_status = "ok"
  /\ \A c \in CaptureThreads : Live(c) => active_outputs # {} \/ stopping # {}
  /\ thread_status = "ok" /\ active_outputs # {} => Live(capture_thread)

\* The proxy port is held only by a living thread, for an effect that was
\* enabled when it last looked, and never when the last output has stopped.
CaptureReleased ==
  \A c \in capture_enabled : at[c] = "reading" /\ (active_outputs # {} \/ stopping # {})

\* One thread captures, and the session is given back by the thread that opened it.
CaptureOwned == OneCaptureThread /\ CaptureReleased

\* No wake-up is lost: the thread does not sleep over a request to exit, nor
\* with an effect enabled on an active output, except after a PAL error and
\* when an enabled effect has been moved there (EFFECT_CMD_OFFLOAD).
NoLostWakeup ==
  \A c \in CaptureThreads :
    /\ at[c] \in Waits => ~exit_thread
    /\ at[c] = "waitIdle" => moved \/ ~EffectsEnabled

\* The capture thread meets no released effect and misses none: the list of an
\* active output holds exactly the existing effects with its handle.
ListsAgree ==
  \A o \in active_outputs :
    effects_list[o] = {e \in Effects : Exists(e) /\ out_handle[e] = o}

\* visualizer_hal_stop_output returns: the thread it joins comes to its end.
StopReturns ==
  \A o \in Outputs : o \in stopping ~> o \notin stopping

\* An effect that stays enabled on an active output gets captured data, unless
\* PAL refuses the session or a read, the thread could not be created, or the
\* effect was moved there.
EnabledIsHeard ==
  \A e \in Effects :
    Captured(e) ~> \/ ~Captured(e) \/ e \in heard \/ moved
                   \/ thread_status = "failed"
                   \/ \E c \in CaptureThreads : at[c] = "waitFailed" \/ read_status[c] = "error"
==============================================================================
