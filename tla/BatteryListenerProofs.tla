------------------------- MODULE BatteryListenerProofs -------------------------
(* BatteryListener, both versions, with no bound on what the service does. *)
EXTENDS BatteryListener, TLAPS

Mains == {"init", "start", "register", "ready", "set", "running", "destroy", "join", "gone",
          "terminate"}
Deaths == {"idle", "join", "init", "start", "register"}
Threads == {"none", "entry", "wait", "woken", "slow", "callback", "exited", "joined"}

TypeOK == main \in Mains /\ death \in Deaths /\ thread \in Threads

\* Until the HAL's thread has started the listener there is no thread and nobody to tell.
Beginning ==
  main \in {"init", "start"} => thread = "none" /\ death = "idle" /\ ~obituary /\ ~linked

\* A thread that is missing is one init has not made yet, or will not make.
ThreadMissing ==
  /\ thread = "none" => main \in {"init", "start"} \/ absent
  /\ thread = "joined" => death \in {"init", "start"} \/ main = "gone" \/ absent

\* After the reset nobody sets the listener up again and nothing is heard of the service.
ResetIsFinal ==
  ~overlap /\ main \in {"destroy", "join", "gone"} =>
    mDone /\ mStatus = "UNKNOWN" /\ death = "idle" /\ ~obituary /\ ~linked

\* The waits of the thread: it has seen the status it sleeps on.
WaitSeen ==
  /\ thread = "wait" => local_status = mStatus
  /\ thread = "slow" => local_status = "NOT_CHARGING"

\* The HAL's thread sets the status the listener thread begins with.
FirstState ==
  ~unseen =>
    /\ main = "set" => saw = IsCharging(mStatus)
    /\ main = "running" /\ thread = "entry" => charging = IsCharging(mStatus)
    /\ main \in {"register", "ready", "set"} /\ ~mDone =>
         /\ thread \notin {"slow", "callback"}
         /\ thread \in {"wait", "woken"} => local_status = mStatus

\* From then on PAL has the status the thread has, unless the thread is about to tell it.
PalFollowsThread ==
  ~unseen /\ ~mDone /\ main = "running" /\ thread \in {"wait", "woken"} =>
    charging = IsCharging(local_status)

BatteryInv ==
  TypeOK /\ Beginning /\ ThreadMissing /\ ResetIsFinal /\ WaitSeen /\ FirstState
    /\ PalFollowsThread

LEMMA InitInv == Init => BatteryInv
BY DEF Init, BatteryInv, TypeOK, Mains, Deaths, Threads, Beginning, ThreadMissing, ResetIsFinal,
       WaitSeen,
       FirstState, PalFollowsThread

-----------------------------------------------------------------------------
LEMMA ServiceInv ==
  ASSUME BatteryInv, ServiceDies \/ ServiceReturns
  PROVE  BatteryInv'
<1>1. UNCHANGED <<mStatus, mDone, main, saw, death, thread, local_status, charging, unseen, absent,
                  overlap>>
  BY DEF ServiceDies, ServiceReturns, listenerVars, historyVars
<1>2. ~linked => ~linked' /\ (obituary' <=> obituary)
  BY DEF ServiceDies, ServiceReturns
<1> QED
  BY <1>1, <1>2 DEF BatteryInv, TypeOK, Beginning, ThreadMissing, ResetIsFinal, WaitSeen,
                    FirstState,
                    PalFollowsThread

LEMMA HealthInfoInv ==
  ASSUME BatteryInv, NEW s \in Statuses, HealthInfoChanged(s)
  PROVE  BatteryInv'
<1>1. /\ linked \/ main = "destroy"
      /\ mStatus' = s /\ thread' = Notified(thread)
      /\ unseen' = (unseen \/ main # "running" \/ thread = "entry")
      /\ overlap' = (overlap \/ main = "destroy")
      /\ UNCHANGED <<linked, obituary, mDone, main, saw, death, local_status, charging, absent>>
  BY DEF HealthInfoChanged, healthVars
<1>2. /\ thread' # "wait" /\ thread' \in Threads
      /\ (thread' = "woken" => thread \in {"wait", "woken"})
      /\ \A t \in Threads \ {"wait", "woken"} : thread' = t <=> thread = t
  BY <1>1 DEF BatteryInv, TypeOK, Threads, Notified
<1>3. TypeOK' /\ Beginning' /\ ThreadMissing'
  BY <1>1, <1>2 DEF BatteryInv, TypeOK, Beginning, ThreadMissing, Threads
<1>4. ResetIsFinal' /\ WaitSeen'
  BY <1>1, <1>2 DEF BatteryInv, ResetIsFinal, WaitSeen, Threads
<1>5. FirstState' /\ PalFollowsThread'
  BY <1>1, <1>2 DEF BatteryInv, FirstState, PalFollowsThread, Threads
<1> QED
  BY <1>3, <1>4, <1>5 DEF BatteryInv

\* The HAL's thread and serviceDied run init.
LEMMA InitStepsInv ==
  ASSUME BatteryInv, NEW p \in {"main", "death"}, InitSteps(p)
  PROVE  BatteryInv'
<1>1. CASE FindService(p)
  <2>1. /\ \/ p = "main" /\ main = "init" /\ main' = "start" /\ UNCHANGED death
           \/ p = "death" /\ death = "init" /\ death' = "start" /\ UNCHANGED main
        /\ UNCHANGED <<linked, obituary, mStatus, mDone, saw, thread, local_status, charging,
                       unseen, absent, overlap>>
    BY <1>1 DEF FindService, At, Goes, listenerVars, historyVars
  <2> QED
    BY <2>1 DEF BatteryInv, TypeOK, Mains, Deaths, Beginning, ThreadMissing, ResetIsFinal,
                WaitSeen,
                FirstState, PalFollowsThread
<1>2. CASE InitFails(p)
  <2>1. /\ \/ p = "main" /\ main = "init" /\ main' = "ready" /\ UNCHANGED death
           \/ p = "death" /\ death = "init" /\ death' = "idle" /\ UNCHANGED main
        /\ absent'
        /\ UNCHANGED <<linked, obituary, mStatus, mDone, saw, thread, local_status, charging,
                       unseen, overlap>>
    BY <1>2 DEF InitFails, At, Returns, healthVars
  <2> QED
    BY <2>1 DEF BatteryInv, TypeOK, Mains, Deaths, Beginning, ThreadMissing, ResetIsFinal,
                WaitSeen,
                FirstState, PalFollowsThread
<1>3. CASE StartThread(p)
  <2>1. /\ \/ p = "main" /\ main = "start" /\ main' = "register" /\ UNCHANGED death
              /\ (unseen' <=> unseen)
           \/ p = "death" /\ death = "start" /\ death' = "register" /\ unseen' /\ UNCHANGED main
        /\ thread' = "entry"
        /\ UNCHANGED <<linked, obituary, saw, local_status, charging, absent, overlap>>
    <3>1. CASE p = "main"
      BY <1>3, <3>1 DEF StartThread, At, Goes, healthVars
    <3>2. CASE p = "death"
      BY <1>3, <3>2 DEF StartThread, At, Goes, healthVars
    <3> QED
      BY <3>1, <3>2
  <2> QED
    BY <2>1 DEF BatteryInv, TypeOK, Mains, Deaths, Threads, Beginning, ThreadMissing,
                ResetIsFinal, WaitSeen,
                FirstState, PalFollowsThread
<1>4. CASE RegisterCallback(p)
  <2>1. /\ \/ p = "main" /\ main = "register" /\ main' = "ready" /\ UNCHANGED death
           \/ p = "death" /\ death = "register" /\ death' = "idle" /\ UNCHANGED main
        /\ absent => absent'
        /\ UNCHANGED <<obituary, mStatus, mDone, saw, thread, local_status, charging, unseen,
                       overlap>>
    BY <1>4 DEF RegisterCallback, At, Returns
  <2> QED
    BY <2>1 DEF BatteryInv, TypeOK, Mains, Deaths, Beginning, ThreadMissing, ResetIsFinal,
                WaitSeen,
                FirstState, PalFollowsThread
<1> QED
  BY <1>1, <1>2, <1>3, <1>4 DEF InitSteps

LEMMA DeviceInv ==
  ASSUME BatteryInv, BatteryPropertiesIsCharging \/ SetChargingMode
  PROVE  BatteryInv'
<1>1. CASE BatteryPropertiesIsCharging
  <2>1. /\ main = "ready" /\ main' = "set" /\ saw' = IsCharging(mStatus)
        /\ UNCHANGED <<linked, obituary, mStatus, mDone, death, thread, local_status, charging,
                       unseen, absent, overlap>>
    BY <1>1 DEF BatteryPropertiesIsCharging, healthVars, listenerVars, historyVars
  <2>2. TypeOK' /\ Beginning' /\ ThreadMissing' /\ ResetIsFinal' /\ WaitSeen'
    BY <2>1 DEF BatteryInv, TypeOK, Mains, Beginning, ThreadMissing, ResetIsFinal, WaitSeen
  <2>3. IsCharging(mStatus)' = IsCharging(mStatus)
    BY <2>1 DEF IsCharging
  <2>4. FirstState' /\ PalFollowsThread'
    BY <2>1, <2>3 DEF BatteryInv, FirstState, PalFollowsThread
  <2> QED
    BY <2>2, <2>4 DEF BatteryInv
<1>2. CASE SetChargingMode
  <2>1. /\ main = "set" /\ main' = "running" /\ charging' = saw
        /\ UNCHANGED <<linked, obituary, mStatus, mDone, saw, death, thread, local_status,
                       unseen, absent, overlap>>
    BY <1>2 DEF SetChargingMode, healthVars, listenerVars, historyVars
  <2>2. TypeOK' /\ Beginning' /\ ThreadMissing' /\ ResetIsFinal' /\ WaitSeen'
    BY <2>1 DEF BatteryInv, TypeOK, Mains, Beginning, ThreadMissing, ResetIsFinal, WaitSeen
  <2>3. ~unseen => charging' = IsCharging(mStatus)'
    BY <2>1 DEF BatteryInv, FirstState, IsCharging
  <2>4. ~unseen /\ ~mDone /\ thread \in {"wait", "woken"} => local_status' = mStatus'
    BY <2>1 DEF BatteryInv, FirstState
  <2>5. FirstState' /\ PalFollowsThread'
    BY <2>1, <2>3, <2>4 DEF FirstState, PalFollowsThread, IsCharging
  <2> QED
    BY <2>2, <2>5 DEF BatteryInv
<1> QED
  BY <1>1, <1>2

LEMMA ResetInv ==
  ASSUME BatteryInv, Reset
  PROVE  BatteryInv'
<1>1. /\ ~linked' /\ mStatus' = "UNKNOWN" /\ mDone' /\ thread' = Notified(thread)
      /\ main' = "destroy" /\ overlap' = (obituary \/ death # "idle")
      /\ UNCHANGED <<obituary, saw, death, local_status, charging, unseen, absent>>
      /\ main = "running"
  BY DEF Reset
<1>2. /\ thread' # "wait" /\ thread' \in Threads
      /\ \A t \in Threads \ {"wait", "woken"} : thread' = t <=> thread = t
  BY <1>1 DEF BatteryInv, TypeOK, Threads, Notified
<1> QED
  BY <1>1, <1>2 DEF BatteryInv, TypeOK, Mains, Threads, Beginning, ThreadMissing, ResetIsFinal,
                    WaitSeen,
                    FirstState, PalFollowsThread

LEMMA DestroyInv ==
  ASSUME BatteryInv, Destroy \/ Destroyed
  PROVE  BatteryInv'
<1>1. CASE Destroy
  <2>1. /\ main = "destroy" /\ main' \in {"terminate", "join"}
        /\ mDone => mDone'
        /\ thread' \in {thread, Notified(thread)}
        /\ UNCHANGED <<linked, obituary, mStatus, saw, death, local_status, charging, unseen,
                       absent, overlap>>
    BY <1>1 DEF Destroy, healthVars, historyVars
  <2>2. /\ thread' \in Threads /\ (thread' = "wait" => thread = "wait")
        /\ \A t \in Threads \ {"wait", "woken"} : thread' = t <=> thread = t
    BY <2>1 DEF BatteryInv, TypeOK, Threads, Notified
  <2> QED
    BY <2>1, <2>2 DEF BatteryInv, TypeOK, Mains, Threads, Beginning, ThreadMissing,
                      ResetIsFinal, WaitSeen,
                      FirstState, PalFollowsThread
<1>2. CASE Destroyed
  <2>1. /\ main = "join" /\ main' = "gone" /\ thread' = "joined"
        /\ UNCHANGED <<linked, obituary, mStatus, mDone, saw, death, local_status, charging,
                       unseen, absent, overlap>>
    BY <1>2 DEF Destroyed, healthVars, listenerVars, historyVars
  <2> QED
    BY <2>1 DEF BatteryInv, TypeOK, Mains, Threads, Beginning, ThreadMissing, ResetIsFinal,
                WaitSeen,
                FirstState, PalFollowsThread
<1> QED
  BY <1>1, <1>2

LEMMA ServiceDiedInv ==
  ASSUME BatteryInv, ServiceDied \/ ServiceDiedJoined
  PROVE  BatteryInv'
<1>1. CASE ServiceDied
  <2>1. /\ obituary /\ mDone' /\ death' = "join" /\ thread' \in {thread, Notified(thread)}
        /\ UNCHANGED <<linked, mStatus, main, saw, local_status, charging, unseen, absent, overlap>>
        /\ death = "idle"
    BY <1>1 DEF ServiceDied, Told, historyVars
  <2>2. /\ thread' \in Threads /\ (thread' = "wait" => thread = "wait")
        /\ \A t \in Threads \ {"wait", "woken"} : thread' = t <=> thread = t
    BY <2>1 DEF BatteryInv, TypeOK, Threads, Notified
  <2> QED
    BY <2>1, <2>2 DEF BatteryInv, TypeOK, Deaths, Threads, Beginning, ThreadMissing,
                      ResetIsFinal, WaitSeen,
                      FirstState, PalFollowsThread
<1>2. CASE ServiceDiedJoined
  <2>1. /\ death = "join" /\ death' = "init" /\ thread' = "joined"
        /\ UNCHANGED <<linked, obituary, mStatus, mDone, main, saw, local_status, charging,
                       unseen, absent, overlap>>
    BY <1>2 DEF ServiceDiedJoined, historyVars
  <2> QED
    BY <2>1 DEF BatteryInv, TypeOK, Deaths, Threads, Beginning, ThreadMissing, ResetIsFinal,
                WaitSeen,
                FirstState, PalFollowsThread
<1> QED
  BY <1>1, <1>2

-----------------------------------------------------------------------------
\* Where a look at mDone and mStatus takes the thread.
LEMMA LooksTo ==
  ASSUME NEW local, Looks(local)
  PROVE  /\ UNCHANGED <<linked, obituary, mStatus, mDone, main, saw, death, charging, unseen,
                        absent, overlap>>
         /\ \/ mDone /\ thread' = "exited"
            \/ /\ ~mDone /\ local_status' = mStatus
               /\ \/ local = mStatus /\ thread' = "wait"
                  \/ local # mStatus /\ mStatus = "NOT_CHARGING" /\ thread' = "slow"
                  \/ local # mStatus /\ thread' = "callback"
BY DEF Looks, healthVars, listenerVars, historyVars

LEMMA ThreadLooksInv ==
  ASSUME BatteryInv, ThreadStarts \/ ThreadLooks \/ SlowChanged
  PROVE  BatteryInv'
<1>1. \/ thread = "entry" /\ Looks(mStatus)
      \/ thread = "woken" /\ Looks(local_status)
      \/ thread = "slow" /\ mStatus # local_status /\ Looks(local_status)
  BY DEF ThreadStarts, ThreadLooks, SlowChanged
<1>2. UNCHANGED <<linked, obituary, mStatus, mDone, main, saw, death, charging, unseen, absent,
                  overlap>>
  BY <1>1, LooksTo
<1>3. thread' \in {"exited", "wait", "slow", "callback"}
  BY <1>1, LooksTo
<1>4. TypeOK' /\ Beginning' /\ ThreadMissing' /\ ResetIsFinal'
  BY <1>1, <1>2, <1>3 DEF BatteryInv, TypeOK, Threads, Beginning, ThreadMissing, ResetIsFinal
<1>5. WaitSeen'
  BY <1>1, <1>2, LooksTo DEF WaitSeen
<1>6. FirstState'
  BY <1>1, <1>2, LooksTo DEF BatteryInv, FirstState, IsCharging
<1>7. PalFollowsThread'
  BY <1>1, <1>2, LooksTo DEF BatteryInv, FirstState, PalFollowsThread
<1> QED
  BY <1>4, <1>5, <1>6, <1>7 DEF BatteryInv

LEMMA ThreadMovesInv ==
  ASSUME BatteryInv, SlowTimeout \/ SpuriousWakeup \/ Callback
  PROVE  BatteryInv'
<1>1. UNCHANGED <<linked, obituary, mStatus, mDone, main, saw, death, local_status, unseen, absent,
                  overlap>>
  BY DEF SlowTimeout, SpuriousWakeup, Callback, healthVars, listenerVars, historyVars
<1>2. \/ thread = "slow" /\ thread' = "callback" /\ UNCHANGED charging
      \/ thread = "wait" /\ thread' = "woken" /\ UNCHANGED charging
      \/ thread = "callback" /\ thread' = "woken" /\ charging' = IsCharging(local_status)
  BY DEF SlowTimeout, SpuriousWakeup, Callback
<1>3. /\ IsCharging(mStatus)' = IsCharging(mStatus)
      /\ IsCharging(local_status)' = IsCharging(local_status)
  BY <1>1 DEF IsCharging
<1> QED
  BY <1>1, <1>2, <1>3 DEF BatteryInv, TypeOK, Threads, Beginning, ThreadMissing, ResetIsFinal,
                          WaitSeen,
                          FirstState, PalFollowsThread

LEMMA NextInv == BatteryInv /\ [Next]_vars => BatteryInv'
<1> SUFFICES ASSUME BatteryInv, [Next]_vars PROVE BatteryInv'
  OBVIOUS
<1>1. ASSUME UNCHANGED vars PROVE BatteryInv'
  BY <1>1 DEF vars, healthVars, listenerVars, historyVars, BatteryInv, TypeOK, Beginning,
              ThreadMissing,
              ResetIsFinal, WaitSeen, FirstState, PalFollowsThread, IsCharging
<1> QED
  BY <1>1, ServiceInv, HealthInfoInv, InitStepsInv, DeviceInv, ResetInv, DestroyInv,
     ServiceDiedInv, ThreadLooksInv, ThreadMovesInv DEF Next, ThreadSteps

LEMMA InvariantHolds == Spec => []BatteryInv
BY InitInv, NextInv, PTL DEF Spec

\* However changes of the status fall between a look, a wait and the callback, PAL has the
\* last one when the thread sleeps (battery_listener.cpp:186-221).
THEOREM PalIsUpToDate == Spec => []PalUpToDate
<1>1. BatteryInv => PalUpToDate
  BY DEF BatteryInv, PalUpToDate, WaitSeen, PalFollowsThread, IsCharging
<1> QED
  BY <1>1, InvariantHolds, PTL

\* The destructor never joins a thread that is not there, unless an init has failed
\* (battery_listener.cpp:251-261, 282-317).
THEOREM JoinsAreGood == Spec => []NoBadJoin
<1> DEFINE Inv == BatteryInv /\ NoBadJoin
<1>1. Init => Inv
  BY InitInv DEF Init, NoBadJoin
<1>2. Inv /\ [Next]_vars => Inv'
  <2> SUFFICES ASSUME BatteryInv, NoBadJoin, [Next]_vars, main' = "terminate" PROVE absent'
    BY NextInv DEF NoBadJoin
  <2>1. CASE Destroy
    BY <2>1 DEF Destroy, historyVars, BatteryInv, ThreadMissing
  <2>2. CASE UNCHANGED vars
    BY <2>2 DEF vars, historyVars, NoBadJoin
  <2>3. ASSUME NEW p \in {"main", "death"}, InitSteps(p)
        PROVE  main = "terminate" /\ (absent => absent')
    <3>1. absent => absent'
      BY <2>3 DEF InitSteps, FindService, InitFails, StartThread, RegisterCallback, historyVars
    <3>2. CASE p = "main"
      BY <2>3, <3>2 DEF InitSteps, FindService, InitFails, StartThread, RegisterCallback, At,
                        Goes, Returns
    <3>3. CASE p = "death"
      BY <2>3, <3>1, <3>3 DEF InitSteps, FindService, InitFails, StartThread, RegisterCallback,
                              At, Goes, Returns
    <3> QED
      BY <3>2, <3>3
  <2>4. ASSUME \E s \in Statuses : HealthInfoChanged(s)
        PROVE  main = "terminate" /\ UNCHANGED absent
    BY <2>4 DEF HealthInfoChanged
  <2>5. CASE ServiceDies \/ ServiceReturns \/ ServiceDied \/ ServiceDiedJoined
    BY <2>5 DEF ServiceDies, ServiceReturns, ServiceDied, ServiceDiedJoined, historyVars,
                NoBadJoin
  <2>6. CASE BatteryPropertiesIsCharging \/ SetChargingMode \/ Reset \/ Destroyed
    BY <2>6 DEF BatteryPropertiesIsCharging, SetChargingMode, Reset, Destroyed
  <2>7. CASE ThreadSteps \/ SpuriousWakeup
    BY <2>7 DEF ThreadSteps, ThreadStarts, ThreadLooks, SlowChanged, SlowTimeout, Callback,
                SpuriousWakeup, Looks, historyVars, NoBadJoin
  <2> QED
    BY <2>1, <2>2, <2>3, <2>4, <2>5, <2>6, <2>7 DEF Next, NoBadJoin
<1> QED
  BY <1>1, <1>2, PTL DEF Spec

\* A listener that was reset does not call the HAL again (battery_listener.cpp:263-280).
THEOREM ResetIsQuiet == Spec => QuietAfterReset
<1>1. BatteryInv /\ [Next]_vars =>
        [~overlap /\ main \in {"destroy", "join", "gone"} /\ thread' = "callback"
           => thread = "callback"]_vars
  <2> SUFFICES ASSUME BatteryInv, Next, ~overlap, main \in {"destroy", "join", "gone"},
                      thread' = "callback"
               PROVE  thread = "callback"
    OBVIOUS
  <2>1. mDone /\ mStatus = "UNKNOWN" /\ death = "idle"
    BY DEF BatteryInv, ResetIsFinal
  <2>2. \A local : Looks(local) => thread' = "exited"
    BY <2>1 DEF Looks
  <2>3. ~ThreadStarts /\ ~ThreadLooks /\ ~SlowChanged
    BY <2>2 DEF ThreadStarts, ThreadLooks, SlowChanged
  <2>4. ~SlowTimeout
    BY <2>1 DEF SlowTimeout, BatteryInv, WaitSeen
  <2>5. Notified(thread) = "callback" => thread = "callback"
    BY DEF Notified
  <2> QED
    BY <2>3, <2>4, <2>5 DEF Next, ServiceDies, ServiceReturns, HealthInfoChanged, InitSteps,
       FindService, InitFails, StartThread, RegisterCallback, BatteryPropertiesIsCharging,
       SetChargingMode, Reset, Destroy, Destroyed, ServiceDied, ServiceDiedJoined, ThreadSteps,
       Callback, SpuriousWakeup
<1> QED
  BY <1>1, InvariantHolds, PTL DEF Spec, QuietAfterReset
================================================================================
