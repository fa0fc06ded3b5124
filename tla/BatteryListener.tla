---------------------------- MODULE BatteryListener ----------------------------
(***************************************************************************)
(* The battery listener, hal/audio_extn/battery_listener.cpp, and what     *)
(* AudioDevice does with it: the HAL's thread in AudioDevice::Init and in  *)
(* the destructor, the binder thread that is told of the death of the      *)
(* health service, the one that brings its events, and the listener thread *)
(* that passes a change of the charging state on to PAL.                   *)
(*                                                                         *)
(* The file holds two versions; QTI_HEALTH selects the first.  They differ *)
(* in serviceDied and in the destructor.                                   *)
(***************************************************************************)
CONSTANT Builds  \* the versions: TRUE with QTI_HEALTH, FALSE without

ASSUME BuildsAssumption == Builds \subseteq BOOLEAN

VARIABLES
  qti,           \* the version
  service,       \* the health service is there
  mHealth,       \* "null", the "live" service, or a proxy of a "dead" one
  linked,        \* registered with the live service, and linked to its death
  obituary,      \* its death is on the way to serviceDied
  mStatus,
  mDone,
  mLock,         \* held across steps only by serviceDied: "none" or "death"
  main,          \* where the HAL's thread is
  saw,           \* what isCharging returned to it
  death,         \* where serviceDied is
  thread,        \* where mThread is; "none" for null, "joined" when not joinable
  local_status,
  charging,      \* the charging state PAL was last told
  unseen,        \* history: a change came before the listener could see it
  absent,        \* history: init has failed
  overlap        \* history: the listener was reset with a death or an event still to handle

healthVars == <<service, mHealth, linked, obituary>>
listenerVars == <<mStatus, mDone, mLock>>
historyVars == <<unseen, absent, overlap>>
vars == <<qti, healthVars, listenerVars, main, saw, death, thread, local_status, charging, historyVars>>

\* FULL is CHARGING for statusToBool and DISCHARGING stands for the others.
Statuses == {"UNKNOWN", "CHARGING", "DISCHARGING", "NOT_CHARGING"}
IsCharging(s) == s = "CHARGING"

Init ==
  /\ qti \in Builds
  /\ service \in BOOLEAN
  /\ mHealth = "null"
  /\ linked = FALSE /\ obituary = FALSE
  /\ mStatus \in Statuses   \* not initialised
  /\ mDone = FALSE
  /\ mLock = "none"
  /\ main = "init" /\ saw = FALSE
  /\ death = "idle"
  /\ thread = "none" /\ local_status = "UNKNOWN"
  /\ charging = FALSE
  /\ unseen = FALSE /\ absent = FALSE /\ overlap = FALSE

Free == mLock = "none"

\* mCond.notify_one, when the thread waits without a time limit.
Notified(t) == IF t = "wait" THEN "woken" ELSE t

-----------------------------------------------------------------------------
(* The health service.                                                     *)

ServiceDies ==
  /\ service
  /\ service' = FALSE
  /\ mHealth' = IF mHealth = "live" THEN "dead" ELSE mHealth
  /\ obituary' = (obituary \/ linked)
  /\ linked' = FALSE
  /\ UNCHANGED <<qti, listenerVars, main, saw, death, thread, local_status, charging, historyVars>>

ServiceReturns ==
  /\ ~service
  /\ service' = TRUE
  /\ UNCHANGED <<qti, mHealth, linked, obituary, listenerVars, main, saw, death, thread,
                 local_status, charging, historyVars>>

\* Mutant: healthInfoChanged without notify_one.
HealthInfoQuietlyChanged(s) ==
  /\ linked \/ (main = "destroy" /\ mHealth # "null")
  /\ Free
  /\ s # mStatus
  /\ mStatus' = s
  /\ thread' = thread
  /\ unseen' = (unseen \/ main # "running" \/ thread = "entry")
  /\ overlap' = (overlap \/ main = "destroy")
  /\ UNCHANGED <<qti, healthVars, mDone, mLock, main, saw, death, local_status, charging, absent>>

\* The event is one-way: one that was sent before reset may come after it.
HealthInfoChanged(s) ==
  /\ linked \/ (main = "destroy" /\ mHealth # "null")
  /\ Free
  /\ s # mStatus
  /\ mStatus' = s
  /\ thread' = Notified(thread)
  /\ unseen' = (unseen \/ main # "running" \/ thread = "entry")
  /\ overlap' = (overlap \/ main = "destroy")
  /\ UNCHANGED <<qti, healthVars, mDone, mLock, main, saw, death, local_status, charging, absent>>

-----------------------------------------------------------------------------
(* init, run by the HAL's thread without mLock and by serviceDied with it. *)

\* p is the caller: at its point `from` it goes to `to`.
At(p, from) == IF p = "main" THEN main = from ELSE death = from
Goes(p, to) ==
  IF p = "main" THEN main' = to /\ UNCHANGED death ELSE death' = to /\ UNCHANGED main

\* After init; serviceDied gives mLock back.
Returns(p) ==
  IF p = "main" THEN main' = "ready" /\ UNCHANGED <<death, mLock>>
                ELSE death' = "idle" /\ mLock' = "none" /\ UNCHANGED main

FindService(p) ==
  /\ At(p, "init")
  /\ mHealth = "null" /\ service
  /\ mHealth' = "live"
  /\ Goes(p, "start")
  /\ UNCHANGED <<qti, service, linked, obituary, listenerVars, saw, thread, local_status,
                 charging, historyVars>>

\* INVALID_OPERATION, or no service after the last try.
InitFails(p) ==
  /\ At(p, "init")
  /\ mHealth # "null" \/ ~service
  /\ absent' = TRUE
  /\ Returns(p)
  /\ UNCHANGED <<qti, healthVars, mStatus, mDone, saw, thread, local_status, charging,
                 unseen, overlap>>

\* getChargeStatus, whose failure leaves UNKNOWN, and the new thread.
StartThread(p) ==
  /\ At(p, "start")
  /\ \E s \in Statuses :
       /\ mHealth = "dead" => s = "UNKNOWN"
       /\ mStatus' = s
  /\ mDone' = FALSE
  /\ thread' = "entry"
  /\ Goes(p, "register")
  /\ unseen' = (unseen \/ p = "death")
  /\ UNCHANGED <<qti, healthVars, mLock, saw, local_status, charging, absent, overlap>>

\* registerCallback and linkToDeath.
RegisterCallback(p) ==
  /\ At(p, "register")
  /\ linked' = (mHealth = "live")
  /\ absent' = (absent \/ mHealth = "dead")
  /\ Returns(p)
  /\ UNCHANGED <<qti, service, mHealth, obituary, mStatus, mDone, saw, thread, local_status,
                 charging, unseen, overlap>>

-----------------------------------------------------------------------------
(* AudioDevice::Init, after the listener is made, and ~AudioDevice.        *)

BatteryPropertiesIsCharging ==
  /\ main = "ready" /\ Free
  /\ saw' = IsCharging(mStatus)
  /\ main' = "set"
  /\ UNCHANGED <<qti, healthVars, listenerVars, death, thread, local_status, charging, historyVars>>

SetChargingMode ==
  /\ main = "set"
  /\ charging' = saw
  /\ main' = "running"
  /\ UNCHANGED <<qti, healthVars, listenerVars, saw, death, thread, local_status, historyVars>>

\* Mutant: reset that leaves mStatus.
ResetKeepsStatus ==
  /\ main = "running" /\ Free
  /\ linked' = FALSE
  /\ mStatus' = mStatus
  /\ mDone' = TRUE
  /\ thread' = Notified(thread)
  /\ main' = "destroy"
  /\ overlap' = (obituary \/ death # "idle")
  /\ UNCHANGED <<qti, service, mHealth, obituary, mLock, saw, death, local_status, charging,
                 unseen, absent>>

Reset ==
  /\ main = "running" /\ Free
  /\ linked' = FALSE
  /\ mStatus' = "UNKNOWN"
  /\ mDone' = TRUE
  /\ thread' = Notified(thread)
  /\ main' = "destroy"
  /\ overlap' = (obituary \/ death # "idle")
  /\ UNCHANGED <<qti, service, mHealth, obituary, mLock, saw, death, local_status, charging,
                 unseen, absent>>

\* The destructor, once serviceDied does not use the object any more.
Destroy ==
  /\ main = "destroy" /\ death = "idle"
  /\ IF qti THEN Free /\ mDone' = TRUE /\ thread' = Notified(thread)
            ELSE UNCHANGED <<mDone, thread>>
  /\ main' = IF thread \in {"none", "joined"} THEN "terminate" ELSE "join"
  /\ UNCHANGED <<qti, healthVars, mStatus, mLock, saw, death, local_status, charging, historyVars>>

Destroyed ==
  /\ main = "join" /\ thread = "exited"
  /\ thread' = "joined"
  /\ main' = "gone"
  /\ UNCHANGED <<qti, healthVars, listenerVars, saw, death, local_status, charging, historyVars>>

-----------------------------------------------------------------------------
(* serviceDied, while the listener exists.                                 *)

Told == obituary /\ death = "idle" /\ Free /\ main \notin {"join", "gone", "terminate"}

\* Mutant: serviceDied without notify_one.
ServiceDiedQuietly ==
  /\ Told
  /\ qti \/ main # "destroy"
  /\ obituary' = FALSE
  /\ mDone' = TRUE
  /\ thread' = thread
  /\ death' = "join"
  /\ UNCHANGED <<qti, service, mHealth, linked, mStatus, mLock, main, saw, local_status,
                 charging, historyVars>>

ServiceDied ==
  /\ Told
  /\ qti \/ main # "destroy"
  /\ obituary' = FALSE
  /\ mDone' = TRUE
  /\ thread' = IF qti THEN Notified(thread) ELSE thread
  /\ death' = "join"
  /\ UNCHANGED <<qti, service, mHealth, linked, mStatus, mLock, main, saw, local_status,
                 charging, historyVars>>

\* Mutant: serviceDied that joins and does not init.
ServiceDiedForGood ==
  /\ death = "join" /\ thread = "exited" /\ Free
  /\ thread' = "joined"
  /\ mLock' = mLock
  /\ mHealth' = IF qti THEN "null" ELSE mHealth
  /\ death' = "idle"
  /\ UNCHANGED <<qti, service, linked, obituary, mStatus, mDone, main, saw, local_status,
                 charging, historyVars>>

ServiceDiedJoined ==
  /\ death = "join" /\ thread = "exited" /\ Free
  /\ thread' = "joined"
  /\ mLock' = "death"
  /\ mHealth' = IF qti THEN "null" ELSE mHealth
  /\ death' = "init"
  /\ UNCHANGED <<qti, service, linked, obituary, mStatus, mDone, main, saw, local_status,
                 charging, historyVars>>

-----------------------------------------------------------------------------
(* The listener thread.  With mLock it looks at mDone and mStatus and goes *)
(* to a wait, to the 3 s wait for what follows NOT_CHARGING, to the        *)
(* callback, which runs without mLock, or to its end.                      *)

Looks(local) ==
  /\ local_status' = IF mDone THEN local ELSE mStatus
  /\ thread' = IF mDone THEN "exited"
               ELSE IF local = mStatus THEN "wait"
               ELSE IF mStatus = "NOT_CHARGING" THEN "slow"
               ELSE "callback"
  /\ UNCHANGED <<qti, healthVars, listenerVars, main, saw, death, charging, historyVars>>

ThreadStarts == thread = "entry" /\ Free /\ Looks(mStatus)
ThreadLooks == thread = "woken" /\ Free /\ Looks(local_status)
SlowChanged == thread = "slow" /\ Free /\ mStatus # local_status /\ Looks(local_status)

SlowTimeout ==
  /\ thread = "slow" /\ Free
  /\ mStatus = local_status
  /\ thread' = "callback"
  /\ UNCHANGED <<qti, healthVars, listenerVars, main, saw, death, local_status, charging, historyVars>>

SpuriousWakeup ==
  /\ thread = "wait"
  /\ thread' = "woken"
  /\ UNCHANGED <<qti, healthVars, listenerVars, main, saw, death, local_status, charging, historyVars>>

\* mCb: adev_on_battery_status_changed.
Callback ==
  /\ thread = "callback"
  /\ charging' = IsCharging(local_status)
  /\ thread' = "woken"
  /\ UNCHANGED <<qti, healthVars, listenerVars, main, saw, death, local_status, historyVars>>

-----------------------------------------------------------------------------
InitSteps(p) == FindService(p) \/ InitFails(p) \/ StartThread(p) \/ RegisterCallback(p)
ThreadSteps == ThreadStarts \/ ThreadLooks \/ SlowChanged \/ SlowTimeout \/ Callback

Next ==
  \/ ServiceDies \/ ServiceReturns
  \/ \E s \in Statuses : HealthInfoChanged(s)
  \/ \E p \in {"main", "death"} : InitSteps(p)
  \/ BatteryPropertiesIsCharging \/ SetChargingMode
  \/ Reset \/ Destroy \/ Destroyed
  \/ ServiceDied \/ ServiceDiedJoined
  \/ ThreadSteps \/ SpuriousWakeup

Spec == Init /\ [][Next]_vars

\* The threads are scheduled and the 3 s wait ends; nothing is assumed of the
\* health service, nor that the listener is ever reset.
Fairness ==
  /\ WF_vars(ThreadSteps)
  /\ WF_vars(ServiceDiedJoined)
  /\ WF_vars(InitSteps("death"))
  /\ WF_vars(Destroy) /\ WF_vars(Destroyed)

FairSpec == Spec /\ Fairness

-----------------------------------------------------------------------------
(* Properties.                                                             *)

\* When the listener thread sleeps PAL knows the last status it got from the
\* health service, through changes that come during a callback or follow
\* NOT_CHARGING at once; unless a change came before AudioDevice::Init had set the
\* first state or the thread had first looked, or the service was replaced.
PalUpToDate ==
  thread = "wait" /\ main = "running" /\ ~unseen /\ ~mDone /\ ~obituary /\ mHealth = "live" =>
    charging = IsCharging(mStatus)

\* The destructor joins a thread that is there: mThread->join() on a thread
\* that was never made, or was joined by serviceDied, ends the process.  It is
\* so once an init has failed, and no service was found or the old one is still
\* named by mHealth.
NoBadJoin == main = "terminate" => absent

\* Once the listener is reset the HAL is not called any more, except by a
\* callback that had begun, by a listener that serviceDied has set up again, or
\* for a NOT_CHARGING that was on its way.
QuietAfterReset ==
  [][~overlap /\ main \in {"destroy", "join", "gone"} /\ thread' = "callback"
       => thread = "callback"]_vars

\* With QTI_HEALTH serviceDied comes to its end: it wakes the thread it joins.
ServiceDiedReturns == qti /\ death # "idle" ~> death = "idle"

\* "health service died, reinit": what serviceDied logs, in both versions.
DiedMeansReinit == death = "join" ~> death = "init"
==============================================================================
