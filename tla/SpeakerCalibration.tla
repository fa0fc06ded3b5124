-------------------------- MODULE SpeakerCalibration --------------------------
(***************************************************************************)
(* hal/fsm_cali_ar/fsalgo_calib.c: the factory calibration of the smart    *)
(* amplifiers, and the two keys of audio_extn/AudioExtn.cpp that start it  *)
(* ("mmitest" with "spk_calibrate") and ask for its result.                *)
(*                                                                         *)
(* Every start makes a detached thread, do_spkcal, which measures the      *)
(* resistance Re and then the resonance F0 under g_fsmLock and keeps both  *)
(* in globals; nothing stops a second start while one runs.  The result is *)
(* handed over in cali_data, which the threads and the client change       *)
(* without a lock.                                                         *)
(*                                                                         *)
(* A measurement stands for the values of the four speakers: "zero" (none  *)
(* yet, or not stored), "good" (all in range) or "bad".  The file holds    *)
(* one, or is "lost": it was opened anew and the disk did not take what    *)
(* fclose flushed, which the code does not look at.                        *)
(***************************************************************************)
EXTENDS Naturals, FiniteSets

CONSTANT CaliThreads, NoThread
ASSUME NoThreadAssumption == NoThread \notin CaliThreads

VARIABLES
  cali_pc,      \* of each thread: where it is in do_spkcal
  measuring,    \* of each thread: "Re" or "F0"
  live,         \* of each thread: live_data, the resistance it measured
  measured,     \* the globals Re and F0
  cali_data,    \* calib_status, and the results for the client
  stored,       \* what FS_CALI_BIN_PATH holds
  fsm_lock,     \* the holder of g_fsmLock
  amp,          \* the amplifiers: the DAC port switches and the calibration mode
  refused,      \* history: a control that restores the amplifiers failed, and nobody repeats it
  overlapped    \* history: calibrations ran at the same time

caliThread == <<cali_pc, measuring, live>>
caliResults == <<measured, cali_data, stored>>
caliVars == <<caliThread, caliResults, fsm_lock, amp, refused, overlapped>>

Values == {"zero", "good", "bad"}
NoResult == [calib_status |-> "NOTIN", Re |-> "zero", F0 |-> "zero"]
Running == {c \in CaliThreads : cali_pc[c] # "idle"}

CaliInit ==
  /\ cali_pc = [c \in CaliThreads |-> "idle"]
  /\ measuring = [c \in CaliThreads |-> "Re"]
  /\ live = [c \in CaliThreads |-> "zero"]
  /\ measured = [Re |-> "zero", F0 |-> "zero"]
  /\ cali_data = NoResult
  /\ stored \in {"none", "good"}
  /\ fsm_lock = NoThread
  /\ amp = [dac |-> "off", calib_mode |-> FALSE]
  /\ refused = FALSE /\ overlapped = FALSE

GoesTo(c, from, to) == cali_pc[c] = from /\ cali_pc' = [cali_pc EXCEPT ![c] = to]

-----------------------------------------------------------------------------
\* fs18xx_cali: the status is the thread's to change.
StartCalibration(c) ==
  /\ GoesTo(c, "idle", "created")
  /\ overlapped' = (overlapped \/ Running # {})
  /\ UNCHANGED <<measuring, live, caliResults, fsm_lock, amp, refused>>

\* do_spkcal, its start.
BeginCalibration(c) ==
  /\ GoesTo(c, "created", "lock")
  /\ measuring' = [measuring EXCEPT ![c] = "Re"]
  /\ measured' = [Re |-> "zero", F0 |-> "zero"]
  /\ cali_data' = [NoResult EXCEPT !.calib_status = "ONGING"]
  /\ overlapped' = (Running # {c})
  /\ UNCHANGED <<live, stored, fsm_lock, amp, refused>>

\* fsm_algo_force_calib that ends because a mixer does not open: the one it works with, or
\* the one fsm_tmixer_ctl_set opens for a DAC switch, when the switches before stay on.
ForceCalibFails(c) ==
  /\ GoesTo(c, "lock", "measured")
  /\ fsm_lock = NoThread
  /\ \/ UNCHANGED <<amp, refused>>
     \/ amp' = [amp EXCEPT !.dac = "some"] /\ refused' = TRUE
  /\ UNCHANGED <<measuring, live, caliResults, fsm_lock, overlapped>>

\* fsm_algo_force_calib: g_fsmLock, the mixer, the DAC switches, the play and capture threads.
\* A switch that is refused stays off and stops nothing: fsm_tmixer_ctl_set ignores it.
ForceCalib(c) ==
  /\ GoesTo(c, "lock", IF measuring[c] = "Re" THEN "set_mode" ELSE "measure")
  /\ fsm_lock = NoThread
  /\ fsm_lock' = c
  /\ \E dac \in {amp.dac, "some", "on"} : amp' = [amp EXCEPT !.dac = dac]
  /\ UNCHANGED <<measuring, live, caliResults, refused, overlapped>>

\* frsm_set_calib_mode(true): it may have changed some amplifiers when it fails.
SetCalibMode(c) ==
  /\ GoesTo(c, "set_mode", "measure")
  /\ amp' = [amp EXCEPT !.calib_mode = TRUE]
  /\ UNCHANGED <<measuring, live, caliResults, fsm_lock, refused, overlapped>>

\* Mutant: the failure skips the step that leaves the mode.
SetCalibModeGoesToExit(c) ==
  /\ GoesTo(c, "set_mode", "exit")
  /\ amp' \in {amp, [amp EXCEPT !.calib_mode = TRUE]}
  /\ UNCHANGED <<measuring, live, caliResults, fsm_lock, refused, overlapped>>

SetCalibModeFails(c) ==
  /\ GoesTo(c, "set_mode", "exit_mode")
  /\ amp' \in {amp, [amp EXCEPT !.calib_mode = TRUE]}
  /\ UNCHANGED <<measuring, live, caliResults, fsm_lock, refused, overlapped>>

\* The values of the first device that answers, kept in live_data and in the global.  When
\* none answers live_data is read uninitialised, and any value comes out.
Measure(c) ==
  /\ GoesTo(c, "measure", IF measuring[c] = "Re" THEN "store" ELSE "exit")
  /\ \E v \in {"good", "bad"} :
       /\ measured' = [measured EXCEPT ![measuring[c]] = v]
       /\ live' = IF measuring[c] = "Re" THEN [live EXCEPT ![c] = v] ELSE live
  /\ UNCHANGED <<measuring, cali_data, stored, fsm_lock, amp, refused, overlapped>>

\* Mutant: the result of a file that does not open is kept.
StoreKeepsResult(c) ==
  /\ GoesTo(c, "store", "exit_mode")
  /\ stored' \in {live[c], "lost", stored}
  /\ UNCHANGED <<measuring, live, measured, cali_data, fsm_lock, amp, refused, overlapped>>

\* fsm_default_fwrite of live_data.  A file that does not open stays as it was, and the
\* global is cleared.  In one that opens, its few bytes stay in the buffer, so that fwrite
\* succeeds, and fclose's result is ignored: the result is kept, also when the disk is full.
Store(c) ==
  /\ GoesTo(c, "store", "exit_mode")
  /\ \/ stored' \in {live[c], "lost"} /\ UNCHANGED measured
     \/ measured' = [measured EXCEPT !.Re = "zero"] /\ UNCHANGED stored
  /\ UNCHANGED <<measuring, live, cali_data, fsm_lock, amp, refused, overlapped>>

\* frsm_set_calib_mode(false), whose result nobody looks at.
LeaveCalibMode(c) ==
  /\ GoesTo(c, "exit_mode", "exit")
  /\ \/ amp' = [amp EXCEPT !.calib_mode = FALSE] /\ UNCHANGED refused
     \/ UNCHANGED amp /\ refused' = TRUE
  /\ UNCHANGED <<measuring, live, caliResults, fsm_lock, overlapped>>

\* The end of fsm_algo_force_calib: the DAC switches, the threads' flags, the lock.
ExitForceCalib(c) ==
  /\ GoesTo(c, "exit", "measured")
  /\ \/ amp' = [amp EXCEPT !.dac = "off"] /\ UNCHANGED refused
     \/ amp' = [amp EXCEPT !.dac = "some"] /\ refused' = TRUE
  /\ fsm_lock' = NoThread
  /\ UNCHANGED <<measuring, live, caliResults, overlapped>>

\* do_spkcal copies what the globals hold now, and goes on to F0 or to the check.
CopyResult(c) ==
  /\ GoesTo(c, "measured", IF measuring[c] = "Re" THEN "lock" ELSE "check")
  /\ measuring' = [measuring EXCEPT ![c] = "F0"]
  /\ cali_data' = [cali_data EXCEPT ![measuring[c]] = measured[measuring[c]]]
  /\ UNCHANGED <<live, measured, stored, fsm_lock, amp, refused, overlapped>>

\* checkCalibValue, and the end of the thread.
CheckCalibration(c) ==
  /\ GoesTo(c, "check", "idle")
  /\ cali_data' = [cali_data EXCEPT !.calib_status =
       IF measured = [Re |-> "good", F0 |-> "good"] THEN "OK" ELSE "ERROR"]
  /\ UNCHANGED <<measuring, live, measured, stored, fsm_lock, amp, refused, overlapped>>

\* audio_extn_get_parameters("mmitest") answers once: a result is cleared with its answer.
AskResult ==
  /\ cali_data.calib_status \in {"OK", "ERROR"}
  /\ cali_data' = NoResult
  /\ UNCHANGED <<caliThread, measured, stored, fsm_lock, amp, refused, overlapped>>

CaliNext ==
  \/ \E c \in CaliThreads :
       \/ StartCalibration(c) \/ BeginCalibration(c)
       \/ ForceCalib(c) \/ ForceCalibFails(c)
       \/ SetCalibMode(c) \/ SetCalibModeFails(c)
       \/ Measure(c) \/ Store(c) \/ LeaveCalibMode(c) \/ ExitForceCalib(c)
       \/ CopyResult(c) \/ CheckCalibration(c)
  \/ AskResult

CaliSpec == CaliInit /\ [][CaliNext]_caliVars

-----------------------------------------------------------------------------
\* The variables have their types, and the lock's holder is between its two ends.
CaliTypeOK ==
  /\ cali_pc \in [CaliThreads -> {"idle", "created", "lock", "set_mode", "measure", "store",
                                  "exit_mode", "exit", "measured", "check"}]
  /\ measuring \in [CaliThreads -> {"Re", "F0"}]
  /\ live \in [CaliThreads -> Values]
  /\ measured \in [{"Re", "F0"} -> Values]
  /\ cali_data \in [calib_status : {"NOTIN", "ONGING", "OK", "ERROR"}, Re : Values, F0 : Values]
  /\ stored \in Values \cup {"none", "lost"}
  /\ fsm_lock \in CaliThreads \cup {NoThread}
  /\ amp \in [dac : {"off", "some", "on"}, calib_mode : BOOLEAN]
  /\ refused \in BOOLEAN /\ overlapped \in BOOLEAN

\* Whoever holds the lock is inside fsm_algo_force_calib, and nobody else is.
InForceCalib == {"set_mode", "measure", "store", "exit_mode", "exit"}
LockHeld == \A c \in CaliThreads : cali_pc[c] \in InForceCalib <=> fsm_lock = c

\* Between measurements, also those of calibrations that overlap, the amplifiers are out of
\* the calibration mode and their DAC ports are off, whichever step failed, unless the
\* control that would do it was refused or its mixer did not open (fsalgo_calib.c:735-830).
AmpRestored ==
  fsm_lock = NoThread /\ ~refused => amp = [dac |-> "off", calib_mode |-> FALSE]

\* "ok" is told only of a resistance in range that a calibration has put in the file
\* opened for it, or is about to put there: one whose file did not open is an error, also
\* for a calibration that overlaps others and reads what they measured.  A calibration that
\* overlaps no other tells the values it stored.  Whether the disk took the file nobody looks
\* at (fsalgo_calib.c:671-677, 809-813, 971-996).
Written == stored \in {"good", "lost"}
OkIsStored == [][
  \A c \in CaliThreads :
    cali_pc[c] = "check" /\ cali_pc'[c] = "idle" /\ cali_data'.calib_status = "OK" =>
      /\ Written \/ \E d \in CaliThreads : cali_pc[d] = "store" /\ live[d] = "good"
      /\ ~overlapped => Written /\ cali_data'.Re = "good" /\ cali_data'.F0 = "good"]_caliVars
=============================================================================
