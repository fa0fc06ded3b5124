-------------------------- MODULE MCBatteryListener --------------------------
(* Instances of BatteryListener for TLC.                                   *)
EXTENDS BatteryListener, TLC
==============================================================================
