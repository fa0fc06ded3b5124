------------------------------ MODULE HalServices ------------------------------
(***************************************************************************)
(* The parts of the HAL that share no state with one another, put side by  *)
(* side: patches, device parameters, voice settings, HFP and FM            *)
(* loopbacks, speaker calibration, voice processing, volume listener, the  *)
(* metadata for Bluetooth and the captures of the visualizer.              *)
(*                                                                         *)
(* As no action of one reads or changes a variable of another, a property  *)
(* of one holds of all of them together when it holds while the others     *)
(* stand still.  A behaviour therefore chooses the part that moves, and    *)
(* what TLC explores is the sum of the parts and not their product.  The   *)
(* device parameters are three parts of that kind.                         *)
(***************************************************************************)
EXTENDS AudioPatches, DeviceParameters, VoiceSettings, HfpLoopback, FmLoopback,
        SpeakerCalibration, VoiceProcessing, VolumeListener, BtMetadata,
        VisualizerCapture

VARIABLE part    \* the part that moves

ServiceParts == {"patches", "connections", "rotation", "lc3", "voice", "hfp", "fm",
                 "calibration", "processing", "volume", "metadata", "capture"}

serviceVars == <<part, patchVars, parameterVars, settingVars, hfpVars, fmVars, caliVars,
                 processingVars, volumeVars, btVars, captureVars>>

\* A part that stands still is in one state: which of its settings it has is of no matter.
ServicesInit ==
  /\ part \in ServiceParts
  /\ PatchesInit /\ ParametersInit /\ SettingsInit /\ HfpInit /\ FmInit
  /\ CaliInit /\ ProcessingInit /\ VolumeInit /\ BtInit /\ CaptureInit
  /\ part = "patches" \/ ~use_spk_whs_combo
  /\ part = "voice" \/ rx_device = CHOOSE d \in RxDevices : TRUE
  /\ part = "calibration" \/ stored = "none"
  /\ part = "volume" \/ (headset_cal_enabled /\ send_gain_dep_cal)

\* A step of the part that moves.
ServicesNext ==
  /\ UNCHANGED part
  /\ IF part = "patches" THEN PatchesNext ELSE UNCHANGED patchVars
  /\ CASE part = "connections" -> ConnectionNext
       [] part = "rotation" -> RotationNext
       [] part = "lc3" -> Lc3Next
       [] OTHER -> UNCHANGED parameterVars
  /\ IF part = "voice" THEN SettingsNext ELSE UNCHANGED settingVars
  /\ IF part = "hfp" THEN HfpNext ELSE UNCHANGED hfpVars
  /\ IF part = "fm" THEN FmNext ELSE UNCHANGED fmVars
  /\ IF part = "calibration" THEN CaliNext ELSE UNCHANGED caliVars
  /\ IF part = "processing" THEN ProcessingNext ELSE UNCHANGED processingVars
  /\ IF part = "volume" THEN VolumeNext ELSE UNCHANGED volumeVars
  /\ IF part = "metadata" THEN BtNext ELSE UNCHANGED btVars
  /\ IF part = "capture" THEN CaptureNext ELSE UNCHANGED captureVars

ServicesSpec == ServicesInit /\ [][ServicesNext]_serviceVars

\* Every variable of every part has its type.
ServicesTypeOK ==
  /\ PatchesTypeOK /\ ParametersTypeOK /\ SettingsTypeOK /\ HfpTypeOK /\ FmTypeOK
  /\ CaliTypeOK /\ ProcessingTypeOK /\ VolumeTypeOK /\ BtTypeOK /\ CaptureTypeOK
===============================================================================
