--------------------------- MODULE DeviceParameters ---------------------------
(***************************************************************************)
(* AudioDevice::SetParameters of hal/AudioDevice.cpp: the keys that leave  *)
(* something behind in the HAL.  They are the connection of USB devices    *)
(* and DisplayPort monitors, the two rotations, and the LC3 configuration  *)
(* of Bluetooth LE calls, which arrives field by field.  The other keys    *)
(* are handed to PAL as they come.                                         *)
(*                                                                         *)
(* One call may carry several keys.  They are handled one after the other, *)
(* and each block depends on the state alone; the LC3 fields of a call are *)
(* handled together, after its bt_ble key.                                 *)
(***************************************************************************)
EXTENDS Integers, FiniteSets

CONSTANTS
  Cards,            \* USB card numbers
  Lc3Fields,        \* the fields of an LC3 configuration
  Lc3Required,      \* those in LC3_BIT_VALID
  Angles            \* what "rotation" may be
ASSUME Lc3Assumption == Lc3Required \subseteq Lc3Fields /\ Lc3Required # {}

VARIABLES
  usb_card_id_, usb_input_dev_enabled,
  dp,                         \* dp_controller and dp_stream
  current_rotation, screen_rotation,
  bt_lc3_speech_enabled,
  btsco_lc3_cfg,              \* of each field: where it comes from
  attached,                   \* the devices the audio server has connected
  pal_connected,              \* what PAL was told is connected
  pal_rotation, pal_screen,
  lc3_sent,                   \* the configuration last sent, with the origin of its fields
  pal_refused,                \* history: PAL refused a connection or a rotation
  dp_lost,                    \* history: a stream had overwritten them at a disconnect
  asked_rotation              \* history: the last rotation PAL should have

usbVars == <<usb_card_id_, usb_input_dev_enabled>>
connectionVars == <<attached, pal_connected>>
rotationVars == <<current_rotation, screen_rotation, pal_rotation, pal_screen, asked_rotation>>
lc3Vars == <<bt_lc3_speech_enabled, btsco_lc3_cfg, lc3_sent>>
parameterVars == <<usbVars, dp, connectionVars, rotationVars, lc3Vars, pal_refused, dp_lost>>

NoCard == 0
Monitors == {0, 1}
MAX_STREAMS_PER_CONTROLLER == 2
Screens == {0, 1}
\* A device of the audio server: its kind, and the card or monitor it is on.
UsbKinds == {"OUT_USB_HEADSET", "OUT_USB_DEVICE", "IN_USB"}
AudioDevices == [kind : UsbKinds, at : Cards] \cup [kind : {"AUX_DIGITAL"}, at : Monitors]
\* A field is absent, from this round of LC3, from an earlier one, or from between rounds.
Origins == {"absent", "round", "earlier", "between"}
NoLc3 == [f \in Lc3Fields |-> "absent"]

ParametersInit ==
  /\ usb_card_id_ = NoCard /\ usb_input_dev_enabled = FALSE
  /\ dp = [controller |-> 0, stream |-> 0]
  /\ current_rotation = "LR" /\ pal_rotation = "LR" /\ asked_rotation = "LR"
  /\ screen_rotation = 0 /\ pal_screen = 0
  /\ bt_lc3_speech_enabled = FALSE
  /\ btsco_lc3_cfg = NoLc3 /\ lc3_sent = NoLc3
  /\ attached = {} /\ pal_connected = {}
  /\ pal_refused = FALSE /\ dp_lost = FALSE

-----------------------------------------------------------------------------
\* A monitor is PAL_DEVICE_OUT_AUX_DIGITAL when its number is 0, and AUX_DIGITAL_1 for
\* any other number, -3 included.
DpDevice(port) == IF port.controller * MAX_STREAMS_PER_CONTROLLER + port.stream # 0 THEN 1 ELSE 0

\* GetPalDeviceIds, and add_input_headset_if_usb_out_headset: a USB head set stands for
\* its microphone too.
PalDevices(device, port) ==
  IF device.kind = "AUX_DIGITAL" THEN {<<"AUX_DIGITAL", DpDevice(port)>>}
  ELSE {<<device.kind, device.at>>} \cup
       (IF device.kind = "OUT_USB_HEADSET" THEN {<<"IN_USB", device.at>>} ELSE {})

\* PAL takes or refuses each of them.
TellPal(devices, connect) ==
  \E taken \in SUBSET devices :
    /\ pal_connected' = IF connect THEN pal_connected \cup taken ELSE pal_connected \ taken
    /\ pal_refused' = (pal_refused \/ taken # devices)

IsUsb(device) == device.kind \in UsbKinds

\* "plugin card already added": the call ends here, and PAL is not told.
AlreadyAdded(device) ==
  device.kind = "IN_USB" /\ usb_card_id_ = device.at /\ usb_input_dev_enabled

ConnectAlreadyAdded(device) ==
  /\ device \notin attached
  /\ AlreadyAdded(device)
  /\ attached' = attached \cup {device}
  /\ UNCHANGED <<usbVars, dp, pal_connected, rotationVars, lc3Vars, pal_refused, dp_lost>>

\* AUDIO_PARAMETER_DEVICE_CONNECT.  Whether the card can capture is what PAL answers, and
\* anything when it does not: the answer is not initialised.
ConnectDevice(device) ==
  /\ device \notin attached /\ ~AlreadyAdded(device)
  /\ attached' = attached \cup {device}
  /\ IF IsUsb(device)
     THEN /\ usb_card_id_' = device.at /\ usb_input_dev_enabled' \in BOOLEAN
          /\ UNCHANGED dp
     ELSE /\ dp' = [controller |-> 0, stream |-> device.at]
          /\ UNCHANGED usbVars
  /\ TellPal(PalDevices(device, dp'), TRUE)
  /\ UNCHANGED <<rotationVars, lc3Vars, dp_lost>>

\* Mutant: a monitor is looked for where the last one was connected.
DisconnectLastMonitor(device) ==
  /\ device \in attached
  /\ attached' = attached \ {device}
  /\ TellPal(PalDevices(device, dp), FALSE)
  /\ UNCHANGED <<usbVars, dp, rotationVars, lc3Vars, dp_lost>>

\* AUDIO_PARAMETER_DEVICE_DISCONNECT.  The output of a head set, or an input on the card
\* of usb_card_id_, ends the capture; another output does not.
DisconnectDevice(device) ==
  /\ device \in attached
  /\ attached' = attached \ {device}
  /\ usb_input_dev_enabled' = (usb_input_dev_enabled /\
       ~(device.kind = "OUT_USB_HEADSET"
         \/ (device.kind = "IN_USB" /\ usb_card_id_ = device.at)))
  /\ dp' = IF IsUsb(device) THEN dp ELSE [dp EXCEPT !.stream = device.at]
  /\ dp_lost' = (dp_lost \/ (~IsUsb(device) /\ dp.controller = -1))
  /\ TellPal(PalDevices(device, dp'), FALSE)
  /\ UNCHANGED <<usb_card_id_, rotationVars, lc3Vars>>

\* StreamOutPrimary::SetParameters takes the controller and the stream of its own
\* parameters, -1 when they have none.  A later disconnect sets the stream only.
StreamParameters ==
  /\ dp' = [controller |-> -1, stream |-> -1]
  /\ UNCHANGED <<usbVars, connectionVars, rotationVars, lc3Vars, pal_refused, dp_lost>>

-----------------------------------------------------------------------------
\* How the speakers should be for an angle; another angle changes nothing.
Wanted(angle) ==
  IF angle = 270 THEN "RL" ELSE IF angle \in {0, 90, 180} THEN "LR" ELSE asked_rotation

\* "rotation": PAL is told of a change, and not again when it refused.
SetRotation(angle) ==
  LET new == IF angle \in {0, 90, 180, 270} THEN Wanted(angle) ELSE current_rotation
  IN /\ asked_rotation' = Wanted(angle)
     /\ current_rotation' = new
     /\ \/ new = current_rotation /\ UNCHANGED <<pal_rotation, pal_refused>>
        \/ new # current_rotation /\ pal_rotation' = new /\ UNCHANGED pal_refused
        \/ new # current_rotation /\ UNCHANGED pal_rotation /\ pal_refused' = TRUE
  /\ UNCHANGED <<usbVars, dp, connectionVars, lc3Vars, screen_rotation, pal_screen, dp_lost>>

\* "g_hw_display_rotation"
SetScreenRotation(new) ==
  /\ screen_rotation' = new
  /\ \/ new = screen_rotation /\ UNCHANGED <<pal_screen, pal_refused>>
     \/ new # screen_rotation /\ pal_screen' = new /\ UNCHANGED pal_refused
     \/ new # screen_rotation /\ UNCHANGED pal_screen /\ pal_refused' = TRUE
  /\ UNCHANGED <<usbVars, dp, connectionVars, lc3Vars, current_rotation, pal_rotation,
                 asked_rotation, dp_lost>>

-----------------------------------------------------------------------------
\* When a round begins, the fields there are become those of an earlier one.
NextRound == [f \in Lc3Fields |-> IF btsco_lc3_cfg[f] = "round" THEN "earlier" ELSE btsco_lc3_cfg[f]]

\* Mutant: the fields of the round that ends stay.
KeepsFields(on) == IF on /\ ~bt_lc3_speech_enabled THEN NextRound ELSE btsco_lc3_cfg

\* "bt_ble": switched off, it clears the fields.
FieldsAfterBle(on) ==
  IF ~on THEN NoLc3
  ELSE IF bt_lc3_speech_enabled THEN btsco_lc3_cfg ELSE NextRound

\* The LC3 keys of a call, on the fields there are: a configuration is sent, and cleared,
\* when the last required field is there and LC3 is on.
Lc3Keys(cfg, on, fields) ==
  LET new == [f \in Lc3Fields |->
                IF f \in fields THEN IF on THEN "round" ELSE "between" ELSE cfg[f]]
      complete == on /\ \A f \in Lc3Required : new[f] # "absent"
  IN /\ btsco_lc3_cfg' = IF complete THEN NoLc3 ELSE new
     /\ lc3_sent' = IF complete THEN new ELSE lc3_sent

UNCHANGED_other ==
  UNCHANGED <<usbVars, dp, connectionVars, rotationVars, pal_refused, dp_lost>>

SetLc3(fields) ==
  /\ Lc3Keys(btsco_lc3_cfg, bt_lc3_speech_enabled, fields)
  /\ UNCHANGED bt_lc3_speech_enabled /\ UNCHANGED_other

SetBle(on, fields) ==
  /\ bt_lc3_speech_enabled' = on
  /\ Lc3Keys(FieldsAfterBle(on), on, fields)
  /\ UNCHANGED_other

\* The three groups of keys share no state.
ConnectionNext ==
  \/ \E device \in AudioDevices :
       ConnectAlreadyAdded(device) \/ ConnectDevice(device) \/ DisconnectDevice(device)
  \/ StreamParameters
RotationNext ==
  \/ \E angle \in Angles : SetRotation(angle)
  \/ \E new \in Screens : SetScreenRotation(new)
Lc3Next ==
  \E fields \in SUBSET Lc3Fields : SetLc3(fields) \/ \E on \in BOOLEAN : SetBle(on, fields)

ParametersNext == ConnectionNext \/ RotationNext \/ Lc3Next

ParametersSpec == ParametersInit /\ [][ParametersNext]_parameterVars

-----------------------------------------------------------------------------
\* The variables have their types.
ParametersTypeOK ==
  /\ usb_card_id_ \in Cards \cup {NoCard}
  /\ dp \in [controller : {-1, 0}, stream : Monitors \cup {-1}]
  /\ {usb_input_dev_enabled, bt_lc3_speech_enabled, pal_refused, dp_lost} \subseteq BOOLEAN
  /\ {current_rotation, pal_rotation, asked_rotation} \subseteq {"LR", "RL"}
  /\ {screen_rotation, pal_screen} \subseteq Screens
  /\ btsco_lc3_cfg \in [Lc3Fields -> Origins] /\ lc3_sent \in [Lc3Fields -> Origins]
  /\ attached \subseteq AudioDevices

\* When the audio server has disconnected every device, in any order and whichever were on
\* the same card, nothing stays connected in PAL and both rotations are those asked for
\* last: what a connection told PAL, the disconnection tells it too (AudioDevice.cpp:1408,
\* 1586, 1788).  The exceptions are a refusal of PAL, which nobody repeats, and a
\* monitor whose number a stream has overwritten.
PalReleased ==
  ~pal_refused =>
    /\ attached = {} => {c \in pal_connected : c[1] # "AUX_DIGITAL" \/ ~dp_lost} = {}
    /\ pal_rotation = asked_rotation /\ pal_screen = screen_rotation

\* The comment at AudioDevice.cpp:1934, "clear btsco_lc3_cfg to avoid stale and partial cfg
\* being used in next round": what is sent has every required field, and none that was
\* received in an earlier round of LC3.
Lc3OfThisRound ==
  lc3_sent # NoLc3 =>
    \A f \in Lc3Fields :
      /\ lc3_sent[f] # "earlier"
      /\ f \in Lc3Required => lc3_sent[f] # "absent"

=============================================================================
