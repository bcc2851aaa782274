--------------------------- MODULE AppleServices ---------------------------
(***************************************************************************)
(* The characteristics and services of Hap/HapAppleCharacteristics.h and   *)
(* Hap/HapAppleServices.h: what a controller may do with a characteristic, *)
(* and the slots of a service, in which an optional characteristic that is *)
(* not there leaves NoChar.                                                *)
(***************************************************************************)
EXTENDS Naturals, TLC

ReadOnly == {"PairedRead"}
Notified == {"PairedRead", "Events"}
Full == {"PairedRead", "PairedWrite", "Events"}

InformationPermissions ==
  [FirmwareRevision |-> ReadOnly, HardwareRevision |-> ReadOnly,
   Identify |-> {"PairedWrite"}, Manufacturer |-> ReadOnly, Model |-> ReadOnly,
   Name |-> ReadOnly, SerialNumber |-> ReadOnly]

LightPermissions ==
  [On |-> Full, Brightness |-> Full, Hue |-> Full]

ColorPermissions ==
  [Saturation |-> Full, ColorTemp |-> Full]

DoorPermissions ==
  [CurrentDoorState |-> Notified, TargetDoorState |-> Full,
   ObstructionDetected |-> Notified, Version |-> ReadOnly]

Permissions ==
  InformationPermissions @@ LightPermissions @@ ColorPermissions @@ DoorPermissions

NoChar == 0

ProtocolInformation(version) == <<version>>

(* The seventh and the eighth slot are for optional characteristics.       *)
AccessoryInformation(identify, manufacturer, model, name, serial, firmware) ==
  <<identify, manufacturer, model, name, serial, firmware>>

(* on is required; MyLb of RpiHap adds the others.                         *)
Lightbulb(on, brightness, name, hue, saturation) ==
  <<on, brightness, name, hue, saturation>>

GarageDoorOpener(current, target, obstruction, name) ==
  <<current, target, obstruction, name>>
=============================================================================
