------------------------------ MODULE LightBulb ------------------------------
(***************************************************************************)
(* The light bulb of RpiHap (RpiHap/RpiHap.cpp, MyLb): a lamp and one      *)
(* characteristic of it, set by the network task in the write handler and  *)
(* by the bulb's own thread from the joystick, each in its own order: the  *)
(* handler sets the lamp before Value() is called, the thread after it.    *)
(* EventsThreads has the steps of Value().                                 *)
(*                                                                         *)
(* The characteristic is any of the four; what of it is the quantity that  *)
(* is set.  Numbers are scaled: 0 .. Top stands for 0 .. 100 percent, Turn *)
(* for 360 degrees, the values above for what a controller may write       *)
(* beyond the limits in the characteristic's description.                  *)
(***************************************************************************)
EXTENDS EventsThreads, Integers

CONSTANTS Top, Turn, Step   \* Step: the hue's change per turn of the loop

ASSUME ScaleAssumption == Top \in Nat /\ Turn \in Nat \ {0} /\ Step \in 0 .. Turn
ASSUME ValueAssumption ==
  /\ Value \subseteq Nat
  /\ \E max \in Value \ {0} : Value = 0 .. max /\ Top <= max /\ Turn <= max + 1
ASSUME BulbAssumption == NChar # 0

VARIABLES what,   \* which characteristic this is
          lamp,   \* what the LEDs show
          owes,   \* the lamp is still to be set by the thread, to this value
          lone    \* history: the last change ran alone, from its first step to the lamp

lvars == <<tvars, what, lamp, owes, lone>>

Bulb == 1
None == -1
Quantity == {"On", "Brightness", "Hue", "Saturation"}

InRange(v) ==
  CASE what = "On" -> v <= 1
    [] what = "Hue" -> v < Turn
    [] OTHER -> v <= Top

LTypeOK ==
  /\ what \in Quantity
  /\ lamp \in Value
  /\ owes \in Value \cup {None}
  /\ lone \in BOOLEAN
  /\ TTypeOK

(* A value the configuration file has restored is in range and shown.      *)
LInit ==
  /\ TInit
  /\ what \in Quantity
  /\ InRange(value[Bulb])
  /\ lamp = value[Bulb]
  /\ owes = None
  /\ lone = TRUE
-----------------------------------------------------------------------------
(* The write handlers' argument of LbAPA102C.  A Boolean is 0 or 1 by its  *)
(* type; the saturation becomes an uint8_t, which holds more than 100.     *)
Shown(v) ==
  CASE what = "Brightness" -> v % (Top + 1)
    [] what = "Hue" -> v % Turn
    [] OTHER -> v

Quiet == owes = None /\ at["device"] = Idle

(* A PUT: the handler first, then Value(v).                                *)
Written_ValueFirst(s, v) ==
  /\ what = "On" => v <= 1
  /\ Put(s, Bulb, v)
  /\ lone' = Quiet
  /\ UNCHANGED <<what, lamp, owes>>
Written(s, v) ==
  /\ what = "On" => v <= 1
  /\ Put(s, Bulb, v)
  /\ lamp' = Shown(v)
  /\ lone' = Quiet
  /\ UNCHANGED <<what, owes>>

(* The thread's new value from the one it reads: the button turns on or    *)
(* off, a deflection of the joystick changes brightness, saturation (with  *)
(* the button down) or hue.                                                *)
Turned(v, up) ==
  IF up THEN IF v + Step >= Turn THEN v + Step - Turn ELSE v + Step
        ELSE IF v - Step < 0 THEN v - Step + Turn ELSE v - Step

Percent(v, up) ==
  IF up THEN IF v < Top THEN v + 1 ELSE v
        ELSE IF v > 0 THEN v - 1 ELSE v

Moved(v, up) ==
  CASE what = "On" -> 1 - v
    [] what = "Hue" -> Turned(v, up)
    [] OTHER -> Percent(v, up)

Joystick(up) ==
  LET v == Moved(value[Bulb], up) IN
  /\ owes = None
  /\ DeviceChange(Bulb, v)
  /\ owes' = v
  /\ lone' = Alone("device")
  /\ UNCHANGED <<what, lamp>>

(* After Value(v), the lamp gets v as it is.  With the network task in the *)
(* middle of something the change did not run alone.                       *)
SetLamp ==
  /\ owes # None
  /\ at["device"] = Idle
  /\ lamp' = owes
  /\ owes' = None
  /\ lone' = (lone /\ Alone("device"))
  /\ UNCHANGED <<tvars, what>>

(* The steps of Value(), polls and the other calls of the network task.    *)
(* A step of the network task that does not begin a change leaves a change *)
(* of the thread alone.                                                    *)
InValue ==
  /\ \E t \in Thread : ValueStep(t)
  /\ UNCHANGED <<what, lamp, owes, lone>>

Others ==
  /\ \/ \E s \in Session : PollTest(s, Bulb)
     \/ PollClear \/ PollSend
     \/ NetworkCall(Bulb)
  /\ UNCHANGED <<what, lamp, owes, lone>>

LNext ==
  \/ \E s \in Session, v \in Value : Written(s, v)
  \/ \E up \in BOOLEAN : Joystick(up)
  \/ SetLamp \/ InValue \/ Others

LSpec == LInit /\ [][LNext]_lvars
-----------------------------------------------------------------------------
(* The lamp shows the value of the characteristic, or that value brought   *)
(* into the lamp's range if a controller wrote it, once a change has run   *)
(* without the other thread, whatever the two threads did to lamp and      *)
(* value before: a value and a lamp that differ for good, after one        *)
(* thread's steps fell between the other's, are put right by the next      *)
(* change.                                                                 *)
LampShowsValue ==
  lone /\ Quiet /\ at["network"] = Idle => lamp \in {value[Bulb], Shown(value[Bulb])}

(* Controllers may write beyond the limits, and the joystick goes on from  *)
(* there: what it asks for is never out of the range when the value was    *)
(* within, and never further out when it was not.                          *)
JoystickKeepsRange ==
  [][owes' # owes /\ owes' # None =>
       \/ InRange(owes')
       \/ owes' <= value[Bulb]]_lvars
=============================================================================
