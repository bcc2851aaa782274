-------------------------------- MODULE MCDb --------------------------------
(* Instance of Db for TLC: the accessory of RpiHap with one characteristic *)
(* of each kind.  On and Brightness can be written, read and subscribed    *)
(* to, so that a poll finds none, one or both of them pending; Identify    *)
(* can only be written and Name only be read.  The light bulb has empty    *)
(* slots between two characteristics.  On has two values, so that it can   *)
(* change and change back between two polls; the events of Brightness come *)
(* from writes of "ev".                                                    *)
EXTENDS Db

MCTypeOf == <<"Identify", "Name", "On", "Brightness">>
MCAccessories ==
  << [aid |-> 1, services |-> << <<1, NoChar, NoChar, 2>>,
                                 Lightbulb(3, NoChar, NoChar, NoChar, 4) >>] >>
MCPossible == [c \in Char |-> IF c = 3 THEN Value ELSE {CHOOSE v \in Value : TRUE}]
MCHandled == {1, 3, 4}

ASSUME IdsLeadBack == Identified
=============================================================================
