---------------------------- MODULE MCHapServer ----------------------------
(* Instance of HapServer for TLC.  Two sessions and the overflow slot:     *)
(* sessions meet in pair-setup.  Three slots for three controllers, of     *)
(* which a file of two can be read back: slots are used again by another   *)
(* controller, and the table outgrows the file.                            *)
EXTENDS HapServer, TLC

Symmetry == Permutations(ControllerId) \cup Permutations(ControllerKey)
=============================================================================
