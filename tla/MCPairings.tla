----------------------------- MODULE MCPairings -----------------------------
(* Instance of Pairings for TLC.  Three slots and four identifiers: the    *)
(* table can be full with a controller left over, and have holes before    *)
(* and after live records.                                                 *)
EXTENDS Pairings, TLC

Symmetry == Permutations(ControllerId) \cup Permutations(ControllerKey)
=============================================================================
