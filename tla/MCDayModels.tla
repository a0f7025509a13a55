---------------------------- MODULE MCDayModels ----------------------------
(***************************************************************************)
(* Instances of DayModels for TLC.                                         *)
(***************************************************************************)
EXTENDS DayModels, TLC

Symmetric == Permutations(Slot)
=============================================================================
