----------------------------- MODULE MCWindows -----------------------------
(***************************************************************************)
(* Instances of Windows for TLC.                                           *)
(***************************************************************************)
EXTENDS Windows, TLC

Symmetric == Permutations(Window) \cup Permutations(Cell)
=============================================================================
