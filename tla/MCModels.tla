------------------------------ MODULE MCModels ------------------------------
(***************************************************************************)
(* Instances of Models for TLC.                                            *)
(***************************************************************************)
EXTENDS Models

Both == {"worker", "line"}
=============================================================================
