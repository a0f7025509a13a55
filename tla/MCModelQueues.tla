--------------------------- MODULE MCModelQueues ---------------------------
(***************************************************************************)
(* Instances of ModelQueues for TLC.                                       *)
(***************************************************************************)
EXTENDS ModelQueues

AnyKind == {"role", "worker", "line"}
=============================================================================
