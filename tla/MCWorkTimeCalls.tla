-------------------------- MODULE MCWorkTimeCalls ---------------------------
(***************************************************************************)
(* Instances of WorkTimeCalls for TLC.                                     *)
(***************************************************************************)
EXTENDS WorkTimeCalls, TLC

\* Every range with start <= end, and those with start > end as well.
OrderedRanges == {x \in Time \X Time : x[1] <= x[2]}
AllRanges     == Time \X Time
NoRanges      == {}

RowIds == Permutations(RowId)
=============================================================================
