---------------------------- MODULE DayCoverage -----------------------------
(***************************************************************************)
(* What the work_time rows of a work_day are for, whatever rows represent  *)
(* it: the set of slots of the day during which work is planned.  A call   *)
(* of p_insert_work_time plans the slots of its range and no other, a call *)
(* of p_remove_work_time frees the slots of its range and no other.        *)
(***************************************************************************)
EXTENDS Integers

CONSTANT MaxTime

Slot == 0 .. (MaxTime - 1)

VARIABLE planned            \* the slots with planned work

Range(s, e) == {k \in Slot : s <= k /\ k < e}

Plan(s, e) == planned' = planned \cup Range(s, e)

Free(s, e) == planned' = planned \ Range(s, e)
=============================================================================
