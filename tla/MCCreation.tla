----------------------------- MODULE MCCreation -----------------------------
(***************************************************************************)
(* An instance of Creation for TLC: two sessions that plan the same day of *)
(* one line; one of them also makes its default days, the other assigns a  *)
(* worker to the first two days there are and makes his default day.       *)
(***************************************************************************)
EXTENDS Creation

CONSTANTS p1, p2, l1, w1, r1, r2, d1

TwoSessions ==
  [p \in {p1, p2} |->
     {LineDay(l1, d1)} \cup
       IF p = p1 THEN {DefaultDay(l1, 0), DefaultDay(l1, 7)}
       ELSE {WorkerDay(1, w1, r1), WorkerDay(2, w1, r2), DefaultDay(w1, 6)}]

NeededRole == {<<l1, r1>>}
=============================================================================
