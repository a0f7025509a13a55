------------------------------ MODULE WorkDay -------------------------------
(***************************************************************************)
(* One work_day whose work_time rows change by whole procedure calls.  It  *)
(* is the specification that WorkTimeCalls implements one SQL statement at *)
(* a time; the effect of a call is stated by DayCoverage.                  *)
(***************************************************************************)
EXTENDS WorkTime

VARIABLE intervals          \* the rows of table work_time, as intervals

DayInit == intervals = {}

\* CALL p_insert_work_time(id, s, e)
p_insert_work_time(s, e) == intervals' = InsertWorkTime(intervals, s, e)

\* CALL p_remove_work_time(id, s, e), for an ordered range
p_remove_work_time(s, e) ==
  /\ s <= e
  /\ intervals' = RemoveWorkTime(intervals, s, e)

DayNext == \E s, e \in Time : p_insert_work_time(s, e) \/ p_remove_work_time(s, e)

DaySpec == DayInit /\ [][DayNext]_intervals

-----------------------------------------------------------------------------
\* Every row passes the CHECK of table work_time.
DayTypeOK == intervals \subseteq Interval

\* No two rows of the work_day share time (procedures.sql, 645-646): merging
\* on insertion, trimming and splitting on removal never produce an overlap.
DayNonOverlapping == ~Overlapping(intervals)

\* The set of planned slots that the rows stand for.
Coverage == INSTANCE DayCoverage WITH planned <- Covered(intervals)

\* Whatever rows they rewrite, the procedures plan and free exactly the slots
\* they are asked to: p_insert_work_time plans, p_remove_work_time frees, over
\* the range of the call and nothing beyond it.  Merging loses and invents no
\* time, trimming and splitting keep everything outside the removed range.
ExactEffect ==
  [][\A s, e \in Time : /\ p_insert_work_time(s, e) => Coverage!Plan(s, e)
                        /\ p_remove_work_time(s, e) => Coverage!Free(s, e)]_intervals

\* The boundaries at which two rows touch.
Cuts(rows) == {t \in Time : \E q, r \in rows : q.end_time = t /\ t = r.start_time}

\* The callers test a range against single rows (Contains), so a period cut in
\* two at a boundary counts as if nobody worked through it.  Insertion heals
\* every cut in its range (651-661), and only the removal of an empty range makes a
\* new one.
NoNewCuts ==
  [][\A s, e \in Time :
       /\ p_insert_work_time(s, e) /\ s <= e
            => Cuts(intervals') \subseteq Cuts(intervals) \ (s .. e)
       /\ p_remove_work_time(s, e) /\ s < e
            => Cuts(intervals') \subseteq Cuts(intervals)]_intervals
=============================================================================
