------------------------------ MODULE WorkTime ------------------------------
(***************************************************************************)
(* The work_time rows of one work_day and what the two procedures that     *)
(* maintain them, p_insert_work_time and p_remove_work_time, leave behind. *)
(*                                                                         *)
(* A row is a record with a start_time and an end_time.  The operators     *)
(* read and change these two fields only, so the same definitions serve    *)
(* plain intervals (Interval) and rows that also carry the primary key id. *)
(* TIME is the range 0..MaxTime of boundaries; the time between boundary k *)
(* and boundary k + 1 is slot k.                                           *)
(***************************************************************************)
EXTENDS Integers, FiniteSets

CONSTANT MaxTime            \* the last time boundary of a day

ASSUME MaxTimeAssumption == MaxTime \in Nat \ {0}

Time == 0 .. MaxTime
Slot == 0 .. (MaxTime - 1)

\* The rows the CHECK of table work_time admits.
Interval == {r \in [start_time: Time, end_time: Time] : r.start_time < r.end_time}

-----------------------------------------------------------------------------
(* Vocabulary of the WHERE clauses. *)

\* SQL's t BETWEEN s AND e: both ends count, and no t qualifies if e < s.
Between(t, s, e) == s <= t /\ t <= e

Inside(r, s, e) == Between(r.start_time, s, e) /\ Between(r.end_time, s, e)

Contains(r, s, e) == /\ Between(s, r.start_time, r.end_time)
                     /\ Between(e, r.start_time, r.end_time)

-----------------------------------------------------------------------------
(* What a set of rows means. *)

Slots(s, e) == {k \in Slot : s <= k /\ k < e}

Covered(rows) == {k \in Slot : \E r \in rows : r.start_time <= k /\ k < r.end_time}

\* Two rows of one work_day share no time.
Apart(q, r) == q.end_time <= r.start_time \/ r.end_time <= q.start_time

Overlapping(rows) == \E q, r \in rows : q # r /\ ~Apart(q, r)

-----------------------------------------------------------------------------
(* p_insert_work_time, statement by statement.  Each loop over a cursor     *)
(* keeps the least start (the greatest end) it meets: the cursor's rows are *)
(* fixed when it is opened, with the argument as it was then.               *)

\* v is the least (the greatest) member of the finite nonempty S.
IsLeast(v, S)    == v \in S /\ \A w \in S : v <= w
IsGreatest(v, S) == v \in S /\ \A w \in S : w <= v

PrefixStart(rows, s) ==
  CHOOSE v \in Time :
    IsLeast(v, {s} \cup {r.start_time : r \in {q \in rows : Between(s, q.start_time, q.end_time)}})

\* Variant: rows that begin where the range ends are not merged
SuffixEndInside(rows, e) ==
  CHOOSE v \in Time :
    IsGreatest(v, {e} \cup {r.end_time : r \in {q \in rows : q.start_time < e /\ e <= q.end_time}})

SuffixEnd(rows, e) ==
  CHOOSE v \in Time :
    IsGreatest(v, {e} \cup {r.end_time : r \in {q \in rows : Between(e, q.start_time, q.end_time)}})

\* Variant: rows that share a boundary with the range stay
DeleteStrictlyInside(rows, s, e) == {r \in rows : ~(s < r.start_time /\ r.end_time < e)}

DeleteInside(rows, s, e) == {r \in rows : ~Inside(r, s, e)}

\* The whole procedure, run to its end by one session.  An inverted range
\* returns at once; an empty one that touches no row fails on the CHECK.
InsertWorkTime(rows, s, e) ==
  LET start == PrefixStart(rows, s)
      end   == SuffixEnd(rows, e)
  IN  IF e < s \/ ~(start < end)
      THEN rows
      ELSE DeleteInside(rows, start, end) \cup {[start_time |-> start, end_time |-> end]}

-----------------------------------------------------------------------------
(* p_remove_work_time, statement by statement. *)

TrimStart(rows, s, e) ==
  {IF Between(r.start_time, s, e) /\ ~Between(r.end_time, s, e)
   THEN [r EXCEPT !.start_time = e] ELSE r : r \in rows}

\* Variant: the second UPDATE is missing
TrimEndMissing(rows, s, e) == rows

TrimEnd(rows, s, e) ==
  {IF ~Between(r.start_time, s, e) /\ Between(r.end_time, s, e)
   THEN [r EXCEPT !.end_time = s] ELSE r : r \in rows}

\* The rows that SELECT ... INTO finds: more than one is an error (the
\* handler is for NOT FOUND only).
SplitRows(rows, s, e) == {r \in rows : Contains(r, s, e)}

\* The CHECK start_time < end_time rejects the UPDATE of r, or the INSERT.
UpdateRejected(r, s) == ~(r.start_time < s)
InsertRejected(r, e) == ~(e < r.end_time)

\* Variant: work_time without its CHECK
SplitUnchecked(rows, s, e) ==
  LET hit == SplitRows(rows, s, e)
  IN  IF Cardinality(hit) # 1 THEN rows
      ELSE {IF r \in hit THEN [r EXCEPT !.end_time = s] ELSE r : r \in rows}
             \cup {[start_time |-> e, end_time |-> r.end_time] : r \in hit}

Split(rows, s, e) ==
  LET hit == SplitRows(rows, s, e)
  IN  IF \E r \in rows : hit = {r} /\ ~UpdateRejected(r, s)
      THEN LET r == CHOOSE r \in rows : hit = {r}
               left  == [r EXCEPT !.end_time = s]
               right == {q \in {[start_time |-> e, end_time |-> r.end_time]} :
                           ~InsertRejected(r, e)}
           IN (rows \ {r}) \cup {left} \cup right
      ELSE rows

Trimmed(rows, s, e) == TrimEnd(TrimStart(DeleteInside(rows, s, e), s, e), s, e)

\* The whole procedure, run to its end (or to its error) by one session, on
\* a work_day the validation of workers' time has let through.
RemoveWorkTime(rows, s, e) == Split(Trimmed(rows, s, e), s, e)

RemoveWorkTimeFails(rows, s, e) ==
  LET hit == SplitRows(Trimmed(rows, s, e), s, e)
  IN  \/ Cardinality(hit) > 1
      \/ \E r \in hit : UpdateRejected(r, s) \/ InsertRejected(r, e)
=============================================================================
