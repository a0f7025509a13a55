------------------------ MODULE WorkTimeCallsProofs -------------------------
(***************************************************************************)
(* WorkDay for every length of the day: its rows are well-formed and do    *)
(* not overlap, each call changes the planned time by exactly its range,   *)
(* and no call leaves a period cut in two that was one.                    *)
(*                                                                         *)
(* And WorkTimeCalls: between any two statements of a call, and after a    *)
(* call cut short, the rows do not overlap, only time in the scope of the  *)
(* call has changed, and a call that is not cut short implements WorkDay,  *)
(* provided that one session changes the rows at a time and that removal   *)
(* is called with ordered ranges.  The run CallsTwoSessions shows that the *)
(* first proviso is needed.                                                *)
(***************************************************************************)
EXTENDS WorkTimeCalls, WorkDay, WorkTimeProofs

-----------------------------------------------------------------------------
(* Whole calls.                                                            *)

\* The parts are proved together: that merging keeps rows apart needs rows the
\* CHECK has admitted, and that the loops over the cursors find one least start
\* and one greatest end is shown from rows that are apart.
DayIInv == DayTypeOK /\ DayNonOverlapping

LEMMA InitDayIInv == DayInit => DayIInv
BY DEF DayInit, DayIInv, DayTypeOK, DayNonOverlapping, Overlapping

LEMMA NextDayIInv == DayIInv /\ [DayNext]_intervals => DayIInv'
<1> SUFFICES ASSUME DayIInv, [DayNext]_intervals
             PROVE  DayIInv'
  OBVIOUS
<1> USE DEF DayIInv, DayTypeOK, DayNonOverlapping
<1>1. ASSUME NEW s \in Time, NEW e \in Time, p_insert_work_time(s, e)
      PROVE  DayIInv'
  BY <1>1, InsertKeepsApart DEF p_insert_work_time
<1>2. ASSUME NEW s \in Time, NEW e \in Time, p_remove_work_time(s, e)
      PROVE  DayIInv'
  BY <1>2, RemoveKeepsApart DEF p_remove_work_time
<1>3. CASE UNCHANGED intervals
  BY <1>3 DEF Overlapping
<1>4. QED
  BY <1>1, <1>2, <1>3 DEF DayNext

LEMMA DayInvariance == DaySpec => []DayIInv
BY InitDayIInv, NextDayIInv, PTL DEF DaySpec

\* Every row a call leaves passes the CHECK of table work_time.
THEOREM DayTypeCorrect == DaySpec => []DayTypeOK
<1>1. DayIInv => DayTypeOK
  BY DEF DayIInv
<1>2. QED
  BY <1>1, DayInvariance, PTL

\* The claim of procedures.sql, 645-646: the rows of a work_day never overlap.
THEOREM DayNeverOverlapping == DaySpec => []DayNonOverlapping
<1>1. DayIInv => DayNonOverlapping
  BY DEF DayIInv
<1>2. QED
  BY <1>1, DayInvariance, PTL

\* A step plans or frees what the call says.
LEMMA StepEffect ==
  ASSUME DayIInv, NEW s \in Time, NEW e \in Time
  PROVE  /\ p_insert_work_time(s, e) => Coverage!Plan(s, e)
         /\ p_remove_work_time(s, e) => Coverage!Free(s, e)
<1>1. Coverage!Range(s, e) = Slots(s, e)
  BY DEF Coverage!Range, Slots, Slot, Coverage!Slot
<1>2. ASSUME p_insert_work_time(s, e)
      PROVE  Coverage!Plan(s, e)
  BY <1>1, <1>2, InsertCovers DEF p_insert_work_time, Coverage!Plan, DayIInv, DayTypeOK, DayNonOverlapping
<1>3. ASSUME p_remove_work_time(s, e)
      PROVE  Coverage!Free(s, e)
  BY <1>1, <1>3, RemoveFrees DEF p_remove_work_time, Coverage!Free, DayIInv, DayTypeOK, DayNonOverlapping
<1>4. QED
  BY <1>2, <1>3

\* Insertion plans its range, removal frees its range, and neither touches a
\* slot beyond it, however many rows it rewrites.
THEOREM CallsHaveExactEffect == DaySpec => ExactEffect
<1>1. DayIInv /\ [DayNext]_intervals =>
        [\A s, e \in Time : /\ p_insert_work_time(s, e) => Coverage!Plan(s, e)
                            /\ p_remove_work_time(s, e) => Coverage!Free(s, e)]_intervals
  BY StepEffect
<1>2. QED
  BY <1>1, DayInvariance, PTL DEF DaySpec, ExactEffect

\* Merging leaves no boundary in the range at which two rows touch: what ended or
\* began there has been merged, and beyond the range there is no new boundary.
LEMMA InsertMakesNoCut ==
  ASSUME NEW rows, rows \subseteq Interval, ~Overlapping(rows),
         NEW s \in Time, NEW e \in Time, s <= e
  PROVE  Cuts(InsertWorkTime(rows, s, e)) \subseteq Cuts(rows) \ (s .. e)
<1> DEFINE S == PrefixStart(rows, s)
           E == SuffixEnd(rows, e)
           new == [start_time |-> S, end_time |-> E]
           kept == DeleteInside(rows, S, E)
<1>1. Admitted(rows)
  BY IntervalRows
<1>2. /\ S \in Time /\ S <= s
      /\ \A q \in rows : Between(s, q.start_time, q.end_time) => S <= q.start_time
      /\ S = s \/ \E q \in rows : q.start_time = S /\ Between(s, q.start_time, q.end_time)
  BY <1>1, PrefixStartIsLeast, PrefixStartUncrossed DEF IsLeast
<1>3. /\ E \in Time /\ e <= E
      /\ \A q \in rows : Between(e, q.start_time, q.end_time) => q.end_time <= E
      /\ E = e \/ \E q \in rows : q.end_time = E /\ Between(e, q.start_time, q.end_time)
  BY <1>1, SuffixEndIsGreatest, SuffixEndUncrossed DEF IsGreatest
<1>4. Clear(kept, S, E)
  <2>1. S <= E
    BY <1>2, <1>3, MaxTimeAssumption DEF Time
  <2> QED BY <1>1, <1>2, <1>3, <2>1, PrefixStartUncrossed, SuffixEndUncrossed, DeleteInsideClears
<1> HIDE DEF S, E
<1>5. kept \subseteq rows
  BY DEF DeleteInside
<1>6. ASSUME NEW q \in rows, q.end_time \in s .. e
      PROVE  S < q.end_time /\ S <= q.start_time
  BY <1>1, <1>2, <1>3, <1>6, MaxTimeAssumption DEF Admitted, Between, Time
<1>7. CASE S < E
  <2>1. InsertWorkTime(rows, s, e) = kept \cup {new}
    <3>1. ~(e < s)
      BY MaxTimeAssumption DEF Time
    <3> QED BY <1>7, <3>1 DEF InsertWorkTime, S, E
  <2> HIDE DEF kept
  <2>2. ASSUME NEW t \in Time, NEW q \in kept \cup {new}, NEW r \in kept \cup {new},
               q.end_time = t, t = r.start_time
        PROVE  t \in Cuts(rows) \ (s .. e)
    <3>1. CASE q \in kept /\ r \in kept
      <4>1. t \in Cuts(rows)
        BY <1>5, <2>2, <3>1 DEF Cuts
      <4>2. q.end_time <= S \/ E <= q.start_time
        BY <1>4, <3>1 DEF Clear
      <4>3. q \in rows /\ q.start_time < q.end_time /\ q.start_time \in Time
        BY <1>1, <1>5, <3>1 DEF Admitted
      <4>4. t \notin s .. e
        <5>1. CASE E <= q.start_time
          BY <1>3, <2>2, <4>3, <5>1, MaxTimeAssumption DEF Time
        <5>2. CASE q.end_time <= S
          BY <1>2, <1>6, <2>2, <4>3, <5>2, MaxTimeAssumption DEF Time
        <5> QED BY <4>2, <5>1, <5>2
      <4> QED BY <4>1, <4>4
    <3>2. CASE q = new /\ r \in kept
      <4>1. t = E /\ r.start_time = E /\ r \in rows /\ E < r.end_time /\ r.end_time \in Time
        BY <1>1, <1>5, <2>2, <3>2 DEF Admitted
      <4>2. E # e
        BY <1>3, <4>1, MaxTimeAssumption DEF Between, Time
      <4>3. PICK x \in rows : x.end_time = E
        BY <1>3, <4>2
      <4>4. t \in Cuts(rows)
        BY <4>1, <4>3 DEF Cuts
      <4>5. t \notin s .. e
        BY <1>3, <4>1, <4>2, MaxTimeAssumption DEF Time
      <4> QED BY <4>4, <4>5
    <3>3. CASE q \in kept /\ r = new
      <4>1. t = S /\ q.end_time = S /\ q \in rows /\ q.start_time < S /\ q.start_time \in Time
        BY <1>1, <1>5, <2>2, <3>3 DEF Admitted
      <4>2. S # s
        BY <1>2, <4>1, MaxTimeAssumption DEF Between, Time
      <4>3. PICK x \in rows : x.start_time = S
        BY <1>2, <4>2
      <4>4. t \in Cuts(rows)
        BY <4>1, <4>3 DEF Cuts
      <4>5. t \notin s .. e
        BY <1>2, <4>1, <4>2, MaxTimeAssumption DEF Time
      <4> QED BY <4>4, <4>5
    <3>4. CASE q = new /\ r = new
      BY <1>2, <1>3, <1>7, <2>2, <3>4, MaxTimeAssumption DEF Time
    <3> QED BY <3>1, <3>2, <3>3, <3>4
  <2>3. \A t \in Cuts(kept \cup {new}) :
          t \in Time /\ \E q, r \in kept \cup {new} : q.end_time = t /\ t = r.start_time
    BY DEF Cuts
  <2> QED BY <2>1, <2>2, <2>3
<1>8. CASE ~(S < E)
  <2>1. InsertWorkTime(rows, s, e) = rows
    BY <1>8 DEF InsertWorkTime, S, E
  <2>2. S = s /\ e = s
    BY <1>2, <1>3, <1>8, MaxTimeAssumption DEF Time
  <2>3. ASSUME NEW q \in rows, q.end_time \in s .. e
        PROVE  FALSE
    <3>1. q.end_time = s
      BY <2>2, <2>3, MaxTimeAssumption DEF Time
    <3> QED BY <1>6, <2>2, <2>3, <3>1, MaxTimeAssumption DEF Time
  <2> QED BY <2>1, <2>3 DEF Cuts
<1> QED BY <1>7, <1>8

\* What is left after a removal begins where the range ends or where a row began, and
\* ends where the range begins or where a row ended.
Trims(before, after, s, e) ==
  \A x \in after :
    /\ x.start_time = e \/ \E r \in before : x.start_time = r.start_time
    /\ x.end_time = s \/ \E r \in before : x.end_time = r.end_time

\* Every statement of the removal does so.
LEMMA RemoveTrims ==
  ASSUME NEW rows, rows \subseteq Interval, NEW s \in Time, NEW e \in Time
  PROVE  Trims(rows, RemoveWorkTime(rows, s, e), s, e)
<1> DEFINE D == DeleteInside(rows, s, e)
           A == TrimStart(D, s, e)
           B == TrimEnd(A, s, e)
<1>1. D \subseteq rows
  BY DEF DeleteInside
<1> HIDE DEF D
<1>2. \A x \in A : \E r \in D : x \in {r, [r EXCEPT !.start_time = e]}
  BY DEF TrimStart
<1>3. \A x \in A : /\ x.start_time = e \/ \E r \in rows : x.start_time = r.start_time
                   /\ \E r \in rows : x.end_time = r.end_time
                   /\ x \in [start_time : Time, end_time : Time]
  BY <1>1, <1>2 DEF Interval
<1> HIDE DEF A
<1>4. \A x \in B : \E r \in A : x \in {r, [r EXCEPT !.end_time = s]}
  BY DEF TrimEnd
<1>5. Trims(rows, B, s, e) /\ B \subseteq [start_time : Time, end_time : Time]
  <2>1. ASSUME NEW x \in B
        PROVE  /\ x.start_time = e \/ \E r \in rows : x.start_time = r.start_time
               /\ x.end_time = s \/ \E r \in rows : x.end_time = r.end_time
               /\ x \in [start_time : Time, end_time : Time]
    <3>1. PICK r \in A : x \in {r, [r EXCEPT !.end_time = s]}
      BY <1>4
    <3> QED BY <1>3, <3>1
  <2> QED BY <2>1 DEF Trims
<1> HIDE DEF B
<1>6. ASSUME NEW x \in Split(B, s, e)
      PROVE  \/ x \in B
             \/ \E r \in B : x \in {[r EXCEPT !.end_time = s], [start_time |-> e, end_time |-> r.end_time]}
  BY DEF Split
<1>7. Trims(rows, Split(B, s, e), s, e)
  <2>1. ASSUME NEW x \in Split(B, s, e)
        PROVE  /\ x.start_time = e \/ \E r \in rows : x.start_time = r.start_time
               /\ x.end_time = s \/ \E r \in rows : x.end_time = r.end_time
    <3>1. CASE x \in B
      BY <1>5, <3>1 DEF Trims
    <3>2. ASSUME NEW r \in B, x \in {[r EXCEPT !.end_time = s], [start_time |-> e, end_time |-> r.end_time]}
          PROVE  <2>1!2
      BY <1>5, <3>2 DEF Trims
    <3> QED BY <1>6, <3>1, <3>2
  <2> QED BY <2>1 DEF Trims
<1> QED BY <1>7 DEF RemoveWorkTime, Trimmed, B, A, D

\* Removal touches nothing on both sides of its range, unless the range is empty.
LEMMA RemoveMakesNoCut ==
  ASSUME NEW rows, rows \subseteq Interval, ~Overlapping(rows),
         NEW s \in Time, NEW e \in Time, s < e
  PROVE  Cuts(RemoveWorkTime(rows, s, e)) \subseteq Cuts(rows)
<1> DEFINE after == RemoveWorkTime(rows, s, e)
<1>1. s <= e
  BY MaxTimeAssumption DEF Time
<1>2. Clear(after, s, e)
  BY <1>1, TrimmedRows, SplitClears DEF RemoveWorkTime
<1>3. Trims(rows, after, s, e)
  BY RemoveTrims
<1>4. after \subseteq Interval
  BY <1>1, RemoveKeepsApart
<1> HIDE DEF after
<1>5. ASSUME NEW t \in Time, NEW q \in after, NEW r \in after, q.end_time = t, t = r.start_time
      PROVE  t \in Cuts(rows)
  <2>1. /\ q.start_time \in Time /\ q.end_time \in Time /\ q.start_time < q.end_time
        /\ r.start_time \in Time /\ r.end_time \in Time /\ r.start_time < r.end_time
    BY <1>4 DEF Interval
  <2>2. q.end_time # s /\ r.start_time # e
    BY <1>2, <1>5, <2>1, MaxTimeAssumption DEF Clear, Time
  <2> QED BY <1>3, <1>5, <2>2 DEF Trims, Cuts
<1> QED BY <1>5 DEF Cuts, after

\* Insertion heals the cuts in its range and makes none, and the removal of a range
\* that is not empty makes none either: a period that Contains finds whole is not
\* found in two pieces later, but for the removal of an empty range.
THEOREM PeriodsStayWhole == DaySpec => NoNewCuts
<1>1. DayIInv /\ [DayNext]_intervals =>
        [\A s, e \in Time :
          /\ p_insert_work_time(s, e) /\ s <= e
               => Cuts(intervals') \subseteq Cuts(intervals) \ (s .. e)
          /\ p_remove_work_time(s, e) /\ s < e
               => Cuts(intervals') \subseteq Cuts(intervals)]_intervals
  <2> SUFFICES ASSUME DayIInv, NEW s \in Time, NEW e \in Time
               PROVE  /\ p_insert_work_time(s, e) /\ s <= e
                           => Cuts(intervals') \subseteq Cuts(intervals) \ (s .. e)
                      /\ p_remove_work_time(s, e) /\ s < e
                           => Cuts(intervals') \subseteq Cuts(intervals)
    OBVIOUS
  <2>1. ASSUME p_insert_work_time(s, e), s <= e
        PROVE  Cuts(intervals') \subseteq Cuts(intervals) \ (s .. e)
    BY <2>1, InsertMakesNoCut DEF p_insert_work_time, DayIInv, DayTypeOK, DayNonOverlapping
  <2>2. ASSUME p_remove_work_time(s, e), s < e
        PROVE  Cuts(intervals') \subseteq Cuts(intervals)
    BY <2>2, RemoveMakesNoCut DEF p_remove_work_time, DayIInv, DayTypeOK, DayNonOverlapping
  <2> QED BY <2>1, <2>2
<1>2. QED
  BY <1>1, DayInvariance, PTL DEF DaySpec, NoNewCuts

-----------------------------------------------------------------------------
(* One statement at a time.                                                *)

OneSession == \A p, q \in Session : p = q

OrderedRemovals == \A range \in RemovalRange : range[1] <= range[2]

UniqueIds == \A q, r \in work_time : q.id = r.id => q = r

\* What a call knows about the rows when it is about to run its next statement.
Knows(c) ==
  /\ c.next # "idle" => c.start <= c.end
  /\ c.next \in {"suffix", "delete"} => Uncrossed(work_time, c.start)
  /\ c.next = "delete" => Uncrossed(work_time, c.end)
  /\ c.next = "insert" => Clear(work_time, c.start, c.end)
  /\ c.next = "rm_update" =>
       \E r \in work_time : /\ r.id = c.id /\ r.end_time = c.v_end
                            /\ Contains(r, c.start, c.end)
  /\ c.next = "rm_insert" => Clear(work_time, c.end, c.v_end)

\* NonOverlapping alone is not inductive: that the row an INSERT adds overlaps
\* no other is what the statements before it have prepared.
IInv == /\ TypeOK
        /\ NonOverlapping
        /\ UniqueIds
        /\ \A p \in Session : Knows(call[p])

-----------------------------------------------------------------------------
LEMMA RowFacts ==
  ASSUME NEW rows, rows \subseteq Row
  PROVE  Admitted(rows) /\ Columns(rows)
BY DEF Admitted, Columns, Row

\* An UPDATE that the CHECK accepts turns rows into rows, and keeps their ids.
LEMMA UpdatedRows ==
  ASSUME NEW r \in Row, NEW t \in Time
  PROVE  /\ t < r.end_time => [r EXCEPT !.start_time = t] \in Row
         /\ r.start_time < t => [r EXCEPT !.end_time = t] \in Row
         /\ [r EXCEPT !.start_time = t].id = r.id
         /\ [r EXCEPT !.end_time = t].id = r.id
BY DEF Row

LEMMA InitIInv == Init => IInv
BY MaxTimeAssumption DEF Init, IInv, TypeOK, NonOverlapping, Overlapping, UniqueIds, Knows,
   Call, Idle, Start, Statement, Time

\* With one session the step of p leaves no other call to be shown.
LEMMA KnowsOfStepping ==
  ASSUME OneSession, NEW p \in Session, Knows(call[p])'
  PROVE  (\A q \in Session : Knows(call[q]))'
BY DEF OneSession

\* A call that has returned knows nothing.
LEMMA ReturnKnows ==
  ASSUME OneSession, TypeOK, NEW p \in Session, Return(p)
  PROVE  /\ (\A q \in Session : Knows(call[q]))'
         /\ call' \in [Session -> Call]
<1>1. call'[p] = Idle /\ call' \in [Session -> Call]
  BY MaxTimeAssumption DEF Return, TypeOK, Idle, Start, Call, Statement, Time
<1>2. Knows(call[p])'
  BY <1>1 DEF Knows, Idle, Start
<1>3. QED
  BY <1>1, <1>2, KnowsOfStepping

\* A call at its first statement.
LEMMA StartedCall ==
  ASSUME NEW s \in Time, NEW e \in Time, NEW statement \in Statement
  PROVE  /\ Start(statement, s, e) \in Call
         /\ Start(statement, s, e).next = statement
         /\ Start(statement, s, e).start = s
         /\ Start(statement, s, e).end = e
BY MaxTimeAssumption DEF Start, Call, Time

-----------------------------------------------------------------------------
(* p_insert_work_time *)

LEMMA CallInsertStep ==
  ASSUME OneSession, IInv, NEW p \in Session, CallInsert(p)
  PROVE  IInv'
<1> USE DEF IInv
<1>1. PICK s \in Time, e \in Time :
         /\ s <= e
         /\ call' = [call EXCEPT ![p] = Start("prefix", s, e)]
  BY DEF CallInsert
<1>2. UNCHANGED work_time
  BY DEF CallInsert
<1>3. call'[p] = Start("prefix", s, e)
  BY <1>1 DEF TypeOK
<1>4. /\ call'[p] \in Call
      /\ call'[p].next = "prefix" /\ call'[p].start = s /\ call'[p].end = e
  <2>1. "prefix" \in Statement
    BY DEF Statement
  <2>2. QED
    BY <1>3, <2>1, StartedCall
<1>5. TypeOK'
  BY <1>1, <1>2, <1>3, <1>4 DEF TypeOK
<1>6. Knows(call[p])'
  BY <1>1, <1>4 DEF Knows
<1>7. QED
  BY <1>2, <1>5, <1>6, KnowsOfStepping DEF NonOverlapping, Overlapping, UniqueIds

LEMMA InsertPrefixStep ==
  ASSUME OneSession, IInv, NEW p \in Session, InsertPrefix(p)
  PROVE  IInv'
<1> DEFINE c == call[p]
           S == PrefixStart(work_time, c.start)
<1> USE DEF IInv
<1>1. c \in Call /\ c.next = "prefix" /\ c.start <= c.end
  BY DEF TypeOK, InsertPrefix, At, Knows
<1>2. c.start \in Time /\ c.end \in Time
  BY <1>1 DEF Call
<1>3. S \in Time /\ S <= c.start /\ Uncrossed(work_time, S)
  BY <1>2, RowFacts, PrefixStartUncrossed DEF TypeOK, NonOverlapping
<1>4. call' = [call EXCEPT ![p] = [c EXCEPT !.start = S, !.next = "suffix"]] /\ UNCHANGED work_time
  BY DEF InsertPrefix, TypeOK
<1> HIDE DEF S
<1>5. [c EXCEPT !.start = S, !.next = "suffix"] \in Call
  BY <1>1, <1>3 DEF Call, Statement
<1>6. call'[p] = [c EXCEPT !.start = S, !.next = "suffix"]
  BY <1>4 DEF TypeOK
<1> HIDE DEF c
<1>7. TypeOK'
  BY <1>4, <1>5 DEF TypeOK
<1>8. /\ call'[p].start = S /\ call'[p].end = c.end /\ call'[p].next = "suffix"
  BY <1>1, <1>6 DEF Call
<1>9. S <= c.end
  BY <1>1, <1>2, <1>3, MaxTimeAssumption DEF Time
<1>10. Knows(call[p])'
  BY <1>3, <1>4, <1>8, <1>9 DEF Knows, Uncrossed
<1>11. QED
  BY <1>4, <1>7, <1>10, KnowsOfStepping DEF NonOverlapping, Overlapping, UniqueIds

LEMMA InsertSuffixStep ==
  ASSUME OneSession, IInv, NEW p \in Session, InsertSuffix(p)
  PROVE  IInv'
<1> DEFINE c == call[p]
           E == SuffixEnd(work_time, c.end)
<1> USE DEF IInv
<1>1. c \in Call /\ c.next = "suffix" /\ c.start <= c.end /\ Uncrossed(work_time, c.start)
  BY DEF TypeOK, InsertSuffix, At, Knows
<1>2. c.start \in Time /\ c.end \in Time
  BY <1>1 DEF Call
<1>3. E \in Time /\ c.end <= E /\ Uncrossed(work_time, E)
  BY <1>2, RowFacts, SuffixEndUncrossed DEF TypeOK, NonOverlapping
<1>4. call' = [call EXCEPT ![p] = [c EXCEPT !.end = E, !.next = "delete"]] /\ UNCHANGED work_time
  BY DEF InsertSuffix, TypeOK
<1> HIDE DEF E
<1>5. [c EXCEPT !.end = E, !.next = "delete"] \in Call
  BY <1>1, <1>3 DEF Call, Statement
<1>6. call'[p] = [c EXCEPT !.end = E, !.next = "delete"]
  BY <1>4 DEF TypeOK
<1> HIDE DEF c
<1>7. TypeOK'
  BY <1>4, <1>5 DEF TypeOK
<1>8. /\ call'[p].start = c.start /\ call'[p].end = E /\ call'[p].next = "delete"
  BY <1>1, <1>6 DEF Call
<1>9. c.start <= E
  BY <1>1, <1>2, <1>3, MaxTimeAssumption DEF Time
<1>10. Knows(call[p])'
  BY <1>1, <1>3, <1>4, <1>8, <1>9 DEF Knows, Uncrossed
<1>11. QED
  BY <1>4, <1>7, <1>10, KnowsOfStepping DEF NonOverlapping, Overlapping, UniqueIds

LEMMA InsertDeleteStep ==
  ASSUME OneSession, IInv, NEW p \in Session, InsertDelete(p)
  PROVE  IInv'
<1> DEFINE c == call[p]
           rows == DeleteInside(work_time, c.start, c.end)
<1> USE DEF IInv
<1>1. /\ c \in Call /\ c.start <= c.end
      /\ Uncrossed(work_time, c.start) /\ Uncrossed(work_time, c.end)
  BY DEF TypeOK, InsertDelete, At, Knows
<1>2. c.start \in Time /\ c.end \in Time
  BY <1>1 DEF Call
<1>3. Clear(rows, c.start, c.end)
  BY <1>1, <1>2, RowFacts, DeleteInsideClears DEF TypeOK
<1>4. rows \subseteq work_time
  BY DEF DeleteInside
<1>5. work_time' = rows /\ call' = [call EXCEPT ![p] = [c EXCEPT !.next = "insert"]]
  BY DEF InsertDelete, Goto, TypeOK
<1> HIDE DEF rows
<1>6. [c EXCEPT !.next = "insert"] \in Call /\ call'[p] = [c EXCEPT !.next = "insert"]
  BY <1>1, <1>5 DEF Call, Statement, TypeOK
<1> HIDE DEF c
<1>7. TypeOK'
  BY <1>4, <1>5, <1>6 DEF TypeOK
<1>8. call'[p].next = "insert" /\ call'[p].start = c.start /\ call'[p].end = c.end
  BY <1>1, <1>6 DEF Call
<1>9. Knows(call[p])'
  BY <1>1, <1>3, <1>5, <1>8 DEF Knows
<1>10. NonOverlapping' /\ UniqueIds'
  BY <1>4, <1>5 DEF NonOverlapping, Overlapping, UniqueIds
<1>11. QED
  BY <1>7, <1>9, <1>10, KnowsOfStepping

\* A new row in a clear range overlaps no other, and has an id of its own.
LEMMA InsertRowKeepsApart ==
  ASSUME TypeOK, NonOverlapping, UniqueIds, NEW s \in Time, NEW e \in Time,
         Clear(work_time, s, e), InsertRow(s, e)
  PROVE  work_time' \subseteq Row /\ NonOverlapping' /\ UniqueIds'
<1>1. CASE ~(s < e)
  <2>1. work_time' = work_time
    BY <1>1 DEF InsertRow
  <2>2. QED
    BY <2>1 DEF TypeOK, NonOverlapping, Overlapping, UniqueIds
<1>2. CASE s < e
  <2>1. PICK i \in FreshId :
           work_time' = work_time \cup {[id |-> i, start_time |-> s, end_time |-> e]}
    BY <1>2 DEF InsertRow
  <2> DEFINE new == [id |-> i, start_time |-> s, end_time |-> e]
  <2>2. new \in Row /\ \A r \in work_time : r.id # new.id
    BY <1>2 DEF FreshId, Row
  <2>3. \A r \in work_time : Apart(r, new) /\ Apart(new, r)
    BY DEF Clear, Apart
  <2> HIDE DEF new
  <2>4. QED
    BY <2>1, <2>2, <2>3 DEF new, TypeOK, NonOverlapping, Overlapping, UniqueIds
<1>3. QED
  BY <1>1, <1>2

LEMMA InsertInsertStep ==
  ASSUME OneSession, IInv, NEW p \in Session, InsertInsert(p)
  PROVE  IInv'
<1> USE DEF IInv
<1>1. call[p] \in Call /\ Clear(work_time, call[p].start, call[p].end)
  BY DEF TypeOK, InsertInsert, At, Knows
<1>2. call[p].start \in Time /\ call[p].end \in Time
  BY <1>1 DEF Call
<1>3. InsertRow(call[p].start, call[p].end) /\ Return(p)
  BY DEF InsertInsert
<1>4. work_time' \subseteq Row /\ NonOverlapping' /\ UniqueIds'
  BY <1>1, <1>2, <1>3, InsertRowKeepsApart
<1>5. QED
  BY <1>3, <1>4, ReturnKnows DEF TypeOK

-----------------------------------------------------------------------------
(* p_remove_work_time *)

LEMMA CallRemoveStep ==
  ASSUME OneSession, OrderedRemovals, IInv, NEW p \in Session, CallRemove(p)
  PROVE  IInv'
<1> USE DEF IInv
<1>1. PICK range \in RemovalRange :
         call' = [call EXCEPT ![p] = Start("rm_delete", range[1], range[2])]
  BY DEF CallRemove
<1>2. UNCHANGED work_time
  BY DEF CallRemove
<1>3. range[1] \in Time /\ range[2] \in Time /\ range[1] <= range[2]
  BY RemovalRangeAssumption DEF OrderedRemovals
<1>4. call'[p] = Start("rm_delete", range[1], range[2])
  BY <1>1 DEF TypeOK
<1>5. /\ call'[p] \in Call
      /\ call'[p].next = "rm_delete" /\ call'[p].start = range[1] /\ call'[p].end = range[2]
  <2>1. "rm_delete" \in Statement
    BY DEF Statement
  <2>2. QED
    BY <1>3, <1>4, <2>1, StartedCall
<1>6. TypeOK'
  BY <1>1, <1>2, <1>4, <1>5 DEF TypeOK
<1>7. Knows(call[p])'
  BY <1>3, <1>5 DEF Knows
<1>8. QED
  BY <1>2, <1>6, <1>7, KnowsOfStepping DEF NonOverlapping, Overlapping, UniqueIds

\* A statement of the removal that goes on to one with no knowledge but the order.
LEMMA GotoKnows ==
  ASSUME OneSession, IInv, NEW p \in Session, ~At(p, "idle"),
         NEW statement \in {"rm_trim_start", "rm_trim_end", "rm_select"}, Goto(p, statement)
  PROVE  /\ (\A q \in Session : Knows(call[q]))'
         /\ call' \in [Session -> Call]
<1> DEFINE c == call[p]
<1>1. c \in Call /\ c.start <= c.end
  BY DEF IInv, TypeOK, Knows, At
<1>2. call' = [call EXCEPT ![p] = [c EXCEPT !.next = statement]]
  BY DEF Goto, IInv, TypeOK
<1>3. [c EXCEPT !.next = statement] \in Call /\ call'[p] = [c EXCEPT !.next = statement]
  BY <1>1, <1>2 DEF Call, Statement, IInv, TypeOK
<1> HIDE DEF c
<1>4. call' \in [Session -> Call]
  BY <1>2, <1>3 DEF IInv, TypeOK
<1>5. call'[p].next = statement /\ call'[p].start = c.start /\ call'[p].end = c.end
  BY <1>1, <1>3 DEF Call
<1>6. Knows(call[p])'
  BY <1>1, <1>5 DEF Knows
<1>7. QED
  BY <1>4, <1>6, KnowsOfStepping

LEMMA RemoveDeleteStep ==
  ASSUME OneSession, IInv, NEW p \in Session, RemoveDelete(p)
  PROVE  IInv'
<1>1. work_time' \subseteq work_time
  BY DEF RemoveDelete, DeleteInside
<1>2. (\A q \in Session : Knows(call[q]))' /\ call' \in [Session -> Call]
  BY GotoKnows DEF RemoveDelete, At
<1>3. QED
  BY <1>1, <1>2 DEF IInv, TypeOK, NonOverlapping, Overlapping, UniqueIds

\* The UPDATEs keep the rows' ids, and rows the CHECK admits.
LEMMA TrimsKeepRows ==
  ASSUME TypeOK, UniqueIds, NEW s \in Time, NEW e \in Time, s <= e,
         work_time' = TrimStart(work_time, s, e) \/ work_time' = TrimEnd(work_time, s, e)
  PROVE  work_time' \subseteq Row /\ UniqueIds'
<1>1. ASSUME NEW r \in Row, Between(r.start_time, s, e), ~Between(r.end_time, s, e)
      PROVE  e < r.end_time
  BY <1>1, MaxTimeAssumption DEF Row, Between, Time
<1>2. ASSUME NEW r \in Row, ~Between(r.start_time, s, e), Between(r.end_time, s, e)
      PROVE  r.start_time < s
  BY <1>2, MaxTimeAssumption DEF Row, Between, Time
<1>3. CASE work_time' = TrimStart(work_time, s, e)
  <2> DEFINE trimmed(r) == IF Between(r.start_time, s, e) /\ ~Between(r.end_time, s, e)
                           THEN [r EXCEPT !.start_time = e] ELSE r
  <2>1. work_time' = {trimmed(r) : r \in work_time}
    BY <1>3 DEF TrimStart
  <2>2. \A r \in work_time : trimmed(r) \in Row /\ trimmed(r).id = r.id
    BY <1>1, UpdatedRows DEF TypeOK
  <2> HIDE DEF trimmed
  <2>3. QED
    BY <2>1, <2>2 DEF UniqueIds
<1>4. CASE work_time' = TrimEnd(work_time, s, e)
  <2> DEFINE trimmed(r) == IF ~Between(r.start_time, s, e) /\ Between(r.end_time, s, e)
                           THEN [r EXCEPT !.end_time = s] ELSE r
  <2>1. work_time' = {trimmed(r) : r \in work_time}
    BY <1>4 DEF TrimEnd
  <2>2. \A r \in work_time : trimmed(r) \in Row /\ trimmed(r).id = r.id
    BY <1>2, UpdatedRows DEF TypeOK
  <2> HIDE DEF trimmed
  <2>3. QED
    BY <2>1, <2>2 DEF UniqueIds
<1>5. QED
  BY <1>3, <1>4

LEMMA RemoveTrimStartStep ==
  ASSUME OneSession, IInv, NEW p \in Session, RemoveTrimStart(p)
  PROVE  IInv'
<1> USE DEF IInv
<1>1. call[p] \in Call /\ call[p].start <= call[p].end
  BY DEF TypeOK, RemoveTrimStart, At, Knows
<1>2. call[p].start \in Time /\ call[p].end \in Time
  BY <1>1 DEF Call
<1>3. work_time' = TrimStart(work_time, call[p].start, call[p].end)
  BY DEF RemoveTrimStart
<1>4. work_time' \subseteq Row /\ UniqueIds'
  BY <1>1, <1>2, <1>3, TrimsKeepRows
<1>5. NonOverlapping'
  BY <1>1, <1>2, <1>3, RowFacts, TrimStartTrims DEF TypeOK, NonOverlapping
<1>6. (\A q \in Session : Knows(call[q]))' /\ call' \in [Session -> Call]
  BY GotoKnows DEF RemoveTrimStart, At
<1>7. QED
  BY <1>4, <1>5, <1>6 DEF TypeOK

LEMMA RemoveTrimEndStep ==
  ASSUME OneSession, IInv, NEW p \in Session, RemoveTrimEnd(p)
  PROVE  IInv'
<1> USE DEF IInv
<1>1. call[p] \in Call /\ call[p].start <= call[p].end
  BY DEF TypeOK, RemoveTrimEnd, At, Knows
<1>2. call[p].start \in Time /\ call[p].end \in Time
  BY <1>1 DEF Call
<1>3. work_time' = TrimEnd(work_time, call[p].start, call[p].end)
  BY DEF RemoveTrimEnd
<1>4. work_time' \subseteq Row /\ UniqueIds'
  BY <1>1, <1>2, <1>3, TrimsKeepRows
<1>5. NonOverlapping'
  BY <1>1, <1>2, <1>3, RowFacts, TrimEndTrims DEF TypeOK, NonOverlapping
<1>6. (\A q \in Session : Knows(call[q]))' /\ call' \in [Session -> Call]
  BY GotoKnows DEF RemoveTrimEnd, At
<1>7. QED
  BY <1>4, <1>5, <1>6 DEF TypeOK

\* A call that returns without writing.
LEMMA ReturnStep ==
  ASSUME OneSession, IInv, NEW p \in Session, Return(p), UNCHANGED work_time
  PROVE  IInv'
<1>1. (\A q \in Session : Knows(call[q]))' /\ call' \in [Session -> Call]
  BY ReturnKnows DEF IInv
<1>2. QED
  BY <1>1 DEF IInv, TypeOK, NonOverlapping, Overlapping, UniqueIds

LEMMA RemoveSelectStep ==
  ASSUME OneSession, IInv, NEW p \in Session, RemoveSelect(p)
  PROVE  IInv'
<1> DEFINE c == call[p]
           hit == SplitRows(work_time, c.start, c.end)
<1> USE DEF IInv
<1>1. c \in Call /\ c.start <= c.end
  BY DEF TypeOK, RemoveSelect, At, Knows
<1>2. UNCHANGED work_time
  BY DEF RemoveSelect
<1>3. CASE ~\E r \in work_time : hit = {r}
  <2>1. Return(p)
    BY <1>3 DEF RemoveSelect
  <2>2. QED
    BY <1>2, <2>1, ReturnStep
<1>4. CASE \E r \in work_time : hit = {r}
  <2>1. PICK r \in hit :
           call' = [call EXCEPT ![p] = Found(c, r)]
    BY <1>4 DEF RemoveSelect, TypeOK
  <2>2. r \in work_time /\ Contains(r, c.start, c.end)
    BY DEF SplitRows
  <2>3. r.id \in RowId /\ r.end_time \in Time
    BY <2>2 DEF TypeOK, Row
  <2> DEFINE d == Found(c, r)
  <2>4. d = [next |-> "rm_update", start |-> c.start, end |-> c.end,
             id |-> r.id, v_end |-> r.end_time]
    BY DEF Found
  <2>5. call'[p] = d /\ call' = [call EXCEPT ![p] = d]
    BY <2>1 DEF TypeOK
  <2>6. c.start \in Time /\ c.end \in Time
    BY <1>1 DEF Call
  <2> HIDE DEF d, c, hit
  <2>7. d \in Call
    BY <2>3, <2>4, <2>6 DEF Call, Statement
  <2>8. TypeOK'
    BY <1>2, <2>5, <2>7 DEF TypeOK
  <2>9. Knows(call[p])'
    BY <1>1, <1>2, <2>2, <2>4, <2>5 DEF Knows
  <2>10. QED
    BY <1>2, <2>8, <2>9, KnowsOfStepping DEF NonOverlapping, Overlapping, UniqueIds
<1>5. QED
  BY <1>3, <1>4

\* The row cut at the start of the range leaves the part after it clear.
LEMMA RemoveUpdateStep ==
  ASSUME OneSession, IInv, NEW p \in Session, RemoveUpdate(p)
  PROVE  IInv'
<1> DEFINE c == call[p]
<1> USE DEF IInv
<1>1. c \in Call /\ c.start <= c.end /\ c.next = "rm_update"
  BY DEF TypeOK, RemoveUpdate, At, Knows
<1>2. c.start \in Time /\ c.end \in Time /\ c.v_end \in Time
  BY <1>1 DEF Call
<1>3. PICK r \in work_time : r.id = c.id /\ r.end_time = c.v_end /\ Contains(r, c.start, c.end)
  BY <1>1 DEF Knows
<1>4. r \in Row
  BY DEF TypeOK
<1>5. \A q \in work_time : q.id = c.id <=> q = r
  BY <1>3 DEF UniqueIds
<1>6. CASE UpdateRejected(r, c.start)
  BY <1>3, <1>6, ReturnStep DEF RemoveUpdate
<1>7. CASE ~UpdateRejected(r, c.start)
  <2> DEFINE left == [r EXCEPT !.end_time = c.start]
             d == [c EXCEPT !.next = "rm_insert"]
  <2>1. /\ work_time' = {IF q.id = c.id THEN [q EXCEPT !.end_time = c.start] ELSE q : q \in work_time}
        /\ call' = [call EXCEPT ![p] = d]
    BY <1>5, <1>7 DEF RemoveUpdate, Goto, TypeOK
  <2>2. work_time' = (work_time \ {r}) \cup {left}
    BY <1>3, <1>5, <2>1
  <2>3. left = [id |-> r.id, start_time |-> r.start_time, end_time |-> c.start]
    BY <1>4 DEF Row
  <2>4. left \in Row
    BY <1>2, <1>4, <1>7, <2>3 DEF Row, UpdateRejected
  <2>5. d \in Call /\ call'[p] = d
    BY <1>1, <2>1 DEF Call, Statement, TypeOK
  <2>6. /\ call'[p].start = c.start /\ call'[p].end = c.end
        /\ call'[p].v_end = c.v_end /\ call'[p].next = "rm_insert"
    BY <1>1, <2>5 DEF Call
  <2> HIDE DEF left, d, c
  <2>7. TypeOK'
    BY <2>1, <2>2, <2>4, <2>5 DEF TypeOK
  <2>8. UniqueIds'
    BY <2>2, <2>3 DEF UniqueIds
  <2>9. ASSUME NEW q \in work_time, q # r
        PROVE  /\ Apart(q, left) /\ Apart(left, q)
               /\ q.end_time <= c.end \/ c.v_end <= q.start_time
    <3>1. Apart(q, r) /\ q \in Row
      BY <2>9 DEF TypeOK, NonOverlapping, Overlapping
    <3>2. r.start_time <= c.start /\ c.start <= r.end_time
      BY <1>3 DEF Contains, Between
    <3>3. QED
      BY <1>1, <1>2, <1>3, <1>4, <2>3, <3>1, <3>2, MaxTimeAssumption DEF Apart, Row, Time
  <2>10. NonOverlapping'
    BY <2>2, <2>9 DEF NonOverlapping, Overlapping
  <2>11. Knows(call[p])'
    BY <1>1, <2>2, <2>3, <2>6, <2>9 DEF Knows, Clear
  <2>12. QED
    BY <2>7, <2>8, <2>10, <2>11, KnowsOfStepping
<1>8. QED
  BY <1>6, <1>7

LEMMA RemoveInsertStep ==
  ASSUME OneSession, IInv, NEW p \in Session, RemoveInsert(p)
  PROVE  IInv'
<1> USE DEF IInv
<1>1. call[p] \in Call /\ Clear(work_time, call[p].end, call[p].v_end)
  BY DEF TypeOK, RemoveInsert, At, Knows
<1>2. call[p].end \in Time /\ call[p].v_end \in Time
  BY <1>1 DEF Call
<1>3. InsertRow(call[p].end, call[p].v_end) /\ Return(p)
  BY DEF RemoveInsert
<1>4. work_time' \subseteq Row /\ NonOverlapping' /\ UniqueIds'
  BY <1>1, <1>2, <1>3, InsertRowKeepsApart
<1>5. QED
  BY <1>3, <1>4, ReturnKnows DEF TypeOK

-----------------------------------------------------------------------------
LEMMA NextIInv ==
  ASSUME OneSession, OrderedRemovals
  PROVE  IInv /\ [NextOrAbort]_vars => IInv'
<1> SUFFICES ASSUME IInv, [NextOrAbort]_vars
             PROVE  IInv'
  OBVIOUS
<1>1. ASSUME NEW p \in Session, Insert(p)
      PROVE  IInv'
  BY <1>1, CallInsertStep, InsertPrefixStep, InsertSuffixStep, InsertDeleteStep, InsertInsertStep
  DEF Insert
<1>2. ASSUME NEW p \in Session, Remove(p)
      PROVE  IInv'
  BY <1>2, CallRemoveStep, RemoveDeleteStep, RemoveTrimStartStep, RemoveTrimEndStep,
     RemoveSelectStep, RemoveUpdateStep, RemoveInsertStep
  DEF Remove
<1>3. ASSUME NEW p \in Session, Abort(p)
      PROVE  IInv'
  BY <1>3, ReturnStep DEF Abort
<1>4. CASE UNCHANGED vars
  BY <1>4 DEF vars, IInv, TypeOK, NonOverlapping, Overlapping, UniqueIds, Knows, Uncrossed, Clear
<1>5. QED
  BY <1>1, <1>2, <1>3, <1>4 DEF NextOrAbort, Next

\* No statement of a call, and no call cut short, makes two rows of a work_day
\* overlap (procedures.sql, 645-646), as long as the calls come one at a time
\* and their ranges are ordered.
THEOREM NeverOverlapping ==
  ASSUME OneSession, OrderedRemovals
  PROVE  SpecWithAborts => []NonOverlapping
<1>1. Init => IInv
  BY InitIInv
<1>2. IInv /\ [NextOrAbort]_vars => IInv'
  BY NextIInv
<1>3. IInv => NonOverlapping
  BY DEF IInv
<1>4. QED
  BY <1>1, <1>2, <1>3, PTL DEF SpecWithAborts

\* The CHECK never rejects what the type allows, and the calls' variables keep
\* their types, under the same provisos.
THEOREM TypeCorrect ==
  ASSUME OneSession, OrderedRemovals
  PROVE  SpecWithAborts => []TypeOK
<1>1. Init => IInv
  BY InitIInv
<1>2. IInv /\ [NextOrAbort]_vars => IInv'
  BY NextIInv
<1>3. IInv => TypeOK
  BY DEF IInv
<1>4. QED
  BY <1>1, <1>2, <1>3, PTL DEF SpecWithAborts

-----------------------------------------------------------------------------
(* One call, whole.                                                        *)

\* The intervals of rows.
Projected(rows) == {IntervalOf(r) : r \in rows}

\* The columns that the WHERE clauses and the UPDATEs name are those of the intervals.
LEMMA IntervalColumns ==
  ASSUME NEW r \in Row
  PROVE  /\ IntervalOf(r) \in Interval
         /\ IntervalOf(r).start_time = r.start_time /\ IntervalOf(r).end_time = r.end_time
         /\ \A t \in Time :
              /\ IntervalOf([r EXCEPT !.start_time = t]) = [IntervalOf(r) EXCEPT !.start_time = t]
              /\ IntervalOf([r EXCEPT !.end_time = t]) = [IntervalOf(r) EXCEPT !.end_time = t]
BY DEF IntervalOf, Row, Interval

\* The rows of the day as WorkDay has them.
LEMMA RowsAreProjected == Rows = Projected(work_time) /\ Rows' = Projected(work_time')
BY DEF Rows, Projected

\* Different rows are different intervals, because they do not overlap.
LEMMA ProjectedApart ==
  ASSUME NEW rows, rows \subseteq Row, ~Overlapping(rows)
  PROVE  /\ Projected(rows) \subseteq Interval
         /\ ~Overlapping(Projected(rows))
         /\ \A q, r \in rows : IntervalOf(q) = IntervalOf(r) => q = r
<1>1. \A q \in rows : /\ IntervalOf(q) \in Interval
                      /\ IntervalOf(q).start_time = q.start_time /\ IntervalOf(q).end_time = q.end_time
  BY IntervalColumns
<1>2. \A q, r \in rows : q # r => Apart(q, r)
  BY DEF Overlapping
<1>3. \A q \in rows : ~Apart(q, q)
  BY MaxTimeAssumption DEF Apart, Row, Time
<1>4. \A q, r \in rows : Apart(IntervalOf(q), IntervalOf(r)) <=> Apart(q, r)
  BY <1>1 DEF Apart
<1>5. \A q, r \in rows : IntervalOf(q) = IntervalOf(r) => q = r
  BY <1>2, <1>3, <1>4
<1> QED BY <1>1, <1>2, <1>4, <1>5 DEF Projected, Overlapping

\* What the loops and the statements make of intervals is what they make of rows.
LEMMA ProjectedStatements ==
  ASSUME NEW rows, rows \subseteq Row, NEW s \in Time, NEW e \in Time
  PROVE  /\ PrefixStart(Projected(rows), s) = PrefixStart(rows, s)
         /\ SuffixEnd(Projected(rows), e) = SuffixEnd(rows, e)
         /\ DeleteInside(Projected(rows), s, e) = Projected(DeleteInside(rows, s, e))
         /\ TrimStart(Projected(rows), s, e) = Projected(TrimStart(rows, s, e))
         /\ TrimEnd(Projected(rows), s, e) = Projected(TrimEnd(rows, s, e))
         /\ SplitRows(Projected(rows), s, e) = Projected(SplitRows(rows, s, e))
<1>1. \A r \in rows : /\ IntervalOf(r).start_time = r.start_time /\ IntervalOf(r).end_time = r.end_time
                      /\ IntervalOf([r EXCEPT !.start_time = e]) = [IntervalOf(r) EXCEPT !.start_time = e]
                      /\ IntervalOf([r EXCEPT !.end_time = s]) = [IntervalOf(r) EXCEPT !.end_time = s]
  BY IntervalColumns
<1>2. {r.start_time : r \in {q \in Projected(rows) : Between(s, q.start_time, q.end_time)}}
        = {r.start_time : r \in {q \in rows : Between(s, q.start_time, q.end_time)}}
  <2> DEFINE reaching(R) == {q \in R : Between(s, q.start_time, q.end_time)}
  <2>1. \A q \in reaching(Projected(rows)) : \E r \in reaching(rows) : q.start_time = r.start_time
    <3> SUFFICES ASSUME NEW q \in reaching(Projected(rows))
                 PROVE  \E r \in reaching(rows) : q.start_time = r.start_time
      OBVIOUS
    <3>1. PICK r \in rows : q = IntervalOf(r)
      BY DEF Projected
    <3>2. r \in reaching(rows) /\ q.start_time = r.start_time
      BY <1>1, <3>1
    <3> QED BY <3>2
  <2>2. \A r \in reaching(rows) : \E q \in reaching(Projected(rows)) : q.start_time = r.start_time
    BY <1>1 DEF Projected
  <2> HIDE DEF reaching
  <2>3. {r.start_time : r \in reaching(Projected(rows))} = {r.start_time : r \in reaching(rows)}
    BY <2>1, <2>2
  <2> QED BY <2>3 DEF reaching
<1>3. {r.end_time : r \in {q \in Projected(rows) : Between(e, q.start_time, q.end_time)}}
        = {r.end_time : r \in {q \in rows : Between(e, q.start_time, q.end_time)}}
  <2> DEFINE reaching(R) == {q \in R : Between(e, q.start_time, q.end_time)}
  <2>1. \A q \in reaching(Projected(rows)) : \E r \in reaching(rows) : q.end_time = r.end_time
    <3> SUFFICES ASSUME NEW q \in reaching(Projected(rows))
                 PROVE  \E r \in reaching(rows) : q.end_time = r.end_time
      OBVIOUS
    <3>1. PICK r \in rows : q = IntervalOf(r)
      BY DEF Projected
    <3>2. r \in reaching(rows) /\ q.end_time = r.end_time
      BY <1>1, <3>1
    <3> QED BY <3>2
  <2>2. \A r \in reaching(rows) : \E q \in reaching(Projected(rows)) : q.end_time = r.end_time
    BY <1>1 DEF Projected
  <2> HIDE DEF reaching
  <2>3. {r.end_time : r \in reaching(Projected(rows))} = {r.end_time : r \in reaching(rows)}
    BY <2>1, <2>2
  <2> QED BY <2>3 DEF reaching
<1>4. \A r \in rows : /\ Inside(IntervalOf(r), s, e) <=> Inside(r, s, e)
                      /\ Contains(IntervalOf(r), s, e) <=> Contains(r, s, e)
  BY <1>1 DEF Inside, Contains
<1>5. DeleteInside(Projected(rows), s, e) = Projected(DeleteInside(rows, s, e))
  BY <1>4 DEF Projected, DeleteInside
<1>6. SplitRows(Projected(rows), s, e) = Projected(SplitRows(rows, s, e))
  BY <1>4 DEF Projected, SplitRows
<1>7. TrimStart(Projected(rows), s, e) = Projected(TrimStart(rows, s, e))
  <2> DEFINE trimmed(r) == IF Between(r.start_time, s, e) /\ ~Between(r.end_time, s, e)
                           THEN [r EXCEPT !.start_time = e] ELSE r
  <2>1. \A r \in rows : trimmed(IntervalOf(r)) = IntervalOf(trimmed(r))
    BY <1>1
  <2>2. \A R : TrimStart(R, s, e) = {trimmed(r) : r \in R}
    BY DEF TrimStart
  <2> HIDE DEF trimmed
  <2> QED BY <2>1, <2>2 DEF Projected
<1>8. TrimEnd(Projected(rows), s, e) = Projected(TrimEnd(rows, s, e))
  <2> DEFINE trimmed(r) == IF ~Between(r.start_time, s, e) /\ Between(r.end_time, s, e)
                           THEN [r EXCEPT !.end_time = s] ELSE r
  <2>1. \A r \in rows : trimmed(IntervalOf(r)) = IntervalOf(trimmed(r))
    BY <1>1
  <2>2. \A R : TrimEnd(R, s, e) = {trimmed(r) : r \in R}
    BY DEF TrimEnd
  <2> HIDE DEF trimmed
  <2> QED BY <2>1, <2>2 DEF Projected
<1> QED BY <1>2, <1>3, <1>5, <1>6, <1>7, <1>8 DEF PrefixStart, SuffixEnd

\* WorkDay's procedures are those of this specification.
LEMMA WholeCallsAre ==
  ASSUME NEW rows, NEW s, NEW e
  PROVE  /\ WholeCalls!InsertWorkTime(rows, s, e) = InsertWorkTime(rows, s, e)
         /\ WholeCalls!RemoveWorkTime(rows, s, e) = RemoveWorkTime(rows, s, e)
<1>1. WholeCalls!Time = Time
  BY DEF WholeCalls!Time, Time
<1>2. \A R, t : WholeCalls!PrefixStart(R, t) = PrefixStart(R, t)
  BY <1>1 DEF WholeCalls!PrefixStart, PrefixStart, WholeCalls!IsLeast, IsLeast,
     WholeCalls!Between, Between
<1>3. \A R, t : WholeCalls!SuffixEnd(R, t) = SuffixEnd(R, t)
  BY <1>1 DEF WholeCalls!SuffixEnd, SuffixEnd, WholeCalls!IsGreatest, IsGreatest,
     WholeCalls!Between, Between
<1>4. \A R, t, u : WholeCalls!DeleteInside(R, t, u) = DeleteInside(R, t, u)
  BY DEF WholeCalls!DeleteInside, DeleteInside, WholeCalls!Inside, Inside, WholeCalls!Between, Between
<1>5. \A R, t, u : WholeCalls!Trimmed(R, t, u) = Trimmed(R, t, u)
  BY <1>4 DEF WholeCalls!Trimmed, Trimmed, WholeCalls!TrimStart, TrimStart, WholeCalls!TrimEnd,
     TrimEnd, WholeCalls!Between, Between
<1>6. \A R, t, u : WholeCalls!Split(R, t, u) = Split(R, t, u)
  BY DEF WholeCalls!Split, Split, WholeCalls!SplitRows, SplitRows, WholeCalls!Contains, Contains,
     WholeCalls!Between, Between, WholeCalls!UpdateRejected, UpdateRejected,
     WholeCalls!InsertRejected, InsertRejected
<1> QED BY <1>2, <1>3, <1>4, <1>5, <1>6
        DEF WholeCalls!InsertWorkTime, InsertWorkTime, WholeCalls!RemoveWorkTime, RemoveWorkTime

\* What a call has read, so that the procedure, run at once, would do the same:
\* the ranges it merges come from the arguments, the row it splits is the only one.
Remembers(c) ==
  /\ c.next = "suffix" => \E s \in Time : s <= c.end /\ c.start = PrefixStart(work_time, s)
  /\ c.next = "delete" =>
       \E s, e \in Time :
         s <= e /\ c.start = PrefixStart(work_time, s) /\ c.end = SuffixEnd(work_time, e)
  /\ c.next = "rm_update" =>
       \E r \in work_time : /\ r.id = c.id /\ r.end_time = c.v_end
                            /\ SplitRows(work_time, c.start, c.end) = {r}

RefinementInv == IInv /\ \A p \in Session : Remembers(call[p])

\* Only three steps lead to a statement that has something to remember.
LEMMA RemembersOfStepping ==
  ASSUME OneSession, NEW p \in Session, Remembers(call[p])'
  PROVE  (\A q \in Session : Remembers(call[q]))'
BY DEF OneSession

LEMMA OthersRememberNothing ==
  ASSUME OneSession, TypeOK, NEW p \in Session,
         \/ CallInsert(p) \/ InsertDelete(p) \/ InsertInsert(p)
         \/ CallRemove(p) \/ RemoveDelete(p) \/ RemoveTrimStart(p) \/ RemoveTrimEnd(p)
         \/ RemoveUpdate(p) \/ RemoveInsert(p) \/ Abort(p)
  PROVE  (\A q \in Session : Remembers(call[q]))'
<1>1. call \in [Session -> Call] /\ call[p] \in Call
  BY DEF TypeOK
<1>2. call'[p].next \notin {"suffix", "delete", "rm_update"}
  <2>1. CASE CallInsert(p) \/ CallRemove(p)
    BY <1>1, <2>1 DEF CallInsert, CallRemove, Start
  <2>2. CASE InsertInsert(p) \/ RemoveInsert(p) \/ Abort(p)
    BY <1>1, <2>2 DEF InsertInsert, RemoveInsert, Abort, Return, Idle, Start
  <2>3. CASE InsertDelete(p) \/ RemoveDelete(p) \/ RemoveTrimStart(p) \/ RemoveTrimEnd(p)
    BY <1>1, <2>3 DEF InsertDelete, RemoveDelete, RemoveTrimStart, RemoveTrimEnd, Goto, Call
  <2>4. CASE RemoveUpdate(p)
    <3>1. Return(p) \/ Goto(p, "rm_insert")
      BY <2>4 DEF RemoveUpdate
    <3> QED BY <1>1, <3>1 DEF Return, Goto, Idle, Start, Call
  <2> QED BY <2>1, <2>2, <2>3, <2>4
<1>3. Remembers(call[p])'
  BY <1>2 DEF Remembers
<1> QED BY <1>3, RemembersOfStepping

LEMMA RefinementInvStep ==
  ASSUME OneSession, OrderedRemovals, RefinementInv, [NextOrAbort]_vars
  PROVE  RefinementInv'
<1>1. IInv'
  BY NextIInv DEF RefinementInv
<1>2. TypeOK /\ IInv
  BY DEF RefinementInv, IInv
<1>3. ASSUME NEW p \in Session, Insert(p) \/ Remove(p) \/ Abort(p)
      PROVE  (\A q \in Session : Remembers(call[q]))'
  <2> DEFINE c == call[p]
  <2>1. c \in Call /\ c.start \in Time /\ c.end \in Time
    BY <1>2 DEF TypeOK, Call
  <2>2. c.next # "idle" => c.start <= c.end
    BY <1>2 DEF IInv, Knows
  <2>3. Remembers(c)
    BY DEF RefinementInv
  <2>4. CASE InsertPrefix(p)
    <3>1. /\ c.next = "prefix" /\ work_time' = work_time
          /\ call'[p] = [c EXCEPT !.start = PrefixStart(work_time, c.start), !.next = "suffix"]
      BY <1>2, <2>4 DEF InsertPrefix, At, TypeOK
    <3> HIDE DEF c
    <3>2. /\ call'[p].next = "suffix" /\ call'[p].end = c.end
          /\ call'[p].start = PrefixStart(work_time, c.start)
      BY <2>1, <3>1 DEF Call
    <3>3. c.start <= c.end
      BY <2>2, <3>1
    <3>4. Remembers(call[p])'
      BY <2>1, <3>1, <3>2, <3>3 DEF Remembers
    <3> QED BY <3>4, RemembersOfStepping
  <2>5. CASE InsertSuffix(p)
    <3>1. /\ c.next = "suffix" /\ work_time' = work_time
          /\ call'[p] = [c EXCEPT !.end = SuffixEnd(work_time, c.end), !.next = "delete"]
      BY <1>2, <2>5 DEF InsertSuffix, At, TypeOK
    <3>2. PICK s \in Time : s <= c.end /\ c.start = PrefixStart(work_time, s)
      BY <2>3, <3>1 DEF Remembers
    <3> HIDE DEF c
    <3>3. /\ call'[p].next = "delete" /\ call'[p].start = c.start
          /\ call'[p].end = SuffixEnd(work_time, c.end)
      BY <2>1, <3>1 DEF Call
    <3>4. Remembers(call[p])'
      BY <2>1, <3>1, <3>2, <3>3 DEF Remembers
    <3> QED BY <3>4, RemembersOfStepping
  <2>6. CASE RemoveSelect(p)
    <3>1. c.next = "rm_select" /\ work_time' = work_time
      BY <2>6 DEF RemoveSelect, At
    <3>2. CASE \E r \in work_time : SplitRows(work_time, c.start, c.end) = {r}
      <4>1. PICK r \in work_time : SplitRows(work_time, c.start, c.end) = {r}
        BY <3>2
      <4>2. call'[p] = Found(c, r)
        BY <1>2, <2>6, <4>1 DEF RemoveSelect, TypeOK
      <4> HIDE DEF c
      <4>3. /\ call'[p].next = "rm_update" /\ call'[p].start = c.start /\ call'[p].end = c.end
            /\ call'[p].id = r.id /\ call'[p].v_end = r.end_time
        BY <4>2 DEF Found
      <4>4. Remembers(call[p])'
        BY <3>1, <4>1, <4>3 DEF Remembers
      <4> QED BY <4>4, RemembersOfStepping
    <3>3. CASE ~\E r \in work_time : SplitRows(work_time, c.start, c.end) = {r}
      <4>1. Return(p)
        BY <2>6, <3>3 DEF RemoveSelect
      <4>2. call'[p].next = "idle"
        BY <1>2, <4>1 DEF Return, Idle, Start, TypeOK
      <4>3. Remembers(call[p])'
        BY <4>2 DEF Remembers
      <4> QED BY <4>3, RemembersOfStepping
    <3> QED BY <3>2, <3>3
  <2>7. CASE ~InsertPrefix(p) /\ ~InsertSuffix(p) /\ ~RemoveSelect(p)
    BY <1>2, <1>3, <2>7, OthersRememberNothing DEF Insert, Remove
  <2> QED BY <2>4, <2>5, <2>6, <2>7
<1>4. CASE UNCHANGED vars
  BY <1>1, <1>4 DEF vars, RefinementInv, Remembers
<1> QED BY <1>1, <1>3, <1>4 DEF RefinementInv, NextOrAbort, Next

LEMMA RefinementInvariance ==
  ASSUME OneSession, OrderedRemovals
  PROVE  SpecWithAborts => []RefinementInv
<1>1. Init => RefinementInv
  BY InitIInv DEF Init, RefinementInv, Remembers, Idle, Start
<1>2. RefinementInv /\ [NextOrAbort]_vars => RefinementInv'
  BY RefinementInvStep
<1> QED BY <1>1, <1>2, PTL DEF SpecWithAborts

\* With one session there is one call to settle.
LEMMA SettledIs ==
  ASSUME OneSession, NEW p \in Session
  PROVE  /\ Settled = Outcome(call[p])
         /\ Settled' = Outcome(call[p])'
<1>1. \A q \in Session : q = p
  BY DEF OneSession
<1>2. Settled = Outcome(call[p])
  <2>1. CASE At(p, "idle")
    BY <1>1, <2>1 DEF Settled, At, Outcome
  <2>2. CASE ~At(p, "idle")
    <3>1. (CHOOSE q \in Session : ~At(q, "idle")) = p
      BY <1>1, <2>2
    <3> QED BY <2>2, <3>1 DEF Settled
  <2> QED BY <2>1, <2>2
<1>3. Settled' = Outcome(call[p])'
  <2>1. CASE At(p, "idle")'
    BY <1>1, <2>1 DEF Settled, At, Outcome
  <2>2. CASE ~At(p, "idle")'
    <3>1. (CHOOSE q \in Session : ~At(q, "idle")') = p
      BY <1>1, <2>2
    <3> QED BY <2>2, <3>1 DEF Settled
  <2> QED BY <2>1, <2>2
<1> QED BY <1>2, <1>3

\* Before its first writing statement a call has done nothing.
LEMMA ReadingSettles ==
  ASSUME OneSession, TypeOK, NEW p \in Session,
         CallInsert(p) \/ InsertPrefix(p) \/ InsertSuffix(p) \/ CallRemove(p)
  PROVE  Settled' = Settled
<1>1. call \in [Session -> Call] /\ call[p] \in Call
  BY DEF TypeOK
<1>2. work_time' = work_time
  BY DEF CallInsert, InsertPrefix, InsertSuffix, CallRemove
<1>3. call[p].next \in {"idle", "prefix", "suffix"}
  BY DEF CallInsert, InsertPrefix, InsertSuffix, CallRemove, At
<1>4. call'[p].next \in {"prefix", "suffix", "delete", "rm_delete"}
  <2>1. CASE CallInsert(p) \/ CallRemove(p)
    BY <1>1, <2>1 DEF CallInsert, CallRemove, Start
  <2>2. CASE InsertPrefix(p)
    BY <1>1, <2>2 DEF InsertPrefix, Call
  <2>3. CASE InsertSuffix(p)
    BY <1>1, <2>3 DEF InsertSuffix, Call
  <2> QED BY <2>1, <2>2, <2>3
<1>5. Outcome(call[p]) = Rows
  BY <1>3 DEF Outcome
<1>6. Outcome(call[p])' = Rows'
  BY <1>4 DEF Outcome
<1>7. Rows' = Rows
  BY <1>2 DEF Rows
<1> QED BY <1>5, <1>6, <1>7, SettledIs

\* A statement of a call that goes on leaves its arguments.
LEMMA GotoCall ==
  ASSUME TypeOK, NEW p \in Session, NEW statement \in Statement, Goto(p, statement)
  PROVE  /\ call[p] \in Call /\ call[p].start \in Time /\ call[p].end \in Time
         /\ call'[p].next = statement
         /\ call'[p].start = call[p].start /\ call'[p].end = call[p].end
         /\ call'[p].v_end = call[p].v_end
BY DEF TypeOK, Goto, Call

\* What is left of an insertion by the time it deletes is its INSERT.
LEMMA InsertDeleteIsInsert ==
  ASSUME OneSession, RefinementInv, NEW p \in Session, InsertDelete(p)
  PROVE  WholeCalls!DayNext
<1> DEFINE c == call[p]
           S == c.start
           E == c.end
<1>1. c.next = "delete" /\ Goto(p, "insert") /\ work_time' = DeleteInside(work_time, S, E)
  BY DEF InsertDelete, At
<1>2. TypeOK /\ work_time \subseteq Row /\ S \in Time /\ E \in Time /\ S <= E
  <2>1. c \in Call /\ S <= E
    BY <1>1 DEF RefinementInv, IInv, TypeOK, Knows
  <2> QED BY <2>1 DEF RefinementInv, IInv, TypeOK, Call
<1>3. PICK s \in Time, e \in Time :
        s <= e /\ S = PrefixStart(work_time, s) /\ E = SuffixEnd(work_time, e)
  BY <1>1 DEF RefinementInv, Remembers
<1>4. S = PrefixStart(Rows, s) /\ E = SuffixEnd(Rows, e)
  BY <1>2, <1>3, ProjectedStatements, RowsAreProjected
<1>5. Rows' = DeleteInside(Rows, S, E)
  BY <1>1, <1>2, ProjectedStatements, RowsAreProjected
<1>6. /\ call'[p].next = "insert" /\ call'[p].start = S /\ call'[p].end = E
  <2>1. "insert" \in Statement
    BY DEF Statement
  <2> QED BY <1>1, <1>2, <2>1, GotoCall
<1>7. Settled = Rows
  BY <1>1, SettledIs DEF Outcome
<1>8. Settled' = Rows' \cup NewInterval(S, E)
  BY <1>6, SettledIs DEF Outcome
<1> HIDE DEF S, E, c
<1>9. Settled' = InsertWorkTime(Rows, s, e)
  <2>1. ~(e < s)
    BY <1>3, MaxTimeAssumption DEF Time
  <2>2. CASE S < E
    BY <1>4, <1>5, <1>8, <2>1, <2>2 DEF InsertWorkTime, NewInterval
  <2>3. CASE ~(S < E)
    <3>1. \A r \in work_time : ~Inside(r, S, E)
      BY <1>2, <2>3, MaxTimeAssumption DEF Inside, Between, Row, Time
    <3>2. work_time' = work_time
      BY <1>1, <3>1 DEF DeleteInside, S, E
    <3>3. Rows' = Rows
      BY <3>2 DEF Rows
    <3> QED BY <1>4, <1>8, <2>3, <3>3 DEF InsertWorkTime, NewInterval
  <2> QED BY <2>2, <2>3
<1>10. WholeCalls!p_insert_work_time(s, e)
  BY <1>7, <1>9, WholeCallsAre DEF WholeCalls!p_insert_work_time
<1> QED BY <1>10 DEF WholeCalls!DayNext, WholeCalls!Time, Time

\* The INSERT adds the interval it was left with.
LEMMA InsertingSettles ==
  ASSUME OneSession, TypeOK, NEW p \in Session, InsertInsert(p) \/ RemoveInsert(p)
  PROVE  Settled' = Settled
<1>1. call \in [Session -> Call] /\ Return(p)
  BY DEF TypeOK, InsertInsert, RemoveInsert
<1>2. call'[p].next = "idle"
  BY <1>1 DEF Return, Idle, Start
<1>3. Settled' = Rows'
  BY <1>2, SettledIs DEF Outcome
<1>4. PICK s, e : InsertRow(s, e) /\ Settled = Rows \cup NewInterval(s, e)
  BY SettledIs DEF InsertInsert, RemoveInsert, At, Outcome
<1>5. Rows' = Rows \cup NewInterval(s, e)
  <2>1. CASE s < e
    <3>1. PICK i : work_time' = work_time \cup {[id |-> i, start_time |-> s, end_time |-> e]}
      BY <1>4, <2>1 DEF InsertRow
    <3>2. IntervalOf([id |-> i, start_time |-> s, end_time |-> e]) = [start_time |-> s, end_time |-> e]
      BY DEF IntervalOf
    <3>3. NewInterval(s, e) = {[start_time |-> s, end_time |-> e]}
      BY <2>1 DEF NewInterval
    <3> QED BY <3>1, <3>2, <3>3 DEF Rows
  <2>2. CASE ~(s < e)
    BY <1>4, <2>2 DEF InsertRow, NewInterval, Rows
  <2> QED BY <2>1, <2>2
<1> QED BY <1>3, <1>4, <1>5

\* The DELETE of a removal leaves the trims and the split to be done.
LEMMA RemoveDeleteIsRemove ==
  ASSUME OneSession, RefinementInv, NEW p \in Session, RemoveDelete(p)
  PROVE  WholeCalls!DayNext
<1> DEFINE c == call[p]
           s == c.start
           e == c.end
<1>1. c.next = "rm_delete" /\ Goto(p, "rm_trim_start") /\ work_time' = DeleteInside(work_time, s, e)
  BY DEF RemoveDelete, At
<1>2. TypeOK /\ work_time \subseteq Row /\ s \in Time /\ e \in Time /\ s <= e
  <2>1. c \in Call /\ s <= e
    BY <1>1 DEF RefinementInv, IInv, TypeOK, Knows
  <2> QED BY <2>1 DEF RefinementInv, IInv, TypeOK, Call
<1>3. Rows' = DeleteInside(Rows, s, e)
  BY <1>1, <1>2, ProjectedStatements, RowsAreProjected
<1>4. call'[p].next = "rm_trim_start" /\ call'[p].start = s /\ call'[p].end = e
  <2>1. "rm_trim_start" \in Statement
    BY DEF Statement
  <2> QED BY <1>1, <1>2, <2>1, GotoCall
<1>5. Settled = Rows
  BY <1>1, SettledIs DEF Outcome
<1>6. Settled' = Split(TrimEnd(TrimStart(Rows', s, e), s, e), s, e)
  BY <1>4, SettledIs DEF Outcome
<1> HIDE DEF s, e, c
<1>7. Settled' = RemoveWorkTime(Rows, s, e)
  BY <1>3, <1>6 DEF RemoveWorkTime, Trimmed
<1>8. WholeCalls!p_remove_work_time(s, e)
  BY <1>2, <1>5, <1>7, WholeCallsAre DEF WholeCalls!p_remove_work_time
<1> QED BY <1>2, <1>8 DEF WholeCalls!DayNext, WholeCalls!Time, Time

\* The trims do what was left of them.
LEMMA TrimmingSettles ==
  ASSUME OneSession, TypeOK, NEW p \in Session, RemoveTrimStart(p) \/ RemoveTrimEnd(p)
  PROVE  Settled' = Settled
<1> DEFINE c == call[p]
           s == c.start
           e == c.end
<1>1. work_time \subseteq Row /\ s \in Time /\ e \in Time
  BY DEF TypeOK, Call
<1>2. CASE RemoveTrimStart(p)
  <2>1. c.next = "rm_trim_start" /\ Goto(p, "rm_trim_end") /\ work_time' = TrimStart(work_time, s, e)
    BY <1>2 DEF RemoveTrimStart, At
  <2>2. Rows' = TrimStart(Rows, s, e)
    BY <1>1, <2>1, ProjectedStatements, RowsAreProjected
  <2>3. call'[p].next = "rm_trim_end" /\ call'[p].start = s /\ call'[p].end = e
    <3>1. "rm_trim_end" \in Statement
      BY DEF Statement
    <3> QED BY <2>1, <3>1, GotoCall
  <2>4. Settled = Split(TrimEnd(TrimStart(Rows, s, e), s, e), s, e)
    BY <2>1, SettledIs DEF Outcome
  <2>5. Settled' = Split(TrimEnd(Rows', s, e), s, e)
    BY <2>3, SettledIs DEF Outcome
  <2> QED BY <2>2, <2>4, <2>5
<1>3. CASE RemoveTrimEnd(p)
  <2>1. c.next = "rm_trim_end" /\ Goto(p, "rm_select") /\ work_time' = TrimEnd(work_time, s, e)
    BY <1>3 DEF RemoveTrimEnd, At
  <2>2. Rows' = TrimEnd(Rows, s, e)
    BY <1>1, <2>1, ProjectedStatements, RowsAreProjected
  <2>3. call'[p].next = "rm_select" /\ call'[p].start = s /\ call'[p].end = e
    <3>1. "rm_select" \in Statement
      BY DEF Statement
    <3> QED BY <2>1, <3>1, GotoCall
  <2>4. Settled = Split(TrimEnd(Rows, s, e), s, e)
    BY <2>1, SettledIs DEF Outcome
  <2>5. Settled' = Split(Rows', s, e)
    BY <2>3, SettledIs DEF Outcome
  <2> QED BY <2>2, <2>4, <2>5
<1> QED BY <1>2, <1>3

\* The row to split is the one of the intervals; none, or two, is none of them.
LEMMA SplitOfRows ==
  ASSUME TypeOK, NonOverlapping, NEW s \in Time, NEW e \in Time
  PROVE  /\ \A r \in work_time :
              SplitRows(Rows, s, e) = {IntervalOf(r)} <=> SplitRows(work_time, s, e) = {r}
         /\ (~\E r \in work_time : SplitRows(work_time, s, e) = {r}) => Split(Rows, s, e) = Rows
<1>1. /\ work_time \subseteq Row
      /\ \A q, r \in work_time : IntervalOf(q) = IntervalOf(r) => q = r
      /\ SplitRows(work_time, s, e) \subseteq work_time
  BY ProjectedApart DEF TypeOK, NonOverlapping, SplitRows
<1>2. SplitRows(Rows, s, e) = {IntervalOf(r) : r \in SplitRows(work_time, s, e)}
  <2>1. SplitRows(Rows, s, e) = Projected(SplitRows(work_time, s, e))
    BY <1>1, ProjectedStatements, RowsAreProjected
  <2> QED BY <2>1 DEF Projected
<1>3. ASSUME NEW r \in work_time
      PROVE  SplitRows(Rows, s, e) = {IntervalOf(r)} <=> SplitRows(work_time, s, e) = {r}
  <2>1. ASSUME SplitRows(Rows, s, e) = {IntervalOf(r)}
        PROVE  SplitRows(work_time, s, e) = {r}
    <3>1. \A q \in SplitRows(work_time, s, e) : q = r
      BY <1>1, <1>2, <2>1
    <3>2. SplitRows(work_time, s, e) # {}
      BY <1>2, <2>1
    <3> QED BY <3>1, <3>2
  <2>2. ASSUME SplitRows(work_time, s, e) = {r}
        PROVE  SplitRows(Rows, s, e) = {IntervalOf(r)}
    BY <1>2, <2>2
  <2> QED BY <2>1, <2>2
<1>4. ASSUME ~\E r \in work_time : SplitRows(work_time, s, e) = {r}
      PROVE  Split(Rows, s, e) = Rows
  <2>1. \A i \in Rows : \E r \in work_time : i = IntervalOf(r)
    BY DEF Rows
  <2>2. ~\E i \in Rows : SplitRows(Rows, s, e) = {i}
    BY <1>3, <1>4, <2>1
  <2> QED BY <2>2 DEF Split
<1> QED BY <1>3, <1>4

\* The SELECT finds the row to split, or there is nothing left to do.
LEMMA SelectSettles ==
  ASSUME OneSession, RefinementInv, NEW p \in Session, RemoveSelect(p)
  PROVE  Settled' = Settled
<1> DEFINE c == call[p]
           s == c.start
           e == c.end
<1>1. c.next = "rm_select" /\ work_time' = work_time
  BY DEF RemoveSelect, At
<1>2. TypeOK /\ NonOverlapping /\ call \in [Session -> Call] /\ s \in Time /\ e \in Time
  BY DEF RefinementInv, IInv, TypeOK, Call
<1>3. Rows' = Rows
  BY <1>1 DEF Rows
<1>4. Settled = Split(Rows, s, e)
  BY <1>1, SettledIs DEF Outcome
<1>5. CASE \E r \in work_time : SplitRows(work_time, s, e) = {r}
  <2>1. PICK r \in work_time : call'[p] = Found(c, r)
    BY <1>2, <1>5 DEF RemoveSelect
  <2>2. call'[p].next = "rm_update" /\ call'[p].start = s /\ call'[p].end = e
    BY <2>1 DEF Found
  <2>3. Settled' = Split(Rows', s, e)
    BY <2>2, SettledIs DEF Outcome
  <2> QED BY <1>3, <1>4, <2>3
<1>6. CASE ~\E r \in work_time : SplitRows(work_time, s, e) = {r}
  <2>1. Return(p)
    BY <1>6 DEF RemoveSelect
  <2>2. call'[p].next = "idle"
    BY <1>2, <2>1 DEF Return, Idle, Start
  <2>3. Settled' = Rows'
    BY <2>2, SettledIs DEF Outcome
  <2>4. Split(Rows, s, e) = Rows
    BY <1>2, <1>6, SplitOfRows
  <2> QED BY <1>3, <1>4, <2>3, <2>4
<1> QED BY <1>5, <1>6

\* The UPDATE cuts the row and leaves the part after the range to the INSERT; the
\* CHECK rejects both or none of what Split would have done.
LEMMA UpdateSettles ==
  ASSUME OneSession, RefinementInv, NEW p \in Session, RemoveUpdate(p)
  PROVE  Settled' = Settled
<1> DEFINE c == call[p]
           s == c.start
           e == c.end
<1>1. c.next = "rm_update"
  BY DEF RemoveUpdate, At
<1>2. /\ TypeOK /\ NonOverlapping /\ UniqueIds
      /\ call \in [Session -> Call] /\ s \in Time /\ e \in Time
  BY DEF RefinementInv, IInv, TypeOK, Call
<1>3. PICK r \in work_time : r.id = c.id /\ r.end_time = c.v_end /\ SplitRows(work_time, s, e) = {r}
  BY <1>1 DEF RefinementInv, Remembers
<1> DEFINE i == IntervalOf(r)
<1>4. /\ i \in Rows /\ SplitRows(Rows, s, e) = {i}
      /\ i.start_time = r.start_time /\ i.end_time = c.v_end
  <2>1. r \in Row
    BY <1>2 DEF TypeOK
  <2> QED BY <1>2, <1>3, <2>1, SplitOfRows, IntervalColumns DEF Rows
<1>5. Settled = Split(Rows, s, e)
  BY <1>1, SettledIs DEF Outcome
<1>6. \A q \in work_time : q.id = c.id <=> q = r
  BY <1>2, <1>3 DEF UniqueIds
<1>7. CASE UpdateRejected(r, s)
  <2>1. Return(p) /\ work_time' = work_time
    BY <1>3, <1>7 DEF RemoveUpdate
  <2>2. call'[p].next = "idle"
    BY <1>2, <2>1 DEF Return, Idle, Start
  <2>3. Settled' = Rows'
    BY <2>2, SettledIs DEF Outcome
  <2>4. Rows' = Rows
    BY <2>1 DEF Rows
  <2>5. UpdateRejected(i, s)
    BY <1>4, <1>7 DEF UpdateRejected
  <2> HIDE DEF i
  <2>6. Split(Rows, s, e) = Rows
    BY <1>4, <2>5 DEF Split
  <2> QED BY <1>5, <2>3, <2>4, <2>6
<1>8. CASE ~UpdateRejected(r, s)
  <2> DEFINE left == [i EXCEPT !.end_time = s]
  <2>1. /\ work_time' = {IF q.id = c.id THEN [q EXCEPT !.end_time = s] ELSE q : q \in work_time}
        /\ Goto(p, "rm_insert")
    BY <1>6, <1>8 DEF RemoveUpdate
  <2>2. work_time' = (work_time \ {r}) \cup {[r EXCEPT !.end_time = s]}
    BY <1>3, <1>6, <2>1
  <2>3. IntervalOf([r EXCEPT !.end_time = s]) = left
    BY <1>2, IntervalColumns DEF TypeOK
  <2>4. \A q \in work_time : IntervalOf(q) = i => q = r
    BY <1>2, ProjectedApart DEF TypeOK, NonOverlapping
  <2> HIDE DEF i, left
  <2>5. Rows' = (Rows \ {i}) \cup {left}
    <3>1. \A q \in work_time \ {r} : IntervalOf(q) # i
      BY <2>4
    <3>2. IntervalOf(r) = i
      BY DEF i
    <3> QED BY <1>3, <2>2, <2>3, <3>1, <3>2 DEF Rows
  <2>6. /\ call'[p].next = "rm_insert" /\ call'[p].start = s /\ call'[p].end = e
        /\ call'[p].v_end = c.v_end
    <3>1. "rm_insert" \in Statement
      BY DEF Statement
    <3> QED BY <1>2, <2>1, <3>1, GotoCall
  <2>7. Settled' = Rows' \cup NewInterval(e, c.v_end)
    BY <2>6, SettledIs DEF Outcome
  <2>8. ~UpdateRejected(i, s)
    BY <1>4, <1>8 DEF UpdateRejected
  <2>9. Split(Rows, s, e) = (Rows \ {i}) \cup {left} \cup NewInterval(e, i.end_time)
    <3>1. (CHOOSE q \in Rows : SplitRows(Rows, s, e) = {q}) = i
      BY <1>4
    <3>2. \E q \in Rows : SplitRows(Rows, s, e) = {q} /\ ~UpdateRejected(q, s)
      BY <1>4, <2>8
    <3>3. {q \in {[start_time |-> e, end_time |-> i.end_time]} : ~InsertRejected(i, e)}
            = NewInterval(e, i.end_time)
      BY DEF InsertRejected, NewInterval
    <3> QED BY <3>1, <3>2, <3>3 DEF Split, left
  <2> QED BY <1>4, <1>5, <2>5, <2>7, <2>9
<1> QED BY <1>7, <1>8

\* A call that is not cut short implements the procedure: all at once, when its first
\* statement writes.
THEOREM CallsAreWhole ==
  ASSUME OneSession, OrderedRemovals
  PROVE  SpecWithAborts => WholeCallsSpec
<1>1. Init => WholeCalls!DayInit
  <2> SUFFICES ASSUME Init
               PROVE  Settled = {}
    BY DEF WholeCalls!DayInit
  <2>1. \A p \in Session : At(p, "idle")
    BY DEF Init, At, Idle, Start
  <2> QED BY <2>1 DEF Init, Settled, Rows
<1>2. RefinementInv /\ [NextOrAbort]_vars
        => [WholeCalls!DayNext \/ \E p \in Session : Abort(p)]_Settled
  <2> SUFFICES ASSUME RefinementInv, [NextOrAbort]_vars
               PROVE  WholeCalls!DayNext \/ (\E p \in Session : Abort(p)) \/ Settled' = Settled
    OBVIOUS
  <2>1. TypeOK
    BY DEF RefinementInv, IInv
  <2>2. ASSUME NEW p \in Session, Insert(p)
        PROVE  WholeCalls!DayNext \/ Settled' = Settled
    BY <2>1, <2>2, ReadingSettles, InsertDeleteIsInsert, InsertingSettles DEF Insert
  <2>3. ASSUME NEW p \in Session, Remove(p)
        PROVE  WholeCalls!DayNext \/ Settled' = Settled
    BY <2>1, <2>3, ReadingSettles, RemoveDeleteIsRemove, TrimmingSettles, SelectSettles,
       UpdateSettles, InsertingSettles
    DEF Remove
  <2>4. CASE UNCHANGED vars
    BY <2>4 DEF vars, Settled, At, Outcome, Rows
  <2> QED BY <2>2, <2>3, <2>4 DEF NextOrAbort, Next
<1> QED BY <1>1, <1>2, RefinementInvariance, PTL DEF SpecWithAborts, WholeCallsSpec

\* Statements that write do so in the scope of their call.
LEMMA WritesInScope ==
  ASSUME IInv, NEW p \in Session,
         \/ InsertDelete(p) \/ InsertInsert(p) \/ RemoveDelete(p) \/ RemoveTrimStart(p)
         \/ RemoveTrimEnd(p) \/ RemoveUpdate(p) \/ RemoveInsert(p)
  PROVE  Covered(work_time') \ Scope(call[p]) = Covered(work_time) \ Scope(call[p])
<1> DEFINE c == call[p]
           s == c.start
           e == c.end
<1>1. /\ work_time \subseteq Row /\ c \in Call
      /\ s \in Time /\ e \in Time /\ c.v_end \in Time
  BY DEF IInv, TypeOK, Call
<1>2. c.next # "idle" /\ s <= e
  BY DEF IInv, Knows, At, InsertDelete, InsertInsert, RemoveDelete, RemoveTrimStart, RemoveTrimEnd,
     RemoveUpdate, RemoveInsert
<1>3. Admitted(work_time) /\ Columns(work_time) /\ ~Overlapping(work_time)
  BY <1>1, RowFacts DEF IInv, NonOverlapping
<1>4. Slots(s, e) \subseteq Scope(c)
  BY DEF Scope
<1>5. Covered(work_time) \subseteq Slot /\ Covered(work_time') \subseteq Slot
  BY DEF Covered
<1>6. ASSUME SameOutside(work_time, work_time', s, e)
      PROVE  Covered(work_time') \ Scope(c) = Covered(work_time) \ Scope(c)
  BY <1>4, <1>5, <1>6 DEF SameOutside
<1>7. CASE InsertDelete(p) \/ RemoveDelete(p)
  <2>1. work_time' = DeleteInside(work_time, s, e)
    BY <1>7 DEF InsertDelete, RemoveDelete
  <2> QED BY <1>1, <1>3, <1>6, <2>1, DeleteInsideDeletes
<1>8. CASE RemoveTrimStart(p)
  <2>1. work_time' = TrimStart(work_time, s, e)
    BY <1>8 DEF RemoveTrimStart
  <2> QED BY <1>1, <1>2, <1>3, <1>6, <2>1, TrimStartTrims
<1>9. CASE RemoveTrimEnd(p)
  <2>1. work_time' = TrimEnd(work_time, s, e)
    BY <1>9 DEF RemoveTrimEnd
  <2> QED BY <1>1, <1>2, <1>3, <1>6, <2>1, TrimEndTrims
<1>10. ASSUME NEW t \in Time, NEW u \in Time, InsertRow(t, u), Slots(t, u) \subseteq Scope(c)
       PROVE  Covered(work_time') \ Scope(c) = Covered(work_time) \ Scope(c)
  <2>1. CASE t < u
    <3>1. PICK i : work_time' = work_time \cup {[id |-> i, start_time |-> t, end_time |-> u]}
      BY <1>10, <2>1 DEF InsertRow
    <3>2. PICK new : work_time' = work_time \cup {new} /\ new.start_time = t /\ new.end_time = u
      <4> DEFINE new == [id |-> i, start_time |-> t, end_time |-> u]
      <4>1. new.start_time = t /\ new.end_time = u
        OBVIOUS
      <4> HIDE DEF new
      <4> QED BY <3>1, <4>1 DEF new
    <3>3. Covered(work_time') = Covered(work_time) \cup Slots(t, u)
      <4>1. \A k \in Slot : k \in Slots(t, u) <=> new.start_time <= k /\ k < new.end_time
        BY <3>2 DEF Slots
      <4>2. Slots(t, u) \subseteq Slot
        BY DEF Slots
      <4> QED BY <3>2, <4>1, <4>2 DEF Covered
    <3> QED BY <1>10, <3>3
  <2>2. CASE ~(t < u)
    BY <1>10, <2>2 DEF InsertRow
  <2> QED BY <2>1, <2>2
<1>11. CASE InsertInsert(p)
  BY <1>1, <1>4, <1>10, <1>11 DEF InsertInsert
<1>12. CASE RemoveInsert(p)
  <2>1. c.next = "rm_insert" /\ InsertRow(e, c.v_end)
    BY <1>12 DEF RemoveInsert, At
  <2>2. Slots(e, c.v_end) \subseteq Scope(c)
    BY <2>1 DEF Scope
  <2> QED BY <1>1, <1>10, <2>1, <2>2
<1>13. CASE RemoveUpdate(p)
  <2>1. c.next = "rm_update"
    BY <1>13 DEF RemoveUpdate, At
  <2>2. PICK r \in work_time : r.id = c.id /\ r.end_time = c.v_end /\ Contains(r, s, e)
    BY <2>1 DEF IInv, Knows
  <2>3. \A q \in work_time : q.id = c.id <=> q = r
    BY <2>2 DEF IInv, UniqueIds
  <2>4. CASE work_time' = work_time
    BY <2>4
  <2>5. CASE work_time' # work_time
    <3> DEFINE left == [r EXCEPT !.end_time = s]
    <3>1. work_time' = {IF q.id = c.id THEN [q EXCEPT !.end_time = s] ELSE q : q \in work_time}
      BY <1>13, <2>5 DEF RemoveUpdate
    <3>2. work_time' = (work_time \ {r}) \cup {left}
      BY <2>2, <2>3, <3>1
    <3>3. left.start_time = r.start_time /\ left.end_time = s
      BY <1>1, <1>3, <2>2 DEF Columns
    <3>4. /\ r.start_time \in Time /\ r.end_time \in Time /\ r.start_time <= s /\ s <= r.end_time
      BY <1>3, <2>2 DEF Contains, Between, Admitted
    <3> HIDE DEF left
    <3>5. Scope(c) = Slots(s, e) \cup Slots(e, c.v_end)
      BY <2>1 DEF Scope
    <3>6. ASSUME NEW k \in Slot, k \notin Scope(c)
          PROVE  r.start_time <= k /\ k < r.end_time <=> left.start_time <= k /\ k < left.end_time
      BY <1>1, <1>2, <2>2, <3>3, <3>4, <3>5, <3>6, MaxTimeAssumption DEF Slots, Slot, Time
    <3> QED BY <2>2, <3>2, <3>6 DEF Covered
  <2> QED BY <2>4, <2>5
<1> QED BY <1>7, <1>8, <1>9, <1>11, <1>12, <1>13

\* Whatever statement of a call is the last to run, time outside the call's range, as far
\* as it has merged, and outside the part a split has in hand is planned as before.
THEOREM OnlyTheScopeIsDamaged ==
  ASSUME OneSession, OrderedRemovals
  PROVE  SpecWithAborts => DamageContained
<1>1. IInv /\ [NextOrAbort]_vars =>
        [\A p \in Session : call'[p] # call[p] =>
           Covered(work_time') \ Scope(call[p]) = Covered(work_time) \ Scope(call[p])]_vars
  <2> SUFFICES ASSUME IInv, NextOrAbort, NEW p \in Session
               PROVE  Covered(work_time') \ Scope(call[p]) = Covered(work_time) \ Scope(call[p])
    BY DEF vars
  <2>1. Insert(p) \/ Remove(p) \/ Abort(p)
    BY DEF NextOrAbort, Next, OneSession
  <2>2. CASE work_time' = work_time
    BY <2>2
  <2>3. CASE \/ InsertDelete(p) \/ InsertInsert(p) \/ RemoveDelete(p) \/ RemoveTrimStart(p)
             \/ RemoveTrimEnd(p) \/ RemoveUpdate(p) \/ RemoveInsert(p)
    BY <2>3, WritesInScope
  <2> QED BY <2>1, <2>2, <2>3 DEF Insert, Remove, Abort, CallInsert, InsertPrefix, InsertSuffix,
             CallRemove, RemoveSelect
<1>2. Init => IInv
  BY InitIInv
<1>3. IInv /\ [NextOrAbort]_vars => IInv'
  BY NextIInv
<1> QED BY <1>1, <1>2, <1>3, PTL DEF SpecWithAborts, DamageContained
=============================================================================
