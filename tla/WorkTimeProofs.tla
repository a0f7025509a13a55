--------------------------- MODULE WorkTimeProofs ---------------------------
(***************************************************************************)
(* What one call of p_insert_work_time or p_remove_work_time does to any   *)
(* set of rows that do not overlap: the facts every theorem about work_time *)
(* rests on.                                                               *)
(***************************************************************************)
EXTENDS WorkTime, TLAPS

\* Rows the CHECK admits, whatever other columns they have.
Admitted(rows) ==
  \A r \in rows : r.start_time \in Time /\ r.end_time \in Time /\ r.start_time < r.end_time

\* No row reaches over the boundary t.
Uncrossed(rows, t) == \A r \in rows : ~(r.start_time < t /\ t < r.end_time)

\* No row has time in common with the range from s to e.
Clear(rows, s, e) == \A r \in rows : r.end_time <= s \/ e <= r.start_time

\* The first cursor loop finds the least start: there is one, because of
\* non-overlapping rows only one can reach s from before it.
LEMMA PrefixStartIsLeast ==
  ASSUME NEW rows, Admitted(rows), ~Overlapping(rows), NEW s \in Time
  PROVE  /\ PrefixStart(rows, s) \in Time
         /\ IsLeast(PrefixStart(rows, s),
                    {s} \cup {r.start_time : r \in {q \in rows : Between(s, q.start_time, q.end_time)}})
<1> DEFINE starts == {s} \cup {r.start_time : r \in {q \in rows : Between(s, q.start_time, q.end_time)}}
<1>1. \E v \in Time : IsLeast(v, starts)
  <2>1. CASE \E q \in rows : q.start_time < s /\ s <= q.end_time
    <3>1. PICK q \in rows : q.start_time < s /\ s <= q.end_time
      BY <2>1
    <3>2. q.start_time \in starts
      BY <3>1, MaxTimeAssumption DEF Between, Admitted, Time
    <3>3. ASSUME NEW r \in rows, Between(s, r.start_time, r.end_time)
          PROVE  q.start_time <= r.start_time
      <4>1. CASE r = q
        BY <4>1, MaxTimeAssumption DEF Admitted, Time
      <4>2. CASE r # q
        BY <3>1, <3>3, <4>2, MaxTimeAssumption DEF Overlapping, Apart, Admitted, Between, Time
      <4>3. QED
        BY <4>1, <4>2
    <3>4. \A w \in starts : q.start_time <= w
      BY <3>1, <3>3, MaxTimeAssumption DEF Admitted, Time
    <3>5. QED
      BY <3>2, <3>4 DEF IsLeast, Admitted
  <2>2. CASE ~\E q \in rows : q.start_time < s /\ s <= q.end_time
    <3>1. \A w \in starts : s <= w
      BY <2>2, MaxTimeAssumption DEF Admitted, Between, Time
    <3>2. QED
      BY <3>1 DEF IsLeast
  <2>3. QED
    BY <2>1, <2>2
<1>2. PrefixStart(rows, s) = CHOOSE v \in Time : IsLeast(v, starts)
  BY DEF PrefixStart
<1>3. QED
  BY <1>1, <1>2

\* The second cursor loop, symmetrically.
LEMMA SuffixEndIsGreatest ==
  ASSUME NEW rows, Admitted(rows), ~Overlapping(rows), NEW e \in Time
  PROVE  /\ SuffixEnd(rows, e) \in Time
         /\ IsGreatest(SuffixEnd(rows, e),
                       {e} \cup {r.end_time : r \in {q \in rows : Between(e, q.start_time, q.end_time)}})
<1> DEFINE ends == {e} \cup {r.end_time : r \in {q \in rows : Between(e, q.start_time, q.end_time)}}
<1>1. \E v \in Time : IsGreatest(v, ends)
  <2>1. CASE \E q \in rows : q.start_time <= e /\ e < q.end_time
    <3>1. PICK q \in rows : q.start_time <= e /\ e < q.end_time
      BY <2>1
    <3>2. q.end_time \in ends
      BY <3>1, MaxTimeAssumption DEF Between, Admitted, Time
    <3>3. ASSUME NEW r \in rows, Between(e, r.start_time, r.end_time)
          PROVE  r.end_time <= q.end_time
      <4>1. CASE r = q
        BY <4>1, MaxTimeAssumption DEF Admitted, Time
      <4>2. CASE r # q
        BY <3>1, <3>3, <4>2, MaxTimeAssumption DEF Overlapping, Apart, Admitted, Between, Time
      <4>3. QED
        BY <4>1, <4>2
    <3>4. \A w \in ends : w <= q.end_time
      BY <3>1, <3>3, MaxTimeAssumption DEF Admitted, Time
    <3>5. QED
      BY <3>2, <3>4 DEF IsGreatest, Admitted
  <2>2. CASE ~\E q \in rows : q.start_time <= e /\ e < q.end_time
    <3>1. \A w \in ends : w <= e
      BY <2>2, MaxTimeAssumption DEF Admitted, Between, Time
    <3>2. QED
      BY <3>1 DEF IsGreatest
  <2>3. QED
    BY <2>1, <2>2
<1>2. SuffixEnd(rows, e) = CHOOSE v \in Time : IsGreatest(v, ends)
  BY DEF SuffixEnd
<1>3. QED
  BY <1>1, <1>2

\* The boundary the first loop settles on: no later than the argument, where no
\* row crosses it, and with the time up to the argument planned already.
LEMMA PrefixStartUncrossed ==
  ASSUME NEW rows, Admitted(rows), ~Overlapping(rows), NEW s \in Time
  PROVE  /\ PrefixStart(rows, s) \in Time
         /\ PrefixStart(rows, s) <= s
         /\ Uncrossed(rows, PrefixStart(rows, s))
         /\ \A k \in Slot : PrefixStart(rows, s) <= k /\ k < s => k \in Covered(rows)
<1> DEFINE S == PrefixStart(rows, s)
<1>1. /\ S \in Time
      /\ IsLeast(S, {s} \cup {r.start_time : r \in {q \in rows : Between(s, q.start_time, q.end_time)}})
  BY PrefixStartIsLeast
<1> HIDE DEF S
<1>2. S <= s
  BY <1>1 DEF IsLeast
<1>3. S = s \/ \E q \in rows : q.start_time = S /\ s <= q.end_time
  BY <1>1 DEF IsLeast, Between
<1>4. ASSUME NEW r \in rows, r.start_time < S, S < r.end_time
      PROVE  FALSE
  <2>1. CASE S = s
    <3>1. Between(s, r.start_time, r.end_time)
      BY <1>1, <1>4, <2>1, MaxTimeAssumption DEF Between, Admitted, Time
    <3>2. S <= r.start_time
      BY <1>1, <3>1 DEF IsLeast
    <3>3. QED
      BY <1>1, <1>4, <3>2, MaxTimeAssumption DEF Admitted, Time
  <2>2. CASE \E q \in rows : q.start_time = S /\ s <= q.end_time
    <3>1. PICK q \in rows : q.start_time = S
      BY <2>2
    <3>2. q # r
      BY <1>1, <1>4, <3>1, MaxTimeAssumption DEF Admitted, Time
    <3>3. Apart(q, r)
      BY <3>2 DEF Overlapping
    <3>4. QED
      BY <1>1, <1>4, <3>1, <3>3, MaxTimeAssumption DEF Apart, Admitted, Time
  <2>3. QED
    BY <1>3, <2>1, <2>2
<1>5. ASSUME NEW k \in Slot, S <= k, k < s
      PROVE  k \in Covered(rows)
  <2>1. PICK q \in rows : q.start_time = S /\ s <= q.end_time
    BY <1>1, <1>3, <1>5, MaxTimeAssumption DEF Time, Slot
  <2>2. k < q.end_time
    BY <1>5, <2>1, MaxTimeAssumption DEF Admitted, Time, Slot
  <2>3. QED
    BY <1>5, <2>1, <2>2 DEF Covered
<1>6. QED
  BY <1>1, <1>2, <1>4, <1>5 DEF S, Uncrossed

\* The second loop, symmetrically.
LEMMA SuffixEndUncrossed ==
  ASSUME NEW rows, Admitted(rows), ~Overlapping(rows), NEW e \in Time
  PROVE  /\ SuffixEnd(rows, e) \in Time
         /\ e <= SuffixEnd(rows, e)
         /\ Uncrossed(rows, SuffixEnd(rows, e))
         /\ \A k \in Slot : e <= k /\ k < SuffixEnd(rows, e) => k \in Covered(rows)
<1> DEFINE E == SuffixEnd(rows, e)
<1>1. /\ E \in Time
      /\ IsGreatest(E, {e} \cup {r.end_time : r \in {q \in rows : Between(e, q.start_time, q.end_time)}})
  BY SuffixEndIsGreatest
<1> HIDE DEF E
<1>2. e <= E
  BY <1>1 DEF IsGreatest
<1>3. E = e \/ \E q \in rows : q.end_time = E /\ q.start_time <= e
  BY <1>1 DEF IsGreatest, Between
<1>4. ASSUME NEW r \in rows, r.start_time < E, E < r.end_time
      PROVE  FALSE
  <2>1. CASE E = e
    <3>1. Between(e, r.start_time, r.end_time)
      BY <1>1, <1>4, <2>1, MaxTimeAssumption DEF Between, Admitted, Time
    <3>2. r.end_time <= E
      BY <1>1, <3>1 DEF IsGreatest
    <3>3. QED
      BY <1>1, <1>4, <3>2, MaxTimeAssumption DEF Admitted, Time
  <2>2. CASE \E q \in rows : q.end_time = E /\ q.start_time <= e
    <3>1. PICK q \in rows : q.end_time = E
      BY <2>2
    <3>2. q # r
      BY <1>1, <1>4, <3>1, MaxTimeAssumption DEF Admitted, Time
    <3>3. Apart(q, r)
      BY <3>2 DEF Overlapping
    <3>4. QED
      BY <1>1, <1>4, <3>1, <3>3, MaxTimeAssumption DEF Apart, Admitted, Time
  <2>3. QED
    BY <1>3, <2>1, <2>2
<1>5. ASSUME NEW k \in Slot, e <= k, k < E
      PROVE  k \in Covered(rows)
  <2>1. PICK q \in rows : q.end_time = E /\ q.start_time <= e
    BY <1>1, <1>3, <1>5, MaxTimeAssumption DEF Time, Slot
  <2>2. q.start_time <= k
    BY <1>5, <2>1, MaxTimeAssumption DEF Admitted, Time, Slot
  <2>3. QED
    BY <1>5, <2>1, <2>2 DEF Covered
<1>6. QED
  BY <1>1, <1>2, <1>4, <1>5 DEF E, Uncrossed

\* The DELETE between two uncrossed boundaries empties the range between them.
LEMMA DeleteInsideClears ==
  ASSUME NEW rows, Admitted(rows), NEW s \in Time, NEW e \in Time, s <= e,
         Uncrossed(rows, s), Uncrossed(rows, e)
  PROVE  Clear(DeleteInside(rows, s, e), s, e)
<1>1. ASSUME NEW r \in rows, ~Inside(r, s, e)
      PROVE  r.end_time <= s \/ e <= r.start_time
  BY <1>1, MaxTimeAssumption DEF Admitted, Uncrossed, Inside, Between, Time
<1>2. QED
  BY <1>1 DEF Clear, DeleteInside

-----------------------------------------------------------------------------
(* p_insert_work_time *)

\* The merged row joins rows it does not overlap, and the CHECK admits it.
LEMMA InsertKeepsApart ==
  ASSUME NEW rows, rows \subseteq Interval, ~Overlapping(rows), NEW s \in Time, NEW e \in Time
  PROVE  /\ InsertWorkTime(rows, s, e) \subseteq Interval
         /\ ~Overlapping(InsertWorkTime(rows, s, e))
<1> DEFINE S == PrefixStart(rows, s)
           E == SuffixEnd(rows, e)
           new == [start_time |-> S, end_time |-> E]
           kept == DeleteInside(rows, S, E)
<1>1. CASE e < s \/ ~(S < E)
  BY <1>1 DEF InsertWorkTime
<1>2. CASE ~(e < s) /\ S < E
  <2>1. Admitted(rows)
    BY DEF Admitted, Interval
  <2>2. S \in Time /\ Uncrossed(rows, S)
    BY <2>1, PrefixStartUncrossed
  <2>3. E \in Time /\ Uncrossed(rows, E)
    BY <2>1, SuffixEndUncrossed
  <2>4. S <= E
    BY <1>2, <2>2, <2>3, MaxTimeAssumption DEF Time
  <2>5. Clear(kept, S, E)
    BY <2>1, <2>2, <2>3, <2>4, DeleteInsideClears
  <2>6. InsertWorkTime(rows, s, e) = kept \cup {new}
    BY <1>2 DEF InsertWorkTime
  <2>7. kept \subseteq rows
    BY DEF DeleteInside
  <2> HIDE DEF S, E, kept
  <2>8. new \in Interval
    BY <1>2, <2>2, <2>3 DEF Interval
  <2>9. ASSUME NEW q \in kept \cup {new}, NEW r \in kept \cup {new}, q # r
        PROVE  Apart(q, r)
    <3>1. CASE q \in kept /\ r \in kept
      BY <2>7, <2>9, <3>1 DEF Overlapping
    <3>2. CASE q = new \/ r = new
      BY <2>5, <2>9, <3>2 DEF Clear, Apart
    <3>3. QED
      BY <3>1, <3>2
  <2>10. QED
    BY <2>6, <2>7, <2>8, <2>9 DEF Overlapping
<1>3. QED
  BY <1>1, <1>2

\* It plans the slots of its range: merging loses and invents no time.
LEMMA InsertCovers ==
  ASSUME NEW rows, rows \subseteq Interval, ~Overlapping(rows), NEW s \in Time, NEW e \in Time
  PROVE  Covered(InsertWorkTime(rows, s, e)) = Covered(rows) \cup Slots(s, e)
<1> DEFINE S == PrefixStart(rows, s)
           E == SuffixEnd(rows, e)
           new == [start_time |-> S, end_time |-> E]
           kept == DeleteInside(rows, S, E)
<1>1. Admitted(rows)
  BY DEF Admitted, Interval
<1>2. /\ S \in Time /\ S <= s
      /\ \A k \in Slot : S <= k /\ k < s => k \in Covered(rows)
  BY <1>1, PrefixStartUncrossed
<1>3. /\ E \in Time /\ e <= E
      /\ \A k \in Slot : e <= k /\ k < E => k \in Covered(rows)
  BY <1>1, SuffixEndUncrossed
<1>4. CASE e < s \/ ~(S < E)
  <2>1. InsertWorkTime(rows, s, e) = rows
    BY <1>4 DEF InsertWorkTime
  <2>2. Slots(s, e) = {}
    BY <1>2, <1>3, <1>4, MaxTimeAssumption DEF Slots, Slot, Time
  <2>3. QED
    BY <2>1, <2>2
<1>5. CASE ~(e < s) /\ S < E
  <2>1. InsertWorkTime(rows, s, e) = kept \cup {new}
    BY <1>5 DEF InsertWorkTime
  <2>2. kept \subseteq rows /\ \A r \in rows : r \in kept \/ Inside(r, S, E)
    BY DEF DeleteInside
  <2> HIDE DEF S, E, kept
  <2>3. ASSUME NEW k \in Slot, k \in Covered(kept \cup {new})
        PROVE  k \in Covered(rows) \cup Slots(s, e)
    <3>1. CASE k \in Covered(kept)
      BY <2>2, <3>1 DEF Covered
    <3>2. CASE S <= k /\ k < E
      BY <1>2, <1>3, <3>2, MaxTimeAssumption DEF Slots, Slot, Time
    <3>3. QED
      BY <2>3, <3>1, <3>2 DEF Covered
  <2>4. ASSUME NEW k \in Slot, S <= k, k < E
        PROVE  k \in Covered(kept \cup {new})
    <3>1. new \in kept \cup {new} /\ new.start_time <= k /\ k < new.end_time
      BY <2>4
    <3>2. QED
      BY <3>1 DEF Covered
  <2>5. ASSUME NEW k \in Slot, k \in Covered(rows) \cup Slots(s, e)
        PROVE  k \in Covered(kept \cup {new})
    <3>1. CASE k \in Slots(s, e)
      <4>1. S <= k /\ k < E
        BY <1>2, <1>3, <3>1, MaxTimeAssumption DEF Slots, Slot, Time
      <4>2. QED
        BY <2>4, <4>1
    <3>2. CASE k \in Covered(rows)
      <4>1. PICK r \in rows : r.start_time <= k /\ k < r.end_time
        BY <3>2 DEF Covered
      <4>2. CASE r \in kept
        BY <4>1, <4>2 DEF Covered
      <4>3. CASE Inside(r, S, E)
        <5>1. S <= k /\ k < E
          BY <1>1, <1>2, <1>3, <4>1, <4>3, MaxTimeAssumption
          DEF Inside, Between, Admitted, Slot, Time
        <5>2. QED
          BY <2>4, <5>1
      <4>4. QED
        BY <2>2, <4>2, <4>3
    <3>3. QED
      BY <2>5, <3>1, <3>2
  <2>6. QED
    BY <2>1, <2>3, <2>5 DEF Covered, Slots
<1>6. QED
  BY <1>4, <1>5

-----------------------------------------------------------------------------
(* p_remove_work_time *)

\* An UPDATE of one column of a row leaves the other as it was: true of records
\* with these two fields, whatever fields they have besides.
Columns(rows) ==
  \A r \in rows : \A t \in Time :
    /\ [r EXCEPT !.start_time = t].start_time = t
    /\ [r EXCEPT !.start_time = t].end_time = r.end_time
    /\ [r EXCEPT !.end_time = t].start_time = r.start_time
    /\ [r EXCEPT !.end_time = t].end_time = t

\* The same time is planned outside the range from s to e.
SameOutside(before, after, s, e) ==
  \A k \in Slot \ Slots(s, e) : k \in Covered(before) <=> k \in Covered(after)

\* Every row of after is what is left of a row of before, different rows of
\* different ones.
Shrunk(before, after) ==
  \A x \in after, y \in after :
     \E q \in before, r \in before :
        /\ q.start_time <= x.start_time /\ x.end_time <= q.end_time
        /\ r.start_time <= y.start_time /\ y.end_time <= r.end_time
        /\ x # y => q # r

\* Rows that are shortened one by one cannot come to overlap.
LEMMA ShrunkKeepsApart ==
  ASSUME NEW before, NEW after, Admitted(before), ~Overlapping(before),
         Admitted(after), Shrunk(before, after)
  PROVE  ~Overlapping(after)
<1> SUFFICES ASSUME NEW x \in after, NEW y \in after, x # y
             PROVE  Apart(x, y)
  BY DEF Overlapping
<1>1. PICK q \in before, r \in before :
         /\ q.start_time <= x.start_time /\ x.end_time <= q.end_time
         /\ r.start_time <= y.start_time /\ y.end_time <= r.end_time
         /\ q # r
  BY DEF Shrunk
<1>2. Apart(q, r)
  BY <1>1 DEF Overlapping
<1>3. QED
  BY <1>1, <1>2, MaxTimeAssumption DEF Apart, Admitted, Time

\* The UPDATE that trims the rows starting inside the range.
LEMMA TrimStartTrims ==
  ASSUME NEW rows, Admitted(rows), Columns(rows), ~Overlapping(rows),
         NEW s \in Time, NEW e \in Time, s <= e
  PROVE  /\ Admitted(TrimStart(rows, s, e))
         /\ ~Overlapping(TrimStart(rows, s, e))
         /\ SameOutside(rows, TrimStart(rows, s, e), s, e)
         /\ (\A r \in rows : ~Inside(r, s, e))
              => \A r \in TrimStart(rows, s, e) :
                    ~Between(r.start_time, s, e) \/ r.start_time = e
<1> DEFINE cut(r) == Between(r.start_time, s, e) /\ ~Between(r.end_time, s, e)
           trimmed(r) == IF cut(r) THEN [r EXCEPT !.start_time = e] ELSE r
           after == TrimStart(rows, s, e)
<1>1. after = {trimmed(r) : r \in rows}
  BY DEF TrimStart
<1>2. ASSUME NEW r \in rows
      PROVE  /\ trimmed(r).start_time = IF cut(r) THEN e ELSE r.start_time
             /\ trimmed(r).end_time = r.end_time
             /\ r.start_time <= trimmed(r).start_time
             /\ trimmed(r).start_time \in Time /\ trimmed(r).end_time \in Time
             /\ trimmed(r).start_time < trimmed(r).end_time
             /\ cut(r) => s <= r.start_time /\ r.start_time <= e /\ e < r.end_time
  BY MaxTimeAssumption DEF Columns, Admitted, Between, Time
<1> HIDE DEF trimmed, after
<1>3. Admitted(after)
  BY <1>1, <1>2 DEF Admitted
<1>4. Shrunk(rows, after)
  <2> SUFFICES ASSUME NEW q \in rows, NEW r \in rows
               PROVE  /\ q.start_time <= trimmed(q).start_time /\ trimmed(q).end_time <= q.end_time
                      /\ r.start_time <= trimmed(r).start_time /\ trimmed(r).end_time <= r.end_time
                      /\ trimmed(q) # trimmed(r) => q # r
    BY <1>1 DEF Shrunk
  <2>1. QED
    BY <1>2, MaxTimeAssumption DEF Time
<1>5. ~Overlapping(after)
  BY <1>3, <1>4, ShrunkKeepsApart
<1>6. SameOutside(rows, after, s, e)
  <2>1. ASSUME NEW k \in Slot, k \notin Slots(s, e), NEW r \in rows
        PROVE  r.start_time <= k /\ k < r.end_time
                 <=> trimmed(r).start_time <= k /\ k < trimmed(r).end_time
    <3>1. r.start_time \in Time /\ ~(s <= k /\ k < e)
      BY <2>1 DEF Admitted, Slots
    <3>2. CASE cut(r)
      BY <1>2, <3>1, <3>2, MaxTimeAssumption DEF Time, Slot
    <3>3. CASE ~cut(r)
      BY <1>2, <3>3
    <3>4. QED
      BY <3>2, <3>3
  <2>2. QED
    BY <1>1, <2>1 DEF SameOutside, Covered
<1>7. ASSUME \A r \in rows : ~Inside(r, s, e), NEW r \in rows
      PROVE  ~Between(trimmed(r).start_time, s, e) \/ trimmed(r).start_time = e
  BY <1>2, <1>7 DEF Inside
<1>8. QED
  BY <1>1, <1>3, <1>5, <1>6, <1>7 DEF after

\* The UPDATE that trims the rows ending inside the range.
LEMMA TrimEndTrims ==
  ASSUME NEW rows, Admitted(rows), Columns(rows), ~Overlapping(rows),
         NEW s \in Time, NEW e \in Time, s <= e
  PROVE  /\ Admitted(TrimEnd(rows, s, e))
         /\ ~Overlapping(TrimEnd(rows, s, e))
         /\ SameOutside(rows, TrimEnd(rows, s, e), s, e)
         /\ (\A r \in rows : ~Between(r.start_time, s, e) \/ r.start_time = e)
              => \A r \in TrimEnd(rows, s, e) :
                    e <= r.start_time \/ r.end_time <= s \/ (r.start_time < s /\ e < r.end_time)
<1> DEFINE cut(r) == ~Between(r.start_time, s, e) /\ Between(r.end_time, s, e)
           trimmed(r) == IF cut(r) THEN [r EXCEPT !.end_time = s] ELSE r
           after == TrimEnd(rows, s, e)
<1>1. after = {trimmed(r) : r \in rows}
  BY DEF TrimEnd
<1>2. ASSUME NEW r \in rows
      PROVE  /\ trimmed(r).end_time = IF cut(r) THEN s ELSE r.end_time
             /\ trimmed(r).start_time = r.start_time
             /\ trimmed(r).end_time <= r.end_time
             /\ trimmed(r).start_time \in Time /\ trimmed(r).end_time \in Time
             /\ trimmed(r).start_time < trimmed(r).end_time
             /\ cut(r) => r.start_time < s /\ s <= r.end_time /\ r.end_time <= e
  BY MaxTimeAssumption DEF Columns, Admitted, Between, Time
<1> HIDE DEF trimmed, after
<1>3. Admitted(after)
  BY <1>1, <1>2 DEF Admitted
<1>4. Shrunk(rows, after)
  <2> SUFFICES ASSUME NEW q \in rows, NEW r \in rows
               PROVE  /\ q.start_time <= trimmed(q).start_time /\ trimmed(q).end_time <= q.end_time
                      /\ r.start_time <= trimmed(r).start_time /\ trimmed(r).end_time <= r.end_time
                      /\ trimmed(q) # trimmed(r) => q # r
    BY <1>1 DEF Shrunk
  <2>1. QED
    BY <1>2, MaxTimeAssumption DEF Time
<1>5. ~Overlapping(after)
  BY <1>3, <1>4, ShrunkKeepsApart
<1>6. SameOutside(rows, after, s, e)
  <2>1. ASSUME NEW k \in Slot, k \notin Slots(s, e), NEW r \in rows
        PROVE  r.start_time <= k /\ k < r.end_time
                 <=> trimmed(r).start_time <= k /\ k < trimmed(r).end_time
    <3>1. r.end_time \in Time /\ ~(s <= k /\ k < e)
      BY <2>1 DEF Admitted, Slots
    <3>2. CASE cut(r)
      BY <1>2, <3>1, <3>2, MaxTimeAssumption DEF Time, Slot
    <3>3. CASE ~cut(r)
      BY <1>2, <3>3
    <3>4. QED
      BY <3>2, <3>3
  <2>2. QED
    BY <1>1, <2>1 DEF SameOutside, Covered
<1>7. ASSUME \A r \in rows : ~Between(r.start_time, s, e) \/ r.start_time = e, NEW r \in rows
      PROVE  \/ e <= trimmed(r).start_time \/ trimmed(r).end_time <= s
             \/ trimmed(r).start_time < s /\ e < trimmed(r).end_time
  <2>1. r.start_time \in Time /\ r.end_time \in Time /\ r.start_time < r.end_time
    BY DEF Admitted
  <2>2. CASE cut(r)
    BY <1>2, <2>2, MaxTimeAssumption DEF Time
  <2>3. CASE ~cut(r)
    BY <1>2, <1>7, <2>1, <2>3, MaxTimeAssumption DEF Time, Between
  <2>4. QED
    BY <2>2, <2>3
<1>8. QED
  BY <1>1, <1>3, <1>5, <1>6, <1>7 DEF after

\* The DELETE takes rows away from the range only.
LEMMA DeleteInsideDeletes ==
  ASSUME NEW rows, Admitted(rows), NEW s \in Time, NEW e \in Time
  PROVE  /\ DeleteInside(rows, s, e) \subseteq rows
         /\ SameOutside(rows, DeleteInside(rows, s, e), s, e)
         /\ \A r \in DeleteInside(rows, s, e) : ~Inside(r, s, e)
<1>1. ASSUME NEW k \in Slot, k \notin Slots(s, e), NEW r \in rows, r.start_time <= k, k < r.end_time
      PROVE  r \in DeleteInside(rows, s, e)
  BY <1>1, MaxTimeAssumption DEF DeleteInside, Inside, Between, Slots, Slot, Admitted, Time
<1>2. DeleteInside(rows, s, e) \subseteq rows
  BY DEF DeleteInside
<1>3. SameOutside(rows, DeleteInside(rows, s, e), s, e)
  BY <1>1, <1>2 DEF SameOutside, Covered
<1>4. QED
  BY <1>2, <1>3 DEF DeleteInside

\* The split of the one row around the range.
LEMMA SplitSplits ==
  ASSUME NEW rows, rows \subseteq Interval, ~Overlapping(rows),
         NEW s \in Time, NEW e \in Time, s <= e
  PROVE  /\ Split(rows, s, e) \subseteq Interval
         /\ ~Overlapping(Split(rows, s, e))
         /\ SameOutside(rows, Split(rows, s, e), s, e)
<1> DEFINE hit == SplitRows(rows, s, e)
<1>1. CASE ~\E r \in rows : hit = {r} /\ ~UpdateRejected(r, s)
  BY <1>1 DEF Split, SameOutside
<1>2. CASE \E r \in rows : hit = {r} /\ ~UpdateRejected(r, s)
  <2> DEFINE r == CHOOSE r \in rows : hit = {r}
             left == [r EXCEPT !.end_time = s]
             right == {q \in {[start_time |-> e, end_time |-> r.end_time]} : ~InsertRejected(r, e)}
             after == (rows \ {r}) \cup {left} \cup right
  <2>1. after = Split(rows, s, e)
    BY <1>2 DEF Split
  <2>2. r \in rows /\ hit = {r} /\ r.start_time < s
    BY <1>2 DEF UpdateRejected
  <2>3. r \in hit
    BY <2>2
  <2>4. Contains(r, s, e)
    BY <2>3 DEF SplitRows
  <2>5. r = [start_time |-> r.start_time, end_time |-> r.end_time]
    BY <2>2 DEF Interval
  <2> HIDE DEF r, hit
  <2>6. /\ r.start_time \in Time /\ r.end_time \in Time
        /\ r.start_time < s /\ s <= r.end_time /\ e <= r.end_time
    BY <2>2, <2>4 DEF Interval, Contains, Between
  <2>7. left = [start_time |-> r.start_time, end_time |-> s]
    BY <2>5
  <2>8. \A q \in right : q = [start_time |-> e, end_time |-> r.end_time] /\ e < r.end_time
    BY DEF InsertRejected
  <2>9. e < r.end_time => [start_time |-> e, end_time |-> r.end_time] \in right
    BY DEF InsertRejected
  <2> HIDE DEF left, right
  <2>10. left \in Interval /\ right \subseteq Interval
    BY <2>6, <2>7, <2>8 DEF Interval
  <2>11. ASSUME NEW x \in after, NEW y \in after, x # y
         PROVE  Apart(x, y)
    <3>1. ASSUME NEW z \in rows \ {r}, NEW p \in {left} \cup right
          PROVE  Apart(z, p) /\ Apart(p, z)
      <4>1. Apart(z, r) /\ z \in Interval
        BY <2>2, <3>1 DEF Overlapping
      <4>2. CASE p = left
        BY <2>6, <2>7, <4>1, <4>2, MaxTimeAssumption DEF Apart, Interval, Time
      <4>3. CASE p \in right
        BY <2>6, <2>8, <4>1, <4>3, MaxTimeAssumption DEF Apart, Interval, Time
      <4>4. QED
        BY <3>1, <4>2, <4>3
    <3>2. ASSUME NEW q \in right
          PROVE  Apart(left, q) /\ Apart(q, left)
      BY <2>7, <2>8, <3>2 DEF Apart
    <3>3. CASE x \in rows \ {r} /\ y \in rows \ {r}
      BY <2>11, <3>3 DEF Overlapping
    <3>4. CASE (x \in rows \ {r}) # (y \in rows \ {r})
      BY <3>1, <3>4
    <3>5. CASE x \in {left} \cup right /\ y \in {left} \cup right
      BY <2>8, <2>11, <3>2, <3>5
    <3>6. QED
      BY <3>3, <3>4, <3>5
  <2>12. SameOutside(rows, after, s, e)
    <3> SUFFICES ASSUME NEW k \in Slot, k \notin Slots(s, e)
                 PROVE  k \in Covered(rows) <=> k \in Covered(after)
      BY DEF SameOutside
    <3>1. k \in Int /\ (k < s \/ e <= k)
      BY MaxTimeAssumption DEF Slots, Slot, Time
    <3>2. ASSUME NEW x \in rows, x.start_time <= k, k < x.end_time
          PROVE  k \in Covered(after)
      <4>1. CASE x # r
        BY <3>2, <4>1 DEF Covered
      <4>2. CASE x = r /\ k < s
        <5>1. left.start_time <= k /\ k < left.end_time
          BY <2>7, <3>2, <4>2
        <5>2. QED
          BY <5>1 DEF Covered
      <4>3. CASE x = r /\ e <= k
        <5>1. e < r.end_time
          BY <2>6, <3>1, <3>2, <4>3, MaxTimeAssumption DEF Time
        <5> DEFINE q == [start_time |-> e, end_time |-> r.end_time]
        <5>2. q \in after /\ q.start_time <= k /\ k < q.end_time
          BY <2>9, <3>2, <4>3, <5>1
        <5>3. QED
          BY <5>2 DEF Covered
      <4>4. QED
        BY <3>1, <4>1, <4>2, <4>3
    <3>3. ASSUME NEW x \in after, x.start_time <= k, k < x.end_time
          PROVE  k \in Covered(rows)
      <4>1. CASE x \in rows \ {r}
        BY <3>3, <4>1 DEF Covered
      <4>2. CASE x = left
        <5>1. r.start_time <= k /\ k < r.end_time
          BY <2>6, <2>7, <3>1, <3>3, <4>2, MaxTimeAssumption DEF Time
        <5>2. QED
          BY <2>2, <5>1 DEF Covered
      <4>3. CASE x \in right
        <5>1. r.start_time <= k /\ k < r.end_time
          BY <2>6, <2>8, <3>1, <3>3, <4>3, MaxTimeAssumption DEF Time
        <5>2. QED
          BY <2>2, <5>1 DEF Covered
      <4>4. QED
        BY <3>3, <4>1, <4>2, <4>3
    <3>4. QED
      BY <3>2, <3>3 DEF Covered
  <2>13. after \subseteq Interval
    BY <2>10
  <2> HIDE DEF after
  <2>14. QED
    BY <2>1, <2>11, <2>12, <2>13 DEF Overlapping
<1>3. QED
  BY <1>1, <1>2

\* Once the other rows are trimmed, the split empties a range that is not empty.
LEMMA SplitClears ==
  ASSUME NEW rows, rows \subseteq Interval, ~Overlapping(rows),
         NEW s \in Time, NEW e \in Time, s < e,
         \A r \in rows : e <= r.start_time \/ r.end_time <= s \/ (r.start_time < s /\ e < r.end_time)
  PROVE  Clear(Split(rows, s, e), s, e)
<1> DEFINE hit == SplitRows(rows, s, e)
<1>1. ASSUME NEW r \in rows
      PROVE  /\ r \in hit <=> r.start_time < s /\ e < r.end_time
             /\ r \notin hit => r.end_time <= s \/ e <= r.start_time
  BY MaxTimeAssumption DEF SplitRows, Contains, Between, Interval, Time
<1>2. hit \subseteq rows
  BY DEF SplitRows
<1>3. ASSUME NEW q \in hit, NEW r \in hit
      PROVE  q = r
  <2>1. ~Apart(q, r)
    BY <1>1, <1>2, <1>3, MaxTimeAssumption DEF Apart, Interval, Time
  <2>2. QED
    BY <1>2, <2>1 DEF Overlapping
<1>4. CASE hit = {}
  <2>1. Split(rows, s, e) = rows
    BY <1>4 DEF Split
  <2>2. QED
    BY <1>1, <1>4, <2>1 DEF Clear
<1>5. CASE hit # {}
  <2> DEFINE r == CHOOSE r \in rows : hit = {r}
             left == [r EXCEPT !.end_time = s]
             right == {q \in {[start_time |-> e, end_time |-> r.end_time]} : ~InsertRejected(r, e)}
  <2>1. PICK h \in rows : hit = {h}
    BY <1>2, <1>3, <1>5
  <2>2. r \in rows /\ hit = {r}
    BY <2>1
  <2>3. ~UpdateRejected(r, s)
    BY <1>1, <2>2 DEF UpdateRejected
  <2>4. Split(rows, s, e) = (rows \ {r}) \cup {left} \cup right
    BY <2>2, <2>3 DEF Split
  <2> HIDE DEF hit
  <2>5. \A q \in rows \ {r} : q.end_time <= s \/ e <= q.start_time
    BY <1>1, <2>2
  <2>6. left.end_time = s
    BY <2>2 DEF Interval
  <2>7. \A q \in right : q.start_time = e
    OBVIOUS
  <2>8. s \in Int /\ e \in Int
    BY MaxTimeAssumption DEF Time
  <2> HIDE DEF left, right, r
  <2>9. QED
    BY <2>4, <2>5, <2>6, <2>7, <2>8 DEF Clear
<1>6. QED
  BY <1>4, <1>5

LEMMA IntervalRows ==
  ASSUME NEW rows, rows \subseteq Interval
  PROVE  Admitted(rows) /\ Columns(rows)
BY DEF Admitted, Columns, Interval

\* UPDATE cannot take an interval out of Interval but through the CHECK.
LEMMA TrimmedAreIntervals ==
  ASSUME NEW rows, rows \subseteq Interval, NEW s \in Time, NEW e \in Time, s <= e
  PROVE  TrimStart(rows, s, e) \subseteq Interval /\ TrimEnd(rows, s, e) \subseteq Interval
<1>1. ASSUME NEW r \in rows, Between(r.start_time, s, e), ~Between(r.end_time, s, e)
      PROVE  [r EXCEPT !.start_time = e] \in Interval
  BY <1>1, MaxTimeAssumption DEF Between, Interval, Time
<1>2. ASSUME NEW r \in rows, ~Between(r.start_time, s, e), Between(r.end_time, s, e)
      PROVE  [r EXCEPT !.end_time = s] \in Interval
  BY <1>2, MaxTimeAssumption DEF Between, Interval, Time
<1>3. QED
  BY <1>1, <1>2 DEF TrimStart, TrimEnd

\* The rows in front of the split, for RemoveKeepsApart and RemoveFrees.
LEMMA TrimmedRows ==
  ASSUME NEW rows, rows \subseteq Interval, ~Overlapping(rows),
         NEW s \in Time, NEW e \in Time, s <= e
  PROVE  /\ Trimmed(rows, s, e) \subseteq Interval
         /\ ~Overlapping(Trimmed(rows, s, e))
         /\ SameOutside(rows, Trimmed(rows, s, e), s, e)
         /\ \A r \in Trimmed(rows, s, e) :
               e <= r.start_time \/ r.end_time <= s \/ (r.start_time < s /\ e < r.end_time)
<1> DEFINE D == DeleteInside(rows, s, e)
           A == TrimStart(D, s, e)
           B == TrimEnd(A, s, e)
<1>1. /\ D \subseteq rows
      /\ SameOutside(rows, D, s, e)
      /\ \A r \in D : ~Inside(r, s, e)
  BY IntervalRows, DeleteInsideDeletes
<1>2. D \subseteq Interval /\ ~Overlapping(D)
  BY <1>1 DEF Overlapping
<1> HIDE DEF D
<1>3. Admitted(D) /\ Columns(D)
  BY <1>2, IntervalRows
<1>4. /\ ~Overlapping(A)
      /\ SameOutside(D, A, s, e)
      /\ \A r \in A : ~Between(r.start_time, s, e) \/ r.start_time = e
  BY <1>1, <1>2, <1>3, TrimStartTrims
<1>5. A \subseteq Interval
  BY <1>2, TrimmedAreIntervals
<1> HIDE DEF A
<1>6. Admitted(A) /\ Columns(A)
  BY <1>5, IntervalRows
<1>7. /\ ~Overlapping(B)
      /\ SameOutside(A, B, s, e)
      /\ \A r \in B : e <= r.start_time \/ r.end_time <= s \/ (r.start_time < s /\ e < r.end_time)
  BY <1>4, <1>6, TrimEndTrims
<1>8. B \subseteq Interval
  BY <1>5, TrimmedAreIntervals
<1> HIDE DEF B
<1>9. Trimmed(rows, s, e) = B
  BY DEF Trimmed, B, A, D
<1>10. SameOutside(rows, B, s, e)
  BY <1>1, <1>4, <1>7 DEF SameOutside
<1>11. QED
  BY <1>7, <1>8, <1>9, <1>10

\* Trimming and splitting produce rows the CHECK admits and no overlap.
LEMMA RemoveKeepsApart ==
  ASSUME NEW rows, rows \subseteq Interval, ~Overlapping(rows),
         NEW s \in Time, NEW e \in Time, s <= e
  PROVE  /\ RemoveWorkTime(rows, s, e) \subseteq Interval
         /\ ~Overlapping(RemoveWorkTime(rows, s, e))
BY TrimmedRows, SplitSplits DEF RemoveWorkTime

\* They free the slots of the range, and no other.
LEMMA RemoveFrees ==
  ASSUME NEW rows, rows \subseteq Interval, ~Overlapping(rows),
         NEW s \in Time, NEW e \in Time, s <= e
  PROVE  Covered(RemoveWorkTime(rows, s, e)) = Covered(rows) \ Slots(s, e)
<1> DEFINE B == Trimmed(rows, s, e)
           after == Split(B, s, e)
<1>1. /\ B \subseteq Interval /\ ~Overlapping(B)
      /\ SameOutside(rows, B, s, e)
      /\ \A r \in B : e <= r.start_time \/ r.end_time <= s \/ (r.start_time < s /\ e < r.end_time)
  BY TrimmedRows
<1> HIDE DEF B
<1>2. /\ after \subseteq Interval
      /\ SameOutside(B, after, s, e)
  BY <1>1, SplitSplits
<1>3. ASSUME NEW k \in Slots(s, e)
      PROVE  k \notin Covered(after)
  <2>1. s < e /\ k \in Slot /\ s <= k /\ k < e
    BY <1>3, MaxTimeAssumption DEF Slots, Slot, Time
  <2>2. Clear(after, s, e)
    BY <1>1, <2>1, SplitClears
  <2> HIDE DEF after
  <2>3. ASSUME NEW r \in after
        PROVE  ~(r.start_time <= k /\ k < r.end_time)
    BY <1>2, <2>1, <2>2, MaxTimeAssumption DEF Clear, Interval, Slot, Time
  <2>4. QED
    BY <2>3 DEF Covered
<1>4. RemoveWorkTime(rows, s, e) = after
  BY DEF RemoveWorkTime, B
<1> HIDE DEF after
<1>5. \A k \in Slot \ Slots(s, e) : k \in Covered(rows) <=> k \in Covered(after)
  BY <1>1, <1>2 DEF SameOutside
<1>6. Covered(rows) \subseteq Slot /\ Covered(after) \subseteq Slot
  BY DEF Covered
<1>7. QED
  BY <1>3, <1>4, <1>5, <1>6
=============================================================================
