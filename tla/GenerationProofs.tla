-------------------------- MODULE GenerationProofs --------------------------
(***************************************************************************)
(* The invariants of Roster, what a removal from a line frees, and what    *)
(* generated schedules keep to, and that the loops of a generation run     *)
(* out, for any lines, workers, roles, dates, default times, numbers of    *)
(* days and boundaries in a day.                                           *)
(***************************************************************************)
EXTENDS Generation, WorkTimeProofs, FiniteSetTheorems, WellFoundedInduction

-----------------------------------------------------------------------------
(* The calls of Roster.                                                    *)

(* The ids of line_work_day and worker_work_day are keys, taken from        *)
(* AUTO_INCREMENT and so from one sequence: no work_day is both, none has   *)
(* time before it is given out, and a worker's day names a line's day.      *)
Keys ==
  /\ \A l, m \in line_work_day : l.work_day_id = m.work_day_id => l = m
  /\ \A v, w \in worker_work_day : v.work_day_id = w.work_day_id => v = w
  /\ \A l \in line_work_day, w \in worker_work_day : l.work_day_id # w.work_day_id

Assigned ==
  \A w \in worker_work_day : \E l \in line_work_day : l.work_day_id = w.line_work_day_id

GivenOut ==
  /\ \A l \in line_work_day : l.work_day_id <= last_id
  /\ \A w \in worker_work_day : w.work_day_id <= last_id
  /\ \A d \in DayId : last_id < d => work_time[d] = {}

IInv ==
  /\ TypeOK
  /\ NonOverlapping
  /\ IsFiniteSet(worker_work_day)
  /\ Keys
  /\ Assigned
  /\ GivenOut
  /\ WorkersWithinLine
  /\ WithinCapacity

-----------------------------------------------------------------------------
(* A nonempty set of boundaries has a least and a greatest member: the sets *)
(* of the boundaries below (above) each member are finite, so one of them   *)
(* includes no other.                                                       *)
LEMMA LeastExists ==
  ASSUME NEW S \in SUBSET Time, S # {}
  PROVE  \E x \in S : \A y \in S : x <= y
<1> DEFINE Below(x) == 0 .. (x - 1)
           F == {Below(x) : x \in S}
<1>1. \A x \in S : x \in Nat /\ x <= MaxTime
  BY MaxTimeAssumption DEF Time
<1>2. F \subseteq FiniteSubsetsOf(Time)
  <2>1. ASSUME NEW x \in S PROVE Below(x) \in SUBSET Time
    BY <1>1, MaxTimeAssumption DEF Time
  <2>2. ASSUME NEW x \in S PROVE IsFiniteSet(Below(x))
    <3>1. 0 \in Int /\ x - 1 \in Int BY <1>1
    <3> QED BY <3>1, FS_Interval
  <2> QED BY <2>1, <2>2 DEF FiniteSubsetsOf
<1>3. PICK U \in F : \A V \in F : ~(<<V, U>> \in StrictSubsetOrdering(Time))
  <2>1. F # {} OBVIOUS
  <2>2. IsWellFoundedOn(StrictSubsetOrdering(Time), FiniteSubsetsOf(Time))
    BY FS_StrictSubsetOrderingWellFounded
  <2> HIDE DEF F
  <2> QED BY <1>2, <2>1, <2>2, WFMin
<1>4. PICK x \in S : U = Below(x)
  BY <1>3
<1>5. ASSUME NEW y \in S, y < x PROVE FALSE
  <2>1. Below(y) \in SUBSET Time /\ Below(x) \in SUBSET Time
    BY <1>1, MaxTimeAssumption DEF Time
  <2>2. Below(y) \subseteq Below(x) /\ Below(y) # Below(x)
    <3>1. y \in Below(x) /\ y \notin Below(y) BY <1>1, <1>5
    <3>2. Below(y) \subseteq Below(x) BY <1>1, <1>5
    <3> QED BY <3>1, <3>2
  <2>3. <<Below(y), Below(x)>> \in StrictSubsetOrdering(Time)
    <3> HIDE DEF Below
    <3> QED BY <2>1, <2>2 DEF StrictSubsetOrdering
  <2> QED BY <1>3, <1>4, <2>3
<1> QED BY <1>1, <1>5

(* The same upwards.                                                        *)
LEMMA GreatestExists ==
  ASSUME NEW S \in SUBSET Time, S # {}
  PROVE  \E x \in S : \A y \in S : y <= x
<1> DEFINE T == {MaxTime - x : x \in S}
<1>1. \A x \in S : x \in Nat /\ x <= MaxTime
  BY MaxTimeAssumption DEF Time
<1>2. T \in SUBSET Time /\ T # {}
  <2>1. \A x \in S : MaxTime - x \in Time
    BY <1>1, MaxTimeAssumption DEF Time
  <2> QED BY <2>1
<1>3. PICK t \in T : \A u \in T : t <= u
  <2> HIDE DEF T
  <2> QED BY <1>2, LeastExists
<1>4. PICK x \in S : t = MaxTime - x
  BY <1>3
<1>5. ASSUME NEW y \in S PROVE y <= x
  <2>1. MaxTime - x <= MaxTime - y BY <1>3, <1>4
  <2> QED BY <2>1, <1>1, MaxTimeAssumption
<1> QED BY <1>5

(* Every moment of a range lies in one of the pieces it is cut into.        *)
LEMMA PieceAround ==
  ASSUME NEW s \in Time, NEW e \in Time, NEW cuts \in SUBSET Time,
         \A t \in cuts : s < t /\ t < e,
         NEW k \in Slot, s <= k, k < e
  PROVE  \E p \in Pieces(cuts, s, e) :
           /\ s <= p[1] /\ p[1] <= k /\ k < p[2] /\ p[2] <= e
           /\ p[1] \in Time /\ p[2] \in Time
           /\ \A t \in cuts : ~(p[1] < t /\ t < p[2])
<1> DEFINE All == cuts \cup {s, e}
           Lower == {t \in All : t <= k}
           Upper == {t \in All : k < t}
<1>1. All \in SUBSET Time /\ k \in Nat /\ s \in Nat /\ e \in Nat /\ \A t \in All : t \in Nat
  BY MaxTimeAssumption DEF Time, Slot
<1>2. PICK a \in Lower : \A t \in Lower : t <= a
  <2>1. Lower \in SUBSET Time /\ s \in Lower BY <1>1
  <2> QED BY <2>1, GreatestExists
<1>3. PICK b \in Upper : \A t \in Upper : b <= t
  <2>1. Upper \in SUBSET Time /\ e \in Upper BY <1>1
  <2> QED BY <2>1, LeastExists
<1>4. a \in All /\ b \in All /\ a \in Nat /\ b \in Nat /\ a <= k /\ k < b /\ a < b
  BY <1>1, <1>2, <1>3
<1>5. s <= a /\ b <= e
  BY <1>1, <1>2, <1>3
<1>6. \A t \in cuts : ~(a < t /\ t < b)
  BY <1>1, <1>2, <1>3, <1>4
<1>7. <<a, b>> \in Pieces(cuts, s, e)
  <2>1. s < e BY <1>1
  <2>2. <<a, b>> \in All \X All BY <1>4
  <2> QED BY <2>1, <2>2, <1>4, <1>6 DEF Pieces
<1>8. <<a, b>>[1] = a /\ <<a, b>>[2] = b
  OBVIOUS
<1> QED BY <1>1, <1>4, <1>5, <1>6, <1>7, <1>8

-----------------------------------------------------------------------------
(* What the invariant says of the rows of one work_day.                     *)
LEMMA RowsOfADay ==
  ASSUME TypeOK, NonOverlapping, NEW d \in DayId
  PROVE  work_time[d] \subseteq Interval /\ ~Overlapping(work_time[d])
BY DEF TypeOK, NonOverlapping

(* The workers on duty can be counted.                                      *)
LEMMA OnDutyFinite ==
  ASSUME IsFiniteSet(worker_work_day), NEW l, NEW role, NEW k
  PROVE  IsFiniteSet(OnDuty(l, role, k)) /\ Cardinality(OnDuty(l, role, k)) \in Nat
<1>1. OnDuty(l, role, k) \in SUBSET worker_work_day
  BY DEF OnDuty, WorkersOf
<1>2. IsFiniteSet(OnDuty(l, role, k))
  BY <1>1, FS_Subset
<1> QED BY <1>2, FS_CardinalityType

(* A line that gains no worker at any time stays within its capacity.       *)
LEMMA CapacityKept ==
  ASSUME TypeOK', WithinCapacity, IsFiniteSet(worker_work_day),
         \A l \in line_work_day', role \in Role, k \in Slot :
            \/ OnDuty(l, role, k)' = {}
            \/ l \in line_work_day /\ OnDuty(l, role, k)' \subseteq OnDuty(l, role, k)
  PROVE  WithinCapacity'
<1> SUFFICES ASSUME NEW l \in line_work_day', NEW role \in Role, NEW k \in Slot
             PROVE  Cardinality(OnDuty(l, role, k)') <= WorkerCount[<<l.line_id, role>>]
  BY DEF WithinCapacity
<1>1. WorkerCount[<<l.line_id, role>>] \in Nat
  <2>1. l.line_id \in Line BY DEF TypeOK
  <2> QED BY <2>1, RosterAssumption
<1>2. CASE OnDuty(l, role, k)' = {}
  <2>1. Cardinality(OnDuty(l, role, k)') = 0 BY <1>2, FS_EmptySet
  <2> QED BY <1>1, <2>1
<1>3. CASE l \in line_work_day /\ OnDuty(l, role, k)' \subseteq OnDuty(l, role, k)
  <2>1. IsFiniteSet(OnDuty(l, role, k)) /\ Cardinality(OnDuty(l, role, k)) \in Nat
    BY OnDutyFinite
  <2>2. /\ Cardinality(OnDuty(l, role, k)') <= Cardinality(OnDuty(l, role, k))
        /\ Cardinality(OnDuty(l, role, k)') \in Nat
    <3> DEFINE A == OnDuty(l, role, k)'
               B == OnDuty(l, role, k)
    <3>1. A \in SUBSET B BY <1>3
    <3> HIDE DEF A, B
    <3>2. IsFiniteSet(B) BY <2>1 DEF B
    <3>3. IsFiniteSet(A) /\ Cardinality(A) <= Cardinality(B) BY <3>1, <3>2, FS_Subset
    <3>4. Cardinality(A) \in Nat BY <3>3, FS_CardinalityType
    <3> QED BY <3>3, <3>4 DEF A, B
  <2>3. Cardinality(OnDuty(l, role, k)) <= WorkerCount[<<l.line_id, role>>]
    BY <1>3 DEF WithinCapacity
  <2> QED BY <1>1, <2>1, <2>2, <2>3
<1> QED BY <1>2, <1>3

(* The calls that change work_time alone keep the keys.                     *)
LEMMA TimeStep ==
  ASSUME IInv, TimeOnly,
         work_time' \in [DayId -> SUBSET Interval],
         \A d \in DayId : ~Overlapping(work_time'[d]),
         \A d \in DayId : last_id < d => work_time'[d] = {},
         WorkersWithinLine', WithinCapacity'
  PROVE  IInv'
<1>1. TypeOK' /\ NonOverlapping'
  BY DEF IInv, TypeOK, TimeOnly, NonOverlapping
<1>2. Keys' /\ Assigned' /\ IsFiniteSet(worker_work_day)'
  BY DEF IInv, Keys, Assigned, TimeOnly
<1>3. GivenOut'
  BY DEF IInv, GivenOut, TimeOnly
<1> QED BY <1>1, <1>2, <1>3 DEF IInv

(* If the workers' time only shrinks, the lines stay within capacity.       *)
LEMMA TimeShrinks ==
  ASSUME IInv, TimeOnly, TypeOK',
         \A w \in worker_work_day :
            Covered(work_time'[w.work_day_id]) \subseteq Covered(work_time[w.work_day_id])
  PROVE  WithinCapacity'
<1>1. \A l \in line_work_day', role \in Role, k \in Slot :
        l \in line_work_day /\ OnDuty(l, role, k)' \subseteq OnDuty(l, role, k)
  BY DEF TimeOnly, OnDuty, WorkersOf
<1> QED BY <1>1, CapacityKept DEF IInv

-----------------------------------------------------------------------------
(* The steps.                                                               *)

(* An empty roster.                                                         *)
LEMMA InitIInv ==
  ASSUME Init
  PROVE  IInv
<1>1. DefaultDays \in Nat /\ DefaultDays <= MaxDay /\ MaxDay \in Nat
  BY RosterAssumption
<1>2. PICK times \in DefaultTime : work_time = [d \in DayId |-> IF d \in DefaultDay THEN times[d] ELSE {}]
  BY DEF Init
<1>3. times \in [DefaultDay -> SUBSET Interval] /\ \A d \in DefaultDay : ~Overlapping(times[d])
  BY RosterAssumption
<1>4. ~Overlapping({})
  BY DEF Overlapping
<1>5. TypeOK
  <2>1. work_day \subseteq [id: DayId, date: Date \cup {NULL}]
    BY <1>1 DEF Init, DayId, DefaultDay
  <2>2. work_time \in [DayId -> SUBSET Interval]
    BY <1>2, <1>3
  <2> QED BY <1>1, <2>1, <2>2 DEF TypeOK, Init
<1>6. NonOverlapping
  BY <1>2, <1>3, <1>4 DEF NonOverlapping
<1>7. GivenOut
  <2>1. \A d \in DayId : last_id < d => d \notin DefaultDay
    BY <1>1 DEF Init, DayId, DefaultDay
  <2> QED BY <2>1, <1>2 DEF GivenOut, Init
<1>8. Keys /\ Assigned /\ WorkersWithinLine /\ WithinCapacity
  BY DEF Init, Keys, Assigned, WorkersWithinLine, WithinCapacity
<1>9. IsFiniteSet(worker_work_day)
  BY FS_EmptySet DEF Init
<1> QED BY <1>5, <1>6, <1>7, <1>8, <1>9 DEF IInv

(* An INSERT into work_week.                                                *)
LEMMA AddWeekKeeps ==
  ASSUME IInv, NEW week \in Week, AddWeek(week)
  PROVE  IInv'
<1>1. UNCHANGED <<work_day, line_work_day, worker_work_day, work_time, last_id>>
  BY DEF AddWeek
<1>2. TypeOK'
  BY <1>1 DEF IInv, TypeOK, AddWeek
<1>3. NonOverlapping' /\ IsFiniteSet(worker_work_day)' /\ Keys' /\ Assigned' /\ GivenOut'
  BY <1>1 DEF IInv, NonOverlapping, Keys, Assigned, GivenOut
<1>4. WorkersWithinLine'
  BY <1>1 DEF IInv, WorkersWithinLine
<1>5. WithinCapacity'
  BY <1>1 DEF IInv, WithinCapacity, OnDuty, WorkersOf
<1> QED BY <1>2, <1>3, <1>4, <1>5 DEF IInv

(* A new line's day: nobody is assigned to the new id, which has no time.   *)
LEMMA NewLineDayKeeps ==
  ASSUME IInv, NEW line \in Line, NEW date \in Date, NewLineDay(line, date),
         work_week' \subseteq Week, UNCHANGED <<worker_work_day, work_time>>
  PROVE  IInv'
<1>0. PICK n : n = [work_day_id |-> NewId, line_id |-> line]
  OBVIOUS
<1>1. /\ NewId \in DayId /\ NewId = last_id + 1 /\ last_id' = NewId
      /\ work_day' = work_day \cup {[id |-> NewId, date |-> date]}
      /\ line_work_day' = line_work_day \cup {n}
  BY <1>0 DEF NewLineDay, NewId
<1>2. last_id \in Nat /\ DayId \subseteq Nat /\ n.work_day_id = NewId
  BY <1>0, RosterAssumption DEF IInv, TypeOK, DayId
<1>3. TypeOK'
  <2>1. n \in [work_day_id: DayId, line_id: Line]
    BY <1>0, <1>1
  <2>2. [id |-> NewId, date |-> date] \in [id: DayId, date: Date \cup {NULL}]
    BY <1>1
  <2>3. NewId \in 0 .. MaxDay
    BY <1>1, RosterAssumption DEF DayId
  <2> QED BY <1>1, <2>1, <2>2, <2>3 DEF IInv, TypeOK
<1>4. /\ \A l \in line_work_day : l.work_day_id <= last_id /\ l.work_day_id \in Nat
      /\ \A w \in worker_work_day : w.work_day_id <= last_id /\ w.work_day_id \in Nat
  BY <1>2 DEF IInv, TypeOK, GivenOut
<1>5. Keys'
  BY <1>1, <1>2, <1>4 DEF IInv, Keys
<1>6. Assigned' /\ NonOverlapping' /\ IsFiniteSet(worker_work_day)' /\ WorkersWithinLine'
  BY <1>1 DEF IInv, Assigned, NonOverlapping, WorkersWithinLine
<1>7. GivenOut'
  BY <1>1, <1>2, <1>4 DEF IInv, GivenOut
<1>8. WithinCapacity'
  <2>2. ASSUME NEW role \in Role, NEW k \in Slot
        PROVE  OnDuty(n, role, k)' = {}
    <3>1. ASSUME NEW w \in worker_work_day, w.line_work_day_id = NewId PROVE FALSE
      <4>1. PICK l \in line_work_day : l.work_day_id = w.line_work_day_id
        BY DEF IInv, Assigned
      <4> QED BY <3>1, <4>1, <1>1, <1>2, <1>4
    <3> QED BY <3>1, <1>1, <1>2 DEF OnDuty, WorkersOf
  <2>3. ASSUME NEW l \in line_work_day, NEW role \in Role, NEW k \in Slot
        PROVE  OnDuty(l, role, k)' \subseteq OnDuty(l, role, k)
    BY <1>1 DEF OnDuty, WorkersOf
  <2>4. \A l \in line_work_day', role \in Role, k \in Slot :
            \/ OnDuty(l, role, k)' = {}
            \/ l \in line_work_day /\ OnDuty(l, role, k)' \subseteq OnDuty(l, role, k)
    BY <1>1, <2>2, <2>3
  <2> QED BY <2>4, <1>3, CapacityKept DEF IInv
<1> QED BY <1>3, <1>5, <1>6, <1>7, <1>8 DEF IInv

(* p_create_line_work_day, the step of the roster.                          *)
LEMMA CreateLineDayKeeps ==
  ASSUME IInv, NEW line \in Line, NEW date \in Date, p_create_line_work_day(line, date)
  PROVE  IInv'
BY NewLineDayKeeps DEF p_create_line_work_day, IInv, TypeOK

(* A new worker's day has no time yet.                                      *)
LEMMA CreateWorkerDayKeeps ==
  ASSUME IInv, NEW l \in line_work_day, NEW worker \in Worker, NEW role \in Role,
         p_create_worker_work_day(l, worker, role)
  PROVE  IInv'
<1> DEFINE n == WorkerDay(NewId, l, worker, role)
<1>1. /\ NewId \in DayId /\ NewId = last_id + 1 /\ last_id' = NewId
      /\ work_day' = work_day \cup {[id |-> NewId, date |-> date] : date \in DateOf(l.work_day_id)}
      /\ worker_work_day' = worker_work_day \cup {n}
      /\ UNCHANGED <<work_week, line_work_day, work_time>>
  BY DEF p_create_worker_work_day, NewWorkerDay, NewId
<1>2. last_id \in Nat /\ DayId \subseteq Nat /\ n.work_day_id = NewId /\ n.line_work_day_id = l.work_day_id
  BY RosterAssumption DEF IInv, TypeOK, DayId, WorkerDay
<1>3. TypeOK'
  <2>1. n \in [work_day_id: DayId, line_work_day_id: DayId, line_id: Line, worker_id: Worker, role_id: Role]
    BY <1>1 DEF WorkerDay, IInv, TypeOK
  <2>2. \A date \in DateOf(l.work_day_id) : [id |-> NewId, date |-> date] \in [id: DayId, date: Date \cup {NULL}]
    BY <1>1 DEF DateOf, IInv, TypeOK
  <2>3. NewId \in 0 .. MaxDay
    BY <1>1, RosterAssumption DEF DayId
  <2> HIDE DEF n
  <2> QED BY <1>1, <2>1, <2>2, <2>3 DEF IInv, TypeOK
<1>4. /\ \A m \in line_work_day : m.work_day_id <= last_id /\ m.work_day_id \in Nat
      /\ \A w \in worker_work_day : w.work_day_id <= last_id /\ w.work_day_id \in Nat
      /\ work_time[NewId] = {}
  BY <1>1, <1>2 DEF IInv, TypeOK, GivenOut
<1> HIDE DEF n
<1>5. Keys'
  BY <1>1, <1>2, <1>4 DEF IInv, Keys
<1>6. Assigned' /\ NonOverlapping'
  BY <1>1, <1>2 DEF IInv, Assigned, NonOverlapping
<1>7. IsFiniteSet(worker_work_day)'
  BY <1>1, FS_AddElement DEF IInv
<1>8. GivenOut'
  BY <1>1, <1>2, <1>4 DEF IInv, GivenOut
<1>9. Covered(work_time[NewId]) = {}
  BY <1>4 DEF Covered
<1>10. WorkersWithinLine'
  BY <1>1, <1>2, <1>9 DEF IInv, WorkersWithinLine
<1>11. WithinCapacity'
  <2>1. \A m \in line_work_day', r \in Role, k \in Slot :
          m \in line_work_day /\ OnDuty(m, r, k)' \subseteq OnDuty(m, r, k)
    BY <1>1, <1>2, <1>9 DEF OnDuty, WorkersOf
  <2> QED BY <2>1, <1>3, CapacityKept DEF IInv
<1> QED BY <1>3, <1>5, <1>6, <1>7, <1>8, <1>10, <1>11 DEF IInv

(* The cascade takes the rows that name the deleted day with it.            *)
LEMMA DeleteLineDayKeeps ==
  ASSUME IInv, NEW l \in line_work_day, delete_line_work_day(l)
  PROVE  IInv'
<1>1. /\ line_work_day' = line_work_day \ {l}
      /\ worker_work_day' = worker_work_day \ WorkersOf(l.work_day_id)
      /\ work_time' = [work_time EXCEPT ![l.work_day_id] = {}]
      /\ UNCHANGED <<work_week, last_id>>
      /\ work_day' \subseteq work_day
  BY DEF delete_line_work_day
<1>2. l.work_day_id \in DayId /\ work_time \in [DayId -> SUBSET Interval]
  BY DEF IInv, TypeOK
<1>3. TypeOK'
  BY <1>1, <1>2 DEF IInv, TypeOK
<1>4. /\ \A d \in DayId : work_time'[d] = {} \/ work_time'[d] = work_time[d]
      /\ \A d \in DayId : d # l.work_day_id => work_time'[d] = work_time[d]
  BY <1>1, <1>2
<1>5. ~Overlapping({})
  BY DEF Overlapping
<1>6. NonOverlapping'
  BY <1>4, <1>5 DEF IInv, NonOverlapping
<1>7. worker_work_day' \in SUBSET worker_work_day /\ IsFiniteSet(worker_work_day')
  BY <1>1, FS_Subset DEF IInv
<1>8. Keys'
  BY <1>1 DEF IInv, Keys
<1>9. ASSUME NEW w \in worker_work_day'
      PROVE  /\ w \in worker_work_day /\ w.line_work_day_id # l.work_day_id /\ w.work_day_id # l.work_day_id
             /\ w.work_day_id \in DayId /\ w.line_work_day_id \in DayId
  BY <1>1 DEF IInv, Keys, TypeOK, WorkersOf
<1>10. Assigned'
  <2> SUFFICES ASSUME NEW w \in worker_work_day'
               PROVE  \E m \in line_work_day' : m.work_day_id = w.line_work_day_id
    BY DEF Assigned
  <2>1. PICK m \in line_work_day : m.work_day_id = w.line_work_day_id
    BY <1>9 DEF IInv, Assigned
  <2> QED BY <2>1, <1>1, <1>9
<1>11. GivenOut'
  BY <1>1, <1>4, <1>7 DEF IInv, GivenOut
<1>12. WorkersWithinLine'
  BY <1>4, <1>9 DEF IInv, WorkersWithinLine
<1>13. WithinCapacity'
  <2>1. \A m \in line_work_day', r \in Role, k \in Slot :
          m \in line_work_day /\ OnDuty(m, r, k)' \subseteq OnDuty(m, r, k)
    BY <1>1, <1>4, <1>9 DEF OnDuty, WorkersOf
  <2> QED BY <2>1, <1>3, CapacityKept DEF IInv
<1> QED BY <1>3, <1>6, <1>7, <1>8, <1>10, <1>11, <1>12, <1>13 DEF IInv

(* More time for a line never takes a worker out of it.                     *)
LEMMA AddLineTimeKeeps ==
  ASSUME IInv, NEW l \in line_work_day, NEW s \in Time, NEW e \in Time,
         add_line_work_day_work_time(l, s, e)
  PROVE  IInv'
<1> DEFINE d == l.work_day_id
           rows == InsertWorkTime(work_time[d], s, e)
<1>1. /\ TimeOnly /\ work_time' = [work_time EXCEPT ![d] = rows]
      /\ d \in DayId /\ work_time \in [DayId -> SUBSET Interval]
      /\ work_time[d] \subseteq Interval /\ ~Overlapping(work_time[d])
  BY DEF add_line_work_day_work_time, IInv, TypeOK, NonOverlapping
<1>2. /\ rows \subseteq Interval /\ ~Overlapping(rows)
      /\ Covered(rows) = Covered(work_time[d]) \cup Slots(s, e)
  BY <1>1, InsertKeepsApart, InsertCovers
<1> HIDE DEF rows
<1>3. /\ work_time'[d] = rows
      /\ \A c \in DayId : c # d => work_time'[c] = work_time[c]
  BY <1>1
<1>4. work_time' \in [DayId -> SUBSET Interval]
  BY <1>1, <1>2
<1>5. \A c \in DayId : ~Overlapping(work_time'[c])
  BY <1>2, <1>3 DEF IInv, NonOverlapping
<1>6. \A c \in DayId : last_id < c => work_time'[c] = {}
  <2>1. d <= last_id /\ last_id \in Nat /\ d \in Nat
    BY <1>1, RosterAssumption DEF IInv, GivenOut, TypeOK, DayId
  <2>2. \A c \in DayId : last_id < c => c # d
    BY <2>1 DEF DayId
  <2> QED BY <2>2, <1>3 DEF IInv, GivenOut
<1>7. \A w \in worker_work_day :
        /\ work_time'[w.work_day_id] = work_time[w.work_day_id]
        /\ Covered(work_time[w.line_work_day_id]) \subseteq Covered(work_time'[w.line_work_day_id])
  <2> SUFFICES ASSUME NEW w \in worker_work_day
               PROVE  /\ work_time'[w.work_day_id] = work_time[w.work_day_id]
                      /\ Covered(work_time[w.line_work_day_id]) \subseteq Covered(work_time'[w.line_work_day_id])
    OBVIOUS
  <2>1. w.work_day_id \in DayId /\ w.line_work_day_id \in DayId /\ w.work_day_id # d
    BY DEF IInv, TypeOK, Keys
  <2> QED BY <2>1, <1>2, <1>3
<1>8. WorkersWithinLine'
  BY <1>1, <1>7 DEF IInv, WorkersWithinLine, TimeOnly
<1>9. TypeOK'
  BY <1>1, <1>4 DEF IInv, TypeOK, TimeOnly
<1>10. WithinCapacity'
  BY <1>1, <1>7, <1>9, TimeShrinks
<1> QED BY <1>1, <1>4, <1>5, <1>6, <1>8, <1>10, TimeStep

(* Less time for a worker is within the line's, and within its capacity.    *)
LEMMA RemoveWorkerTimeKeeps ==
  ASSUME IInv, NEW w \in worker_work_day, NEW s \in Time, NEW e \in Time,
         remove_worker_work_day_work_time(w, s, e)
  PROVE  IInv'
<1> DEFINE d == w.work_day_id
           rows == RemoveWorkTime(work_time[d], s, e)
<1>1. /\ s <= e /\ TimeOnly /\ work_time' = [work_time EXCEPT ![d] = rows]
      /\ d \in DayId /\ work_time \in [DayId -> SUBSET Interval]
      /\ work_time[d] \subseteq Interval /\ ~Overlapping(work_time[d])
  BY DEF remove_worker_work_day_work_time, IInv, TypeOK, NonOverlapping
<1>2. /\ rows \subseteq Interval /\ ~Overlapping(rows)
      /\ Covered(rows) = Covered(work_time[d]) \ Slots(s, e)
  BY <1>1, RemoveKeepsApart, RemoveFrees
<1> HIDE DEF rows
<1>3. /\ work_time'[d] = rows
      /\ \A c \in DayId : c # d => work_time'[c] = work_time[c]
  BY <1>1
<1>4. work_time' \in [DayId -> SUBSET Interval]
  BY <1>1, <1>2
<1>5. \A c \in DayId : ~Overlapping(work_time'[c])
  BY <1>2, <1>3 DEF IInv, NonOverlapping
<1>6. \A c \in DayId : last_id < c => work_time'[c] = {}
  <2>1. d <= last_id /\ last_id \in Nat /\ d \in Nat
    BY <1>1, RosterAssumption DEF IInv, GivenOut, TypeOK, DayId
  <2>2. \A c \in DayId : last_id < c => c # d
    BY <2>1 DEF DayId
  <2> QED BY <2>2, <1>3 DEF IInv, GivenOut
<1>7. \A v \in worker_work_day :
        /\ work_time'[v.line_work_day_id] = work_time[v.line_work_day_id]
        /\ Covered(work_time'[v.work_day_id]) \subseteq Covered(work_time[v.work_day_id])
  <2> SUFFICES ASSUME NEW v \in worker_work_day
               PROVE  /\ work_time'[v.line_work_day_id] = work_time[v.line_work_day_id]
                      /\ Covered(work_time'[v.work_day_id]) \subseteq Covered(work_time[v.work_day_id])
    OBVIOUS
  <2>1. v.work_day_id \in DayId /\ v.line_work_day_id \in DayId
    BY DEF IInv, TypeOK
  <2>2. v.line_work_day_id # d
    BY DEF IInv, Keys, Assigned
  <2> QED BY <2>1, <2>2, <1>2, <1>3
<1>8. WorkersWithinLine'
  BY <1>1, <1>7 DEF IInv, WorkersWithinLine, TimeOnly
<1>9. TypeOK'
  BY <1>1, <1>4 DEF IInv, TypeOK, TimeOnly
<1>10. WithinCapacity'
  BY <1>1, <1>7, <1>9, TimeShrinks
<1> QED BY <1>1, <1>4, <1>5, <1>6, <1>8, <1>10, TimeStep

(* The workers on duty as the rows times have it.                           *)
OnDutyIn(times, l, role, k) ==
  {w \in WorkersOf(l.work_day_id) : w.role_id = role /\ k \in Covered(times[w.work_day_id])}

(* Whoever is on duty at a moment has, within each piece the moment is in,  *)
(* one row that contains the piece: no boundary of a row cuts a piece.  So  *)
(* the count of f_is_enough_workers misses nobody, though it looks for one  *)
(* row that contains the whole range it is given.                           *)
LEMMA PieceCountsEveryone ==
  ASSUME TypeOK, NEW times \in [DayId -> SUBSET Interval], NEW l, NEW role,
         NEW s \in Time, NEW e \in Time, NEW k \in Slot,
         NEW a \in Time, NEW b \in Time, s <= a, a <= k, k < b, b <= e,
         \A t \in BoundariesWithin(times, s, e) : ~(a < t /\ t < b)
  PROVE  OnDutyIn(times, l, role, k) \subseteq
           {w \in WorkersOf(l.work_day_id) :
              w.role_id = role /\ \E r \in times[w.work_day_id] : Contains(r, a, b)}
<1> SUFFICES ASSUME NEW w \in OnDutyIn(times, l, role, k)
             PROVE  /\ w \in WorkersOf(l.work_day_id) /\ w.role_id = role
                    /\ \E r \in times[w.work_day_id] : Contains(r, a, b)
  OBVIOUS
<1>1. /\ w \in WorkersOf(l.work_day_id) /\ w.role_id = role
      /\ k \in Covered(times[w.work_day_id])
  BY DEF OnDutyIn
<1>2. PICK r \in times[w.work_day_id] : r.start_time <= k /\ k < r.end_time
  BY <1>1 DEF Covered
<1>3. w.work_day_id \in DayId
  BY <1>1 DEF WorkersOf, TypeOK
<1>4. r.start_time \in Time /\ r.end_time \in Time
  BY <1>2, <1>3 DEF Interval
<1>5. /\ s \in Nat /\ e \in Nat /\ a \in Nat /\ b \in Nat /\ k \in Nat
      /\ r.start_time \in Nat /\ r.end_time \in Nat
  BY <1>4, MaxTimeAssumption DEF Time, Slot
<1>6. \A t \in {r.start_time, r.end_time} :
        s < t /\ t < e => t \in BoundariesWithin(times, s, e)
  BY <1>2, <1>3, <1>4 DEF BoundariesWithin
<1>7. r.start_time <= a
  <2>1. ASSUME a < r.start_time PROVE FALSE
    <3>1. s < r.start_time /\ r.start_time < e /\ r.start_time < b
      BY <2>1, <1>2, <1>5
    <3> QED BY <3>1, <2>1, <1>6
  <2> QED BY <2>1, <1>5
<1>8. b <= r.end_time
  <2>1. ASSUME r.end_time < b PROVE FALSE
    <3>1. s < r.end_time /\ r.end_time < e /\ a < r.end_time
      BY <2>1, <1>2, <1>5
    <3> QED BY <3>1, <2>1, <1>6
  <2> QED BY <2>1, <1>5
<1>9. Contains(r, a, b)
  BY <1>2, <1>5, <1>7, <1>8 DEF Contains, Between
<1> QED BY <1>1, <1>2, <1>9

(* A range that passes the checks of p_add_worker_work_day_work_time, made  *)
(* on the rows times for the worker_work_day w, lies in one row of the line *)
(* and has, at every moment, room for one more.                             *)
LEMMA AddAccepted ==
  ASSUME TypeOK, IsFiniteSet(worker_work_day), NEW times \in [DayId -> SUBSET Interval],
         NEW w, w.line_work_day_id \in DayId, w.role_id \in Role,
         NEW s \in Time, NEW e \in Time,
         ~AddRejected(times, w, s, e)
  PROVE  /\ Slots(s, e) \subseteq Covered(times[w.line_work_day_id])
         /\ \A l \in line_work_day, k \in Slots(s, e) : l.work_day_id = w.line_work_day_id =>
               Cardinality(OnDutyIn(times, l, w.role_id, k)) < WorkerCount[<<l.line_id, w.role_id>>]
<1>1. Slots(s, e) \subseteq Covered(times[w.line_work_day_id])
  <2>1. PICK r \in times[w.line_work_day_id] : Contains(r, s, e)
    BY DEF AddRejected
  <2>2. r.start_time \in Time /\ r.end_time \in Time
    BY <2>1 DEF Interval
  <2> QED BY <2>1, <2>2, MaxTimeAssumption DEF Contains, Between, Slots, Covered, Time, Slot
<1>2. ASSUME NEW l \in line_work_day, NEW k \in Slots(s, e), l.work_day_id = w.line_work_day_id
      PROVE  Cardinality(OnDutyIn(times, l, w.role_id, k)) < WorkerCount[<<l.line_id, w.role_id>>]
  <2> DEFINE cuts == BoundariesWithin(times, s, e)
             role == w.role_id
  <2>1. k \in Slot /\ s <= k /\ k < e /\ role \in Role /\ l.line_id \in Line
    BY DEF Slots, TypeOK
  <2>2. cuts \in SUBSET Time /\ \A t \in cuts : s < t /\ t < e
    BY DEF BoundariesWithin
  <2>3. PICK p \in Pieces(cuts, s, e) :
           /\ s <= p[1] /\ p[1] <= k /\ k < p[2] /\ p[2] <= e
           /\ p[1] \in Time /\ p[2] \in Time
           /\ \A t \in cuts : ~(p[1] < t /\ t < p[2])
    <3> HIDE DEF cuts
    <3> QED BY <2>1, <2>2, PieceAround
  <2> DEFINE counted == {v \in WorkersOf(l.work_day_id) :
                 v.role_id = role /\ \E r \in times[v.work_day_id] : Contains(r, p[1], p[2])}
             duty == OnDutyIn(times, l, role, k)
  <2>4. duty \subseteq counted
    BY <2>1, <2>3, PieceCountsEveryone
  <2>5. ~(Cardinality(counted) >= WorkerCount[<<l.line_id, role>>])
    BY <1>2, <2>3 DEF AddRejected, f_is_enough_workers
  <2>6. counted \in SUBSET worker_work_day
    BY DEF WorkersOf
  <2>7. WorkerCount[<<l.line_id, role>>] \in Nat
    BY <2>1, RosterAssumption
  <2>8. IsFiniteSet(counted) /\ Cardinality(counted) \in Nat
    <3> HIDE DEF counted
    <3> QED BY <2>6, FS_Subset, FS_CardinalityType
  <2>9. Cardinality(duty) <= Cardinality(counted) /\ Cardinality(duty) \in Nat
    <3> HIDE DEF counted, duty
    <3>1. duty \in SUBSET counted BY <2>4
    <3> QED BY <3>1, <2>8, FS_Subset, FS_CardinalityType
  <2> HIDE DEF counted
  <2> QED BY <2>5, <2>7, <2>8, <2>9
<1> QED BY <1>1, <1>2

(* p_add_worker_work_day_work_time, the step of the roster.                 *)
LEMMA AddWorkerTimeKeeps ==
  ASSUME IInv, NEW w \in worker_work_day, NEW s \in Time, NEW e \in Time,
         p_add_worker_work_day_work_time(w, s, e)
  PROVE  IInv'
<1> DEFINE d == w.work_day_id
           rows == InsertWorkTime(work_time[d], s, e)
<1>1. /\ TimeOnly /\ work_time' = [work_time EXCEPT ![d] = rows]
      /\ d \in DayId /\ work_time \in [DayId -> SUBSET Interval]
      /\ work_time[d] \subseteq Interval /\ ~Overlapping(work_time[d])
  BY DEF p_add_worker_work_day_work_time, IInv, TypeOK, NonOverlapping
<1>2. /\ rows \subseteq Interval /\ ~Overlapping(rows)
      /\ Covered(rows) = Covered(work_time[d]) \cup Slots(s, e)
  BY <1>1, InsertKeepsApart, InsertCovers
<1> HIDE DEF rows
<1>3. /\ work_time'[d] = rows
      /\ \A c \in DayId : c # d => work_time'[c] = work_time[c]
  BY <1>1
<1>4. work_time' \in [DayId -> SUBSET Interval]
  BY <1>1, <1>2
<1>5. \A c \in DayId : ~Overlapping(work_time'[c])
  BY <1>2, <1>3 DEF IInv, NonOverlapping
<1>6. \A c \in DayId : last_id < c => work_time'[c] = {}
  <2>1. d <= last_id /\ last_id \in Nat /\ d \in Nat
    BY <1>1, RosterAssumption DEF IInv, GivenOut, TypeOK, DayId
  <2>2. \A c \in DayId : last_id < c => c # d
    BY <2>1 DEF DayId
  <2> QED BY <2>2, <1>3 DEF IInv, GivenOut
<1>7. /\ Slots(s, e) \subseteq Covered(work_time[w.line_work_day_id])
      /\ \A l \in line_work_day, k \in Slots(s, e) : l.work_day_id = w.line_work_day_id =>
            Cardinality(OnDuty(l, w.role_id, k)) < WorkerCount[<<l.line_id, w.role_id>>]
  <2>1. w.line_work_day_id \in DayId /\ w.role_id \in Role
    BY DEF IInv, TypeOK
  <2>2. \A l \in line_work_day, k \in Slots(s, e) : OnDutyIn(work_time, l, w.role_id, k) = OnDuty(l, w.role_id, k)
    BY DEF OnDuty, OnDutyIn
  <2>3. ~AddRejected(work_time, w, s, e)
    BY DEF p_add_worker_work_day_work_time
  <2> QED BY <1>1, <2>1, <2>2, <2>3, AddAccepted DEF IInv
<1>8. \A v \in worker_work_day :
        /\ work_time'[v.line_work_day_id] = work_time[v.line_work_day_id]
        /\ v # w => work_time'[v.work_day_id] = work_time[v.work_day_id]
  <2> SUFFICES ASSUME NEW v \in worker_work_day
               PROVE  /\ work_time'[v.line_work_day_id] = work_time[v.line_work_day_id]
                      /\ v # w => work_time'[v.work_day_id] = work_time[v.work_day_id]
    OBVIOUS
  <2>1. v.work_day_id \in DayId /\ v.line_work_day_id \in DayId
    BY DEF IInv, TypeOK
  <2>2. v.line_work_day_id # d
    BY DEF IInv, Keys, Assigned
  <2>3. v # w => v.work_day_id # d
    BY DEF IInv, Keys
  <2> QED BY <2>1, <2>2, <2>3, <1>3
<1>9. WorkersWithinLine'
  <2> SUFFICES ASSUME NEW v \in worker_work_day
               PROVE  Covered(work_time'[v.work_day_id]) \subseteq Covered(work_time'[v.line_work_day_id])
    BY <1>1 DEF WorkersWithinLine, TimeOnly
  <2>1. Covered(work_time[v.work_day_id]) \subseteq Covered(work_time[v.line_work_day_id])
    BY DEF IInv, WorkersWithinLine
  <2>2. CASE v = w
    BY <2>1, <2>2, <1>2, <1>3, <1>7, <1>8
  <2>3. CASE v # w
    BY <2>1, <2>3, <1>8
  <2> QED BY <2>2, <2>3
<1>10. WithinCapacity'
  <2> SUFFICES ASSUME NEW l \in line_work_day, NEW role \in Role, NEW k \in Slot
               PROVE  Cardinality(OnDuty(l, role, k)') <= WorkerCount[<<l.line_id, role>>]
    BY <1>1 DEF WithinCapacity, TimeOnly
  <2>1. PICK after : after = OnDuty(l, role, k)'
    OBVIOUS
  <2>2. PICK before : before = OnDuty(l, role, k)
    OBVIOUS
  <2>3. IsFiniteSet(before) /\ Cardinality(before) \in Nat
    BY <2>2, OnDutyFinite DEF IInv
  <2>4. WorkerCount[<<l.line_id, role>>] \in Nat
    <3>1. l.line_id \in Line BY DEF IInv, TypeOK
    <3> QED BY <3>1, RosterAssumption
  <2>5. CASE k \in Slots(s, e) /\ l.work_day_id = w.line_work_day_id /\ role = w.role_id
    <3>1. after \subseteq before \cup {w}
      BY <1>1, <1>8, <2>1, <2>2 DEF OnDuty, WorkersOf, TimeOnly
    <3>2. Cardinality(before) < WorkerCount[<<l.line_id, role>>]
      BY <1>7, <2>2, <2>5
    <3>3. IsFiniteSet(before \cup {w}) /\ Cardinality(before \cup {w}) <= Cardinality(before) + 1
      <4>1. /\ IsFiniteSet(before \cup {w})
            /\ Cardinality(before \cup {w}) = IF w \in before THEN Cardinality(before) ELSE Cardinality(before) + 1
        <5>1. IsFiniteSet(before) BY <2>3
        <5> QED BY <5>1, FS_AddElement
      <4> QED BY <4>1, <2>3
    <3>4. Cardinality(after) <= Cardinality(before \cup {w}) /\ IsFiniteSet(after)
      <4>1. after \in SUBSET (before \cup {w}) BY <3>1
      <4> QED BY <4>1, <3>3, FS_Subset
    <3>5. Cardinality(after) \in Nat /\ Cardinality(before \cup {w}) \in Nat
      BY <3>3, <3>4, FS_CardinalityType
    <3> QED BY <2>1, <2>3, <2>4, <3>2, <3>3, <3>4, <3>5
  <2>6. CASE ~(k \in Slots(s, e) /\ l.work_day_id = w.line_work_day_id /\ role = w.role_id)
    <3>1. ASSUME NEW v \in after PROVE v \in before
      <4>1. /\ v \in worker_work_day /\ v.line_work_day_id = l.work_day_id /\ v.role_id = role
            /\ k \in Covered(work_time'[v.work_day_id])
        BY <1>1, <2>1 DEF OnDuty, WorkersOf, TimeOnly
      <4>2. k \in Covered(work_time[v.work_day_id])
        <5>1. CASE v = w BY <5>1, <4>1, <2>6, <1>2, <1>3
        <5>2. CASE v # w BY <5>2, <4>1, <1>8
        <5> QED BY <5>1, <5>2
      <4> QED BY <4>1, <4>2, <2>2 DEF OnDuty, WorkersOf
    <3>2. Cardinality(after) <= Cardinality(before) /\ Cardinality(after) \in Nat
      <4>1. after \in SUBSET before BY <3>1
      <4>2. IsFiniteSet(after) /\ Cardinality(after) <= Cardinality(before)
        BY <4>1, <2>3, FS_Subset
      <4> QED BY <4>2, FS_CardinalityType
    <3>3. Cardinality(before) <= WorkerCount[<<l.line_id, role>>]
      BY <2>2 DEF IInv, WithinCapacity
    <3> QED BY <2>1, <2>3, <2>4, <3>2, <3>3
  <2> QED BY <2>5, <2>6
<1> QED BY <1>1, <1>4, <1>5, <1>6, <1>9, <1>10, TimeStep

-----------------------------------------------------------------------------
(* A removal from a line.                                                   *)

(* Of rows that do not overlap at most one contains the range, and what is  *)
(* left of it on each side is a row the CHECK admits.                       *)
LEMMA RemoveSucceeds ==
  ASSUME NEW rows, rows \subseteq Interval, ~Overlapping(rows),
         NEW s \in Time, NEW e \in Time, s < e
  PROVE  ~RemoveWorkTimeFails(rows, s, e)
<1> DEFINE B == Trimmed(rows, s, e)
           hit == SplitRows(B, s, e)
<1>1. s \in Nat /\ e \in Nat /\ s <= e
  BY MaxTimeAssumption DEF Time
<1>2. /\ B \subseteq Interval /\ ~Overlapping(B)
      /\ \A r \in B : e <= r.start_time \/ r.end_time <= s \/ (r.start_time < s /\ e < r.end_time)
  BY <1>1, TrimmedRows
<1> HIDE DEF B
<1>3. ASSUME NEW r \in hit
      PROVE  r \in B /\ r.start_time < s /\ e < r.end_time
  <2>1. r \in B /\ Contains(r, s, e)
    BY DEF SplitRows
  <2>2. r.start_time \in Nat /\ r.end_time \in Nat
    BY <2>1, <1>2, MaxTimeAssumption DEF Interval, Time
  <2> QED BY <2>1, <2>2, <1>1, <1>2 DEF Contains, Between
<1>4. ASSUME NEW q \in hit, NEW r \in hit
      PROVE  q = r
  <2>1. /\ q \in B /\ r \in B
        /\ q.start_time \in Nat /\ q.end_time \in Nat /\ r.start_time \in Nat /\ r.end_time \in Nat
    BY <1>2, <1>3, MaxTimeAssumption DEF Interval, Time
  <2>2. ~Apart(q, r)
    BY <2>1, <1>1, <1>3 DEF Apart
  <2> QED BY <2>1, <2>2, <1>2 DEF Overlapping
<1>5. ~(Cardinality(hit) > 1)
  <2> HIDE DEF hit
  <2>1. CASE hit = {}
    BY <2>1, FS_EmptySet
  <2>2. CASE \E r : hit = {r}
    <3>1. PICK r : hit = {r} BY <2>2
    <3>2. Cardinality({r}) = 1 BY FS_Singleton
    <3> QED BY <3>1, <3>2
  <2>3. hit = {} \/ \E r : hit = {r}
    <3>1. ASSUME NEW r \in hit PROVE hit = {r} BY <1>4
    <3> QED BY <3>1
  <2> QED BY <2>1, <2>2, <2>3
<1>6. ASSUME NEW r \in hit
      PROVE  ~UpdateRejected(r, s) /\ ~InsertRejected(r, e)
  BY <1>3 DEF UpdateRejected, InsertRejected
<1> QED BY <1>5, <1>6 DEF RemoveWorkTimeFails, B

(* The rows once the range is out of the days of some of the workers.       *)
LEMMA RemovedRows ==
  ASSUME IInv, NEW s \in Time, NEW e \in Time, s <= e,
         NEW done \in SUBSET worker_work_day, NEW d \in DayId
  PROVE  /\ RemovedFrom(done, s, e)[d] \subseteq Interval
         /\ ~Overlapping(RemovedFrom(done, s, e)[d])
         /\ (\E w \in done : w.work_day_id = d) =>
               Covered(RemovedFrom(done, s, e)[d]) = Covered(work_time[d]) \ Slots(s, e)
         /\ ~(\E w \in done : w.work_day_id = d) => RemovedFrom(done, s, e)[d] = work_time[d]
<1>1. work_time[d] \subseteq Interval /\ ~Overlapping(work_time[d])
  BY RowsOfADay DEF IInv
<1>2. RemovedFrom(done, s, e)[d] = IF \E w \in done : w.work_day_id = d
                                   THEN RemoveWorkTime(work_time[d], s, e) ELSE work_time[d]
  BY DEF RemovedFrom
<1>3. /\ RemoveWorkTime(work_time[d], s, e) \subseteq Interval
      /\ ~Overlapping(RemoveWorkTime(work_time[d], s, e))
      /\ Covered(RemoveWorkTime(work_time[d], s, e)) = Covered(work_time[d]) \ Slots(s, e)
  BY <1>1, RemoveKeepsApart, RemoveFrees
<1> QED BY <1>1, <1>2, <1>3

(* What the call leaves: some of the workers' days cut, all of them before  *)
(* the line's, and no other day changed.                                    *)
LEMMA RemoveLineTimeCuts ==
  ASSUME IInv, NEW l \in line_work_day, NEW s \in Time, NEW e \in Time,
         p_remove_line_work_day_work_time(l, s, e)
  PROVE  \E done \in SUBSET WorkersOf(l.work_day_id) :
           LET times == RemovedFrom(done, s, e)
           IN  /\ work_time' \in {times, [times EXCEPT ![l.work_day_id] = RemoveWorkTime(@, s, e)]}
               /\ work_time' # times => done = WorkersOf(l.work_day_id)
               /\ s < e => /\ done = WorkersOf(l.work_day_id)
                           /\ work_time' = IF UsedByWorkers(times, l.work_day_id, s, e) THEN times
                                           ELSE [times EXCEPT ![l.work_day_id] = RemoveWorkTime(@, s, e)]
<1>1. PICK done \in SUBSET WorkersOf(l.work_day_id) :
         \/ \E w \in WorkersOf(l.work_day_id) \ done :
              /\ RemoveWorkTimeFails(work_time[w.work_day_id], s, e)
              /\ work_time' = RemovedFrom(done \cup {w}, s, e)
         \/ /\ done = WorkersOf(l.work_day_id)
            /\ work_time' = IF UsedByWorkers(RemovedFrom(done, s, e), l.work_day_id, s, e)
                            THEN RemovedFrom(done, s, e)
                            ELSE [RemovedFrom(done, s, e) EXCEPT ![l.work_day_id] = RemoveWorkTime(@, s, e)]
  BY DEF p_remove_line_work_day_work_time
<1>2. CASE \E w \in WorkersOf(l.work_day_id) \ done :
              /\ RemoveWorkTimeFails(work_time[w.work_day_id], s, e)
              /\ work_time' = RemovedFrom(done \cup {w}, s, e)
  <2>1. PICK w \in WorkersOf(l.work_day_id) \ done :
              /\ RemoveWorkTimeFails(work_time[w.work_day_id], s, e)
              /\ work_time' = RemovedFrom(done \cup {w}, s, e)
    BY <1>2
  <2>2. w.work_day_id \in DayId
    BY DEF WorkersOf, IInv, TypeOK
  <2>3. ~(s < e)
    BY <2>1, <2>2, RowsOfADay, RemoveSucceeds DEF IInv
  <2>4. done \cup {w} \in SUBSET WorkersOf(l.work_day_id)
    OBVIOUS
  <2> QED BY <2>1, <2>3, <2>4
<1>3. CASE /\ done = WorkersOf(l.work_day_id)
           /\ work_time' = IF UsedByWorkers(RemovedFrom(done, s, e), l.work_day_id, s, e)
                            THEN RemovedFrom(done, s, e)
                            ELSE [RemovedFrom(done, s, e) EXCEPT ![l.work_day_id] = RemoveWorkTime(@, s, e)]
  BY <1>3
<1> QED BY <1>1, <1>2, <1>3

(* Once a worker's day has no time in the range, no row of it is in the way *)
(* of the validation in p_remove_work_time.                                 *)
LEMMA NobodyInTheWay ==
  ASSUME IInv, NEW l \in line_work_day, NEW s \in Time, NEW e \in Time, s < e
  PROVE  ~UsedByWorkers(RemovedFrom(WorkersOf(l.work_day_id), s, e), l.work_day_id, s, e)
<1> DEFINE done == WorkersOf(l.work_day_id)
           times == RemovedFrom(done, s, e)
<1>1. s \in Nat /\ e \in Nat /\ s <= e /\ done \in SUBSET worker_work_day
  BY MaxTimeAssumption DEF Time, WorkersOf
<1> SUFFICES ASSUME NEW w \in done, NEW r \in times[w.work_day_id],
                    \/ s < r.start_time /\ r.start_time < e
                    \/ s < r.end_time /\ r.end_time < e
                    \/ r.start_time < s /\ e < r.end_time
             PROVE  FALSE
  BY DEF UsedByWorkers
<1>2. w.work_day_id \in DayId
  BY DEF WorkersOf, IInv, TypeOK
<1>3. /\ times[w.work_day_id] \subseteq Interval
      /\ Covered(times[w.work_day_id]) = Covered(work_time[w.work_day_id]) \ Slots(s, e)
  BY <1>1, <1>2, RemovedRows
<1>4. r.start_time \in Time /\ r.end_time \in Time /\ r.start_time < r.end_time
  BY <1>3 DEF Interval
<1>5. \E k \in Slot : r.start_time <= k /\ k < r.end_time /\ s <= k /\ k < e
  <2>1. CASE s < r.start_time /\ r.start_time < e
    <3>1. r.start_time \in Slot BY <2>1, <1>4, MaxTimeAssumption DEF Slot, Time
    <3> QED BY <3>1, <2>1, <1>4, <1>1, MaxTimeAssumption DEF Time
  <2>2. CASE s < r.end_time /\ r.end_time < e
    <3>1. r.end_time - 1 \in Slot BY <2>2, <1>1, <1>4, MaxTimeAssumption DEF Slot, Time
    <3>2. r.start_time <= r.end_time - 1 /\ r.end_time - 1 < r.end_time /\ s <= r.end_time - 1 /\ r.end_time - 1 < e
      BY <2>2, <1>4, <1>1, MaxTimeAssumption DEF Time
    <3> QED BY <3>1, <3>2
  <2>3. CASE r.start_time < s /\ e < r.end_time
    <3>1. s \in Slot BY <2>3, <1>1, <1>4, MaxTimeAssumption DEF Slot, Time
    <3> QED BY <3>1, <2>3, <1>4, <1>1, MaxTimeAssumption DEF Time
  <2> QED BY <2>1, <2>2, <2>3
<1>6. PICK k \in Slot : r.start_time <= k /\ k < r.end_time /\ s <= k /\ k < e
  BY <1>5
<1>7. k \in Covered(times[w.work_day_id])
  BY <1>6 DEF Covered
<1>8. k \in Slots(s, e)
  BY <1>6 DEF Slots
<1> QED BY <1>3, <1>7, <1>8

(* p_remove_line_work_day_work_time, the step of the roster, its error      *)
(* included.                                                                *)
LEMMA RemoveLineTimeKeeps ==
  ASSUME IInv, NEW l \in line_work_day, NEW s \in Time, NEW e \in Time,
         p_remove_line_work_day_work_time(l, s, e)
  PROVE  IInv'
<1> DEFINE d == l.work_day_id
<1>1. s <= e /\ TimeOnly
  BY DEF p_remove_line_work_day_work_time
<1>2. PICK done \in SUBSET WorkersOf(d) :
        /\ work_time' \in {RemovedFrom(done, s, e),
                           [RemovedFrom(done, s, e) EXCEPT ![d] = RemoveWorkTime(@, s, e)]}
        /\ work_time' # RemovedFrom(done, s, e) => done = WorkersOf(d)
  BY RemoveLineTimeCuts
<1>3. PICK times : times = RemovedFrom(done, s, e)
  OBVIOUS
<1>4. DOMAIN times = DayId /\ times = [c \in DayId |-> times[c]]
  BY <1>3 DEF RemovedFrom
<1>5. ASSUME NEW c \in DayId
      PROVE  /\ times[c] \subseteq Interval /\ ~Overlapping(times[c])
             /\ (\E w \in done : w.work_day_id = c) => Covered(times[c]) = Covered(work_time[c]) \ Slots(s, e)
             /\ ~(\E w \in done : w.work_day_id = c) => times[c] = work_time[c]
  <2>1. done \in SUBSET worker_work_day BY <1>2 DEF WorkersOf
  <2> QED BY <1>1, <1>3, <2>1, RemovedRows
<1>6. /\ d \in DayId /\ times[d] = work_time[d]
      /\ work_time[d] \subseteq Interval /\ ~Overlapping(work_time[d])
  <2>1. d \in DayId BY DEF IInv, TypeOK
  <2>2. ~\E w \in done : w.work_day_id = d
    BY <1>2 DEF IInv, Keys, WorkersOf
  <2> QED BY <2>1, <2>2, <1>5, RowsOfADay DEF IInv
<1> DEFINE cut == RemoveWorkTime(work_time[d], s, e)
<1>7. cut \subseteq Interval /\ ~Overlapping(cut) /\ Covered(cut) = Covered(work_time[d]) \ Slots(s, e)
  BY <1>1, <1>6, RemoveKeepsApart, RemoveFrees
<1> HIDE DEF cut
<1>8. \/ work_time' = times
      \/ done = WorkersOf(d) /\ work_time' = [times EXCEPT ![d] = cut]
  BY <1>2, <1>3, <1>6 DEF cut
<1>9. \A c \in DayId : c # d => work_time'[c] = times[c]
  BY <1>4, <1>8
<1>10. work_time'[d] = times[d] \/ (done = WorkersOf(d) /\ work_time'[d] = cut)
  BY <1>4, <1>6, <1>8
<1>11. work_time' \in [DayId -> SUBSET Interval]
  <2>1. times \in [DayId -> SUBSET Interval] BY <1>4, <1>5
  <2> QED BY <2>1, <1>6, <1>7, <1>8
<1>12. \A c \in DayId : ~Overlapping(work_time'[c])
  BY <1>5, <1>7, <1>9, <1>10
<1>13. \A c \in DayId : last_id < c => work_time'[c] = {}
  <2> SUFFICES ASSUME NEW c \in DayId, last_id < c PROVE work_time'[c] = {}
    OBVIOUS
  <2>1. c \in Nat /\ last_id \in Nat
    BY RosterAssumption DEF IInv, TypeOK, DayId
  <2>2. c # d
    BY <2>1 DEF IInv, GivenOut
  <2>3. ~\E w \in done : w.work_day_id = c
    BY <1>2, <2>1 DEF IInv, GivenOut, WorkersOf
  <2>4. work_time[c] = {}
    BY DEF IInv, GivenOut
  <2> QED BY <2>2, <2>3, <2>4, <1>5, <1>9
<1>14. ASSUME NEW w \in worker_work_day
       PROVE  /\ w.work_day_id \in DayId /\ w.line_work_day_id \in DayId
              /\ w.work_day_id # d
              /\ Covered(work_time'[w.work_day_id]) \subseteq Covered(work_time[w.work_day_id])
              /\ w \in done => Covered(work_time'[w.work_day_id]) = Covered(work_time[w.work_day_id]) \ Slots(s, e)
              /\ w.line_work_day_id # d => work_time'[w.line_work_day_id] = work_time[w.line_work_day_id]
  <2>1. w.work_day_id \in DayId /\ w.line_work_day_id \in DayId
    BY DEF IInv, TypeOK
  <2>2. w.work_day_id # d
    BY DEF IInv, Keys
  <2>3. \A v \in worker_work_day : w.line_work_day_id # v.work_day_id
    BY DEF IInv, Keys, Assigned
  <2>4. ~\E v \in done : v.work_day_id = w.line_work_day_id
    BY <2>3, <1>2 DEF WorkersOf
  <2>5. w.line_work_day_id # d => work_time'[w.line_work_day_id] = work_time[w.line_work_day_id]
    BY <2>1, <2>4, <1>5, <1>9
  <2>6. work_time'[w.work_day_id] = times[w.work_day_id]
    BY <2>1, <2>2, <1>9
  <2>7. /\ Covered(times[w.work_day_id]) \subseteq Covered(work_time[w.work_day_id])
        /\ w \in done => Covered(times[w.work_day_id]) = Covered(work_time[w.work_day_id]) \ Slots(s, e)
    BY <2>1, <1>5
  <2> QED BY <2>1, <2>2, <2>5, <2>6, <2>7
<1>15. WorkersWithinLine'
  <2> SUFFICES ASSUME NEW w \in worker_work_day
               PROVE  Covered(work_time'[w.work_day_id]) \subseteq Covered(work_time'[w.line_work_day_id])
    BY <1>1 DEF WorkersWithinLine, TimeOnly
  <2>1. Covered(work_time[w.work_day_id]) \subseteq Covered(work_time[w.line_work_day_id])
    BY DEF IInv, WorkersWithinLine
  <2>2. CASE w.line_work_day_id # d
    BY <2>1, <2>2, <1>14
  <2>3. CASE w.line_work_day_id = d /\ work_time'[d] = times[d]
    BY <2>1, <2>3, <1>6, <1>14
  <2>4. CASE w.line_work_day_id = d /\ done = WorkersOf(d) /\ work_time'[d] = cut
    <3>1. w \in done BY <2>4 DEF WorkersOf
    <3> QED BY <2>1, <2>4, <3>1, <1>7, <1>14
  <2> QED BY <2>2, <2>3, <2>4, <1>10
<1>16. TypeOK'
  BY <1>1, <1>11 DEF IInv, TypeOK, TimeOnly
<1>17. WithinCapacity'
  BY <1>1, <1>14, <1>16, TimeShrinks
<1> QED BY <1>1, <1>11, <1>12, <1>13, <1>15, <1>17, TimeStep

(* A removal from a line that is not empty takes the range from the line    *)
(* and from all its workers.                                                *)
LEMMA RemovalRemoves ==
  ASSUME IInv, NEW l \in line_work_day, NEW s \in Time, NEW e \in Time, s < e,
         p_remove_line_work_day_work_time(l, s, e)
  PROVE  \A d \in {l.work_day_id} \cup {w.work_day_id : w \in WorkersOf(l.work_day_id)} :
           Covered(work_time'[d]) = Covered(work_time[d]) \ Slots(s, e)
<1> DEFINE done == WorkersOf(l.work_day_id)
           line == l.work_day_id
<1>1. PICK times : times = RemovedFrom(done, s, e)
  OBVIOUS
<1>2. work_time' = [times EXCEPT ![line] = RemoveWorkTime(@, s, e)]
  BY <1>1, RemoveLineTimeCuts, NobodyInTheWay
<1>3. s <= e /\ done \in SUBSET worker_work_day /\ line \in DayId
  BY MaxTimeAssumption DEF Time, WorkersOf, IInv, TypeOK
<1>4. DOMAIN times = DayId
  BY <1>1 DEF RemovedFrom
<1>5. times[line] = work_time[line] /\ work_time[line] \subseteq Interval /\ ~Overlapping(work_time[line])
  <2>1. ~\E w \in done : w.work_day_id = line
    BY <1>3 DEF IInv, Keys
  <2> QED BY <2>1, <1>1, <1>3, RemovedRows, RowsOfADay DEF IInv
<1>6. Covered(work_time'[line]) = Covered(work_time[line]) \ Slots(s, e)
  <2>1. work_time'[line] = RemoveWorkTime(work_time[line], s, e)
    BY <1>2, <1>3, <1>4, <1>5
  <2> QED BY <2>1, <1>3, <1>5, RemoveFrees
<1>7. ASSUME NEW w \in done
      PROVE  Covered(work_time'[w.work_day_id]) = Covered(work_time[w.work_day_id]) \ Slots(s, e)
  <2>1. w.work_day_id \in DayId /\ w.work_day_id # line
    BY <1>3 DEF IInv, TypeOK, Keys
  <2>2. work_time'[w.work_day_id] = times[w.work_day_id]
    BY <2>1, <1>2, <1>4
  <2> QED BY <2>1, <2>2, <1>1, <1>3, RemovedRows
<1> QED BY <1>6, <1>7

-----------------------------------------------------------------------------
(* A step that leaves the roster alone.                                     *)
LEMMA UnchangedKeeps ==
  ASSUME IInv, UNCHANGED roster
  PROVE  IInv'
<1>1. TypeOK' /\ NonOverlapping' /\ IsFiniteSet(worker_work_day)' /\ Keys' /\ Assigned' /\ GivenOut'
  BY DEF roster, IInv, TypeOK, NonOverlapping, Keys, Assigned, GivenOut
<1>2. WorkersWithinLine' /\ WithinCapacity'
  BY DEF roster, IInv, WorkersWithinLine, WithinCapacity, OnDuty, WorkersOf
<1> QED BY <1>1, <1>2 DEF IInv

(* Any call.                                                                *)
LEMMA NextKeeps ==
  ASSUME IInv, [Next]_roster
  PROVE  IInv'
<1>1. ASSUME CreateDay PROVE IInv'
  BY <1>1, AddWeekKeeps, CreateLineDayKeeps, CreateWorkerDayKeeps DEF CreateDay
<1>2. ASSUME PlanTime PROVE IInv'
  BY <1>2, AddLineTimeKeeps, AddWorkerTimeKeeps DEF PlanTime
<1>3. ASSUME FreeTime PROVE IInv'
  BY <1>3, RemoveWorkerTimeKeeps, RemoveLineTimeKeeps DEF FreeTime
<1>4. ASSUME DeleteDay PROVE IInv'
  BY <1>4, DeleteLineDayKeeps DEF DeleteDay
<1> QED BY <1>1, <1>2, <1>3, <1>4, UnchangedKeeps DEF Next

(* The invariant holds in every reachable state.                            *)
LEMMA Invariance == Spec => []IInv
<1>1. Init => IInv
  BY InitIInv
<1>2. IInv /\ [Next]_roster => IInv'
  BY NextKeeps
<1> QED BY <1>1, <1>2, PTL DEF Spec

(* The tables keep their types: every id is one that was given out.         *)
THEOREM RosterTypes == Spec => []TypeOK
<1>1. IInv => TypeOK
  BY DEF IInv
<1> QED BY <1>1, Invariance, PTL

(* Whichever procedures write the time of a day, its rows never overlap     *)
(* (p_insert_work_time and p_remove_work_time, procedures.sql).             *)
THEOREM RowsNeverOverlap == Spec => []NonOverlapping
<1>1. IInv => NonOverlapping
  BY DEF IInv
<1> QED BY <1>1, Invariance, PTL

(* A worker never has time outside the line's day the worker is assigned to *)
(* (p_add_worker_work_day_work_time, p_remove_line_work_day_work_time).     *)
THEOREM WorkersStayWithinLine == Spec => []WorkersWithinLine
<1>1. IInv => WorkersWithinLine
  BY DEF IInv
<1> QED BY <1>1, Invariance, PTL

(* No line ever has more workers in a role at work than line_role asks for  *)
(* (f_is_enough_workers, asked about every piece of the range).             *)
THEOREM LinesStayWithinCapacity == Spec => []WithinCapacity
<1>1. IInv => WithinCapacity
  BY DEF IInv
<1> QED BY <1>1, Invariance, PTL

(* A removal from a line never stops half-way                               *)
(* (p_remove_line_work_day_work_time and the validation it calls).          *)
THEOREM RemovalsReachEveryone == Spec => RemovalReachesEveryone
<1>1. IInv /\ [Next]_roster =>
        [TimeOnly => \A l \in line_work_day, s, e \in Time :
           s < e /\ p_remove_line_work_day_work_time(l, s, e) =>
             \A d \in {l.work_day_id} \cup {w.work_day_id : w \in WorkersOf(l.work_day_id)} :
               Covered(work_time'[d]) = Covered(work_time[d]) \ Slots(s, e)]_roster
  BY RemovalRemoves
<1> QED BY <1>1, Invariance, PTL DEF Spec, RemovalReachesEveryone

-----------------------------------------------------------------------------
(* The generation.                                                         *)

(* One turn of l_workers_queue, as far as the roster goes: a worker's day w *)
(* is found or created, the range planned for the line and, if the addition *)
(* is not refused, for the worker.                                          *)
FindsOrCreates(l, w, worker, role) ==
  \/ /\ w \in Assignment(l.work_day_id, worker, role)
     /\ UNCHANGED <<work_day, worker_work_day, last_id>>
  \/ /\ w = WorkerDay(NewId, l, worker, role)
     /\ NewWorkerDay(l, worker, role)

\* The rows are times when the line has its time.
Plans(l, w, times, s, e) ==
  /\ times = [work_time EXCEPT ![l.work_day_id] = InsertWorkTime(@, s, e)]
  /\ \/ work_time' = times
     \/ /\ ~AddRejected(times, w, s, e)
        /\ work_time' = [times EXCEPT ![w.work_day_id] = InsertWorkTime(@, s, e)]

(* The worker's day a turn uses: one of the line's day, found or new, whose *)
(* id is no other day's.                                                    *)
LEMMA AssignmentDay ==
  ASSUME IInv, NEW l \in line_work_day, NEW worker \in Worker, NEW role \in Role, NEW w,
         FindsOrCreates(l, w, worker, role)
  PROVE  /\ w \in [work_day_id: DayId, line_work_day_id: DayId, line_id: Line, worker_id: Worker, role_id: Role]
         /\ w.line_work_day_id = l.work_day_id /\ w.role_id = role /\ w.worker_id = worker
         /\ w.work_day_id \in DayId /\ w.work_day_id # l.work_day_id
         /\ worker_work_day' = worker_work_day \cup {w}
         /\ w \notin worker_work_day => work_time[w.work_day_id] = {}
         /\ \A v \in worker_work_day : v.work_day_id = w.work_day_id => v = w
         /\ \A m \in line_work_day : m.work_day_id # w.work_day_id
         /\ last_id' \in 0 .. MaxDay /\ last_id <= last_id' /\ w.work_day_id <= last_id'
         /\ work_day' \subseteq [id: DayId, date: Date \cup {NULL}]
<1> DEFINE d == l.work_day_id
           c == w.work_day_id
<1>1. /\ d \in DayId /\ DayId \subseteq Nat /\ last_id \in Nat /\ MaxDay \in Nat
      /\ l.line_id \in Line /\ d <= last_id
  BY RosterAssumption DEF IInv, TypeOK, DayId, GivenOut
<1>2. CASE /\ w \in Assignment(l.work_day_id, worker, role)
           /\ UNCHANGED <<work_day, worker_work_day, last_id>>
  <2>1. w \in worker_work_day /\ w.line_work_day_id = d /\ w.role_id = role /\ w.worker_id = worker
    BY <1>2 DEF Assignment, WorkersOf
  <2> QED BY <1>2, <2>1, <1>1 DEF IInv, TypeOK, Keys, GivenOut
<1>3. CASE /\ w = WorkerDay(NewId, l, worker, role)
           /\ NewWorkerDay(l, worker, role)
  <2>1. /\ NewId \in DayId /\ NewId = last_id + 1 /\ last_id' = NewId
        /\ work_day' = work_day \cup {[id |-> NewId, date |-> date] : date \in DateOf(d)}
        /\ worker_work_day' = worker_work_day \cup {w}
    BY <1>3 DEF NewWorkerDay, NewId
  <2>2. /\ w \in [work_day_id: DayId, line_work_day_id: DayId, line_id: Line, worker_id: Worker, role_id: Role]
        /\ w.line_work_day_id = d /\ w.role_id = role /\ w.worker_id = worker /\ c = NewId
    BY <1>3, <2>1, <1>1 DEF WorkerDay
  <2>3. work_time[c] = {}
    BY <2>1, <2>2, <1>1 DEF IInv, GivenOut
  <2>4. /\ \A v \in worker_work_day : v.work_day_id # c
        /\ \A m \in line_work_day : m.work_day_id # c
    BY <2>1, <2>2, <1>1 DEF IInv, GivenOut, TypeOK
  <2>5. \A date \in DateOf(d) : [id |-> NewId, date |-> date] \in [id: DayId, date: Date \cup {NULL}]
    BY <2>1 DEF DateOf, IInv, TypeOK
  <2>6. work_day' \subseteq [id: DayId, date: Date \cup {NULL}]
    BY <2>1, <2>5 DEF IInv, TypeOK
  <2>7. last_id' \in 0 .. MaxDay /\ last_id <= last_id' /\ c <= last_id'
    BY <2>1, <2>2, <1>1 DEF DayId
  <2> QED BY <2>1, <2>2, <2>3, <2>4, <2>6, <2>7
<1> QED BY <1>2, <1>3 DEF FindsOrCreates

\* What that does to the rows of the line's and of the worker's day.
RowsAssigned(l, w, times, s, e) ==
  LET d == l.work_day_id
      c == w.work_day_id
      line_rows == InsertWorkTime(work_time[d], s, e)
      rows == InsertWorkTime(work_time[c], s, e)
  IN  /\ line_rows \subseteq Interval /\ ~Overlapping(line_rows)
      /\ Covered(line_rows) = Covered(work_time[d]) \cup Slots(s, e)
      /\ rows \subseteq Interval /\ ~Overlapping(rows)
      /\ Covered(rows) = Covered(work_time[c]) \cup Slots(s, e)
      /\ times \in [DayId -> SUBSET Interval]
      /\ times[d] = line_rows
      /\ \A b \in DayId : b # d => times[b] = work_time[b]
      /\ work_time' \in [DayId -> SUBSET Interval]
      /\ work_time'[d] = line_rows
      /\ work_time'[c] = work_time[c] \/ (~AddRejected(times, w, s, e) /\ work_time'[c] = rows)
      /\ \A b \in DayId : b # d /\ b # c => work_time'[b] = work_time[b]

(* The rows a turn leaves: where something is planned the rows stay         *)
(* intervals apart, and cover the range besides.                            *)
LEMMA AssignmentRows ==
  ASSUME IInv, NEW l \in line_work_day, NEW s \in Time, NEW e \in Time, NEW w, NEW times,
         w.work_day_id \in DayId, w.work_day_id # l.work_day_id,
         Plans(l, w, times, s, e)
  PROVE  RowsAssigned(l, w, times, s, e)
<1> DEFINE d == l.work_day_id
           c == w.work_day_id
           accepted == ~AddRejected(times, w, s, e)
<1>1. d \in DayId /\ c \in DayId /\ c # d /\ work_time \in [DayId -> SUBSET Interval]
  BY DEF IInv, TypeOK
<1>2. PICK line_rows : line_rows = InsertWorkTime(work_time[d], s, e)
  OBVIOUS
<1>3. PICK rows : rows = InsertWorkTime(work_time[c], s, e)
  OBVIOUS
<1>4. /\ line_rows \subseteq Interval /\ ~Overlapping(line_rows)
      /\ Covered(line_rows) = Covered(work_time[d]) \cup Slots(s, e)
      /\ rows \subseteq Interval /\ ~Overlapping(rows)
      /\ Covered(rows) = Covered(work_time[c]) \cup Slots(s, e)
  <2>1. work_time[d] \subseteq Interval /\ ~Overlapping(work_time[d])
    BY <1>1, RowsOfADay DEF IInv
  <2>2. work_time[c] \subseteq Interval /\ ~Overlapping(work_time[c])
    BY <1>1, RowsOfADay DEF IInv
  <2>3. /\ line_rows \subseteq Interval /\ ~Overlapping(line_rows)
        /\ Covered(line_rows) = Covered(work_time[d]) \cup Slots(s, e)
    BY <2>1, <1>2, InsertKeepsApart, InsertCovers
  <2>4. /\ rows \subseteq Interval /\ ~Overlapping(rows)
        /\ Covered(rows) = Covered(work_time[c]) \cup Slots(s, e)
    BY <2>2, <1>3, InsertKeepsApart, InsertCovers
  <2> QED BY <2>3, <2>4
<1>5. /\ times \in [DayId -> SUBSET Interval]
      /\ times[d] = line_rows
      /\ \A b \in DayId : b # d => times[b] = work_time[b]
  BY <1>1, <1>2, <1>4 DEF Plans
<1>6. /\ work_time' \in [DayId -> SUBSET Interval]
      /\ work_time'[d] = line_rows
      /\ work_time'[c] = work_time[c] \/ (accepted /\ work_time'[c] = rows)
      /\ \A b \in DayId : b # d /\ b # c => work_time'[b] = work_time[b]
  <2>1. CASE work_time' = times
    BY <2>1, <1>1, <1>5
  <2>2. CASE /\ accepted
             /\ work_time' = [times EXCEPT ![w.work_day_id] = InsertWorkTime(@, s, e)]
    <3>1. times[c] = work_time[c] BY <1>1, <1>5
    <3>2. work_time' = [times EXCEPT ![c] = rows] BY <2>2, <3>1, <1>1, <1>3, <1>5
    <3> QED BY <2>2, <3>2, <1>1, <1>4, <1>5
  <2> QED BY <2>1, <2>2 DEF Plans
<1> QED BY <1>2, <1>3, <1>4, <1>5, <1>6 DEF RowsAssigned

(* What the roster keeps through a turn of l_workers_queue, the refused     *)
(* addition included.                                                       *)
LEMMA AssignmentKeeps ==
  ASSUME IInv, NEW l \in line_work_day, NEW worker \in Worker, NEW role \in Role,
         NEW s \in Time, NEW e \in Time, NEW w, NEW times,
         FindsOrCreates(l, w, worker, role),
         UNCHANGED <<work_week, line_work_day>>,
         Plans(l, w, times, s, e)
  PROVE  IInv'
<1> DEFINE d == l.work_day_id
           c == w.work_day_id
           accepted == ~AddRejected(times, w, s, e)
<1>1. /\ d \in DayId /\ DayId \subseteq Nat /\ last_id \in Nat /\ MaxDay \in Nat
      /\ work_time \in [DayId -> SUBSET Interval]
      /\ l.line_id \in Line /\ d <= last_id
  BY RosterAssumption DEF IInv, TypeOK, DayId, GivenOut
<1>2. /\ w \in [work_day_id: DayId, line_work_day_id: DayId, line_id: Line, worker_id: Worker, role_id: Role]
      /\ w.line_work_day_id = d /\ w.role_id = role
      /\ worker_work_day' = worker_work_day \cup {w}
      /\ w \notin worker_work_day => work_time[c] = {}
      /\ \A v \in worker_work_day : v.work_day_id = c => v = w
      /\ \A m \in line_work_day : m.work_day_id # c
      /\ last_id' \in 0 .. MaxDay /\ last_id <= last_id' /\ c <= last_id'
      /\ work_day' \subseteq [id: DayId, date: Date \cup {NULL}]
  BY AssignmentDay
<1>3. c \in DayId /\ c # d /\ w.worker_id \in Worker
  BY <1>2
<1>4. PICK line_rows : line_rows = InsertWorkTime(work_time[d], s, e)
  OBVIOUS
<1>5. PICK rows : rows = InsertWorkTime(work_time[c], s, e)
  OBVIOUS
<1>6. /\ line_rows \subseteq Interval /\ ~Overlapping(line_rows)
      /\ Covered(line_rows) = Covered(work_time[d]) \cup Slots(s, e)
      /\ rows \subseteq Interval /\ ~Overlapping(rows)
      /\ Covered(rows) = Covered(work_time[c]) \cup Slots(s, e)
      /\ times \in [DayId -> SUBSET Interval]
      /\ times[d] = line_rows
      /\ \A b \in DayId : b # d => times[b] = work_time[b]
      /\ work_time' \in [DayId -> SUBSET Interval]
      /\ work_time'[d] = line_rows
      /\ work_time'[c] = work_time[c] \/ (accepted /\ work_time'[c] = rows)
      /\ \A b \in DayId : b # d /\ b # c => work_time'[b] = work_time[b]
  <2>1. RowsAssigned(l, w, times, s, e)
    BY <1>2, <1>3, AssignmentRows
  <2> QED BY <2>1, <1>4, <1>5 DEF RowsAssigned
<1>7. TypeOK'
  BY <1>2, <1>6 DEF IInv, TypeOK
<1>8. NonOverlapping'
  BY <1>6 DEF IInv, NonOverlapping
<1>9. IsFiniteSet(worker_work_day)'
  BY <1>2, FS_AddElement DEF IInv
<1>10. Keys' /\ Assigned'
  <2>1. Keys' BY <1>2 DEF IInv, Keys
  <2>2. Assigned' BY <1>2 DEF IInv, Assigned
  <2> QED BY <2>1, <2>2
<1>11. GivenOut'
  <2>. last_id \in Nat /\ last_id' \in Nat /\ last_id <= last_id' /\ c <= last_id'
    BY <1>1, <1>2
  <2>1. \A m \in line_work_day' : m.work_day_id <= last_id'
    <3> SUFFICES ASSUME NEW m \in line_work_day PROVE m.work_day_id <= last_id'
      OBVIOUS
    <3>1. m.work_day_id \in Nat /\ m.work_day_id <= last_id
      BY <1>1 DEF IInv, GivenOut, TypeOK
    <3> QED BY <3>1
  <2>2. \A v \in worker_work_day' : v.work_day_id <= last_id'
    <3> SUFFICES ASSUME NEW v \in worker_work_day, v # w PROVE v.work_day_id <= last_id'
      BY <1>2
    <3>1. v.work_day_id \in Nat /\ v.work_day_id <= last_id
      BY <1>1 DEF IInv, GivenOut, TypeOK
    <3> QED BY <3>1
  <2>3. ASSUME NEW b \in DayId, last_id' < b PROVE work_time'[b] = {}
    <3>1. last_id < b /\ b # d /\ b # c
      BY <2>3, <1>1, <1>2, <1>3
    <3> QED BY <3>1, <1>6 DEF IInv, GivenOut
  <2> QED BY <2>1, <2>2, <2>3 DEF GivenOut
<1>12. accepted => /\ Slots(s, e) \subseteq Covered(line_rows)
                   /\ \A m \in line_work_day, k \in Slots(s, e) : m.work_day_id = d =>
                        Cardinality(OnDuty(m, role, k)) < WorkerCount[<<m.line_id, role>>]
  <2>1. \A v \in worker_work_day : v.work_day_id \in DayId /\ v.work_day_id # d
    BY DEF IInv, TypeOK, Keys
  <2>2. \A m \in line_work_day, k \in Slots(s, e) : OnDutyIn(times, m, role, k) = OnDuty(m, role, k)
    BY <2>1, <1>6 DEF OnDuty, OnDutyIn, WorkersOf
  <2>3. w.line_work_day_id \in DayId /\ w.role_id \in Role
    BY <1>2
  <2> SUFFICES ASSUME accepted
               PROVE  /\ Slots(s, e) \subseteq Covered(line_rows)
                      /\ \A m \in line_work_day, k \in Slots(s, e) : m.work_day_id = d =>
                           Cardinality(OnDuty(m, role, k)) < WorkerCount[<<m.line_id, role>>]
    OBVIOUS
  <2>4. /\ Slots(s, e) \subseteq Covered(times[w.line_work_day_id])
        /\ \A m \in line_work_day : m.work_day_id = w.line_work_day_id =>
             \A k \in Slots(s, e) :
               Cardinality(OnDutyIn(times, m, w.role_id, k)) < WorkerCount[<<m.line_id, w.role_id>>]
    BY <1>6, <2>3, AddAccepted DEF IInv
  <2> QED BY <1>2, <1>6, <2>2, <2>4
<1>13. ASSUME NEW v \in worker_work_day, v # w
       PROVE  /\ v.work_day_id \in DayId /\ v.line_work_day_id \in DayId
              /\ work_time'[v.work_day_id] = work_time[v.work_day_id]
              /\ v.line_work_day_id # c
  <2>1. v.work_day_id \in DayId /\ v.line_work_day_id \in DayId
    BY DEF IInv, TypeOK
  <2>2. v.work_day_id # c /\ v.work_day_id # d
    BY <1>2, <1>13 DEF IInv, Keys
  <2>3. v.line_work_day_id # c
    BY <1>2 DEF IInv, Assigned
  <2> QED BY <2>1, <2>2, <2>3, <1>6
<1>14. Covered({}) = {}
  BY DEF Covered
<1>15. WorkersWithinLine'
  <2> SUFFICES ASSUME NEW v \in worker_work_day'
               PROVE  Covered(work_time'[v.work_day_id]) \subseteq Covered(work_time'[v.line_work_day_id])
    BY DEF WorkersWithinLine
  <2>1. CASE v # w
    <3>1. v \in worker_work_day BY <2>1, <1>2
    <3>2. Covered(work_time[v.work_day_id]) \subseteq Covered(work_time[v.line_work_day_id])
      BY <3>1 DEF IInv, WorkersWithinLine
    <3>3. Covered(work_time[v.line_work_day_id]) \subseteq Covered(work_time'[v.line_work_day_id])
      BY <2>1, <3>1, <1>6, <1>13
    <3> QED BY <2>1, <3>1, <3>2, <3>3, <1>13
  <2>2. CASE v = w
    <3>1. Covered(work_time[c]) \subseteq Covered(work_time[d])
      <4>1. CASE w \in worker_work_day BY <4>1, <1>2 DEF IInv, WorkersWithinLine
      <4>2. CASE w \notin worker_work_day BY <4>2, <1>2, <1>14
      <4> QED BY <4>1, <4>2
    <3>2. Covered(work_time'[c]) \subseteq Covered(line_rows)
      BY <3>1, <1>6, <1>12
    <3> QED BY <2>2, <3>2, <1>2, <1>6
  <2> QED BY <2>1, <2>2
<1>16. WithinCapacity'
  <2> SUFFICES ASSUME NEW m \in line_work_day, NEW r \in Role, NEW k \in Slot
               PROVE  Cardinality(OnDuty(m, r, k)') <= WorkerCount[<<m.line_id, r>>]
    BY DEF WithinCapacity
  <2>1. PICK after : after = OnDuty(m, r, k)'
    OBVIOUS
  <2>2. PICK before : before = OnDuty(m, r, k)
    OBVIOUS
  <2>3. IsFiniteSet(before) /\ Cardinality(before) \in Nat
    BY <2>2, OnDutyFinite DEF IInv
  <2>4. WorkerCount[<<m.line_id, r>>] \in Nat
    <3>1. m.line_id \in Line BY DEF IInv, TypeOK
    <3> QED BY <3>1, RosterAssumption
  <2>5. Cardinality(before) <= WorkerCount[<<m.line_id, r>>]
    BY <2>2 DEF IInv, WithinCapacity
  <2>6. ASSUME NEW v \in after, v # w PROVE v \in before
    <3>1. /\ v \in worker_work_day' /\ v.line_work_day_id = m.work_day_id /\ v.role_id = r
          /\ k \in Covered(work_time'[v.work_day_id])
      BY <2>1 DEF OnDuty, WorkersOf
    <3>2. v \in worker_work_day BY <3>1, <2>6, <1>2
    <3> QED BY <3>1, <3>2, <2>2, <2>6, <1>13 DEF OnDuty, WorkersOf
  <2>7. CASE accepted /\ k \in Slots(s, e) /\ m.work_day_id = d /\ r = role
    <3>1. Cardinality(before) < WorkerCount[<<m.line_id, r>>]
      BY <2>2, <2>7, <1>12
    <3>2. after \in SUBSET (before \cup {w})
      BY <2>6
    <3>3. /\ IsFiniteSet(before \cup {w})
          /\ Cardinality(before \cup {w}) = IF w \in before THEN Cardinality(before) ELSE Cardinality(before) + 1
      BY <2>3, FS_AddElement
    <3>4. Cardinality(before \cup {w}) <= Cardinality(before) + 1
      BY <2>3, <3>3
    <3>5. IsFiniteSet(after) /\ Cardinality(after) <= Cardinality(before \cup {w})
      BY <3>2, <3>3, FS_Subset
    <3>6. Cardinality(after) \in Nat /\ Cardinality(before \cup {w}) \in Nat
      BY <3>3, <3>5, FS_CardinalityType
    <3> QED BY <2>1, <2>3, <2>4, <3>1, <3>4, <3>5, <3>6
  <2>8. CASE ~(accepted /\ k \in Slots(s, e) /\ m.work_day_id = d /\ r = role)
    <3>1. ASSUME w \in after PROVE w \in before
      <4>1. d = m.work_day_id /\ role = r /\ k \in Covered(work_time'[c])
        BY <2>1, <3>1, <1>2 DEF OnDuty, WorkersOf
      <4>2. k \in Covered(work_time[c])
        BY <4>1, <2>8, <1>6
      <4>3. w \in worker_work_day
        BY <4>2, <1>2, <1>14
      <4> QED BY <4>1, <4>2, <4>3, <2>2, <1>2 DEF OnDuty, WorkersOf
    <3>2. after \in SUBSET before
      BY <2>6, <3>1
    <3>3. IsFiniteSet(after) /\ Cardinality(after) <= Cardinality(before)
      BY <3>2, <2>3, FS_Subset
    <3>4. Cardinality(after) \in Nat
      BY <3>3, FS_CardinalityType
    <3> QED BY <2>1, <2>3, <2>4, <2>5, <3>3, <3>4
  <2> QED BY <2>7, <2>8
<1> QED BY <1>7, <1>8, <1>9, <1>10, <1>11, <1>15, <1>16 DEF IInv

-----------------------------------------------------------------------------
(* The variables of the calls: a date and a line while there are loops that *)
(* use them, candidates of the types the queries give them, and a day of    *)
(* the line from when the queue is filled.                                  *)
Typed ==
  /\ loop \in {"none", "l_default_work_days", "l_line_role", "l_role_count", "chunk", "l_workers_queue"}
  /\ loop # "none" => in_date \in Date
  /\ default_times \subseteq LineTime
  /\ loop \notin {"none", "l_default_work_days"} => line_time \in LineTime
  /\ line_roles \subseteq Role
  /\ loop \notin {"none", "l_default_work_days", "l_line_role"} => role_id \in Role
  /\ workers_queue \subseteq Worker \X Time \X Time
  /\ loop = "l_workers_queue" => LineDays(line_time.line, in_date) # {}

(* Chunks are cut at boundaries, so theirs are boundaries.                  *)
LEMMA PiecesInTime ==
  ASSUME NEW cuts \in SUBSET Time, NEW s \in Time, NEW e \in Time
  PROVE  Pieces(cuts, s, e) \subseteq Time \X Time
BY DEF Pieces

(* The queue is filled with workers, their roles and sums.                  *)
LEMMA CandidatesTyped ==
  ASSUME NEW date, NEW row \in Interval, NEW role
  PROVE  Candidates(date, row, role) \subseteq Worker \X Time \X Time
<1>1. ChunkCuts(date, row) \in SUBSET Time /\ row.start_time \in Time /\ row.end_time \in Time
  BY DEF ChunkCuts, Interval
<1>2. Chunks(date, row) \subseteq Time \X Time
  BY <1>1, PiecesInTime DEF Chunks
<1>3. \A p \in Chunks(date, row) : p[1] \in Time /\ p[2] \in Time
  BY <1>2
<1> QED BY <1>3 DEF Candidates

(* The line's day that the loop found or created is a row of line_work_day. *)
LEMMA TheLineDayIs ==
  ASSUME LineDays(line_time.line, in_date) # {}
  PROVE  TheLineDay \in line_work_day /\ TheLineDay \in LineDays(line_time.line, in_date)
BY DEF TheLineDay, LineDays

(* A turn that assigns, in terms of the line's day l, of the worker's day w *)
(* it finds or creates, and of the rows when the line has its time.         *)
AssignsFrom(l, w, times, worker, s, e) ==
  /\ \/ /\ w \in Assignment(l.work_day_id, worker, role_id)
        /\ UNCHANGED <<work_day, worker_work_day, last_id>>
     \/ /\ Assignment(l.work_day_id, worker, role_id) = {}
        /\ w = WorkerDay(NewId, l, worker, role_id)
        /\ NewWorkerDay(l, worker, role_id)
  /\ times = [work_time EXCEPT ![l.work_day_id] = InsertWorkTime(@, s, e)]
  /\ \/ /\ AddRejected(times, w, s, e)
        /\ work_time' = times
        /\ EndCall(TRUE)
     \/ /\ ~AddRejected(times, w, s, e)
        /\ work_time' = [times EXCEPT ![w.work_day_id] = InsertWorkTime(@, s, e)]
        /\ UNCHANGED <<loop, in_date, default_times, line_time, line_roles, role_id,
                       role_iterator, queue_number, failed>>
        /\ workers_queue' = {x \in workers_queue : <<x[2], x[3]>> # <<s, e>>}
  /\ UNCHANGED <<work_week, line_work_day>>

(* Assign is a turn as the lemmas above have it.                            *)
LEMMA AssignIs ==
  ASSUME NEW worker, NEW s, NEW e, Assign(worker, s, e), NEW l, l = TheLineDay
  PROVE  \E w, times : AssignsFrom(l, w, times, worker, s, e)
<1> DEFINE found == Assignment(l.work_day_id, worker, role_id)
           day == IF found = {} THEN WorkerDay(NewId, l, worker, role_id)
                                ELSE CHOOSE v \in found : TRUE
           rows == [work_time EXCEPT ![l.work_day_id] = InsertWorkTime(@, s, e)]
<1>1. PICK w, times : w = day /\ times = rows
  OBVIOUS
<1>2. /\ IF found = {} THEN NewWorkerDay(l, worker, role_id)
                       ELSE UNCHANGED <<work_day, worker_work_day, last_id>>
      /\ IF AddRejected(times, w, s, e)
         THEN /\ work_time' = times
              /\ EndCall(TRUE)
         ELSE /\ work_time' = [times EXCEPT ![w.work_day_id] = InsertWorkTime(@, s, e)]
              /\ UNCHANGED <<loop, in_date, default_times, line_time, line_roles, role_id,
                             role_iterator, queue_number, failed>>
              /\ workers_queue' = {x \in workers_queue : <<x[2], x[3]>> # <<s, e>>}
      /\ UNCHANGED <<work_week, line_work_day>>
  BY <1>1 DEF Assign
<1>3. CASE found = {}
  BY <1>1, <1>2, <1>3 DEF AssignsFrom
<1>4. CASE found # {}
  <2>1. w \in found BY <1>1, <1>4
  <2> QED BY <1>1, <1>2, <1>4, <2>1 DEF AssignsFrom
<1> QED BY <1>3, <1>4

(* A turn of l_workers_queue.                                               *)
LEMMA ServeKeeps ==
  ASSUME IInv, Typed, ServeQueue
  PROVE  IInv' /\ Typed'
<1>1. /\ loop = "l_workers_queue" /\ in_date \in Date /\ role_id \in Role
      /\ line_time \in LineTime /\ LineDays(line_time.line, in_date) # {}
  BY DEF ServeQueue, Typed
<1>2. PICK x \in workers_queue :
        IF f_is_enough_workers(work_time, TheLineDay, role_id, x[2], x[3])
        THEN /\ workers_queue' = {y \in workers_queue : <<y[2], y[3]>> # <<x[2], x[3]>>}
             /\ UNCHANGED <<roster, loop, in_date, default_times, line_time, line_roles,
                            role_id, role_iterator, queue_number, failed>>
        ELSE Assign(x[1], x[2], x[3])
  BY DEF ServeQueue, Best
<1>3. x[1] \in Worker /\ x[2] \in Time /\ x[3] \in Time
  BY DEF Typed
<1>4. CASE f_is_enough_workers(work_time, TheLineDay, role_id, x[2], x[3])
  <2>1. UNCHANGED roster /\ IInv'
    <3>1. UNCHANGED roster BY <1>2, <1>4
    <3> QED BY <3>1, UnchangedKeeps
  <2>2. Typed'
    BY <1>2, <1>4, <2>1 DEF Typed, LineDays, DateOf, roster
  <2> QED BY <2>1, <2>2
<1>5. CASE ~f_is_enough_workers(work_time, TheLineDay, role_id, x[2], x[3])
  <2>1. Assign(x[1], x[2], x[3])
    BY <1>2, <1>5
  <2>2. PICK l : l = TheLineDay
    OBVIOUS
  <2>3. l \in line_work_day
    BY <1>1, <2>2, TheLineDayIs
  <2>4. PICK w, times : AssignsFrom(l, w, times, x[1], x[2], x[3])
    BY <2>1, <2>2, AssignIs
  <2>5. PICK role : role = role_id
    OBVIOUS
  <2>6. IInv'
    <3>1. FindsOrCreates(l, w, x[1], role) /\ Plans(l, w, times, x[2], x[3])
      BY <2>4, <2>5 DEF AssignsFrom, FindsOrCreates, Plans
    <3> QED BY <3>1, <1>1, <1>3, <2>3, <2>4, <2>5, AssignmentKeeps DEF AssignsFrom
  <2>7. work_day \subseteq work_day'
    BY <2>4 DEF AssignsFrom, NewWorkerDay
  <2>8. LineDays(line_time.line, in_date) \subseteq {m \in line_work_day' : m.line_id = line_time.line /\ in_date \in DateOf(m.work_day_id)'}
    BY <2>4, <2>7 DEF AssignsFrom, LineDays, DateOf
  <2>9. ASSUME EndCall(TRUE) PROVE Typed'
    BY <2>9 DEF EndCall, Typed
  <2>10. ASSUME /\ UNCHANGED <<loop, in_date, default_times, line_time, line_roles, role_id,
                                role_iterator, queue_number, failed>>
              /\ workers_queue' \subseteq workers_queue
         PROVE  Typed'
    <3>1. LineDays(line_time.line, in_date)' # {}
      BY <1>1, <2>8, <2>10 DEF LineDays
    <3> QED BY <2>10, <3>1 DEF Typed
  <2> QED BY <2>4, <2>6, <2>9, <2>10 DEF AssignsFrom
<1> QED BY <1>4, <1>5

(* Any turn of any loop.                                                    *)
LEMMA TurnKeeps ==
  ASSUME IInv, Typed, GenerationNext
  PROVE  IInv' /\ Typed'
<1>1. ASSUME NEW date \in Date, p_generate_day_work_time(date) PROVE IInv' /\ Typed'
  <2>1. IInv' BY <1>1, UnchangedKeeps DEF p_generate_day_work_time
  <2>2. Typed' BY <1>1 DEF p_generate_day_work_time, Typed
  <2> QED BY <2>1, <2>2
<1>2. ASSUME FetchDefaultTime PROVE IInv' /\ Typed'
  <2>1. IInv' BY <1>2, UnchangedKeeps DEF FetchDefaultTime
  <2>2. Typed' BY <1>2 DEF FetchDefaultTime, Typed
  <2> QED BY <2>1, <2>2
<1>3. ASSUME EndDay PROVE IInv' /\ Typed'
  <2>1. IInv' BY <1>3, UnchangedKeeps DEF EndDay
  <2>2. Typed' BY <1>3 DEF EndDay, EndCall, Typed
  <2> QED BY <2>1, <2>2
<1>4. ASSUME FetchRole PROVE IInv' /\ Typed'
  <2>1. IInv' BY <1>4, UnchangedKeeps DEF FetchRole
  <2>2. Typed' BY <1>4 DEF FetchRole, Typed
  <2> QED BY <2>1, <2>2
<1>5. ASSUME CountRole PROVE IInv' /\ Typed'
  <2>1. IInv' BY <1>5, UnchangedKeeps DEF CountRole
  <2>2. Typed' BY <1>5 DEF CountRole, Typed
  <2> QED BY <2>1, <2>2
<1>6. ASSUME EnsureLineDay PROVE IInv' /\ Typed'
  <2>1. PICK line, date : line = line_time.line /\ date = in_date
    OBVIOUS
  <2>2. line \in Line /\ date \in Date
    BY <1>6, <2>1 DEF EnsureLineDay, Typed, LineTime
  <2>3. /\ NewLineDay(line, date) /\ work_week' = work_week \cup {WeekOf[date]}
        /\ UNCHANGED <<worker_work_day, work_time, generation>>
    BY <1>6, <2>1 DEF EnsureLineDay
  <2>4. work_week' \subseteq Week
    BY <2>2, <2>3, RosterAssumption DEF IInv, TypeOK
  <2>5. IInv'
    BY <2>2, <2>3, <2>4, NewLineDayKeeps
  <2>6. Typed'
    BY <1>6, <2>3 DEF EnsureLineDay, Typed, generation
  <2> QED BY <2>5, <2>6
<1>7. ASSUME FillQueue PROVE IInv' /\ Typed'
  <2>1. UNCHANGED roster BY <1>7 DEF FillQueue
  <2>2. line_time.row \in Interval
    BY <1>7 DEF FillQueue, Typed, LineTime
  <2>3. workers_queue' \subseteq Worker \X Time \X Time
    BY <1>7, <2>2, CandidatesTyped DEF FillQueue
  <2>4. Typed'
    BY <1>7, <2>1, <2>3 DEF FillQueue, Typed, LineDays, DateOf, roster
  <2> QED BY <2>1, <2>4, UnchangedKeeps
<1>8. ASSUME EndQueue PROVE IInv' /\ Typed'
  <2>1. IInv' BY <1>8, UnchangedKeeps DEF EndQueue
  <2>2. Typed' BY <1>8 DEF EndQueue, Typed
  <2> QED BY <2>1, <2>2
<1> QED BY <1>1, <1>2, <1>3, <1>4, <1>5, <1>6, <1>7, <1>8, ServeKeeps DEF GenerationNext, GenerationStep

(* Any other call between two generations.                                  *)
LEMMA ChangeKeeps ==
  ASSUME IInv, Typed, ChangeBetweenCalls
  PROVE  IInv' /\ Typed'
<1>1. loop = "none" /\ UNCHANGED generation /\ Next
  BY DEF ChangeBetweenCalls
<1>2. IInv'
  BY <1>1, NextKeeps
<1>3. Typed'
  BY <1>1 DEF Typed, generation
<1> QED BY <1>2, <1>3

(* No step.                                                                 *)
LEMMA StutterKeeps ==
  ASSUME IInv, Typed, UNCHANGED <<roster, generation>>
  PROVE  IInv' /\ Typed'
<1>1. IInv' BY UnchangedKeeps
<1>2. Typed' BY DEF Typed, roster, generation, LineDays, DateOf
<1> QED BY <1>1, <1>2

(* An empty roster, before any call.                                        *)
LEMMA InitKeeps == GenerationInit => IInv /\ Typed
BY InitIInv DEF GenerationInit, Typed

(* What holds for the roster holds while it is generated.                   *)
LEMMA GenerationKeeps == SpecWithChanges => [](IInv /\ Typed)
<1>1. GenerationInit => IInv /\ Typed
  BY InitKeeps
<1>2. IInv /\ Typed /\ [GenerationNext \/ ChangeBetweenCalls]_<<roster, generation>> => (IInv /\ Typed)'
  BY TurnKeeps, ChangeKeeps, StutterKeeps
<1> QED BY <1>1, <1>2, PTL DEF SpecWithChanges

(* However days are generated, and days created, planned, freed and deleted *)
(* in between, a line never has more workers in a role at work than         *)
(* line_role asks for (p_generate_line_work_time_chunk inserts the line's   *)
(* time before it asks for the worker's).                                   *)
THEOREM GenerationWithinCapacity == SpecWithChanges => []WithinCapacity
<1>1. IInv /\ Typed => WithinCapacity
  BY DEF IInv
<1> QED BY <1>1, GenerationKeeps, PTL

(* Nor is a generated worker's day ever longer than the line's.             *)
THEOREM GenerationWithinLine == SpecWithChanges => []WorkersWithinLine
<1>1. IInv /\ Typed => WorkersWithinLine
  BY DEF IInv
<1> QED BY <1>1, GenerationKeeps, PTL

(* What was shown of the calls of Roster alone stays true with generations  *)
(* between them: the tables keep their types, rows of a day do not overlap, *)
(* and a removal from a line reaches everyone.                              *)
THEOREM GenerationKeepsRoster ==
  SpecWithChanges => []TypeOK /\ []NonOverlapping /\ RemovalReachesEveryone
<1>1. IInv /\ Typed => TypeOK /\ NonOverlapping
  BY DEF IInv
<1>2. IInv /\ Typed /\ [GenerationNext \/ ChangeBetweenCalls]_<<roster, generation>> =>
        [TimeOnly => \A l \in line_work_day, s, e \in Time :
           s < e /\ p_remove_line_work_day_work_time(l, s, e) =>
             \A d \in {l.work_day_id} \cup {w.work_day_id : w \in WorkersOf(l.work_day_id)} :
               Covered(work_time'[d]) = Covered(work_time[d]) \ Slots(s, e)]_roster
  BY RemovalRemoves
<1> QED BY <1>1, <1>2, GenerationKeeps, PTL DEF SpecWithChanges, RemovalReachesEveryone

-----------------------------------------------------------------------------
(* Schedules that are only generated: nobody is booked twice.               *)

\* The boundaries of the default times of the weekday of a date.
Bounds(date) ==
  {t \in Time : \E d \in DefaultDay :
     DayNumber[d] = Weekday[date] /\ \E r \in work_time[d] : t \in {r.start_time, r.end_time}}

\* A range that no boundary cuts and that starts and ends at boundaries.
Uncut(B, s, e) == s < e /\ s \in B /\ e \in B /\ \A t \in B : ~(s < t /\ t < e)

\* All the time of the rows starts and ends at boundaries.
Along(B, rows) == \A r \in rows : r.start_time \in B /\ r.end_time \in B

\* The chunks of a default time are uncut ranges within it.
LEMMA ChunkIsUncut ==
  ASSUME NEW date, NEW row \in Interval,
         row.start_time \in Bounds(date), row.end_time \in Bounds(date),
         NEW s, NEW e, <<s, e>> \in Chunks(date, row)
  PROVE  /\ s \in Time /\ e \in Time /\ Uncut(Bounds(date), s, e)
         /\ row.start_time <= s /\ e <= row.end_time
<1> DEFINE cuts == ChunkCuts(date, row)
<1>1. /\ row.start_time \in Time /\ row.end_time \in Time /\ row.start_time < row.end_time
      /\ Time \subseteq Nat
  BY MaxTimeAssumption DEF Interval, Time
<1>2. cuts = {t \in Bounds(date) : row.start_time <= t /\ t <= row.end_time}
  BY DEF ChunkCuts, Bounds, Between
<1>3. cuts \subseteq Time
  BY DEF ChunkCuts
<1>4. /\ s \in cuts \cup {row.start_time, row.end_time}
      /\ e \in cuts \cup {row.start_time, row.end_time}
      /\ s < e /\ \A t \in cuts : ~(s < t /\ t < e)
  BY <1>1 DEF Chunks, Pieces
<1> HIDE DEF cuts
<1>5. /\ s \in Time /\ e \in Time /\ s \in Bounds(date) /\ e \in Bounds(date)
      /\ row.start_time <= s /\ e <= row.end_time
  BY <1>1, <1>2, <1>3, <1>4
<1>6. ASSUME NEW t \in Bounds(date), s < t, t < e PROVE FALSE
  <2>1. t \in Time BY DEF Bounds
  <2>2. row.start_time <= t /\ t <= row.end_time
    <3>1. /\ t \in Nat /\ s \in Nat /\ e \in Nat
          /\ row.start_time \in Nat /\ row.end_time \in Nat
      BY <1>1, <1>5, <2>1
    <3> QED BY <3>1, <1>5, <1>6
  <2> QED BY <2>2, <1>2, <1>4, <1>6
<1> QED BY <1>4, <1>5, <1>6 DEF Uncut

\* Two of them are the same or share no time.
LEMMA UncutApart ==
  ASSUME NEW B \in SUBSET Time, NEW s \in Time, NEW e \in Time, NEW a \in Time, NEW b \in Time,
         Uncut(B, s, e), Uncut(B, a, b), NEW k \in Slots(s, e), k \in Slots(a, b)
  PROVE  s = a /\ e = b
<1>1. s \in Nat /\ e \in Nat /\ a \in Nat /\ b \in Nat /\ k \in Nat
  BY MaxTimeAssumption DEF Time, Slots, Slot
<1>2. s <= k /\ k < e /\ a <= k /\ k < b
  BY DEF Slots
<1> QED BY <1>1, <1>2 DEF Uncut

\* A row along the boundaries has all of an uncut range, or none.
LEMMA AllOrNothing ==
  ASSUME NEW B \in SUBSET Time, NEW s \in Time, NEW e \in Time, Uncut(B, s, e),
         NEW r \in Interval, r.start_time \in B, r.end_time \in B,
         NEW k \in Slots(s, e), r.start_time <= k, k < r.end_time
  PROVE  Contains(r, s, e)
<1>1. s \in Nat /\ e \in Nat /\ r.start_time \in Nat /\ r.end_time \in Nat /\ k \in Nat
  BY MaxTimeAssumption DEF Interval, Time, Slots, Slot
<1>2. s <= k /\ k < e
  BY DEF Slots
<1> QED BY <1>1, <1>2 DEF Uncut, Contains, Between

\* Insertion starts and ends its row where the range or a row did ...
LEMMA InsertAlong ==
  ASSUME NEW rows, rows \subseteq Interval, ~Overlapping(rows), NEW s \in Time, NEW e \in Time,
         NEW B, s \in B, e \in B, Along(B, rows)
  PROVE  Along(B, InsertWorkTime(rows, s, e))
<1>1. Admitted(rows)
  BY DEF Admitted, Interval
<1>2. PrefixStart(rows, s) \in B
  <2>1. PrefixStart(rows, s) \in {s} \cup {r.start_time : r \in {q \in rows : Between(s, q.start_time, q.end_time)}}
    BY <1>1, PrefixStartIsLeast DEF IsLeast
  <2> QED BY <2>1 DEF Along
<1>3. SuffixEnd(rows, e) \in B
  <2>1. SuffixEnd(rows, e) \in {e} \cup {r.end_time : r \in {q \in rows : Between(e, q.start_time, q.end_time)}}
    BY <1>1, SuffixEndIsGreatest DEF IsGreatest
  <2> QED BY <2>1 DEF Along
<1> QED BY <1>2, <1>3 DEF Along, InsertWorkTime, DeleteInside

\* ... and its row contains the range.
LEMMA InsertContains ==
  ASSUME NEW rows, rows \subseteq Interval, ~Overlapping(rows), NEW s \in Time, NEW e \in Time, s < e
  PROVE  \E r \in InsertWorkTime(rows, s, e) : Contains(r, s, e)
<1>1. Admitted(rows)
  BY DEF Admitted, Interval
<1>2. PICK S : S = PrefixStart(rows, s)
  OBVIOUS
<1>3. PICK E : E = SuffixEnd(rows, e)
  OBVIOUS
<1>4. S \in Time /\ S <= s
  BY <1>1, <1>2, PrefixStartUncrossed
<1>5. E \in Time /\ e <= E
  BY <1>1, <1>3, SuffixEndUncrossed
<1>6. S \in Nat /\ E \in Nat /\ s \in Nat /\ e \in Nat
  BY <1>4, <1>5, MaxTimeAssumption DEF Time
<1>7. ~(e < s \/ ~(S < E))
  BY <1>4, <1>5, <1>6
<1>8. [start_time |-> S, end_time |-> E] \in InsertWorkTime(rows, s, e)
  BY <1>2, <1>3, <1>7 DEF InsertWorkTime
<1>9. Contains([start_time |-> S, end_time |-> E], s, e)
  BY <1>4, <1>5, <1>6 DEF Contains, Between
<1> QED BY <1>8, <1>9

(* Every id has one date, taken when it was given out, a worker's day the   *)
(* date of its line's day, and the default days come before them all.       *)
DaysAreDated ==
  /\ DefaultDays <= last_id
  /\ \A v \in work_day : v.id <= last_id
  /\ \A u, v \in work_day : u.id = v.id => u = v
  /\ \A l \in line_work_day : l.work_day_id \notin DefaultDay
  /\ \A w \in worker_work_day : /\ w.work_day_id \notin DefaultDay
                                /\ DateOf(w.work_day_id) = DateOf(w.line_work_day_id)

(* Planned rows start and end where default times of their weekday do: a    *)
(* row has all of a chunk or none of it, which is why the question about    *)
(* single rows that f_can_work asks is enough.                              *)
AlongDefaultTimes ==
  \A w \in worker_work_day : \A date \in DateOf(w.work_day_id) :
    Along(Bounds(date), work_time[w.work_day_id])

AtOnePlace ==
  \A worker \in Worker, date \in Date, k \in Slot :
    \A v, w \in AtWork(worker, date, k) : v = w

Scheduled == DaysAreDated /\ AlongDefaultTimes /\ AtOnePlace /\ WithinDefaultTime

(* What the queries found when the cursor was opened and the queue filled   *)
(* is still true when a turn takes it.                                      *)
StillTrue ==
  /\ \A x \in default_times : DefaultTimeOf(x)
  /\ loop \notin {"none", "l_default_work_days"} => DefaultTimeOf(line_time)
  /\ loop # "l_workers_queue" => workers_queue = {}
  /\ \A x \in workers_queue :
       /\ <<x[2], x[3]>> \in Chunks(in_date, line_time.row)
       /\ <<x[1], role_id>> \in WorkerRole
       /\ HasDefaultTime(x[1], in_date, x[2], x[3])
       /\ \A k \in Slots(x[2], x[3]) : AtWork(x[1], in_date, k) = {}

(* No call touches the time of a default day, so what is computed from it   *)
(* stays the same.                                                          *)
LEMMA SameDefaults ==
  ASSUME \A d \in DefaultDay : work_time'[d] = work_time[d]
  PROVE  /\ \A date : Bounds(date)' = Bounds(date)
         /\ \A date, row : Chunks(date, row)' = Chunks(date, row)
         /\ \A worker, date, s, e : HasDefaultTime(worker, date, s, e)' <=> HasDefaultTime(worker, date, s, e)
         /\ \A owner, date, k :
               InDefaultTime(WorkerDefaultDay, owner, date, k)' <=> InDefaultTime(WorkerDefaultDay, owner, date, k)
         /\ \A owner, date, k :
               InDefaultTime(LineDefaultDay, owner, date, k)' <=> InDefaultTime(LineDefaultDay, owner, date, k)
<1>1. \A date : Bounds(date)' = Bounds(date)
  BY DEF Bounds
<1>2. \A date, row : ChunkCuts(date, row)' = ChunkCuts(date, row)
  BY DEF ChunkCuts
<1>3. \A date, row : Chunks(date, row)' = Chunks(date, row)
  BY <1>2 DEF Chunks
<1>4. \A days, owner, date : DefaultDaysOf(days, owner, date) \subseteq DefaultDay
  BY DEF DefaultDaysOf
<1>5. \A worker, date, s, e : HasDefaultTime(worker, date, s, e)' <=> HasDefaultTime(worker, date, s, e)
  BY <1>4 DEF HasDefaultTime
<1>6. \A days, owner, date, k : InDefaultTime(days, owner, date, k)' <=> InDefaultTime(days, owner, date, k)
  BY <1>4 DEF InDefaultTime
<1> QED BY <1>1, <1>3, <1>5, <1>6

(* A turn that leaves the roster alone leaves what is scheduled alone.      *)
LEMMA SameRoster ==
  ASSUME Scheduled, UNCHANGED roster
  PROVE  Scheduled'
<1>1. DaysAreDated'
  BY DEF Scheduled, DaysAreDated, roster, DateOf
<1>2. AlongDefaultTimes'
  BY DEF Scheduled, AlongDefaultTimes, roster, DateOf, Bounds, Along
<1>3. AtOnePlace'
  BY DEF Scheduled, AtOnePlace, roster, AtWork, DateOf
<1>4. WithinDefaultTime'
  <2>1. \A d \in DefaultDay : work_time'[d] = work_time[d]
    BY DEF roster
  <2>2. /\ \A owner, date, k :
               InDefaultTime(WorkerDefaultDay, owner, date, k)' <=> InDefaultTime(WorkerDefaultDay, owner, date, k)
        /\ \A owner, date, k :
               InDefaultTime(LineDefaultDay, owner, date, k)' <=> InDefaultTime(LineDefaultDay, owner, date, k)
    BY <2>1, SameDefaults
  <2>3. \A d : DateOf(d)' = DateOf(d)
    BY DEF roster, DateOf
  <2> QED BY <2>2, <2>3 DEF Scheduled, WithinDefaultTime, roster
<1> QED BY <1>1, <1>2, <1>3, <1>4 DEF Scheduled

\* A new work_day leaves the dates of the others as they are.
LEMMA NewDayDates ==
  ASSUME IInv, DaysAreDated, NEW dates, NewId \in DayId, last_id' = NewId,
         work_day' = work_day \cup {[id |-> NewId, date |-> date] : date \in dates}
  PROVE  /\ \A b \in DayId : b # NewId => DateOf(b)' = DateOf(b)
         /\ DateOf(NewId) = {}
         /\ \A b \in DayId : b = NewId => DateOf(b)' = dates
         /\ DefaultDays <= last_id' /\ NewId \notin DefaultDay
         /\ \A v \in work_day' : v.id <= last_id'
<1>1. /\ last_id \in Nat /\ DefaultDays \in Nat /\ DayId \subseteq Nat /\ NewId = last_id + 1
      /\ \A v \in work_day : v.id \in DayId
  BY RosterAssumption DEF IInv, TypeOK, DayId, NewId
<1>2. PICK n : n = NewId
  OBVIOUS
<1>3. \A v \in work_day : v.id \in Nat /\ v.id <= last_id /\ v.id # n
  <2> SUFFICES ASSUME NEW v \in work_day PROVE v.id \in Nat /\ v.id <= last_id /\ v.id # n
    OBVIOUS
  <2>1. v.id \in Nat /\ v.id <= last_id
    BY <1>1 DEF DaysAreDated
  <2> QED BY <2>1, <1>1, <1>2
<1>4. work_day' = work_day \cup {[id |-> n, date |-> date] : date \in dates}
  BY <1>2
<1>5. \A b \in DayId : b # n => DateOf(b)' = DateOf(b)
  BY <1>4 DEF DateOf
<1>6. DateOf(n) = {}
  BY <1>3 DEF DateOf
<1>7. DateOf(n)' = dates
  <2>1. ASSUME NEW date \in dates PROVE date \in DateOf(n)'
    <3>1. PICK v \in work_day' : v = [id |-> n, date |-> date]
      BY <1>4
    <3>2. v.id = n /\ v.date = date
      BY <3>1
    <3> QED BY <3>2 DEF DateOf
  <2>2. ASSUME NEW date \in DateOf(n)' PROVE date \in dates
    <3>1. PICK v \in work_day' : v.id = n /\ v.date = date
      BY <2>2 DEF DateOf
    <3>2. v \notin work_day
      BY <1>3, <3>1
    <3> QED BY <1>4, <3>1, <3>2
  <2> QED BY <2>1, <2>2
<1>8. DefaultDays <= last_id' /\ NewId \notin DefaultDay
  BY <1>1 DEF DaysAreDated, DefaultDay
<1>9. \A v \in work_day' : v.id <= last_id'
  BY <1>1, <1>2, <1>3, <1>4
<1> QED BY <1>2, <1>5, <1>6, <1>7, <1>8, <1>9

(* A turn keeps every worker's day on the date of the line's.               *)
LEMMA AssignmentDates ==
  ASSUME IInv, DaysAreDated, NEW l \in line_work_day, NEW date, DateOf(l.work_day_id) = {date},
         NEW worker \in Worker, NEW role \in Role, NEW w,
         FindsOrCreates(l, w, worker, role),
         UNCHANGED line_work_day
  PROVE  /\ DaysAreDated'
         /\ \A b \in DayId : b # w.work_day_id => DateOf(b)' = DateOf(b)
         /\ DateOf(w.work_day_id)' \subseteq {date}
         /\ w \in worker_work_day => DateOf(w.work_day_id)' = DateOf(w.work_day_id)
         /\ w.work_day_id \notin DefaultDay
<1> DEFINE d == l.work_day_id
           c == w.work_day_id
<1>1. /\ w.line_work_day_id = d /\ c \in DayId /\ d \in DayId /\ c # d
      /\ worker_work_day' = worker_work_day \cup {w}
      /\ \A v \in worker_work_day : v.work_day_id = c => v = w
      /\ \A m \in line_work_day : m.work_day_id # c
  BY AssignmentDay DEF IInv, TypeOK
<1>2. CASE /\ w \in Assignment(l.work_day_id, worker, role)
           /\ UNCHANGED <<work_day, worker_work_day, last_id>>
  <2>1. \A b : DateOf(b)' = DateOf(b)
    BY <1>2 DEF DateOf
  <2>2. w \in worker_work_day
    BY <1>2 DEF Assignment, WorkersOf
  <2>3. DateOf(c) = {date} /\ c \notin DefaultDay
    BY <1>1, <2>2 DEF DaysAreDated
  <2>4. DaysAreDated'
    BY <1>2, <2>1 DEF DaysAreDated
  <2> QED BY <2>1, <2>3, <2>4
<1>3. CASE /\ w = WorkerDay(NewId, l, worker, role)
           /\ NewWorkerDay(l, worker, role)
  <2>1. /\ NewId \in DayId /\ last_id' = NewId /\ c = NewId
        /\ work_day' = work_day \cup {[id |-> NewId, date |-> x] : x \in {date}}
    BY <1>3 DEF NewWorkerDay, WorkerDay
  <2>2. /\ \A b \in DayId : b # NewId => DateOf(b)' = DateOf(b)
        /\ \A b \in DayId : b = NewId => DateOf(b)' = {date}
        /\ DefaultDays <= last_id' /\ NewId \notin DefaultDay
        /\ \A v \in work_day' : v.id <= last_id'
    BY <2>1, NewDayDates
  <2>3. w \notin worker_work_day
    <3>1. last_id \in Nat /\ NewId = last_id + 1
      BY DEF IInv, TypeOK, NewId
    <3> QED BY <2>1, <3>1 DEF IInv, GivenOut
  <2>4. \A u, v \in work_day' : u.id = v.id => u = v
    <3>1. PICK n : n = [id |-> NewId, date |-> date]
      OBVIOUS
    <3>2. work_day' = work_day \cup {n} /\ n.id = NewId
      BY <2>1, <3>1
    <3>3. \A v \in work_day : v.id # NewId
      <4>1. last_id \in Nat /\ NewId = last_id + 1 /\ DayId \subseteq Nat
        BY RosterAssumption DEF IInv, TypeOK, NewId, DayId
      <4>2. \A v \in work_day : v.id \in DayId /\ v.id <= last_id
        BY DEF IInv, TypeOK, DaysAreDated
      <4> QED BY <4>1, <4>2
    <3> QED BY <3>2, <3>3 DEF DaysAreDated
  <2>5. ASSUME NEW v \in worker_work_day
        PROVE  v.work_day_id \notin DefaultDay /\ DateOf(v.work_day_id)' = DateOf(v.line_work_day_id)'
    <3>1. /\ v.work_day_id \in DayId /\ v.line_work_day_id \in DayId
          /\ v.work_day_id # c /\ v.line_work_day_id # c
      BY <1>1, <2>3 DEF IInv, TypeOK, Assigned
    <3> QED BY <3>1, <2>1, <2>2 DEF DaysAreDated
  <2>6. DateOf(d)' = {date} /\ DateOf(c)' = {date}
    BY <1>1, <2>1, <2>2
  <2>7. \A v \in worker_work_day' : /\ v.work_day_id \notin DefaultDay
                                  /\ DateOf(v.work_day_id)' = DateOf(v.line_work_day_id)'
    BY <1>1, <2>1, <2>2, <2>5, <2>6
  <2>8. DaysAreDated'
    BY <2>2, <2>4, <2>7 DEF DaysAreDated
  <2> QED BY <2>1, <2>2, <2>3, <2>6, <2>8
<1> QED BY <1>2, <1>3 DEF FindsOrCreates

(* A turn that plans a chunk for a worker who is free, in the worker's and  *)
(* the line's default time, keeps the schedule in order; whoever has been   *)
(* free outside the chunk still is.                                         *)
LEMMA AssignmentSchedules ==
  ASSUME IInv, Scheduled, NEW l \in line_work_day, NEW date \in Date, DateOf(l.work_day_id) = {date},
         NEW worker \in Worker, NEW role \in Role, NEW s \in Time, NEW e \in Time, NEW w, NEW times,
         FindsOrCreates(l, w, worker, role),
         UNCHANGED line_work_day,
         Plans(l, w, times, s, e),
         Uncut(Bounds(date), s, e),
         <<worker, role>> \in WorkerRole,
         HasDefaultTime(worker, date, s, e),
         \A k \in Slots(s, e) : /\ InDefaultTime(LineDefaultDay, l.line_id, date, k)
                               /\ AtWork(worker, date, k) = {}
  PROVE  /\ Scheduled'
         /\ \A b \in DefaultDay : work_time'[b] = work_time[b]
         /\ \A v, k : k \notin Slots(s, e) => AtWork(v, date, k)' \subseteq AtWork(v, date, k)
<1> DEFINE d == l.work_day_id
           c == w.work_day_id
<1>1. /\ w.line_work_day_id = d /\ w.role_id = role /\ w.worker_id = worker
      /\ c \in DayId /\ d \in DayId /\ c # d
      /\ worker_work_day' = worker_work_day \cup {w}
      /\ w \notin worker_work_day => work_time[c] = {}
      /\ \A v \in worker_work_day : v.work_day_id = c => v = w
      /\ \A m \in line_work_day : m.work_day_id # c
  BY AssignmentDay DEF IInv, TypeOK
<1>2. /\ DaysAreDated'
      /\ \A b \in DayId : b # c => DateOf(b)' = DateOf(b)
      /\ DateOf(c)' \subseteq {date}
      /\ w \in worker_work_day => DateOf(c)' = DateOf(c)
      /\ c \notin DefaultDay
  BY AssignmentDates DEF Scheduled
<1>3. RowsAssigned(l, w, times, s, e)
  BY <1>1, AssignmentRows
<1>4. PICK line_rows, rows :
        /\ line_rows = InsertWorkTime(work_time[d], s, e)
        /\ rows = InsertWorkTime(work_time[c], s, e)
  OBVIOUS
<1>5. /\ Covered(line_rows) = Covered(work_time[d]) \cup Slots(s, e)
      /\ Covered(rows) = Covered(work_time[c]) \cup Slots(s, e)
      /\ work_time'[d] = line_rows
      /\ work_time'[c] = work_time[c] \/ work_time'[c] = rows
      /\ \A b \in DayId : b # d /\ b # c => work_time'[b] = work_time[b]
  BY <1>3, <1>4 DEF RowsAssigned
<1>6. \A b \in DefaultDay : b \in DayId /\ work_time'[b] = work_time[b]
  <2>1. DefaultDay \subseteq DayId
    BY RosterAssumption DEF DefaultDay, DayId
  <2>2. d \notin DefaultDay
    BY DEF Scheduled, DaysAreDated
  <2> QED BY <1>2, <1>5, <2>1, <2>2
<1>7. /\ \A x : Bounds(x)' = Bounds(x)
      /\ \A owner, x, k :
            InDefaultTime(WorkerDefaultDay, owner, x, k)' <=> InDefaultTime(WorkerDefaultDay, owner, x, k)
      /\ \A owner, x, k :
            InDefaultTime(LineDefaultDay, owner, x, k)' <=> InDefaultTime(LineDefaultDay, owner, x, k)
  BY <1>6, SameDefaults
<1>8. ASSUME NEW v \in worker_work_day, v # w
      PROVE  /\ work_time'[v.work_day_id] = work_time[v.work_day_id]
             /\ DateOf(v.work_day_id)' = DateOf(v.work_day_id)
  <2>1. v.work_day_id \in DayId /\ v.work_day_id # c /\ v.work_day_id # d
    BY <1>1, <1>8 DEF IInv, TypeOK, Keys
  <2> QED BY <2>1, <1>2, <1>5
<1>9. /\ w \in worker_work_day \/ Covered(work_time[c]) = {}
      /\ Covered(work_time'[c]) \subseteq Covered(work_time[c]) \cup Slots(s, e)
  BY <1>1, <1>5 DEF Covered
<1>10. ASSUME NEW v, NEW x, NEW k, NEW u \in AtWork(v, x, k)'
       PROVE  \/ u \in AtWork(v, x, k)
              \/ u = w /\ v = worker /\ x = date /\ k \in Slots(s, e)
  <2>1. u \in worker_work_day' /\ u.worker_id = v /\ x \in DateOf(u.work_day_id)' /\ k \in Covered(work_time'[u.work_day_id])
    BY <1>10 DEF AtWork
  <2>2. CASE u # w
    BY <2>1, <2>2, <1>1, <1>8 DEF AtWork
  <2>3. CASE u = w
    <3>1. v = worker /\ x = date
      BY <2>1, <2>3, <1>1, <1>2
    <3>2. CASE k \in Slots(s, e)
      BY <2>3, <3>1, <3>2
    <3>3. CASE k \notin Slots(s, e)
      <4>1. k \in Covered(work_time[c]) /\ w \in worker_work_day
        BY <2>1, <2>3, <3>3, <1>9
      <4> QED BY <2>1, <2>3, <4>1, <1>2 DEF AtWork
    <3> QED BY <3>2, <3>3
  <2> QED BY <2>2, <2>3
<1>11. \A v, k : k \notin Slots(s, e) => AtWork(v, date, k)' \subseteq AtWork(v, date, k)
  BY <1>10
<1>12. AtOnePlace'
  <2> SUFFICES ASSUME NEW v \in Worker, NEW x \in Date, NEW k \in Slot,
                      NEW a \in AtWork(v, x, k)', NEW b \in AtWork(v, x, k)'
               PROVE  a = b
    BY DEF AtOnePlace
  <2>1. CASE v = worker /\ x = date /\ k \in Slots(s, e)
    BY <2>1, <1>10
  <2>2. CASE ~(v = worker /\ x = date /\ k \in Slots(s, e))
    <3>1. a \in AtWork(v, x, k) /\ b \in AtWork(v, x, k)
      BY <2>2, <1>10
    <3> QED BY <3>1 DEF Scheduled, AtOnePlace
  <2> QED BY <2>1, <2>2
<1>13. AlongDefaultTimes'
  <2> SUFFICES ASSUME NEW v \in worker_work_day', NEW x \in DateOf(v.work_day_id)'
               PROVE  Along(Bounds(x), work_time'[v.work_day_id])
    BY <1>7 DEF AlongDefaultTimes, Along
  <2>1. CASE v # w
    BY <2>1, <1>1, <1>8 DEF Scheduled, AlongDefaultTimes
  <2>2. CASE v = w
    <3>1. x = date
      BY <2>2, <1>2
    <3>2. Along(Bounds(date), work_time[c])
      <4>1. CASE w \in worker_work_day
        BY <2>2, <3>1, <4>1, <1>2 DEF Scheduled, AlongDefaultTimes
      <4>2. CASE w \notin worker_work_day
        BY <4>2, <1>1 DEF Along
      <4> QED BY <4>1, <4>2
    <3>3. work_time[c] \subseteq Interval /\ ~Overlapping(work_time[c])
      BY <1>1, RowsOfADay DEF IInv
    <3>4. Along(Bounds(date), rows)
      BY <1>4, <3>2, <3>3, InsertAlong DEF Uncut
    <3> QED BY <2>2, <3>1, <3>2, <3>4, <1>5
  <2> QED BY <2>1, <2>2
<1>14. \A k \in Slots(s, e) : InDefaultTime(WorkerDefaultDay, worker, date, k)
  <2> SUFFICES ASSUME NEW k \in Slots(s, e) PROVE InDefaultTime(WorkerDefaultDay, worker, date, k)
    OBVIOUS
  <2>1. PICK b \in DefaultDaysOf(WorkerDefaultDay, worker, date) : \E r \in work_time[b] : Contains(r, s, e)
    BY DEF HasDefaultTime
  <2>2. PICK r \in work_time[b] : Contains(r, s, e)
    BY <2>1
  <2>3. b \in DayId
    BY <1>6, <2>1 DEF DefaultDaysOf
  <2>4. r \in Interval
    BY <2>3 DEF IInv, TypeOK
  <2>5. k \in Slot /\ r.start_time <= k /\ k < r.end_time
    <3>1. r.start_time \in Nat /\ r.end_time \in Nat /\ s \in Nat /\ e \in Nat /\ k \in Nat
      BY <2>4, MaxTimeAssumption DEF Interval, Time, Slots, Slot
    <3> QED BY <2>2, <3>1 DEF Contains, Between, Slots
  <2>6. k \in Covered(work_time[b])
    BY <2>5 DEF Covered
  <2> QED BY <2>1, <2>6 DEF InDefaultTime
<1>15. WithinDefaultTime'
  <2>1. ASSUME NEW v \in worker_work_day', NEW k \in Slot, k \in Covered(work_time'[v.work_day_id])
        PROVE  /\ <<v.worker_id, v.role_id>> \in WorkerRole
               /\ \A x \in DateOf(v.work_day_id)' : InDefaultTime(WorkerDefaultDay, v.worker_id, x, k)
    <3>1. CASE v # w
      BY <2>1, <3>1, <1>1, <1>8 DEF Scheduled, WithinDefaultTime
    <3>2. CASE v = w
      <4>1. CASE k \in Slots(s, e)
        BY <3>2, <4>1, <1>1, <1>2, <1>14
      <4>2. CASE k \notin Slots(s, e)
        <5>1. k \in Covered(work_time[c]) /\ w \in worker_work_day
          BY <2>1, <3>2, <4>2, <1>9
        <5> QED BY <3>2, <5>1, <1>1, <1>2 DEF Scheduled, WithinDefaultTime
      <4> QED BY <4>1, <4>2
    <3> QED BY <3>1, <3>2
  <2>2. ASSUME NEW m \in line_work_day, NEW k \in Covered(work_time'[m.work_day_id]), NEW x \in DateOf(m.work_day_id)'
        PROVE  InDefaultTime(LineDefaultDay, m.line_id, x, k)
    <3>1. m.work_day_id \in DayId /\ m.work_day_id # c
      BY <1>1 DEF IInv, TypeOK
    <3>2. x \in DateOf(m.work_day_id)
      BY <3>1, <1>2
    <3>3. CASE m.work_day_id # d
      BY <3>1, <3>2, <3>3, <1>5 DEF Scheduled, WithinDefaultTime
    <3>4. CASE m.work_day_id = d
      <4>1. m = l BY <3>4 DEF IInv, Keys
      <4>2. x = date BY <4>1, <3>2
      <4>3. CASE k \in Slots(s, e)
        BY <4>1, <4>2, <4>3
      <4>4. CASE k \notin Slots(s, e)
        <5>1. k \in Covered(work_time[d])
          BY <3>4, <4>4, <1>5
        <5> QED BY <4>1, <3>2, <5>1 DEF Scheduled, WithinDefaultTime
      <4> QED BY <4>3, <4>4
    <3> QED BY <3>3, <3>4
  <2> QED BY <2>1, <2>2, <1>7 DEF WithinDefaultTime
<1> QED BY <1>2, <1>6, <1>11, <1>12, <1>13, <1>15 DEF Scheduled

(* An addition to a worker's day of a chunk the line has too few workers    *)
(* for is not refused: whichever boundaries cut the chunk, who has a piece  *)
(* of it has all of it, and was counted when the queue was served.          *)
LEMMA NotRejected ==
  ASSUME IInv, Scheduled, NEW l \in line_work_day, NEW date \in Date, DateOf(l.work_day_id) = {date},
         NEW role \in Role, NEW s \in Time, NEW e \in Time, NEW w, NEW times,
         w.line_work_day_id = l.work_day_id, w.role_id = role,
         times = [work_time EXCEPT ![l.work_day_id] = InsertWorkTime(@, s, e)],
         Uncut(Bounds(date), s, e),
         ~f_is_enough_workers(work_time, l, role, s, e)
  PROVE  ~AddRejected(times, w, s, e)
<1> DEFINE d == l.work_day_id
           counted == {v \in WorkersOf(d) : v.role_id = role /\ \E r \in work_time[v.work_day_id] : Contains(r, s, e)}
<1>1. /\ d \in DayId /\ work_time \in [DayId -> SUBSET Interval] /\ s < e
      /\ \A v \in worker_work_day : v.work_day_id \in DayId /\ v.work_day_id # d
  BY DEF IInv, TypeOK, Keys, Uncut
<1>2. /\ times[d] = InsertWorkTime(work_time[d], s, e)
      /\ \A v \in worker_work_day : times[v.work_day_id] = work_time[v.work_day_id]
  BY <1>1
<1>3. \E r \in times[d] : Contains(r, s, e)
  <2>1. work_time[d] \subseteq Interval /\ ~Overlapping(work_time[d])
    BY <1>1, RowsOfADay DEF IInv
  <2> QED BY <1>1, <1>2, <2>1, InsertContains
<1>4. IsFiniteSet(counted) /\ Cardinality(counted) \in Nat
  <2>1. counted \in SUBSET worker_work_day
    BY DEF WorkersOf
  <2> QED BY <2>1, FS_Subset, FS_CardinalityType DEF IInv
<1>5. WorkerCount[<<l.line_id, role>>] \in Nat /\ Cardinality(counted) < WorkerCount[<<l.line_id, role>>]
  <2>1. l.line_id \in Line BY DEF IInv, TypeOK
  <2>2. WorkerCount[<<l.line_id, role>>] \in Nat
    BY <2>1, RosterAssumption
  <2>3. ~(Cardinality(counted) >= WorkerCount[<<l.line_id, role>>])
    BY DEF f_is_enough_workers
  <2> QED BY <2>2, <2>3, <1>4
<1>6. ASSUME NEW m \in line_work_day, m.work_day_id = w.line_work_day_id,
             NEW q \in Pieces(BoundariesWithin(times, s, e), s, e),
             f_is_enough_workers(times, m, w.role_id, q[1], q[2])
      PROVE  FALSE
  <2>1. m = l
    BY <1>6 DEF IInv, Keys
  <2>2. /\ q[1] \in Time /\ q[2] \in Time /\ q[1] < q[2]
        /\ s <= q[1] /\ q[1] < e
    <3>1. \A t \in BoundariesWithin(times, s, e) : t \in Time /\ s < t /\ t < e
      BY DEF BoundariesWithin
    <3>2. /\ q[1] \in BoundariesWithin(times, s, e) \cup {s, e}
          /\ q[2] \in BoundariesWithin(times, s, e) \cup {s, e}
          /\ q[1] < q[2]
      BY <1>1 DEF Pieces
    <3>3. q[1] \in Time /\ q[2] \in Time
      BY <3>1, <3>2
    <3>4. s \in Nat /\ e \in Nat /\ q[1] \in Nat /\ q[2] \in Nat
      BY <3>3, MaxTimeAssumption DEF Time
    <3>5. q[1] = s \/ q[1] = e \/ (s < q[1] /\ q[1] < e)
      BY <3>1, <3>2
    <3>6. q[2] = s \/ q[2] = e \/ (s < q[2] /\ q[2] < e)
      BY <3>1, <3>2
    <3> QED BY <3>2, <3>3, <3>4, <3>5, <3>6, <1>1
  <2>3. q[1] \in Slots(s, e)
    BY <2>2, MaxTimeAssumption DEF Slots, Slot, Time
  <2> DEFINE able == {v \in WorkersOf(d) : v.role_id = role /\ \E r \in times[v.work_day_id] : Contains(r, q[1], q[2])}
  <2>4. ASSUME NEW v \in able PROVE v \in counted
    <3>1. /\ v \in worker_work_day /\ v.line_work_day_id = d /\ v.role_id = role
          /\ \E r \in work_time[v.work_day_id] : Contains(r, q[1], q[2])
      BY <1>2 DEF WorkersOf
    <3>2. PICK r \in work_time[v.work_day_id] : Contains(r, q[1], q[2])
      BY <3>1
    <3>3. r \in Interval
      BY <1>1, <3>1
    <3>4. r.start_time \in Bounds(date) /\ r.end_time \in Bounds(date)
      <4>1. date \in DateOf(v.work_day_id)
        BY <3>1 DEF Scheduled, DaysAreDated
      <4> QED BY <3>1, <4>1 DEF Scheduled, AlongDefaultTimes, Along
    <3>5. r.start_time <= q[1] /\ q[1] < r.end_time
      <4>1. r.start_time \in Nat /\ r.end_time \in Nat /\ q[1] \in Nat /\ q[2] \in Nat
        BY <2>2, <3>3, MaxTimeAssumption DEF Interval, Time
      <4> QED BY <2>2, <3>2, <4>1 DEF Contains, Between
    <3>6. Contains(r, s, e)
      <4>1. Bounds(date) \in SUBSET Time BY DEF Bounds
      <4> QED BY <4>1, <2>3, <3>3, <3>4, <3>5, AllOrNothing
    <3> QED BY <3>1, <3>6 DEF WorkersOf
  <2>5. able \in SUBSET counted
    BY <2>4
  <2>6. IsFiniteSet(able) /\ Cardinality(able) <= Cardinality(counted)
    BY <1>4, <2>5, FS_Subset
  <2>7. Cardinality(able) \in Nat
    BY <2>6, FS_CardinalityType
  <2>8. Cardinality(able) >= WorkerCount[<<l.line_id, role>>]
    BY <1>6, <2>1 DEF f_is_enough_workers
  <2> QED BY <1>4, <1>5, <2>6, <2>7, <2>8
<1> QED BY <1>3, <1>6 DEF AddRejected

-----------------------------------------------------------------------------
(* The turns, on schedules that are only generated.                         *)

GInv == IInv /\ Typed /\ Scheduled /\ StillTrue

\* What a step plans of a line is the time of a worker of the line.
PlansBoth ==
  \A l \in line_work_day :
    Covered(work_time'[l.work_day_id]) \ Covered(work_time[l.work_day_id]) \subseteq
      UNION {Covered(work_time'[w.work_day_id]) :
               w \in {v \in worker_work_day' : v.line_work_day_id = l.work_day_id}}

\* What is true of a default time and of a queue stays true while they,
\* the call's date and the default days stay the same.
LEMMA SameDefaultTime ==
  ASSUME \A d \in DefaultDay : work_time'[d] = work_time[d], UNCHANGED in_date,
         NEW x, DefaultTimeOf(x)
  PROVE  DefaultTimeOf(x)'
<1>1. PICK d \in DefaultDaysOf(LineDefaultDay, x.line, in_date) : x.row \in work_time[d]
  BY DEF DefaultTimeOf
<1>2. d \in DefaultDay
  BY <1>1 DEF DefaultDaysOf
<1>3. d \in DefaultDaysOf(LineDefaultDay, x.line, in_date)'
  BY <1>1 DEF DefaultDaysOf
<1> QED BY <1>1, <1>2, <1>3 DEF DefaultTimeOf

\* The boundaries of the default time being planned are boundaries.
LEMMA RowIsBound ==
  ASSUME NEW x \in LineTime, DefaultTimeOf(x)
  PROVE  x.row.start_time \in Bounds(in_date) /\ x.row.end_time \in Bounds(in_date)
<1>1. PICK d \in DefaultDaysOf(LineDefaultDay, x.line, in_date) : x.row \in work_time[d]
  BY DEF DefaultTimeOf
<1>2. d \in DefaultDay /\ DayNumber[d] = Weekday[in_date]
  BY <1>1 DEF DefaultDaysOf
<1>3. x.row.start_time \in Time /\ x.row.end_time \in Time
  BY DEF LineTime, Interval
<1> QED BY <1>1, <1>2, <1>3 DEF Bounds

\* A turn that leaves the roster alone.
LEMMA RosterOnly ==
  ASSUME Scheduled, UNCHANGED roster
  PROVE  /\ Scheduled' /\ PlansBoth
         /\ \A d \in DefaultDay : work_time'[d] = work_time[d]
         /\ \A worker, date, k : AtWork(worker, date, k)' = AtWork(worker, date, k)
<1>1. UNCHANGED <<work_day, worker_work_day, work_time>>
  BY DEF roster
<1>2. \A worker, date, k : AtWork(worker, date, k)' = AtWork(worker, date, k)
  BY <1>1 DEF AtWork, DateOf
<1> QED BY <1>1, <1>2, SameRoster DEF PlansBoth

\* FillQueue takes only workers who are free.
LEMMA CandidatesFree ==
  ASSUME IInv, Scheduled, NEW row \in Interval, NEW date, NEW role,
         row.start_time \in Bounds(date), row.end_time \in Bounds(date),
         NEW x \in Candidates(date, row, role)
  PROVE  /\ <<x[2], x[3]>> \in Chunks(date, row)
         /\ <<x[1], role>> \in WorkerRole
         /\ HasDefaultTime(x[1], date, x[2], x[3])
         /\ \A k \in Slots(x[2], x[3]) : AtWork(x[1], date, k) = {}
<1>1. PICK worker \in Worker, p \in Chunks(date, row) : x = <<worker, p[1], p[2]>>
  BY DEF Candidates
<1>2. p = <<p[1], p[2]>>
  <2>1. ChunkCuts(date, row) \in SUBSET Time /\ row.start_time \in Time /\ row.end_time \in Time
    BY DEF ChunkCuts, Interval
  <2>2. p \in Time \X Time
    BY <2>1, PiecesInTime DEF Chunks
  <2> QED BY <2>2
<1>3. x[1] = worker /\ x[2] = p[1] /\ x[3] = p[2] /\ <<x[2], x[3]>> \in Chunks(date, row)
  BY <1>1, <1>2
<1>4. <<x[1], role>> \in WorkerRole /\ f_can_work(x[1], date, x[2], x[3])
  BY DEF Candidates
<1>5. /\ x[2] \in Time /\ x[3] \in Time /\ Uncut(Bounds(date), x[2], x[3])
  BY <1>3, ChunkIsUncut
<1>6. ASSUME NEW k \in Slots(x[2], x[3]), NEW u \in AtWork(x[1], date, k) PROVE FALSE
  <2>1. /\ u \in worker_work_day /\ u.worker_id = x[1] /\ date \in DateOf(u.work_day_id)
        /\ k \in Covered(work_time[u.work_day_id])
    BY DEF AtWork
  <2>2. PICK r \in work_time[u.work_day_id] : r.start_time <= k /\ k < r.end_time
    BY <2>1 DEF Covered
  <2>3. r \in Interval
    BY <2>1 DEF IInv, TypeOK
  <2>4. r.start_time \in Bounds(date) /\ r.end_time \in Bounds(date) /\ Bounds(date) \in SUBSET Time
    BY <2>1 DEF Scheduled, AlongDefaultTimes, Along, Bounds
  <2>5. Contains(r, x[2], x[3])
    BY <1>5, <2>2, <2>3, <2>4, AllOrNothing
  <2>6. \E v \in work_day : v.date = date
    BY <2>1 DEF DateOf
  <2> QED BY <1>4, <2>1, <2>5, <2>6 DEF f_can_work
<1> QED BY <1>3, <1>4, <1>6 DEF f_can_work

(* Finding or creating the week and the line's day.                         *)
LEMMA EnsureSchedules ==
  ASSUME GInv, EnsureLineDay
  PROVE  Scheduled' /\ StillTrue' /\ PlansBoth
<1>1. PICK line, date, n : line = line_time.line /\ date = in_date /\ n = [work_day_id |-> NewId, line_id |-> line]
  OBVIOUS
<1>2. /\ NewId \in DayId /\ last_id' = NewId
      /\ work_day' = work_day \cup {[id |-> NewId, date |-> date]}
      /\ line_work_day' = line_work_day \cup {n}
      /\ UNCHANGED <<worker_work_day, work_time, generation>>
      /\ loop = "chunk"
  BY <1>1 DEF EnsureLineDay, NewLineDay
<1>3. work_day' = work_day \cup {[id |-> NewId, date |-> x] : x \in {date}}
  BY <1>2
<1>4. /\ \A b \in DayId : b # NewId => DateOf(b)' = DateOf(b)
      /\ DefaultDays <= last_id' /\ NewId \notin DefaultDay
      /\ \A v \in work_day' : v.id <= last_id'
  BY <1>2, <1>3, NewDayDates DEF GInv, Scheduled
<1>5. /\ last_id \in Nat /\ NewId = last_id + 1 /\ DayId \subseteq Nat /\ n.work_day_id = NewId
      /\ \A v \in work_day : v.id \in DayId
  BY <1>1, RosterAssumption DEF GInv, IInv, TypeOK, NewId, DayId
<1>6. \A v \in work_day : v.id # NewId
  <2> SUFFICES ASSUME NEW v \in work_day PROVE v.id # NewId
    OBVIOUS
  <2>1. v.id \in Nat /\ v.id <= last_id
    BY <1>5 DEF GInv, Scheduled, DaysAreDated
  <2> QED BY <2>1, <1>5
<1>7. \A u, v \in work_day' : u.id = v.id => u = v
  <2>1. PICK y : y = [id |-> NewId, date |-> date]
    OBVIOUS
  <2>2. work_day' = work_day \cup {y} /\ y.id = NewId
    BY <1>2, <2>1
  <2> QED BY <2>2, <1>6 DEF GInv, Scheduled, DaysAreDated
<1>8. ASSUME NEW w \in worker_work_day
      PROVE  /\ DateOf(w.work_day_id)' = DateOf(w.work_day_id)
             /\ DateOf(w.line_work_day_id)' = DateOf(w.line_work_day_id)
  <2>1. w.work_day_id \in DayId /\ w.work_day_id <= last_id
    BY DEF GInv, IInv, TypeOK, GivenOut
  <2>2. PICK l \in line_work_day : l.work_day_id = w.line_work_day_id
    BY DEF GInv, IInv, Assigned
  <2>3. l.work_day_id \in DayId /\ l.work_day_id <= last_id
    BY DEF GInv, IInv, TypeOK, GivenOut
  <2>4. w.work_day_id # NewId
    <3>1. w.work_day_id \in Nat BY <2>1, <1>5
    <3> QED BY <3>1, <2>1, <1>5
  <2>5. w.line_work_day_id # NewId
    <3>1. l.work_day_id \in Nat BY <2>3, <1>5
    <3> QED BY <3>1, <2>2, <2>3, <1>5
  <2> QED BY <2>1, <2>2, <2>3, <2>4, <2>5, <1>4
<1>9. DaysAreDated'
  BY <1>2, <1>4, <1>5, <1>7, <1>8 DEF GInv, Scheduled, DaysAreDated
<1>10. \A d \in DefaultDay : work_time'[d] = work_time[d]
  BY <1>2
<1>11. /\ \A x : Bounds(x)' = Bounds(x)
       /\ \A owner, x, k :
             InDefaultTime(WorkerDefaultDay, owner, x, k)' <=> InDefaultTime(WorkerDefaultDay, owner, x, k)
       /\ \A owner, x, k :
             InDefaultTime(LineDefaultDay, owner, x, k)' <=> InDefaultTime(LineDefaultDay, owner, x, k)
  BY <1>10, SameDefaults
<1>12. AlongDefaultTimes'
  BY <1>2, <1>8, <1>11 DEF GInv, Scheduled, AlongDefaultTimes, Along
<1>13. AtOnePlace'
  <2>1. \A v, x, k : AtWork(v, x, k)' = AtWork(v, x, k)
    BY <1>2, <1>8 DEF AtWork
  <2> QED BY <2>1 DEF GInv, Scheduled, AtOnePlace
<1>14. WithinDefaultTime'
  <2>1. ASSUME NEW w \in worker_work_day, NEW k \in Slot, k \in Covered(work_time[w.work_day_id])
        PROVE  /\ <<w.worker_id, w.role_id>> \in WorkerRole
               /\ \A x \in DateOf(w.work_day_id)' : InDefaultTime(WorkerDefaultDay, w.worker_id, x, k)
    BY <2>1, <1>8 DEF GInv, Scheduled, WithinDefaultTime
  <2>2. ASSUME NEW l \in line_work_day', NEW k \in Covered(work_time[l.work_day_id]), NEW x \in DateOf(l.work_day_id)'
        PROVE  InDefaultTime(LineDefaultDay, l.line_id, x, k)
    <3>1. Covered(work_time[NewId]) = {}
      BY <1>2, <1>5 DEF GInv, IInv, GivenOut, Covered
    <3>2. l \in line_work_day /\ l.work_day_id # NewId
      BY <3>1, <1>2, <1>5
    <3>3. x \in DateOf(l.work_day_id)
      BY <3>2, <1>4 DEF GInv, IInv, TypeOK
    <3> QED BY <3>2, <3>3 DEF GInv, Scheduled, WithinDefaultTime
  <2> QED BY <2>1, <2>2, <1>2, <1>11 DEF WithinDefaultTime
<1>15. StillTrue'
  <2>1. UNCHANGED <<loop, in_date, default_times, line_time, workers_queue>> /\ workers_queue = {}
    BY <1>2 DEF generation, GInv, StillTrue
  <2>2. \A x : DefaultTimeOf(x) => DefaultTimeOf(x)'
    BY <2>1, <1>10, SameDefaultTime
  <2> QED BY <2>1, <2>2 DEF GInv, StillTrue
<1>16. PlansBoth
  BY <1>2 DEF PlansBoth
<1> QED BY <1>9, <1>12, <1>13, <1>14, <1>15, <1>16 DEF Scheduled

(* What is in the queue: uncut chunks of the default time, each with a free *)
(* worker of the role.                                                      *)
LEMMA QueueIs ==
  ASSUME GInv, loop = "l_workers_queue", NEW y \in workers_queue, NEW date, date = in_date
  PROVE  /\ y[1] \in Worker /\ y[2] \in Time /\ y[3] \in Time
         /\ <<y[2], y[3]>> \in Chunks(date, line_time.row)
         /\ <<y[1], role_id>> \in WorkerRole
         /\ HasDefaultTime(y[1], date, y[2], y[3])
         /\ \A k \in Slots(y[2], y[3]) : AtWork(y[1], date, k) = {}
         /\ Uncut(Bounds(date), y[2], y[3])
         /\ line_time.row.start_time <= y[2] /\ y[3] <= line_time.row.end_time
<1>1. /\ line_time \in LineTime /\ DefaultTimeOf(line_time)
      /\ workers_queue \subseteq Worker \X Time \X Time
  BY DEF GInv, Typed, StillTrue
<1>2. /\ y[1] \in Worker /\ y[2] \in Time /\ y[3] \in Time
      /\ <<y[2], y[3]>> \in Chunks(date, line_time.row)
      /\ <<y[1], role_id>> \in WorkerRole
      /\ HasDefaultTime(y[1], date, y[2], y[3])
      /\ \A k \in Slots(y[2], y[3]) : AtWork(y[1], date, k) = {}
  BY <1>1 DEF GInv, StillTrue
<1>3. line_time.row \in Interval
  BY <1>1 DEF LineTime
<1>4. line_time.row.start_time \in Bounds(date) /\ line_time.row.end_time \in Bounds(date)
  BY <1>1, RowIsBound
<1>5. /\ Uncut(Bounds(date), y[2], y[3])
      /\ line_time.row.start_time <= y[2] /\ y[3] <= line_time.row.end_time
  BY <1>2, <1>3, <1>4, ChunkIsUncut
<1> QED BY <1>2, <1>5

(* A turn that plans a chunk plans it for both, worker and line, and leaves *)
(* the call to go on: the addition to the worker's day is not refused.      *)
LEMMA AssignTurn ==
  ASSUME GInv, loop = "l_workers_queue", NEW x \in workers_queue,
         NEW worker, NEW s, NEW e, worker = x[1], s = x[2], e = x[3],
         NEW l, NEW date, NEW role, l = TheLineDay, date = in_date, role = role_id,
         ~f_is_enough_workers(work_time, l, role, s, e),
         Assign(worker, s, e)
  PROVE  /\ l \in line_work_day /\ l.line_id = line_time.line /\ DateOf(l.work_day_id) = {date}
         /\ \E w, times :
              /\ w.line_work_day_id = l.work_day_id /\ w.role_id = role /\ w.worker_id = worker
              /\ w.work_day_id \in DayId /\ w.work_day_id # l.work_day_id
              /\ worker_work_day' = worker_work_day \cup {w}
              /\ \A b \in DayId : b # w.work_day_id => DateOf(b)' = DateOf(b)
              /\ w \in worker_work_day => DateOf(w.work_day_id)' = DateOf(w.work_day_id)
              /\ \A m \in line_work_day : m.work_day_id # w.work_day_id
              /\ \A v \in worker_work_day : v.work_day_id = w.work_day_id => v = w
              /\ RowsAssigned(l, w, times, s, e)
              /\ work_time'[w.work_day_id] = InsertWorkTime(work_time[w.work_day_id], s, e)
              /\ UNCHANGED <<line_work_day, loop, in_date, default_times, line_time, line_roles,
                             role_id, role_iterator>>
              /\ workers_queue' = {y \in workers_queue : <<y[2], y[3]>> # <<s, e>>}
         /\ Scheduled'
         /\ \A d \in DefaultDay : work_time'[d] = work_time[d]
         /\ \A v, k : k \notin Slots(s, e) => AtWork(v, date, k)' \subseteq AtWork(v, date, k)
<1>1. /\ date \in Date /\ role \in Role /\ line_time \in LineTime
      /\ LineDays(line_time.line, in_date) # {} /\ DefaultTimeOf(line_time)
  BY DEF GInv, Typed, StillTrue
<1>2. l \in line_work_day /\ l.line_id = line_time.line /\ date \in DateOf(l.work_day_id)
  BY <1>1, TheLineDayIs DEF LineDays
<1>3. DateOf(l.work_day_id) = {date}
  BY <1>2 DEF GInv, Scheduled, DaysAreDated, DateOf
<1>4. PICK w, times : AssignsFrom(l, w, times, worker, s, e)
  BY AssignIs
<1>5. /\ worker \in Worker /\ s \in Time /\ e \in Time
      /\ Uncut(Bounds(date), s, e) /\ <<worker, role>> \in WorkerRole
      /\ HasDefaultTime(worker, date, s, e)
      /\ \A k \in Slots(s, e) : AtWork(worker, date, k) = {}
      /\ line_time.row.start_time <= s /\ e <= line_time.row.end_time
  BY QueueIs
<1>6. /\ FindsOrCreates(l, w, worker, role) /\ Plans(l, w, times, s, e)
      /\ UNCHANGED line_work_day
  BY <1>4 DEF AssignsFrom, FindsOrCreates, Plans
<1>7. \A k \in Slots(s, e) : InDefaultTime(LineDefaultDay, l.line_id, date, k)
  <2> SUFFICES ASSUME NEW k \in Slots(s, e) PROVE InDefaultTime(LineDefaultDay, l.line_id, date, k)
    OBVIOUS
  <2>1. PICK d \in DefaultDaysOf(LineDefaultDay, line_time.line, in_date) : line_time.row \in work_time[d]
    BY <1>1 DEF DefaultTimeOf
  <2>2. k \in Slot /\ line_time.row.start_time <= k /\ k < line_time.row.end_time
    <3>1. line_time.row.start_time \in Time /\ line_time.row.end_time \in Time
      BY <1>1 DEF LineTime, Interval
    <3> QED BY <3>1, <1>5, MaxTimeAssumption DEF Slots, Slot, Time
  <2>3. k \in Covered(work_time[d])
    BY <2>1, <2>2 DEF Covered
  <2> QED BY <2>1, <2>3, <1>2 DEF InDefaultTime
<1>8. /\ w.line_work_day_id = l.work_day_id /\ w.role_id = role /\ w.worker_id = worker
      /\ w.work_day_id \in DayId /\ w.work_day_id # l.work_day_id
      /\ worker_work_day' = worker_work_day \cup {w}
      /\ \A m \in line_work_day : m.work_day_id # w.work_day_id
      /\ \A v \in worker_work_day : v.work_day_id = w.work_day_id => v = w
  BY <1>1, <1>2, <1>5, <1>6, AssignmentDay DEF GInv
<1>9. /\ Scheduled'
      /\ \A d \in DefaultDay : work_time'[d] = work_time[d]
      /\ \A v, k : k \notin Slots(s, e) => AtWork(v, date, k)' \subseteq AtWork(v, date, k)
  BY <1>1, <1>2, <1>3, <1>5, <1>6, <1>7, AssignmentSchedules DEF GInv
<1>10. /\ \A b \in DayId : b # w.work_day_id => DateOf(b)' = DateOf(b)
       /\ w \in worker_work_day => DateOf(w.work_day_id)' = DateOf(w.work_day_id)
  BY <1>1, <1>2, <1>3, <1>5, <1>6, AssignmentDates DEF GInv, Scheduled
<1>11. ~AddRejected(times, w, s, e)
  <2>1. times = [work_time EXCEPT ![l.work_day_id] = InsertWorkTime(@, s, e)]
    BY <1>6 DEF Plans
  <2> QED BY <2>1, <1>1, <1>2, <1>3, <1>5, <1>8, NotRejected DEF GInv
<1>12. /\ work_time' = [times EXCEPT ![w.work_day_id] = InsertWorkTime(@, s, e)]
       /\ UNCHANGED <<loop, in_date, default_times, line_time, line_roles, role_id, role_iterator>>
       /\ workers_queue' = {y \in workers_queue : <<y[2], y[3]>> # <<s, e>>}
  BY <1>4, <1>11 DEF AssignsFrom
<1>13. RowsAssigned(l, w, times, s, e)
  BY <1>2, <1>5, <1>6, <1>8, AssignmentRows DEF GInv
<1>14. work_time'[w.work_day_id] = InsertWorkTime(work_time[w.work_day_id], s, e)
  <2>1. /\ times \in [DayId -> SUBSET Interval]
        /\ \A b \in DayId : b # l.work_day_id => times[b] = work_time[b]
    BY <1>13 DEF RowsAssigned
  <2> QED BY <2>1, <1>8, <1>12
<1> QED BY <1>2, <1>3, <1>6, <1>8, <1>9, <1>10, <1>12, <1>13, <1>14

(* A turn of l_workers_queue: the chunk leaves the queue, and the candidates *)
(* for other chunks are as free as they were.                               *)
LEMMA ServeSchedules ==
  ASSUME GInv, ServeQueue
  PROVE  Scheduled' /\ StillTrue' /\ PlansBoth
<1>1. /\ loop = "l_workers_queue" /\ DefaultTimeOf(line_time)
      /\ \A y \in default_times : DefaultTimeOf(y)
  BY DEF ServeQueue, GInv, StillTrue
<1>2. PICK x \in workers_queue :
        IF f_is_enough_workers(work_time, TheLineDay, role_id, x[2], x[3])
        THEN /\ workers_queue' = {y \in workers_queue : <<y[2], y[3]>> # <<x[2], x[3]>>}
             /\ UNCHANGED <<roster, loop, in_date, default_times, line_time, line_roles,
                            role_id, role_iterator, queue_number, failed>>
        ELSE Assign(x[1], x[2], x[3])
  BY DEF ServeQueue, Best
<1>3. PICK l, date, role, worker, s, e :
        /\ l = TheLineDay /\ date = in_date /\ role = role_id
        /\ worker = x[1] /\ s = x[2] /\ e = x[3]
  OBVIOUS
<1>4. \A y \in workers_queue :
        /\ y[2] \in Time /\ y[3] \in Time /\ Uncut(Bounds(date), y[2], y[3])
        /\ <<y[2], y[3]>> \in Chunks(date, line_time.row)
        /\ <<y[1], role>> \in WorkerRole
        /\ HasDefaultTime(y[1], date, y[2], y[3])
        /\ \A k \in Slots(y[2], y[3]) : AtWork(y[1], date, k) = {}
  BY <1>1, <1>3, QueueIs
\* The queue that is left, once no candidate of it has got busy.
<1>5. ASSUME \A d \in DefaultDay : work_time'[d] = work_time[d],
             workers_queue' = {y \in workers_queue : <<y[2], y[3]>> # <<s, e>>},
             UNCHANGED <<loop, in_date, default_times, line_time, role_id>>,
             \A v, k : k \notin Slots(s, e) => AtWork(v, date, k)' \subseteq AtWork(v, date, k)
      PROVE  StillTrue'
  <2>1. \A y : DefaultTimeOf(y) => DefaultTimeOf(y)'
    BY <1>5, SameDefaultTime
  <2>2. /\ \A a, row : Chunks(a, row)' = Chunks(a, row)
        /\ \A v, a, b, c : HasDefaultTime(v, a, b, c)' <=> HasDefaultTime(v, a, b, c)
    BY <1>5, SameDefaults
  <2>3. ASSUME NEW y \in workers_queue'
        PROVE  /\ <<y[2], y[3]>> \in Chunks(date, line_time.row)'
               /\ <<y[1], role>> \in WorkerRole
               /\ HasDefaultTime(y[1], date, y[2], y[3])'
               /\ \A k \in Slots(y[2], y[3]) : AtWork(y[1], date, k)' = {}
    <3>1. y \in workers_queue /\ <<y[2], y[3]>> # <<s, e>>
      BY <1>5
    <3>2. ASSUME NEW k \in Slots(y[2], y[3]), k \in Slots(s, e) PROVE FALSE
      <4>1. Bounds(date) \in SUBSET Time
        BY DEF Bounds
      <4>2. /\ y[2] \in Time /\ y[3] \in Time /\ Uncut(Bounds(date), y[2], y[3])
            /\ s \in Time /\ e \in Time /\ Uncut(Bounds(date), s, e)
        BY <3>1, <1>3, <1>4
      <4>3. y[2] = s /\ y[3] = e
        BY <3>2, <4>1, <4>2, UncutApart
      <4> QED BY <3>1, <4>3
    <3>3. ASSUME NEW k \in Slots(y[2], y[3]) PROVE AtWork(y[1], date, k)' = {}
      BY <3>1, <3>2, <1>4, <1>5
    <3>4. Chunks(date, line_time.row)' = Chunks(date, line_time.row)
      BY <2>2, <1>5
    <3> QED BY <3>1, <3>3, <3>4, <2>2, <1>4
  <2>4. \A y \in workers_queue' :
          /\ <<y[2], y[3]>> \in Chunks(in_date, line_time.row)'
          /\ <<y[1], role_id>>' \in WorkerRole
          /\ HasDefaultTime(y[1], in_date, y[2], y[3])'
          /\ \A k \in Slots(y[2], y[3]) : AtWork(y[1], in_date, k)' = {}
    BY <2>3, <1>3, <1>5
  <2> QED BY <2>1, <2>4, <1>1, <1>5 DEF StillTrue
<1>6. CASE f_is_enough_workers(work_time, TheLineDay, role_id, x[2], x[3])
  <2>1. /\ workers_queue' = {y \in workers_queue : <<y[2], y[3]>> # <<s, e>>}
        /\ UNCHANGED <<roster, loop, in_date, default_times, line_time, role_id>>
    BY <1>2, <1>3, <1>6
  <2>2. /\ Scheduled' /\ PlansBoth
        /\ \A d \in DefaultDay : work_time'[d] = work_time[d]
        /\ \A v, a, k : AtWork(v, a, k)' = AtWork(v, a, k)
    BY <2>1, RosterOnly DEF GInv
  <2> QED BY <2>1, <2>2, <1>5
<1>7. CASE ~f_is_enough_workers(work_time, TheLineDay, role_id, x[2], x[3])
  <2>1. ~f_is_enough_workers(work_time, l, role, s, e) /\ Assign(worker, s, e)
    BY <1>2, <1>3, <1>7
  <2>2. /\ l \in line_work_day /\ Scheduled'
        /\ \A d \in DefaultDay : work_time'[d] = work_time[d]
        /\ \A v, k : k \notin Slots(s, e) => AtWork(v, date, k)' \subseteq AtWork(v, date, k)
    BY <1>1, <1>3, <2>1, AssignTurn
  <2>3. PICK w, times :
          /\ w.line_work_day_id = l.work_day_id /\ w.work_day_id # l.work_day_id
          /\ worker_work_day' = worker_work_day \cup {w}
          /\ \A m \in line_work_day : m.work_day_id # w.work_day_id
          /\ RowsAssigned(l, w, times, s, e)
          /\ work_time'[w.work_day_id] = InsertWorkTime(work_time[w.work_day_id], s, e)
          /\ UNCHANGED <<loop, in_date, default_times, line_time, role_id>>
          /\ workers_queue' = {y \in workers_queue : <<y[2], y[3]>> # <<s, e>>}
    BY <1>1, <1>3, <2>1, AssignTurn
  <2>4. StillTrue'
    BY <2>2, <2>3, <1>5
  <2>5. PICK line_rows, rows : /\ line_rows = InsertWorkTime(work_time[l.work_day_id], s, e)
                               /\ rows = InsertWorkTime(work_time[w.work_day_id], s, e)
    OBVIOUS
  <2>6. /\ Covered(line_rows) = Covered(work_time[l.work_day_id]) \cup Slots(s, e)
        /\ Covered(rows) = Covered(work_time[w.work_day_id]) \cup Slots(s, e)
        /\ work_time'[l.work_day_id] = line_rows /\ work_time'[w.work_day_id] = rows
        /\ \A b \in DayId : b # l.work_day_id /\ b # w.work_day_id => work_time'[b] = work_time[b]
    BY <2>3, <2>5 DEF RowsAssigned
  <2>7. ASSUME NEW m \in line_work_day
        PROVE  Covered(work_time'[m.work_day_id]) \ Covered(work_time[m.work_day_id]) \subseteq
                 UNION {Covered(work_time'[v.work_day_id]) :
                          v \in {u \in worker_work_day' : u.line_work_day_id = m.work_day_id}}
    <3>1. CASE m.work_day_id = l.work_day_id
      <4>1. Covered(work_time'[m.work_day_id]) \ Covered(work_time[m.work_day_id]) \subseteq Slots(s, e)
        BY <3>1, <2>6
      <4>2. Slots(s, e) \subseteq Covered(work_time'[w.work_day_id])
        BY <2>6
      <4>3. w \in {u \in worker_work_day' : u.line_work_day_id = m.work_day_id}
        BY <3>1, <2>3
      <4> QED BY <4>1, <4>2, <4>3
    <3>2. CASE m.work_day_id # l.work_day_id
      <4>1. work_time'[m.work_day_id] = work_time[m.work_day_id]
        BY <3>2, <2>3, <2>6 DEF GInv, IInv, TypeOK
      <4> QED BY <4>1
    <3> QED BY <3>1, <3>2
  <2>8. PlansBoth
    BY <2>7 DEF PlansBoth
  <2> QED BY <2>2, <2>4, <2>8
<1> QED BY <1>6, <1>7

(* Any turn of any loop.                                                    *)
LEMMA TurnSchedules ==
  ASSUME GInv, GenerationNext
  PROVE  Scheduled' /\ StillTrue' /\ PlansBoth
\* What a turn that leaves the roster alone has to show of the call.
<1>1. ASSUME UNCHANGED roster
      PROVE  /\ Scheduled' /\ PlansBoth
             /\ \A d \in DefaultDay : work_time'[d] = work_time[d]
  BY <1>1, RosterOnly DEF GInv
<1>2. ASSUME UNCHANGED roster, UNCHANGED in_date
      PROVE  \A x : DefaultTimeOf(x) => DefaultTimeOf(x)'
  BY <1>1, <1>2, SameDefaultTime
<1>3. ASSUME NEW date \in Date, p_generate_day_work_time(date)
      PROVE  Scheduled' /\ StillTrue' /\ PlansBoth
  <2>1. /\ UNCHANGED roster /\ in_date' = date /\ loop' = "l_default_work_days" /\ UNCHANGED workers_queue
        /\ loop = "none"
        /\ default_times' = {x \in LineTime : \E d \in DefaultDaysOf(LineDefaultDay, x.line, date) :
                                                 x.row \in work_time[d]}
    BY <1>3 DEF p_generate_day_work_time
  <2>2. ASSUME NEW x \in default_times' PROVE DefaultTimeOf(x)'
    <3>1. PICK d \in DefaultDaysOf(LineDefaultDay, x.line, date) : x.row \in work_time[d]
      BY <2>1, <2>2
    <3>2. work_time' = work_time
      BY <2>1 DEF roster
    <3>3. d \in DefaultDaysOf(LineDefaultDay, x.line, in_date)'
      BY <2>1, <3>1 DEF DefaultDaysOf
    <3> QED BY <3>1, <3>2, <3>3 DEF DefaultTimeOf
  <2>3. workers_queue' = {}
    BY <2>1 DEF GInv, StillTrue
  <2>4. StillTrue'
    BY <2>1, <2>2, <2>3 DEF StillTrue
  <2> QED BY <2>1, <2>4, <1>1
<1>4. ASSUME FetchDefaultTime PROVE Scheduled' /\ StillTrue' /\ PlansBoth
  <2>1. /\ UNCHANGED <<roster, in_date, workers_queue>> /\ loop = "l_default_work_days"
        /\ loop' = "l_line_role" /\ line_time' \in default_times /\ default_times' \subseteq default_times
    BY <1>4 DEF FetchDefaultTime
  <2>2. workers_queue' = {} /\ \A x \in default_times : DefaultTimeOf(x)'
    BY <2>1, <1>2 DEF GInv, StillTrue
  <2>3. DefaultTimeOf(line_time)'
    <3>1. PICK x \in default_times : x = line_time'
      BY <2>1
    <3> QED BY <2>2, <3>1 DEF DefaultTimeOf
  <2>4. StillTrue'
    BY <2>1, <2>2, <2>3 DEF StillTrue
  <2> QED BY <2>1, <2>4, <1>1
<1>5. ASSUME EndDay PROVE Scheduled' /\ StillTrue' /\ PlansBoth
  <2>1. UNCHANGED roster /\ default_times' = {} /\ workers_queue' = {} /\ loop' = "none"
    BY <1>5 DEF EndDay, EndCall
  <2>2. StillTrue'
    BY <2>1 DEF StillTrue
  <2> QED BY <2>1, <2>2, <1>1
<1>6. ASSUME FetchRole \/ CountRole \/ EndQueue PROVE Scheduled' /\ StillTrue' /\ PlansBoth
  <2>1. /\ UNCHANGED <<roster, in_date, default_times, line_time, workers_queue>>
        /\ loop \notin {"none", "l_default_work_days"} /\ loop' # "l_workers_queue"
        /\ loop # "l_workers_queue" \/ workers_queue = {}
    BY <1>6 DEF FetchRole, CountRole, EndQueue
  <2>2. /\ workers_queue' = {} /\ \A x \in default_times' : DefaultTimeOf(x)'
        /\ DefaultTimeOf(line_time)
    BY <2>1, <1>2 DEF GInv, StillTrue
  <2>3. DefaultTimeOf(line_time)'
    <3>1. PICK x : x = line_time
      OBVIOUS
    <3>2. DefaultTimeOf(x)' /\ x = line_time'
      BY <2>1, <2>2, <3>1, <1>2
    <3> QED BY <3>2 DEF DefaultTimeOf
  <2>4. StillTrue'
    BY <2>1, <2>2, <2>3 DEF StillTrue
  <2> QED BY <2>1, <2>4, <1>1
<1>7. ASSUME FillQueue PROVE Scheduled' /\ StillTrue' /\ PlansBoth
  <2>1. /\ UNCHANGED <<roster, in_date, default_times, line_time, role_id>>
        /\ loop = "chunk" /\ loop' = "l_workers_queue"
        /\ workers_queue' = Candidates(in_date, line_time.row, role_id)
    BY <1>7 DEF FillQueue
  <2>2. line_time \in LineTime /\ DefaultTimeOf(line_time) /\ \A x \in default_times : DefaultTimeOf(x)
    BY <2>1 DEF GInv, Typed, StillTrue
  <2>3. PICK row, date, role, x : row = line_time.row /\ date = in_date /\ role = role_id /\ x = line_time
    OBVIOUS
  <2>4. /\ row \in Interval /\ row.start_time \in Bounds(date) /\ row.end_time \in Bounds(date)
    BY <2>2, <2>3, RowIsBound DEF LineTime
  <2>5. \A y \in Candidates(date, row, role) :
          /\ <<y[2], y[3]>> \in Chunks(date, row)
          /\ <<y[1], role>> \in WorkerRole
          /\ HasDefaultTime(y[1], date, y[2], y[3])
          /\ \A k \in Slots(y[2], y[3]) : AtWork(y[1], date, k) = {}
    BY <2>4, CandidatesFree DEF GInv
  <2>6. /\ \A a, r : Chunks(a, r)' = Chunks(a, r)
        /\ \A worker, a, s, e : HasDefaultTime(worker, a, s, e)' <=> HasDefaultTime(worker, a, s, e)
        /\ \A worker, a, k : AtWork(worker, a, k)' = AtWork(worker, a, k)
    BY <2>1, <1>1, SameDefaults, RosterOnly DEF GInv
  <2>7. /\ \A y : DefaultTimeOf(y) => DefaultTimeOf(y)'
        /\ DefaultTimeOf(line_time)'
    <3>1. DefaultTimeOf(x)' /\ x = line_time'
      BY <2>1, <2>2, <2>3, <1>2
    <3> QED BY <2>1, <3>1, <1>2 DEF DefaultTimeOf
  <2>8. ASSUME NEW y \in workers_queue'
        PROVE  /\ <<y[2], y[3]>> \in Chunks(date, row)'
               /\ <<y[1], role>> \in WorkerRole
               /\ HasDefaultTime(y[1], date, y[2], y[3])'
               /\ \A k \in Slots(y[2], y[3]) : AtWork(y[1], date, k)' = {}
    BY <2>1, <2>3, <2>5, <2>6
  <2>9. /\ date = in_date' /\ role = role_id' /\ row = line_time'.row
    BY <2>1, <2>3
  <2>10. \A y \in workers_queue' :
          /\ <<y[2], y[3]>> \in Chunks(in_date, line_time.row)'
          /\ <<y[1], role_id>>' \in WorkerRole
          /\ HasDefaultTime(y[1], in_date, y[2], y[3])'
          /\ \A k \in Slots(y[2], y[3]) : AtWork(y[1], in_date, k)' = {}
    BY <2>8, <2>9
  <2>11. StillTrue'
    BY <2>1, <2>2, <2>7, <2>10 DEF StillTrue
  <2> QED BY <2>1, <2>11, <1>1
<1> QED BY <1>3, <1>4, <1>5, <1>6, <1>7, EnsureSchedules, ServeSchedules
        DEF GenerationNext, GenerationStep

(* Before any call nothing is scheduled.                                    *)
LEMMA InitSchedules == GenerationInit => GInv
<1> SUFFICES ASSUME GenerationInit PROVE GInv
  OBVIOUS
<1>1. /\ work_day = {[id |-> d, date |-> NULL] : d \in DefaultDay}
      /\ line_work_day = {} /\ worker_work_day = {} /\ last_id = DefaultDays
      /\ loop = "none" /\ default_times = {} /\ workers_queue = {}
  BY DEF GenerationInit, Init
<1>2. IInv /\ Typed
  BY InitKeeps
<1>3. DaysAreDated
  BY <1>1, RosterAssumption DEF DaysAreDated, DefaultDay
<1>4. AlongDefaultTimes /\ AtOnePlace /\ WithinDefaultTime
  BY <1>1 DEF AlongDefaultTimes, AtOnePlace, AtWork, WithinDefaultTime
<1>5. StillTrue
  BY <1>1 DEF StillTrue
<1> QED BY <1>2, <1>3, <1>4, <1>5 DEF GInv, Scheduled

(* The invariant of schedules that are only generated.                      *)
LEMMA GenerationSchedules == GenerationSpec => []GInv
<1>1. GenerationInit => GInv
  BY InitSchedules
<1>2. GInv /\ [GenerationNext]_<<roster, generation>> => GInv'
  <2> SUFFICES ASSUME GInv, [GenerationNext]_<<roster, generation>> PROVE GInv'
    OBVIOUS
  <2>1. IInv' /\ Typed'
    BY TurnKeeps, StutterKeeps DEF GInv
  <2>2. CASE GenerationNext
    BY <2>1, <2>2, TurnSchedules DEF GInv
  <2>3. CASE UNCHANGED <<roster, generation>>
    <3>1. Scheduled' /\ \A d \in DefaultDay : work_time'[d] = work_time[d]
      BY <2>3, RosterOnly DEF GInv
    <3>2. /\ \A x : DefaultTimeOf(x)' <=> DefaultTimeOf(x)
          /\ \A worker, a, k : AtWork(worker, a, k)' = AtWork(worker, a, k)
          /\ \A a, row : Chunks(a, row)' = Chunks(a, row)
          /\ \A worker, a, s, e : HasDefaultTime(worker, a, s, e)' <=> HasDefaultTime(worker, a, s, e)
      BY <2>3, <3>1, SameDefaults, RosterOnly DEF GInv, DefaultTimeOf, DefaultDaysOf, roster, generation
    <3>3. StillTrue'
      BY <2>3, <3>2 DEF GInv, StillTrue, DefaultTimeOf, DefaultDaysOf, generation
    <3> QED BY <2>1, <3>1, <3>3 DEF GInv
  <2> QED BY <2>2, <2>3
<1> QED BY <1>1, <1>2, PTL DEF GenerationSpec

(* Generated schedules never have a worker in two places at once, although  *)
(* f_can_work is asked about single rows, once, when the queue is filled    *)
(* (p_generate_line_work_time_chunk).                                       *)
THEOREM NobodyIsDoubleBooked == GenerationSpec => []NoDoubleBooking
<1>1. ASSUME GInv PROVE NoDoubleBooking
  <2> SUFFICES ASSUME NEW worker \in Worker, NEW date \in Date, NEW k \in Slot
               PROVE  Cardinality(AtWork(worker, date, k)) <= 1
    BY DEF NoDoubleBooking
  <2>1. \A v, w \in AtWork(worker, date, k) : v = w
    BY <1>1 DEF GInv, Scheduled, AtOnePlace
  <2>2. CASE AtWork(worker, date, k) = {}
    BY <2>2, FS_EmptySet
  <2>3. CASE AtWork(worker, date, k) # {}
    <3>1. PICK w : w \in AtWork(worker, date, k)
      BY <2>3
    <3>2. AtWork(worker, date, k) = {w}
      BY <2>1, <3>1
    <3>3. Cardinality({w}) = 1
      BY FS_Singleton
    <3> QED BY <3>2, <3>3
  <2> QED BY <2>2, <2>3
<1> QED BY <1>1, GenerationSchedules, PTL

(* Workers are planned in their roles and within the default time of their  *)
(* weekday, lines within theirs (f_can_work, c_default_time).               *)
THEOREM SchedulesKeepToDefaultTime == GenerationSpec => []WithinDefaultTime
<1>1. GInv => WithinDefaultTime
  BY DEF GInv, Scheduled
<1> QED BY <1>1, GenerationSchedules, PTL

(* No turn plans time of a line without planning a worker for it: the       *)
(* addition to the worker's day, made after the line's, is never refused.   *)
THEOREM LinesAreNeverLeftAlone == GenerationSpec => BothPlanned
<1>1. GInv /\ [GenerationNext]_<<roster, generation>> =>
        [GenerationStep => \A l \in line_work_day :
           Covered(work_time'[l.work_day_id]) \ Covered(work_time[l.work_day_id]) \subseteq
             UNION {Covered(work_time'[w.work_day_id]) :
                      w \in {v \in worker_work_day' : v.line_work_day_id = l.work_day_id}}
        ]_<<roster, generation>>
  BY TurnSchedules DEF PlansBoth
<1> QED BY <1>1, GenerationSchedules, PTL DEF GenerationSpec, BothPlanned
-----------------------------------------------------------------------------
(* How far a call has got.  It goes on to the next default time when it has *)
(* dealt with one role of the line.                                         *)

\* At least n workers of the role are on duty on the line in slot k.
Manned(line, role, k, n) ==
  \E l \in LineDays(line, in_date) : Cardinality(OnDuty(l, role, k)) >= n

\* No worker of the role could still be planned for slot k.
NobodyLeft(role, k) ==
  \A worker \in Worker :
    \/ <<worker, role>> \notin WorkerRole
    \/ ~InDefaultTime(WorkerDefaultDay, worker, in_date, k)
    \/ Booked(worker, k)

\* The n-th turn for the role has done for slot k what it can.
Reached(line, role, k, n) ==
  \/ n = 0
  \/ NobodyLeft(role, k)
  \/ Manned(line, role, k, WorkerCount[<<line, role>>])
  \/ Manned(line, role, k, n)

\* The default time x has been planned, in one role of its line if it has any.
Planned(x) ==
  \/ RolesOf(x.line) = {}
  \/ \E role \in RolesOf(x.line) :
       \A k \in Slots(x.row.start_time, x.row.end_time) :
         Reached(x.line, role, k, WorkerCount[<<x.line, role>>])

Queued(k) == \E y \in workers_queue : k \in Slots(y[2], y[3])

\* The turns of l_role_count that are done with slot k: a turn is done with it
\* when its chunk has left the queue.
TurnsDone(k) ==
  IF loop = "chunk" \/ (loop = "l_workers_queue" /\ Queued(k)) THEN role_iterator - 1 ELSE role_iterator

\* A line has one day for a date: the one every turn of a call works on.
DatedOnce == \A line, date : \A l, m \in LineDays(line, date) : l = m

PlannedSoFar ==
  loop # "none" =>
    \A x \in LineTime : DefaultTimeOf(x) =>
      \/ x \in default_times
      \/ loop # "l_default_work_days" /\ x = line_time
      \/ Planned(x)

RoleSoFar ==
  /\ role_iterator \in Nat
  /\ loop = "l_line_role" => line_roles = RolesOf(line_time.line)
  /\ loop \in {"l_role_count", "chunk", "l_workers_queue"} =>
       /\ <<line_time.line, role_id>> \in LineRole
       /\ loop # "l_role_count" => role_iterator # 0
       /\ \A k \in Slots(line_time.row.start_time, line_time.row.end_time) :
            Reached(line_time.line, role_id, k, TurnsDone(k))

Progress == DatedOnce /\ PlannedSoFar /\ RoleSoFar

\* The roster only grows, and the days it has keep their dates.
Growing ==
  /\ UNCHANGED in_date
  /\ line_work_day \subseteq line_work_day' /\ worker_work_day \subseteq worker_work_day'
  /\ \A d \in DefaultDay : work_time'[d] = work_time[d]
  /\ \A d \in DayId : Covered(work_time[d]) \subseteq Covered(work_time'[d])
  /\ \A l \in line_work_day : DateOf(l.work_day_id)' = DateOf(l.work_day_id)
  /\ \A w \in worker_work_day : DateOf(w.work_day_id)' = DateOf(w.work_day_id)

LEMMA SameIsGrowing ==
  ASSUME UNCHANGED <<roster, in_date>>
  PROVE  Growing
BY DEF Growing, roster, DateOf

\* What has been done for a slot stays done.
LEMMA DoneStaysDone ==
  ASSUME IInv, IInv', Growing
  PROVE  /\ \A line \in Line, role \in Role, k \in Slot, n \in Nat :
              Reached(line, role, k, n) => Reached(line, role, k, n)'
         /\ \A x \in LineTime : Planned(x) => Planned(x)'
<1>1. ASSUME NEW line \in Line, NEW role \in Role, NEW k, NEW n \in Nat, Manned(line, role, k, n)
      PROVE  Manned(line, role, k, n)'
  <2>1. PICK l \in line_work_day :
          l.line_id = line /\ in_date \in DateOf(l.work_day_id) /\ Cardinality(OnDuty(l, role, k)) >= n
    BY <1>1 DEF Manned, LineDays
  <2>2. l \in LineDays(line, in_date)'
    BY <2>1 DEF LineDays, Growing
  <2>3. OnDuty(l, role, k) \subseteq OnDuty(l, role, k)'
    <3> SUFFICES ASSUME NEW w \in OnDuty(l, role, k) PROVE w \in OnDuty(l, role, k)'
      OBVIOUS
    <3>1. /\ w \in worker_work_day /\ w.line_work_day_id = l.work_day_id /\ w.role_id = role
          /\ k \in Covered(work_time[w.work_day_id])
      BY DEF OnDuty, WorkersOf
    <3>2. w.work_day_id \in DayId
      BY <3>1 DEF IInv, TypeOK
    <3> QED BY <3>1, <3>2 DEF OnDuty, WorkersOf, Growing
  <2>4. PICK before, after : before = OnDuty(l, role, k) /\ after = OnDuty(l, role, k)'
    OBVIOUS
  <2>5. IsFiniteSet(before) /\ Cardinality(before) \in Nat
    BY <2>4, OnDutyFinite DEF IInv
  <2>6. IsFiniteSet(after)
    <3>1. after \subseteq worker_work_day'
      BY <2>4 DEF OnDuty, WorkersOf
    <3> QED BY <3>1, FS_Subset DEF IInv
  <2>7. Cardinality(after) >= n
    <3>1. Cardinality(before) <= Cardinality(after) /\ Cardinality(after) \in Nat
      BY <2>3, <2>4, <2>6, FS_Subset, FS_CardinalityType
    <3> QED BY <3>1, <2>1, <2>4, <2>5
  <2> QED BY <2>2, <2>4, <2>7 DEF Manned
<1>2. ASSUME NEW role \in Role, NEW k, NobodyLeft(role, k)
      PROVE  NobodyLeft(role, k)'
  <2>1. \A owner, date, j :
          InDefaultTime(WorkerDefaultDay, owner, date, j)' <=> InDefaultTime(WorkerDefaultDay, owner, date, j)
    BY SameDefaults DEF Growing
  <2>2. ASSUME NEW worker, Booked(worker, k)
        PROVE  Booked(worker, k)'
    <3>1. PICK w \in worker_work_day : w.worker_id = worker /\ k \in Covered(work_time[w.work_day_id])
      BY <2>2 DEF Booked
    <3>2. w.work_day_id \in DayId
      BY <3>1 DEF IInv, TypeOK
    <3>3. w \in worker_work_day' /\ k \in Covered(work_time'[w.work_day_id])
      BY <3>1, <3>2 DEF Growing
    <3> QED BY <3>1, <3>3 DEF Booked
  <2>3. PICK date : date = in_date /\ date = in_date'
    BY DEF Growing
  <2>4. \A worker \in Worker : \/ <<worker, role>> \notin WorkerRole
                               \/ ~InDefaultTime(WorkerDefaultDay, worker, date, k)'
                               \/ Booked(worker, k)'
    BY <1>2, <2>1, <2>2, <2>3 DEF NobodyLeft
  <2> QED BY <2>3, <2>4 DEF NobodyLeft
<1>3. \A line \in Line, role \in Role : WorkerCount[<<line, role>>] \in Nat
  BY RosterAssumption
<1>4. ASSUME NEW line \in Line, NEW role \in Role, NEW k, NEW n \in Nat, Reached(line, role, k, n)
      PROVE  Reached(line, role, k, n)'
  BY <1>1, <1>2, <1>3, <1>4 DEF Reached
<1>5. ASSUME NEW x \in LineTime, Planned(x) PROVE Planned(x)'
  <2>1. x.line \in Line
    BY DEF LineTime
  <2>2. CASE RolesOf(x.line) = {}
    BY <2>2 DEF Planned, RolesOf
  <2>3. CASE RolesOf(x.line) # {}
    <3>1. PICK role \in RolesOf(x.line) :
            \A k \in Slots(x.row.start_time, x.row.end_time) :
              Reached(x.line, role, k, WorkerCount[<<x.line, role>>])
      BY <2>3, <1>5 DEF Planned
    <3>2. role \in Role
      BY DEF RolesOf
    <3>3. \A k \in Slots(x.row.start_time, x.row.end_time) :
            Reached(x.line, role, k, WorkerCount[<<x.line, role>>])'
      BY <2>1, <3>1, <3>2, <1>3, <1>4 DEF Slots
    <3> QED BY <3>3 DEF Planned, RolesOf
  <2> QED BY <2>2, <2>3
<1> QED BY <1>4, <1>5

\* Lines' days that are there already keep what DatedOnce says of them.
LEMMA SameLineDays ==
  ASSUME DatedOnce, Growing, UNCHANGED line_work_day
  PROVE  DatedOnce' /\ \A line, date : LineDays(line, date)' = LineDays(line, date)
<1>1. \A line, date : LineDays(line, date)' = LineDays(line, date)
  BY DEF LineDays, Growing
<1> QED BY <1>1 DEF DatedOnce

\* The default times that are planned stay so, whatever else a step does.
LEMMA PlannedStaysPlanned ==
  ASSUME IInv, IInv', Growing, PlannedSoFar, loop # "none",
         \A x \in LineTime : DefaultTimeOf(x) =>
           /\ x \in default_times => \/ x \in default_times'
                                     \/ loop' # "l_default_work_days" /\ x = line_time'
           /\ loop # "l_default_work_days" /\ x = line_time =>
                \/ Planned(x)
                \/ loop' # "l_default_work_days" /\ x = line_time'
  PROVE  PlannedSoFar'
<1> SUFFICES ASSUME NEW x \in LineTime, DefaultTimeOf(x)'
             PROVE  \/ x \in default_times'
                    \/ loop' # "l_default_work_days" /\ x = line_time'
                    \/ Planned(x)'
  BY DEF PlannedSoFar
<1>1. DefaultTimeOf(x)
  <2>1. PICK d \in DefaultDaysOf(LineDefaultDay, x.line, in_date)' : x.row \in work_time'[d]
    BY DEF DefaultTimeOf
  <2>2. d \in DefaultDay /\ d \in DefaultDaysOf(LineDefaultDay, x.line, in_date)
    BY <2>1 DEF DefaultDaysOf, Growing
  <2> QED BY <2>1, <2>2 DEF DefaultTimeOf, Growing
<1> QED BY <1>1, DoneStaysDone DEF PlannedSoFar

(* A worker of the role who is in default time and not booked at a moment   *)
(* is a candidate for the chunk the moment is in, all of which is within    *)
(* the worker's default time if any of it is.                               *)
LEMMA FreeIsCandidate ==
  ASSUME GInv, NEW row \in Interval, NEW date \in Date,
         row.start_time \in Bounds(date), row.end_time \in Bounds(date),
         NEW k \in Slots(row.start_time, row.end_time),
         NEW role, NEW worker \in Worker, <<worker, role>> \in WorkerRole,
         InDefaultTime(WorkerDefaultDay, worker, date, k), ~Booked(worker, k)
  PROVE  \E y \in Candidates(date, row, role) : k \in Slots(y[2], y[3])
<1>1. /\ row.start_time \in Time /\ row.end_time \in Time
      /\ k \in Slot /\ row.start_time <= k /\ k < row.end_time
  BY DEF Interval, Slots
<1>2. PICK cuts, inner : /\ cuts = ChunkCuts(date, row)
                         /\ inner = cuts \ {row.start_time, row.end_time}
  OBVIOUS
<1>3. \A t \in cuts : t \in Time /\ row.start_time <= t /\ t <= row.end_time
  BY <1>2 DEF ChunkCuts, Between
<1>4. \A t \in inner : row.start_time < t /\ t < row.end_time
  <2> SUFFICES ASSUME NEW t \in inner PROVE row.start_time < t /\ t < row.end_time
    OBVIOUS
  <2>1. /\ t \in Time /\ row.start_time <= t /\ t <= row.end_time
        /\ t # row.start_time /\ t # row.end_time
    BY <1>2, <1>3
  <2> QED BY <2>1, <1>1, MaxTimeAssumption DEF Time
<1>5. PICK p \in Pieces(inner, row.start_time, row.end_time) :
        /\ row.start_time <= p[1] /\ p[1] <= k /\ k < p[2] /\ p[2] <= row.end_time
        /\ p[1] \in Time /\ p[2] \in Time
        /\ \A t \in inner : ~(p[1] < t /\ t < p[2])
  <2>1. inner \in SUBSET Time
    BY <1>2, <1>3
  <2> QED BY <2>1, <1>1, <1>4, PieceAround, SMTT(30)
<1>6. p \in Chunks(date, row)
  <2>1. row.start_time < row.end_time
    BY DEF Interval
  <2>2. inner \cup {row.start_time, row.end_time} = cuts \cup {row.start_time, row.end_time}
    BY <1>2
  <2>3. \A t \in cuts : ~(p[1] < t /\ t < p[2])
    <3> SUFFICES ASSUME NEW t \in cuts, p[1] < t, t < p[2] PROVE FALSE
      OBVIOUS
    <3>1. t # row.start_time /\ t # row.end_time
      BY <1>1, <1>3, <1>5, MaxTimeAssumption DEF Time
    <3> QED BY <3>1, <1>2, <1>5
  <2>4. /\ p \in (cuts \cup {row.start_time, row.end_time}) \X (cuts \cup {row.start_time, row.end_time})
        /\ p[1] < p[2]
    BY <1>5, <2>1, <2>2 DEF Pieces
  <2> QED BY <1>2, <2>1, <2>3, <2>4 DEF Chunks, Pieces
<1>7. PICK s, e : s = p[1] /\ e = p[2]
  OBVIOUS
<1>8. p = <<s, e>>
  <2>1. p \in Time \X Time
    BY <1>1, <1>2, <1>3, <1>6, PiecesInTime DEF Chunks
  <2> QED BY <2>1, <1>7
<1>9. /\ s \in Time /\ e \in Time /\ Uncut(Bounds(date), s, e) /\ k \in Slots(s, e)
  BY <1>1, <1>5, <1>6, <1>7, <1>8, ChunkIsUncut DEF Slots
<1>10. HasDefaultTime(worker, date, s, e)
  <2>1. PICK d \in DefaultDaysOf(WorkerDefaultDay, worker, date) : k \in Covered(work_time[d])
    BY DEF InDefaultTime
  <2>2. PICK r \in work_time[d] : r.start_time <= k /\ k < r.end_time
    BY <2>1 DEF Covered
  <2>3. d \in DefaultDay /\ DayNumber[d] = Weekday[date] /\ d \in DayId
    BY <2>1, RosterAssumption DEF DefaultDaysOf, DefaultDay, DayId
  <2>4. r \in Interval
    BY <2>2, <2>3 DEF GInv, IInv, TypeOK
  <2>5. r.start_time \in Bounds(date) /\ r.end_time \in Bounds(date) /\ Bounds(date) \in SUBSET Time
    BY <2>2, <2>3, <2>4 DEF Bounds, Interval
  <2>6. Contains(r, s, e)
    BY <2>2, <2>4, <2>5, <1>9, AllOrNothing
  <2> QED BY <2>1, <2>2, <2>6 DEF HasDefaultTime
<1>11. ASSUME NEW w \in worker_work_day, w.worker_id = worker,
              NEW r \in work_time[w.work_day_id], Contains(r, s, e)
       PROVE  FALSE
  <2>1. r \in Interval
    BY DEF GInv, IInv, TypeOK
  <2>2. r.start_time <= k /\ k < r.end_time
    <3>1. /\ r.start_time \in Nat /\ r.end_time \in Nat /\ s \in Nat /\ e \in Nat /\ k \in Nat
          /\ s <= k /\ k < e
      BY <2>1, <1>1, <1>9, MaxTimeAssumption DEF Interval, Time, Slot, Slots
    <3> QED BY <3>1, <1>11 DEF Contains, Between
  <2>3. k \in Covered(work_time[w.work_day_id])
    BY <2>2, <1>1 DEF Covered
  <2> QED BY <2>3, <1>11 DEF Booked
<1>12. f_can_work(worker, date, s, e)
  BY <1>10, <1>11 DEF f_can_work
<1>13. PICK y : y = <<worker, p[1], p[2]>>
  OBVIOUS
<1>14. y[1] = worker /\ y[2] = s /\ y[3] = e
  BY <1>7, <1>13
<1>15. y \in {<<v, q[1], q[2]>> : v \in Worker, q \in Chunks(date, row)}
  BY <1>6, <1>13
<1>16. y \in Candidates(date, row, role)
  BY <1>12, <1>14, <1>15 DEF Candidates
<1> QED BY <1>9, <1>14, <1>16

\* The calls begin, and the cursors over default times and roles move.
LEMMA OuterProgress ==
  ASSUME GInv, IInv', Progress,
         EndDay \/ FetchDefaultTime \/ FetchRole \/ CountRole \/ EndQueue
           \/ \E date \in Date : p_generate_day_work_time(date)
  PROVE  Progress'
<1>1. UNCHANGED roster
  BY DEF EndDay, FetchDefaultTime, FetchRole, CountRole, EndQueue, p_generate_day_work_time
<1>2. DatedOnce'
  BY <1>1 DEF Progress, DatedOnce, LineDays, DateOf, roster
<1>3. ASSUME UNCHANGED in_date PROVE Growing
  BY <1>1, <1>3, SameIsGrowing
<1>4. ASSUME NEW date \in Date, p_generate_day_work_time(date) PROVE Progress'
  <2>1. /\ loop' = "l_default_work_days" /\ in_date' = date /\ UNCHANGED role_iterator
        /\ default_times' = {x \in LineTime : \E d \in DefaultDaysOf(LineDefaultDay, x.line, date) :
                                                 x.row \in work_time[d]}
    BY <1>4 DEF p_generate_day_work_time
  <2>2. ASSUME NEW x \in LineTime, DefaultTimeOf(x)' PROVE x \in default_times'
    <3>1. PICK d \in DefaultDaysOf(LineDefaultDay, x.line, in_date)' : x.row \in work_time'[d]
      BY <2>2 DEF DefaultTimeOf
    <3>2. d \in DefaultDaysOf(LineDefaultDay, x.line, date)
      BY <2>1, <3>1 DEF DefaultDaysOf
    <3> QED BY <1>1, <2>1, <3>1, <3>2 DEF roster
  <2>3. PlannedSoFar'
    BY <2>2 DEF PlannedSoFar
  <2>4. RoleSoFar'
    BY <2>1 DEF RoleSoFar, Progress
  <2> QED BY <1>2, <2>3, <2>4 DEF Progress
<1>5. CASE EndDay
  <2>1. loop' = "none" /\ role_iterator' = 0
    BY <1>5 DEF EndDay, EndCall
  <2> QED BY <1>2, <2>1 DEF Progress, PlannedSoFar, RoleSoFar
<1>6. CASE FetchDefaultTime
  <2>1. PICK x \in default_times :
          /\ loop = "l_default_work_days" /\ loop' = "l_line_role"
          /\ line_time' = x /\ line_roles' = RolesOf(x.line)
          /\ default_times' = default_times \ {x}
          /\ UNCHANGED <<in_date, role_iterator>>
    BY <1>6 DEF FetchDefaultTime, RolesOf
  <2>2. PlannedSoFar'
    BY <2>1, <1>3, PlannedStaysPlanned DEF GInv, Progress
  <2>3. RoleSoFar'
    BY <2>1 DEF RoleSoFar, Progress
  <2> QED BY <1>2, <2>2, <2>3 DEF Progress
<1>7. CASE FetchRole
  <2>1. /\ loop = "l_line_role" /\ UNCHANGED <<in_date, default_times, line_time>>
        /\ line_roles = RolesOf(line_time.line)
    BY <1>7 DEF FetchRole, Progress, RoleSoFar
  <2>2. CASE line_roles = {}
    <3>1. loop' = "l_default_work_days" /\ UNCHANGED role_iterator
      BY <2>2, <1>7 DEF FetchRole
    <3>2. Planned(line_time)
      BY <2>1, <2>2 DEF Planned
    <3>3. PlannedSoFar'
      BY <2>1, <3>1, <3>2, <1>3, PlannedStaysPlanned DEF GInv, Progress
    <3>4. RoleSoFar'
      BY <3>1 DEF RoleSoFar, Progress
    <3> QED BY <1>2, <3>3, <3>4 DEF Progress
  <2>3. CASE line_roles # {}
    <3>1. /\ loop' = "l_role_count" /\ role_iterator' = 0 /\ role_id' \in line_roles
      BY <2>3, <1>7 DEF FetchRole
    <3>2. PlannedSoFar'
      BY <2>1, <3>1, <1>3, PlannedStaysPlanned DEF GInv, Progress
    <3>3. <<line_time.line, role_id>>' \in LineRole
      BY <2>1, <3>1 DEF RolesOf
    <3>4. \A line, role, k : Reached(line, role, k, 0)'
      BY DEF Reached
    <3>5. \A k : TurnsDone(k)' = 0
      BY <3>1 DEF TurnsDone
    <3>6. \A k : Reached(line_time.line, role_id, k, TurnsDone(k))'
      BY <3>5 DEF Reached
    <3>7. RoleSoFar'
      BY <3>1, <3>3, <3>6 DEF RoleSoFar
    <3> QED BY <1>2, <3>2, <3>7 DEF Progress
  <2> QED BY <2>2, <2>3
<1>8. CASE CountRole
  <2>1. PICK x, role, i :
          /\ x = line_time /\ role = role_id /\ i = role_iterator /\ x \in LineTime /\ role \in Role
          /\ i \in Nat /\ <<x.line, role>> \in LineRole
          /\ \A k \in Slots(x.row.start_time, x.row.end_time) : Reached(x.line, role, k, i)
          /\ loop = "l_role_count" /\ UNCHANGED <<in_date, default_times, line_time, role_id>>
    BY <1>8 DEF CountRole, GInv, Typed, Progress, RoleSoFar, TurnsDone
  <2>2. x.line \in Line /\ WorkerCount[<<x.line, role>>] \in Nat
    BY <2>1, RosterAssumption DEF LineTime
  <2>3. CASE i >= WorkerCount[<<x.line, role>>]
    <3>1. loop' = "l_default_work_days" /\ UNCHANGED role_iterator
      BY <1>8, <2>1, <2>3 DEF CountRole
    <3>2. ASSUME NEW k \in Slots(x.row.start_time, x.row.end_time)
          PROVE  Reached(x.line, role, k, WorkerCount[<<x.line, role>>])
      <4>1. Reached(x.line, role, k, i)
        BY <2>1
      <4>2. i = 0 => WorkerCount[<<x.line, role>>] = 0
        BY <2>1, <2>2, <2>3
      <4>3. ASSUME NEW l, Cardinality(OnDuty(l, role, k)) >= i
            PROVE  Cardinality(OnDuty(l, role, k)) >= WorkerCount[<<x.line, role>>]
        <5>1. Cardinality(OnDuty(l, role, k)) \in Nat
          BY OnDutyFinite DEF GInv, IInv
        <5> QED BY <5>1, <4>3, <2>1, <2>2, <2>3
      <4> QED BY <4>1, <4>2, <4>3 DEF Reached, Manned
    <3>3. role \in RolesOf(x.line)
      BY <2>1 DEF RolesOf
    <3>4. Planned(x)
      BY <3>2, <3>3 DEF Planned
    <3>5. PlannedSoFar'
      BY <2>1, <3>1, <3>4, <1>3, PlannedStaysPlanned DEF GInv, Progress
    <3>6. RoleSoFar'
      BY <3>1 DEF RoleSoFar, Progress
    <3> QED BY <1>2, <3>5, <3>6 DEF Progress
  <2>4. CASE ~(i >= WorkerCount[<<x.line, role>>])
    <3>1. loop' = "chunk" /\ role_iterator' = i + 1
      BY <1>8, <2>1, <2>4 DEF CountRole
    <3>2. PlannedSoFar'
      BY <2>1, <3>1, <1>3, PlannedStaysPlanned DEF GInv, Progress
    <3>3. \A k : TurnsDone(k)' = i
      BY <2>1, <3>1 DEF TurnsDone
    <3>4. \A k \in Slots(x.row.start_time, x.row.end_time) : Reached(x.line, role, k, i)'
      BY <2>1, <2>2, <1>3, DoneStaysDone DEF GInv, Slots
    <3>5. x = line_time' /\ role = role_id' /\ role_iterator' \in Nat /\ role_iterator' # 0
      BY <2>1, <3>1
    <3>6. RoleSoFar'
      BY <2>1, <3>1, <3>3, <3>4, <3>5 DEF RoleSoFar
    <3> QED BY <1>2, <3>2, <3>6 DEF Progress
  <2> QED BY <2>3, <2>4
<1>9. CASE EndQueue
  <2>1. PICK x, role, i :
          /\ x = line_time /\ role = role_id /\ i = role_iterator /\ x \in LineTime /\ role \in Role
          /\ i \in Nat /\ <<x.line, role>> \in LineRole
          /\ \A k \in Slots(x.row.start_time, x.row.end_time) : Reached(x.line, role, k, i)
          /\ loop = "l_workers_queue" /\ loop' = "l_role_count"
          /\ UNCHANGED <<in_date, default_times, line_time, role_id, role_iterator>>
    BY <1>9 DEF EndQueue, GInv, Typed, Progress, RoleSoFar, TurnsDone, Queued
  <2>2. PlannedSoFar'
    BY <2>1, <1>3, PlannedStaysPlanned DEF GInv, Progress
  <2>3. \A k : TurnsDone(k)' = i
    BY <2>1 DEF TurnsDone
  <2>4. \A k \in Slots(x.row.start_time, x.row.end_time) : Reached(x.line, role, k, i)'
    BY <2>1, <1>3, DoneStaysDone DEF GInv, LineTime, Slots
  <2>5. x = line_time' /\ role = role_id' /\ i = role_iterator'
    BY <2>1
  <2>6. RoleSoFar'
    BY <2>1, <2>3, <2>4, <2>5 DEF RoleSoFar
  <2> QED BY <1>2, <2>2, <2>6 DEF Progress
<1> QED BY <1>4, <1>5, <1>6, <1>7, <1>8, <1>9

\* The week and the line's day are there when the queue is filled.
LEMMA EnsureProgress ==
  ASSUME GInv, IInv', Progress, EnsureLineDay
  PROVE  Progress'
<1>1. PICK line, date, id, n :
        line = line_time.line /\ date = in_date /\ id = NewId /\ n = [work_day_id |-> id, line_id |-> line]
  OBVIOUS
<1>2. /\ id \in DayId /\ last_id' = id
      /\ work_day' = work_day \cup {[id |-> id, date |-> date]}
      /\ line_work_day' = line_work_day \cup {n}
      /\ UNCHANGED <<worker_work_day, work_time, generation>>
      /\ loop = "chunk" /\ LineDays(line, date) = {}
  BY <1>1 DEF EnsureLineDay, NewLineDay
<1>3. PICK dates : dates = {date} /\ work_day' = work_day \cup {[id |-> id, date |-> x] : x \in dates}
  BY <1>2
<1>4. /\ \A b \in DayId : b # id => DateOf(b)' = DateOf(b)
      /\ DateOf(id)' = {date}
  <2>1. /\ NewId \in DayId /\ last_id' = NewId
        /\ work_day' = work_day \cup {[id |-> NewId, date |-> x] : x \in dates}
    BY <1>1, <1>2, <1>3
  <2>2. /\ \A b \in DayId : b # NewId => DateOf(b)' = DateOf(b)
        /\ \A b \in DayId : b = NewId => DateOf(b)' = dates
    BY <2>1, NewDayDates DEF GInv, Scheduled
  <2> QED BY <2>2, <1>1, <1>2, <1>3
<1>5. \A d \in {l.work_day_id : l \in line_work_day} \cup {w.work_day_id : w \in worker_work_day} :
        d \in DayId /\ d # id
  <2> SUFFICES ASSUME NEW d \in {l.work_day_id : l \in line_work_day} \cup {w.work_day_id : w \in worker_work_day}
               PROVE  d \in DayId /\ d # id
    OBVIOUS
  <2>1. d \in DayId /\ d <= last_id /\ last_id \in Nat
    BY RosterAssumption DEF GInv, IInv, TypeOK, GivenOut
  <2>2. d \in Nat /\ id = last_id + 1
    BY <2>1, <1>1 DEF DayId, NewId
  <2> QED BY <2>1, <2>2
<1>6. Growing
  <2>1. UNCHANGED in_date
    BY <1>2 DEF generation
  <2>2. /\ \A l \in line_work_day : DateOf(l.work_day_id)' = DateOf(l.work_day_id)
        /\ \A w \in worker_work_day : DateOf(w.work_day_id)' = DateOf(w.work_day_id)
    BY <1>4, <1>5
  <2> QED BY <2>1, <2>2, <1>2 DEF Growing
<1>7. DatedOnce'
  <2>1. n.work_day_id = id /\ n.line_id = line /\ DateOf(n.work_day_id)' = {date} /\ date \in Date
    BY <1>1, <1>2, <1>4 DEF GInv, Typed
  <2>2. ASSUME NEW owner, NEW x, NEW l \in LineDays(owner, x)'
        PROVE  l \in LineDays(owner, x) \/ (l = n /\ owner = line /\ x = date)
    <3>1. l \in line_work_day' /\ l.line_id = owner /\ x \in DateOf(l.work_day_id)'
      BY <2>2 DEF LineDays
    <3>2. CASE l \in line_work_day
      BY <3>1, <3>2, <1>6 DEF LineDays, Growing
    <3>3. CASE l \notin line_work_day
      <4>1. l = n
        BY <3>1, <3>3, <1>2
      <4> QED BY <4>1, <3>1, <2>1
    <3> QED BY <3>2, <3>3
  <2>3. ASSUME NEW owner, NEW x, NEW l \in LineDays(owner, x)', NEW m \in LineDays(owner, x)'
        PROVE  l = m
    BY <2>2, <2>3, <1>2 DEF Progress, DatedOnce
  <2> QED BY <2>3 DEF DatedOnce
<1>8. UNCHANGED <<loop, default_times, line_time, role_id, role_iterator, workers_queue>>
  BY <1>2 DEF generation
<1>9. PlannedSoFar'
  BY <1>2, <1>6, <1>8, PlannedStaysPlanned DEF GInv, Progress
<1>10. PICK x, role, i :
         /\ x = line_time /\ role = role_id /\ i = role_iterator /\ x \in LineTime /\ role \in Role
         /\ i \in Nat /\ i # 0 /\ <<x.line, role>> \in LineRole
         /\ \A k \in Slots(x.row.start_time, x.row.end_time) : Reached(x.line, role, k, i - 1)
  BY <1>2 DEF GInv, Typed, Progress, RoleSoFar, TurnsDone
<1>11. i - 1 \in Nat
  BY <1>10
<1>12. \A k \in Slots(x.row.start_time, x.row.end_time) : Reached(x.line, role, k, i - 1)'
  BY <1>6, <1>10, <1>11, DoneStaysDone DEF GInv, LineTime, Slots
<1>13. \A k : TurnsDone(k)' = i - 1
  BY <1>2, <1>8, <1>10 DEF TurnsDone
<1>14. x = line_time' /\ role = role_id' /\ i = role_iterator' /\ loop' = "chunk"
  BY <1>2, <1>8, <1>10
<1>15. RoleSoFar'
  BY <1>10, <1>12, <1>13, <1>14 DEF RoleSoFar
<1> QED BY <1>7, <1>9, <1>15 DEF Progress

\* A slot without a candidate is one nobody is left for.
LEMMA FillProgress ==
  ASSUME GInv, IInv', Progress, FillQueue
  PROVE  Progress'
<1>1. PICK x, role, date, i :
        /\ x = line_time /\ role = role_id /\ date = in_date /\ i = role_iterator
        /\ x \in LineTime /\ role \in Role /\ date \in Date
        /\ i \in Nat /\ i # 0 /\ <<x.line, role>> \in LineRole
        /\ \A k \in Slots(x.row.start_time, x.row.end_time) : Reached(x.line, role, k, i - 1)
        /\ DefaultTimeOf(x)
        /\ loop = "chunk" /\ loop' = "l_workers_queue"
        /\ workers_queue' = Candidates(date, x.row, role)
        /\ UNCHANGED <<roster, in_date, default_times, line_time, role_id, role_iterator>>
  BY DEF FillQueue, GInv, Typed, StillTrue, Progress, RoleSoFar, TurnsDone
<1>2. Growing /\ DatedOnce'
  BY <1>1, SameIsGrowing, SameLineDays DEF Progress, roster
<1>3. PlannedSoFar'
  BY <1>1, <1>2, PlannedStaysPlanned DEF GInv, Progress
<1>4. x.row \in Interval /\ x.row.start_time \in Bounds(date) /\ x.row.end_time \in Bounds(date)
  BY <1>1, RowIsBound DEF LineTime
<1>5. ASSUME NEW k \in Slots(x.row.start_time, x.row.end_time), ~Queued(k)'
      PROVE  NobodyLeft(role, k)'
  <2>1. ~\E y \in Candidates(date, x.row, role) : k \in Slots(y[2], y[3])
    BY <1>1, <1>5 DEF Queued
  <2>2. ASSUME NEW worker \in Worker, <<worker, role>> \in WorkerRole,
               InDefaultTime(WorkerDefaultDay, worker, date, k)
        PROVE  Booked(worker, k)
    BY <2>1, <2>2, <1>1, <1>4, FreeIsCandidate
  <2>3. /\ \A worker, j : Booked(worker, j)' <=> Booked(worker, j)
        /\ \A d \in DefaultDay : work_time'[d] = work_time[d]
    BY <1>1 DEF roster, Booked
  <2>4. \A owner, a, j :
          InDefaultTime(WorkerDefaultDay, owner, a, j)' <=> InDefaultTime(WorkerDefaultDay, owner, a, j)
    BY <2>3, SameDefaults
  <2>5. \A worker \in Worker : \/ <<worker, role>> \notin WorkerRole
                               \/ ~InDefaultTime(WorkerDefaultDay, worker, date, k)'
                               \/ Booked(worker, k)'
    BY <2>2, <2>3, <2>4
  <2>6. date = in_date'
    BY <1>1
  <2> QED BY <2>5, <2>6 DEF NobodyLeft
<1>6. \A k \in Slots(x.row.start_time, x.row.end_time) : Reached(x.line, role, k, i - 1)'
  <2>1. i - 1 \in Nat
    BY <1>1
  <2> QED BY <1>1, <1>2, <2>1, DoneStaysDone DEF GInv, LineTime, Slots
<1>7. ASSUME NEW k \in Slots(x.row.start_time, x.row.end_time)
      PROVE  Reached(x.line, role, k, TurnsDone(k))'
  <2>1. CASE Queued(k)'
    <3>1. TurnsDone(k)' = i - 1
      BY <1>1, <2>1 DEF TurnsDone
    <3> QED BY <3>1, <1>6 DEF Reached
  <2>2. CASE ~Queued(k)'
    <3>1. NobodyLeft(role, k)'
      BY <2>2, <1>5
    <3> QED BY <3>1 DEF Reached
  <2> QED BY <2>1, <2>2
<1>8. x = line_time' /\ role = role_id' /\ i = role_iterator'
  BY <1>1
<1>9. RoleSoFar'
  BY <1>1, <1>7, <1>8 DEF RoleSoFar
<1> QED BY <1>2, <1>3, <1>9 DEF Progress

\* Where f_is_enough_workers finds enough, there are enough at every moment.
LEMMA EnoughIsManned ==
  ASSUME GInv, NEW l \in line_work_day, in_date \in DateOf(l.work_day_id), NEW role \in Role,
         NEW s \in Time, NEW e \in Time, NEW k \in Slots(s, e),
         f_is_enough_workers(work_time, l, role, s, e)
  PROVE  Manned(l.line_id, role, k, WorkerCount[<<l.line_id, role>>])
<1>1. l \in LineDays(l.line_id, in_date)
  BY DEF LineDays
<1>2. PICK able, duty :
        /\ able = {w \in WorkersOf(l.work_day_id) :
                     w.role_id = role /\ \E r \in work_time[w.work_day_id] : Contains(r, s, e)}
        /\ duty = OnDuty(l, role, k)
  OBVIOUS
<1>3. able \subseteq duty
  <2> SUFFICES ASSUME NEW w \in able PROVE w \in duty
    OBVIOUS
  <2>1. w \in WorkersOf(l.work_day_id) /\ w \in worker_work_day /\ w.role_id = role
    BY <1>2 DEF WorkersOf
  <2>2. PICK r \in work_time[w.work_day_id] : Contains(r, s, e)
    BY <1>2
  <2>3. r \in Interval
    BY <2>1, <2>2 DEF GInv, IInv, TypeOK
  <2>4. k \in Slot /\ r.start_time <= k /\ k < r.end_time
    <3>1. /\ r.start_time \in Nat /\ r.end_time \in Nat /\ s \in Nat /\ e \in Nat /\ k \in Nat
          /\ s <= k /\ k < e /\ k \in Slot
      BY <2>3, MaxTimeAssumption DEF Interval, Time, Slot, Slots
    <3> QED BY <3>1, <2>2 DEF Contains, Between
  <2>5. k \in Covered(work_time[w.work_day_id])
    BY <2>2, <2>4 DEF Covered
  <2> QED BY <2>1, <2>5, <1>2 DEF OnDuty
<1>4. IsFiniteSet(duty) /\ Cardinality(duty) \in Nat
  BY <1>2, OnDutyFinite DEF GInv, IInv
<1>5. Cardinality(able) <= Cardinality(duty) /\ Cardinality(able) \in Nat
  BY <1>3, <1>4, FS_Subset, FS_CardinalityType
<1>6. Cardinality(able) >= WorkerCount[<<l.line_id, role>>] /\ WorkerCount[<<l.line_id, role>>] \in Nat
  BY <1>2, RosterAssumption DEF f_is_enough_workers, GInv, IInv, TypeOK
<1>7. Cardinality(duty) >= WorkerCount[<<l.line_id, role>>]
  BY <1>4, <1>5, <1>6
<1> QED BY <1>1, <1>2, <1>7 DEF Manned

\* A turn of l_workers_queue leaves its chunk with enough workers or with one
\* more, and the others as they were.
LEMMA ServeProgress ==
  ASSUME GInv, IInv', Progress, ServeQueue
  PROVE  Progress'
<1>1. PICK line, row, date, role, i :
        /\ line = line_time.line /\ row = line_time.row /\ date = in_date /\ role = role_id
        /\ i = role_iterator /\ line \in Line /\ role \in Role /\ date \in Date
        /\ i \in Nat /\ i # 0 /\ <<line, role>> \in LineRole
        /\ loop = "l_workers_queue" /\ LineDays(line, date) # {}
        /\ \A k \in Slots(row.start_time, row.end_time) :
             Reached(line, role, k, IF Queued(k) THEN i - 1 ELSE i)
  BY DEF ServeQueue, GInv, Typed, LineTime, Progress, RoleSoFar, TurnsDone
<1>2. PICK x \in workers_queue :
        IF f_is_enough_workers(work_time, TheLineDay, role_id, x[2], x[3])
        THEN /\ workers_queue' = {y \in workers_queue : <<y[2], y[3]>> # <<x[2], x[3]>>}
             /\ UNCHANGED <<roster, loop, in_date, default_times, line_time, line_roles,
                            role_id, role_iterator, queue_number, failed>>
        ELSE Assign(x[1], x[2], x[3])
  BY DEF ServeQueue, Best
<1>3. PICK worker, s, e, l : worker = x[1] /\ s = x[2] /\ e = x[3] /\ l = TheLineDay
  OBVIOUS
<1>4. /\ l \in line_work_day /\ l.line_id = line /\ date \in DateOf(l.work_day_id)
      /\ l \in LineDays(line, date)
  BY <1>1, <1>3, TheLineDayIs DEF LineDays
<1>5. s \in Time /\ e \in Time /\ \A k \in Slots(s, e) : Queued(k) /\ AtWork(worker, date, k) = {}
  BY <1>1, <1>3, QueueIs DEF Queued
<1>6. \A k \in Slots(row.start_time, row.end_time) :
        Reached(line, role, k, i - 1) \/ (~Queued(k) /\ Reached(line, role, k, i))
  BY <1>1
\* What is left to show: more is done for the slots of the chunk.
<1>7. ASSUME Growing, UNCHANGED line_work_day,
             workers_queue' = {y \in workers_queue : <<y[2], y[3]>> # <<s, e>>},
             UNCHANGED <<loop, default_times, line_time, role_id, role_iterator>>,
             \A k \in Slots(s, e) : Reached(line, role, k, i - 1) => Reached(line, role, k, i)'
      PROVE  Progress'
  <2>1. DatedOnce'
    BY <1>7, SameLineDays DEF Progress
  <2>2. PlannedSoFar'
    BY <1>1, <1>7, PlannedStaysPlanned DEF GInv, Progress
  <2>3. \A k \in Slots(row.start_time, row.end_time), n \in Nat :
          Reached(line, role, k, n) => Reached(line, role, k, n)'
    BY <1>1, <1>7, DoneStaysDone DEF GInv, Slots
  <2>4. ASSUME NEW k \in Slots(row.start_time, row.end_time)
        PROVE  Reached(line, role, k, TurnsDone(k))'
    <3>1. i - 1 \in Nat
      BY <1>1
    <3>2. CASE k \in Slots(s, e)
      <4>1. Reached(line, role, k, i - 1)
        BY <1>5, <1>6, <3>2
      <4>2. Reached(line, role, k, i - 1)' /\ Reached(line, role, k, i)'
        BY <4>1, <3>1, <3>2, <2>3, <1>7
      <4>3. TurnsDone(k)' = i - 1 \/ TurnsDone(k)' = i
        BY <1>1, <1>7 DEF TurnsDone
      <4> QED BY <4>2, <4>3 DEF Reached
    <3>3. CASE k \notin Slots(s, e)
      <4>1. Queued(k)' <=> Queued(k)
        <5>1. ASSUME NEW y \in workers_queue, k \in Slots(y[2], y[3]) PROVE y \in workers_queue'
          <6>1. y[2] # s \/ y[3] # e
            BY <5>1, <3>3
          <6> QED BY <6>1, <1>7
        <5> QED BY <5>1, <1>7 DEF Queued
      <4>2. TurnsDone(k)' = TurnsDone(k)
        BY <4>1, <1>7 DEF TurnsDone
      <4>3. PICK n : n = TurnsDone(k)
        OBVIOUS
      <4>4. n \in Nat /\ Reached(line, role, k, n)
        BY <4>3, <3>1, <1>1 DEF TurnsDone
      <4>5. Reached(line, role, k, n)' /\ TurnsDone(k)' = n
        BY <4>2, <4>3, <4>4, <2>3
      <4> QED BY <4>5 DEF Reached
    <3> QED BY <3>2, <3>3
  <2>5. line = line_time'.line /\ row = line_time'.row /\ role = role_id' /\ i = role_iterator'
    BY <1>1, <1>7
  <2>6. RoleSoFar'
    BY <1>1, <1>7, <2>4, <2>5 DEF RoleSoFar
  <2> QED BY <2>1, <2>2, <2>6 DEF Progress
<1>8. CASE f_is_enough_workers(work_time, TheLineDay, role_id, x[2], x[3])
  <2>1. /\ workers_queue' = {y \in workers_queue : <<y[2], y[3]>> # <<s, e>>}
        /\ UNCHANGED <<roster, loop, in_date, default_times, line_time, role_id, role_iterator>>
    BY <1>2, <1>3, <1>8
  <2>2. Growing /\ UNCHANGED line_work_day
    BY <2>1, SameIsGrowing DEF roster
  <2>3. ASSUME NEW k \in Slots(s, e) PROVE Reached(line, role, k, i)'
    <3>1. f_is_enough_workers(work_time, l, role, s, e)
      BY <1>1, <1>3, <1>8
    <3>2. Manned(line, role, k, WorkerCount[<<line, role>>])
      BY <3>1, <1>1, <1>4, <1>5, EnoughIsManned
    <3>3. Reached(line, role, k, i) /\ k \in Slot
      BY <3>2 DEF Reached, Slots
    <3> QED BY <3>3, <2>2, <1>1, DoneStaysDone DEF GInv
  <2> QED BY <2>1, <2>2, <2>3, <1>7
<1>9. CASE ~f_is_enough_workers(work_time, TheLineDay, role_id, x[2], x[3])
  <2>1. ~f_is_enough_workers(work_time, l, role, s, e) /\ Assign(worker, s, e)
    BY <1>1, <1>2, <1>3, <1>9
  <2>2. \A d \in DefaultDay : work_time'[d] = work_time[d]
    BY <1>1, <1>3, <2>1, AssignTurn
  <2>3. PICK w, times :
          /\ w.line_work_day_id = l.work_day_id /\ w.role_id = role /\ w.worker_id = worker
          /\ w.work_day_id \in DayId /\ w.work_day_id # l.work_day_id
          /\ worker_work_day' = worker_work_day \cup {w}
          /\ \A b \in DayId : b # w.work_day_id => DateOf(b)' = DateOf(b)
          /\ w \in worker_work_day => DateOf(w.work_day_id)' = DateOf(w.work_day_id)
          /\ \A m \in line_work_day : m.work_day_id # w.work_day_id
          /\ \A v \in worker_work_day : v.work_day_id = w.work_day_id => v = w
          /\ RowsAssigned(l, w, times, s, e)
          /\ work_time'[w.work_day_id] = InsertWorkTime(work_time[w.work_day_id], s, e)
          /\ UNCHANGED <<line_work_day, loop, in_date, default_times, line_time, line_roles,
                         role_id, role_iterator>>
          /\ workers_queue' = {y \in workers_queue : <<y[2], y[3]>> # <<s, e>>}
    BY <1>1, <1>3, <2>1, AssignTurn
  <2>4. PICK line_rows, rows : /\ line_rows = InsertWorkTime(work_time[l.work_day_id], s, e)
                               /\ rows = InsertWorkTime(work_time[w.work_day_id], s, e)
    OBVIOUS
  <2>5. /\ Covered(line_rows) = Covered(work_time[l.work_day_id]) \cup Slots(s, e)
        /\ Covered(rows) = Covered(work_time[w.work_day_id]) \cup Slots(s, e)
        /\ work_time'[l.work_day_id] = line_rows /\ work_time'[w.work_day_id] = rows
        /\ \A b \in DayId : b # l.work_day_id /\ b # w.work_day_id => work_time'[b] = work_time[b]
    BY <2>3, <2>4 DEF RowsAssigned
  <2>6. Growing
    <3>1. \A d \in DayId : Covered(work_time[d]) \subseteq Covered(work_time'[d])
      <4> SUFFICES ASSUME NEW d \in DayId PROVE Covered(work_time[d]) \subseteq Covered(work_time'[d])
        OBVIOUS
      <4>1. CASE d = l.work_day_id
        BY <4>1, <2>5
      <4>2. CASE d = w.work_day_id
        BY <4>2, <2>5
      <4>3. CASE d # l.work_day_id /\ d # w.work_day_id
        BY <4>3, <2>5
      <4> QED BY <4>1, <4>2, <4>3
    <3>2. \A m \in line_work_day : DateOf(m.work_day_id)' = DateOf(m.work_day_id)
      BY <2>3 DEF GInv, IInv, TypeOK
    <3>3. \A v \in worker_work_day : DateOf(v.work_day_id)' = DateOf(v.work_day_id)
      <4> SUFFICES ASSUME NEW v \in worker_work_day PROVE DateOf(v.work_day_id)' = DateOf(v.work_day_id)
        OBVIOUS
      <4>1. v.work_day_id \in DayId
        BY DEF GInv, IInv, TypeOK
      <4>2. v = w \/ v.work_day_id # w.work_day_id
        BY <2>3
      <4> QED BY <4>1, <4>2, <2>3
    <3> QED BY <3>1, <3>2, <3>3, <2>2, <2>3 DEF Growing
  <2>7. ASSUME NEW k \in Slots(s, e), Reached(line, role, k, i - 1)
        PROVE  Reached(line, role, k, i)'
    <3>1. k \in Slot
      BY DEF Slots
    <3>2. CASE Reached(line, role, k, i)
      BY <3>1, <3>2, <2>6, <1>1, DoneStaysDone DEF GInv
    <3>3. CASE i - 1 = 0 \/ Manned(line, role, k, i - 1)
      <4>1. PICK before, after : before = OnDuty(l, role, k) /\ after = OnDuty(l, role, k)'
        OBVIOUS
      <4>2. Cardinality(before) \in Nat /\ Cardinality(before) >= i - 1 /\ IsFiniteSet(before)
        <5>1. Cardinality(before) \in Nat /\ IsFiniteSet(before)
          BY <4>1, OnDutyFinite DEF GInv, IInv
        <5>2. CASE i - 1 = 0
          BY <5>1, <5>2
        <5>3. CASE Manned(line, role, k, i - 1)
          <6>1. PICK m \in LineDays(line, date) : Cardinality(OnDuty(m, role, k)) >= i - 1
            BY <5>3, <1>1 DEF Manned
          <6>2. m = l
            BY <6>1, <1>4 DEF Progress, DatedOnce
          <6> QED BY <5>1, <6>1, <6>2, <4>1
        <5> QED BY <5>1, <5>2, <5>3, <3>3
      <4>3. w \notin before
        <5> SUFFICES ASSUME w \in before PROVE FALSE
          OBVIOUS
        <5>1. w \in worker_work_day /\ k \in Covered(work_time[w.work_day_id])
          BY <4>1 DEF OnDuty, WorkersOf
        <5>2. date \in DateOf(w.work_day_id)
          BY <5>1, <1>4, <2>3 DEF GInv, Scheduled, DaysAreDated
        <5>3. w \in AtWork(worker, date, k)
          BY <5>1, <5>2, <2>3 DEF AtWork
        <5> QED BY <5>3, <1>5
      <4>4. before \cup {w} \subseteq after
        <5>1. w \in after
          BY <4>1, <2>3, <2>5 DEF OnDuty, WorkersOf
        <5>2. ASSUME NEW v \in before PROVE v \in after
          <6>1. v \in worker_work_day /\ v.line_work_day_id = l.work_day_id /\ v.role_id = role
                /\ k \in Covered(work_time[v.work_day_id]) /\ v.work_day_id \in DayId
            BY <4>1 DEF OnDuty, WorkersOf, GInv, IInv, TypeOK
          <6>2. v \in worker_work_day' /\ k \in Covered(work_time'[v.work_day_id])
            BY <6>1, <2>6 DEF Growing
          <6> QED BY <6>1, <6>2, <4>1 DEF OnDuty, WorkersOf
        <5> QED BY <5>1, <5>2
      <4>5. IsFiniteSet(after)
        <5>1. after \subseteq worker_work_day'
          BY <4>1 DEF OnDuty, WorkersOf
        <5> QED BY <5>1, FS_Subset DEF IInv
      <4>6. Cardinality(before \cup {w}) = Cardinality(before) + 1
        BY <4>2, <4>3, FS_AddElement
      <4>7. Cardinality(after) >= i
        <5>1. Cardinality(before \cup {w}) <= Cardinality(after) /\ Cardinality(after) \in Nat
          BY <4>4, <4>5, FS_Subset, FS_CardinalityType
        <5> QED BY <5>1, <4>2, <4>6, <1>1
      <4>8. l \in LineDays(line, date)' /\ date = in_date'
        BY <1>1, <1>4, <2>3, <2>6 DEF LineDays, Growing
      <4>9. Manned(line, role, k, i)'
        BY <4>1, <4>7, <4>8 DEF Manned
      <4> QED BY <4>9 DEF Reached
    <3> QED BY <2>7, <3>2, <3>3 DEF Reached
  <2> QED BY <2>3, <2>6, <2>7, <1>7
<1> QED BY <1>8, <1>9

(* The invariant of the calls.                                              *)
LEMMA CallsProgress == GenerationSpec => []Progress
<1>1. GenerationInit => Progress
  BY DEF GenerationInit, Init, Progress, DatedOnce, LineDays, PlannedSoFar, RoleSoFar
<1>2. GInv /\ GInv' /\ Progress /\ [GenerationNext]_<<roster, generation>> => Progress'
  <2> SUFFICES ASSUME GInv, GInv', Progress, [GenerationNext]_<<roster, generation>> PROVE Progress'
    OBVIOUS
  <2>1. CASE GenerationNext
    BY <2>1, OuterProgress, EnsureProgress, FillProgress, ServeProgress
       DEF GInv, GenerationNext, GenerationStep
  <2>2. CASE UNCHANGED <<roster, generation>>
    <3>1. Growing /\ UNCHANGED line_work_day
      BY <2>2, SameIsGrowing DEF roster, generation
    <3>2. UNCHANGED <<loop, in_date, default_times, line_time, line_roles, role_id, role_iterator,
                      workers_queue>>
      BY <2>2 DEF generation
    <3>3. DatedOnce'
      BY <3>1, SameLineDays DEF Progress
    <3>4. PlannedSoFar'
      <4>1. CASE loop = "none"
        BY <4>1, <3>2 DEF PlannedSoFar
      <4>2. CASE loop # "none"
        BY <4>2, <3>1, <3>2, PlannedStaysPlanned DEF GInv, Progress
      <4> QED BY <4>1, <4>2
    <3>5. RoleSoFar'
      <4>1. CASE loop \in {"l_role_count", "chunk", "l_workers_queue"}
        <5>1. PICK x, role, i :
                /\ x = line_time /\ role = role_id /\ i = role_iterator
                /\ x \in LineTime /\ role \in Role /\ i \in Nat
                /\ loop # "l_role_count" => i # 0
          BY <4>1 DEF GInv, Typed, Progress, RoleSoFar
        <5>2. ASSUME NEW k \in Slots(x.row.start_time, x.row.end_time)
              PROVE  Reached(x.line, role, k, TurnsDone(k))'
          <6>1. PICK n : n = TurnsDone(k)
            OBVIOUS
          <6>2. n \in Nat /\ TurnsDone(k)' = n
            BY <3>2, <4>1, <5>1, <6>1 DEF TurnsDone, Queued
          <6>3. Reached(x.line, role, k, n)
            BY <4>1, <5>1, <6>1 DEF Progress, RoleSoFar
          <6>4. Reached(x.line, role, k, n)'
            BY <3>1, <5>1, <6>2, <6>3, DoneStaysDone DEF GInv, LineTime, Slots
          <6> QED BY <6>2, <6>4 DEF Reached
        <5>3. x = line_time' /\ role = role_id' /\ i = role_iterator'
          BY <3>2, <5>1
        <5>4. \A k \in Slots(line_time.row.start_time, line_time.row.end_time)' :
                Reached(line_time.line, role_id, k, TurnsDone(k))'
          BY <5>2, <5>3
        <5> QED BY <3>2, <4>1, <5>4 DEF Progress, RoleSoFar
      <4>2. CASE loop \notin {"l_role_count", "chunk", "l_workers_queue"}
        BY <3>2, <4>2 DEF Progress, RoleSoFar
      <4> QED BY <4>1, <4>2
    <3> QED BY <3>3, <3>4, <3>5 DEF Progress
  <2> QED BY <2>1, <2>2
<1> QED BY <1>1, <1>2, GenerationSchedules, PTL DEF GenerationSpec

(* When a call ends, each default time has a role of its line that is short *)
(* of a worker only where every worker of the role is booked or off: no     *)
(* chunk is given up too early by the turns of l_role_count and             *)
(* l_workers_queue, whatever lines, roles and dates there are.              *)
THEOREM LinesAreStaffed == GenerationSpec => OneRoleStaffed
<1>1. ASSUME NEW line \in Line, NEW role \in Role, NEW k,
             Reached(line, role, k, WorkerCount[<<line, role>>])
      PROVE  Staffed(line, role, k)
  BY <1>1 DEF Reached, Manned, NobodyLeft, Staffed, Enough
<1>2. ASSUME Progress, EndDay, NEW x \in LineTime, DefaultTimeOf(x)
      PROVE  \/ RolesOf(x.line) = {}
             \/ \E role \in RolesOf(x.line) :
                  \A k \in Slots(x.row.start_time, x.row.end_time) : Staffed(x.line, role, k)
  <2>1. Planned(x)
    BY <1>2 DEF Progress, PlannedSoFar, EndDay
  <2>2. x.line \in Line /\ RolesOf(x.line) \subseteq Role
    BY DEF LineTime, RolesOf
  <2> QED BY <2>1, <2>2, <1>1 DEF Planned
<1>3. Progress =>
        [EndDay =>
           \A x \in LineTime : DefaultTimeOf(x) =>
             \/ RolesOf(x.line) = {}
             \/ \E role \in RolesOf(x.line) :
                  \A k \in Slots(x.row.start_time, x.row.end_time) : Staffed(x.line, role, k)
        ]_<<roster, generation>>
  BY <1>2
<1> QED BY <1>3, CallsProgress, PTL DEF GenerationSpec, OneRoleStaffed

-----------------------------------------------------------------------------
(* The loops run out: behind EveryCallEnds there is an order on the states  *)
(* of a call in which every turn goes down.                                 *)

\* How deep in the loops the call is.
Depth == CASE loop = "l_line_role" -> 3
           [] loop \in {"l_role_count", "chunk", "l_workers_queue"} -> 2
           [] loop = "l_default_work_days" -> 1
           [] OTHER -> 0

\* How far from its end a turn of l_role_count is.
StepsOfTurn == CASE loop = "chunk" -> IF LineDays(line_time.line, in_date) = {} THEN 3 ELSE 2
                 [] loop = "l_workers_queue" -> 1
                 [] OTHER -> 0

Shrinks(S, T) == T \subseteq S /\ T # S

\* The order: the default times left, the depth, the turns of l_role_count left,
\* the steps of the turn, and the queue, each going down while those before it
\* stay.  With finitely many lines and workers the sets are finite, and the numbers are
\* natural, so no call goes down for ever.
GoesDown ==
  \/ Depth' = 0
  \/ Shrinks(default_times, default_times')
  \/ /\ UNCHANGED default_times
     /\ \/ Depth' < Depth
        \/ /\ Depth = 2 /\ Depth' = 2 /\ UNCHANGED <<line_time, role_id>>
           /\ \/ role_iterator < role_iterator' /\ role_iterator' <= WorkerCount[<<line_time.line, role_id>>]
              \/ /\ UNCHANGED role_iterator
                 /\ \/ StepsOfTurn' < StepsOfTurn
                    \/ StepsOfTurn' = StepsOfTurn /\ Shrinks(workers_queue, workers_queue')

Counted == role_iterator \in Nat

\* The turns are counted from 0.
LEMMA TurnsAreCounted == SpecWithChanges => []Counted
<1>1. GenerationInit => Counted
  BY DEF GenerationInit, Counted
<1>2. Counted /\ [GenerationNext \/ ChangeBetweenCalls]_<<roster, generation>> => Counted'
  <2> SUFFICES ASSUME role_iterator \in Nat, [GenerationNext \/ ChangeBetweenCalls]_<<roster, generation>>
               PROVE  role_iterator' \in Nat
    BY DEF Counted
  <2>1. ASSUME ServeQueue PROVE role_iterator' \in Nat
    <3>1. PICK x \in Best(workers_queue) : UNCHANGED role_iterator \/ Assign(x[1], x[2], x[3])
      BY <2>1 DEF ServeQueue
    <3>2. CASE UNCHANGED role_iterator
      BY <3>2
    <3>3. CASE Assign(x[1], x[2], x[3])
      <4>1. PICK l, w, times : AssignsFrom(l, w, times, x[1], x[2], x[3])
        BY <3>3, AssignIs
      <4> QED BY <4>1 DEF AssignsFrom, EndCall
    <3> QED BY <3>1, <3>2, <3>3
  <2>2. CASE GenerationNext
    BY <2>1, <2>2 DEF GenerationNext, GenerationStep, FetchDefaultTime, EndDay, EndCall, FetchRole, CountRole,
                      EnsureLineDay, FillQueue, EndQueue, p_generate_day_work_time, generation
  <2>3. CASE ChangeBetweenCalls \/ UNCHANGED <<roster, generation>>
    BY <2>3 DEF ChangeBetweenCalls, generation
  <2> QED BY <2>2, <2>3
<1> QED BY <1>1, <1>2, PTL DEF SpecWithChanges

(* Every turn of a loop brings the end of the call nearer: nothing that a   *)
(* loop goes over is put back, and l_role_count counts up to worker_count.  *)
THEOREM EveryTurnGoesDown == SpecWithChanges => [][GenerationStep => GoesDown]_<<roster, generation>>
<1>1. ASSUME IInv, Typed, role_iterator \in Nat, GenerationStep PROVE GoesDown
  <2>1. CASE FetchDefaultTime
    BY <2>1 DEF FetchDefaultTime, GoesDown, Shrinks
  <2>2. CASE EndDay
    BY <2>2 DEF EndDay, EndCall, GoesDown, Depth
  <2>3. CASE FetchRole
    <3>1. Depth = 3 /\ UNCHANGED default_times
      BY <2>3 DEF FetchRole, Depth
    <3>2. Depth' \in {1, 2}
      BY <2>3 DEF FetchRole, Depth
    <3> QED BY <3>1, <3>2 DEF GoesDown
  <2>4. CASE CountRole
    <3>1. Depth = 2 /\ UNCHANGED <<default_times, line_time, role_id>>
      BY <2>4 DEF CountRole, Depth
    <3>2. PICK n \in Nat : n = WorkerCount[<<line_time.line, role_id>>]
      BY <2>4, <1>1, RosterAssumption DEF CountRole, Typed, LineTime
    <3>3. CASE role_iterator >= n
      <4>1. Depth' = 1
        BY <2>4, <3>2, <3>3 DEF CountRole, Depth
      <4> QED BY <3>1, <4>1 DEF GoesDown
    <3>4. CASE ~(role_iterator >= n)
      <4>1. Depth' = 2 /\ role_iterator' = role_iterator + 1
        BY <2>4, <3>2, <3>4 DEF CountRole, Depth
      <4>2. role_iterator < role_iterator' /\ role_iterator' <= n
        BY <4>1, <3>2, <3>4, <1>1
      <4> QED BY <3>1, <3>2, <4>1, <4>2 DEF GoesDown
    <3> QED BY <3>3, <3>4
  <2>5. CASE EnsureLineDay
    <3>1. UNCHANGED generation /\ loop = "chunk" /\ LineDays(line_time.line, in_date) = {}
      BY <2>5 DEF EnsureLineDay
    <3>2. UNCHANGED <<loop, in_date, line_time, default_times, role_id, role_iterator>>
      BY <3>1 DEF generation
    <3>3. PICK id, n : id = NewId /\ n = [work_day_id |-> id, line_id |-> line_time.line]
      OBVIOUS
    <3>4. n \in line_work_day' /\ [id |-> id, date |-> in_date] \in work_day'
      BY <2>5, <3>3 DEF EnsureLineDay, NewLineDay
    <3>5. in_date \in DateOf(id)'
      BY <3>4 DEF DateOf
    <3>6. n \in LineDays(line_time.line, in_date)'
      BY <3>2, <3>3, <3>4, <3>5 DEF LineDays
    <3>7. Depth = 2 /\ Depth' = 2 /\ StepsOfTurn = 3 /\ StepsOfTurn' = 2
      BY <3>1, <3>2, <3>6 DEF Depth, StepsOfTurn
    <3> QED BY <3>2, <3>7 DEF GoesDown
  <2>6. CASE FillQueue
    <3>1. /\ UNCHANGED <<default_times, line_time, role_id, role_iterator>>
          /\ Depth = 2 /\ Depth' = 2 /\ StepsOfTurn = 2 /\ StepsOfTurn' = 1
      BY <2>6 DEF FillQueue, Depth, StepsOfTurn
    <3> QED BY <3>1 DEF GoesDown
  <2>7. CASE ServeQueue
    <3>1. PICK x \in workers_queue :
            \/ /\ workers_queue' = {y \in workers_queue : <<y[2], y[3]>> # <<x[2], x[3]>>}
               /\ UNCHANGED <<loop, default_times, line_time, role_id, role_iterator>>
            \/ Assign(x[1], x[2], x[3])
      BY <2>7 DEF ServeQueue, Best
    <3>2. \/ loop' = "none"
          \/ /\ workers_queue' = {y \in workers_queue : <<y[2], y[3]>> # <<x[2], x[3]>>}
             /\ UNCHANGED <<loop, default_times, line_time, role_id, role_iterator>>
      <4>1. CASE Assign(x[1], x[2], x[3])
        <5>1. PICK l, w, times : AssignsFrom(l, w, times, x[1], x[2], x[3])
          BY <4>1, AssignIs
        <5> QED BY <5>1 DEF AssignsFrom, EndCall
      <4> QED BY <3>1, <4>1
    <3>3. CASE loop' = "none"
      BY <3>3 DEF GoesDown, Depth
    <3>4. CASE /\ workers_queue' = {y \in workers_queue : <<y[2], y[3]>> # <<x[2], x[3]>>}
               /\ UNCHANGED <<loop, default_times, line_time, role_id, role_iterator>>
      <4>1. Shrinks(workers_queue, workers_queue')
        BY <3>4 DEF Shrinks
      <4>2. loop = "l_workers_queue"
        BY <2>7 DEF ServeQueue
      <4>3. Depth = 2 /\ Depth' = 2 /\ StepsOfTurn' = StepsOfTurn
        BY <3>4, <4>2 DEF Depth, StepsOfTurn
      <4> QED BY <3>4, <4>1, <4>3 DEF GoesDown
    <3> QED BY <3>2, <3>3, <3>4
  <2>8. CASE EndQueue
    <3>1. /\ UNCHANGED <<default_times, line_time, role_id, role_iterator>>
          /\ Depth = 2 /\ Depth' = 2 /\ StepsOfTurn = 1 /\ StepsOfTurn' = 0
      BY <2>8 DEF EndQueue, Depth, StepsOfTurn
    <3> QED BY <3>1 DEF GoesDown
  <2> QED BY <1>1, <2>1, <2>2, <2>3, <2>4, <2>5, <2>6, <2>7, <2>8 DEF GenerationStep
<1>2. IInv /\ Typed /\ Counted => [GenerationStep => GoesDown]_<<roster, generation>>
  BY <1>1 DEF Counted
<1> QED BY <1>2, GenerationKeeps, TurnsAreCounted, PTL
=============================================================================
