------------------------------- MODULE Roster -------------------------------
(***************************************************************************)
(* The planned days of the production lines and of the workers assigned to *)
(* them: tables work_week, work_day, line_work_day, worker_work_day and    *)
(* work_time, and the procedures and C functions that change them.  One    *)
(* action is one call, run to its end or to its error by one session       *)
(* (WorkTimeCalls shows what that leaves out).                             *)
(***************************************************************************)
EXTENDS WorkTime

CONSTANTS
  Line, Worker, Role,       \* primary keys of line, worker and role
  Date,                     \* the dates days are planned for
  NULL,                     \* SQL's NULL: the date of a default day's work_day
  Week,                     \* the Mondays that identify work weeks
  WeekOf,                   \* the Monday of the week of a date
  WorkerCount,              \* line_role.worker_count, 0 where there is no row
  MaxDay,                   \* bound on AUTO_INCREMENT of work_day
  DefaultDays,              \* how many work_days are default days, the first ones
  DefaultTime               \* the work_time the default days may have, as functions

DayId == 1 .. MaxDay
DefaultDay == 1 .. DefaultDays

ASSUME RosterAssumption ==
  /\ NULL \notin Date
  /\ WeekOf \in [Date -> Week]
  /\ WorkerCount \in [Line \X Role -> Nat]
  /\ MaxDay \in Nat
  /\ DefaultDays \in 0 .. MaxDay
  /\ \A times \in DefaultTime : /\ times \in [DefaultDay -> SUBSET Interval]
                                /\ \A d \in DefaultDay : ~Overlapping(times[d])

VARIABLES work_week, work_day, line_work_day, worker_work_day, work_time,
          last_id           \* the last id AUTO_INCREMENT gave to a work_day

roster == <<work_week, work_day, line_work_day, worker_work_day, work_time, last_id>>

Init ==
  /\ work_week = {}
  /\ work_day = {[id |-> d, date |-> NULL] : d \in DefaultDay}
  /\ line_work_day = {}
  /\ worker_work_day = {}
  /\ \E times \in DefaultTime :
       work_time = [d \in DayId |-> IF d \in DefaultDay THEN times[d] ELSE {}]
  /\ last_id = DefaultDays

-----------------------------------------------------------------------------
(* Queries *)

DateOf(d) == {w.date : w \in {v \in work_day : v.id = d}}

LineDays(line, date) == {l \in line_work_day : l.line_id = line /\ date \in DateOf(l.work_day_id)}

WorkersOf(l) == {w \in worker_work_day : w.line_work_day_id = l}

Assignment(l, worker, role) ==
  {w \in WorkersOf(l) : w.worker_id = worker /\ w.role_id = role}

\* f_is_enough_workers, over the rows times; l is a line_work_day.
f_is_enough_workers(times, l, role, s, e) ==
  Cardinality({w \in WorkersOf(l.work_day_id) :
                 /\ w.role_id = role
                 /\ \E r \in times[w.work_day_id] : Contains(r, s, e)})
    >= WorkerCount[<<l.line_id, role>>]

\* All the boundaries strictly between s and e: the query joins worker_work_day
\* with every row of work_time, whosever day it is.
BoundariesWithin(times, s, e) ==
  {t \in Time : s < t /\ t < e /\ \E d \in DayId : \E r \in times[d] : t \in {r.start_time, r.end_time}}

\* The consecutive pieces of the range from s to e cut at the boundaries.
Pieces(cuts, s, e) ==
  IF s < e
  THEN {p \in (cuts \cup {s, e}) \X (cuts \cup {s, e}) :
          p[1] < p[2] /\ \A t \in cuts : ~(p[1] < t /\ t < p[2])}
  ELSE {<<s, e>>}

\* Variant: nothing compares the worker's time with the line's
AddWithoutLine(times, w, s, e) ==
  \E l \in line_work_day :
    /\ l.work_day_id = w.line_work_day_id
    /\ \E p \in Pieces(BoundariesWithin(times, s, e), s, e) :
         f_is_enough_workers(times, l, w.role_id, p[1], p[2])

\* Variant: the room for the worker is looked for in the range as a whole
AddUncut(times, w, s, e) ==
  \/ ~\E r \in times[w.line_work_day_id] : Contains(r, s, e)
  \/ \E l \in line_work_day :
       /\ l.work_day_id = w.line_work_day_id
       /\ f_is_enough_workers(times, l, w.role_id, s, e)

\* The errors p_add_worker_work_day_work_time signals for the worker_work_day w.
AddRejected(times, w, s, e) ==
  \/ ~\E r \in times[w.line_work_day_id] : Contains(r, s, e)
  \/ \E l \in line_work_day :
       /\ l.work_day_id = w.line_work_day_id
       /\ \E p \in Pieces(BoundariesWithin(times, s, e), s, e) :
            f_is_enough_workers(times, l, w.role_id, p[1], p[2])

\* The error p_remove_work_time signals when it is called for a line's day.
UsedByWorkers(times, d, s, e) ==
  \E w \in WorkersOf(d) : \E r \in times[w.work_day_id] :
    \/ s < r.start_time /\ r.start_time < e
    \/ s < r.end_time /\ r.end_time < e
    \/ r.start_time < s /\ e < r.end_time

-----------------------------------------------------------------------------
(* Days.  Each creates its work_day with the next id. *)

NewId == last_id + 1

\* An INSERT INTO work_week from outside these procedures.
AddWeek(week) ==
  /\ week \notin work_week
  /\ work_week' = work_week \cup {week}
  /\ UNCHANGED <<work_day, line_work_day, worker_work_day, work_time, last_id>>

\* What is left of p_create_line_work_day when its checks have passed.
NewLineDay(line, date) ==
  /\ NewId \in DayId
  /\ last_id' = NewId
  /\ work_day' = work_day \cup {[id |-> NewId, date |-> date]}
  /\ line_work_day' = line_work_day \cup {[work_day_id |-> NewId, line_id |-> line]}

p_create_line_work_day(line, date) ==
  /\ WeekOf[date] \in work_week
  /\ LineDays(line, date) = {}
  /\ NewLineDay(line, date)
  /\ UNCHANGED <<work_week, worker_work_day, work_time>>

WorkerDay(id, l, worker, role) ==
  [work_day_id |-> id, line_work_day_id |-> l.work_day_id, line_id |-> l.line_id,
   worker_id |-> worker, role_id |-> role]

NewWorkerDay(l, worker, role) ==
  /\ NewId \in DayId
  /\ last_id' = NewId
  /\ work_day' = work_day \cup {[id |-> NewId, date |-> date] : date \in DateOf(l.work_day_id)}
  /\ worker_work_day' = worker_work_day \cup {WorkerDay(NewId, l, worker, role)}

p_create_worker_work_day(l, worker, role) ==
  /\ Assignment(l.work_day_id, worker, role) = {}
  /\ NewWorkerDay(l, worker, role)
  /\ UNCHANGED <<work_week, line_work_day, work_time>>

\* DELETE FROM work_day for a line's day: the cascades take the line_work_day,
\* its work_time and its worker_work_days, and leave the workers' own work_days
\* and their work_time behind.
delete_line_work_day(l) ==
  /\ work_day' = {v \in work_day : v.id # l.work_day_id}
  /\ line_work_day' = line_work_day \ {l}
  /\ worker_work_day' = worker_work_day \ WorkersOf(l.work_day_id)
  /\ work_time' = [work_time EXCEPT ![l.work_day_id] = {}]
  /\ UNCHANGED <<work_week, last_id>>

-----------------------------------------------------------------------------
(* Planned time.  A call that signals an error changes nothing, except      *)
(* p_remove_line_work_day_work_time, which may have changed workers' days.  *)

TimeOnly == UNCHANGED <<work_week, work_day, line_work_day, worker_work_day, last_id>>

\* CALL p_insert_work_time for a line's day (add_line_work_day_work_time)
add_line_work_day_work_time(l, s, e) ==
  /\ work_time' = [work_time EXCEPT ![l.work_day_id] = InsertWorkTime(@, s, e)]
  /\ TimeOnly

p_add_worker_work_day_work_time(w, s, e) ==
  /\ ~AddRejected(work_time, w, s, e)
  /\ work_time' = [work_time EXCEPT ![w.work_day_id] = InsertWorkTime(@, s, e)]
  /\ TimeOnly

\* CALL p_remove_work_time for a worker's day (remove_worker_work_day_work_time)
remove_worker_work_day_work_time(w, s, e) ==
  /\ s <= e
  /\ work_time' = [work_time EXCEPT ![w.work_day_id] = RemoveWorkTime(@, s, e)]
  /\ TimeOnly

\* Variant: the range is removed from no worker's day
RemovedFromNobody(done, s, e) == work_time

\* The rows once the range is removed from the days of the workers in done.
RemovedFrom(done, s, e) ==
  [d \in DayId |-> IF \E w \in done : w.work_day_id = d
                   THEN RemoveWorkTime(work_time[d], s, e) ELSE work_time[d]]

\* Workers' days first, in the order of the cursor, then the line's.  The first
\* day whose removal fails ends the call, changed as far as its statements ran.
p_remove_line_work_day_work_time(l, s, e) ==
  /\ s <= e
  /\ \E done \in SUBSET WorkersOf(l.work_day_id) :
       LET times == RemovedFrom(done, s, e)
           fails(w) == RemoveWorkTimeFails(work_time[w.work_day_id], s, e)
       IN  /\ \A w \in done : ~fails(w)
           /\ \/ \E w \in WorkersOf(l.work_day_id) \ done :
                   fails(w) /\ work_time' = RemovedFrom(done \cup {w}, s, e)
              \/ /\ done = WorkersOf(l.work_day_id)
                 /\ work_time' =
                      IF UsedByWorkers(times, l.work_day_id, s, e) THEN times
                      ELSE [times EXCEPT ![l.work_day_id] = RemoveWorkTime(@, s, e)]
  /\ TimeOnly

-----------------------------------------------------------------------------
CreateDay ==
  \/ \E week \in Week : AddWeek(week)
  \/ \E line \in Line, date \in Date : p_create_line_work_day(line, date)
  \/ \E l \in line_work_day, worker \in Worker, role \in Role :
       p_create_worker_work_day(l, worker, role)

PlanTime ==
  \E s, e \in Time :
    \/ \E l \in line_work_day : add_line_work_day_work_time(l, s, e)
    \/ \E w \in worker_work_day : p_add_worker_work_day_work_time(w, s, e)

FreeTime ==
  \E s, e \in Time :
    \/ \E w \in worker_work_day : remove_worker_work_day_work_time(w, s, e)
    \/ \E l \in line_work_day : p_remove_line_work_day_work_time(l, s, e)

DeleteDay == \E l \in line_work_day : delete_line_work_day(l)

\* The calls of the C program and of an administrator's SQL session.
Next == CreateDay \/ PlanTime \/ FreeTime \/ DeleteDay

Spec == Init /\ [][Next]_roster

-----------------------------------------------------------------------------
TypeOK ==
  /\ work_week \subseteq Week
  /\ work_day \subseteq [id: DayId, date: Date \cup {NULL}]
  /\ line_work_day \subseteq [work_day_id: DayId, line_id: Line]
  /\ worker_work_day \subseteq
       [work_day_id: DayId, line_work_day_id: DayId, line_id: Line, worker_id: Worker, role_id: Role]
  /\ work_time \in [DayId -> SUBSET Interval]
  /\ last_id \in 0 .. MaxDay

\* No two rows of a work_day share time, whichever procedures wrote them.
NonOverlapping == \A d \in DayId : ~Overlapping(work_time[d])

\* A worker's day has no time its line's day has not ("to avoid breaking
\* consistency between line schedules and worker schedules", 850-853):
\* insertion checks against the line, removal from a line starts with the workers.
WorkersWithinLine ==
  \A w \in worker_work_day : Covered(work_time[w.work_day_id]) \subseteq Covered(work_time[w.line_work_day_id])

OnDuty(l, role, k) ==
  {w \in WorkersOf(l.work_day_id) : w.role_id = role /\ k \in Covered(work_time[w.work_day_id])}

\* At no time of its day does a line have more workers in a role than line_role
\* asks for, although f_is_enough_workers counts only the workers whose one row
\* contains the whole range it is asked about (function.sql, 218-236).
WithinCapacity ==
  \A l \in line_work_day, role \in Role, k \in Slot :
    Cardinality(OnDuty(l, role, k)) <= WorkerCount[<<l.line_id, role>>]

\* Removing a range from a line leaves no time of it to the line or its
\* workers: once the workers' days are cut, the validation in p_remove_work_time
\* no longer finds a worker in the way and the call does not stop half-way.
RemovalReachesEveryone ==
  [][TimeOnly => \A l \in line_work_day, s, e \in Time :
       s < e /\ p_remove_line_work_day_work_time(l, s, e) =>
         \A d \in {l.work_day_id} \cup {w.work_day_id : w \in WorkersOf(l.work_day_id)} :
           Covered(work_time'[d]) = Covered(work_time[d]) \ Slots(s, e)]_roster
=============================================================================
