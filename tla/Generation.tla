----------------------------- MODULE Generation -----------------------------
(***************************************************************************)
(* The generation of a day's schedule: p_generate_day_work_time goes over  *)
(* the default times of the lines, p_generate_line_work_time over the      *)
(* roles of a line, p_generate_line_work_time_chunk assigns workers to the *)
(* chunks of one default time in one role.  A step is one turn of one of   *)
(* their loops; the session does nothing else while it generates.          *)
(***************************************************************************)
EXTENDS Roster, FiniteSetsExt

CONSTANTS
  WorkerRole,               \* worker_role, as <<worker, role>>
  LineRole,                 \* line_role, as <<line, role>>
  DayNumber,                \* work_default_day.day_number, per default day
  WorkerDefaultDay,         \* worker_work_default_day, as <<day, worker>>
  LineDefaultDay,           \* line_work_default_day, as <<day, line>>
  Weekday,                  \* WEEKDAY of a date
  Minutes                   \* the minutes from one time boundary to the next

ASSUME GenerationAssumption ==
  /\ WorkerRole \subseteq Worker \X Role
  /\ LineRole \subseteq Line \X Role
  /\ DayNumber \in [DefaultDay -> 0 .. 6]
  /\ WorkerDefaultDay \subseteq DefaultDay \X Worker
  /\ LineDefaultDay \subseteq DefaultDay \X Line
  /\ Weekday \in [Date -> 0 .. 6]
  /\ Minutes \in Nat \ {0}

\* p_create_worker_work_default_day admits one per worker and weekday.
ASSUME OneDefaultDay ==
  \A x, y \in WorkerDefaultDay :
    x[2] = y[2] /\ DayNumber[x[1]] = DayNumber[y[1]] => x = y

VARIABLES
  loop,                     \* the loop to take its next turn; "chunk" stands before
                            \* those of p_generate_line_work_time_chunk
  in_date,                  \* the date of the call
  default_times,            \* c_default_time: what is left to fetch
  line_time,                \* the line and the default time being planned
  line_roles,               \* c_line_role: what is left to fetch
  role_id, role_iterator,   \* the role being planned, and v_role_iterator
  workers_queue,            \* the candidates, as <<worker, start, end>>
  queue_number,             \* workers_queue_number: the sum of times per worker
  failed                    \* the call before ended with an error

generation == <<loop, in_date, default_times, line_time, line_roles, role_id,
                role_iterator, workers_queue, queue_number, failed>>

LineTime == [line: Line, row: Interval]

Length(r) == r.end_time - r.start_time

-----------------------------------------------------------------------------
(* Queries *)

DefaultDaysOf(days, owner, date) ==
  {d \in DefaultDay : <<d, owner>> \in days /\ DayNumber[d] = Weekday[date]}

\* Variant: the end of the range is not compared
StartsInDefaultTime(worker, date, s, e) ==
  \E d \in DefaultDaysOf(WorkerDefaultDay, worker, date) :
    \E r \in work_time[d] : Between(s, r.start_time, r.end_time) /\ s < e

HasDefaultTime(worker, date, s, e) ==
  \E d \in DefaultDaysOf(WorkerDefaultDay, worker, date) :
    \E r \in work_time[d] : Contains(r, s, e)

\* Variant: no second query
CanWorkTwice(worker, date, s, e) == HasDefaultTime(worker, date, s, e)

\* f_can_work.  The second query joins worker_work_day with work_day on nothing:
\* once any work_day has the date, the worker's days of every date count.
f_can_work(worker, date, s, e) ==
  /\ HasDefaultTime(worker, date, s, e)
  /\ ~\E w \in worker_work_day :
        /\ w.worker_id = worker
        /\ \E v \in work_day : v.date = date
        /\ \E r \in work_time[w.work_day_id] : Contains(r, s, e)

\* The boundaries of the weekday's default times within the row.
ChunkCuts(date, row) ==
  {t \in Time :
     /\ Between(t, row.start_time, row.end_time)
     /\ \E d \in DefaultDay :
          /\ DayNumber[d] = Weekday[date]
          /\ \E r \in work_time[d] : t \in {r.start_time, r.end_time}}

Chunks(date, row) == Pieces(ChunkCuts(date, row), row.start_time, row.end_time)

Candidates(date, row, role) ==
  {x \in {<<worker, p[1], p[2]>> : worker \in Worker, p \in Chunks(date, row)} :
     <<x[1], role>> \in WorkerRole /\ f_can_work(x[1], date, x[2], x[3])}

\* The number SUM takes a TIME for: 1:30:00 counts as 13000.
HHMMSS(length) ==
  LET minutes == length * Minutes
  IN  (minutes \div 60) * 10000 + (minutes % 60) * 100

\* SEC_TO_TIME keeps the order of the sums.
TotalTimes(queue) ==
  [worker \in Worker |->
     MapThenSumSet(LAMBDA x : HHMMSS(x[3] - x[2]), {x \in queue : x[1] = worker})]

\* Earliest chunk first, then the worker with the most time in the queue.
Best(queue) ==
  {x \in queue : \A y \in queue : \/ x[2] < y[2]
                                  \/ x[2] = y[2] /\ queue_number[x[1]] >= queue_number[y[1]]}

TheLineDay == CHOOSE l \in line_work_day : l \in LineDays(line_time.line, in_date)

-----------------------------------------------------------------------------
GenerationInit ==
  /\ Init
  /\ loop = "none"
  /\ in_date = NULL
  /\ default_times = {}
  /\ line_time = NULL
  /\ line_roles = {}
  /\ role_id = NULL
  /\ role_iterator = 0
  /\ workers_queue = {}
  /\ queue_number = [worker \in Worker |-> 0]
  /\ failed = FALSE

\* The end of the call: its variables and cursors are gone.
EndCall(error) ==
  /\ loop' = "none"
  /\ in_date' = NULL
  /\ default_times' = {}
  /\ line_time' = NULL
  /\ line_roles' = {}
  /\ role_id' = NULL
  /\ role_iterator' = 0
  /\ workers_queue' = {}
  /\ queue_number' = [worker \in Worker |-> 0]
  /\ failed' = error

p_generate_day_work_time(date) ==
  /\ loop = "none"
  /\ loop' = "l_default_work_days"
  /\ in_date' = date
  /\ default_times' = {x \in LineTime : \E d \in DefaultDaysOf(LineDefaultDay, x.line, date) :
                                          x.row \in work_time[d]}
  /\ failed' = FALSE
  /\ UNCHANGED <<roster, line_time, line_roles, role_id, role_iterator, workers_queue, queue_number>>

\* c_default_time is in ascending order of length.
FetchDefaultTime ==
  /\ loop = "l_default_work_days"
  /\ default_times # {}
  /\ \E x \in default_times :
       /\ \A y \in default_times : Length(x.row) <= Length(y.row)
       /\ line_time' = x
       /\ line_roles' = {role \in Role : <<x.line, role>> \in LineRole}
       /\ default_times' = default_times \ {x}
  /\ loop' = "l_line_role"
  /\ UNCHANGED <<roster, in_date, role_id, role_iterator, workers_queue, queue_number, failed>>

EndDay ==
  /\ loop = "l_default_work_days"
  /\ default_times = {}
  /\ EndCall(FALSE)
  /\ UNCHANGED roster

FetchRole ==
  /\ loop = "l_line_role"
  /\ IF line_roles = {}
     THEN loop' = "l_default_work_days" /\ UNCHANGED <<line_roles, role_id, role_iterator>>
     ELSE /\ \E role \in line_roles : /\ role_id' = role
                                      /\ line_roles' = line_roles \ {role}
          /\ role_iterator' = 0
          /\ loop' = "l_role_count"
  /\ UNCHANGED <<roster, in_date, default_times, line_time, workers_queue, queue_number, failed>>

\* Variant: one turn too few
CountRoleShort ==
  /\ loop = "l_role_count"
  /\ IF role_iterator + 1 >= WorkerCount[<<line_time.line, role_id>>]
     THEN loop' = "l_default_work_days" /\ UNCHANGED role_iterator
     ELSE loop' = "chunk" /\ role_iterator' = role_iterator + 1
  /\ UNCHANGED <<roster, in_date, default_times, line_time, line_roles, role_id,
                 workers_queue, queue_number, failed>>

\* One turn per worker the role asks for, and then LEAVE l_line_role: the roles
\* still to fetch are given up with the loop.
CountRole ==
  /\ loop = "l_role_count"
  /\ IF role_iterator >= WorkerCount[<<line_time.line, role_id>>]
     THEN loop' = "l_default_work_days" /\ UNCHANGED role_iterator
     ELSE loop' = "chunk" /\ role_iterator' = role_iterator + 1
  /\ UNCHANGED <<roster, in_date, default_times, line_time, line_roles, role_id,
                 workers_queue, queue_number, failed>>

\* The week and the line's day are created if there are none.
EnsureLineDay ==
  /\ loop = "chunk"
  /\ LineDays(line_time.line, in_date) = {}
  /\ work_week' = work_week \cup {WeekOf[in_date]}
  /\ NewLineDay(line_time.line, in_date)
  /\ UNCHANGED <<worker_work_day, work_time, generation>>

FillQueue ==
  /\ loop = "chunk"
  /\ LineDays(line_time.line, in_date) # {}
  /\ workers_queue' = Candidates(in_date, line_time.row, role_id)
  /\ queue_number' = TotalTimes(workers_queue')
  /\ loop' = "l_workers_queue"
  /\ UNCHANGED <<roster, in_date, default_times, line_time, line_roles, role_id,
                 role_iterator, failed>>

\* Variant: the line gets the whole default time, the worker the chunk
AssignWholeTime(worker, s, e) ==
  LET l     == TheLineDay
      found == Assignment(l.work_day_id, worker, role_id)
      w     == IF found = {} THEN WorkerDay(NewId, l, worker, role_id)
                             ELSE CHOOSE v \in found : TRUE
      times == [work_time EXCEPT ![l.work_day_id] =
                  InsertWorkTime(@, line_time.row.start_time, line_time.row.end_time)]
  IN  /\ IF found = {} THEN NewWorkerDay(l, worker, role_id)
                       ELSE UNCHANGED <<work_day, worker_work_day, last_id>>
      /\ work_time' = [times EXCEPT ![w.work_day_id] = InsertWorkTime(@, s, e)]
      /\ workers_queue' = {x \in workers_queue : <<x[2], x[3]>> # <<s, e>>}
      /\ UNCHANGED <<work_week, line_work_day, loop, in_date, default_times, line_time,
                     line_roles, role_id, role_iterator, queue_number, failed>>

\* The worker's day on the line is found or created, and the chunk inserted into
\* the line's time, then added to the worker's: the error that addition may
\* signal ends all the calls, with the line's time and the day in place.
Assign(worker, s, e) ==
  LET l     == TheLineDay
      found == Assignment(l.work_day_id, worker, role_id)
      w     == IF found = {} THEN WorkerDay(NewId, l, worker, role_id)
                             ELSE CHOOSE v \in found : TRUE
      times == [work_time EXCEPT ![l.work_day_id] = InsertWorkTime(@, s, e)]
  IN  /\ IF found = {} THEN NewWorkerDay(l, worker, role_id)
                       ELSE UNCHANGED <<work_day, worker_work_day, last_id>>
      /\ IF AddRejected(times, w, s, e)
         THEN /\ work_time' = times
              /\ EndCall(TRUE)
         ELSE /\ work_time' = [times EXCEPT ![w.work_day_id] = InsertWorkTime(@, s, e)]
              /\ UNCHANGED <<loop, in_date, default_times, line_time, line_roles, role_id,
                             role_iterator, queue_number, failed>>
              /\ workers_queue' = {x \in workers_queue : <<x[2], x[3]>> # <<s, e>>}
      /\ UNCHANGED <<work_week, line_work_day>>

\* Variant: a full chunk stays in the queue
ServeQueueFull ==
  /\ loop = "l_workers_queue"
  /\ \E x \in Best(workers_queue) :
       /\ ~f_is_enough_workers(work_time, TheLineDay, role_id, x[2], x[3])
       /\ Assign(x[1], x[2], x[3])

\* The best candidate gets its chunk, and the chunk leaves the queue with all
\* its other candidates.
ServeQueue ==
  /\ loop = "l_workers_queue"
  /\ \E x \in Best(workers_queue) :
       IF f_is_enough_workers(work_time, TheLineDay, role_id, x[2], x[3])
       THEN /\ workers_queue' = {y \in workers_queue : <<y[2], y[3]>> # <<x[2], x[3]>>}
            /\ UNCHANGED <<roster, loop, in_date, default_times, line_time, line_roles,
                           role_id, role_iterator, queue_number, failed>>
       ELSE Assign(x[1], x[2], x[3])

EndQueue ==
  /\ loop = "l_workers_queue"
  /\ workers_queue = {}
  /\ loop' = "l_role_count"
  /\ UNCHANGED <<roster, in_date, default_times, line_time, line_roles, role_id,
                 role_iterator, workers_queue, queue_number, failed>>

-----------------------------------------------------------------------------
GenerationStep ==
  \/ FetchDefaultTime \/ EndDay \/ FetchRole \/ CountRole
  \/ EnsureLineDay \/ FillQueue \/ ServeQueue \/ EndQueue

GenerationNext == GenerationStep \/ \E date \in Date : p_generate_day_work_time(date)

\* The server runs a procedure it has started to its end.
GenerationSpec == /\ GenerationInit
                  /\ [][GenerationNext]_<<roster, generation>>
                  /\ WF_<<roster, generation>>(GenerationStep)

\* The same with days created and deleted, and time planned and freed, by other
\* calls in between.
ChangeBetweenCalls == loop = "none" /\ Next /\ UNCHANGED generation

SpecWithChanges == /\ GenerationInit
                   /\ [][GenerationNext \/ ChangeBetweenCalls]_<<roster, generation>>
                   /\ WF_<<roster, generation>>(GenerationStep)

\* The same where these calls only free planned time.
FreeBetweenCalls == loop = "none" /\ FreeTime /\ UNCHANGED generation

SpecWithFreeing == /\ GenerationInit
                   /\ [][GenerationNext \/ FreeBetweenCalls]_<<roster, generation>>
                   /\ WF_<<roster, generation>>(GenerationStep)

-----------------------------------------------------------------------------
AtWork(worker, date, k) ==
  {w \in worker_work_day : /\ w.worker_id = worker
                           /\ date \in DateOf(w.work_day_id)
                           /\ k \in Covered(work_time[w.work_day_id])}

InDefaultTime(days, owner, date, k) ==
  \E d \in DefaultDaysOf(days, owner, date) : k \in Covered(work_time[d])

\* Nobody works in two places at once ("is not already assigned to another work
\* interval during the same time", function.sql, 93-103), although f_can_work
\* is asked once, when the queue is filled, and about single rows only.
NoDoubleBooking ==
  \A worker \in Worker, date \in Date, k \in Slot : Cardinality(AtWork(worker, date, k)) <= 1

\* Workers are planned in their roles and in the default time of their weekday,
\* lines in theirs: chunks are cut so that a worker has all of one or nothing.
WithinDefaultTime ==
  /\ \A w \in worker_work_day, k \in Slot :
       k \in Covered(work_time[w.work_day_id]) =>
         /\ <<w.worker_id, w.role_id>> \in WorkerRole
         /\ \A date \in DateOf(w.work_day_id) : InDefaultTime(WorkerDefaultDay, w.worker_id, date, k)
  /\ \A l \in line_work_day : \A k \in Covered(work_time[l.work_day_id]), date \in DateOf(l.work_day_id) :
       InDefaultTime(LineDefaultDay, l.line_id, date, k)

\* A turn that plans time of a line plans a worker for it ("Insert time for
\* worker and for line", procedures.sql, 1503): the chunk goes into the line's
\* day before the addition to the worker's day that may still be refused.
BothPlanned ==
  [][GenerationStep => \A l \in line_work_day :
       Covered(work_time'[l.work_day_id]) \ Covered(work_time[l.work_day_id]) \subseteq
         UNION {Covered(work_time'[w.work_day_id]) :
                  w \in {v \in worker_work_day' : v.line_work_day_id = l.work_day_id}}
    ]_<<roster, generation>>

(* What a call leaves.  f_can_work takes the work of every date for work on *)
(* the date of the call, and LEAVE l_line_role gives up the roles that are  *)
(* still to fetch.                                                          *)

RolesOf(line) == {role \in Role : <<line, role>> \in LineRole}

\* x is a default time of its line on the weekday of the call.
DefaultTimeOf(x) == \E d \in DefaultDaysOf(LineDefaultDay, x.line, in_date) : x.row \in work_time[d]

\* As many workers of the role are on duty as the line asks for.
Enough(line, role, k) ==
  \/ WorkerCount[<<line, role>>] = 0
  \/ \E l \in LineDays(line, in_date) : Cardinality(OnDuty(l, role, k)) >= WorkerCount[<<line, role>>]

\* The worker has time in slot k on some day, whatever its date.
Booked(worker, k) ==
  \E w \in worker_work_day : w.worker_id = worker /\ k \in Covered(work_time[w.work_day_id])

\* Nobody is missed: there are enough, or every worker of the role is off or booked.
Staffed(line, role, k) ==
  \/ Enough(line, role, k)
  \/ \A worker \in Worker :
       \/ <<worker, role>> \notin WorkerRole
       \/ ~InDefaultTime(WorkerDefaultDay, worker, in_date, k)
       \/ Booked(worker, k)

\* When the call ends, every default time has been planned in one role of its
\* line at least, and throughout: there is no slot in which that role is short
\* of a worker while somebody who has the role is neither off nor booked
\* ("Each iteration attempts to assign one additional worker for the generated
\* time chunks", procedures.sql, 1562-1563).
OneRoleStaffed ==
  [][EndDay =>
       \A x \in LineTime : DefaultTimeOf(x) =>
         \/ RolesOf(x.line) = {}
         \/ \E role \in RolesOf(x.line) :
              \A k \in Slots(x.row.start_time, x.row.end_time) : Staffed(x.line, role, k)
    ]_<<roster, generation>>

\* The same for every role of the line: "The procedure iterates through all
\* roles configured for the line" (procedures.sql, 1529-1536).
EveryRoleStaffed ==
  [][EndDay =>
       \A x \in LineTime : DefaultTimeOf(x) =>
         \A role \in RolesOf(x.line), k \in Slots(x.row.start_time, x.row.end_time) :
           Staffed(x.line, role, k)
    ]_<<roster, generation>>

\* Every call ends: each turn of a loop takes something from what it goes over.
EveryCallEnds == (loop # "none") ~> (loop = "none")
=============================================================================
