# Verification of the ALT scheduler

TLA+ modules, TLC runs and TLAPS proofs for the work-schedule database of this
repository: the stored procedures of `src/db` and the C code in `src/src` that
calls them and caches what they store. File references are relative to `src/`;
`procedures.sql` means `db/procedures.sql`, `queue.c` means
`src/database/queue.c`, and so on.

## 1. The system

A MySQL database plans, day by day, at which times production lines run and who
works on them in which role. A C program (and an administrator's SQL session)
creates days, adds and removes time, and has schedules generated.

| Component | State | Operations | Talks to |
|---|---|---|---|
| Work times of a day (`procedures.sql` 678-940) | rows of `work_time` of one `work_day` | `p_insert_work_time` merges, `p_remove_work_time` deletes, trims and splits | called by everything below |
| Planned days (`procedures.sql` 419-615, 842-1141, `function.sql` 239-294, `line_work_day_model.c`, `worker_work_day_model.c`) | `work_day`, `line_work_day`, `worker_work_day` and their `work_time` | create a line's day, assign a worker in a role, plan and free time for either, delete a line's day | validates workers' time against the line's, the line's removal against the workers' |
| Generation (`procedures.sql` 1225-1718, `function.sql` 126-172) | three cursors, two temporary tables, the tables above | `p_generate_day_work_time` -> `p_generate_line_work_time` -> `p_generate_line_work_time_chunk` | reads default days, creates weeks and days, plans time |
| Default days (`procedures.sql` 35-75, 205-361) | `work_default_day`, `worker_work_default_day`, `line_work_default_day` | one per owner and weekday | read by the generation |
| Work weeks | `work_week` | created by the generation or by hand | required by every planned day |
| Schema (`creation.sql`) | foreign keys with and without ON DELETE CASCADE, CHECKs | deletes cascade | every table |
| Role, worker and line models (`role_model.c`, `worker_model.c`, `line_model.c`) | C structs that cache one row: `id`, `is_changed`, the list of roles; queues of them | add, refresh, update, delete, include, give and take a role, and all of these over a queue | one SQL statement each |
| Day models (`line_work_day_model.c`, `worker_work_day_model.c`, `time_interval.c`) | C structs of a line's and of a worker's day, the second with a first inside, each with a list of times | create, select, include, refresh, add and remove time, delete | the procedures of planned days, then a SELECT |
| Request layer (`mysql_base_functions.c`) | a `REQUESTF_RESULT` per query | format, bind, execute, fetch, free | MySQL client library |
| Queue (`queue.c`) | doubly linked list with `size` | create, push, pop, remove, get, free; filter, copy, iterators | used by models and windows |
| Windows (`app_window.c`) | a `Queue` of SDL windows | start, create, show, hide, destroy, close | SDL |

What is hard here. **Concurrency and crashes**: no code opens a transaction, so
every statement commits by itself; other sessions see half of a call, and a lost
connection leaves half of it. **Partial failure**: procedures call procedures that
may SIGNAL after the caller has already written; C functions send several requests
and any of them may fail, before the server has run it or after. **Intervals**: every
check is a WHERE clause about single rows with closed bounds, while the meaning is
the set of planned times. **Ordering**: the generation serves candidates from a table
filled before the insertions that change who is available. **Stale copies and hand-made
memory**: objects outlive their rows, a queue's `size` and links are updated by some
operations and not by others, pointers are freed and set anew. The hazards are listed,
each at its line, in `PROJECT.json`.

What makes each component correct:

- work times: rows of a day never overlap; a call plans or frees exactly its
  range, and one cut short harms nothing outside it;
- planned days: a worker's time lies within the line's day, no role has more
  workers on duty than `line_role` asks for, a removal reaches line and workers;
- generation: nobody is in two places at once, everybody works within their
  default time and roles, a line's time comes with a worker's, in
  one role of each default time at least nobody who is free is missed, and every call ends;
- creation: one day per line and date, per worker, line's day and role, and per owner
  and weekday; no `work_day` nobody refers to;
- queues: one list from start to end, first in first out, every pass reaches every
  object and ends, no object is there twice;
- objects: unchanged means equal to the row, an included list is what the rows are
  unless a named reason came after it was read, results and memory are freed once.

## 2. The modules

| Module | Models |
|---|---|
| `WorkTime` | the WHERE clauses and the effect of both procedures, as operators on sets of rows |
| `WorkDay` | one `work_day` changed by whole calls |
| `DayCoverage` | planned time without its rows: slots, and what it is to plan or free a range of them |
| `WorkTimeCalls` | the same calls one SQL statement at a time, by several sessions, cut short anywhere |
| `Roster` | planned days of lines and workers, one call a step |
| `Generation` | the three generating procedures on top of `Roster`, one turn of a loop a step |
| `Creation` | the creation procedures one SQL statement at a time, by several sessions, with deletions in between |
| `Queue` | `queue.c` as cells with `next` and `prev`, `start`, `end` and `size` |
| `Fifo` | what `Queue` promises its clients: a sequence, and a size that counts pushes |
| `ModelQueues` | select, refresh, update and delete over a queue of roles, workers or lines, one request a step, on top of `Queue` |
| `Windows` | `app_window.c` on top of `Queue` |
| `Models` | one worker or line with its list of roles, one role, and the requests about them |
| `DayModels` | one line's day and one worker's day object, what they include, and the requests about them |
| `MC...` | the instances the runs check |
| `WorkTimeProofs` | lemmas about both procedures' effect on rows |
| `WorkTimeCallsProofs`, `GenerationProofs`, `CreationProofs`, `ModelQueueProofs`, `WindowsProofs`, `ModelsProofs`, `DayModelsProofs` | theorems: about `WorkDay` too in the first, `Roster` too in the second, `Queue` too in the fourth |

Refinements: `WorkTimeCalls` (one session) implements `WorkDay`; `ModelQueues` implements
`Fifo`. `Roster` and `Generation` use the whole-call operators of `WorkTime`, which the
first refinement justifies for sessions that run one after the other. `DayModels` keeps of
a day's rows the planned slots only, which `ExactEffect` of `WorkDay` allows: a call plans
or frees exactly the slots of its range, in terms of `DayCoverage`. `Generation` extends `Roster`, `ModelQueues`
and `Windows` extend `Queue`: they run its operations, not copies of them.

How state and actions correspond to the code:

- Times. TIME is `0..MaxTime`; slot `k` is the time between boundary `k` and
  `k + 1`. A row of `work_time` is a record `start_time`, `end_time`; the primary
  key is kept where the code finds a row again by it (`WorkTimeCalls`) and dropped
  where rows are told apart by their times alone.
- `WorkTimeCalls`. `call[p].next` is the statement session `p` runs next, the other
  fields are the procedure's parameters and variables. Evaluation of a cursor's loop
  is one step: the rows it goes over are fixed when it opens. `Abort` ends a call
  between two statements. The validation at the top of `p_remove_work_time` concerns
  lines' days and is in `Roster`.
- `Roster`. The tables are sets of records under the names of the tables, and
  `work_time` maps a `work_day` id to its rows. `last_id` is AUTO_INCREMENT. An
  action is a call; a call that signals an error before it writes is no step. The
  one that may write first, `p_remove_line_work_day_work_time`, has its error in the
  action. Foreign-key checks of existence are the ranges of the quantifiers.
- `Generation`. `loop` names the loop that takes its next turn, the cursors are
  sets of what is left to fetch, `workers_queue` and `workers_queue_number` are the
  temporary tables. `Assign` is one turn of `l_workers_queue` with everything it
  calls, the refused addition included, which ends all three procedures. Where SQL
  leaves the order of rows open, the choice is nondeterministic. The sum that ranks
  the workers is computed on HHMMSS numbers as SUM does on TIME (`HHMMSS`).
- `Creation`. As in `WorkTimeCalls`, `call[p].next` is the next statement; the four
  procedures share the steps they have in common, and the arguments in `call[p].args`
  say which one runs. `p_create_work_day` is the step `InsertDay`: its week is the one
  just read, so its validations pass. Tables of workers' and lines' default days are one
  set, as their keys differ. Each deletion is one statement with its cascades.
- `Queue`. A cell of the heap is a record `value`, `next`, `prev`; `cells` maps the
  allocated ones. `start`, `end` and `size` are the fields of the struct. `chain` is a
  history variable: the cells in the order in which the operations should have left them;
  `PathSound` and `Linked` say that following the pointers finds just these. `size` is kept as the code has it: no
  operation but creation ever lowers it.
- `ModelQueues`. `pass` is the function the client runs, with its counter `i` (turns
  left of a loop that makes `size` of them) and `hand`, the object popped and not yet
  pushed back or freed. A turn is two steps, so that the table may change between
  them: the pop, then the request with what follows it. A request succeeds, is refused
  or finds no row, or fails, and a failed UPDATE or DELETE may have been run. `foreign`
  is a history variable: rows another session has changed since the object read them.
- `Windows`. The caller is any program that hands the functions windows it has not
  destroyed. `damage` records what is done to memory that was freed or belongs to SDL;
  nothing is claimed of a program after that, so it takes no further step. `destroyed`
  says of which ends of the queue the window has been destroyed, the oldest (`"first"`) or
  the youngest of several (`"last"`).
- `Models`. The functions of `worker_model.c` and `line_model.c` about one object are the
  same up to what `kind` tells apart. Each request has an outcome: `"ok"`, `"fails"`
  (not run), `"lost"` (run, but reported as failed). Functions that send several
  requests are several steps, and `results` counts the `REQUESTF_RESULT`s allocated
  meanwhile. `outdated`, `inserted`, `lost` and `leaked` are history variables: why the
  list of roles may differ from the rows, which rows the insertions of an object have made,
  of which of them the answer was lost, and which results failed deletions have given up.
- `DayModels`. `lwd` and `wwd` are the client's two objects (`LineWorkDayModel`,
  `WorkerWorkDayModel`), records of an id and of what their pointers lead to; the object inside `wwd` is `wwd.lwd`. A pointer to freed memory is
  `Freed`, and freeing or reading it sets `damage`. `DayModelsAssumption` tells these values from
  each other. The functions that change a day are two
  steps, the CALL and the SELECT of the list. `outdated` (whose list was read before the day was
  changed) and `handed` (the object inside `wwd` was given to `delete_line_work_day`)
  are history variables.

History variables record what has happened and no guard reads them.

Operators marked "Variant" stand beside the definition they vary: each is a bug the
code could have, used to check that a property would notice it. No specification
uses them.

## 3. The runs

All runs bound time and ids; `MaxDay` bounds AUTO_INCREMENT of `work_day` in the
guards of `NewLineDay`, `NewWorkerDay` and `InsertDay`, `MaxId` that of `Models`,
`MaxSize` and `MaxCreated` the pushes onto a queue, `MaxLeaks` the results given up.

| Run | Shows | Bounds, and why they are enough |
|---|---|---|
| `WorkDay` | `DayTypeOK`, `DayNonOverlapping`, `ExactEffect`, `NoNewCuts` | six slots: three separate rows fit, so a range can merge, swallow, trim on both sides and split at once; proved for every `MaxTime` |
| `CallsOneSession` | `TypeOK`, `NonOverlapping`, `WholeCallsSpec`, `DamageContained`: each call implements `WorkDay`, or, cut short, changes nothing outside its scope | four slots, five row ids: more than a day can hold, with one to spare for the split; proved for all bounds and for one session whose removals are ordered |
| `CallsTwoSessions` | **violated**: rows overlap | two insertions are enough |
| `GenerateDay` | `NoDoubleBooking`, `WithinDefaultTime`, `BothPlanned`, `OneRoleStaffed`, `EveryCallEnds` | two lines, one of them with two roles, that compete for three workers, one of whom has both roles; one line asks for two workers; every set of rows within three slots, but for none, as default time of one worker, three for a line and two for another worker; two Mondays, each generated any number of times; the safety properties are proved for all bounds |
| `GenerateWithChanges` | `TypeOK`, `NonOverlapping`, `WorkersWithinLine`, `WithinCapacity`, `RemovalReachesEveryone`, by all calls of `Roster` with generations between them | one line, two workers, two roles, three days besides the default ones: a worker in both roles, two workers in one, and a day deleted and created again; three slots for a split, of which one worker's default time has two; generations that end with an error; proved for all bounds |
| `GenerateAfterFreeing` | **violated**: `NoDoubleBooking` | two lines, two workers |
| `GenerateTwoRoles` | **violated**: `EveryRoleStaffed` | one line with two roles, three workers, one date |
| `Creation` | `OneDayPerCaller`, `DaysAgree`, `NoLostDays`: a race makes at most one day per session, links agree, and only deletions and lost connections leave a day without a link | two sessions that race for one line's day, one with two default days to make (one refused by the CHECK), one with two assignments; four days, so that a day can be deleted and made again; proved for all bounds |
| `ModelQueues` | `TypeOK`, `Linked`, `OneElementPerObject`, `NullStandsAlone`, `RefreshReachesAll`, `CleanIsCurrent`, `FifoSpec`, `EveryPassEnds` | two rows, three names, two cells, passes up to a size of four: the queue is emptied, turned around and holds a NULL, and `size` grows to twice what it holds; three names so that one is free when both rows have one; the safety properties are proved for all bounds |
| `Windows` | `ListsTheWindows`, `CloseFreesEachOnce` | four windows of which five are created: the oldest, the youngest and two in the middle to destroy, in any order, and an address that malloc gives out twice; proved for all bounds |
| `Models` | `ListIsCurrent`, `ResultsAreFreed`, `StrayRowsAreOwed` for workers and for lines | two owners and two roles, so that a row can be lost and made again, a second row can come of a lost answer, and a list can have the wrong role; one leaked result, as each is like the next; proved for all bounds |
| `DayModels` | `ListsAreCurrent`, `FreedOnce`, `WorkerTimesFit` | one slot, as a list is current or not; two line days, so that one is deleted and made again while objects keep the first; proved for all bounds |

`CHECK_DEADLOCK FALSE` stands where ids run out, connections are lost or the program
ends: in `Creation`, in `GenerateWithChanges` and
`GenerateAfterFreeing` when a generation needs another day, in `Windows` when the process has
exited or damaged its memory, in `DayModels` after damage.

Symmetry is used for row ids, workers, roles, windows, cells and slots where constants
treat them alike and no liveness is checked.

Fairness. The server runs a procedure it has started to its end, so `Generation` assumes
`WF(GenerationStep)`, and `EveryCallEnds` follows because each turn takes something
out of what its loop goes over. The client runs a function it has called to its end, so
`ModelQueues` assumes `WF(PassStep)`, and `EveryPassEnds` follows because a loop counts
its turns beforehand, although it pushes while it pops, and a deletion stops at NULL. That
a call is made, that a request succeeds or that another session stops is not assumed.

### What the violated runs say

- `CallsTwoSessions`: `procedures.sql` 645-646 promises a table without overlapping
  ranges. Two sessions that insert into one day both look for rows to merge with
  before either writes.
- `GenerateAfterFreeing`: `function.sql` 99-100 promises that a worker is not already
  assigned in the interval. `f_can_work` looks for one row that contains the chunk; a
  worker left with a part of it elsewhere is taken for free.
- `GenerateTwoRoles`: `procedures.sql` 1529-1530 says that the procedure iterates through
  all roles of the line. `LEAVE l_line_role` (1613), inside `l_role_count`, ends the loop
  over the roles when the turns of the first are over: the other role gets nobody, although
  somebody who has it is free.

### What the checks do not show

Some properties hold within limits the runs keep to. Outside them the code behaves
otherwise; the limits are these.

- A removal made by a direct call of `p_remove_work_time` for a line's day. The three
  cases of `procedures.sql` 877-881 compare strictly, so a worker whose row is exactly
  the removed range is not found, and `WorkersWithinLine` fails. The C program frees
  the workers first (`p_remove_line_work_day_work_time`), which is what `Roster` has.
- Removed ranges that are not ordered. The order is validated nowhere (842): with
  `in_end_time < in_start_time` rows do overlap. No caller in the repository asks for it.
- Roles after the first. `OneRoleStaffed` is about one role of each default time, for the reason
  `GenerateTwoRoles` shows; it does not say which, as the cursor is not ordered.
- Work on other dates. `f_can_work` joins `worker_work_day` and `work_day` without a
  condition (`function.sql` 159-164): once some `work_day` has the date, work on any date
  counts as work on it, and a worker who has none on the date is refused. This contradicts
  `function.sql` 102-103. `OneRoleStaffed` takes such a worker for booked (`Booked`),
  and so holds for several dates; with `AtWork` on the date in its place it would not.
- Time removed from a line between generations. The line's time is inserted before the
  worker's (1503), which may be refused because part of the chunk is full; the line keeps time
  nobody works, the generation ends and `BothPlanned` fails. `db/debug.sql` performs
  the first two of the three steps.
- That a day is never there twice. Two sessions that create it at once both pass the
  check, and from then on each SELECT ... INTO of that day fails with two rows.
  `OneDayPerCaller` bounds the damage and gives uniqueness when one session creates.
- Windows destroyed at either end of the queue. `remove_queue_element` leaves the first
  element in and `end` on the last one it freed. Still true then: every living window is
  in the queue and a close leaves none (`ListsTheWindows`, `CloseFreesEachOnce`). Only until
  the oldest is destroyed: the queue has nothing else, and a close frees no window twice. Only
  until the youngest of several is: `end` is the last element, and no creation writes in a
  freed one.
- A repeated `add_worker` after a lost answer. Two workers may have one name, and the second
  insertion is not refused as it is for lines and roles; `StrayRowsAreOwed` says that nothing
  but a lost answer leads to a second row.
- The inner object of a worker's day given to `delete_line_work_day`, which frees it and
  leaves the outer object with the pointer. `FreedOnce` is about clients that do not.
- Sums of times that are not whole hours. SUM adds HHMMSS numbers, so that four half
  hours (12000) rank below an hour and a half (13000) when workers are ranked; the runs use
  whole hours. Nothing that is checked or proved depends on the ranking.

The default times are fetched in ascending order of length although the comment (1661-1662)
says that longer shifts come first, so that short ones take the workers; the model follows the
code, and no property rests on the order.

## 4. The proofs

The assumptions on constants are those of the modules; each is named there, and TLC evaluates
it in every run of the module. Besides them some theorems have hypotheses, which say what
the properties need and are stated with the theorem: `OneSession` and `OrderedRemovals` in
`WorkTimeCallsProofs`. The limits they stand for are in section 3, and each has states that
satisfy it: those of the run.

**One day.** `WorkTimeCallsProofs`, first part, for every `MaxTime`: `DayTypeCorrect`,
`DayNeverOverlapping`, `CallsHaveExactEffect`, `PeriodsStayWhole`. The
inductive invariant is `DayTypeOK` with `DayNonOverlapping`: neither is inductive alone,
because merging is exact only on rows that do not overlap. The steps rest on lemmas of
`WorkTimeProofs` about the operators: the merged range crosses no row's boundary
(`PrefixStartUncrossed`, `SuffixEndUncrossed`), so deleting inside it clears it and the new
row is apart from the rest (`InsertKeepsApart`) and covers what it replaces
(`InsertCovers`); after the deletion and the trims at most one row meets the removed
range, which the split takes out (`RemoveKeepsApart`, `RemoveFrees`).

**One session, statement by statement.** `WorkTimeCallsProofs`, for every set of row ids
and every `MaxTime`, about `SpecWithAborts`: `NeverOverlapping`, `TypeCorrect`,
`OnlyTheScopeIsDamaged` and the refinement `CallsAreWhole`, from `OneSession` and
`OrderedRemovals`. Without the first `CallsTwoSessions` is a counterexample, without the
second an inverted removal is. The invariant says, for the statement each call is about to
run, what the statements so far have achieved (`Knows`): before the INSERT no row meets the
merged range, before the UPDATE of the split the row found is still there with the end that
was read. The refinement maps the rows to what they will be when the call's remaining
statements have run (`Settled`): the effect comes all at once, with the first statement
that writes, and the statements after it are stutters. `Remembers` adds what this
needs: what a call has read and merged so far is what the whole procedure would.

**Planned days.** `GenerationProofs`, first part, for any lines, workers, roles, dates, `line_role` and
numbers of days: `RosterTypes`, `RowsNeverOverlap`, `WorkersStayWithinLine`,
`LinesStayWithinCapacity`, `RemovalsReachEveryone`. To the four invariants `IInv` adds
that ids are keys over both tables of days (`Keys`: otherwise time planned for one day
could be another's), that a worker's day names a line's day (`Assigned`: otherwise a
new line's day might find workers assigned already) and that ids not yet given out have no time
(`GivenOut`), and that there are finitely many assignments, so that workers can be counted. The argument
for the capacity: the addition is asked about every piece between two boundaries of
workers' rows; within a piece a worker is on duty throughout or not at all
(`PieceAround`, `PieceCountsEveryone`), so the count of single rows that contain the
piece is the count of workers on duty in each of its slots. For the removal: after the
workers are cut nobody is in the way of the line's removal (`NobodyInTheWay`), and an
ordered removal from rows that do not overlap never meets an error (`RemoveSucceeds`).

**Generation.** `GenerationProofs`, with any default times.
With all the calls of `Roster` in between (`SpecWithChanges`):
`GenerationWithinCapacity`, `GenerationWithinLine`, `GenerationKeepsRoster`. The new point is a turn that
plans for the line and is refused for the worker: the line's rows grow, which neither
property minds. As long as days are only generated (`GenerationSpec`):
`NobodyIsDoubleBooked`, `SchedulesKeepToDefaultTime`, `LinesAreNeverLeftAlone`. The
invariant adds that all rows begin and end at boundaries of default times of the weekday
(`AlongDefaultTimes`), every `work_day` has one date (`DaysAreDated`), nobody is at two
places (`AtOnePlace`), and that what the open cursors have read is still true (`StillTrue`). A chunk
has no such boundary inside (`ChunkIsUncut`), so whoever has a piece of it has all of
it in one row (`AllOrNothing`), and `f_can_work`, which looks for one row, is right
(`CandidatesFree`). A worker taken from the queue has none of the chunk and the others
count piece by piece, so the addition is never refused (`NotRejected`).
`GenerateAfterFreeing` shows that this needs rows along default times.

`LinesAreStaffed` is the theorem about what is left when the call ends, `OneRoleStaffed`, for any
number of roles and dates. It follows the call from loop to loop (`Progress`). For each slot of the
default time being planned, `Reached` says that the turns of `l_role_count` that are done with
it (`TurnsDone`) have put as many workers on duty, unless there are enough or nobody is
left; a default time that has left the cursor has `worker_count` turns behind it (`Planned`).
A chunk without a candidate has nobody left for any of its slots, because whoever is free and
in default time for a moment of a chunk is so for all of it (`FreeIsCandidate`); a chunk that
is served gets one worker more, who was not on duty there (`ServeProgress`); and nothing that has
been done for a slot is undone (`DoneStaysDone`).

`EveryTurnGoesDown` is what `EveryCallEnds` rests on: an order on the states of a call
(`GoesDown`) in which each turn of each loop goes down. It looks first at the default times
left in the cursor, then at how deep in the loops the call is, at the turns of `l_role_count`
left, at the steps of the turn and at the queue of workers, where nothing a turn has dealt with is
ever put back.

**Creation.** `CreationProofs`, for finitely many sessions with any calls, and any lines,
workers, roles, dates and numbers of days: `CreationTypes`, `LinksAndDaysAgree`,
`RacesAreBounded`, `ProceduresLoseNoDays`. `IInv` says what is true of a call between
two of its statements (`Knows`): the day it has inserted has the date it was inserted
with and nobody has linked it, and no other call holds it (`HeldOnce`), because ids are
given out once (`DaysOnce`). The date a call has read of a line's day stays right although
the day may be deleted before the link: its id is given out and no call is about to link
it, so it never comes back with another date (`LineDayRead`). For the races `Counted` adds
up the rows there are and the sessions that are past the check: together they are no more
than the sessions that make the call, and a link only moves one from the second to the first
(`CountMoves`). That a step of a procedure leaves no day behind follows from the day being
either held or linked (`NoOrphans`).

**Queues.** `ModelQueueProofs`. For any cells and values: each operation of `Queue` keeps the
links, and does to `chain` what `Fifo` says. For any ids, names and kinds: `Typed`,
`QueueIsLinked`, `TurnsSuffice`, `ObjectsAreOnce`, `NullIsAlone`, `RefreshIsComplete`,
`CleanObjectsAreCurrent`, `DeleteIsComplete`, `EveryStepGoesDown`, and `QueueIsFifo`, the
refinement. `IInv` adds that `size` covers the list (`SizeCoversQueue`), what the
variables of a pass are between its steps (`PassShape`, `EmptyHand`,
`SelectedObjects`), that the turns left cover what is still to be refreshed (`TurnsLeft`:
the objects already refreshed are the last ones of the list), and that the rows of objects
to be fetched are as they were read (`RowsThere`). None of the properties is inductive without them: that a
refresh reaches everything depends on the order in which pops and pushes turn the
list around, and on `size` never being too small, whatever earlier passes did.
`EveryStepGoesDown` is the order behind `EveryPassEnds` (`PassGoesDown`): refreshes and
updates push back what they pop, but count turns; a delete goes on for as long as there is
something in the queue, and pushes nothing.

**Windows.** `WindowsProofs`, for any windows and cells: `WindowTypes`, `WindowsAreListed`,
`FirstCloseIsClean`. The functions of `queue.c` used here do not keep the list linked as those of
`ModelQueues` do, so the invariant claims less: following `next` from the start gives `chain`
(`PathSound`), an `end` that points to an allocated element points to the last one
(`EndSound`), and `Listed`, for an open application whose memory is whole: every living window
is in the chain; behind the first entry there is nothing else and nothing twice
(`BehindFirst`), whatever has been destroyed; until the oldest window is destroyed the same goes
for the first entry; until the youngest of several is, `end` points to an allocated
element. A destroy either takes its window out (`DestroyUnlists`) or, for the oldest, leaves
its entry as the first one (`DestroyLeaves`). So a close always finds every living window, and
pops each once unless the oldest has been destroyed (`CloseFreesAll`), where an error inside a
creation runs the same code. What `WindowsAreListed` and `FirstCloseIsClean` claim only without a
destroy at one end is written out in the properties; no theorem excludes such programs.

**Models.** `ModelsProofs`, for any ids, names and bounds: `ModelTypes`,
`ListsAreCurrentOrExcused`, `OnlyFailedDeletionsLeak`, `OnlyLostAnswersStray`. The invariant adds
that ids not given out have no rows (`GivenOut`: otherwise a new row could be one of an earlier
insertion, and a new owner would find roles), and how many results are allocated at each
step of a function (`Owed`). `StrayRowsAreOwed` says which rows an object has left behind: the
proof follows the insertion that succeeds and sets the id, the one that is lost and does not, and
the deletion, which gives the id up only when the row is gone.

**Day models.** `DayModelsProofs`, for any days and slots: `DayModelTypes`,
`ListsOfTimesAreCurrent`, `NothingIsFreedTwice`, `WorkersFitAfterFailures`. The invariant
says where a pointer to freed memory can be: only inside a worker's day, and only after the
object there was handed to `delete_line_work_day` (`FreedInside`); and that the list
of an object that is about to read it again is the only one that may be behind (`Current`).
That the worker's time stays within the line's (`WorkerTimesFit`) rests on the order of the
removal, worker first: wherever its request fails, what is left of the line's time covers what is
left of the worker's.

Model-checked only, because liveness and ENABLED are out of the prover's reach: `EveryCallEnds`
and `EveryPassEnds`. Of these the theorems above give the descent; that some step can always
be taken before the end, and that fairness takes it, only TLC checks. The property of each violated run is a counterexample and proves
nothing. Everything else that a run checks is a theorem.

## 5. Not modelled

- `SDL2/` and `mariadb/`: headers and binaries of third parties, which are most of the
  lines in the repository. SDL is seen through the calls that fail, the server through the
  statements it runs.
- In `mysql_base_functions.c` the splitting of the query text and the binding and
  conversion of values: they fill buffers for the client library, whose code is not here.
  What a request does and what can go wrong with it is in `Models`, `DayModels` and
  `ModelQueues`.
- Functions of `queue.c` nobody calls: `queue_filter`, `queue_find_first_element`,
  `create_queue_copy` and the iterators. `get_queue_element` reads, and is the way in which
  `ModelQueues` finds an object to rename.
- Colours, titles, drawing and printing; getters; copies of objects; the character
  helpers of `utils.c`. They change none of the modelled state.
- `main.c`: it opens the interface, shows one window for a second and closes it, which is
  one behaviour of `Windows`.
- `f_get_wd_work_week_id`, a query without a caller; `delete.sql`, which drops the tables.
- `work_time` of days that are created statement by statement: `Creation` has the days and
  their links, `Roster` their times. No code deletes a `work_week`.

## 6. What could come next

All modules that were planned are written, and all safety properties proved. What is left: a
`Roster` whose calls run statement by statement.
