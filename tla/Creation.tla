------------------------------ MODULE Creation ------------------------------
(***************************************************************************)
(* The procedures that create days, one SQL statement per step:            *)
(* p_create_line_work_day, p_create_worker_work_day and the two that       *)
(* create default days.  Each looks its owner up, looks for a day that is  *)
(* there already, inserts a work_day, and links it to its owner.  Every    *)
(* statement commits by itself, so rows may be deleted between two of      *)
(* them, and a connection may be lost.                                     *)
(***************************************************************************)
EXTENDS Integers, FiniteSets

CONSTANTS
  Session,                  \* the connections that call the procedures
  Calls,                    \* per session, the calls it makes, as records
  Line, Worker, Role,       \* primary keys of line, worker and role
  LineRole,                 \* the rows of line_role
  Date,                     \* dates whose work_week exists
  DayNumber,                \* the day numbers default days are created for
  NULL,                     \* SQL's NULL
  MaxDay                    \* bound on AUTO_INCREMENT of work_day

DayId == 1 .. MaxDay

\* What the procedures are called with.
LineDay(line_id, date) == [create |-> "line_work_day", line_id |-> line_id, date |-> date]

WorkerDay(d, worker_id, role_id) ==
  [create |-> "worker_work_day", line_work_day_id |-> d, worker_id |-> worker_id, role_id |-> role_id]

DefaultDay(owner, day_number) == [create |-> "default_day", owner |-> owner, day_number |-> day_number]

CallArgs == {LineDay(l, d) : l \in Line, d \in Date}
              \cup {WorkerDay(d, w, r) : d \in DayId, w \in Worker, r \in Role}
              \cup {DefaultDay(o, n) : o \in Worker \cup Line, n \in DayNumber}

ASSUME CreationAssumption ==
  /\ IsFiniteSet(Session)
  /\ Calls \in [Session -> SUBSET CallArgs]
  /\ NULL \notin Date
  /\ Line \cap Worker = {}
  /\ LineRole \subseteq Line \X Role
  /\ DayNumber \subseteq Nat
  /\ MaxDay \in Nat

VARIABLES
  line, worker, role,       \* the rows that still exist
  work_day, work_default_day, line_work_day, worker_work_day,
  owner_default_day,        \* worker_work_default_day and line_work_default_day
  last_id,                  \* the last id AUTO_INCREMENT gave to a work_day
  call                      \* per session, the call it is in

days == <<work_day, work_default_day, last_id>>
links == <<line_work_day, worker_work_day, owner_default_day>>
owners == <<line, worker, role>>
vars == <<owners, days, links, call>>

Statement == {"owner", "line_day", "check", "work_day", "default_day", "link"}

\* line_id and date are what the call has read of the line's day.
Idle == [next |-> "idle"]
Lost == [next |-> "lost"]
InCall == [next: Statement, args: CallArgs, id: {NULL} \cup DayId,
           line_id: Line \cup {NULL}, date: Date \cup {NULL}]

Init ==
  /\ line = Line
  /\ worker = Worker
  /\ role = Role
  /\ work_day = {}
  /\ work_default_day = {}
  /\ line_work_day = {}
  /\ worker_work_day = {}
  /\ owner_default_day = {}
  /\ last_id = 0
  /\ call = [p \in Session |-> Idle]

-----------------------------------------------------------------------------
At(p, statement) == call[p].next = statement
Goto(p, statement) == call' = [call EXCEPT ![p].next = statement]
Return(p) == call' = [call EXCEPT ![p] = Idle]

HasDate(d, date) == [id |-> d, date |-> date] \in work_day

\* The owner whose existence the procedure checks first.
OwnerExists(args) ==
  CASE args.create = "line_work_day"   -> args.line_id \in line
    [] args.create = "worker_work_day" -> args.worker_id \in worker
    [] args.create = "default_day"     -> args.owner \in line \cup worker

\* The days that the check for duplicates finds.
Existing(args) ==
  CASE args.create = "line_work_day" ->
         {l \in line_work_day : l.line_id = args.line_id /\ HasDate(l.work_day_id, args.date)}
    [] args.create = "worker_work_day" ->
         {w \in worker_work_day : /\ w.line_work_day_id = args.line_work_day_id
                                  /\ w.worker_id = args.worker_id
                                  /\ w.role_id = args.role_id}
    [] args.create = "default_day" ->
         {o \in owner_default_day :
            /\ o.owner = args.owner
            /\ \E n \in work_default_day : /\ n.work_day_id = o.work_default_day_id
                                           /\ n.day_number = args.day_number}

\* Variant: default days are looked for by a date, which they do not have
AlreadyPlanned(args) == args.create # "default_day" /\ Existing(args) # {}

\* A day that is there is an error, and so is a SELECT that finds two.
AlreadyThere(args) == Existing(args) # {}

-----------------------------------------------------------------------------
Begin(p) ==
  /\ At(p, "idle")
  /\ \E args \in Calls[p] :
       call' = [call EXCEPT ![p] = [next |-> "owner", args |-> args, id |-> NULL,
                                    line_id |-> NULL, date |-> NULL]]
  /\ UNCHANGED <<owners, days, links>>

\* Each SELECT that finds nothing it needs ends the call with an error.
SelectOwner(p) ==
  /\ At(p, "owner")
  /\ IF OwnerExists(call[p].args)
     THEN Goto(p, IF call[p].args.create = "worker_work_day" THEN "line_day" ELSE "check")
     ELSE Return(p)
  /\ UNCHANGED <<owners, days, links>>

SelectLineDay(p) ==
  LET found == {x \in line_work_day \X work_day :
                  /\ x[1].work_day_id = call[p].args.line_work_day_id
                  /\ x[1].work_day_id = x[2].id}
  IN  /\ At(p, "line_day")
      /\ IF found = {} THEN Return(p)
         ELSE \E x \in found :
                call' = [call EXCEPT ![p].line_id = x[1].line_id, ![p].date = x[2].date,
                                     ![p].next = "check"]
      /\ UNCHANGED <<owners, days, links>>

Check(p) ==
  /\ At(p, "check")
  /\ IF AlreadyThere(call[p].args) THEN Return(p) ELSE Goto(p, "work_day")
  /\ UNCHANGED <<owners, days, links>>

\* p_create_work_day, or the first INSERT of p_create_work_default_day
InsertDay(p) ==
  LET args == call[p].args
      date == IF args.create = "line_work_day" THEN args.date ELSE call[p].date
  IN  /\ At(p, "work_day")
      /\ last_id + 1 \in DayId
      /\ last_id' = last_id + 1
      /\ work_day' = work_day \cup {[id |-> last_id', date |-> date]}
      /\ call' = [call EXCEPT ![p].id = last_id',
                    ![p].next = IF args.create = "default_day" THEN "default_day" ELSE "link"]
      /\ UNCHANGED <<owners, links, work_default_day>>

chk_day_number(n) == n \in 0 .. 6

\* Variant: the handler signals the error only
NotUndone(id) == work_day

\* What the handler of p_create_work_default_day leaves.
Undone(id) == {v \in work_day : v.id # id}

InsertDefaultDay(p) ==
  LET n == call[p].args.day_number
  IN  /\ At(p, "default_day")
      /\ \/ /\ chk_day_number(n)
            /\ work_default_day' =
                 work_default_day \cup {[work_day_id |-> call[p].id, day_number |-> n]}
            /\ Goto(p, "link")
            /\ UNCHANGED work_day
         \/ /\ ~chk_day_number(n)
            /\ work_day' = Undone(call[p].id)
            /\ Return(p)
            /\ UNCHANGED work_default_day
      /\ UNCHANGED <<owners, links, last_id>>

\* The rows that the foreign keys of the link ask for.
ParentsExist(c) ==
  CASE c.args.create = "line_work_day"   -> c.args.line_id \in line
    [] c.args.create = "worker_work_day" ->
         /\ [work_day_id |-> c.args.line_work_day_id, line_id |-> c.line_id] \in line_work_day
         /\ c.args.worker_id \in worker
         /\ c.args.role_id \in role
    [] c.args.create = "default_day"     -> c.args.owner \in line \cup worker

\* Variant: the last id of the table, not of the call
LastIdOfTable(c) == last_id

\* The day a call links, kept from LAST_INSERT_ID.
LinkedDay(c) == c.id

\* The last INSERT; when a foreign key refuses it, the day stays.
InsertLink(c) ==
  LET d == LinkedDay(c)
  IN  \/ /\ c.args.create = "line_work_day"
         /\ line_work_day' = line_work_day \cup {[work_day_id |-> d, line_id |-> c.args.line_id]}
         /\ UNCHANGED <<worker_work_day, owner_default_day>>
      \/ /\ c.args.create = "worker_work_day"
         /\ worker_work_day' = worker_work_day \cup
              {[work_day_id |-> d, line_work_day_id |-> c.args.line_work_day_id, line_id |-> c.line_id,
                worker_id |-> c.args.worker_id, role_id |-> c.args.role_id]}
         /\ UNCHANGED <<line_work_day, owner_default_day>>
      \/ /\ c.args.create = "default_day"
         /\ owner_default_day' =
              owner_default_day \cup {[work_default_day_id |-> d, owner |-> c.args.owner]}
         /\ UNCHANGED <<line_work_day, worker_work_day>>

Link(p) ==
  /\ At(p, "link")
  /\ IF ParentsExist(call[p]) THEN InsertLink(call[p]) ELSE UNCHANGED links
  /\ Return(p)
  /\ UNCHANGED <<owners, days>>

LoseConnection(p) ==
  /\ ~At(p, "lost")
  /\ call' = [call EXCEPT ![p] = Lost]
  /\ UNCHANGED <<owners, days, links>>

-----------------------------------------------------------------------------
(* Deletions, with the cascades of the foreign keys. *)

\* What is left of the links when these line days go.
WithoutLineDays(gone) ==
  /\ line_work_day' = line_work_day \ gone
  /\ worker_work_day' =
       {w \in worker_work_day : ~\E l \in gone : l.work_day_id = w.line_work_day_id}

delete_worker(w) ==
  /\ w \in worker
  /\ worker' = worker \ {w}
  /\ worker_work_day' = {x \in worker_work_day : x.worker_id # w}
  /\ owner_default_day' = {o \in owner_default_day : o.owner # w}
  /\ UNCHANGED <<line, role, days, line_work_day, call>>

\* Refused as long as the line has a default day: that key does not cascade.
delete_line(l) ==
  /\ l \in line
  /\ ~\E o \in owner_default_day : o.owner = l
  /\ line' = line \ {l}
  /\ WithoutLineDays({x \in line_work_day : x.line_id = l})
  /\ UNCHANGED <<worker, role, days, owner_default_day, call>>

\* Refused as long as a line needs the role.
delete_role(r) ==
  /\ r \in role
  /\ ~\E l \in line : <<l, r>> \in LineRole
  /\ role' = role \ {r}
  /\ worker_work_day' = {x \in worker_work_day : x.role_id # r}
  /\ UNCHANGED <<line, worker, days, line_work_day, owner_default_day, call>>

delete_line_work_day(l) ==
  /\ work_day' = {v \in work_day : v.id # l.work_day_id}
  /\ WithoutLineDays({l})
  /\ UNCHANGED <<owners, work_default_day, last_id, owner_default_day, call>>

-----------------------------------------------------------------------------
Step(p) ==
  \/ Begin(p) \/ SelectOwner(p) \/ SelectLineDay(p) \/ Check(p)
  \/ InsertDay(p) \/ InsertDefaultDay(p) \/ Link(p)
  \/ LoseConnection(p)

Delete ==
  \/ \E w \in Worker : delete_worker(w)
  \/ \E l \in Line : delete_line(l)
  \/ \E r \in Role : delete_role(r)
  \/ \E l \in line_work_day : delete_line_work_day(l)

Next == Delete \/ \E p \in Session : Step(p)

Spec == Init /\ [][Next]_vars

-----------------------------------------------------------------------------
TypeOK ==
  /\ line \subseteq Line /\ worker \subseteq Worker /\ role \subseteq Role
  /\ work_day \subseteq [id: DayId, date: Date \cup {NULL}]
  /\ work_default_day \subseteq [work_day_id: DayId, day_number: 0 .. 6]
  /\ line_work_day \subseteq [work_day_id: DayId, line_id: Line]
  /\ worker_work_day \subseteq
       [work_day_id: DayId, line_work_day_id: DayId, line_id: Line, worker_id: Worker, role_id: Role]
  /\ owner_default_day \subseteq [work_default_day_id: DayId, owner: Line \cup Worker]
  /\ last_id \in 0 .. MaxDay
  /\ \A p \in Session : call[p] \in {Idle, Lost} \cup InCall

\* A call never adds a day to one that was there when it began: as nothing holds
\* the tables between the check and the link, there may be one for every session
\* that makes the call, and exactly one if they take turns or only one does.
OneDayPerCaller ==
  \A args \in UNION {Calls[p] : p \in Session} :
    Cardinality(Existing(args)) <= Cardinality({p \in Session : args \in Calls[p]})

\* How a day is linked: as a line's day, a worker's day or an owner's default day.
LinksTo(d) ==
  {l \in line_work_day : l.work_day_id = d} \cup {w \in worker_work_day : w.work_day_id = d}
    \cup {o \in owner_default_day : o.work_default_day_id = d}

\* No day is linked twice, a worker's day has the date of the line's day, and
\* default days and planned ones are never taken for each other, whatever other
\* sessions insert between LAST_INSERT_ID and the link.
DaysAgree ==
  /\ \A d \in DayId : Cardinality(LinksTo(d)) <= 1
  /\ \A w \in worker_work_day : \E date \in Date : HasDate(w.work_day_id, date) /\ HasDate(w.line_work_day_id, date)
  /\ \A l \in line_work_day : ~HasDate(l.work_day_id, NULL)
  /\ \A o \in owner_default_day : HasDate(o.work_default_day_id, NULL)

Holds(p, d) == call[p].next \in {"default_day", "link"} /\ call[p].id = d

\* The days that nothing leads to any more.
Orphans ==
  {v.id : v \in {x \in work_day : LinksTo(x.id) = {} /\ ~\E p \in Session : Holds(p, x.id)}}

\* A day is left without a link by a deletion, by a lost connection, or when
\* what the call links it to was deleted on the way; never by an error of the
\* procedures themselves ("to avoid orphan data", 45).
NoLostDays ==
  [][\/ Orphans' \subseteq Orphans
     \/ owners' # owners
     \/ ~(line_work_day \subseteq line_work_day')
     \/ \E p \in Session : call'[p] = Lost /\ call[p] # Lost
     \/ \E p \in Session : At(p, "link") /\ ~ParentsExist(call[p])]_vars
=============================================================================
