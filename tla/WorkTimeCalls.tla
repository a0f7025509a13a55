--------------------------- MODULE WorkTimeCalls ----------------------------
(***************************************************************************)
(* The calls of p_insert_work_time and p_remove_work_time on one work_day, *)
(* one SQL statement per step.  Nothing in the repository opens a          *)
(* transaction, so each statement commits by itself: other sessions see    *)
(* the rows between two statements of a call, and a call whose session     *)
(* dies leaves what its statements so far have done.                       *)
(*                                                                         *)
(* A row carries the primary key id here, because the split of             *)
(* p_remove_work_time finds its row again by id.  An id in use, or held by *)
(* a running call, is not given again (AUTO_INCREMENT never reuses one).   *)
(***************************************************************************)
EXTENDS WorkTime

CONSTANTS
  Session,                  \* the connections that call the procedures
  RowId,                    \* primary keys of work_time
  NoRow,                    \* v_work_time_id before a row is found
  RemovalRange              \* the <<start, end>> p_remove_work_time is called with

ASSUME RemovalRangeAssumption == RemovalRange \subseteq Time \X Time

ASSUME NoRowAssumption == NoRow \notin RowId

VARIABLES
  work_time,                \* the rows of the work_day
  call                      \* per session, the call it is in

vars == <<work_time, call>>

\* The rows the CHECK of table work_time admits.
Row == {r \in [id: RowId, start_time: Time, end_time: Time] : r.start_time < r.end_time}

Statement == {"idle",
              "prefix", "suffix", "delete", "insert",
              "rm_delete", "rm_trim_start", "rm_trim_end",
              "rm_select", "rm_update", "rm_insert"}

\* next is the statement to run; start and end are in_start_time and
\* in_end_time; id and v_end are v_work_time_id and v_end_time.
Call == [next: Statement, start: Time, end: Time, id: RowId \cup {NoRow}, v_end: Time]

\* A call of the range from s to e about to run its first statement.
Start(statement, s, e) ==
  [next |-> statement, start |-> s, end |-> e, id |-> NoRow, v_end |-> 0]

Idle == Start("idle", 0, 0)

Init == /\ work_time = {}
        /\ call = [p \in Session |-> Idle]

-----------------------------------------------------------------------------
At(p, statement) == call[p].next = statement

Goto(p, statement) == call' = [call EXCEPT ![p].next = statement]

Return(p) == call' = [call EXCEPT ![p] = Idle]

FreshId == {i \in RowId : /\ \A r \in work_time : r.id # i
                          /\ \A p \in Session : call[p].id # i}

\* Variant: work_time without its CHECK
InsertRowUnchecked(s, e) ==
  \E i \in FreshId :
    work_time' = work_time \cup {[id |-> i, start_time |-> s, end_time |-> e]}

\* INSERT INTO work_time: fails on the CHECK, else commits a new row.
InsertRow(s, e) ==
  IF s < e
  THEN \E i \in FreshId :
         work_time' = work_time \cup {[id |-> i, start_time |-> s, end_time |-> e]}
  ELSE UNCHANGED work_time

-----------------------------------------------------------------------------
(* p_insert_work_time; an inverted range returns before any statement *)

CallInsert(p) ==
  /\ At(p, "idle")
  /\ \E s, e \in Time :
       /\ s <= e
       /\ call' = [call EXCEPT ![p] = Start("prefix", s, e)]
  /\ UNCHANGED work_time

InsertPrefix(p) ==
  /\ At(p, "prefix")
  /\ call' = [call EXCEPT ![p].start = PrefixStart(work_time, @), ![p].next = "suffix"]
  /\ UNCHANGED work_time

InsertSuffix(p) ==
  /\ At(p, "suffix")
  /\ call' = [call EXCEPT ![p].end = SuffixEnd(work_time, @), ![p].next = "delete"]
  /\ UNCHANGED work_time

\* Variant: the rows that reach the end of the range stay
InsertDeleteShort(p) ==
  /\ At(p, "delete")
  /\ work_time' = DeleteInside(work_time, call[p].start, call[p].end - 1)
  /\ Goto(p, "insert")

InsertDelete(p) ==
  /\ At(p, "delete")
  /\ work_time' = DeleteInside(work_time, call[p].start, call[p].end)
  /\ Goto(p, "insert")

InsertInsert(p) ==
  /\ At(p, "insert")
  /\ InsertRow(call[p].start, call[p].end)
  /\ Return(p)

-----------------------------------------------------------------------------
(* p_remove_work_time, on a work_day that is no line's *)

CallRemove(p) ==
  /\ At(p, "idle")
  /\ \E range \in RemovalRange :
       call' = [call EXCEPT ![p] = Start("rm_delete", range[1], range[2])]
  /\ UNCHANGED work_time

\* Variant: DELETE WHERE start_time BETWEEN only
RemoveDeleteStarting(p) ==
  /\ At(p, "rm_delete")
  /\ work_time' = {r \in work_time : ~Between(r.start_time, call[p].start, call[p].end)}
  /\ Goto(p, "rm_trim_start")

RemoveDelete(p) ==
  /\ At(p, "rm_delete")
  /\ work_time' = DeleteInside(work_time, call[p].start, call[p].end)
  /\ Goto(p, "rm_trim_start")

RemoveTrimStart(p) ==
  /\ At(p, "rm_trim_start")
  /\ work_time' = TrimStart(work_time, call[p].start, call[p].end)
  /\ Goto(p, "rm_trim_end")

RemoveTrimEnd(p) ==
  /\ At(p, "rm_trim_end")
  /\ work_time' = TrimEnd(work_time, call[p].start, call[p].end)
  /\ Goto(p, "rm_select")

\* The call c once the row r is in its variables.
Found(c, r) == [next |-> "rm_update", start |-> c.start, end |-> c.end,
                id |-> r.id, v_end |-> r.end_time]

\* No row: the NOT FOUND handler ends the call.  Two rows: the SELECT fails.
RemoveSelect(p) ==
  /\ At(p, "rm_select")
  /\ LET hit == SplitRows(work_time, call[p].start, call[p].end)
     IN  IF \E r \in work_time : hit = {r}
         THEN \E r \in hit :
                call' = [call EXCEPT ![p] = Found(@, r)]
         ELSE Return(p)
  /\ UNCHANGED work_time

\* Variant: v_end_time is read after the UPDATE
RemoveUpdateFirst(p) ==
  /\ At(p, "rm_update")
  /\ work_time' = {IF r.id = call[p].id THEN [r EXCEPT !.end_time = call[p].start] ELSE r
                     : r \in work_time}
  /\ call' = [call EXCEPT ![p].next = "rm_insert", ![p].v_end = call[p].start]

\* UPDATE ... WHERE work_time.id = v_work_time_id
RemoveUpdate(p) ==
  /\ At(p, "rm_update")
  /\ IF \E r \in work_time : r.id = call[p].id /\ UpdateRejected(r, call[p].start)
     THEN UNCHANGED work_time /\ Return(p)
     ELSE /\ work_time' = {IF r.id = call[p].id THEN [r EXCEPT !.end_time = call[p].start] ELSE r
                             : r \in work_time}
          /\ Goto(p, "rm_insert")

RemoveInsert(p) ==
  /\ At(p, "rm_insert")
  /\ InsertRow(call[p].end, call[p].v_end)
  /\ Return(p)

-----------------------------------------------------------------------------
\* The session's connection is lost, or the server stops, between two statements.
Abort(p) ==
  /\ ~At(p, "idle")
  /\ Return(p)
  /\ UNCHANGED work_time

Insert(p) == \/ CallInsert(p)   \/ InsertPrefix(p) \/ InsertSuffix(p)
             \/ InsertDelete(p) \/ InsertInsert(p)

Remove(p) == \/ CallRemove(p)    \/ RemoveDelete(p) \/ RemoveTrimStart(p) \/ RemoveTrimEnd(p)
             \/ RemoveSelect(p)  \/ RemoveUpdate(p) \/ RemoveInsert(p)

Next == \E p \in Session : Insert(p) \/ Remove(p)

NextOrAbort == Next \/ \E p \in Session : Abort(p)

Spec == Init /\ [][Next]_vars

SpecWithAborts == Init /\ [][NextOrAbort]_vars

-----------------------------------------------------------------------------
TypeOK == /\ work_time \subseteq Row
          /\ call \in [Session -> Call]

\* The table "never contains multiple overlapping time ranges for the same
\* work_day" (procedures.sql, 645-646): not after a call, not between two
\* statements of a call, and not after a call that was cut short.
NonOverlapping == ~Overlapping(work_time)

-----------------------------------------------------------------------------
(* Run by one session, a call that is not cut short has the effect of the   *)
(* whole procedure in WorkDay at the instant of its first writing statement.*)

IntervalOf(r) == [start_time |-> r.start_time, end_time |-> r.end_time]

Rows == {IntervalOf(r) : r \in work_time}

NewInterval(s, e) == {i \in {[start_time |-> s, end_time |-> e]} : s < e}

\* The rows the call c leaves when its remaining statements have run.
Outcome(c) ==
  CASE c.next = "insert"        -> Rows \cup NewInterval(c.start, c.end)
    [] c.next = "rm_trim_start" -> Split(TrimEnd(TrimStart(Rows, c.start, c.end), c.start, c.end),
                                         c.start, c.end)
    [] c.next = "rm_trim_end"   -> Split(TrimEnd(Rows, c.start, c.end), c.start, c.end)
    [] c.next \in {"rm_select", "rm_update"} -> Split(Rows, c.start, c.end)
    [] c.next = "rm_insert"     -> Rows \cup NewInterval(c.end, c.v_end)
    [] OTHER                    -> Rows

Settled == IF \A p \in Session : At(p, "idle") THEN Rows
           ELSE Outcome(call[CHOOSE p \in Session : ~At(p, "idle")])

WholeCalls == INSTANCE WorkDay WITH intervals <- Settled

WholeCallsSpec == /\ WholeCalls!DayInit
                  /\ [][WholeCalls!DayNext \/ \E p \in Session : Abort(p)]_Settled

\* Whichever statement is the last one to run, only planned time of the range
\* of the call, grown as far as it has merged, has changed; a split in progress
\* has the part after the range out of the rows as well, and nothing else
\* (procedures.sql, 792-800 and 927-936).
Scope(c) == Slots(c.start, c.end)
              \cup {k \in Slots(c.end, c.v_end) : c.next \in {"rm_update", "rm_insert"}}

DamageContained ==
  [][\A p \in Session : call'[p] # call[p] =>
       Covered(work_time') \ Scope(call[p]) = Covered(work_time) \ Scope(call[p])]_vars
=============================================================================
