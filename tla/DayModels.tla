----------------------------- MODULE DayModels -----------------------------
(***************************************************************************)
(* The objects of line_work_day_model.c and worker_work_day_model.c: a     *)
(* client keeps one LineWorkDayModel and one WorkerWorkDayModel, which may *)
(* include a LineWorkDayModel of its own, and each may include the list of *)
(* its day's times.  Requests fail, before the server has run their        *)
(* statement or after, and other sessions change the tables between any    *)
(* two of them.  The times of a day are the set of its planned slots,      *)
(* which is what the rows come to (DayCoverage).                           *)
(***************************************************************************)
EXTENDS Naturals, FiniteSets

CONSTANTS
  Slot,    \* the slots of time work may be planned in
  MaxDay,  \* bound: how many line days are created
  NULL,    \* the pointer
  Freed    \* a pointer to memory that has been freed

\* One line, one worker, one date, one role.
DayId == 1..MaxDay
Kind == {"line", "worker"}

\* An object has an id, from which the ids of the other rows follow, and pointers.
LineWorkDayModel ==
  [id : DayId, line : {NULL, "object"}, work_time_list : {NULL} \cup SUBSET Slot]
WorkerWorkDayModel ==
  [id : DayId, worker : {NULL, "object"}, line : {NULL, "object"},
   lwd : {NULL, Freed} \cup LineWorkDayModel, work_time_list : {NULL} \cup SUBSET Slot]

ASSUME DayModelsAssumption ==
  /\ MaxDay \in Nat
  /\ NULL # Freed
  /\ \A p \in {NULL, Freed} :
       /\ p # "object" /\ \A slots \in SUBSET Slot : p # slots
       /\ p \notin LineWorkDayModel /\ p \notin WorkerWorkDayModel

VARIABLES
  owners,       \* which of the rows of line and worker there are
  work_days,    \* the work_days of the line that there are
  line_days,    \* those with a line_work_day
  worker_days,  \* the line days with a worker_work_day
  planned,      \* the work_time of the line's and of the worker's work_day, by the
                \* line's; the worker's work_day is never deleted
  last,         \* the last line day created
  lwd, wwd,     \* the objects the client keeps
  call,         \* the next request of the function that runs, and its object
  damage,       \* memory has been freed twice
  handed,       \* delete_line_work_day has been given the object inside wwd; history
  outdated      \* whose list was read before its day was changed; history

tables == <<owners, work_days, line_days, worker_days, planned, last>>
vars == <<tables, lwd, wwd, call, damage, handed, outdated>>

\* The three objects with a list: the client's two and the one inside wwd.
Holder == {"lwd", "nested", "wwd"}
LineHolder == {"lwd", "nested"}

Object(h) ==
  CASE h = "lwd" -> lwd
    [] h = "wwd" -> wwd
    [] h = "nested" -> IF wwd = NULL THEN NULL ELSE wwd.lwd

InHand(h) == Object(h) \notin {NULL, Freed}
KindOf(h) == IF h = "wwd" THEN "worker" ELSE "line"

\* The client's variable, or wwd->lwd, is o from now on.
Becomes(h, o) ==
  CASE h = "lwd" -> lwd' = o /\ UNCHANGED wwd
    [] h = "wwd" -> wwd' = o /\ UNCHANGED lwd
    [] h = "nested" -> wwd' = [wwd EXCEPT !.lwd = o] /\ UNCHANGED lwd

Idle == [next |-> "idle", of |-> "lwd"]
At(next) == call.next = next
Continue(next, h) == call' = [next |-> next, of |-> h]
Return == call' = Idle

Outcome == {"ok", "fails", "lost"}
Runs(outcome) == outcome # "fails"

\* Holders whose day another call has changed.
Changed == {h \in Holder : InHand(h) /\ planned'[KindOf(h)][Object(h).id] # planned[KindOf(h)][Object(h).id]}

Init ==
  /\ owners = Kind
  /\ work_days = {} /\ line_days = {} /\ worker_days = {}
  /\ planned = [k \in Kind |-> [d \in DayId |-> {}]]
  /\ last = 0
  /\ lwd = NULL /\ wwd = NULL
  /\ call = Idle /\ damage = FALSE /\ handed = FALSE /\ outdated = {}

-----------------------------------------------------------------------------
(* Making and freeing objects.                                             *)

NewLineWorkDay(d) == [id |-> d, line |-> NULL, work_time_list |-> NULL]
NewWorkerWorkDay(d) ==
  [id |-> d, worker |-> NULL, line |-> NULL, lwd |-> NULL, work_time_list |-> NULL]

\* free_line_work_day frees what the fields point to and the object itself.
FreesTwice(o) ==
  \/ o = Freed
  \/ o # NULL /\ (o.line = Freed \/ o.work_time_list = Freed)

\* The first request of create_line_work_day_model.
SelectLine ==
  /\ At("idle") /\ lwd = NULL
  /\ "line" \in owners
  /\ Continue("p_create_line_work_day", "lwd")
  /\ UNCHANGED <<tables, lwd, wwd, damage, handed, outdated>>

\* The procedure refuses a second day of the line's.
CreateLineWorkDay ==
  /\ At("p_create_line_work_day")
  /\ \E outcome \in Outcome :
       IF Runs(outcome) /\ "line" \in owners /\ line_days = {} /\ last < MaxDay
       THEN /\ last' = last + 1
            /\ work_days' = work_days \cup {last'} /\ line_days' = line_days \cup {last'}
            /\ IF outcome = "ok" THEN Continue("select_line_work_day", "lwd") ELSE Return
       ELSE Return /\ UNCHANGED <<last, work_days, line_days>>
  /\ UNCHANGED <<owners, worker_days, planned, lwd, wwd, damage, handed, outdated>>

\* select_line_work_day_by_line_id_date, called by create_line_work_day_model or by the
\* client; select_line_work_day_by_id does the same.
SelectLineWorkDay ==
  /\ lwd = NULL
  /\ \/ (At("idle") \/ At("select_line_work_day")) /\ \E d \in line_days : lwd' = NewLineWorkDay(d)
     \/ At("select_line_work_day") /\ UNCHANGED lwd
  /\ Return
  /\ outdated' = outdated \ {"lwd"}
  /\ UNCHANGED <<tables, wwd, damage, handed>>

SelectWorkerWorkDay ==
  /\ At("idle") /\ wwd = NULL
  /\ \E d \in worker_days : wwd' = NewWorkerWorkDay(d)
  /\ outdated' = outdated \ {"wwd", "nested"}
  /\ UNCHANGED <<tables, lwd, call, damage, handed>>

free_line_work_day ==
  /\ At("idle") /\ lwd # NULL
  /\ damage' = (damage \/ FreesTwice(lwd))
  /\ lwd' = NULL
  /\ UNCHANGED <<tables, wwd, call, handed, outdated>>

free_worker_work_day ==
  /\ At("idle") /\ wwd # NULL
  /\ damage' = (damage \/ FreesTwice(wwd.lwd)
                  \/ Freed \in {wwd.line, wwd.worker, wwd.work_time_list})
  /\ wwd' = NULL
  /\ UNCHANGED <<tables, lwd, call, handed, outdated>>

-----------------------------------------------------------------------------
(* Including.                                                              *)

\* Variant: the pointer to the freed list is kept when the select fails.
ListKept(h, outcome) ==
  /\ damage' = (damage \/ Object(h).work_time_list = Freed)
  /\ Becomes(h, [Object(h) EXCEPT !.work_time_list =
                   IF outcome = "ok" THEN planned[KindOf(h)][Object(h).id]
                   ELSE IF @ = NULL THEN NULL ELSE Freed])
  /\ outdated' = outdated \ {h}

\* The old list is freed; a select that fails leaves none.
ListIncluded(h, outcome) ==
  /\ damage' = (damage \/ Object(h).work_time_list = Freed)
  /\ Becomes(h, [Object(h) EXCEPT !.work_time_list =
                   IF outcome = "ok" THEN planned[KindOf(h)][Object(h).id] ELSE NULL])
  /\ outdated' = outdated \ {h}

\* include_line_work_day_work_time_list and include_worker_work_line_work_time_list, called
\* by the client or at the end of a function that changes or refreshes the day.
IncludeList ==
  /\ \E h \in Holder, outcome \in Outcome :
       /\ At("idle") \/ call = [next |-> "include_list", of |-> h]
       /\ InHand(h)
       /\ ListIncluded(h, outcome)
  /\ Return
  /\ UNCHANGED <<tables, handed>>

\* The line or the worker is read anew.
OwnerIncluded(o, field, owner, outcome) ==
  [o EXCEPT ![field] = IF outcome = "ok" /\ owner \in owners THEN "object" ELSE NULL]

\* include_line_work_day_line, include_worker_work_day_line, include_worker_work_day_worker
IncludeOwner ==
  /\ At("idle")
  /\ \E h \in Holder, outcome \in Outcome, owner \in Kind :
       /\ InHand(h) /\ (owner = "worker" => h = "wwd")
       /\ damage' = (damage \/ Object(h)[owner] = Freed)
       /\ Becomes(h, OwnerIncluded(Object(h), owner, owner, outcome))
  /\ UNCHANGED <<tables, call, handed, outdated>>

\* include_worker_work_day_line_work_day frees the object inside and selects another.
IncludeLineWorkDay ==
  /\ At("idle") /\ wwd # NULL
  /\ damage' = (damage \/ FreesTwice(wwd.lwd))
  /\ \E outcome \in Outcome :
       wwd' = [wwd EXCEPT !.lwd =
                 IF outcome = "ok" /\ wwd.id \in line_days THEN NewLineWorkDay(wwd.id) ELSE NULL]
  /\ outdated' = outdated \ {"nested"}
  /\ UNCHANGED <<tables, lwd, call, handed>>

\* refresh_line_work_day includes the line anew if there was one, then the list if there
\* was one; with a list alone it is IncludeList.
refresh_line_work_day ==
  /\ At("idle")
  /\ \E h \in LineHolder, outcome \in Outcome :
       /\ InHand(h) /\ Object(h).line # NULL
       /\ damage' = (damage \/ Object(h).line = Freed)
       /\ Becomes(h, OwnerIncluded(Object(h), "line", "line", outcome))
       /\ IF Object(h).work_time_list # NULL THEN Continue("include_list", h) ELSE UNCHANGED call
  /\ UNCHANGED <<tables, handed, outdated>>

-----------------------------------------------------------------------------
(* Changing days.  The first request changes, the second reads the list.   *)

\* Variant: the function answers without the second request.
NotIncluded(h, outcome) ==
  /\ outdated' = (outdated \cup Changed) \ (IF outcome = "ok" THEN {h} ELSE {})
  /\ UNCHANGED call

\* When the first request is reported as failed the list is left as it was.
ThenInclude(h, outcome) ==
  IF outcome = "ok"
  THEN Continue("include_list", h) /\ outdated' = (outdated \cup Changed) \ {h}
  ELSE UNCHANGED call /\ outdated' = outdated \cup Changed

\* p_insert_work_time refuses a work_day that is gone.
add_line_work_day_work_time ==
  /\ At("idle")
  /\ \E h \in LineHolder, time \in SUBSET Slot \ {{}}, outcome \in Outcome :
       /\ InHand(h) /\ Runs(outcome) /\ Object(h).id \in work_days
       /\ planned' = [planned EXCEPT !["line"][Object(h).id] = @ \cup time]
       /\ ThenInclude(h, outcome)
  /\ UNCHANGED <<owners, work_days, line_days, worker_days, last, lwd, wwd, damage, handed>>

\* Variant: the line's day is cut first; an error in between leaves the worker's as it was.
RemoveLineFirst ==
  /\ At("idle")
  /\ \E h \in LineHolder, time \in SUBSET Slot \ {{}}, outcome \in Outcome, half \in BOOLEAN :
       LET d == Object(h).id
           worker == IF d \in worker_days /\ ~half THEN planned["worker"][d] \ time
                     ELSE planned["worker"][d]
       IN /\ InHand(h) /\ Runs(outcome) /\ d \in line_days
          /\ half => outcome = "lost"
          /\ planned' = [planned EXCEPT !["worker"][d] = worker, !["line"][d] = @ \ time]
          /\ ThenInclude(h, outcome)
  /\ UNCHANGED <<owners, work_days, line_days, worker_days, last, lwd, wwd, damage, handed>>

\* p_remove_line_work_day_work_time refuses a day without line_work_day, cuts the workers'
\* days and then the line's; an error in between leaves the line's as it was.
remove_line_work_day_work_time ==
  /\ At("idle")
  /\ \E h \in LineHolder, time \in SUBSET Slot \ {{}}, outcome \in Outcome, half \in BOOLEAN :
       LET d == Object(h).id
           worker == IF d \in worker_days THEN planned["worker"][d] \ time
                     ELSE planned["worker"][d]
       IN /\ InHand(h) /\ Runs(outcome) /\ d \in line_days
          /\ half => outcome = "lost"
          /\ planned' = [planned EXCEPT !["worker"][d] = worker,
                                        !["line"][d] = IF half THEN @ ELSE @ \ time]
          /\ ThenInclude(h, outcome)
  /\ UNCHANGED <<owners, work_days, line_days, worker_days, last, lwd, wwd, damage, handed>>

\* p_remove_work_time asks nothing of a worker's day.
remove_worker_work_day_work_time ==
  /\ At("idle") /\ wwd # NULL
  /\ \E time \in SUBSET Slot \ {{}}, outcome \in Outcome :
       /\ Runs(outcome)
       /\ planned' = [planned EXCEPT !["worker"][wwd.id] = @ \ time]
       /\ ThenInclude("wwd", outcome)
  /\ UNCHANGED <<owners, work_days, line_days, worker_days, last, lwd, wwd, damage, handed>>

\* DELETE FROM work_day: the line_work_day, the worker_work_days and the line's times follow.
DayDeleted(d) ==
  /\ work_days' = work_days \ {d}
  /\ line_days' = line_days \ {d}
  /\ worker_days' = worker_days \ {d}
  /\ planned' = [planned EXCEPT !["line"][d] = {}]

\* The object is freed when the request has succeeded, wherever it was taken from.
delete_line_work_day ==
  /\ At("idle")
  /\ \E h \in LineHolder, outcome \in Outcome :
       /\ InHand(h) /\ Runs(outcome)
       /\ DayDeleted(Object(h).id)
       /\ IF outcome = "ok"
          THEN /\ damage' = (damage \/ FreesTwice(Object(h)))
               /\ Becomes(h, IF h = "lwd" THEN NULL ELSE Freed)
               /\ handed' = (handed \/ h = "nested")
          ELSE UNCHANGED <<lwd, wwd, damage, handed>>
       /\ outdated' = outdated \cup Changed
  /\ UNCHANGED <<owners, last, call>>

-----------------------------------------------------------------------------
\* Another session plans and frees, assigns the worker, and deletes days and owners.
OtherSession ==
  /\ \/ \E d \in line_days, slots \in SUBSET Slot :
          /\ planned' = [planned EXCEPT !["line"][d] = slots, !["worker"][d] = @ \cap slots]
          /\ UNCHANGED <<owners, work_days, line_days, worker_days>>
     \/ \E d \in worker_days :
          /\ \E slots \in SUBSET planned["line"][d] : planned' = [planned EXCEPT !["worker"][d] = slots]
          /\ UNCHANGED <<owners, work_days, line_days, worker_days>>
     \/ /\ "worker" \in owners
        /\ \E d \in line_days \ worker_days :
             /\ worker_days' = worker_days \cup {d}
             /\ planned' = [planned EXCEPT !["worker"][d] = {}]
        /\ UNCHANGED <<owners, work_days, line_days>>
     \/ \E d \in line_days : DayDeleted(d) /\ UNCHANGED owners
     \/ \E owner \in owners :
          /\ owners' = owners \ {owner}
          /\ line_days' = IF owner = "line" THEN {} ELSE line_days
          /\ worker_days' = {}
          /\ UNCHANGED <<work_days, planned>>
  /\ outdated' = outdated \cup Changed
  /\ UNCHANGED <<last, lwd, wwd, call, damage, handed>>

Client ==
  \/ SelectLine \/ CreateLineWorkDay \/ SelectLineWorkDay \/ SelectWorkerWorkDay
  \/ free_line_work_day \/ free_worker_work_day
  \/ IncludeList \/ IncludeOwner \/ IncludeLineWorkDay \/ refresh_line_work_day
  \/ add_line_work_day_work_time \/ remove_line_work_day_work_time
  \/ remove_worker_work_day_work_time \/ delete_line_work_day

\* Once memory is damaged nothing can be said of the program.
Next == ~damage /\ (Client \/ OtherSession)

Spec == Init /\ [][Next]_vars

-----------------------------------------------------------------------------
(* Properties.                                                             *)

TypeOK ==
  /\ owners \subseteq Kind
  /\ work_days \subseteq DayId /\ line_days \subseteq work_days /\ worker_days \subseteq line_days
  /\ planned \in [Kind -> [DayId -> SUBSET Slot]]
  /\ last \in 0..MaxDay
  /\ lwd \in {NULL} \cup LineWorkDayModel /\ wwd \in {NULL} \cup WorkerWorkDayModel
  /\ call \in [next : {"idle", "p_create_line_work_day", "select_line_work_day", "include_list"},
               of : Holder]
  /\ damage \in BOOLEAN /\ handed \in BOOLEAN
  /\ outdated \subseteq Holder

\* A list that a function has left in its object is what the rows of the day are, unless
\* another session, the client through another object, or a request whose failure was
\* reported has changed the day after.
ListsAreCurrent ==
  At("idle") =>
    \A h \in Holder \ outdated :
      InHand(h) => Object(h).work_time_list \in {NULL, Freed, planned[KindOf(h)][Object(h).id]}

\* Memory is freed once, failures of every request included, as long as the object inside
\* wwd is not given to delete_line_work_day, which leaves wwd with the freed pointer.
FreedOnce == ~handed => ~damage

\* A worker is planned for no time that the line's day has not, whatever the client does with
\* objects whose rows may be gone, between other sessions' changes, and wherever one of its
\* requests fails: one that has removed a line's time half-way has cut the worker's first.
WorkerTimesFit == \A d \in worker_days : planned["worker"][d] \subseteq planned["line"][d]
=============================================================================
