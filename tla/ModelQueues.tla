---------------------------- MODULE ModelQueues ----------------------------
(***************************************************************************)
(* Queues of model objects: select_roles, refresh_roles, update_roles,     *)
(* delete_roles and their namesakes for workers and lines.  One client     *)
(* passes over its queue, one request a turn, while another session        *)
(* changes the table and requests fail.                                    *)
(***************************************************************************)
EXTENDS Queue

CONSTANTS
  Id,       \* primary keys
  Name,     \* what the other columns of a row may hold
  Kind,     \* which tables: a subset of {"role", "worker", "line"}
  NoRow,
  MaxSize   \* bound: passes start only while the size of the queue is at most this

ASSUME ModelQueuesAssumption ==
  /\ Value = Id \cup {NULL}
  /\ NULL \notin Id
  /\ NoRow \notin Name /\ Name # {}
  /\ Kind \subseteq {"role", "worker", "line"}

VARIABLES
  kind,    \* the table at hand
  table,   \* its rows, by id
  object,  \* the object of each id: what its row was, and is_changed
  pass,    \* what the client runs, with i and the object it has popped
  foreign  \* ids whose row the other session has changed since the object read
           \* it; a history variable

vars == <<kind, table, object, pass, foreign, queue_vars>>

Object == [name : Name, is_changed : BOOLEAN]

\* op is "none" while the client has no queue and "idle" between passes; step tells
\* whether a turn is to pop its object or to send its request.
Pass == [op : {"none", "idle", "select", "refresh", "update", "delete"}, i : Nat,
         step : {"pop", "request"}, hand : Value, rest : SUBSET Id]

At(op, step) == pass.op = op /\ pass.step = step
NoPass(op) == [op |-> op, i |-> 0, step |-> "pop", hand |-> NULL, rest |-> {}]

Fresh(id) == [name |-> table[id], is_changed |-> FALSE]
Forgotten == [name |-> CHOOSE n \in Name : TRUE, is_changed |-> FALSE]

Init ==
  /\ kind \in Kind
  /\ table \in [Id -> Name \cup {NoRow}]
  /\ kind # "worker" => \A i, j \in Id : table[i] = table[j] /\ table[i] # NoRow => i = j
  /\ object = [id \in Id |-> Forgotten]
  /\ pass = NoPass("none")
  /\ foreign = {}
  /\ QueueInit

-----------------------------------------------------------------------------
(* Making and freeing the queue.                                           *)

\* select_roles copies is_changed from a local it has not set: it may be anything, the
\* same for all the roles.
ReadChanged == IF kind = "role" THEN BOOLEAN ELSE {FALSE}

\* The rows of a role (select_workers_by_role), or all the rows there are.
Selections ==
  LET rows == {id \in Id : table[id] # NoRow}
  IN IF kind = "worker" THEN SUBSET rows ELSE {rows}

\* A request that fails leaves the client without queue.
SelectRows ==
  /\ pass.op = "none"
  /\ \E rows \in Selections, changed \in ReadChanged :
       /\ pass' = [NoPass("select") EXCEPT !.rest = rows]
       /\ object' = [id \in Id |->
                       IF id \in rows THEN [name |-> table[id], is_changed |-> changed]
                       ELSE object[id]]
  /\ foreign' = {}
  /\ create_queue
  /\ UNCHANGED <<kind, table>>

\* Rows come in any order.
FetchRow ==
  /\ pass.op = "select"
  /\ \E id \in pass.rest :
       /\ push_queue_element(id)
       /\ pass' = [pass EXCEPT !.rest = @ \ {id}]
  /\ UNCHANGED <<kind, table, object, foreign>>

EndSelect ==
  /\ pass.op = "select" /\ pass.rest = {}
  /\ pass' = NoPass("idle")
  /\ UNCHANGED <<kind, table, object, foreign, queue_vars>>

FreeQueue ==
  /\ pass.op = "idle"
  /\ free_queue
  /\ pass' = NoPass("none")
  /\ object' = [id \in Id |-> Forgotten]
  /\ UNCHANGED <<kind, table, foreign>>

\* Variant: the index of the last element for the number of elements.
BeginShort ==
  /\ pass.op = "idle"
  /\ \/ \E op \in {"refresh", "update"} :
          /\ size \in 1..MaxSize
          /\ pass' = [pass EXCEPT !.op = op, !.i = size - 1]
     \/ pass' = [pass EXCEPT !.op = "delete"]
  /\ UNCHANGED <<kind, table, object, foreign, queue_vars>>

-----------------------------------------------------------------------------
(* Passes: size turns, whatever the queue holds.                           *)

Begin ==
  /\ pass.op = "idle"
  /\ \/ \E op \in {"refresh", "update"} :
          /\ size \in 1..MaxSize
          /\ pass' = [pass EXCEPT !.op = op, !.i = size]
     \/ pass' = [pass EXCEPT !.op = "delete"]
  /\ UNCHANGED <<kind, table, object, foreign, queue_vars>>

\* Variant: the loop goes on while the queue has a size.
PopWhileSized ==
  /\ pass.op \in {"refresh", "update"} /\ pass.step = "pop" /\ pass.i > 0
  /\ pop_queue_element
  /\ pass' = [pass EXCEPT !.i = size, !.step = "request", !.hand = popped]
  /\ UNCHANGED <<kind, table, object, foreign>>

\* Variant: the first element is read and stays in the queue.
PeekObject ==
  /\ pass.op \in {"refresh", "update"} /\ pass.step = "pop" /\ pass.i > 0
  /\ pass' = [pass EXCEPT !.i = @ - 1, !.step = "request", !.hand = popped]
  /\ UNCHANGED <<kind, table, object, foreign, queue_vars>>

PopObject ==
  /\ pass.op \in {"refresh", "update"} /\ pass.step = "pop" /\ pass.i > 0
  /\ pop_queue_element
  /\ pass' = [pass EXCEPT !.i = @ - 1, !.step = "request", !.hand = popped]
  /\ UNCHANGED <<kind, table, object, foreign>>

EndPass ==
  /\ pass.op \in {"refresh", "update"} /\ pass.step = "pop" /\ pass.i = 0
  /\ pass' = NoPass("idle")
  /\ UNCHANGED <<kind, table, object, foreign, queue_vars>>

\* The turn is over, its object no longer in the hand.
EndTurn == pass' = [pass EXCEPT !.step = "pop", !.hand = NULL]

\* What free_X does to the object in the hand; nothing to NULL.
FreeHand == object' = [id \in Id |-> IF id = pass.hand THEN Forgotten ELSE object[id]]

\* Variant: the result of select_X_by_id is used without asking whether it is NULL.
RefreshUnchecked ==
  /\ At("refresh", "request")
  /\ pass.hand # NULL
  /\ object' = [object EXCEPT ![pass.hand] = Fresh(pass.hand)]
  /\ foreign' = foreign \ {pass.hand}
  /\ push_queue_element(pass.hand)
  /\ EndTurn
  /\ UNCHANGED <<kind, table>>

\* refresh_X(conn, &x): a new object in place of the old one.
Refresh ==
  /\ At("refresh", "request")
  /\ pass.hand # NULL /\ table[pass.hand] # NoRow
  /\ object' = [object EXCEPT ![pass.hand] = Fresh(pass.hand)]
  /\ foreign' = foreign \ {pass.hand}
  /\ push_queue_element(pass.hand)
  /\ EndTurn
  /\ UNCHANGED <<kind, table>>

\* Variant: the object is pushed whether refresh_X has found its row or not, as
\* update_X does.
RefreshFailsKept ==
  /\ At("refresh", "request")
  /\ push_queue_element(NULL)
  /\ FreeHand
  /\ EndTurn
  /\ UNCHANGED <<kind, table, foreign>>

\* The row is gone, the request fails or the element is NULL: refresh_X returns NULL
\* and the object is freed.
RefreshFails ==
  /\ At("refresh", "request")
  /\ FreeHand
  /\ EndTurn
  /\ UNCHANGED <<kind, table, foreign, queue_vars>>

\* Names are unique for roles and lines.
Refused(id) ==
  kind # "worker" /\ \E other \in Id \ {id} : table[other] = object[id].name

\* The effect of the UPDATE: none on a row that is gone.
UpdatedRow(id) ==
  [table EXCEPT ![id] = IF @ = NoRow THEN NoRow ELSE object[id].name]

\* update_role asks for affected rows, which counts rows that are really different,
\* and leaves is_changed when there is none; the other two do not ask.
StaysChanged(id) ==
  kind = "role" /\ object[id].is_changed /\ UpdatedRow(id) = table

\* update_X(conn, x) with whatever result, after which x is pushed back.
Update ==
  /\ At("update", "request")
  /\ LET id == pass.hand
     IN \/ id = NULL /\ UNCHANGED <<table, object, foreign>>
        \/ /\ id # NULL /\ ~Refused(id)
           /\ table' = UpdatedRow(id)
           /\ object' = [object EXCEPT ![id].is_changed = StaysChanged(id)]
           /\ foreign' = IF table'[id] = NoRow THEN foreign ELSE foreign \ {id}
  /\ push_queue_element(pass.hand)
  /\ EndTurn
  /\ UNCHANGED kind

\* Variant: an object is clean once its UPDATE has been sent.
UpdateFailsClean ==
  /\ At("update", "request")
  /\ pass.hand # NULL
  /\ \/ UNCHANGED table
     \/ ~Refused(pass.hand) /\ table' = UpdatedRow(pass.hand)
  /\ object' = [object EXCEPT ![pass.hand].is_changed = FALSE]
  /\ push_queue_element(pass.hand)
  /\ EndTurn
  /\ UNCHANGED <<kind, foreign>>

\* The request fails, before the server has run the statement or after.
UpdateFails ==
  /\ At("update", "request")
  /\ pass.hand # NULL
  /\ \/ UNCHANGED table
     \/ ~Refused(pass.hand) /\ table' = UpdatedRow(pass.hand)
  /\ push_queue_element(pass.hand)
  /\ EndTurn
  /\ UNCHANGED <<kind, object, foreign>>

\* delete_X takes objects out until it gets NULL.
PopToDelete ==
  /\ At("delete", "pop")
  /\ pop_queue_element
  /\ pass' = IF popped = NULL THEN NoPass("idle")
             ELSE [pass EXCEPT !.step = "request", !.hand = popped]
  /\ UNCHANGED <<kind, table, object, foreign>>

\* The row goes, or stays (a key refuses, the request fails); the object is freed.
Delete ==
  /\ At("delete", "request")
  /\ \/ table' = [table EXCEPT ![pass.hand] = NoRow]
     \/ UNCHANGED table
  /\ FreeHand
  /\ EndTurn
  /\ UNCHANGED <<kind, foreign, queue_vars>>

-----------------------------------------------------------------------------
(* The client between passes, and the other session.                       *)

\* set_X_name on an object found with get_queue_element.
SetName ==
  /\ pass.op = "idle"
  /\ \E i \in DOMAIN chain, n \in Name :
       /\ Items[i] # NULL
       /\ object' = [object EXCEPT ![Items[i]] = [name |-> n, is_changed |-> TRUE]]
  /\ UNCHANGED <<kind, table, pass, foreign, queue_vars>>

\* Another session renames or deletes a row.
OtherSession ==
  /\ \E id \in Id, n \in Name \cup {NoRow} :
       /\ table[id] # NoRow /\ table[id] # n
       /\ kind # "worker" => \A other \in Id : n # NoRow => table[other] # n
       /\ table' = [table EXCEPT ![id] = n]
       /\ foreign' = foreign \cup {id}
  /\ UNCHANGED <<kind, object, pass, queue_vars>>

\* A step of the pass under way.
PassStep ==
  \/ FetchRow \/ EndSelect
  \/ PopObject \/ EndPass
  \/ Refresh \/ RefreshFails \/ Update \/ UpdateFails
  \/ PopToDelete \/ Delete

Next == SelectRows \/ FreeQueue \/ Begin \/ PassStep \/ SetName \/ OtherSession

\* The client runs what it has started; the other session may do nothing.
Spec == Init /\ [][Next]_vars /\ WF_vars(PassStep)

-----------------------------------------------------------------------------
(* Properties.                                                             *)

TypeOK ==
  /\ QueueTypeOK
  /\ kind \in Kind
  /\ table \in [Id -> Name \cup {NoRow}]
  /\ object \in [Id -> Object]
  /\ pass \in Pass
  /\ foreign \subseteq Id

\* The size, which only grows, is never below the number of elements: a pass of size
\* turns reaches every object.
SizeCoversQueue == Len(chain) <= size

\* The objects of the client: in the queue, in the hand, or still to be pushed.
Held == {Items[i] : i \in DOMAIN chain} \cup {pass.hand} \cup pass.rest

\* No object is in the queue twice, or in the queue and in the hand: none is freed
\* or updated twice in a turn.
OneElementPerObject ==
  /\ \A i, j \in DOMAIN chain : Items[i] = Items[j] => i = j
  /\ \A i \in DOMAIN chain : Items[i] = NULL \/ Items[i] \notin {pass.hand} \cup pass.rest

\* An update pushes the NULL it has popped off an empty queue, and an element of NULL
\* is the only element: delete_X, which stops at NULL, and the loops that would call a
\* predicate on it never find it among objects.
NullStandsAlone ==
  \A i \in DOMAIN chain : Items[i] = NULL => Len(chain) = 1 /\ pass.hand = NULL

\* Once a refresh has made its turns no object keeps changes of its own, however the
\* passes before have turned the queue around or emptied it.
RefreshReachesAll ==
  At("refresh", "pop") /\ pass.i = 0 =>
    \A id \in Held \ {NULL} : ~object[id].is_changed

\* Lost answers, refused statements and rows that are gone included, an object that is
\* not changed holds what its row holds, unless the other session has changed the row.
CleanIsCurrent ==
  \A id \in Held \ ({NULL} \cup foreign) :
    ~object[id].is_changed => object[id].name = table[id]

\* delete_X leaves no object in the queue.
DeleteEmpties == [][pass.op = "delete" /\ pass'.op = "idle" => chain' = <<>>]_vars

\* Every pass comes to its end.
EveryPassEnds == (pass.op \notin {"none", "idle"}) ~> (pass.op = "idle")
=============================================================================
