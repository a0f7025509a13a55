------------------------------- MODULE Models -------------------------------
(***************************************************************************)
(* The objects of worker_model.c, line_model.c and role_model.c: a client  *)
(* keeps one worker (or line), with the list of its roles, and one role,   *)
(* and sends a request for every change.  Requests fail, before the server *)
(* has run their statement or after, and other sessions change the tables  *)
(* between any two of them.  A call that changes nothing is no step.       *)
(***************************************************************************)
EXTENDS Naturals

CONSTANTS
  Kind,     \* which owners of roles: a subset of {"worker", "line"}
  MaxId,    \* bound: AUTO_INCREMENT of the owners and of the roles
  MaxLeaks  \* bound: deletions that fail

ASSUME ModelsAssumption == Kind \subseteq {"worker", "line"} /\ MaxId \in Nat /\ MaxLeaks \in Nat

VARIABLES
  kind,       \* the owner's table
  owners,     \* ids of the rows of worker or line
  roles,      \* ids of the rows of role
  links,      \* rows of worker_role or line_role: <<owner, role>>
  last,       \* AUTO_INCREMENT of both tables
  owner,      \* the WorkerModel or LineModel
  role,       \* the RoleModel
  call,       \* the request a refresh sends next, and whether add_worker_role or
              \* remove_worker_role waits for it
  results,    \* how many REQUESTF_RESULTs are allocated
  inserted,   \* rows inserted for either object under its name; history variable
  lost,       \* those of them whose answer was lost; history variable
  leaked,     \* results given up by failed deletions; history variable
  outdated    \* why the list of roles may differ from the rows; history variable

tables == <<kind, owners, roles, links, last>>
vars == <<tables, owner, role, call, results, inserted, lost, leaked, outdated>>

Id == 1..MaxId

\* The columns a row has beside its id matter only as far as is_changed goes.
Owner == [id : 0..MaxId, is_changed : BOOLEAN, roles : SUBSET Id, roles_included : BOOLEAN]
Role == [id : 0..MaxId, is_changed : BOOLEAN]

create_owner == [id |-> 0, is_changed |-> FALSE, roles |-> {}, roles_included |-> FALSE]
create_role == [id |-> 0, is_changed |-> FALSE]
Selected(id) == [create_owner EXCEPT !.id = id]

Idle == [next |-> "idle", waiting |-> FALSE]
At(next) == call.next = next

\* Several reasons may hold at once.
Reasons == {"other session", "failed request", "delete_role"}

RolesOf(id) == {r \in Id : <<id, r>> \in links}

Init ==
  /\ kind \in Kind
  /\ owners = {} /\ roles = {} /\ links = {}
  /\ last = [owner |-> 0, role |-> 0]
  /\ owner = create_owner /\ role = create_role
  /\ call = Idle /\ results = 0
  /\ inserted = [owner |-> {}, role |-> {}] /\ lost = inserted /\ leaked = 0 /\ outdated = {}

\* mysql_request_f_result and mysql_request_f: the code is 0 ("ok"), or the statement has
\* not been run ("fails"), or it has and the answer did not arrive or could not be
\* stored ("lost").
Outcome == {"ok", "fails", "lost"}
Runs(outcome) == outcome # "fails"

-----------------------------------------------------------------------------
(* Owner and role objects of the client's own making.                      *)

\* The old object is freed.  The new one comes from create_X, select_X_by_id or select_Xs.
NewOwner ==
  /\ At("idle")
  /\ \/ owner' = create_owner
     \/ \E id \in owners : owner' = Selected(id)
  /\ inserted' = [inserted EXCEPT !.owner = {}] /\ lost' = [lost EXCEPT !.owner = {}]
  /\ outdated' = {}
  /\ UNCHANGED <<tables, role, call, results, leaked>>

\* select_roles copies is_changed from a local it has not set.
NewRole ==
  /\ At("idle")
  /\ \/ role' = create_role
     \/ role' \in [id : roles, is_changed : BOOLEAN]
  /\ inserted' = [inserted EXCEPT !.role = {}] /\ lost' = [lost EXCEPT !.role = {}]
  /\ UNCHANGED <<tables, owner, call, results, leaked, outdated>>

\* The setters of the columns.
SetOwner ==
  /\ At("idle")
  /\ owner' = [owner EXCEPT !.is_changed = TRUE]
  /\ inserted' = [inserted EXCEPT !.owner = {}] /\ lost' = [lost EXCEPT !.owner = {}]
  /\ UNCHANGED <<tables, role, call, results, leaked, outdated>>

SetRole ==
  /\ At("idle")
  /\ role' = [role EXCEPT !.is_changed = TRUE]
  /\ inserted' = [inserted EXCEPT !.role = {}] /\ lost' = [lost EXCEPT !.role = {}]
  /\ UNCHANGED <<tables, owner, call, results, leaked, outdated>>

-----------------------------------------------------------------------------
(* One request.                                                            *)

\* Names of lines and roles are unique: one that a lost answer has left behind is in the way.
InsertRefused(unique, rows) == unique /\ rows # {}

\* add_worker, add_line
add_owner ==
  /\ At("idle") /\ owner.id = 0
  /\ last.owner < MaxId
  /\ ~InsertRefused(kind = "line", inserted.owner \cap owners)
  /\ \E outcome \in Outcome :
       LET id == last.owner + 1
       IN /\ Runs(outcome)
          /\ last' = [last EXCEPT !.owner = id]
          /\ owners' = owners \cup {id}
          /\ inserted' = [inserted EXCEPT !.owner = @ \cup {id}]
          /\ lost' = IF outcome = "lost" THEN [lost EXCEPT !.owner = @ \cup {id}] ELSE lost
          /\ owner' = IF outcome = "ok" THEN [owner EXCEPT !.id = id, !.is_changed = FALSE]
                      ELSE owner
  /\ UNCHANGED <<kind, roles, links, role, call, results, leaked, outdated>>

add_role ==
  /\ At("idle") /\ role.id = 0
  /\ last.role < MaxId
  /\ ~InsertRefused(TRUE, inserted.role \cap roles)
  /\ \E outcome \in Outcome :
       LET id == last.role + 1
       IN /\ Runs(outcome)
          /\ last' = [last EXCEPT !.role = id]
          /\ roles' = roles \cup {id}
          /\ inserted' = [inserted EXCEPT !.role = @ \cup {id}]
          /\ lost' = IF outcome = "lost" THEN [lost EXCEPT !.role = @ \cup {id}] ELSE lost
          /\ role' = IF outcome = "ok" THEN [id |-> id, is_changed |-> FALSE] ELSE role
  /\ UNCHANGED <<kind, owners, links, owner, call, results, leaked, outdated>>

\* update_worker, update_line: the rows affected are not counted.
update_owner ==
  /\ At("idle") /\ owner.id # 0
  /\ owner' = [owner EXCEPT !.is_changed = FALSE]
  /\ UNCHANGED <<tables, role, call, results, inserted, lost, leaked, outdated>>

\* The row must really change: one that is gone, or had that name already, leaves
\* is_changed as it is.
update_role ==
  /\ At("idle") /\ role.id \in roles
  /\ role' = [role EXCEPT !.is_changed = FALSE]
  /\ UNCHANGED <<tables, owner, call, results, inserted, lost, leaked, outdated>>

\* select_role_by_id in place of the old object.
refresh_role ==
  /\ At("idle") /\ role.id \in roles
  /\ role' = [role EXCEPT !.is_changed = FALSE]
  /\ UNCHANGED <<tables, owner, call, results, inserted, lost, leaked, outdated>>

\* Variant: the id is reset before the answer is looked at.
DeleteResetsFirst ==
  /\ At("idle")
  /\ \E outcome \in Outcome :
       owners' = IF Runs(outcome) THEN owners \ {owner.id} ELSE owners
  /\ links' = {l \in links : l[1] \in owners'}
  /\ owner' = create_owner
  /\ UNCHANGED <<kind, roles, last, role, call, results, inserted, lost, leaked, outdated>>

\* delete_worker, delete_line: rows of the object's id go, and with them its links.  When
\* the request fails the function returns before it frees the result.
delete_owner ==
  /\ At("idle")
  /\ \E outcome \in Outcome :
       /\ owners' = IF Runs(outcome) THEN owners \ {owner.id} ELSE owners
       /\ links' = {l \in links : l[1] \in owners'}
       /\ IF outcome = "ok"
          THEN /\ owner' = IF owner.id \in owners
                           THEN [owner EXCEPT !.id = 0, !.is_changed = FALSE, !.roles_included = FALSE,
                                   !.roles = IF owner.roles_included THEN {} ELSE @]
                           ELSE owner
               /\ UNCHANGED <<results, leaked, outdated>>
          ELSE /\ leaked < MaxLeaks
               /\ results' = results + 1 /\ leaked' = leaked + 1
               /\ outdated' = outdated \cup (IF links' = links THEN {} ELSE {"failed request"})
               /\ UNCHANGED owner
  /\ UNCHANGED <<kind, roles, last, role, call, inserted, lost>>

\* worker_role follows the role (ON DELETE CASCADE), line_role keeps it.  A role whose row
\* is gone already loses its id as well.
delete_role ==
  /\ At("idle") /\ role.id # 0
  /\ kind = "line" => \A l \in links : l[2] # role.id
  /\ \E outcome \in Outcome :
       /\ Runs(outcome)
       /\ roles' = roles \ {role.id}
       /\ links' = {l \in links : l[2] # role.id}
       /\ outdated' = outdated \cup (IF links' = links THEN {} ELSE {"delete_role"})
       /\ role' = IF outcome = "ok" THEN create_role ELSE role
  /\ UNCHANGED <<kind, owners, last, owner, call, results, inserted, lost, leaked>>

\* include_worker_roles clears the list and leaves roles_included as it was when the
\* request fails; include_line_roles clears both.
Included(object, outcome) ==
  IF outcome = "ok" THEN [object EXCEPT !.roles = RolesOf(object.id), !.roles_included = TRUE]
  ELSE [object EXCEPT !.roles = {}, !.roles_included = @ /\ kind = "worker"]

IncludedReasons(outcome) == IF outcome = "ok" THEN {} ELSE {"failed request"}

include_roles ==
  /\ At("idle")
  /\ \E outcome \in Outcome :
       /\ owner' = Included(owner, outcome)
       /\ outdated' = IncludedReasons(outcome)
  /\ UNCHANGED <<tables, role, call, results, inserted, lost, leaked>>

-----------------------------------------------------------------------------
(* Several requests: refresh_worker and what calls it.                     *)

\* Variant: the result of the caller is forgotten.
ReturnUnfreed == call' = Idle /\ UNCHANGED results

\* The function returns; add_worker_role and remove_worker_role, when they have waited
\* for the refresh, free their result.
Return ==
  /\ call' = Idle
  /\ results' = IF call.waiting THEN results - 1 ELSE results

\* select_X_by_id, then include_X_roles on the new object if the old one had its roles.
SelectRow ==
  /\ At("idle") \/ At("select")
  /\ owner.id \in owners
  /\ IF owner.roles_included
     THEN call' = [call EXCEPT !.next = "include"] /\ UNCHANGED <<owner, outdated, results>>
     ELSE owner' = Selected(owner.id) /\ outdated' = {} /\ Return
  /\ UNCHANGED <<tables, role, inserted, lost, leaked>>

\* The row is gone or the request fails: the old object stays, and nobody asks.
SelectRowFails ==
  /\ At("select")
  /\ outdated' = outdated \cup {"failed request"}
  /\ Return
  /\ UNCHANGED <<tables, owner, role, inserted, lost, leaked>>

IncludeRoles ==
  /\ At("include")
  /\ \E outcome \in Outcome :
       /\ owner' = Included(Selected(owner.id), outcome)
       /\ outdated' = IncludedReasons(outcome)
  /\ Return
  /\ UNCHANGED <<tables, role, inserted, lost, leaked>>

BothClean ==
  /\ owner.id # 0 /\ role.id # 0
  /\ ~owner.is_changed /\ ~role.is_changed

\* Variant: the list is left to the caller.
NotRefreshed(outcome) ==
  /\ outdated' = outdated \cup (IF outcome = "lost" THEN {"failed request"} ELSE {})
  /\ UNCHANGED <<call, results>>

\* The statement is done; the list follows if the object has one.
Refreshed(outcome) ==
  IF outcome = "ok" /\ owner.roles_included
  THEN /\ call' = [next |-> "select", waiting |-> TRUE]
       /\ results' = results + 1
       /\ UNCHANGED outdated
  ELSE /\ outdated' = outdated \cup (IF outcome = "lost" THEN {"failed request"} ELSE {})
       /\ UNCHANGED <<call, results>>

\* A role the worker has already (1062), or a row that is gone, is refused.
add_worker_role ==
  /\ At("idle") /\ kind = "worker" /\ BothClean
  /\ owner.id \in owners /\ role.id \in roles
  /\ <<owner.id, role.id>> \notin links
  /\ \E outcome \in Outcome :
       /\ Runs(outcome)
       /\ links' = links \cup {<<owner.id, role.id>>}
       /\ Refreshed(outcome)
  /\ UNCHANGED <<kind, owners, roles, last, owner, role, inserted, lost, leaked>>

\* Without a row to delete the function returns NULL and refreshes nothing.
remove_worker_role ==
  /\ At("idle") /\ kind = "worker" /\ BothClean
  /\ <<owner.id, role.id>> \in links
  /\ \E outcome \in Outcome :
       /\ Runs(outcome)
       /\ links' = links \ {<<owner.id, role.id>>}
       /\ Refreshed(outcome)
  /\ UNCHANGED <<kind, owners, roles, last, owner, role, inserted, lost, leaked>>

-----------------------------------------------------------------------------
\* Another session links, unlinks and deletes; line_role is filled by nobody else.
OtherSession ==
  /\ \/ \E l \in owners \X roles :
          /\ links' = IF l \in links THEN links \ {l} ELSE links \cup {l}
          /\ UNCHANGED <<owners, roles>>
     \/ \E id \in owners :
          /\ owners' = owners \ {id}
          /\ links' = {l \in links : l[1] # id}
          /\ UNCHANGED roles
     \/ \E id \in roles :
          /\ kind = "line" => \A l \in links : l[2] # id
          /\ roles' = roles \ {id}
          /\ links' = {l \in links : l[2] # id}
          /\ UNCHANGED owners
  /\ outdated' = IF \E l \in (links \ links') \cup (links' \ links) : l[1] = owner.id
                 THEN outdated \cup {"other session"} ELSE outdated
  /\ UNCHANGED <<kind, last, owner, role, call, results, inserted, lost, leaked>>

Next ==
  \/ NewOwner \/ NewRole \/ SetOwner \/ SetRole
  \/ add_owner \/ update_owner \/ delete_owner \/ include_roles
  \/ add_role \/ update_role \/ refresh_role \/ delete_role
  \/ SelectRow \/ SelectRowFails \/ IncludeRoles
  \/ add_worker_role \/ remove_worker_role
  \/ OtherSession

Spec == Init /\ [][Next]_vars

-----------------------------------------------------------------------------
(* Properties.                                                             *)

TypeOK ==
  /\ kind \in Kind
  /\ owners \subseteq Id /\ roles \subseteq Id /\ links \subseteq owners \X roles
  /\ last \in [owner : 0..MaxId, role : 0..MaxId]
  /\ owner \in Owner /\ role \in Role
  /\ call \in [next : {"idle", "select", "include"}, waiting : BOOLEAN]
  /\ results \in Nat /\ leaked \in Nat
  /\ inserted \in [owner : SUBSET Id, role : SUBSET Id]
  /\ lost \in [owner : SUBSET Id, role : SUBSET Id]
  /\ outdated \subseteq Reasons

\* A list of roles that is included agrees with the rows, whatever the client adds, removes,
\* refreshes or deletes, unless one of three things came after it was read: another session's
\* change, a delete_role, or a request that failed, the ones that add_worker_role and
\* remove_worker_role send after their statement included, which they do not report.
ListIsCurrent ==
  At("idle") /\ owner.roles_included /\ outdated = {} => owner.roles = RolesOf(owner.id)

\* Between calls every REQUESTF_RESULT is freed, but for those of deletions that failed.
ResultsAreFreed == At("idle") => results = leaked

\* However often an object is inserted, deleted and inserted again, by requests that fail or
\* whose answers are lost in any of these calls, each row inserted for it that is still there
\* is the one whose id it has or one whose answer was lost.  So the retry after a lost answer
\* is the only way to a duplicate: add_worker goes by the id, which has stayed 0.
StrayRowsAreOwed ==
  /\ inserted.owner \cap owners \subseteq {owner.id} \cup lost.owner
  /\ inserted.role \cap roles \subseteq {role.id} \cup lost.role
=============================================================================
