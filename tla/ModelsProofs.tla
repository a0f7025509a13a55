---------------------------- MODULE ModelsProofs ----------------------------
(***************************************************************************)
(* For any number of owners and roles: the list of roles an object keeps,  *)
(* the results its client frees, and the rows it has inserted.             *)
(***************************************************************************)
EXTENDS Models, TLAPS

\* An id that has not been given out is in no row, and so in no link.
GivenOut == \A id \in owners : id <= last.owner

\* A result is allocated for each failed deletion and for the caller of a refresh.
Owed ==
  /\ results = leaked + (IF call.waiting THEN 1 ELSE 0)
  /\ At("idle") => ~call.waiting

IInv == TypeOK /\ GivenOut /\ Owed /\ StrayRowsAreOwed /\ ListIsCurrent

-----------------------------------------------------------------------------
(* What the client's functions make.                                       *)

(* New objects have no list.                                               *)
LEMMA NewObjects ==
  /\ create_owner \in Owner /\ ~create_owner.roles_included
  /\ create_role \in Role
  /\ \A id \in 0..MaxId :
       Selected(id) \in Owner /\ Selected(id).id = id /\ ~Selected(id).roles_included
<1>1. 0 \in 0..MaxId
  BY ModelsAssumption
<1>2. create_owner \in Owner /\ ~create_owner.roles_included /\ create_role \in Role
  BY <1>1 DEF create_owner, create_role, Owner, Role
<1>3. ASSUME NEW id \in 0..MaxId
      PROVE  Selected(id) \in Owner /\ Selected(id).id = id /\ ~Selected(id).roles_included
  <2>1. Selected(id) = [create_owner EXCEPT !.id = id]
    BY DEF Selected
  <2> QED BY <1>2, <2>1 DEF Owner
<1> QED BY <1>2, <1>3

(* Ids of rows are ids that objects may have; 0 is not one of them.        *)
LEMMA RowIds ==
  ASSUME TypeOK
  PROVE  /\ \A id \in owners : id \in Id /\ id \in 0..MaxId /\ id # 0
         /\ \A id \in roles : id \in Id /\ id \in 0..MaxId /\ id # 0
BY ModelsAssumption DEF TypeOK, Id

(* The list that a select reads is current, and a failure is written down. *)
LEMMA IncludedIs ==
  ASSUME TypeOK, NEW o \in Owner, NEW outcome \in Outcome
  PROVE  /\ Included(o, outcome) \in Owner /\ Included(o, outcome).id = o.id
         /\ IncludedReasons(outcome) \subseteq Reasons
         /\ IncludedReasons(outcome) = {} => Included(o, outcome).roles = RolesOf(o.id)
<1>1. RolesOf(o.id) \in SUBSET Id
  BY DEF RolesOf
<1>2. CASE outcome = "ok"
  BY <1>1, <1>2 DEF Included, IncludedReasons, Owner
<1>3. CASE outcome # "ok"
  BY <1>3 DEF Included, IncludedReasons, Owner, Reasons
<1> QED BY <1>2, <1>3

(* Whoever waits for the refresh frees the result it has.                  *)
LEMMA ReturnKeeps ==
  ASSUME TypeOK, Owed, Return, leaked' = leaked
  PROVE  /\ call' \in [next : {"idle", "select", "include"}, waiting : BOOLEAN]
         /\ results' \in Nat /\ Owed'
<1>1. call' = Idle /\ call'.next = "idle" /\ call'.waiting = FALSE
  BY DEF Return, Idle
<1>2. call' \in [next : {"idle", "select", "include"}, waiting : BOOLEAN]
  BY <1>1 DEF Idle
<1>3. results' = leaked
  BY DEF Return, Owed, TypeOK
<1> QED BY <1>1, <1>2, <1>3 DEF Owed, At, TypeOK

(* The statement is followed by a refresh if there is a list, or a reason  *)
(* is written down.                                                        *)
LEMMA RefreshedIs ==
  ASSUME TypeOK, Owed, At("idle"), NEW outcome \in Outcome, Runs(outcome), Refreshed(outcome),
         leaked' = leaked
  PROVE  /\ call' \in [next : {"idle", "select", "include"}, waiting : BOOLEAN]
         /\ results' \in Nat /\ Owed'
         /\ outdated' \subseteq Reasons
         /\ At("idle")' /\ outdated' = {} => ~owner.roles_included
<1>1. CASE outcome = "ok" /\ owner.roles_included
  <2>1. /\ call' = [next |-> "select", waiting |-> TRUE] /\ results' = results + 1
        /\ UNCHANGED outdated
    BY <1>1 DEF Refreshed
  <2>2. call'.next = "select" /\ call'.waiting
    BY <2>1
  <2>3. call' \in [next : {"idle", "select", "include"}, waiting : BOOLEAN]
    BY <2>1
  <2>4. results = leaked
    BY DEF Owed, TypeOK
  <2> QED BY <2>1, <2>2, <2>3, <2>4 DEF Owed, At, TypeOK
<1>2. CASE ~(outcome = "ok" /\ owner.roles_included)
  <2>1. /\ outdated' = outdated \cup (IF outcome = "lost" THEN {"failed request"} ELSE {})
        /\ UNCHANGED <<call, results>>
    BY <1>2 DEF Refreshed
  <2>2. outcome = "lost" \/ outcome = "ok"
    BY DEF Outcome, Runs
  <2> QED BY <1>2, <2>1, <2>2 DEF Owed, At, TypeOK, Reasons
<1> QED BY <1>1, <1>2

-----------------------------------------------------------------------------
(* The client's own objects.                                               *)

(* Whatever is done to the objects alone, the rows inserted are kept with  *)
(* the id and those whose answers were lost, or forgotten with them.       *)
LEMMA ObjectsKeep ==
  ASSUME IInv, UNCHANGED <<tables, call, results, leaked>>,
         owner' \in Owner, role' \in Role, outdated' \in SUBSET Reasons,
         inserted' \in [owner : {{}, inserted.owner}, role : {{}, inserted.role}],
         lost' \in [owner : {{}, lost.owner}, role : {{}, lost.role}],
         inserted'.owner = {} \/ (lost'.owner = lost.owner /\ owner'.id = owner.id),
         inserted'.role = {} \/ (lost'.role = lost.role /\ role'.id = role.id),
         ListIsCurrent'
  PROVE  IInv'
<1>1. /\ inserted' \in [owner : SUBSET Id, role : SUBSET Id]
      /\ lost' \in [owner : SUBSET Id, role : SUBSET Id]
  BY DEF IInv, TypeOK
<1>2. TypeOK'
  BY <1>1 DEF IInv, TypeOK, tables
<1>3. GivenOut' /\ Owed'
  BY DEF IInv, GivenOut, Owed, At, tables
<1>4. StrayRowsAreOwed'
  <2>1. /\ inserted'.owner \in {{}, inserted.owner} /\ inserted'.role \in {{}, inserted.role}
        /\ owners' = owners /\ roles' = roles
    BY DEF tables
  <2> QED BY <2>1 DEF IInv, StrayRowsAreOwed
<1> QED BY <1>2, <1>3, <1>4 DEF IInv

(* NewOwner, NewRole, the setters, the updates and refresh_role.           *)
LEMMA OwnObjectsKeep ==
  ASSUME IInv,
         \/ NewOwner \/ NewRole \/ SetOwner \/ SetRole
         \/ update_owner \/ update_role \/ refresh_role
  PROVE  IInv'
<1>1. owner \in Owner /\ role \in Role /\ outdated \in SUBSET Reasons
  BY DEF IInv, TypeOK
<1>2. /\ inserted \in [owner : {{}, inserted.owner}, role : {{}, inserted.role}]
      /\ lost \in [owner : {{}, lost.owner}, role : {{}, lost.role}]
  BY DEF IInv, TypeOK
<1>3. \A S \in {"owner", "role"} :
        /\ [inserted EXCEPT ![S] = {}] \in [owner : {{}, inserted.owner}, role : {{}, inserted.role}]
        /\ [lost EXCEPT ![S] = {}] \in [owner : {{}, lost.owner}, role : {{}, lost.role}]
        /\ [inserted EXCEPT ![S] = {}][S] = {}
  BY DEF IInv, TypeOK
<1>4. CASE NewOwner
  <2>1. owner' \in Owner /\ ~owner'.roles_included
    BY <1>4, NewObjects, RowIds DEF NewOwner, IInv
  <2>2. ListIsCurrent'
    BY <2>1 DEF ListIsCurrent
  <2>3. /\ inserted'.owner = {} /\ lost'.role = lost.role /\ role' = role
    BY <1>4 DEF NewOwner, IInv, TypeOK
  <2>4. outdated' \in SUBSET Reasons /\ UNCHANGED <<tables, call, results, leaked>>
    BY <1>4 DEF NewOwner
  <2>5. /\ role' \in Role
        /\ inserted'.owner = {} \/ (lost'.owner = lost.owner /\ owner'.id = owner.id)
        /\ inserted'.role = {} \/ (lost'.role = lost.role /\ role'.id = role.id)
    BY <1>1, <2>3
  <2>6. /\ inserted' \in [owner : {{}, inserted.owner}, role : {{}, inserted.role}]
        /\ lost' \in [owner : {{}, lost.owner}, role : {{}, lost.role}]
    BY <1>3, <1>4 DEF NewOwner
  <2> QED BY <2>1, <2>2, <2>4, <2>5, <2>6, ObjectsKeep
<1>5. CASE NewRole
  <2>1. role' \in Role
    BY <1>5, NewObjects, RowIds DEF NewRole, IInv, Role
  <2>2. ListIsCurrent'
    BY <1>5 DEF NewRole, IInv, ListIsCurrent, RolesOf, tables, At
  <2>3. /\ inserted'.role = {} /\ lost'.owner = lost.owner /\ owner' = owner
    BY <1>5 DEF NewRole, IInv, TypeOK
  <2>4. outdated' \in SUBSET Reasons /\ UNCHANGED <<tables, call, results, leaked>>
    BY <1>1, <1>5 DEF NewRole
  <2>5. /\ owner' \in Owner
        /\ inserted'.role = {} \/ (lost'.role = lost.role /\ role'.id = role.id)
        /\ inserted'.owner = {} \/ (lost'.owner = lost.owner /\ owner'.id = owner.id)
    BY <1>1, <2>3
  <2>6. /\ inserted' \in [owner : {{}, inserted.owner}, role : {{}, inserted.role}]
        /\ lost' \in [owner : {{}, lost.owner}, role : {{}, lost.role}]
    BY <1>3, <1>5 DEF NewRole
  <2> QED BY <2>1, <2>2, <2>4, <2>5, <2>6, ObjectsKeep
<1>6. CASE SetOwner \/ update_owner
  <2>1. /\ owner' \in Owner
        /\ owner'.id = owner.id /\ owner'.roles = owner.roles
        /\ owner'.roles_included = owner.roles_included
    BY <1>1, <1>6 DEF SetOwner, update_owner, Owner
  <2>2. ListIsCurrent'
    BY <1>6, <2>1 DEF SetOwner, update_owner, IInv, ListIsCurrent, RolesOf, tables, At
  <2>3. /\ inserted'.owner = {} \/ lost'.owner = lost.owner
        /\ lost'.role = lost.role /\ role' = role
        /\ inserted' \in [owner : {{}, inserted.owner}, role : {{}, inserted.role}]
        /\ lost' \in [owner : {{}, lost.owner}, role : {{}, lost.role}]
    BY <1>2, <1>3, <1>6 DEF SetOwner, update_owner, IInv, TypeOK
  <2> QED BY <1>1, <1>6, <2>1, <2>2, <2>3, ObjectsKeep DEF SetOwner, update_owner
<1>7. CASE SetRole \/ update_role \/ refresh_role
  <2>1. role' \in Role /\ role'.id = role.id
    BY <1>1, <1>7 DEF SetRole, update_role, refresh_role, Role
  <2>2. ListIsCurrent'
    BY <1>7 DEF SetRole, update_role, refresh_role, IInv, ListIsCurrent, RolesOf, tables, At
  <2>3. /\ inserted'.role = {} \/ lost'.role = lost.role
        /\ lost'.owner = lost.owner /\ owner' = owner
        /\ inserted' \in [owner : {{}, inserted.owner}, role : {{}, inserted.role}]
        /\ lost' \in [owner : {{}, lost.owner}, role : {{}, lost.role}]
    BY <1>2, <1>3, <1>7 DEF SetRole, update_role, refresh_role, IInv, TypeOK
  <2> QED BY <1>1, <1>7, <2>1, <2>2, <2>3, ObjectsKeep DEF SetRole, update_role, refresh_role
<1> QED BY <1>4, <1>5, <1>6, <1>7

-----------------------------------------------------------------------------
(* One request.                                                            *)

(* The object gets an id that no link has, so its list, which is empty,    *)
(* stays right.                                                            *)
LEMMA AddOwnerKeeps ==
  ASSUME IInv, add_owner
  PROVE  IInv'
<1>1. PICK outcome \in Outcome :
        /\ last' = [last EXCEPT !.owner = last.owner + 1]
        /\ owners' = owners \cup {last.owner + 1}
        /\ inserted' = [inserted EXCEPT !.owner = @ \cup {last.owner + 1}]
        /\ lost' = IF outcome = "lost" THEN [lost EXCEPT !.owner = @ \cup {last.owner + 1}] ELSE lost
        /\ owner' = IF outcome = "ok" THEN [owner EXCEPT !.id = last.owner + 1, !.is_changed = FALSE]
                    ELSE owner
        /\ outcome \in {"ok", "lost"}
  BY DEF add_owner, Outcome, Runs
<1>2. PICK id : id = last.owner + 1
  OBVIOUS
<1>3. id \in Id /\ id \in 0..MaxId /\ id \notin owners /\ last.owner \in Nat
  BY <1>2, ModelsAssumption DEF add_owner, IInv, TypeOK, GivenOut, Id
<1>4. /\ owner.id = 0 /\ At("idle")
      /\ UNCHANGED <<kind, roles, links, role, call, results, leaked, outdated>>
  BY DEF add_owner
<1>5. TypeOK'
  <2>1. last' \in [owner : 0..MaxId, role : 0..MaxId]
    BY <1>1, <1>2, <1>3 DEF IInv, TypeOK
  <2>2. /\ inserted' \in [owner : SUBSET Id, role : SUBSET Id]
        /\ lost' \in [owner : SUBSET Id, role : SUBSET Id]
    BY <1>1, <1>2, <1>3 DEF IInv, TypeOK
  <2>3. owner' \in Owner
    BY <1>1, <1>2, <1>3 DEF IInv, TypeOK, Owner
  <2>4. owners' \subseteq Id /\ links' \subseteq owners' \X roles'
    BY <1>1, <1>2, <1>3, <1>4 DEF IInv, TypeOK
  <2> QED BY <1>4, <2>1, <2>2, <2>3, <2>4 DEF IInv, TypeOK
<1>6. last'.owner = id
  BY <1>1, <1>2 DEF IInv, TypeOK
<1>7. GivenOut'
  <2>1. ASSUME NEW i \in owners' PROVE i <= last'.owner
    <3>1. CASE i = id
      BY <1>3, <1>6, <3>1 DEF Id
    <3>2. CASE i \in owners
      BY <1>2, <1>3, <1>6, <3>2, RowIds DEF IInv, GivenOut, Id
    <3> QED BY <1>1, <1>2, <3>1, <3>2
  <2> QED BY <2>1 DEF GivenOut
<1>8. Owed'
  BY <1>4 DEF IInv, Owed, At
<1>9. StrayRowsAreOwed'
  <2>1. /\ inserted'.owner = inserted.owner \cup {id} /\ inserted'.role = inserted.role
        /\ lost'.role = lost.role
        /\ lost'.owner = IF outcome = "lost" THEN lost.owner \cup {id} ELSE lost.owner
    BY <1>1, <1>2 DEF IInv, TypeOK
  <2>2. inserted.owner \cap owners \subseteq lost.owner
    BY <1>4, RowIds DEF IInv, StrayRowsAreOwed
  <2>3. outcome = "ok" => owner'.id = id
    BY <1>1, <1>2 DEF IInv, TypeOK, Owner
  <2> QED BY <1>1, <1>2, <1>4, <2>1, <2>2, <2>3 DEF IInv, StrayRowsAreOwed
<1>10. ListIsCurrent'
  <2>1. RolesOf(0) = {} /\ RolesOf(id) = {}
    BY <1>3, RowIds DEF IInv, TypeOK, RolesOf
  <2>2. /\ owner'.roles = owner.roles /\ owner'.roles_included = owner.roles_included
        /\ owner'.id \in {0, id}
    BY <1>1, <1>2, <1>4 DEF IInv, TypeOK, Owner
  <2> QED BY <1>4, <2>1, <2>2 DEF IInv, ListIsCurrent, RolesOf, At
<1> QED BY <1>5, <1>7, <1>8, <1>9, <1>10 DEF IInv

(* The object names the row, or its answer was lost.                       *)
LEMMA AddRoleKeeps ==
  ASSUME IInv, add_role
  PROVE  IInv'
<1>1. PICK outcome \in Outcome :
        /\ last' = [last EXCEPT !.role = last.role + 1]
        /\ roles' = roles \cup {last.role + 1}
        /\ inserted' = [inserted EXCEPT !.role = @ \cup {last.role + 1}]
        /\ lost' = IF outcome = "lost" THEN [lost EXCEPT !.role = @ \cup {last.role + 1}] ELSE lost
        /\ role' = IF outcome = "ok" THEN [id |-> last.role + 1, is_changed |-> FALSE] ELSE role
        /\ outcome \in {"ok", "lost"}
  BY DEF add_role, Outcome, Runs
<1>2. PICK id : id = last.role + 1
  OBVIOUS
<1>3. id \in Id /\ id \in 0..MaxId
  BY <1>2, ModelsAssumption DEF add_role, IInv, TypeOK, Id
<1>4. /\ role.id = 0
      /\ UNCHANGED <<kind, owners, links, owner, call, results, leaked, outdated>>
  BY DEF add_role
<1>5. TypeOK'
  <2>1. last' \in [owner : 0..MaxId, role : 0..MaxId]
    BY <1>1, <1>2, <1>3 DEF IInv, TypeOK
  <2>2. /\ inserted' \in [owner : SUBSET Id, role : SUBSET Id]
        /\ lost' \in [owner : SUBSET Id, role : SUBSET Id]
    BY <1>1, <1>2, <1>3 DEF IInv, TypeOK
  <2>3. role' \in Role
    BY <1>1, <1>2, <1>3 DEF IInv, TypeOK, Role
  <2>4. roles' \subseteq Id /\ links' \subseteq owners' \X roles'
    BY <1>1, <1>2, <1>3, <1>4 DEF IInv, TypeOK
  <2> QED BY <1>4, <2>1, <2>2, <2>3, <2>4 DEF IInv, TypeOK
<1>6. GivenOut' /\ Owed' /\ ListIsCurrent'
  <2>1. last'.owner = last.owner
    BY <1>1 DEF IInv, TypeOK
  <2> QED BY <1>4, <2>1 DEF IInv, GivenOut, Owed, At, ListIsCurrent, RolesOf
<1>7. StrayRowsAreOwed'
  <2>1. /\ inserted'.role = inserted.role \cup {id} /\ inserted'.owner = inserted.owner
        /\ lost'.owner = lost.owner
        /\ lost'.role = IF outcome = "lost" THEN lost.role \cup {id} ELSE lost.role
    BY <1>1, <1>2 DEF IInv, TypeOK
  <2>2. inserted.role \cap roles \subseteq lost.role
    BY <1>4, RowIds DEF IInv, StrayRowsAreOwed
  <2>3. outcome = "ok" => role'.id = id
    BY <1>1, <1>2 DEF IInv, TypeOK, Role
  <2> QED BY <1>1, <1>2, <1>4, <2>1, <2>2, <2>3 DEF IInv, StrayRowsAreOwed
<1> QED BY <1>5, <1>6, <1>7 DEF IInv

(* The object's list goes with the links of its row.                       *)
LEMMA DeleteOwnerKeeps ==
  ASSUME IInv, delete_owner
  PROVE  IInv'
<1>1. PICK outcome \in Outcome :
        /\ owners' = IF Runs(outcome) THEN owners \ {owner.id} ELSE owners
        /\ links' = {l \in links : l[1] \in owners'}
        /\ IF outcome = "ok"
           THEN /\ owner' = IF owner.id \in owners
                            THEN [owner EXCEPT !.id = 0, !.is_changed = FALSE, !.roles_included = FALSE,
                                    !.roles = IF owner.roles_included THEN {} ELSE @]
                            ELSE owner
                /\ UNCHANGED <<results, leaked, outdated>>
           ELSE /\ leaked < MaxLeaks
                /\ results' = results + 1 /\ leaked' = leaked + 1
                /\ outdated' = outdated \cup (IF links' = links THEN {} ELSE {"failed request"})
                /\ UNCHANGED owner
  BY DEF delete_owner
<1>2. At("idle") /\ UNCHANGED <<kind, roles, last, role, call, inserted, lost>>
  BY DEF delete_owner
<1>3. owners' \subseteq owners /\ links' \subseteq links
  BY <1>1
<1>4. TypeOK'
  <2>1. links' \subseteq owners' \X roles'
    BY <1>1, <1>2 DEF IInv, TypeOK
  <2>2. owner' \in Owner
    <3>1. owner \in Owner /\ 0 \in 0..MaxId
      BY ModelsAssumption DEF IInv, TypeOK
    <3>2. [owner EXCEPT !.id = 0, !.is_changed = FALSE, !.roles_included = FALSE,
             !.roles = IF owner.roles_included THEN {} ELSE @] \in Owner
      BY <3>1 DEF Owner
    <3>3. owner' = owner \/ owner' = [owner EXCEPT !.id = 0, !.is_changed = FALSE, !.roles_included = FALSE,
                                        !.roles = IF owner.roles_included THEN {} ELSE @]
      BY <1>1
    <3> QED BY <3>1, <3>2, <3>3
  <2>3. outdated' \subseteq Reasons /\ results' \in Nat /\ leaked' \in Nat
    <3>1. CASE outcome = "ok"
      BY <1>1, <3>1 DEF IInv, TypeOK
    <3>2. CASE outcome # "ok"
      <4>1. results' = results + 1 /\ leaked' = leaked + 1
        BY <1>1, <3>2
      <4>2. results' \in Nat /\ leaked' \in Nat
        BY <4>1 DEF IInv, TypeOK
      <4>3. outdated' \subseteq outdated \cup {"failed request"}
        BY <1>1, <3>2
      <4> QED BY <4>2, <4>3 DEF IInv, TypeOK, Reasons
    <3> QED BY <3>1, <3>2
  <2> QED BY <1>2, <1>3, <2>1, <2>2, <2>3 DEF IInv, TypeOK
<1>5. GivenOut' /\ StrayRowsAreOwed'
  <2>1. owner'.id = owner.id \/ owners' = owners \ {owner.id}
    <3>1. CASE outcome = "ok"
      BY <1>1, <3>1 DEF Runs
    <3>2. CASE outcome # "ok"
      BY <1>1, <3>2
    <3> QED BY <3>1, <3>2
  <2> QED BY <1>2, <1>3, <2>1 DEF IInv, GivenOut, StrayRowsAreOwed
<1>6. Owed'
  <2>1. results = leaked /\ ~call.waiting /\ call' = call
    BY <1>2 DEF IInv, Owed, TypeOK
  <2>2. results' = leaked'
    <3>1. CASE outcome = "ok"
      BY <1>1, <2>1, <3>1
    <3>2. CASE outcome # "ok"
      BY <1>1, <2>1, <3>2
    <3> QED BY <3>1, <3>2
  <2>3. results' \in Nat /\ leaked' \in Nat
    BY <1>4 DEF TypeOK
  <2>4. ~call'.waiting
    BY <2>1
  <2>5. results' = leaked' + (IF call'.waiting THEN 1 ELSE 0)
    <3>1. \A n \in Nat : n + 0 = n
      OBVIOUS
    <3>2. (IF call'.waiting THEN 1 ELSE 0) = 0
      BY <2>4
    <3> QED BY <2>2, <2>3, <3>1, <3>2
  <2> QED BY <2>4, <2>5 DEF Owed
<1>7. ListIsCurrent'
  <2>1. CASE outcome = "ok" /\ owner.id \in owners
    <3>1. ~owner'.roles_included
      BY <1>1, <2>1 DEF IInv, TypeOK, Owner
    <3> QED BY <3>1 DEF ListIsCurrent
  <2>2. CASE outcome = "ok" /\ owner.id \notin owners
    <3>1. owner' = owner /\ outdated' = outdated
      BY <1>1, <2>2
    <3>2. owners' = owners
      BY <1>1, <2>2
    <3>3. links' = links
      BY <1>1, <3>2 DEF IInv, TypeOK
    <3> QED BY <1>2, <3>1, <3>3 DEF IInv, ListIsCurrent, RolesOf, At
  <2>3. CASE outcome # "ok"
    BY <1>1, <1>2, <2>3 DEF IInv, ListIsCurrent, RolesOf, At
  <2> QED BY <2>1, <2>2, <2>3
<1> QED BY <1>4, <1>5, <1>6, <1>7 DEF IInv

(* What the list loses with the role is written down.                      *)
LEMMA DeleteRoleKeeps ==
  ASSUME IInv, delete_role
  PROVE  IInv'
<1>1. PICK outcome \in Outcome :
        /\ roles' = roles \ {role.id}
        /\ links' = {l \in links : l[2] # role.id}
        /\ outdated' = outdated \cup (IF links' = links THEN {} ELSE {"delete_role"})
        /\ role' = IF outcome = "ok" THEN create_role ELSE role
  BY DEF delete_role
<1>2. UNCHANGED <<kind, owners, last, owner, call, results, inserted, lost, leaked>>
  BY DEF delete_role
<1>3. TypeOK'
  <2>1. links' \subseteq owners' \X roles'
    BY <1>1, <1>2 DEF IInv, TypeOK
  <2>2. role' \in Role
    BY <1>1, NewObjects DEF IInv, TypeOK
  <2>3. outdated' \subseteq Reasons /\ roles' \subseteq Id
    BY <1>1 DEF IInv, TypeOK, Reasons
  <2> QED BY <1>2, <2>1, <2>2, <2>3 DEF IInv, TypeOK
<1>4. GivenOut' /\ StrayRowsAreOwed' /\ Owed'
  BY <1>1, <1>2 DEF IInv, GivenOut, StrayRowsAreOwed, Owed, At
<1>5. ListIsCurrent'
  BY <1>1, <1>2 DEF IInv, ListIsCurrent, RolesOf, At
<1> QED BY <1>3, <1>4, <1>5 DEF IInv

(* The list is read.                                                       *)
LEMMA IncludeRolesKeeps ==
  ASSUME IInv, include_roles
  PROVE  IInv'
<1>1. PICK outcome \in Outcome :
        owner' = Included(owner, outcome) /\ outdated' = IncludedReasons(outcome)
  BY DEF include_roles
<1>2. UNCHANGED <<tables, role, call, results, inserted, lost, leaked>>
  BY DEF include_roles
<1>3. /\ owner' \in Owner /\ owner'.id = owner.id /\ outdated' \in SUBSET Reasons
      /\ outdated' = {} => owner'.roles = RolesOf(owner.id)
  BY <1>1, IncludedIs DEF IInv, TypeOK
<1>4. ListIsCurrent'
  BY <1>2, <1>3 DEF ListIsCurrent, RolesOf, tables
<1>5. /\ inserted' \in [owner : {{}, inserted.owner}, role : {{}, inserted.role}]
      /\ lost' \in [owner : {{}, lost.owner}, role : {{}, lost.role}]
      /\ lost'.owner = lost.owner /\ lost'.role = lost.role /\ role'.id = role.id
  BY <1>2 DEF IInv, TypeOK
<1>6. role' \in Role
  BY <1>2 DEF IInv, TypeOK
<1> QED BY <1>2, <1>3, <1>4, <1>5, <1>6, ObjectsKeep

-----------------------------------------------------------------------------
(* Several requests.                                                       *)

(* What ends in Return: the object is another one, or the same with a      *)
(* reason.                                                                 *)
LEMMA ReturningKeeps ==
  ASSUME IInv, Return, UNCHANGED <<tables, role, inserted, lost, leaked>>,
         owner' \in Owner, owner'.id = owner.id, outdated' \in SUBSET Reasons, ListIsCurrent'
  PROVE  IInv'
<1>1. /\ call' \in [next : {"idle", "select", "include"}, waiting : BOOLEAN]
      /\ results' \in Nat /\ Owed'
  BY ReturnKeeps DEF IInv
<1>2. TypeOK'
  BY <1>1 DEF IInv, TypeOK, tables
<1>3. GivenOut' /\ StrayRowsAreOwed'
  BY DEF IInv, GivenOut, StrayRowsAreOwed, tables
<1> QED BY <1>1, <1>2, <1>3 DEF IInv

(* The row is there: the list is read next, or there is none.              *)
LEMMA SelectRowKeeps ==
  ASSUME IInv, SelectRow
  PROVE  IInv'
<1>1. UNCHANGED <<tables, role, inserted, lost, leaked>>
  BY DEF SelectRow
<1>2. CASE owner.roles_included
  <2>1. call' = [call EXCEPT !.next = "include"] /\ UNCHANGED <<owner, outdated, results>>
    BY <1>2 DEF SelectRow
  <2>2. /\ call' \in [next : {"idle", "select", "include"}, waiting : BOOLEAN]
        /\ call'.next = "include" /\ call'.waiting = call.waiting
    BY <2>1 DEF IInv, TypeOK
  <2>3. TypeOK'
    BY <1>1, <2>1, <2>2 DEF IInv, TypeOK, tables
  <2>4. GivenOut' /\ StrayRowsAreOwed' /\ Owed' /\ ListIsCurrent'
    BY <1>1, <2>1, <2>2 DEF IInv, GivenOut, StrayRowsAreOwed, Owed, ListIsCurrent, At, tables
  <2> QED BY <2>3, <2>4 DEF IInv
<1>3. CASE ~owner.roles_included
  <2>1. owner' = Selected(owner.id) /\ outdated' = {} /\ Return
    BY <1>3 DEF SelectRow
  <2>2. owner' \in Owner /\ owner'.id = owner.id /\ ~owner'.roles_included
    BY <2>1, NewObjects, RowIds DEF SelectRow, IInv
  <2>3. ListIsCurrent'
    BY <2>2 DEF ListIsCurrent
  <2> QED BY <1>1, <2>1, <2>2, <2>3, ReturningKeeps
<1> QED BY <1>2, <1>3

(* The old object stays with a reason.                                     *)
LEMMA SelectRowFailsKeeps ==
  ASSUME IInv, SelectRowFails
  PROVE  IInv'
<1>1. /\ Return /\ UNCHANGED <<tables, owner, role, inserted, lost, leaked>>
      /\ outdated' = outdated \cup {"failed request"}
  BY DEF SelectRowFails
<1>2. owner' \in Owner /\ outdated' \in SUBSET Reasons
  BY <1>1 DEF IInv, TypeOK, Reasons
<1>3. ListIsCurrent'
  BY <1>1 DEF ListIsCurrent
<1> QED BY <1>1, <1>2, <1>3, ReturningKeeps

(* The new object's list is read, or a reason is written down.             *)
LEMMA IncludeInRefreshKeeps ==
  ASSUME IInv, IncludeRoles
  PROVE  IInv'
<1>1. PICK outcome \in Outcome :
        owner' = Included(Selected(owner.id), outcome) /\ outdated' = IncludedReasons(outcome)
  BY DEF IncludeRoles
<1>2. Return /\ UNCHANGED <<tables, role, inserted, lost, leaked>>
  BY DEF IncludeRoles
<1>3. Selected(owner.id) \in Owner /\ Selected(owner.id).id = owner.id
  BY NewObjects DEF IInv, TypeOK, Owner
<1>4. /\ owner' \in Owner /\ owner'.id = owner.id /\ outdated' \in SUBSET Reasons
      /\ outdated' = {} => owner'.roles = RolesOf(owner.id)
  BY <1>1, <1>3, IncludedIs DEF IInv
<1>5. ListIsCurrent'
  BY <1>2, <1>4 DEF ListIsCurrent, RolesOf, tables
<1> QED BY <1>2, <1>4, <1>5, ReturningKeeps

(* The link changes and a refresh follows.                                 *)
LEMMA LinkedKeeps ==
  ASSUME IInv, add_worker_role \/ remove_worker_role
  PROVE  IInv'
<1>1. PICK outcome \in Outcome : Runs(outcome) /\ Refreshed(outcome)
  BY DEF add_worker_role, remove_worker_role
<1>2. At("idle") /\ UNCHANGED <<kind, owners, roles, last, owner, role, inserted, lost, leaked>>
  BY DEF add_worker_role, remove_worker_role
<1>3. links' \subseteq owners \X roles
  BY DEF add_worker_role, remove_worker_role, IInv, TypeOK
<1>4. /\ call' \in [next : {"idle", "select", "include"}, waiting : BOOLEAN]
      /\ results' \in Nat /\ Owed'
      /\ outdated' \subseteq Reasons
      /\ At("idle")' /\ outdated' = {} => ~owner.roles_included
  BY <1>1, <1>2, RefreshedIs DEF IInv
<1>5. TypeOK'
  BY <1>2, <1>3, <1>4 DEF IInv, TypeOK
<1>6. GivenOut' /\ StrayRowsAreOwed' /\ ListIsCurrent'
  BY <1>2, <1>4 DEF IInv, GivenOut, StrayRowsAreOwed, ListIsCurrent
<1> QED BY <1>4, <1>5, <1>6 DEF IInv

-----------------------------------------------------------------------------
(* Rows only go, and what changes among the object's links is written down.*)
LEMMA OtherSessionKeeps ==
  ASSUME IInv, OtherSession
  PROVE  IInv'
<1>1. UNCHANGED <<kind, last, owner, role, call, results, inserted, lost, leaked>>
  BY DEF OtherSession
<1>2. owners' \subseteq owners /\ roles' \subseteq roles /\ links' \subseteq owners' \X roles'
  <2>1. CASE \E l \in owners \X roles :
               /\ links' = IF l \in links THEN links \ {l} ELSE links \cup {l}
               /\ UNCHANGED <<owners, roles>>
    BY <2>1 DEF IInv, TypeOK
  <2>2. CASE \E id \in owners :
               /\ owners' = owners \ {id}
               /\ links' = {l \in links : l[1] # id}
               /\ UNCHANGED roles
    BY <2>2 DEF IInv, TypeOK
  <2>3. CASE \E id \in roles :
               /\ roles' = roles \ {id}
               /\ links' = {l \in links : l[2] # id}
               /\ UNCHANGED owners
    BY <2>3 DEF IInv, TypeOK
  <2> QED BY <2>1, <2>2, <2>3 DEF OtherSession
<1>3. outdated' = IF \E l \in (links \ links') \cup (links' \ links) : l[1] = owner.id
                  THEN outdated \cup {"other session"} ELSE outdated
  BY DEF OtherSession
<1>4. outdated' \subseteq Reasons
  BY <1>3 DEF IInv, TypeOK, Reasons
<1>5. TypeOK'
  BY <1>1, <1>2, <1>4 DEF IInv, TypeOK
<1>6. GivenOut' /\ StrayRowsAreOwed' /\ Owed'
  BY <1>1, <1>2 DEF IInv, GivenOut, StrayRowsAreOwed, Owed, At
<1>7. ListIsCurrent'
  <2>1. ASSUME outdated' = {}, NEW r \in Id
        PROVE  <<owner.id, r>> \in links' <=> <<owner.id, r>> \in links
    <3>1. ~\E l \in (links \ links') \cup (links' \ links) : l[1] = owner.id
      BY <1>3, <2>1
    <3> QED BY <3>1
  <2>2. outdated' = {} => RolesOf(owner.id)' = RolesOf(owner.id)
    BY <1>1, <2>1 DEF RolesOf
  <2> QED BY <1>1, <1>3, <2>2 DEF IInv, ListIsCurrent, At
<1> QED BY <1>5, <1>6, <1>7 DEF IInv

-----------------------------------------------------------------------------
(* At the start there are no rows.                                         *)
LEMMA InitIInv == Init => IInv
<1> SUFFICES ASSUME Init PROVE IInv
  OBVIOUS
<1>1. TypeOK
  BY NewObjects, ModelsAssumption DEF Init, TypeOK, Idle
<1>2. GivenOut /\ Owed /\ StrayRowsAreOwed /\ ListIsCurrent
  BY NewObjects DEF Init, GivenOut, Owed, StrayRowsAreOwed, ListIsCurrent, Idle, At
<1> QED BY <1>1, <1>2 DEF IInv

(* Every step keeps the invariant.                                         *)
LEMMA NextKeeps == IInv /\ [Next]_vars => IInv'
<1> SUFFICES ASSUME IInv, [Next]_vars PROVE IInv'
  OBVIOUS
<1>1. CASE UNCHANGED vars
  BY <1>1 DEF vars, tables, IInv, TypeOK, GivenOut, Owed, StrayRowsAreOwed, ListIsCurrent, RolesOf, At
<1>2. CASE Next
  BY <1>2, OwnObjectsKeep, AddOwnerKeeps, AddRoleKeeps, DeleteOwnerKeeps, DeleteRoleKeeps,
     IncludeRolesKeeps, SelectRowKeeps, SelectRowFailsKeeps, IncludeInRefreshKeeps, LinkedKeeps,
     OtherSessionKeeps DEF Next
<1> QED BY <1>1, <1>2

(* So every state has it.                                                  *)
LEMMA Invariance == Spec => []IInv
BY InitIInv, NextKeeps, PTL DEF Spec

-----------------------------------------------------------------------------
(* The objects, the rows and the request under way keep their types.       *)
THEOREM ModelTypes == Spec => []TypeOK
<1>1. IInv => TypeOK
  BY DEF IInv
<1> QED BY <1>1, Invariance, PTL

(* A list of roles agrees with the rows unless a reason says why not       *)
(* (include_worker_roles, add_worker_role and remove_worker_role of        *)
(* worker_model.c, which refresh the object they have been given).         *)
THEOREM ListsAreCurrentOrExcused == Spec => []ListIsCurrent
<1>1. IInv => ListIsCurrent
  BY DEF IInv
<1> QED BY <1>1, Invariance, PTL

(* Between calls every result is freed but for those of failed deletions   *)
(* (delete_worker and delete_line, which return before they free it).      *)
THEOREM OnlyFailedDeletionsLeak == Spec => []ResultsAreFreed
<1>1. IInv => ResultsAreFreed
  BY DEF IInv, TypeOK, Owed, ResultsAreFreed
<1> QED BY <1>1, Invariance, PTL

(* A row that the client inserted and no longer names is one whose answer  *)
(* was lost (add_X and delete_X of the three files, which set and reset    *)
(* the id when the answer is there and not before).                        *)
THEOREM OnlyLostAnswersStray == Spec => []StrayRowsAreOwed
<1>1. IInv => StrayRowsAreOwed
  BY DEF IInv
<1> QED BY <1>1, Invariance, PTL
=============================================================================
