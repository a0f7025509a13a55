--------------------------- MODULE CreationProofs ---------------------------
(***************************************************************************)
(* However the statements of the creation procedures interleave with each  *)
(* other and with deletions, and wherever connections are lost: links and  *)
(* days agree, duplicates are bounded, and procedures lose no days.        *)
(***************************************************************************)
EXTENDS Creation, FiniteSetTheorems, TLAPS

(* The tables.                                                             *)

DaysOnce ==
  /\ \A u, v \in work_day : u.id = v.id => u = v
  /\ \A v \in work_day : v.id <= last_id
  /\ \A n \in work_default_day : n.work_day_id <= last_id
  /\ \A m, n \in work_default_day : m.work_day_id = n.work_day_id => m = n

\* No two links have one day.
LinksApart ==
  /\ \A l, m \in line_work_day : l.work_day_id = m.work_day_id => l = m
  /\ \A w, x \in worker_work_day : w.work_day_id = x.work_day_id => w = x
  /\ \A o, u \in owner_default_day : o.work_default_day_id = u.work_default_day_id => o = u
  /\ \A l \in line_work_day, w \in worker_work_day : l.work_day_id # w.work_day_id
  /\ \A l \in line_work_day, o \in owner_default_day : l.work_day_id # o.work_default_day_id
  /\ \A w \in worker_work_day, o \in owner_default_day : w.work_day_id # o.work_default_day_id

\* A planned day's link leads to a row with a date, a default day's to one without.
LinksDated ==
  /\ \A l \in line_work_day : \E date \in Date : HasDate(l.work_day_id, date)
  /\ \A w \in worker_work_day :
       \E date \in Date : HasDate(w.work_day_id, date) /\ HasDate(w.line_work_day_id, date)
  /\ \A o \in owner_default_day : HasDate(o.work_default_day_id, NULL)

(* The calls.                                                              *)

Unlinked(d) ==
  /\ \A l \in line_work_day : l.work_day_id # d
  /\ \A w \in worker_work_day : w.work_day_id # d
  /\ \A o \in owner_default_day : o.work_default_day_id # d

\* The line's day that a call has read may be deleted meanwhile, but it never comes
\* back with another date: its id is given out and no call is about to link it.
LineDayRead(d, date) ==
  /\ date \in Date
  /\ d \in DayId /\ d <= last_id
  /\ \A v \in work_day : v.id = d => v.date = date
  /\ \A q \in Session : ~Holds(q, d)

DateOf(c) == IF c.args.create = "line_work_day" THEN c.args.date ELSE c.date

\* What is true of call c of session p between its statements.
Knows(p, c) ==
  /\ c \in {Idle, Lost} \cup InCall
  /\ c.next \in Statement => c.args \in Calls[p]
  /\ c.next = "owner" => c.date = NULL
  /\ c.next = "line_day" => c.args.create = "worker_work_day"
  /\ c.next \in {"check", "work_day", "default_day", "link"} =>
       IF c.args.create = "worker_work_day" THEN LineDayRead(c.args.line_work_day_id, c.date)
       ELSE c.date = NULL
  /\ c.next \in {"default_day", "link"} =>
       c.id \in DayId /\ Unlinked(c.id) /\ HasDate(c.id, DateOf(c))
  /\ c.next = "default_day" =>
       c.args.create = "default_day" /\ \A n \in work_default_day : n.work_day_id # c.id
  /\ c.next = "link" /\ c.args.create = "default_day" =>
       \A n \in work_default_day : n.work_day_id = c.id => n.day_number = c.args.day_number

HeldOnce == \A p, q \in Session : \A d \in DayId : Holds(p, d) /\ Holds(q, d) => p = q

(* The count: the rows there are and the sessions that have not found one, *)
(* together, are no more than the sessions that make the call.             *)

Callers(args) == {p \in Session : args \in Calls[p]}

Past(args) == {p \in Session : call[p].next \in {"work_day", "default_day", "link"} /\ call[p].args = args}

Counted ==
  \A args \in CallArgs :
    /\ IsFiniteSet(Existing(args))
    /\ Cardinality(Existing(args)) + Cardinality(Past(args)) <= Cardinality(Callers(args))

Typed ==
  /\ line \subseteq Line /\ worker \subseteq Worker /\ role \subseteq Role
  /\ work_day \subseteq [id: DayId, date: Date \cup {NULL}]
  /\ work_default_day \subseteq [work_day_id: DayId, day_number: 0 .. 6]
  /\ line_work_day \subseteq [work_day_id: DayId, line_id: Line]
  /\ worker_work_day \subseteq
       [work_day_id: DayId, line_work_day_id: DayId, line_id: Line, worker_id: Worker, role_id: Role]
  /\ owner_default_day \subseteq [work_default_day_id: DayId, owner: Line \cup Worker]
  /\ last_id \in 0 .. MaxDay
  /\ call = [p \in Session |-> call[p]]

IInv ==
  /\ Typed
  /\ DaysOnce
  /\ LinksApart
  /\ LinksDated
  /\ \A p \in Session : Knows(p, call[p])
  /\ HeldOnce
  /\ Counted

-----------------------------------------------------------------------------
(* Counting.                                                               *)

(* Finitely many sessions make a call.                                     *)
LEMMA CallersFinite ==
  ASSUME NEW args
  PROVE  IsFiniteSet(Callers(args)) /\ Cardinality(Callers(args)) \in Nat
<1>1. Callers(args) \subseteq Session
  BY DEF Callers
<1> QED BY <1>1, CreationAssumption, FS_Subset, FS_CardinalityType

(* The count stays when rows or sessions go.                               *)
LEMMA CountShrinks ==
  ASSUME NEW E, IsFiniteSet(E), NEW P \in SUBSET Session,
         NEW F \in SUBSET E, NEW Q \in SUBSET P,
         NEW n \in Nat, Cardinality(E) + Cardinality(P) <= n
  PROVE  IsFiniteSet(F) /\ Cardinality(F) + Cardinality(Q) <= n
<1>1. IsFiniteSet(P) /\ IsFiniteSet(F)
  BY CreationAssumption, FS_Subset
<1>2. Cardinality(F) <= Cardinality(E) /\ Cardinality(Q) <= Cardinality(P)
  BY <1>1, FS_Subset
<1>3. /\ Cardinality(F) \in Nat /\ Cardinality(E) \in Nat
      /\ Cardinality(Q) \in Nat /\ Cardinality(P) \in Nat
  BY <1>1, FS_Subset, FS_CardinalityType
<1> QED BY <1>1, <1>2, <1>3

(* One row more, one session less that is going to add one.                *)
LEMMA CountMoves ==
  ASSUME NEW E, IsFiniteSet(E), NEW P \in SUBSET Session,
         NEW x, NEW F \in SUBSET (E \cup {x}), NEW p \in P, NEW Q \in SUBSET (P \ {p}),
         NEW n \in Nat, Cardinality(E) + Cardinality(P) <= n
  PROVE  IsFiniteSet(F) /\ Cardinality(F) + Cardinality(Q) <= n
<1>1. IsFiniteSet(P) /\ IsFiniteSet(P \ {p}) /\ IsFiniteSet(E \cup {x})
  BY CreationAssumption, FS_Subset, FS_AddElement
<1>2. Cardinality(P \ {p}) = Cardinality(P) - 1
  BY <1>1, FS_RemoveElement
<1>3. Cardinality(E \cup {x}) = Cardinality(E) \/ Cardinality(E \cup {x}) = Cardinality(E) + 1
  BY FS_AddElement
<1>4. Cardinality(E) \in Nat /\ Cardinality(P) \in Nat
  BY <1>1, FS_CardinalityType
<1>5. Cardinality(E \cup {x}) + Cardinality(P \ {p}) <= n
  BY <1>2, <1>3, <1>4
<1>6. P \ {p} \in SUBSET Session
  OBVIOUS
<1> QED BY <1>1, <1>5, <1>6, CountShrinks

-----------------------------------------------------------------------------
(* The arguments of a call.                                                *)
LEMMA Arguments ==
  ASSUME NEW args \in CallArgs
  PROVE  \/ /\ args.create = "line_work_day" /\ args = LineDay(args.line_id, args.date)
            /\ args.line_id \in Line /\ args.date \in Date
         \/ /\ args.create = "worker_work_day"
            /\ args = WorkerDay(args.line_work_day_id, args.worker_id, args.role_id)
            /\ args.line_work_day_id \in DayId /\ args.worker_id \in Worker /\ args.role_id \in Role
         \/ /\ args.create = "default_day" /\ args = DefaultDay(args.owner, args.day_number)
            /\ args.owner \in Line \cup Worker /\ args.day_number \in DayNumber
<1>1. CASE \E l \in Line, d \in Date : args = LineDay(l, d)
  BY <1>1 DEF LineDay
<1>2. CASE \E d \in DayId, w \in Worker, r \in Role : args = WorkerDay(d, w, r)
  BY <1>2 DEF WorkerDay
<1>3. CASE \E o \in Worker \cup Line, n \in DayNumber : args = DefaultDay(o, n)
  BY <1>3 DEF DefaultDay
<1> QED BY <1>1, <1>2, <1>3 DEF CallArgs

(* A call that is between two statements has its record.                   *)
LEMMA CallIs ==
  ASSUME NEW p \in Session, Knows(p, call[p]), call[p].next \in Statement
  PROVE  /\ call[p] \in InCall /\ call[p].args \in Calls[p] /\ call[p].args \in CallArgs
<1>1. "idle" \notin Statement /\ "lost" \notin Statement
  BY DEF Statement
<1>2. call[p] \in InCall /\ call[p].args \in Calls[p]
  BY <1>1 DEF Knows, Idle, Lost
<1> QED BY <1>2 DEF InCall

(* Existing, a case for each procedure.                                    *)
LEMMA ExistingIs ==
  ASSUME NEW args \in CallArgs
  PROVE  /\ args.create = "line_work_day" =>
              Existing(args) = {l \in line_work_day : l.line_id = args.line_id /\ HasDate(l.work_day_id, args.date)}
         /\ args.create = "worker_work_day" =>
              Existing(args) = {w \in worker_work_day : /\ w.line_work_day_id = args.line_work_day_id
                                                        /\ w.worker_id = args.worker_id
                                                        /\ w.role_id = args.role_id}
         /\ args.create = "default_day" =>
              Existing(args) = {o \in owner_default_day :
                                  /\ o.owner = args.owner
                                  /\ \E n \in work_default_day : /\ n.work_day_id = o.work_default_day_id
                                                                 /\ n.day_number = args.day_number}
BY DEF Existing

(* At the start.                                                           *)
LEMMA InitIInv == Init => IInv
<1> SUFFICES ASSUME Init PROVE IInv
  OBVIOUS
<1>1. Typed /\ DaysOnce /\ LinksApart /\ LinksDated
  BY CreationAssumption DEF Init, Typed, DaysOnce, LinksApart, LinksDated
<1>2. \A p \in Session : call[p] = Idle /\ call[p].next = "idle"
  BY DEF Init, Idle
<1>3. \A p \in Session : Knows(p, call[p])
  BY <1>2 DEF Knows, Statement
<1>4. HeldOnce
  BY <1>2 DEF HeldOnce, Holds
<1>5. ASSUME NEW args \in CallArgs
      PROVE  /\ IsFiniteSet(Existing(args))
             /\ Cardinality(Existing(args)) + Cardinality(Past(args)) <= Cardinality(Callers(args))
  <2>1. Existing(args) = {}
    BY Arguments, ExistingIs DEF Init
  <2>2. Past(args) = {}
    BY <1>2 DEF Past
  <2>3. IsFiniteSet({}) /\ Cardinality({}) = 0
    BY FS_EmptySet
  <2> QED BY <2>1, <2>2, <2>3, CallersFinite
<1> QED BY <1>1, <1>3, <1>4, <1>5 DEF IInv, Counted

-----------------------------------------------------------------------------
(* Ids are numbers.                                                        *)
LEMMA Ids ==
  ASSUME IInv
  PROVE  /\ DayId \subseteq Nat /\ last_id \in Nat
         /\ \A v \in work_day : v.id \in DayId
         /\ \A l \in line_work_day : l.work_day_id \in DayId /\ l.work_day_id <= last_id
         /\ \A w \in worker_work_day : w.work_day_id \in DayId /\ w.work_day_id <= last_id
         /\ \A o \in owner_default_day : o.work_default_day_id \in DayId /\ o.work_default_day_id <= last_id
<1>1. \A d, date : HasDate(d, date) => d <= last_id
  BY DEF HasDate, IInv, DaysOnce
<1> QED BY <1>1, CreationAssumption DEF IInv, Typed, LinksDated, DayId

(* What a call knows survives the statements of others, which give out new *)
(* ids, and leave alone the day the call holds.                            *)
LEMMA KnowsStays ==
  ASSUME IInv, NEW q \in Session, NEW b, Knows(q, b),
         last_id' \in Nat, last_id <= last_id',
         \A v \in work_day' : v \in work_day \/ ~(v.id <= last_id),
         \A r \in Session : \A d : Holds(r, d)' => Holds(r, d) \/ ~(d <= last_id),
         b.next \in {"default_day", "link"} =>
           /\ Unlinked(b.id)'
           /\ HasDate(b.id, DateOf(b)) => [id |-> b.id, date |-> DateOf(b)] \in work_day'
           /\ \A n \in work_default_day' : n.work_day_id = b.id => n \in work_default_day
  PROVE  Knows(q, b)'
<1>1. \A d \in DayId : d <= last_id => d <= last_id'
  BY Ids
<1> HIDE DEF IInv
<1> QED BY <1>1 DEF Knows, LineDayRead, HasDate, DateOf

(* A statement that writes nothing: the call is at c afterwards.           *)
LEMMA QuietKeeps ==
  ASSUME IInv, NEW p \in Session, NEW c,
         UNCHANGED <<owners, days, links>>,
         call' = [call EXCEPT ![p] = c],
         Knows(p, c), c.next \notin {"default_day", "link"},
         c.next = "work_day" => c.args \in CallArgs /\ Existing(c.args) = {}
  PROVE  IInv'
<1>1. /\ call'[p] = c
      /\ \A q \in Session : q # p => call'[q] = call[q]
      /\ call' = [q \in Session |-> call'[q]]
  BY DEF IInv, Typed
<1>2. UNCHANGED <<line, worker, role, work_day, work_default_day, line_work_day, worker_work_day,
                  owner_default_day, last_id>>
  BY DEF owners, days, links
<1>3. Typed' /\ DaysOnce'
  BY <1>1, <1>2 DEF IInv, Typed, DaysOnce
<1>4. LinksApart' /\ LinksDated'
  BY <1>2 DEF IInv, LinksApart, LinksDated, HasDate
<1>5. \A q \in Session : \A d : Holds(q, d)' => Holds(q, d)
  BY <1>1 DEF Holds
<1>6. ASSUME NEW q \in Session, NEW b, Knows(q, b)
      PROVE  Knows(q, b)'
  BY <1>2, <1>5, <1>6 DEF Knows, LineDayRead, Unlinked, HasDate, DateOf
<1>7. \A q \in Session : Knows(q, call[q])'
  <2> SUFFICES ASSUME NEW q \in Session PROVE Knows(q, call[q])'
    OBVIOUS
  <2>1. CASE q = p
    BY <2>1, <1>1, <1>6
  <2>2. CASE q # p
    BY <2>2, <1>1, <1>6 DEF IInv
  <2> QED BY <2>1, <2>2
<1>8. HeldOnce'
  BY <1>5 DEF IInv, HeldOnce
<1>9. ASSUME NEW args \in CallArgs
      PROVE  /\ IsFiniteSet(Existing(args))'
             /\ Cardinality(Existing(args)') + Cardinality(Past(args)') <= Cardinality(Callers(args))
  <2>1. Existing(args)' = Existing(args)
    BY <1>2 DEF Existing, HasDate
  <2>2. /\ IsFiniteSet(Existing(args))
        /\ Cardinality(Existing(args)) + Cardinality(Past(args)) <= Cardinality(Callers(args))
        /\ Cardinality(Callers(args)) \in Nat
    BY CallersFinite DEF IInv, Counted
  <2>3. CASE c.next = "work_day" /\ c.args = args
    <3>1. Existing(args) = {} /\ Cardinality({}) = 0
      BY <2>3, FS_EmptySet
    <3>2. Past(args)' \subseteq Callers(args)
      <4> SUFFICES ASSUME NEW q \in Past(args)' PROVE args \in Calls[q] /\ q \in Session
        BY DEF Callers
      <4>1. q \in Session /\ call'[q].args = args /\ call'[q].next \in Statement
        BY DEF Past, Statement
      <4>2. CASE q = p
        BY <4>1, <4>2, <1>1 DEF Knows
      <4>3. CASE q # p
        BY <4>1, <4>3, <1>1 DEF IInv, Knows
      <4> QED BY <4>1, <4>2, <4>3
    <3>3. Cardinality(Past(args)') <= Cardinality(Callers(args)) /\ Cardinality(Past(args)') \in Nat
      BY <3>2, CallersFinite, FS_Subset, FS_CardinalityType
    <3> QED BY <2>1, <2>2, <3>1, <3>3
  <2>4. CASE ~(c.next = "work_day" /\ c.args = args)
    <3>1. Past(args)' \subseteq Past(args)
      BY <2>4, <1>1 DEF Past
    <3>2. Past(args) \in SUBSET Session
      BY DEF Past
    <3> QED BY <2>1, <2>2, <3>1, <3>2, CountShrinks
  <2> QED BY <2>3, <2>4
<1>10. Counted'
  BY <1>9 DEF Counted, Callers
<1> QED BY <1>3, <1>4, <1>7, <1>8, <1>10 DEF IInv

(* The call returns, or is lost.                                           *)
LEMMA EndKeeps ==
  ASSUME IInv, NEW p \in Session, NEW c, c = Idle \/ c = Lost,
         UNCHANGED <<owners, days, links>>, call' = [call EXCEPT ![p] = c]
  PROVE  IInv'
<1>1. c.next = "idle" \/ c.next = "lost"
  BY DEF Idle, Lost
<1>2. Knows(p, c)
  BY <1>1 DEF Knows, Statement
<1> QED BY <1>1, <1>2, QuietKeeps

(* What a call is after Goto.                                              *)
LEMMA GotoIs ==
  ASSUME NEW c \in InCall, NEW statement \in Statement, NEW d, d = [c EXCEPT !.next = statement]
  PROVE  /\ d \in InCall /\ d.next = statement
         /\ d.args = c.args /\ d.id = c.id /\ d.line_id = c.line_id /\ d.date = c.date
BY DEF InCall

(* A call that begins has read nothing yet.                                *)
LEMMA BeginKeeps ==
  ASSUME IInv, NEW p \in Session, Begin(p)
  PROVE  IInv'
<1>1. PICK args \in Calls[p] :
        call' = [call EXCEPT ![p] = [next |-> "owner", args |-> args, id |-> NULL,
                                     line_id |-> NULL, date |-> NULL]]
  BY DEF Begin
<1>2. PICK c : c = [next |-> "owner", args |-> args, id |-> NULL, line_id |-> NULL, date |-> NULL]
  OBVIOUS
<1>3. c \in InCall /\ c.next = "owner" /\ c.args = args /\ c.date = NULL
  BY <1>2, CreationAssumption DEF InCall, Statement
<1>4. Knows(p, c)
  BY <1>3 DEF Knows
<1> QED BY <1>1, <1>2, <1>3, <1>4, QuietKeeps DEF Begin

(* A call that goes on after its owner still knows nothing of a line's day. *)
LEMMA SelectOwnerKeeps ==
  ASSUME IInv, NEW p \in Session, SelectOwner(p)
  PROVE  IInv'
<1>1. call[p].next = "owner" /\ Knows(p, call[p]) /\ UNCHANGED <<owners, days, links>>
  BY DEF SelectOwner, At, IInv
<1>2. call[p] \in InCall /\ call[p].args \in Calls[p] /\ call[p].args \in CallArgs /\ call[p].date = NULL
  BY <1>1, CallIs DEF Statement, Knows
<1>3. PICK s : s = IF call[p].args.create = "worker_work_day" THEN "line_day" ELSE "check"
  OBVIOUS
<1>4. CASE Goto(p, s)
  <2>1. PICK c : c = [call[p] EXCEPT !.next = s]
    OBVIOUS
  <2>2. s \in Statement
    BY <1>3 DEF Statement
  <2>3. c \in InCall /\ c.next = s /\ c.args = call[p].args /\ c.date = NULL
    BY <1>2, <2>1, <2>2, GotoIs
  <2>4. Knows(p, c)
    BY <2>3, <1>2, <1>3 DEF Knows
  <2>5. call' = [call EXCEPT ![p] = c]
    BY <1>4, <2>1 DEF Goto
  <2>6. c.next \notin {"default_day", "link", "work_day"}
    BY <2>3, <1>3
  <2> QED BY <1>1, <2>4, <2>5, <2>6, QuietKeeps
<1>5. CASE Return(p)
  BY <1>1, <1>5, EndKeeps DEF Return
<1> QED BY <1>3, <1>4, <1>5 DEF SelectOwner

(* The date that is read is the one of the line's day, which is linked.    *)
LEMMA SelectLineDayKeeps ==
  ASSUME IInv, NEW p \in Session, SelectLineDay(p)
  PROVE  IInv'
<1>1. call[p].next = "line_day" /\ Knows(p, call[p]) /\ UNCHANGED <<owners, days, links>>
  BY DEF SelectLineDay, At, IInv
<1>2. /\ call[p] \in InCall /\ call[p].args \in Calls[p] /\ call[p].args \in CallArgs
      /\ call[p].args.create = "worker_work_day"
  BY <1>1, CallIs DEF Statement, Knows
<1>3. CASE Return(p)
  BY <1>1, <1>3, EndKeeps DEF Return
<1>4. ASSUME NEW l \in line_work_day, NEW v \in work_day,
             l.work_day_id = call[p].args.line_work_day_id, l.work_day_id = v.id,
             call' = [call EXCEPT ![p].line_id = l.line_id, ![p].date = v.date, ![p].next = "check"]
      PROVE  IInv'
  <2>1. PICK c : c = [call[p] EXCEPT !.line_id = l.line_id, !.date = v.date, !.next = "check"]
    OBVIOUS
  <2>2. l.line_id \in Line /\ v.date \in Date \cup {NULL} /\ l.work_day_id \in DayId
    BY DEF IInv, Typed
  <2>3. c \in InCall /\ c.next = "check" /\ c.args = call[p].args /\ c.date = v.date
    BY <1>2, <2>1, <2>2 DEF InCall, Statement
  <2>4. v.date \in Date /\ \A u \in work_day : u.id = v.id => u.date = v.date
    <3>1. PICK date \in Date : [id |-> l.work_day_id, date |-> date] \in work_day
      BY DEF IInv, LinksDated, HasDate
    <3>2. \A u \in work_day : u.id = v.id => u = [id |-> l.work_day_id, date |-> date]
      BY <1>4, <3>1 DEF IInv, DaysOnce
    <3> QED BY <3>2
  <2>5. \A q \in Session : ~Holds(q, v.id)
    BY <1>4 DEF IInv, Knows, Holds, Unlinked
  <2>6. v.id <= last_id
    BY DEF IInv, DaysOnce
  <2>7. LineDayRead(c.args.line_work_day_id, c.date)
    BY <1>4, <2>2, <2>3, <2>4, <2>5, <2>6 DEF LineDayRead
  <2>8. Knows(p, c)
    BY <2>3, <2>7, <1>2 DEF Knows
  <2>9. call' = [call EXCEPT ![p] = c]
    BY <1>4, <2>1
  <2> QED BY <1>1, <2>3, <2>8, <2>9, QuietKeeps
<1>5. \/ Return(p)
      \/ \E x \in line_work_day \X work_day :
           /\ x[1].work_day_id = call[p].args.line_work_day_id /\ x[1].work_day_id = x[2].id
           /\ call' = [call EXCEPT ![p].line_id = x[1].line_id, ![p].date = x[2].date, ![p].next = "check"]
  BY DEF SelectLineDay
<1> QED BY <1>3, <1>4, <1>5

(* A call goes past the check only when there is no day, so the count holds. *)
LEMMA CheckKeeps ==
  ASSUME IInv, NEW p \in Session, Check(p)
  PROVE  IInv'
<1>1. call[p].next = "check" /\ Knows(p, call[p]) /\ UNCHANGED <<owners, days, links>>
  BY DEF Check, At, IInv
<1>2. call[p] \in InCall /\ call[p].args \in Calls[p] /\ call[p].args \in CallArgs
  BY <1>1, CallIs DEF Statement
<1>3. CASE Return(p)
  BY <1>1, <1>3, EndKeeps DEF Return
<1>4. CASE Goto(p, "work_day") /\ Existing(call[p].args) = {}
  <2>1. PICK c : c = [call[p] EXCEPT !.next = "work_day"]
    OBVIOUS
  <2>2. c \in InCall /\ c.next = "work_day" /\ c.args = call[p].args /\ c.date = call[p].date
    BY <1>2, <2>1, GotoIs DEF Statement
  <2>3. Knows(p, c)
    BY <2>2, <1>1, <1>2 DEF Knows
  <2>4. call' = [call EXCEPT ![p] = c]
    BY <1>4, <2>1 DEF Goto
  <2> QED BY <1>1, <1>2, <1>4, <2>2, <2>3, <2>4, QuietKeeps
<1> QED BY <1>3, <1>4 DEF Check, AlreadyThere

-----------------------------------------------------------------------------
(* p_create_work_day, or the first INSERT of p_create_work_default_day.    *)
LEMMA InsertDayKeeps ==
  ASSUME IInv, NEW p \in Session, InsertDay(p)
  PROVE  IInv'
<1>1. call[p].next = "work_day" /\ Knows(p, call[p])
  BY DEF InsertDay, At, IInv
<1>2. call[p] \in InCall /\ call[p].args \in Calls[p] /\ call[p].args \in CallArgs
  BY <1>1, CallIs DEF Statement
<1>3. PICK n : n = last_id + 1
  OBVIOUS
<1>4. /\ n \in DayId /\ n \in Nat /\ last_id' = n /\ last_id \in Nat /\ last_id < n
      /\ UNCHANGED <<line, worker, role, line_work_day, worker_work_day, owner_default_day, work_default_day>>
  BY <1>3, Ids DEF InsertDay, owners, links
<1>5. PICK date : date = DateOf(call[p])
  OBVIOUS
<1>6. work_day' = work_day \cup {[id |-> n, date |-> date]}
  BY <1>3, <1>5 DEF InsertDay, DateOf
<1>7. date \in Date \cup {NULL}
  BY <1>2, <1>5, Arguments DEF DateOf, InCall
<1>8. PICK c : c = [call[p] EXCEPT !.id = n,
                      !.next = IF call[p].args.create = "default_day" THEN "default_day" ELSE "link"]
  OBVIOUS
<1>9. /\ call' = [call EXCEPT ![p] = c]
      /\ c \in InCall /\ c.id = n /\ c.args = call[p].args /\ c.date = call[p].date
      /\ c.next = IF call[p].args.create = "default_day" THEN "default_day" ELSE "link"
  BY <1>2, <1>3, <1>4, <1>8 DEF InsertDay, InCall, Statement
<1>10. /\ call'[p] = c
       /\ \A q \in Session : q # p => call'[q] = call[q]
       /\ call' = [q \in Session |-> call'[q]]
  BY <1>9 DEF IInv, Typed
<1>11. Typed' /\ DaysOnce'
  <2>1. Typed'
    <3>1. last_id' \in 0 .. MaxDay
      BY <1>4, CreationAssumption DEF DayId
    <3>2. work_day' \subseteq [id: DayId, date: Date \cup {NULL}]
      BY <1>4, <1>6, <1>7 DEF IInv, Typed
    <3> QED BY <3>1, <3>2, <1>4, <1>10 DEF IInv, Typed
  <2>2. \A v \in work_day : v.id \in Nat /\ v.id <= last_id /\ v.id # n
    <3>1. \A v \in work_day : v.id \in Nat
      BY Ids
    <3>2. \A v \in work_day : v.id <= last_id
      BY DEF IInv, DaysOnce
    <3> QED BY <3>1, <3>2, <1>4
  <2>3. \A m \in work_default_day : m.work_day_id \in Nat /\ m.work_day_id <= last_id
    BY <1>4, Ids DEF IInv, DaysOnce, Typed
  <2> QED BY <1>4, <1>6, <2>1, <2>2, <2>3 DEF IInv, DaysOnce
<1>12. LinksApart' /\ LinksDated'
  BY <1>4, <1>6 DEF IInv, LinksApart, LinksDated, HasDate
<1>13. Unlinked(n)'
  BY <1>4, Ids DEF Unlinked
<1>14. \A q \in Session : \A d : Holds(q, d)' => (q # p /\ Holds(q, d)) \/ (q = p /\ d = n)
  BY <1>9, <1>10 DEF Holds
<1>15. \A q \in Session : \A d : Holds(q, d) => d \in DayId /\ d <= last_id
  BY DEF IInv, Knows, Holds, HasDate, DaysOnce
<1>16. HeldOnce'
  BY <1>4, <1>14, <1>15 DEF IInv, HeldOnce
<1>17. \A r \in Session : \A d : Holds(r, d)' => Holds(r, d) \/ ~(d <= last_id)
  BY <1>4, <1>14
<1>18. \A v \in work_day' : v \in work_day \/ ~(v.id <= last_id)
  BY <1>4, <1>6
<1>19. \A q \in Session : Knows(q, call[q])'
  <2> SUFFICES ASSUME NEW q \in Session PROVE Knows(q, call[q])'
    OBVIOUS
  <2>1. CASE q # p
    <3>1. PICK b : b = call[q]
      OBVIOUS
    <3>2. Knows(q, b)
      BY <3>1 DEF IInv
    <3>3. Unlinked(b.id)' = Unlinked(b.id)
      BY <1>4 DEF Unlinked
    <3>4. Knows(q, b)'
      BY <3>2, <3>3, <1>4, <1>6, <1>17, <1>18, KnowsStays DEF Knows, HasDate
    <3> QED BY <3>1, <3>4, <2>1, <1>10
  <2>2. CASE q = p
    <3>1. c.args.create = "worker_work_day" => LineDayRead(c.args.line_work_day_id, c.date)
      BY <1>1, <1>9 DEF Knows
    <3>2. c.args.create = "worker_work_day" => LineDayRead(c.args.line_work_day_id, c.date)'
      <4>1. \A d \in DayId : d <= last_id => d <= last_id'
        BY <1>4, Ids
      <4> QED BY <3>1, <4>1, <1>17, <1>18 DEF LineDayRead
    <3>3. c.args.create # "worker_work_day" => c.date = NULL
      BY <1>1, <1>9 DEF Knows
    <3>4. [id |-> c.id, date |-> DateOf(c)] \in work_day'
      BY <1>5, <1>6, <1>9 DEF DateOf
    <3>5. \A m \in work_default_day' : m.work_day_id # c.id
      BY <1>4, <1>9 DEF IInv, DaysOnce, Typed
    <3>6. Knows(p, c)'
      BY <3>2, <3>3, <3>4, <3>5, <1>2, <1>4, <1>9, <1>13 DEF Knows, HasDate, DateOf, Statement
    <3> QED BY <3>6, <2>2, <1>10
  <2> QED BY <2>1, <2>2
<1>20. ASSUME NEW args \in CallArgs
       PROVE  Existing(args)' = Existing(args) /\ Past(args)' = Past(args)
  <2>1. \A l \in line_work_day : \A x : HasDate(l.work_day_id, x)' = HasDate(l.work_day_id, x)
    BY <1>4, <1>6, Ids DEF HasDate
  <2>2. Existing(args)' = Existing(args)
    BY <2>1, <1>4, Arguments DEF Existing
  <2>3. Past(args)' = Past(args)
    BY <1>1, <1>9, <1>10 DEF Past
  <2> QED BY <2>2, <2>3
<1>21. Counted'
  BY <1>20 DEF IInv, Counted, Callers
<1> QED BY <1>11, <1>12, <1>16, <1>19, <1>21 DEF IInv

-----------------------------------------------------------------------------
(* The second INSERT of p_create_work_default_day, or its handler.         *)
LEMMA InsertDefaultDayKeeps ==
  ASSUME IInv, NEW p \in Session, InsertDefaultDay(p)
  PROVE  IInv'
<1>1. call[p].next = "default_day" /\ Knows(p, call[p])
  BY DEF InsertDefaultDay, At, IInv
<1>2. call[p] \in InCall /\ call[p].args \in Calls[p] /\ call[p].args \in CallArgs
  BY <1>1, CallIs DEF Statement
<1>3. PICK d : d = call[p].id
  OBVIOUS
<1>4. /\ d \in DayId /\ Unlinked(d) /\ call[p].args.create = "default_day" /\ call[p].date = NULL
      /\ \A m \in work_default_day : m.work_day_id # d
  BY <1>1, <1>3 DEF Knows
<1>5. HasDate(d, NULL) /\ d <= last_id
  <2>1. HasDate(d, NULL)
    BY <1>1, <1>3, <1>4 DEF Knows, DateOf
  <2> QED BY <2>1 DEF IInv, DaysOnce, HasDate
<1>6. UNCHANGED <<line, worker, role, line_work_day, worker_work_day, owner_default_day, last_id>>
  BY DEF InsertDefaultDay, owners, links
<1>7. last_id' \in Nat /\ last_id <= last_id'
  BY <1>6, Ids
<1>8. LinksApart'
  BY <1>6 DEF IInv, LinksApart
<1>9. ASSUME NEW q \in Session, q # p, call[q].next \in {"default_day", "link"}
      PROVE  call[q].id # d
  BY <1>1, <1>3, <1>4, <1>9 DEF IInv, HeldOnce, Holds
<1>10. ASSUME chk_day_number(call[p].args.day_number),
              work_default_day' = work_default_day \cup {[work_day_id |-> d, day_number |-> call[p].args.day_number]},
              Goto(p, "link"), UNCHANGED work_day
       PROVE  IInv'
  <2>1. PICK c : c = [call[p] EXCEPT !.next = "link"]
    OBVIOUS
  <2>2. /\ c \in InCall /\ c.next = "link" /\ c.args = call[p].args /\ c.id = d /\ c.date = NULL
    BY <1>2, <1>3, <1>4, <2>1, GotoIs DEF Statement
  <2>3. /\ call'[p] = c
        /\ \A q \in Session : q # p => call'[q] = call[q]
        /\ call' = [q \in Session |-> call'[q]]
    BY <1>10, <2>1 DEF Goto, IInv, Typed
  <2>4. Typed' /\ DaysOnce'
    <3>1. call[p].args.day_number \in 0 .. 6
      BY <1>10 DEF chk_day_number
    <3>2. work_default_day' \subseteq [work_day_id: DayId, day_number: 0 .. 6]
      BY <3>1, <1>4, <1>10 DEF IInv, Typed
    <3>3. Typed'
      BY <3>2, <1>6, <1>10, <2>3 DEF IInv, Typed
    <3> QED BY <3>3, <1>4, <1>5, <1>6, <1>10 DEF IInv, DaysOnce
  <2>5. LinksDated'
    BY <1>6, <1>10 DEF IInv, LinksDated, HasDate
  <2>6. \A q \in Session : \A x : Holds(q, x)' => Holds(q, x)
    BY <1>1, <1>3, <2>2, <2>3 DEF Holds
  <2>7. HeldOnce'
    BY <2>6 DEF IInv, HeldOnce
  <2>8. ASSUME NEW q \in Session PROVE Knows(q, call[q])'
    <3>1. CASE q # p
      <4>1. PICK b : b = call[q]
        OBVIOUS
      <4>2. Knows(q, b)
        BY <4>1 DEF IInv
      <4>3. Unlinked(b.id)' = Unlinked(b.id)
        BY <1>6 DEF Unlinked
      <4>4. Knows(q, b)'
        BY <4>1, <4>2, <4>3, <3>1, <1>7, <1>9, <1>10, <2>6, KnowsStays DEF Knows, HasDate
      <4> QED BY <4>1, <4>4, <3>1, <2>3
    <3>2. CASE q = p
      <4>1. Knows(p, c)'
        BY <2>2, <1>2, <1>4, <1>5, <1>6, <1>10 DEF Knows, HasDate, DateOf, Unlinked, Statement
      <4> QED BY <4>1, <3>2, <2>3
    <3> QED BY <3>1, <3>2
  <2>9. ASSUME NEW args \in CallArgs
        PROVE  Existing(args)' = Existing(args) /\ Past(args)' = Past(args)
    <3>1. \A o \in owner_default_day : o.work_default_day_id # d
      BY <1>4 DEF Unlinked
    <3>2. Existing(args)' = Existing(args)
      BY <3>1, <1>6, <1>10, Arguments DEF Existing, HasDate
    <3>3. Past(args)' = Past(args)
      BY <1>1, <2>2, <2>3 DEF Past
    <3> QED BY <3>2, <3>3
  <2>10. Counted'
    BY <2>9 DEF IInv, Counted, Callers
  <2> QED BY <1>8, <2>4, <2>5, <2>7, <2>8, <2>10 DEF IInv
<1>11. ASSUME work_day' = Undone(d), Return(p), UNCHANGED work_default_day
       PROVE  IInv'
  <2>1. work_day' = {v \in work_day : v.id # d}
    BY <1>11 DEF Undone
  <2>2. /\ call'[p] = Idle
        /\ \A q \in Session : q # p => call'[q] = call[q]
        /\ call' = [q \in Session |-> call'[q]]
    BY <1>11 DEF Return, IInv, Typed
  <2>3. Typed' /\ DaysOnce'
    BY <1>6, <1>11, <2>1, <2>2 DEF IInv, Typed, DaysOnce
  <2>4. LinksDated'
    <3>1. \A e : \A date \in Date : HasDate(e, date) => HasDate(e, date)'
      <4> SUFFICES ASSUME NEW e, NEW date \in Date, HasDate(e, date) PROVE HasDate(e, date)'
        OBVIOUS
      <4>1. e # d
        BY <1>5, CreationAssumption DEF IInv, DaysOnce, HasDate
      <4> QED BY <4>1, <2>1 DEF HasDate
    <3>2. \A o \in owner_default_day : HasDate(o.work_default_day_id, NULL)'
      BY <1>4, <2>1 DEF IInv, LinksDated, HasDate, Unlinked
    <3> QED BY <3>1, <3>2, <1>6 DEF IInv, LinksDated
  <2>5. \A q \in Session : \A x : Holds(q, x)' => Holds(q, x)
    BY <2>2 DEF Holds, Idle
  <2>6. HeldOnce'
    BY <2>5 DEF IInv, HeldOnce
  <2>7. ASSUME NEW q \in Session PROVE Knows(q, call[q])'
    <3>1. CASE q # p
      <4>1. PICK b : b = call[q]
        OBVIOUS
      <4>2. Knows(q, b)
        BY <4>1 DEF IInv
      <4>3. Unlinked(b.id)' = Unlinked(b.id)
        BY <1>6 DEF Unlinked
      <4>4. b.next \in {"default_day", "link"} => b.id # d
        BY <4>1, <3>1, <1>9
      <4>5. Knows(q, b)'
        BY <4>2, <4>3, <4>4, <1>7, <1>11, <2>1, <2>5, KnowsStays DEF Knows, HasDate
      <4> QED BY <4>1, <4>5, <3>1, <2>2
    <3>2. CASE q = p
      <4>1. Knows(p, Idle)'
        BY DEF Knows, Idle, Statement
      <4> QED BY <4>1, <3>2, <2>2
    <3> QED BY <3>1, <3>2
  <2>8. ASSUME NEW args \in CallArgs
        PROVE  Existing(args)' = Existing(args) /\ Past(args)' \subseteq Past(args)
    <3>1. \A l \in line_work_day : \A x : HasDate(l.work_day_id, x)' = HasDate(l.work_day_id, x)
      BY <1>4, <2>1 DEF HasDate, Unlinked
    <3>2. Existing(args)' = Existing(args)
      BY <3>1, <1>6, <1>11, Arguments DEF Existing
    <3>3. Past(args)' \subseteq Past(args)
      BY <2>2 DEF Past, Idle
    <3> QED BY <3>2, <3>3
  <2>9. Counted'
    <3> SUFFICES ASSUME NEW args \in CallArgs
                 PROVE  /\ IsFiniteSet(Existing(args)')
                        /\ Cardinality(Existing(args)') + Cardinality(Past(args)') <= Cardinality(Callers(args))
      BY DEF Counted, Callers
    <3>1. /\ IsFiniteSet(Existing(args)) /\ Past(args) \in SUBSET Session
          /\ Cardinality(Existing(args)) + Cardinality(Past(args)) <= Cardinality(Callers(args))
          /\ Cardinality(Callers(args)) \in Nat
      BY CallersFinite DEF IInv, Counted, Past
    <3> QED BY <3>1, <2>8, CountShrinks
  <2> QED BY <1>8, <2>3, <2>4, <2>6, <2>7, <2>9 DEF IInv
<1> QED BY <1>3, <1>10, <1>11 DEF InsertDefaultDay

-----------------------------------------------------------------------------
(* The last INSERT, or the foreign key that refuses it.                    *)

\* What is shared by the three tables a link may go to: d is linked, and nothing else
\* changes but the call, which returns.
LinkFrame(p, d) ==
  /\ UNCHANGED <<line, worker, role, work_day, work_default_day, last_id>>
  /\ call' = [call EXCEPT ![p] = Idle]
  /\ \A l \in line_work_day' : l \in line_work_day \/ l.work_day_id = d
  /\ \A w \in worker_work_day' : w \in worker_work_day \/ w.work_day_id = d
  /\ \A o \in owner_default_day' : o \in owner_default_day \/ o.work_default_day_id = d

(* The calls once d is linked.                                             *)
LEMMA LinkedCalls ==
  ASSUME IInv, NEW p \in Session, call[p].next = "link",
         NEW d, d = call[p].id, LinkFrame(p, d)
  PROVE  /\ call' = [q \in Session |-> call'[q]]
         /\ \A q \in Session : Knows(q, call[q])'
         /\ HeldOnce'
         /\ \A args \in CallArgs : Past(args)' \subseteq Past(args) \ (IF args = call[p].args THEN {p} ELSE {})
<1>1. /\ call'[p] = Idle
      /\ \A q \in Session : q # p => call'[q] = call[q]
      /\ call' = [q \in Session |-> call'[q]]
  BY DEF LinkFrame, IInv, Typed
<1>2. /\ UNCHANGED <<line, worker, role, work_day, work_default_day, last_id>>
      /\ last_id' \in Nat /\ last_id <= last_id'
  BY Ids DEF LinkFrame
<1>3. \A q \in Session : \A x : Holds(q, x)' => Holds(q, x)
  BY <1>1 DEF Holds, Idle
<1>4. d \in DayId
  BY DEF IInv, Knows
<1>5. ASSUME NEW q \in Session PROVE Knows(q, call[q])'
  <2>1. CASE q # p
    <3>1. PICK b : b = call[q]
      OBVIOUS
    <3>2. Knows(q, b)
      BY <3>1 DEF IInv
    <3>3. b.next \in {"default_day", "link"} => b.id # d
      BY <3>1, <2>1, <1>4 DEF IInv, HeldOnce, Holds
    <3>4. b.next \in {"default_day", "link"} => Unlinked(b.id)'
      BY <3>2, <3>3 DEF Unlinked, LinkFrame, Knows
    <3>5. Knows(q, b)'
      BY <3>2, <3>4, <1>2, <1>3, KnowsStays DEF HasDate
    <3> QED BY <3>1, <3>5, <2>1, <1>1
  <2>2. CASE q = p
    <3>1. Knows(p, Idle)'
      BY DEF Knows, Idle, Statement
    <3> QED BY <3>1, <2>2, <1>1
  <2> QED BY <2>1, <2>2
<1>6. HeldOnce'
  BY <1>3 DEF IInv, HeldOnce
<1>7. \A args \in CallArgs : Past(args)' \subseteq Past(args) \ (IF args = call[p].args THEN {p} ELSE {})
  BY <1>1 DEF Past, Idle
<1> QED BY <1>1, <1>5, <1>6, <1>7

(* The call that adds a row to those it looked for is one of those counted.*)
LEMMA LinkedCounted ==
  ASSUME IInv, NEW p \in Session, call[p].next = "link", call[p].args \in CallArgs, NEW x,
         \A args \in CallArgs :
           /\ Existing(args)' \subseteq Existing(args) \cup (IF args = call[p].args THEN {x} ELSE {})
           /\ Past(args)' \subseteq Past(args) \ (IF args = call[p].args THEN {p} ELSE {})
  PROVE  Counted'
<1> SUFFICES ASSUME NEW args \in CallArgs
             PROVE  /\ IsFiniteSet(Existing(args)')
                    /\ Cardinality(Existing(args)') + Cardinality(Past(args)') <= Cardinality(Callers(args))
  BY DEF Counted, Callers
<1>1. /\ IsFiniteSet(Existing(args)) /\ Past(args) \in SUBSET Session
      /\ Cardinality(Existing(args)) + Cardinality(Past(args)) <= Cardinality(Callers(args))
      /\ Cardinality(Callers(args)) \in Nat
  BY CallersFinite DEF IInv, Counted, Past
<1>2. CASE args = call[p].args
  <2>1. p \in Past(args)
    BY <1>2 DEF Past
  <2>2. /\ Existing(args)' \in SUBSET (Existing(args) \cup {x})
        /\ Past(args)' \in SUBSET (Past(args) \ {p})
    BY <1>2
  <2> QED BY <1>1, <2>1, <2>2, CountMoves
<1>3. CASE args # call[p].args
  <2>1. Existing(args)' \in SUBSET Existing(args) /\ Past(args)' \in SUBSET Past(args)
    BY <1>3
  <2> QED BY <1>1, <2>1, CountShrinks
<1> QED BY <1>2, <1>3

(* A link moves a session of the count from those past the check to the rows. *)
LEMMA LinkKeeps ==
  ASSUME IInv, NEW p \in Session, Link(p)
  PROVE  IInv'
<1>1. call[p].next = "link" /\ Knows(p, call[p])
  BY DEF Link, At, IInv
<1>2. call[p] \in InCall /\ call[p].args \in Calls[p] /\ call[p].args \in CallArgs
  BY <1>1, CallIs DEF Statement
<1>3. CASE ~ParentsExist(call[p])
  <2>1. UNCHANGED <<owners, days, links>> /\ call' = [call EXCEPT ![p] = Idle]
    BY <1>3 DEF Link, Return
  <2> QED BY <2>1, EndKeeps
<1>4. CASE ParentsExist(call[p])
  <2>1. PICK c : c = call[p]
    OBVIOUS
  <2>2. PICK d : d = c.id
    OBVIOUS
  <2>3. /\ c \in InCall /\ c.next = "link" /\ c.args \in CallArgs
        /\ d \in DayId /\ Unlinked(d) /\ HasDate(d, DateOf(c))
    BY <1>1, <1>2, <2>1, <2>2 DEF Knows
  <2>4. /\ ParentsExist(c) /\ InsertLink(c) /\ call' = [call EXCEPT ![p] = Idle]
        /\ UNCHANGED <<line, worker, role, work_day, work_default_day, last_id>>
    BY <1>4, <2>1 DEF Link, Return, owners, days
  <2>5. DaysOnce'
    BY <2>4 DEF IInv, DaysOnce
  <2>6. \A e, date : HasDate(e, date)' = HasDate(e, date)
    BY <2>4 DEF HasDate
  <2>7. \A date : HasDate(d, date) => date = DateOf(c)
    BY <2>3 DEF IInv, DaysOnce, HasDate
  <2>8. CASE c.args.create = "line_work_day"
    <3>1. PICK l : l = [work_day_id |-> d, line_id |-> c.args.line_id]
      OBVIOUS
    <3>2. /\ line_work_day' = line_work_day \cup {l}
          /\ UNCHANGED <<worker_work_day, owner_default_day>>
          /\ l.work_day_id = d /\ l.line_id = c.args.line_id
      BY <2>2, <2>4, <2>8, <3>1 DEF InsertLink, LinkedDay
    <3>3. c.args.line_id \in Line /\ c.args.date \in Date /\ c.args = LineDay(c.args.line_id, c.args.date)
      BY <2>3, <2>8, Arguments
    <3>4. LinkFrame(p, d)
      BY <2>4, <3>2 DEF LinkFrame
    <3>5. /\ call' = [q \in Session |-> call'[q]]
          /\ \A q \in Session : Knows(q, call[q])'
          /\ HeldOnce'
          /\ \A args \in CallArgs : Past(args)' \subseteq Past(args) \ (IF args = call[p].args THEN {p} ELSE {})
      BY <1>1, <2>1, <2>2, <3>4, LinkedCalls
    <3>6. Typed'
      <4>1. line_work_day' \subseteq [work_day_id: DayId, line_id: Line]
        BY <2>3, <3>1, <3>2, <3>3 DEF IInv, Typed
      <4> QED BY <4>1, <2>4, <3>2, <3>5 DEF IInv, Typed
    <3>7. LinksApart'
      BY <2>3, <3>2 DEF IInv, LinksApart, Unlinked
    <3>8. LinksDated'
      BY <2>3, <2>4, <2>8, <3>2, <3>3 DEF IInv, LinksDated, HasDate, DateOf
    <3>9. ASSUME NEW args \in CallArgs
          PROVE  Existing(args)' \subseteq Existing(args) \cup (IF args = call[p].args THEN {l} ELSE {})
      <4>1. CASE args.create = "line_work_day"
        <5>1. args = LineDay(args.line_id, args.date)
          BY <4>1, Arguments
        <5>2. HasDate(l.work_day_id, args.date) => args.date = c.args.date
          BY <2>7, <2>8, <3>2 DEF DateOf
        <5>3. l.line_id = args.line_id /\ HasDate(l.work_day_id, args.date) => args = call[p].args
          BY <5>1, <5>2, <2>1, <3>2, <3>3
        <5> QED BY <4>1, <5>3, <2>4, <3>2 DEF Existing, HasDate
      <4>2. CASE args.create # "line_work_day"
        BY <4>2, <2>4, <3>2, Arguments DEF Existing, HasDate
      <4> QED BY <4>1, <4>2
    <3>10. Counted'
      BY <1>1, <1>2, <3>5, <3>9, LinkedCounted
    <3> QED BY <2>5, <3>5, <3>6, <3>7, <3>8, <3>10 DEF IInv
  <2>9. CASE c.args.create = "worker_work_day"
    <3>1. PICK w : w = [work_day_id |-> d, line_work_day_id |-> c.args.line_work_day_id, line_id |-> c.line_id,
                        worker_id |-> c.args.worker_id, role_id |-> c.args.role_id]
      OBVIOUS
    <3>2. /\ worker_work_day' = worker_work_day \cup {w}
          /\ UNCHANGED <<line_work_day, owner_default_day>>
          /\ w.work_day_id = d /\ w.line_work_day_id = c.args.line_work_day_id
          /\ w.worker_id = c.args.worker_id /\ w.role_id = c.args.role_id
      BY <2>2, <2>4, <2>9, <3>1 DEF InsertLink, LinkedDay
    <3>3. /\ c.args = WorkerDay(c.args.line_work_day_id, c.args.worker_id, c.args.role_id)
          /\ c.args.line_work_day_id \in DayId /\ c.args.worker_id \in Worker /\ c.args.role_id \in Role
      BY <2>3, <2>9, Arguments
    <3>4. LinkFrame(p, d)
      BY <2>4, <3>2 DEF LinkFrame
    <3>5. /\ call' = [q \in Session |-> call'[q]]
          /\ \A q \in Session : Knows(q, call[q])'
          /\ HeldOnce'
          /\ \A args \in CallArgs : Past(args)' \subseteq Past(args) \ (IF args = call[p].args THEN {p} ELSE {})
      BY <1>1, <2>1, <2>2, <3>4, LinkedCalls
    <3>6. PICK l \in line_work_day : l.work_day_id = c.args.line_work_day_id /\ l.line_id = c.line_id
      BY <2>4, <2>9 DEF ParentsExist
    <3>7. Typed'
      <4>1. c.line_id \in Line
        BY <3>6 DEF IInv, Typed
      <4>2. worker_work_day' \subseteq
              [work_day_id: DayId, line_work_day_id: DayId, line_id: Line, worker_id: Worker, role_id: Role]
        BY <2>3, <3>1, <3>2, <3>3, <4>1 DEF IInv, Typed
      <4> QED BY <4>2, <2>4, <3>2, <3>5 DEF IInv, Typed
    <3>8. LinksApart'
      BY <2>3, <3>2 DEF IInv, LinksApart, Unlinked
    <3>9. LinksDated'
      <4>1. /\ c.date \in Date /\ HasDate(d, c.date)
            /\ \A v \in work_day : v.id = c.args.line_work_day_id => v.date = c.date
        BY <1>1, <2>1, <2>3, <2>9 DEF Knows, LineDayRead, DateOf
      <4>2. PICK date \in Date : HasDate(l.work_day_id, date)
        BY DEF IInv, LinksDated
      <4>3. HasDate(c.args.line_work_day_id, c.date)
        BY <3>6, <4>1, <4>2 DEF HasDate
      <4> QED BY <4>1, <4>3, <2>4, <3>2 DEF IInv, LinksDated, HasDate
    <3>10. ASSUME NEW args \in CallArgs
           PROVE  Existing(args)' \subseteq Existing(args) \cup (IF args = call[p].args THEN {w} ELSE {})
      <4>1. CASE args.create = "worker_work_day"
        <5>1. args = WorkerDay(args.line_work_day_id, args.worker_id, args.role_id)
          BY <4>1, Arguments
        <5>2. w.line_work_day_id = args.line_work_day_id /\ w.worker_id = args.worker_id /\ w.role_id = args.role_id
                => args = call[p].args
          BY <5>1, <2>1, <3>2, <3>3
        <5> QED BY <4>1, <5>2, <3>2 DEF Existing
      <4>2. CASE args.create # "worker_work_day"
        BY <4>2, <2>4, <3>2, Arguments DEF Existing, HasDate
      <4> QED BY <4>1, <4>2
    <3>11. Counted'
      BY <1>1, <1>2, <3>5, <3>10, LinkedCounted
    <3> QED BY <2>5, <3>5, <3>7, <3>8, <3>9, <3>11 DEF IInv
  <2>10. CASE c.args.create = "default_day"
    <3>1. PICK o : o = [work_default_day_id |-> d, owner |-> c.args.owner]
      OBVIOUS
    <3>2. /\ owner_default_day' = owner_default_day \cup {o}
          /\ UNCHANGED <<line_work_day, worker_work_day>>
          /\ o.work_default_day_id = d /\ o.owner = c.args.owner
      BY <2>2, <2>4, <2>10, <3>1 DEF InsertLink, LinkedDay
    <3>3. c.args.owner \in Line \cup Worker /\ c.args = DefaultDay(c.args.owner, c.args.day_number)
      BY <2>3, <2>10, Arguments
    <3>4. LinkFrame(p, d)
      BY <2>4, <3>2 DEF LinkFrame
    <3>5. /\ call' = [q \in Session |-> call'[q]]
          /\ \A q \in Session : Knows(q, call[q])'
          /\ HeldOnce'
          /\ \A args \in CallArgs : Past(args)' \subseteq Past(args) \ (IF args = call[p].args THEN {p} ELSE {})
      BY <1>1, <2>1, <2>2, <3>4, LinkedCalls
    <3>6. Typed'
      <4>1. owner_default_day' \subseteq [work_default_day_id: DayId, owner: Line \cup Worker]
        BY <2>3, <3>1, <3>2, <3>3 DEF IInv, Typed
      <4> QED BY <4>1, <2>4, <3>2, <3>5 DEF IInv, Typed
    <3>7. LinksApart'
      BY <2>3, <3>2 DEF IInv, LinksApart, Unlinked
    <3>8. LinksDated'
      <4>1. HasDate(d, NULL)
        BY <1>1, <2>1, <2>3, <2>10 DEF Knows, DateOf
      <4> QED BY <4>1, <2>4, <3>2 DEF IInv, LinksDated, HasDate
    <3>9. ASSUME NEW args \in CallArgs
          PROVE  Existing(args)' \subseteq Existing(args) \cup (IF args = call[p].args THEN {o} ELSE {})
      <4>1. CASE args.create = "default_day"
        <5>1. args = DefaultDay(args.owner, args.day_number)
          BY <4>1, Arguments
        <5>2. \A n \in work_default_day : n.work_day_id = d => n.day_number = c.args.day_number
          BY <1>1, <2>1, <2>2, <2>10 DEF Knows
        <5>3. o.owner = args.owner
                /\ (\E n \in work_default_day : n.work_day_id = o.work_default_day_id /\ n.day_number = args.day_number)
                => args = call[p].args
          BY <5>1, <5>2, <2>1, <3>2, <3>3
        <5> QED BY <4>1, <5>3, <2>4, <3>2 DEF Existing
      <4>2. CASE args.create # "default_day"
        BY <4>2, <2>4, <3>2, Arguments DEF Existing, HasDate
      <4> QED BY <4>1, <4>2
    <3>10. Counted'
      BY <1>1, <1>2, <3>5, <3>9, LinkedCounted
    <3> QED BY <2>5, <3>5, <3>6, <3>7, <3>8, <3>10 DEF IInv
  <2> QED BY <2>3, <2>8, <2>9, <2>10, Arguments
<1> QED BY <1>3, <1>4

-----------------------------------------------------------------------------
(* Deletions: links go, and with them the work_days in gone.               *)
LEMMA DeletionKeeps ==
  ASSUME IInv, NEW gone,
         line' \subseteq Line, worker' \subseteq Worker, role' \subseteq Role,
         UNCHANGED <<work_default_day, last_id, call>>,
         work_day' = {v \in work_day : v.id \notin gone},
         line_work_day' \subseteq line_work_day,
         worker_work_day' \subseteq worker_work_day,
         owner_default_day' \subseteq owner_default_day,
         \A d \in gone : \E l \in line_work_day : l.work_day_id = d,
         \A l \in line_work_day' : l.work_day_id \notin gone,
         \A w \in worker_work_day' : w.line_work_day_id \notin gone
  PROVE  IInv'
<1>1. Typed' /\ DaysOnce'
  BY DEF IInv, Typed, DaysOnce
<1>2. LinksApart'
  BY DEF IInv, LinksApart
<1>3. LinksDated'
  <2>1. \A w \in worker_work_day : w.work_day_id \notin gone
    BY DEF IInv, LinksApart
  <2>2. \A o \in owner_default_day : o.work_default_day_id \notin gone
    BY DEF IInv, LinksApart
  <2> QED BY <2>1, <2>2 DEF IInv, LinksDated, HasDate
<1>4. \A q \in Session : \A x : Holds(q, x)' => Holds(q, x)
  BY DEF Holds
<1>5. HeldOnce'
  BY <1>4 DEF IInv, HeldOnce
<1>6. ASSUME NEW q \in Session PROVE Knows(q, call[q])'
  <2>1. PICK b : b = call[q]
    OBVIOUS
  <2>2. Knows(q, b) /\ call'[q] = b
    BY <2>1 DEF IInv
  <2>3. b.next \in {"default_day", "link"} => Unlinked(b.id)' /\ b.id \notin gone
    BY <2>2 DEF Knows, Unlinked
  <2>4. last_id' \in Nat /\ last_id <= last_id'
    BY Ids
  <2>5. Knows(q, b)'
    BY <2>2, <2>3, <2>4, <1>4, KnowsStays DEF HasDate
  <2> QED BY <2>2, <2>5
<1>7. Counted'
  <2> SUFFICES ASSUME NEW args \in CallArgs
               PROVE  /\ IsFiniteSet(Existing(args)')
                      /\ Cardinality(Existing(args)') + Cardinality(Past(args)') <= Cardinality(Callers(args))
    BY DEF Counted, Callers
  <2>1. /\ IsFiniteSet(Existing(args)) /\ Past(args) \in SUBSET Session
        /\ Cardinality(Existing(args)) + Cardinality(Past(args)) <= Cardinality(Callers(args))
        /\ Cardinality(Callers(args)) \in Nat
    BY CallersFinite DEF IInv, Counted, Past
  <2>2. Existing(args)' \subseteq Existing(args)
    BY Arguments DEF Existing, HasDate
  <2>3. Past(args)' = Past(args)
    BY DEF Past
  <2> QED BY <2>1, <2>2, <2>3, CountShrinks
<1> QED BY <1>1, <1>2, <1>3, <1>5, <1>6, <1>7 DEF IInv

(* What is deleted takes the links that lead to it along.                  *)
LEMMA DeleteKeeps ==
  ASSUME IInv, Delete
  PROVE  IInv'
<1>1. line \subseteq Line /\ worker \subseteq Worker /\ role \subseteq Role
  BY DEF IInv, Typed
<1>2. PICK none : none = {}
  OBVIOUS
<1>3. ASSUME NEW w \in Worker, delete_worker(w) PROVE IInv'
  <2>1. /\ UNCHANGED <<line, role, work_day, work_default_day, last_id, line_work_day, call>>
        /\ worker' \subseteq Worker
        /\ worker_work_day' \subseteq worker_work_day /\ owner_default_day' \subseteq owner_default_day
    BY <1>1, <1>3 DEF delete_worker, days
  <2>2. work_day' = {v \in work_day : v.id \notin none}
    BY <1>2, <2>1
  <2> QED BY <1>1, <1>2, <2>1, <2>2, DeletionKeeps
<1>4. ASSUME NEW r \in Role, delete_role(r) PROVE IInv'
  <2>1. /\ UNCHANGED <<line, worker, work_day, work_default_day, last_id, line_work_day, owner_default_day, call>>
        /\ role' \subseteq Role
        /\ worker_work_day' \subseteq worker_work_day
    BY <1>1, <1>4 DEF delete_role, days
  <2>2. work_day' = {v \in work_day : v.id \notin none}
    BY <1>2, <2>1
  <2> QED BY <1>1, <1>2, <2>1, <2>2, DeletionKeeps
<1>5. ASSUME NEW l \in Line, delete_line(l) PROVE IInv'
  <2>1. /\ UNCHANGED <<worker, role, work_day, work_default_day, last_id, owner_default_day, call>>
        /\ line' \subseteq Line
        /\ line_work_day' \subseteq line_work_day /\ worker_work_day' \subseteq worker_work_day
    BY <1>1, <1>5 DEF delete_line, WithoutLineDays, days
  <2>2. work_day' = {v \in work_day : v.id \notin none}
    BY <1>2, <2>1
  <2> QED BY <1>1, <1>2, <2>1, <2>2, DeletionKeeps
<1>6. ASSUME NEW l \in line_work_day, delete_line_work_day(l) PROVE IInv'
  <2>1. PICK gone : gone = {l.work_day_id}
    OBVIOUS
  <2>2. work_day' = {v \in work_day : v.id \notin gone}
    BY <1>6, <2>1 DEF delete_line_work_day
  <2>3. /\ UNCHANGED <<line, worker, role, work_default_day, last_id, call, owner_default_day>>
        /\ line_work_day' = line_work_day \ {l}
        /\ worker_work_day' = {w \in worker_work_day : w.line_work_day_id # l.work_day_id}
    BY <1>6 DEF delete_line_work_day, WithoutLineDays, owners
  <2>4. \A m \in line_work_day' : m.work_day_id \notin gone
    BY <2>1, <2>3 DEF IInv, LinksApart
  <2> QED BY <1>1, <2>1, <2>2, <2>3, <2>4, DeletionKeeps
<1> QED BY <1>3, <1>4, <1>5, <1>6 DEF Delete

(* Every step keeps the invariant.                                         *)
LEMMA NextKeeps == IInv /\ [Next]_vars => IInv'
<1> SUFFICES ASSUME IInv, [Next]_vars PROVE IInv'
  OBVIOUS
<1>1. ASSUME NEW p \in Session, LoseConnection(p) PROVE IInv'
  BY <1>1, EndKeeps DEF LoseConnection
<1>2. ASSUME NEW p \in Session, Step(p) PROVE IInv'
  BY <1>1, <1>2, BeginKeeps, SelectOwnerKeeps, SelectLineDayKeeps, CheckKeeps, InsertDayKeeps,
     InsertDefaultDayKeeps, LinkKeeps DEF Step
<1>3. CASE UNCHANGED vars
  <2>1. /\ UNCHANGED <<line, worker, role, work_default_day, last_id, call>>
        /\ UNCHANGED <<work_day, line_work_day, worker_work_day, owner_default_day>>
    BY <1>3 DEF vars, owners, days, links
  <2>2. PICK none : none = {}
    OBVIOUS
  <2>4. work_day' = {v \in work_day : v.id \notin none}
    BY <2>1, <2>2
  <2>3. line \subseteq Line /\ worker \subseteq Worker /\ role \subseteq Role
    BY DEF IInv, Typed
  <2> QED BY <2>1, <2>2, <2>3, <2>4, DeletionKeeps
<1> QED BY <1>2, <1>3, DeleteKeeps DEF Next

(* So every state a call or a deletion reaches has it.                     *)
LEMMA Invariance == Spec => []IInv
<1>1. Init => IInv
  BY InitIInv
<1>2. IInv /\ [Next]_vars => IInv'
  BY NextKeeps
<1> QED BY <1>1, <1>2, PTL DEF Spec

-----------------------------------------------------------------------------
(* The tables and the calls' variables keep their types.                   *)
THEOREM CreationTypes == Spec => []TypeOK
<1>1. IInv => TypeOK
  BY DEF IInv, Typed, TypeOK, Knows
<1> QED BY <1>1, Invariance, PTL

(* Whatever is inserted and deleted between the statements of a call: no   *)
(* day is linked twice, a worker's day has the date of the line's, and     *)
(* default days are told from planned ones (LAST_INSERT_ID and the link,   *)
(* procedures.sql).                                                        *)
THEOREM LinksAndDaysAgree == Spec => []DaysAgree
<1>1. ASSUME IInv PROVE DaysAgree
  <2>1. ASSUME NEW d \in DayId PROVE Cardinality(LinksTo(d)) <= 1
    <3>1. \A x, y \in LinksTo(d) : x = y
      BY <1>1 DEF IInv, LinksApart, LinksTo
    <3>2. PICK S : S = LinksTo(d)
      OBVIOUS
    <3>3. CASE S = {}
      BY <3>2, <3>3, FS_EmptySet
    <3>4. ASSUME NEW x \in S PROVE Cardinality(S) = 1
      <4>1. S = {x}
        BY <3>1, <3>2
      <4> QED BY <4>1, FS_Singleton
    <3> QED BY <3>2, <3>3, <3>4
  <2>2. \A e, x, y : HasDate(e, x) /\ HasDate(e, y) => x = y
    BY <1>1 DEF IInv, DaysOnce, HasDate
  <2>3. \A l \in line_work_day : ~HasDate(l.work_day_id, NULL)
    BY <1>1, <2>2, CreationAssumption DEF IInv, LinksDated
  <2> QED BY <1>1, <2>1, <2>3 DEF IInv, LinksDated, DaysAgree
<1> QED BY <1>1, Invariance, PTL

(* Checking for a day and inserting it later makes no more days than       *)
(* sessions that ask for it (p_create_line_work_day and its namesakes).    *)
THEOREM RacesAreBounded == Spec => []OneDayPerCaller
<1>1. ASSUME IInv PROVE OneDayPerCaller
  <2> SUFFICES ASSUME NEW p \in Session, NEW args \in Calls[p]
               PROVE  Cardinality(Existing(args)) <= Cardinality(Callers(args))
    BY DEF OneDayPerCaller, Callers
  <2>1. args \in CallArgs
    BY CreationAssumption
  <2>2. /\ IsFiniteSet(Existing(args))
        /\ Cardinality(Existing(args)) + Cardinality(Past(args)) <= Cardinality(Callers(args))
    BY <1>1, <2>1 DEF IInv, Counted
  <2>3. IsFiniteSet(Past(args))
    <3>1. Past(args) \subseteq Session
      BY DEF Past
    <3> QED BY <3>1, CreationAssumption, FS_Subset
  <2>4. Cardinality(Existing(args)) \in Nat /\ Cardinality(Past(args)) \in Nat /\ Cardinality(Callers(args)) \in Nat
    BY <2>2, <2>3, CallersFinite, FS_CardinalityType
  <2> QED BY <2>2, <2>4
<1> QED BY <1>1, Invariance, PTL

(* A step of one call that gives up no day.                                *)
LEMMA NoOrphans ==
  ASSUME NEW p \in Session,
         \A q \in Session : q # p => call'[q] = call[q],
         \A v \in work_day' : v \in work_day \/ Holds(p, v.id)',
         \A d : LinksTo(d)' = {} => LinksTo(d) = {},
         \A d : Holds(p, d) => Holds(p, d)' \/ LinksTo(d)' # {} \/ \A v \in work_day' : v.id # d
  PROVE  Orphans' \subseteq Orphans
<1> SUFFICES ASSUME NEW d \in Orphans' PROVE d \in Orphans
  OBVIOUS
<1>1. PICK v \in work_day' : v.id = d /\ LinksTo(d)' = {} /\ \A q \in Session : ~Holds(q, d)'
  BY DEF Orphans
<1>2. v \in work_day /\ LinksTo(d) = {}
  BY <1>1
<1>3. ASSUME NEW q \in Session, Holds(q, d) PROVE FALSE
  <2>1. CASE q = p
    BY <1>1, <1>3, <2>1
  <2>2. CASE q # p
    BY <1>1, <1>3, <2>2 DEF Holds
  <2> QED BY <2>1, <2>2
<1> QED BY <1>1, <1>2, <1>3 DEF Orphans

(* The statements that write nothing, and the three that insert.           *)
LEMMA StepGivesUpNone ==
  ASSUME IInv, NEW p \in Session, Step(p), ~LoseConnection(p), ~(At(p, "link") /\ ~ParentsExist(call[p]))
  PROVE  Orphans' \subseteq Orphans
<1>1. \A q \in Session : q # p => call'[q] = call[q]
  BY DEF IInv, Typed, Step, Begin, SelectOwner, SelectLineDay, Check, InsertDay, InsertDefaultDay, Link, Goto, Return
<1>2. CASE Begin(p) \/ SelectOwner(p) \/ SelectLineDay(p) \/ Check(p)
  <2>1. UNCHANGED <<days, links>> /\ call[p].next \notin {"default_day", "link"}
    BY <1>2 DEF Begin, SelectOwner, SelectLineDay, Check, At
  <2>2. \A d : ~Holds(p, d) /\ LinksTo(d)' = LinksTo(d)
    BY <2>1 DEF Holds, LinksTo, links
  <2> QED BY <1>1, <2>1, <2>2, NoOrphans DEF days
<1>3. CASE InsertDay(p)
  <2>1. call[p].next = "work_day" /\ UNCHANGED links
    BY <1>3 DEF InsertDay, At
  <2>2. \A d : ~Holds(p, d) /\ LinksTo(d)' = LinksTo(d)
    BY <2>1 DEF Holds, LinksTo, links
  <2>3. call[p] \in InCall
    BY <2>1, CallIs DEF IInv, Statement
  <2>4. /\ call'[p].id = last_id'
        /\ call'[p].next \in {"default_day", "link"}
    BY <1>3, <2>3 DEF InsertDay, IInv, Typed, InCall
  <2>5. \A v \in work_day' : v \in work_day \/ Holds(p, v.id)'
    BY <1>3, <2>4 DEF InsertDay, Holds
  <2> QED BY <1>1, <2>2, <2>5, NoOrphans
<1>4. CASE InsertDefaultDay(p)
  <2>1. call[p].next = "default_day" /\ UNCHANGED links
    BY <1>4 DEF InsertDefaultDay, At
  <2>2. \A d : LinksTo(d)' = LinksTo(d)
    BY <2>1 DEF LinksTo, links
  <2>3. call[p] \in InCall
    BY <2>1, CallIs DEF IInv, Statement
  <2>4. CASE Goto(p, "link") /\ UNCHANGED work_day
    <3>1. call'[p].id = call[p].id /\ call'[p].next = "link"
      BY <2>3, <2>4 DEF Goto, IInv, Typed, InCall
    <3>2. \A d : Holds(p, d) => Holds(p, d)'
      BY <3>1 DEF Holds
    <3> QED BY <1>1, <2>2, <2>4, <3>2, NoOrphans
  <2>5. CASE work_day' = Undone(call[p].id)
    <3>1. \A d : Holds(p, d) => \A v \in work_day' : v.id # d
      BY <2>5 DEF Undone, Holds
    <3>2. work_day' \subseteq work_day
      BY <2>5 DEF Undone
    <3> QED BY <1>1, <2>2, <3>1, <3>2, NoOrphans
  <2> QED BY <1>4, <2>4, <2>5 DEF InsertDefaultDay
<1>5. CASE Link(p)
  <2>1. call[p].next = "link" /\ UNCHANGED work_day /\ InsertLink(call[p])
    BY <1>5 DEF Link, At, days
  <2>2. PICK d : d = call[p].id
    OBVIOUS
  <2>3. /\ line_work_day \subseteq line_work_day' /\ worker_work_day \subseteq worker_work_day'
        /\ owner_default_day \subseteq owner_default_day'
    BY <2>1 DEF InsertLink
  <2>4. \A e : LinksTo(e)' = {} => LinksTo(e) = {}
    BY <2>3 DEF LinksTo
  <2>5. LinksTo(d)' # {}
    <3>1. PICK c : c = call[p]
      OBVIOUS
    <3>2. ASSUME NEW l \in line_work_day', l.work_day_id = d PROVE LinksTo(d)' # {}
      BY <3>2 DEF LinksTo
    <3>3. ASSUME NEW w \in worker_work_day', w.work_day_id = d PROVE LinksTo(d)' # {}
      BY <3>3 DEF LinksTo
    <3>4. ASSUME NEW o \in owner_default_day', o.work_default_day_id = d PROVE LinksTo(d)' # {}
      BY <3>4 DEF LinksTo
    <3>5. \/ \E l \in line_work_day' : l.work_day_id = d
          \/ \E w \in worker_work_day' : w.work_day_id = d
          \/ \E o \in owner_default_day' : o.work_default_day_id = d
      <4>1. d = c.id /\ InsertLink(c)
        BY <2>1, <2>2, <3>1
      <4>2. CASE \E l : l.work_day_id = d /\ line_work_day' = line_work_day \cup {l}
        BY <4>2
      <4>3. CASE \E w : w.work_day_id = d /\ worker_work_day' = worker_work_day \cup {w}
        BY <4>3
      <4>4. CASE \E o : o.work_default_day_id = d /\ owner_default_day' = owner_default_day \cup {o}
        BY <4>4
      <4>5. /\ [work_day_id |-> d, line_id |-> c.args.line_id].work_day_id = d
            /\ [work_day_id |-> d, line_work_day_id |-> c.args.line_work_day_id, line_id |-> c.line_id,
                 worker_id |-> c.args.worker_id, role_id |-> c.args.role_id].work_day_id = d
            /\ [work_default_day_id |-> d, owner |-> c.args.owner].work_default_day_id = d
        OBVIOUS
      <4>6. \/ line_work_day' = line_work_day \cup {[work_day_id |-> d, line_id |-> c.args.line_id]}
            \/ worker_work_day' = worker_work_day \cup
                 {[work_day_id |-> d, line_work_day_id |-> c.args.line_work_day_id, line_id |-> c.line_id,
                   worker_id |-> c.args.worker_id, role_id |-> c.args.role_id]}
            \/ owner_default_day' = owner_default_day \cup
                 {[work_default_day_id |-> d, owner |-> c.args.owner]}
        BY <4>1 DEF InsertLink, LinkedDay
      <4> QED BY <4>2, <4>3, <4>4, <4>5, <4>6
    <3> QED BY <3>2, <3>3, <3>4, <3>5
  <2>6. \A e : Holds(p, e) => e = d
    BY <2>2 DEF Holds
  <2> QED BY <1>1, <2>1, <2>4, <2>5, <2>6, NoOrphans
<1> QED BY <1>2, <1>3, <1>4, <1>5 DEF Step

(* An error of the procedures leaves no day that nothing leads to ("to     *)
(* avoid orphan data", procedures.sql 45): only deletions, lost            *)
(* connections, and parents deleted on the way do.                         *)
THEOREM ProceduresLoseNoDays == Spec => NoLostDays
<1> DEFINE Excused ==
      \/ owners' # owners
      \/ ~(line_work_day \subseteq line_work_day')
      \/ \E p \in Session : call'[p] = Lost /\ call[p] # Lost
      \/ \E p \in Session : At(p, "link") /\ ~ParentsExist(call[p])
<1>1. ASSUME IInv, [Next]_vars PROVE Orphans' \subseteq Orphans \/ Excused \/ UNCHANGED vars
  <2>1. ASSUME NEW p \in Session, Step(p) PROVE Orphans' \subseteq Orphans \/ Excused
    <3>1. CASE LoseConnection(p)
      <4>1. call'[p] = Lost
        BY <1>1, <3>1 DEF LoseConnection, IInv, Typed
      <4>2. call[p] # Lost
        BY <3>1 DEF LoseConnection, At, Lost
      <4> QED BY <4>1, <4>2
    <3>2. CASE ~LoseConnection(p)
      BY <1>1, <2>1, <3>2, StepGivesUpNone
    <3> QED BY <3>1, <3>2
  <2>2. ASSUME Delete PROVE Excused
    <3>1. ASSUME NEW w \in Worker, delete_worker(w) PROVE owners' # owners
      BY <3>1 DEF delete_worker, owners
    <3>2. ASSUME NEW l \in Line, delete_line(l) PROVE owners' # owners
      BY <3>2 DEF delete_line, owners
    <3>3. ASSUME NEW r \in Role, delete_role(r) PROVE owners' # owners
      BY <3>3 DEF delete_role, owners
    <3>4. ASSUME NEW l \in line_work_day, delete_line_work_day(l) PROVE ~(line_work_day \subseteq line_work_day')
      BY <3>4 DEF delete_line_work_day, WithoutLineDays
    <3> QED BY <2>2, <3>1, <3>2, <3>3, <3>4 DEF Delete
  <2> QED BY <1>1, <2>1, <2>2 DEF Next
<1>2. IInv /\ [Next]_vars => [Orphans' \subseteq Orphans \/ Excused]_vars
  BY <1>1
<1> QED BY <1>2, Invariance, PTL DEF Spec, NoLostDays
=============================================================================
