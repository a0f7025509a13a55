--------------------------- MODULE DayModelsProofs ---------------------------
(***************************************************************************)
(* For any number of days and any slots: the lists of times the objects    *)
(* keep, the memory they free, and the times of the worker's days, which   *)
(* stay within the line's.                                                 *)
(***************************************************************************)
EXTENDS DayModels, TLAPS

\* Only the object inside wwd is ever left behind a freed pointer.
FreedInside == (wwd # NULL /\ wwd.lwd = Freed) \/ damage => handed

IncludingList(h) == call = [next |-> "include_list", of |-> h]

IsCurrent(h) == Object(h).work_time_list \in {NULL, planned[KindOf(h)][Object(h).id]}

\* The list of the call under way is about to be read again.
Current == \A h \in Holder \ outdated : InHand(h) /\ ~IncludingList(h) => IsCurrent(h)

IInv == TypeOK /\ FreedInside /\ Current /\ WorkerTimesFit

-----------------------------------------------------------------------------
(* Objects.                                                                *)

\* As far as its list goes, the object of h is the one it was.
Kept(h) ==
  /\ InHand(h)
  /\ Object(h)'.id = Object(h).id
  /\ Object(h)'.work_time_list = Object(h).work_time_list

(* What is in hand is an object, of its holder's type.                     *)
LEMMA ObjectTypes ==
  ASSUME TypeOK, NEW h \in Holder, InHand(h)
  PROVE  /\ Object(h).id \in DayId
         /\ h \in LineHolder => Object(h) \in LineWorkDayModel
         /\ h = "wwd" => wwd \in WorkerWorkDayModel
         /\ h = "nested" => wwd \in WorkerWorkDayModel
         /\ KindOf(h) \in Kind
BY DayModelsAssumption DEF TypeOK, Holder, LineHolder, InHand, Object, KindOf, Kind,
   LineWorkDayModel, WorkerWorkDayModel

(* Only wwd's own field may lead to freed memory.                          *)
LEMMA NothingFreed ==
  ASSUME IInv
  PROVE  /\ ~FreesTwice(lwd)
         /\ wwd # NULL => /\ wwd.lwd # Freed => ~FreesTwice(wwd.lwd)
                          /\ Freed \notin {wwd.line, wwd.worker, wwd.work_time_list}
<1>1. \A o \in LineWorkDayModel : o # Freed /\ o.line # Freed /\ o.work_time_list # Freed
  BY DayModelsAssumption DEF LineWorkDayModel
<1>2. \A o \in WorkerWorkDayModel : Freed \notin {o.line, o.worker, o.work_time_list}
  BY DayModelsAssumption DEF WorkerWorkDayModel
<1>3. lwd \in {NULL} \cup LineWorkDayModel /\ wwd \in {NULL} \cup WorkerWorkDayModel
  BY DEF IInv, TypeOK
<1>4. wwd # NULL => wwd.lwd \in {NULL, Freed} \cup LineWorkDayModel
  BY <1>3 DEF WorkerWorkDayModel
<1> QED BY <1>1, <1>2, <1>3, <1>4, DayModelsAssumption DEF FreesTwice

(* A new object takes the place of h, and no other is touched.             *)
LEMMA BecomesObject ==
  ASSUME TypeOK, NEW h \in Holder, InHand(h), NEW o, Becomes(h, o),
         h \in LineHolder => o \in LineWorkDayModel,
         h = "wwd" => o \in WorkerWorkDayModel /\ o.lwd = wwd.lwd
  PROVE  /\ lwd' \in {NULL} \cup LineWorkDayModel /\ wwd' \in {NULL} \cup WorkerWorkDayModel
         /\ wwd' # NULL /\ wwd'.lwd = Freed => wwd # NULL /\ wwd.lwd = Freed
         /\ Object(h)' = o
         /\ \A g \in Holder \ {h} : InHand(g)' => Kept(g)
<1>1. lwd \in {NULL} \cup LineWorkDayModel /\ wwd \in {NULL} \cup WorkerWorkDayModel
  BY DEF TypeOK
<1>2. CASE h = "lwd"
  <2>1. lwd' = o /\ wwd' = wwd /\ o \in LineWorkDayModel
    BY <1>2 DEF Becomes, LineHolder
  <2> QED BY <1>1, <1>2, <2>1 DEF Object, InHand, Kept, Holder
<1>3. CASE h = "wwd"
  <2>1. wwd' = o /\ lwd' = lwd /\ o \in WorkerWorkDayModel /\ o.lwd = wwd.lwd
    BY <1>3 DEF Becomes
  <2>2. wwd # NULL /\ wwd' # NULL
    BY <1>3, <2>1, DayModelsAssumption DEF InHand, Object
  <2> QED BY <1>1, <1>3, <2>1, <2>2 DEF Object, InHand, Kept, Holder
<1>4. CASE h = "nested"
  <2>1. wwd' = [wwd EXCEPT !.lwd = o] /\ lwd' = lwd /\ o \in LineWorkDayModel
    BY <1>4 DEF Becomes, LineHolder
  <2>2. wwd # NULL /\ wwd \in WorkerWorkDayModel
    BY <1>1, <1>4, DayModelsAssumption DEF InHand, Object
  <2>3. /\ wwd' \in WorkerWorkDayModel /\ wwd'.lwd = o
        /\ wwd'.id = wwd.id /\ wwd'.work_time_list = wwd.work_time_list
    BY <2>1, <2>2 DEF WorkerWorkDayModel
  <2>4. wwd' # NULL /\ wwd' # Freed /\ wwd # Freed /\ o # Freed
    BY <2>1, <2>2, <2>3, DayModelsAssumption
  <2> QED BY <1>1, <1>4, <2>1, <2>2, <2>3, <2>4 DEF Object, InHand, Kept, Holder
<1> QED BY <1>2, <1>3, <1>4 DEF Holder

(* An object that keeps its list and its day's times stays current.        *)
LEMMA CurrentStays ==
  ASSUME Current,
         ASSUME NEW h \in Holder \ outdated', InHand(h)', ~IncludingList(h)'
         PROVE  \/ IsCurrent(h)'
                \/ /\ Kept(h) /\ h \notin outdated /\ ~IncludingList(h)
                   /\ planned'[KindOf(h)][Object(h).id] = planned[KindOf(h)][Object(h).id]
  PROVE  Current'
BY DEF Current, IsCurrent, Kept, KindOf

(* Between calls no list is about to be read.                              *)
LEMMA IdleReadsNone ==
  ASSUME NEW h, At("idle") \/ At("select_line_work_day") \/ At("p_create_line_work_day")
  PROVE  ~IncludingList(h)
BY DEF At, IncludingList

-----------------------------------------------------------------------------
(* Making and freeing objects.                                             *)

(* New objects have no list.                                               *)
LEMMA NewObjects ==
  ASSUME NEW d \in DayId
  PROVE  /\ NewLineWorkDay(d) \in LineWorkDayModel
         /\ NewLineWorkDay(d).work_time_list = NULL
         /\ NewWorkerWorkDay(d) \in WorkerWorkDayModel
         /\ NewWorkerWorkDay(d).work_time_list = NULL
         /\ NewWorkerWorkDay(d).lwd = NULL
BY DEF NewLineWorkDay, NewWorkerWorkDay, LineWorkDayModel, WorkerWorkDayModel

(* The requests of create_line_work_day_model.                             *)
LEMMA CreateKeeps ==
  ASSUME IInv, SelectLine \/ CreateLineWorkDay
  PROVE  IInv'
<1>1. UNCHANGED <<owners, worker_days, planned, lwd, wwd, damage, handed, outdated>>
  BY DEF SelectLine, CreateLineWorkDay, tables
<1>2. At("idle") \/ At("p_create_line_work_day")
  BY DEF SelectLine, CreateLineWorkDay
<1>3. /\ call' \in [next : {"idle", "p_create_line_work_day", "select_line_work_day", "include_list"},
                    of : Holder]
      /\ \/ last' = last /\ work_days' = work_days /\ line_days' = line_days
         \/ /\ last < MaxDay /\ last' = last + 1
            /\ work_days' = work_days \cup {last'} /\ line_days' = line_days \cup {last'}
  BY DEF SelectLine, CreateLineWorkDay, Continue, Return, Idle, Holder, IInv, TypeOK, tables
<1>4. TypeOK'
  <2>1. last' \in 0..MaxDay /\ (last' # last => last' \in DayId)
    BY <1>3, DayModelsAssumption DEF IInv, TypeOK, DayId
  <2>2. work_days' \subseteq DayId /\ line_days' \subseteq work_days' /\ worker_days' \subseteq line_days'
    <3>1. PICK new : new = last'
      OBVIOUS
    <3>2. \/ work_days' = work_days /\ line_days' = line_days
          \/ new \in DayId /\ work_days' = work_days \cup {new} /\ line_days' = line_days \cup {new}
      BY <1>3, <2>1, <3>1, DayModelsAssumption DEF IInv, TypeOK
    <3> QED BY <1>1, <3>2 DEF IInv, TypeOK
  <2> QED BY <1>1, <1>3, <2>1, <2>2 DEF IInv, TypeOK
<1>5. FreedInside' /\ WorkerTimesFit'
  BY <1>1, <1>3 DEF IInv, FreedInside, WorkerTimesFit
<1>6. Current'
  <2>1. \A h \in Holder : InHand(h)' => Kept(h) /\ ~IncludingList(h)
    BY <1>1, <1>2, IdleReadsNone DEF InHand, Object, Kept
  <2> QED BY <1>1, <2>1, CurrentStays DEF IInv
<1> QED BY <1>4, <1>5, <1>6 DEF IInv

(* What is put in the client's variables instead of the objects there were.*)
LEMMA ReplacedKeeps ==
  ASSUME IInv, UNCHANGED <<tables, handed>>,
         At("idle") \/ At("select_line_work_day"), call' \in {call, Idle},
         lwd' \in {NULL} \cup LineWorkDayModel, wwd' \in {NULL} \cup WorkerWorkDayModel,
         wwd' # NULL /\ wwd'.lwd = Freed => wwd # NULL /\ wwd.lwd = Freed,
         damage' = damage \/ (damage' = TRUE /\ wwd # NULL /\ wwd.lwd = Freed),
         outdated' \subseteq outdated,
         ASSUME NEW h \in Holder \ outdated', InHand(h)'
         PROVE  Object(h)'.work_time_list = NULL \/ (Kept(h) /\ h \notin outdated)
  PROVE  IInv'
<1>1. TypeOK'
  <2>1. call' \in [next : {"idle", "p_create_line_work_day", "select_line_work_day", "include_list"},
                   of : Holder]
    BY DEF IInv, TypeOK, Idle, Holder
  <2> QED BY <2>1 DEF IInv, TypeOK, tables
<1>2. FreedInside' /\ WorkerTimesFit'
  BY DEF IInv, FreedInside, WorkerTimesFit, tables
<1>3. Current'
  <2>1. ASSUME NEW h \in Holder \ outdated', InHand(h)', ~IncludingList(h)'
        PROVE  \/ IsCurrent(h)'
               \/ /\ Kept(h) /\ h \notin outdated /\ ~IncludingList(h)
                  /\ planned'[KindOf(h)][Object(h).id] = planned[KindOf(h)][Object(h).id]
    BY <2>1, IdleReadsNone DEF IsCurrent, tables
  <2> QED BY <2>1, CurrentStays DEF IInv
<1> QED BY <1>1, <1>2, <1>3 DEF IInv

(* Selecting and freeing.                                                  *)
LEMMA SelectKeeps ==
  ASSUME IInv, SelectLineWorkDay \/ SelectWorkerWorkDay \/ free_line_work_day
  PROVE  IInv'
<1>1. line_days \subseteq DayId /\ worker_days \subseteq DayId
  BY DEF IInv, TypeOK
<1>2. lwd \in {NULL} \cup LineWorkDayModel /\ wwd \in {NULL} \cup WorkerWorkDayModel
  BY DEF IInv, TypeOK
<1>3. CASE SelectLineWorkDay
  <2>1. lwd = NULL /\ wwd' = wwd /\ (lwd' = NULL \/ \E d \in line_days : lwd' = NewLineWorkDay(d))
    BY <1>3 DEF SelectLineWorkDay
  <2>2. lwd' \in {NULL} \cup LineWorkDayModel /\ (lwd' = NULL \/ lwd'.work_time_list = NULL)
    BY <1>1, <2>1, NewObjects
  <2>3. ASSUME NEW h \in Holder \ outdated', InHand(h)'
        PROVE  Object(h)'.work_time_list = NULL \/ (Kept(h) /\ h \notin outdated)
    <3>1. CASE h = "lwd"
      BY <2>2, <2>3, <3>1 DEF Object, InHand
    <3>2. CASE h # "lwd"
      BY <1>3, <2>1, <2>3, <3>2 DEF Object, InHand, Kept, Holder, SelectLineWorkDay
    <3> QED BY <3>1, <3>2
  <2> QED BY <1>2, <1>3, <2>1, <2>2, <2>3, ReplacedKeeps DEF SelectLineWorkDay, Return
<1>4. CASE SelectWorkerWorkDay
  <2>1. PICK d \in worker_days : wwd' = NewWorkerWorkDay(d)
    BY <1>4 DEF SelectWorkerWorkDay
  <2>2. wwd' \in WorkerWorkDayModel /\ wwd'.work_time_list = NULL /\ wwd'.lwd = NULL
    BY <1>1, <2>1, NewObjects
  <2>3. wwd' # NULL /\ wwd'.lwd # Freed
    BY <2>2, DayModelsAssumption
  <2>4. ASSUME NEW h \in Holder \ outdated', InHand(h)'
        PROVE  Object(h)'.work_time_list = NULL \/ (Kept(h) /\ h \notin outdated)
    BY <1>4, <2>2, <2>3, <2>4 DEF Object, InHand, Kept, Holder, SelectWorkerWorkDay
  <2> QED BY <1>2, <1>4, <2>2, <2>3, <2>4, ReplacedKeeps DEF SelectWorkerWorkDay
<1>5. CASE free_line_work_day
  <2>1. lwd' = NULL /\ wwd' = wwd /\ damage' = damage
    BY <1>5, NothingFreed DEF free_line_work_day, IInv, TypeOK
  <2>2. ASSUME NEW h \in Holder \ outdated', InHand(h)'
        PROVE  Object(h)'.work_time_list = NULL \/ (Kept(h) /\ h \notin outdated)
    BY <1>5, <2>1, <2>2 DEF Object, InHand, Kept, Holder, free_line_work_day
  <2> QED BY <1>2, <1>5, <2>1, <2>2, ReplacedKeeps DEF free_line_work_day
<1> QED BY <1>3, <1>4, <1>5

(* What is freed with wwd has been freed before only when the object       *)
(* inside it was given away.                                               *)
LEMMA FreeWorkerKeeps ==
  ASSUME IInv, free_worker_work_day \/ IncludeLineWorkDay
  PROVE  IInv'
<1>1. lwd' = lwd /\ wwd # NULL /\ wwd \in WorkerWorkDayModel /\ lwd \in {NULL} \cup LineWorkDayModel
  BY DEF free_worker_work_day, IncludeLineWorkDay, IInv, TypeOK
<1>2. damage' = damage \/ (damage' = TRUE /\ wwd.lwd = Freed)
  BY <1>1, NothingFreed DEF free_worker_work_day, IncludeLineWorkDay, IInv, TypeOK
<1>3. CASE free_worker_work_day
  <2>1. wwd' = NULL
    BY <1>3 DEF free_worker_work_day
  <2>2. ASSUME NEW h \in Holder \ outdated', InHand(h)'
        PROVE  Object(h)'.work_time_list = NULL \/ (Kept(h) /\ h \notin outdated)
    BY <1>1, <1>3, <2>1, <2>2 DEF Object, InHand, Kept, Holder, free_worker_work_day
  <2> QED BY <1>1, <1>2, <1>3, <2>1, <2>2, ReplacedKeeps DEF free_worker_work_day
<1>4. CASE IncludeLineWorkDay
  <2>1. PICK o : /\ wwd' = [wwd EXCEPT !.lwd = o]
                 /\ o = NULL \/ \E d \in line_days : o = NewLineWorkDay(d)
    BY <1>4 DEF IncludeLineWorkDay
  <2>2. o = NULL \/ (o \in LineWorkDayModel /\ o.work_time_list = NULL)
    BY <2>1, NewObjects DEF IInv, TypeOK
  <2>3. o # Freed
    BY <2>2, DayModelsAssumption
  <2>4. /\ wwd' \in WorkerWorkDayModel /\ wwd'.lwd = o
        /\ wwd'.id = wwd.id /\ wwd'.work_time_list = wwd.work_time_list
    BY <1>1, <2>1, <2>2 DEF WorkerWorkDayModel
  <2>5. wwd' # NULL /\ wwd' # Freed /\ wwd # Freed
    BY <1>1, <2>4, DayModelsAssumption
  <2>6. outdated' = outdated \ {"nested"}
    BY <1>4 DEF IncludeLineWorkDay
  <2>7. ASSUME NEW h \in Holder \ outdated', InHand(h)'
        PROVE  Object(h)'.work_time_list = NULL \/ (Kept(h) /\ h \notin outdated)
    <3>1. CASE h = "nested"
      BY <2>2, <2>4, <2>5, <2>7, <3>1 DEF Object, InHand
    <3>2. CASE h = "wwd"
      BY <1>1, <2>4, <2>5, <2>6, <3>2 DEF Object, InHand, Kept
    <3>3. CASE h = "lwd"
      BY <1>1, <2>6, <2>7, <3>3 DEF Object, InHand, Kept
    <3> QED BY <3>1, <3>2, <3>3 DEF Holder
  <2> QED BY <1>1, <1>2, <1>4, <2>3, <2>4, <2>6, <2>7, ReplacedKeeps DEF IncludeLineWorkDay
<1> QED BY <1>3, <1>4

-----------------------------------------------------------------------------
(* Including.                                                              *)

(* No field that is freed before it is replaced has been freed before.     *)
LEMMA FieldsNotFreed ==
  ASSUME TypeOK, NEW h \in Holder, InHand(h)
  PROVE  /\ Object(h).line # Freed /\ Object(h).work_time_list # Freed
         /\ h = "wwd" => Object(h).worker # Freed
<1>1. \A o \in LineWorkDayModel : o.line # Freed /\ o.work_time_list # Freed
  BY DayModelsAssumption DEF LineWorkDayModel
<1>2. \A o \in WorkerWorkDayModel : o.line # Freed /\ o.worker # Freed /\ o.work_time_list # Freed
  BY DayModelsAssumption DEF WorkerWorkDayModel
<1>3. CASE h = "wwd"
  BY <1>2, <1>3, ObjectTypes DEF Object
<1>4. CASE h \in LineHolder
  BY <1>1, <1>4, ObjectTypes DEF LineHolder
<1> QED BY <1>3, <1>4 DEF Holder, LineHolder

(* An object is replaced by one of the same day, with the same list or     *)
(* with the list read again.                                               *)
LEMMA IncludedKeeps ==
  ASSUME IInv, NEW h \in Holder, InHand(h), NEW o, Becomes(h, o),
         h \in LineHolder => o \in LineWorkDayModel,
         h = "wwd" => o \in WorkerWorkDayModel /\ o.lwd = wwd.lwd,
         o.id = Object(h).id,
         UNCHANGED <<tables, damage, handed>>,
         At("idle") \/ IncludingList(h),
         call' \in {call, Idle, [next |-> "include_list", of |-> h]},
         \/ o.work_time_list = Object(h).work_time_list /\ outdated' = outdated /\ At("idle")
         \/ /\ o.work_time_list \in {NULL, planned[KindOf(h)][Object(h).id]}
            /\ outdated' = outdated \ {h}
  PROVE  IInv'
<1>1. TypeOK
  BY DEF IInv
<1>2. /\ lwd' \in {NULL} \cup LineWorkDayModel /\ wwd' \in {NULL} \cup WorkerWorkDayModel
      /\ wwd' # NULL /\ wwd'.lwd = Freed => wwd # NULL /\ wwd.lwd = Freed
      /\ Object(h)' = o
      /\ \A g \in Holder \ {h} : InHand(g)' => Kept(g)
  BY <1>1, BecomesObject
<1>3. TypeOK'
  <2>1. call' \in [next : {"idle", "p_create_line_work_day", "select_line_work_day", "include_list"},
                   of : Holder]
    BY <1>1 DEF TypeOK, Idle, Holder
  <2> QED BY <1>1, <1>2, <2>1 DEF TypeOK, tables
<1>4. FreedInside' /\ WorkerTimesFit'
  BY <1>2 DEF IInv, FreedInside, WorkerTimesFit, tables
<1>5. Current'
  <2>1. ASSUME NEW g \in Holder \ outdated', InHand(g)', ~IncludingList(g)'
        PROVE  \/ IsCurrent(g)'
               \/ /\ Kept(g) /\ g \notin outdated /\ ~IncludingList(g)
                  /\ planned'[KindOf(g)][Object(g).id] = planned[KindOf(g)][Object(g).id]
    <3>1. CASE g = h
      <4>1. CASE o.work_time_list = Object(h).work_time_list /\ outdated' = outdated /\ At("idle")
        BY <1>2, <2>1, <3>1, <4>1, IdleReadsNone DEF Kept, tables
      <4>2. CASE o.work_time_list \in {NULL, planned[KindOf(h)][Object(h).id]}
        BY <1>2, <3>1, <4>2 DEF IsCurrent, KindOf, tables
      <4> QED BY <4>1, <4>2
    <3>2. CASE g # h
      <4>1. ~IncludingList(g)
        BY <3>2, IdleReadsNone DEF IncludingList
      <4> QED BY <1>2, <2>1, <3>2, <4>1 DEF tables
    <3> QED BY <3>1, <3>2
  <2> QED BY <2>1, CurrentStays DEF IInv
<1> QED BY <1>3, <1>4, <1>5 DEF IInv

(* Reading the list.                                                       *)
LEMMA IncludeListKeeps ==
  ASSUME IInv, IncludeList
  PROVE  IInv'
<1>1. PICK h \in Holder, outcome \in Outcome :
        /\ At("idle") \/ IncludingList(h)
        /\ InHand(h)
        /\ ListIncluded(h, outcome)
  BY DEF IncludeList, IncludingList
<1>2. PICK list :
        /\ list = (IF outcome = "ok" THEN planned[KindOf(h)][Object(h).id] ELSE NULL)
        /\ Becomes(h, [Object(h) EXCEPT !.work_time_list = list])
  BY <1>1 DEF ListIncluded
<1>3. PICK o : o = [Object(h) EXCEPT !.work_time_list = list]
  OBVIOUS
<1>4. list \in {NULL} \cup SUBSET Slot /\ list \in {NULL, planned[KindOf(h)][Object(h).id]}
  BY <1>1, <1>2, ObjectTypes DEF IInv, TypeOK
<1>5. /\ h \in LineHolder => o \in LineWorkDayModel
      /\ h = "wwd" => o \in WorkerWorkDayModel /\ o.lwd = wwd.lwd
      /\ o.id = Object(h).id /\ o.work_time_list = list
  <2>1. CASE h = "wwd"
    BY <1>1, <1>3, <1>4, <2>1, ObjectTypes DEF IInv, Object, LineHolder, WorkerWorkDayModel
  <2>2. CASE h \in LineHolder
    BY <1>1, <1>3, <1>4, <2>2, ObjectTypes DEF IInv, LineHolder, LineWorkDayModel
  <2> QED BY <2>1, <2>2 DEF Holder, LineHolder
<1>6. damage' = damage
  BY <1>1, FieldsNotFreed DEF ListIncluded, IInv, TypeOK
<1>7. outdated' = outdated \ {h} /\ call' = Idle /\ UNCHANGED <<tables, handed>>
  BY <1>1 DEF ListIncluded, IncludeList, Return
<1> QED BY <1>1, <1>2, <1>3, <1>4, <1>5, <1>6, <1>7, IncludedKeeps

(* The line or the worker of an object is replaced and nothing else.       *)
LEMMA OwnerIncludedIs ==
  ASSUME TypeOK, NEW h \in Holder, InHand(h), NEW owner \in Kind, owner = "worker" => h = "wwd",
         NEW outcome
  PROVE  LET o == OwnerIncluded(Object(h), owner, owner, outcome)
         IN /\ h \in LineHolder => o \in LineWorkDayModel
            /\ h = "wwd" => o \in WorkerWorkDayModel /\ o.lwd = wwd.lwd
            /\ o.id = Object(h).id /\ o.work_time_list = Object(h).work_time_list
<1>1. PICK p : p = (IF outcome = "ok" /\ owner \in owners THEN "object" ELSE NULL)
  OBVIOUS
<1>2. p \in {NULL, "object"}
  BY <1>1
<1>3. CASE owner = "line"
  <2>1. OwnerIncluded(Object(h), owner, owner, outcome) = [Object(h) EXCEPT !.line = p]
    BY <1>1, <1>3 DEF OwnerIncluded
  <2>2. CASE h = "wwd"
    BY <1>2, <2>1, <2>2, ObjectTypes DEF Object, LineHolder, WorkerWorkDayModel
  <2>3. CASE h \in LineHolder
    BY <1>2, <2>1, <2>3, ObjectTypes DEF LineHolder, LineWorkDayModel
  <2> QED BY <2>2, <2>3 DEF Holder, LineHolder
<1>4. CASE owner = "worker"
  <2>1. OwnerIncluded(Object(h), owner, owner, outcome) = [Object(h) EXCEPT !.worker = p]
    BY <1>1, <1>4 DEF OwnerIncluded
  <2> QED BY <1>2, <1>4, <2>1, ObjectTypes DEF Object, LineHolder, WorkerWorkDayModel
<1> QED BY <1>3, <1>4 DEF Kind

(* Including the line or the worker, at the client's call or in a refresh. *)
LEMMA IncludeOwnerKeeps ==
  ASSUME IInv, IncludeOwner \/ refresh_line_work_day
  PROVE  IInv'
<1>1. TypeOK /\ At("idle")
  BY DEF IInv, IncludeOwner, refresh_line_work_day
<1>2. PICK h \in Holder, outcome \in Outcome, owner \in Kind :
        /\ InHand(h) /\ (owner = "worker" => h = "wwd")
        /\ damage' = (damage \/ Object(h)[owner] = Freed)
        /\ Becomes(h, OwnerIncluded(Object(h), owner, owner, outcome))
        /\ call' \in {call, [next |-> "include_list", of |-> h]}
        /\ UNCHANGED <<tables, handed, outdated>>
  <2>1. CASE IncludeOwner
    BY <2>1 DEF IncludeOwner
  <2>2. CASE refresh_line_work_day
    <3>1. PICK h \in LineHolder, outcome \in Outcome :
            /\ InHand(h)
            /\ damage' = (damage \/ Object(h).line = Freed)
            /\ Becomes(h, OwnerIncluded(Object(h), "line", "line", outcome))
            /\ call' \in {call, [next |-> "include_list", of |-> h]}
      BY <2>2 DEF refresh_line_work_day, Continue
    <3>2. h \in Holder /\ "line" \in Kind
      BY DEF Holder, LineHolder, Kind
    <3>3. damage' = (damage \/ Object(h)["line"] = Freed) /\ "line" # "worker"
      BY <3>1
    <3>4. UNCHANGED <<tables, handed, outdated>>
      BY <2>2 DEF refresh_line_work_day
    <3> QED BY <3>1, <3>2, <3>3, <3>4
  <2> QED BY <2>1, <2>2
<1>3. damage' = damage
  <2>1. Object(h)[owner] # Freed
    BY <1>1, <1>2, FieldsNotFreed DEF Kind
  <2> QED BY <1>1, <1>2, <2>1 DEF TypeOK
<1>4. PICK o : o = OwnerIncluded(Object(h), owner, owner, outcome)
  OBVIOUS
<1>5. /\ h \in LineHolder => o \in LineWorkDayModel
      /\ h = "wwd" => o \in WorkerWorkDayModel /\ o.lwd = wwd.lwd
      /\ o.id = Object(h).id /\ o.work_time_list = Object(h).work_time_list
  BY <1>1, <1>2, <1>4, OwnerIncludedIs
<1> QED BY <1>1, <1>2, <1>3, <1>4, <1>5, IncludedKeeps

-----------------------------------------------------------------------------
(* Changing days.                                                          *)

(* Times that are planned or freed through an object of the client's.      *)
LEMMA PlannedKeeps ==
  ASSUME IInv, At("idle"), NEW h \in Holder, NEW outcome, ThenInclude(h, outcome),
         UNCHANGED <<owners, work_days, line_days, worker_days, last, lwd, wwd, damage, handed>>,
         planned' \in [Kind -> [DayId -> SUBSET Slot]],
         WorkerTimesFit'
  PROVE  IInv'
<1>1. TypeOK'
  <2>1. call' \in [next : {"idle", "p_create_line_work_day", "select_line_work_day", "include_list"},
                   of : Holder]
    BY DEF IInv, TypeOK, ThenInclude, Continue
  <2>2. outdated' \subseteq Holder
    BY DEF IInv, TypeOK, ThenInclude, Changed
  <2> QED BY <2>1, <2>2 DEF IInv, TypeOK
<1>2. FreedInside'
  BY DEF IInv, FreedInside
<1>3. Current'
  <2>1. ASSUME NEW g \in Holder \ outdated', InHand(g)', ~IncludingList(g)'
        PROVE  \/ IsCurrent(g)'
               \/ /\ Kept(g) /\ g \notin outdated /\ ~IncludingList(g)
                  /\ planned'[KindOf(g)][Object(g).id] = planned[KindOf(g)][Object(g).id]
    <3>1. g \notin outdated \cup Changed
      BY <2>1 DEF ThenInclude, Continue, IncludingList
    <3>2. Kept(g)
      BY <2>1 DEF Kept, InHand, Object
    <3> QED BY <3>1, <3>2, IdleReadsNone DEF Changed, Kept
  <2> QED BY <2>1, CurrentStays DEF IInv
<1> QED BY <1>1, <1>2, <1>3 DEF IInv

(* The worker's time is cut with the line's, or before it.                 *)
LEMMA PlanningKeeps ==
  ASSUME IInv, \/ add_line_work_day_work_time
               \/ remove_line_work_day_work_time
               \/ remove_worker_work_day_work_time
  PROVE  IInv'
<1>1. planned \in [Kind -> [DayId -> SUBSET Slot]] /\ worker_days \subseteq DayId
  BY DEF IInv, TypeOK
<1>2. "line" \in Kind /\ "worker" \in Kind /\ "line" # "worker"
  BY DEF Kind
<1>3. CASE add_line_work_day_work_time
  <2>1. PICK h \in LineHolder, time \in SUBSET Slot \ {{}}, outcome \in Outcome :
          /\ InHand(h)
          /\ planned' = [planned EXCEPT !["line"][Object(h).id] = @ \cup time]
          /\ ThenInclude(h, outcome)
    BY <1>3 DEF add_line_work_day_work_time
  <2>2. h \in Holder /\ Object(h).id \in DayId
    BY <2>1, ObjectTypes DEF LineHolder, Holder, IInv
  <2>3. planned' \in [Kind -> [DayId -> SUBSET Slot]]
    BY <1>1, <1>2, <2>1, <2>2
  <2>4. \A d \in DayId : /\ planned["line"][d] \subseteq planned'["line"][d]
                         /\ planned'["worker"][d] = planned["worker"][d]
    BY <1>1, <1>2, <2>1, <2>2
  <2>5. WorkerTimesFit'
    BY <1>1, <1>3, <2>4 DEF add_line_work_day_work_time, IInv, WorkerTimesFit
  <2> QED BY <1>3, <2>1, <2>2, <2>3, <2>5, PlannedKeeps DEF add_line_work_day_work_time
<1>4. CASE remove_line_work_day_work_time
  <2>1. PICK h \in LineHolder, outcome \in Outcome, worker \in SUBSET Slot, line \in SUBSET Slot :
          /\ InHand(h)
          /\ Object(h).id \in worker_days => worker \subseteq line
          /\ planned' = [planned EXCEPT !["worker"][Object(h).id] = worker,
                                        !["line"][Object(h).id] = line]
          /\ ThenInclude(h, outcome)
    <3>1. PICK h \in LineHolder, time \in SUBSET Slot \ {{}}, outcome \in Outcome, half \in BOOLEAN :
            LET d == Object(h).id
                worker == IF d \in worker_days THEN planned["worker"][d] \ time
                          ELSE planned["worker"][d]
            IN /\ InHand(h) /\ Runs(outcome) /\ d \in line_days
               /\ half => outcome = "lost"
               /\ planned' = [planned EXCEPT !["worker"][d] = worker,
                                             !["line"][d] = IF half THEN @ ELSE @ \ time]
               /\ ThenInclude(h, outcome)
      BY <1>4 DEF remove_line_work_day_work_time
    <3>2. h \in Holder /\ Object(h).id \in DayId
      BY <3>1, ObjectTypes DEF LineHolder, Holder, IInv
    <3>3. PICK worker, line :
            /\ worker = (IF Object(h).id \in worker_days THEN planned["worker"][Object(h).id] \ time
                         ELSE planned["worker"][Object(h).id])
            /\ line = (IF half THEN planned["line"][Object(h).id]
                       ELSE planned["line"][Object(h).id] \ time)
      OBVIOUS
    <3>4. planned' = [planned EXCEPT !["worker"][Object(h).id] = worker,
                                     !["line"][Object(h).id] = line]
      BY <1>1, <1>2, <3>1, <3>2, <3>3
    <3>5. worker \subseteq planned["worker"][Object(h).id] /\ line \subseteq planned["line"][Object(h).id]
      BY <3>3
    <3>6. worker \in SUBSET Slot /\ line \in SUBSET Slot
      BY <1>1, <1>2, <3>2, <3>5
    <3>7. Object(h).id \in worker_days => worker \subseteq line
      BY <3>3 DEF IInv, WorkerTimesFit
    <3> QED BY <3>1, <3>4, <3>6, <3>7
  <2>2. h \in Holder /\ Object(h).id \in DayId
    BY <2>1, ObjectTypes DEF LineHolder, Holder, IInv
  <2>3. planned' \in [Kind -> [DayId -> SUBSET Slot]]
    BY <1>1, <1>2, <2>1, <2>2
  <2>4. \A d \in DayId :
          IF d = Object(h).id
          THEN planned'["worker"][d] = worker /\ planned'["line"][d] = line
          ELSE planned'["worker"][d] = planned["worker"][d] /\ planned'["line"][d] = planned["line"][d]
    BY <1>1, <1>2, <2>1, <2>2
  <2>5. worker_days' = worker_days
    BY <1>4 DEF remove_line_work_day_work_time
  <2>6. WorkerTimesFit'
    BY <1>1, <2>1, <2>4, <2>5 DEF IInv, WorkerTimesFit
  <2> QED BY <1>4, <2>1, <2>2, <2>3, <2>6, PlannedKeeps DEF remove_line_work_day_work_time
<1>5. CASE remove_worker_work_day_work_time
  <2>1. PICK time \in SUBSET Slot \ {{}}, outcome \in Outcome :
          /\ planned' = [planned EXCEPT !["worker"][wwd.id] = @ \ time]
          /\ ThenInclude("wwd", outcome)
    BY <1>5 DEF remove_worker_work_day_work_time
  <2>2. wwd.id \in DayId
    BY <1>5 DEF remove_worker_work_day_work_time, IInv, TypeOK, WorkerWorkDayModel
  <2>3. planned' \in [Kind -> [DayId -> SUBSET Slot]]
    BY <1>1, <1>2, <2>1, <2>2
  <2>4. \A d \in DayId : /\ planned'["line"][d] = planned["line"][d]
                         /\ planned'["worker"][d] \subseteq planned["worker"][d]
    BY <1>1, <1>2, <2>1, <2>2
  <2>5. WorkerTimesFit'
    BY <1>1, <1>5, <2>4 DEF remove_worker_work_day_work_time, IInv, WorkerTimesFit
  <2> QED BY <1>5, <2>1, <2>3, <2>5, PlannedKeeps DEF Holder, remove_worker_work_day_work_time
<1> QED BY <1>3, <1>4, <1>5

(* Rows that change, while the objects of the other holders are kept.      *)
LEMMA TablesKeep ==
  ASSUME IInv, UNCHANGED <<last, call>>,
         owners' \subseteq Kind,
         work_days' \subseteq DayId, line_days' \subseteq work_days', worker_days' \subseteq line_days',
         planned' \in [Kind -> [DayId -> SUBSET Slot]],
         WorkerTimesFit',
         lwd' \in {NULL} \cup LineWorkDayModel, wwd' \in {NULL} \cup WorkerWorkDayModel,
         damage' = damage, handed' \in BOOLEAN, handed => handed',
         wwd' # NULL /\ wwd'.lwd = Freed => handed' \/ (wwd # NULL /\ wwd.lwd = Freed),
         outdated' = outdated \cup Changed,
         \A h \in Holder : InHand(h)' => Kept(h)
  PROVE  IInv'
<1>1. TypeOK'
  BY DEF IInv, TypeOK, Changed
<1>2. FreedInside'
  BY DEF IInv, FreedInside
<1>3. Current'
  <2>1. ASSUME NEW g \in Holder \ outdated', InHand(g)', ~IncludingList(g)'
        PROVE  /\ Kept(g) /\ g \notin outdated /\ ~IncludingList(g)
               /\ planned'[KindOf(g)][Object(g).id] = planned[KindOf(g)][Object(g).id]
    BY <2>1 DEF Changed, Kept, IncludingList
  <2> QED BY <2>1, CurrentStays DEF IInv
<1> QED BY <1>1, <1>2, <1>3 DEF IInv

(* A work_day and all that hangs on it.                                    *)
LEMMA DayDeletedIs ==
  ASSUME IInv, NEW d \in DayId, DayDeleted(d)
  PROVE  /\ work_days' \subseteq DayId /\ line_days' \subseteq work_days' /\ worker_days' \subseteq line_days'
         /\ planned' \in [Kind -> [DayId -> SUBSET Slot]]
         /\ WorkerTimesFit'
<1>1. /\ planned \in [Kind -> [DayId -> SUBSET Slot]] /\ worker_days \subseteq DayId
      /\ "line" \in Kind /\ "worker" \in Kind /\ "line" # "worker"
  BY DEF IInv, TypeOK, Kind
<1>2. planned' = [planned EXCEPT !["line"][d] = {}]
  BY DEF DayDeleted
<1>3. planned' \in [Kind -> [DayId -> SUBSET Slot]]
  BY <1>1, <1>2
<1>4. \A e \in DayId : /\ planned'["worker"][e] = planned["worker"][e]
                       /\ e # d => planned'["line"][e] = planned["line"][e]
  BY <1>1, <1>2
<1>5. WorkerTimesFit'
  BY <1>1, <1>4 DEF IInv, DayDeleted, WorkerTimesFit
<1> QED BY <1>3, <1>5 DEF IInv, TypeOK, DayDeleted

(* The object of a day that has been deleted is freed once.                *)
LEMMA DeleteKeeps ==
  ASSUME IInv, delete_line_work_day
  PROVE  IInv'
<1>1. PICK h \in LineHolder, outcome \in Outcome :
        /\ InHand(h)
        /\ DayDeleted(Object(h).id)
        /\ IF outcome = "ok"
           THEN /\ damage' = (damage \/ FreesTwice(Object(h)))
                /\ Becomes(h, IF h = "lwd" THEN NULL ELSE Freed)
                /\ handed' = (handed \/ h = "nested")
           ELSE UNCHANGED <<lwd, wwd, damage, handed>>
        /\ outdated' = outdated \cup Changed
  BY DEF delete_line_work_day
<1>2. h \in Holder /\ Object(h).id \in DayId
  BY <1>1, ObjectTypes DEF LineHolder, Holder, IInv
<1>3. /\ work_days' \subseteq DayId /\ line_days' \subseteq work_days' /\ worker_days' \subseteq line_days'
      /\ planned' \in [Kind -> [DayId -> SUBSET Slot]]
      /\ WorkerTimesFit'
  BY <1>1, <1>2, DayDeletedIs
<1>4. UNCHANGED <<owners, last, call>>
  BY DEF delete_line_work_day
<1>5. lwd \in {NULL} \cup LineWorkDayModel /\ wwd \in {NULL} \cup WorkerWorkDayModel
  BY DEF IInv, TypeOK
<1>6. /\ damage' = damage
      /\ handed' \in BOOLEAN /\ (handed => handed')
      /\ lwd' \in {NULL} \cup LineWorkDayModel /\ wwd' \in {NULL} \cup WorkerWorkDayModel
      /\ wwd' # NULL /\ wwd'.lwd = Freed => handed' \/ (wwd # NULL /\ wwd.lwd = Freed)
      /\ \A g \in Holder : InHand(g)' => Kept(g)
  <2>1. CASE outcome # "ok"
    BY <1>1, <1>5, <2>1 DEF IInv, TypeOK, InHand, Object, Kept
  <2>2. CASE outcome = "ok" /\ h = "lwd"
    <3>1. lwd' = NULL /\ wwd' = wwd /\ damage' = damage /\ handed' = handed
      BY <1>1, <2>2, NothingFreed DEF Becomes, Object, IInv, TypeOK
    <3> QED BY <1>5, <3>1 DEF IInv, TypeOK, InHand, Object, Kept, Holder
  <2>3. CASE outcome = "ok" /\ h = "nested"
    <3>1. lwd' = lwd /\ wwd' = [wwd EXCEPT !.lwd = Freed] /\ handed' = TRUE
      BY <1>1, <2>3 DEF Becomes, IInv, TypeOK
    <3>2. wwd # NULL /\ wwd \in WorkerWorkDayModel /\ wwd.lwd # Freed
      BY <1>1, <1>5, <2>3 DEF InHand, Object
    <3>3. damage' = damage
      BY <1>1, <2>3, <3>2, NothingFreed DEF Object, IInv, TypeOK
    <3>4. /\ wwd' \in WorkerWorkDayModel /\ wwd'.lwd = Freed
          /\ wwd'.id = wwd.id /\ wwd'.work_time_list = wwd.work_time_list
      BY <3>1, <3>2 DEF WorkerWorkDayModel
    <3>5. wwd' # NULL /\ wwd' # Freed /\ wwd # Freed
      BY <3>2, <3>4, DayModelsAssumption
    <3>6. \A g \in Holder : InHand(g)' => Kept(g)
      BY <3>1, <3>2, <3>4, <3>5 DEF InHand, Object, Kept, Holder
    <3> QED BY <1>5, <3>1, <3>3, <3>4, <3>6
  <2> QED BY <2>1, <2>2, <2>3 DEF LineHolder
<1> QED BY <1>1, <1>3, <1>4, <1>6, TablesKeep DEF IInv, TypeOK

(* Other sessions.                                                         *)
LEMMA OtherSessionKeeps ==
  ASSUME IInv, OtherSession
  PROVE  IInv'
<1>1. /\ planned \in [Kind -> [DayId -> SUBSET Slot]] /\ owners \subseteq Kind
      /\ work_days \subseteq DayId /\ line_days \subseteq work_days /\ worker_days \subseteq line_days
      /\ "line" \in Kind /\ "worker" \in Kind /\ "line" # "worker"
  BY DEF IInv, TypeOK, Kind
<1>2. \A d \in worker_days : planned["worker"][d] \subseteq planned["line"][d]
  BY DEF IInv, WorkerTimesFit
<1>3. /\ owners' \subseteq Kind
      /\ work_days' \subseteq DayId /\ line_days' \subseteq work_days' /\ worker_days' \subseteq line_days'
      /\ planned' \in [Kind -> [DayId -> SUBSET Slot]]
      /\ WorkerTimesFit'
  <2>1. CASE \E d \in line_days, slots \in SUBSET Slot :
               /\ planned' = [planned EXCEPT !["line"][d] = slots, !["worker"][d] = @ \cap slots]
               /\ UNCHANGED <<owners, work_days, line_days, worker_days>>
    <3>1. PICK d \in line_days, slots \in SUBSET Slot, worker \in SUBSET Slot :
            /\ worker \subseteq slots
            /\ planned' = [planned EXCEPT !["line"][d] = slots, !["worker"][d] = worker]
            /\ UNCHANGED <<owners, work_days, line_days, worker_days>>
      <4>1. PICK d \in line_days, slots \in SUBSET Slot :
              /\ planned' = [planned EXCEPT !["line"][d] = slots, !["worker"][d] = @ \cap slots]
              /\ UNCHANGED <<owners, work_days, line_days, worker_days>>
        BY <2>1
      <4>2. PICK worker \in SUBSET Slot : worker = planned["worker"][d] \cap slots
        BY <1>1
      <4>3. planned' = [planned EXCEPT !["line"][d] = slots, !["worker"][d] = worker]
        BY <1>1, <4>1, <4>2
      <4>4. worker \subseteq slots
        BY <4>2
      <4> QED BY <4>1, <4>3, <4>4
    <3>2. planned' \in [Kind -> [DayId -> SUBSET Slot]]
      BY <1>1, <3>1
    <3>3. \A e \in DayId :
            IF e = d THEN planned'["worker"][e] = worker /\ planned'["line"][e] = slots
            ELSE planned'["worker"][e] = planned["worker"][e] /\ planned'["line"][e] = planned["line"][e]
      BY <1>1, <3>1
    <3>4. WorkerTimesFit'
      BY <1>1, <1>2, <3>1, <3>3 DEF WorkerTimesFit
    <3> QED BY <1>1, <3>1, <3>2, <3>4
  <2>2. CASE \E d \in worker_days :
               /\ \E slots \in SUBSET planned["line"][d] : planned' = [planned EXCEPT !["worker"][d] = slots]
               /\ UNCHANGED <<owners, work_days, line_days, worker_days>>
    <3>1. PICK d \in worker_days :
            /\ \E slots \in SUBSET planned["line"][d] : planned' = [planned EXCEPT !["worker"][d] = slots]
            /\ UNCHANGED <<owners, work_days, line_days, worker_days>>
      BY <2>2
    <3>2. PICK slots \in SUBSET planned["line"][d] : planned' = [planned EXCEPT !["worker"][d] = slots]
      BY <3>1
    <3>3. planned' \in [Kind -> [DayId -> SUBSET Slot]]
      <4>1. slots \in SUBSET Slot
        BY <1>1
      <4> QED BY <1>1, <3>2, <4>1
    <3>4. \A e \in DayId :
            /\ planned'["line"][e] = planned["line"][e]
            /\ planned'["worker"][e] = IF e = d THEN slots ELSE planned["worker"][e]
      BY <1>1, <3>2
    <3>5. WorkerTimesFit'
      BY <1>1, <1>2, <3>1, <3>4 DEF WorkerTimesFit
    <3> QED BY <1>1, <3>1, <3>3, <3>5
  <2>3. CASE /\ \E d \in line_days \ worker_days :
                  /\ worker_days' = worker_days \cup {d}
                  /\ planned' = [planned EXCEPT !["worker"][d] = {}]
             /\ UNCHANGED <<owners, work_days, line_days>>
    <3>1. PICK d \in line_days : /\ worker_days' = worker_days \cup {d}
                                 /\ planned' = [planned EXCEPT !["worker"][d] = {}]
      BY <2>3
    <3>2. planned' \in [Kind -> [DayId -> SUBSET Slot]]
      BY <1>1, <3>1
    <3>3. \A e \in DayId :
            /\ planned'["line"][e] = planned["line"][e]
            /\ planned'["worker"][e] = IF e = d THEN {} ELSE planned["worker"][e]
      BY <1>1, <3>1
    <3>4. WorkerTimesFit'
      BY <1>1, <1>2, <3>1, <3>3 DEF WorkerTimesFit
    <3> QED BY <1>1, <2>3, <3>1, <3>2, <3>4
  <2>4. CASE \E d \in line_days : DayDeleted(d) /\ UNCHANGED owners
    BY <1>1, <2>4, DayDeletedIs
  <2>5. CASE \E owner \in owners :
               /\ owners' = owners \ {owner}
               /\ line_days' = IF owner = "line" THEN {} ELSE line_days
               /\ worker_days' = {}
               /\ UNCHANGED <<work_days, planned>>
    BY <1>1, <1>2, <2>5 DEF WorkerTimesFit
  <2> QED BY <2>1, <2>2, <2>3, <2>4, <2>5 DEF OtherSession
<1>4. UNCHANGED <<last, lwd, wwd, call, damage, handed>> /\ outdated' = outdated \cup Changed
  BY DEF OtherSession
<1>5. \A h \in Holder : InHand(h)' => Kept(h)
  BY <1>4 DEF Kept, InHand, Object
<1> QED BY <1>3, <1>4, <1>5, TablesKeep DEF IInv, TypeOK

-----------------------------------------------------------------------------
(* The theorems.                                                           *)

(* There is nothing at first.                                              *)
LEMMA InitIInv == Init => IInv
<1> SUFFICES ASSUME Init
             PROVE  IInv
  OBVIOUS
<1>1. TypeOK
  <2>1. planned \in [Kind -> [DayId -> SUBSET Slot]]
    BY DEF Init
  <2>2. last \in 0..MaxDay
    BY DayModelsAssumption DEF Init
  <2>3. call \in [next : {"idle", "p_create_line_work_day", "select_line_work_day", "include_list"},
                  of : Holder]
    BY DEF Init, Idle, Holder
  <2> QED BY <2>1, <2>2, <2>3 DEF Init, TypeOK
<1>2. FreedInside /\ Current /\ WorkerTimesFit
  BY DEF Init, FreedInside, Current, InHand, Object, Holder, WorkerTimesFit, Kind
<1> QED BY <1>1, <1>2 DEF IInv

(* Every step keeps the invariant.                                         *)
LEMMA NextKeeps == IInv /\ [Next]_vars => IInv'
<1> SUFFICES ASSUME IInv, [Next]_vars
             PROVE  IInv'
  OBVIOUS
<1>1. CASE SelectLine \/ CreateLineWorkDay
  BY <1>1, CreateKeeps
<1>2. CASE SelectLineWorkDay \/ SelectWorkerWorkDay \/ free_line_work_day
  BY <1>2, SelectKeeps
<1>3. CASE free_worker_work_day \/ IncludeLineWorkDay
  BY <1>3, FreeWorkerKeeps
<1>4. CASE IncludeList
  BY <1>4, IncludeListKeeps
<1>5. CASE IncludeOwner \/ refresh_line_work_day
  BY <1>5, IncludeOwnerKeeps
<1>6. CASE \/ add_line_work_day_work_time \/ remove_line_work_day_work_time
           \/ remove_worker_work_day_work_time
  BY <1>6, PlanningKeeps
<1>7. CASE delete_line_work_day
  BY <1>7, DeleteKeeps
<1>8. CASE OtherSession
  BY <1>8, OtherSessionKeeps
<1>9. CASE UNCHANGED vars
  BY <1>9 DEF vars, tables, IInv, TypeOK, FreedInside, Current, WorkerTimesFit, InHand,
     Object, IncludingList, IsCurrent
<1> QED BY <1>1, <1>2, <1>3, <1>4, <1>5, <1>6, <1>7, <1>8, <1>9 DEF Next, Client

(* The inductive invariant holds of every state the program reaches.       *)
LEMMA Invariance == Spec => []IInv
<1> QED BY InitIInv, NextKeeps, PTL DEF Spec

(* The rows, the objects and the call under way are what line_work_day_    *)
(* model.h and worker_work_day_model.h say they are.                       *)
THEOREM DayModelTypes == Spec => []TypeOK
<1>1. IInv => TypeOK
  BY DEF IInv
<1> QED BY <1>1, Invariance, PTL

(* The list of times an object keeps is what the rows of its day are, but  *)
(* for changes made behind the object's back or reported as failed: adding,*)
(* freeing and refreshing include the list anew.                           *)
THEOREM ListsOfTimesAreCurrent == Spec => []ListsAreCurrent
<1>1. IInv => ListsAreCurrent
  BY IdleReadsNone DEF IInv, Current, IsCurrent, ListsAreCurrent
<1> QED BY <1>1, Invariance, PTL

(* The include, refresh, delete and free functions free no memory twice,   *)
(* whichever requests fail, unless the object inside a WorkerWorkDayModel  *)
(* was given to delete_line_work_day.                                      *)
THEOREM NothingIsFreedTwice == Spec => []FreedOnce
<1>1. IInv => FreedOnce
  BY DEF IInv, FreedInside, FreedOnce
<1> QED BY <1>1, Invariance, PTL

(* The worker's planned time stays within the line's, although objects     *)
(* outlive their rows and a removal may fail half-way:                     *)
(* p_remove_line_work_day_work_time, called by                             *)
(* remove_line_work_day_work_time, cuts the worker's day first.            *)
THEOREM WorkersFitAfterFailures == Spec => []WorkerTimesFit
<1>1. IInv => WorkerTimesFit
  BY DEF IInv
<1> QED BY <1>1, Invariance, PTL
=============================================================================
