---------------------------- MODULE MCGeneration ----------------------------
(***************************************************************************)
(* Instances of Generation for TLC.  The default days are numbered: first  *)
(* those of the lines, then those of the workers.                          *)
(***************************************************************************)
EXTENDS Generation, TLC

OneWeek == [d \in Date |-> CHOOSE w \in Week : TRUE]
SameWeekday == [d \in Date |-> 0]
EveryDayOne == [d \in DefaultDay |-> 0]

TwoLines == {"l1", "l2"}
TwoRoles == {"operator", "packer"}

\* Dates that are Mondays, and so weeks as well.
TwoMondays == {"2026-01-05", "2026-01-12"}
ItsOwnWeek == [d \in Date |-> d]

\* The first worker has both roles, the others one each.
MixedRoles == {<<"w1", role>> : role \in Role} \cup {<<"w2", "operator">>, <<"w3", "packer">>}

\* Roles that every worker has and every line asks for one worker in are alike.
Symmetric == Permutations(Role)

EveryLineRole == Line \X Role
\* The first line has one role, the second both.
MixedLineRoles == EveryLineRole \ {<<"l1", "packer">>}

OneLine == {"l1"}
Workers == {"w1", "w2"}
ThreeWorkers == {"w1", "w2", "w3"}

EveryRole == Worker \X Role

\* The second line asks for two workers.
OneAndTwo == [x \in Line \X Role |-> IF x[1] = "l1" THEN 1 ELSE 2]
OneEach == [x \in Line \X Role |-> 1]

\* Days 1 and 2 are the lines', 3, 4 and 5 the workers'.
LinesFirst == {<<1, "l1">>, <<2, "l2">>}
WorkersNext == {<<3, "w1">>, <<4, "w2">>}
AllWorkersNext == WorkersNext \cup {<<5, "w3">>}

Row(s, e) == [start_time |-> s, end_time |-> e]

\* Every set of rows within the first three slots that do not touch.
Rows == {rows \in SUBSET {Row(p[1], p[2]) : p \in {<<0, 1>>, <<0, 2>>, <<0, 3>>, <<1, 2>>, <<1, 3>>, <<2, 3>>}} :
           \A q, r \in rows : q = r \/ q.end_time < r.start_time \/ r.end_time < q.start_time}

\* The second line has a shorter day or one in two parts, the first worker any,
\* the second the whole day or what is left around noon.
SomeTimes ==
  {<<{Row(0, 3)}, l2, w1, w2, {Row(1, 3)}>> :
     l2 \in {{Row(0, 2)}, {Row(1, 3)}, {Row(0, 1), Row(2, 3)}}, w1 \in Rows \ {{}},
     w2 \in {{Row(0, 3)}, {Row(0, 1), Row(2, 3)}}}

WholeDay == {Row(0, MaxTime)}

\* Everyone, line or worker, has the whole day.
AlwaysOn == {[d \in DefaultDay |-> WholeDay]}

\* One line and three workers, or two of whom the second comes later.
OneLineFirst == {<<1, "l1">>}
ThreeWorkersNext == {<<2, "w1">>, <<3, "w2">>, <<4, "w3">>}
TwoWorkersNext == {<<2, "w1">>, <<3, "w2">>}
LaterSecond == {[d \in DefaultDay |-> {Row(IF d = 3 THEN 1 ELSE 0, MaxTime)}]}

=============================================================================
