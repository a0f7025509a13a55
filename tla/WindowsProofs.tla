--------------------------- MODULE WindowsProofs ---------------------------
(***************************************************************************)
(* What destory_app_window and create_app_window do to the path through    *)
(* the queue, and that the queue lists the windows, for any number of      *)
(* windows and of cells, and any bound on the size.                        *)
(***************************************************************************)
EXTENDS Windows, FiniteSetTheorems, WellFoundedInduction, TLAPS

-----------------------------------------------------------------------------
(* The inductive invariant.                                                *)

\* An end that still points to an element points to the last one.
EndSound ==
  end \in DOMAIN cells \cup {NULL} => end = IF chain = <<>> THEN NULL ELSE chain[Len(chain)]

Distinct == \A i, j \in DOMAIN chain : Items[i] = Items[j] => i = j

\* Behind the first entry there are only windows, and each once.
BehindFirst ==
  \A i, j \in DOMAIN chain \ {1} : Items[i] \in live /\ (Items[i] = Items[j] => i = j)

Lists ==
  /\ live \subseteq InQueue
  /\ BehindFirst
  /\ "first" \notin destroyed => InQueue = live /\ Distinct

Listed ==
  windows = "open" /\ damage = {} =>
    /\ Lists
    /\ "last" \notin destroyed => end \in DOMAIN cells \cup {NULL}

QueueSound == QueueTypeOK /\ PathSound /\ EndSound

IInv ==
  /\ TypeOK
  /\ PathSound
  /\ EndSound
  /\ Listed
  /\ windows = "NULL" => live = {}
  /\ windows # "open" => chain = <<>>

-----------------------------------------------------------------------------
(* The queue.                                                              *)

(* Items has an entry for each cell of the path.                           *)
LEMMA ItemsType ==
  ASSUME QueueTypeOK, PathSound
  PROVE  /\ chain \in Seq(Cell) /\ Len(chain) \in Nat /\ DOMAIN chain = 1..Len(chain)
         /\ DOMAIN Items = 1..Len(chain)
         /\ \A i \in 1..Len(chain) : Items[i] = cells[chain[i]].value /\ Items[i] \in Value
<1>1. chain \in Seq(Cell) /\ Len(chain) \in Nat /\ DOMAIN chain = 1..Len(chain)
  BY DEF QueueTypeOK
<1>2. \A i \in 1..Len(chain) : cells[chain[i]].value \in Value
  BY <1>1 DEF QueueTypeOK, PathSound, QueueElement
<1> QED BY <1>1, <1>2 DEF Items

(* An emptied queue is sound.                                              *)
LEMMA EmptySound ==
  ASSUME start' = NULL /\ end' = NULL /\ size' = 0 /\ cells' = <<>> /\ chain' = <<>>
  PROVE  QueueSound' /\ InQueue' = {} /\ Distinct'
BY DEF QueueSound, QueueTypeOK, PathSound, EndSound, InQueue, Distinct

(* A set of numbers that is not empty has a least one: of the finite sets  *)
(* of the numbers below each, one includes no other.                       *)
LEMMA LeastOf ==
  ASSUME NEW S \in SUBSET Nat, S # {}
  PROVE  \E i \in S : \A j \in S : i <= j
<1> DEFINE Below(i) == 0 .. (i - 1)
           F == {Below(i) : i \in S}
<1>1. F \subseteq FiniteSubsetsOf(Nat)
  <2>1. ASSUME NEW i \in S PROVE Below(i) \in SUBSET Nat
    OBVIOUS
  <2>2. ASSUME NEW i \in S PROVE IsFiniteSet(Below(i))
    <3>1. 0 \in Int /\ i - 1 \in Int OBVIOUS
    <3> QED BY <3>1, FS_Interval
  <2> QED BY <2>1, <2>2 DEF FiniteSubsetsOf
<1>2. PICK U \in F : \A V \in F : ~(<<V, U>> \in StrictSubsetOrdering(Nat))
  <2>1. F # {} OBVIOUS
  <2>2. IsWellFoundedOn(StrictSubsetOrdering(Nat), FiniteSubsetsOf(Nat))
    BY FS_StrictSubsetOrderingWellFounded
  <2> HIDE DEF F
  <2> QED BY <1>1, <2>1, <2>2, WFMin
<1>3. PICK i \in S : U = Below(i)
  OBVIOUS
<1>4. ASSUME NEW j \in S, ~(i <= j) PROVE FALSE
  <2>1. Below(j) \in F OBVIOUS
  <2>2. Below(j) \subseteq Below(i) /\ Below(j) # Below(i)
    <3>1. j < i /\ j \in Nat /\ i \in Nat BY <1>4
    <3>2. j \in Below(i) /\ j \notin Below(j) BY <3>1
    <3> QED BY <3>1, <3>2
  <2>3. <<Below(j), U>> \in StrictSubsetOrdering(Nat)
    BY <2>2, <1>3 DEF StrictSubsetOrdering
  <2> QED BY <2>1, <2>3, <1>2
<1> QED BY <1>4

(* Where end is right, push_queue_element lengthens the path by the value. *)
LEMMA PushLengthens ==
  ASSUME QueueSound, end \in DOMAIN cells \cup {NULL}, NEW v \in Value, push_queue_element(v)
  PROVE  /\ QueueSound' /\ end' \in DOMAIN cells'
         /\ Len(chain') = Len(chain) + 1
         /\ \A i \in 1..Len(chain) : Items'[i] = Items[i]
         /\ Items'[Len(chain) + 1] = v
<1>1. PICK c \in Cell \ DOMAIN cells :
         /\ cells' = [d \in DOMAIN cells \cup {c} |->
                   IF d = c THEN [value |-> v, next |-> NULL, prev |-> end]
                   ELSE IF d = end THEN [cells[d] EXCEPT !.next = c] ELSE cells[d]]
         /\ start' = IF end = NULL THEN c ELSE start
         /\ end' = c
         /\ size' = size + 1
         /\ chain' = Append(chain, c)
  BY DEF push_queue_element
<1>0. PICK n \in Nat : n = Len(chain)
  BY DEF QueueSound, QueueTypeOK
<1>2. /\ chain \in Seq(Cell) /\ DOMAIN chain = 1..n
      /\ chain' \in Seq(Cell) /\ Len(chain') = n + 1 /\ DOMAIN chain' = 1..(n + 1)
      /\ \A i \in 1..n : chain'[i] = chain[i] /\ chain[i] \in DOMAIN cells /\ chain[i] # c
      /\ chain'[n + 1] = c
  BY <1>0, <1>1 DEF QueueSound, QueueTypeOK, PathSound
<1>3. DOMAIN cells' = DOMAIN cells \cup {c}
  BY <1>1
<1>4. \A d \in DOMAIN cells : d # c /\
         cells'[d] = IF d = end THEN [cells[d] EXCEPT !.next = c] ELSE cells[d]
  BY <1>1
<1>5. cells'[c] = [value |-> v, next |-> NULL, prev |-> end]
  BY <1>1
<1>6. \A d \in DOMAIN cells : cells[d] \in QueueElement
  BY DEF QueueSound, QueueTypeOK
<1>7. end \in Cell \cup {NULL} /\ end = IF n = 0 THEN NULL ELSE chain[n]
  BY <1>0, <1>2 DEF QueueSound, QueueTypeOK, EndSound
<1>8. QueueTypeOK'
  <2>1. \A d \in DOMAIN cells' : cells'[d] \in QueueElement
    BY <1>1, <1>3, <1>4, <1>5, <1>6, <1>7 DEF QueueElement
  <2>2. start' \in Cell \cup {NULL} /\ end' \in Cell \cup {NULL} /\ size' \in Nat
    BY <1>1 DEF QueueSound, QueueTypeOK
  <2>3. DOMAIN cells' \subseteq Cell
    BY <1>3 DEF QueueSound, QueueTypeOK
  <2> QED BY <1>2, <2>1, <2>2, <2>3 DEF QueueTypeOK
<1>p. /\ \A k, l \in 1..n : chain[k] = chain[l] => k = l
      /\ \A k \in 1..n : cells[chain[k]].next = IF k = n THEN NULL ELSE chain[k + 1]
  BY <1>0, <1>2 DEF QueueSound, PathSound
<1>9. PathSound'
  <2>1. start' = chain'[1]
    BY <1>0, <1>1, <1>2, <1>7, QueueAssumption DEF QueueSound, QueueTypeOK, PathSound
  <2>2. ASSUME NEW i \in 1..(n + 1)
        PROVE  chain'[i] \in DOMAIN cells' /\ cells'[chain'[i]].next = IF i = n + 1 THEN NULL ELSE chain'[i + 1]
    <3>1. CASE i = n + 1 BY <3>1, <1>2, <1>3, <1>5
    <3>2. CASE i = n
      BY <3>2, <1>2, <1>3, <1>4, <1>6, <1>7 DEF QueueElement
    <3>3. CASE i < n
      <4>1. i \in 1..n /\ i + 1 \in 1..n /\ i # n + 1 /\ i # n /\ n \in 1..n /\ n # 0
        BY <3>3
      <4>2. chain[i] # end
        BY <4>1, <1>7, <1>p
      <4>3. cells'[chain[i]] = cells[chain[i]]
        BY <4>1, <4>2, <1>2, <1>4
      <4> QED BY <4>1, <4>3, <1>2, <1>3, <1>p
    <3> QED BY <3>1, <3>2, <3>3
  <2>3. ASSUME NEW i \in 1..(n + 1), NEW j \in 1..(n + 1), chain'[i] = chain'[j]
        PROVE  i = j
    <3>1. CASE i \in 1..n /\ j \in 1..n BY <3>1, <2>3, <1>2, <1>p
    <3>2. CASE i = n + 1 /\ j \in 1..n BY <3>2, <2>3, <1>2
    <3>3. CASE j = n + 1 /\ i \in 1..n BY <3>3, <2>3, <1>2
    <3> QED BY <3>1, <3>2, <3>3
  <2>4. chain' # <<>>
    BY <1>2
  <2> QED BY <2>1, <2>2, <2>3, <2>4, <1>2 DEF PathSound
<1>10. EndSound' /\ end' \in DOMAIN cells'
  BY <1>1, <1>2, <1>3 DEF EndSound
<1>11. \A i \in 1..n : cells'[chain[i]].value = cells[chain[i]].value
  BY <1>2, <1>4, <1>6 DEF QueueElement
<1>12. \A i \in 1..(n + 1) : Items'[i] = cells'[chain'[i]].value
  BY <1>2 DEF Items
<1>13. \A i \in 1..n : Items[i] = cells[chain[i]].value
  BY <1>2 DEF Items
<1>14. \A i \in 1..n : Items'[i] = Items[i]
  BY <1>11, <1>12, <1>13, <1>2
<1>15. Items'[n + 1] = v
  BY <1>12, <1>2, <1>5
<1> QED BY <1>0, <1>2, <1>8, <1>9, <1>10, <1>14, <1>15 DEF QueueSound

(* remove_queue_element takes the first entry it finds behind the first    *)
(* one out of the path; end is left behind if that was the last.           *)
LEMMA RemoveShortens ==
  ASSUME QueueSound, NEW v \in Value, remove_queue_element(v),
         {i \in DOMAIN chain \ {1} : cells[chain[i]].value = v} # {}
  PROVE  \E f \in 2..Len(chain) :
           /\ Items[f] = v
           /\ \A i \in 2..Len(chain) : Items[i] = v => f <= i
           /\ QueueSound' /\ Len(chain') = Len(chain) - 1
           /\ \A i \in 1..Len(chain') : Items'[i] = IF i < f THEN Items[i] ELSE Items[i + 1]
           /\ f # Len(chain) /\ end \in DOMAIN cells => end' \in DOMAIN cells'
<1>1. PICK n \in Nat : n = Len(chain)
  BY DEF QueueSound, QueueTypeOK
<1>2. chain \in Seq(Cell) /\ DOMAIN chain = 1..n
  BY <1>1 DEF QueueSound, QueueTypeOK
<1> DEFINE found == {i \in DOMAIN chain \ {1} : cells[chain[i]].value = v}
           first == CHOOSE i \in found : \A j \in found : i <= j
<1>3. found # {} /\ found \subseteq Nat
  BY <1>2
<1>4. first \in found /\ \A j \in found : first <= j
  <2>1. \E i \in found : \A j \in found : i <= j
    <3> HIDE DEF found
    <3> QED BY <1>3, LeastOf
  <2> HIDE DEF found
  <2> QED BY <2>1
<1>5. /\ cells' = [c \in DOMAIN cells \ {chain[first]} |->
                     IF c = chain[first - 1] THEN [cells[c] EXCEPT !.next = cells[chain[first]].next]
                     ELSE cells[c]]
      /\ chain' = [i \in 1..Len(chain) - 1 |-> IF i < first THEN chain[i] ELSE chain[i + 1]]
      /\ UNCHANGED <<start, end, size>>
  BY <1>3 DEF remove_queue_element
<1>6. PICK f : f = first
  OBVIOUS
<1>b. f \in found /\ \A j \in found : f <= j
  <2> HIDE DEF first
  <2> QED BY <1>4, <1>6
<1> HIDE DEF first
<1>7. f \in 2..n /\ cells[chain[f]].value = v
  BY <1>1, <1>2, <1>b
<1>8. \A i \in 2..n : cells[chain[i]].value = v => f <= i
  BY <1>2, <1>b
<1>9. PICK tmp, before : tmp = chain[f] /\ before = chain[f - 1]
  OBVIOUS
<1>10. /\ cells' = [c \in DOMAIN cells \ {tmp} |->
                     IF c = before THEN [cells[c] EXCEPT !.next = cells[tmp].next]
                     ELSE cells[c]]
       /\ chain' = [i \in 1..(n - 1) |-> IF i < f THEN chain[i] ELSE chain[i + 1]]
       /\ UNCHANGED <<start, end, size>>
  BY <1>1, <1>5, <1>6, <1>9
<1> HIDE DEF found
<1>11. /\ \A k, l \in 1..n : chain[k] = chain[l] => k = l
       /\ \A k \in 1..n : /\ chain[k] \in DOMAIN cells /\ chain[k] \in Cell
                          /\ cells[chain[k]].next = IF k = n THEN NULL ELSE chain[k + 1]
       /\ start = chain[1]
  <2>1. PathSound /\ \A k \in 1..n : chain[k] \in Cell
    BY <1>2 DEF QueueSound
  <2>2. \A k, l \in 1..n : chain[k] = chain[l] => k = l
    BY <2>1, <1>2 DEF PathSound
  <2>3. \A k \in 1..n : /\ chain[k] \in DOMAIN cells
                        /\ cells[chain[k]].next = IF k = n THEN NULL ELSE chain[k + 1]
    BY <2>1, <1>1, <1>2 DEF PathSound
  <2>4. start = chain[1]
    <3>1. chain # <<>> BY <1>1, <1>7
    <3> QED BY <2>1, <3>1 DEF PathSound
  <2> QED BY <2>1, <2>2, <2>3, <2>4
<1>12. /\ DOMAIN cells' = DOMAIN cells \ {tmp}
       /\ \A c \in DOMAIN cells' : cells'[c] = IF c = before THEN [cells[c] EXCEPT !.next = cells[tmp].next]
                                              ELSE cells[c]
  BY <1>10
<1>13. chain' \in Seq(Cell) /\ Len(chain') = n - 1 /\ DOMAIN chain' = 1..(n - 1)
  <2>1. n - 1 \in Nat /\ \A i \in 1..(n - 1) : chain'[i] \in Cell
    BY <1>7, <1>10, <1>11
  <2> QED BY <2>1, <1>10
<1>14. \A i \in 1..(n - 1) : chain'[i] = IF i < f THEN chain[i] ELSE chain[i + 1]
  BY <1>10
<1>15. \A c \in DOMAIN cells : cells[c] \in QueueElement
  BY DEF QueueSound, QueueTypeOK
<1>16. \A c \in DOMAIN cells' : cells'[c] \in QueueElement /\ cells'[c].value = cells[c].value
  <2>1. tmp \in DOMAIN cells /\ cells[tmp].next \in Cell \cup {NULL}
    BY <1>7, <1>9, <1>11, <1>15 DEF QueueElement
  <2> QED BY <2>1, <1>12, <1>15 DEF QueueElement
<1>17. QueueTypeOK'
  BY <1>10, <1>12, <1>13, <1>16 DEF QueueSound, QueueTypeOK
<1>18. PathSound'
  <2>1. start' = chain'[1] /\ chain' # <<>>
    BY <1>7, <1>10, <1>11, <1>13, <1>14
  <2>2. ASSUME NEW i \in 1..(n - 1)
        PROVE  chain'[i] \in DOMAIN cells'
    BY <2>2, <1>7, <1>9, <1>11, <1>12, <1>14
  <2>3. ASSUME NEW i \in 1..(n - 1)
        PROVE  cells'[chain'[i]].next = IF i = n - 1 THEN NULL ELSE chain'[i + 1]
    <3>1. CASE i = f - 1
      <4>1. chain'[i] = before /\ before \in DOMAIN cells' /\ before \in DOMAIN cells
        BY <3>1, <2>2, <1>7, <1>9, <1>12, <1>14
      <4>2. cells'[before].next = cells[tmp].next
        BY <4>1, <1>12, <1>15 DEF QueueElement
      <4>3. cells[tmp].next = IF f = n THEN NULL ELSE chain[f + 1]
        BY <1>7, <1>9, <1>11
      <4>4. i # n - 1 => chain'[i + 1] = chain[f + 1]
        BY <3>1, <1>7, <1>14
      <4> QED BY <3>1, <4>1, <4>2, <4>3, <4>4, <1>7
    <3>2. CASE i < f - 1
      <4>1. chain'[i] = chain[i] /\ chain[i] # before /\ i + 1 < f /\ i # n
        BY <3>2, <1>7, <1>9, <1>11, <1>14
      <4>2. cells'[chain[i]] = cells[chain[i]]
        BY <4>1, <2>2, <1>12
      <4>3. cells[chain[i]].next = chain[i + 1] /\ i # n - 1 /\ chain'[i + 1] = chain[i + 1]
        BY <4>1, <1>7, <1>11, <1>14
      <4> QED BY <4>1, <4>2, <4>3
    <3>3. CASE i > f - 1
      <4>1. chain'[i] = chain[i + 1] /\ chain[i + 1] # before
        BY <3>3, <1>7, <1>9, <1>11, <1>14
      <4>2. cells'[chain[i + 1]] = cells[chain[i + 1]]
        BY <4>1, <2>2, <1>12
      <4>3. cells[chain[i + 1]].next = IF i = n - 1 THEN NULL ELSE chain[i + 2]
        BY <1>11
      <4>4. i # n - 1 => chain'[i + 1] = chain[i + 2]
        BY <3>3, <1>7, <1>14
      <4> QED BY <4>1, <4>2, <4>3, <4>4
    <3> QED BY <3>1, <3>2, <3>3, <1>7
  <2>4. ASSUME NEW i \in 1..(n - 1), NEW j \in 1..(n - 1), chain'[i] = chain'[j]
        PROVE  i = j
    BY <2>4, <1>7, <1>11, <1>14
  <2> QED BY <2>1, <2>2, <2>3, <2>4, <1>13 DEF PathSound
<1>19. EndSound' /\ (f # n /\ end \in DOMAIN cells => end' \in DOMAIN cells')
  <2>1. end \in DOMAIN cells \cup {NULL} => end = chain[n]
    BY <1>1, <1>2, <1>7 DEF QueueSound, EndSound
  <2>2. chain[n] \in DOMAIN cells /\ chain[n] \in Cell /\ (chain[n] = tmp <=> f = n)
    BY <1>7, <1>9, <1>11
  <2>3. f # n => chain'[n - 1] = chain[n]
    BY <1>7, <1>14
  <2>4. end' = end /\ chain' # <<>>
    BY <1>7, <1>10, <1>13
  <2>5. f # n /\ end \in DOMAIN cells => end' \in DOMAIN cells'
    BY <2>1, <2>2, <2>4, <1>12
  <2>6. end' \in DOMAIN cells' \cup {NULL} => end' = chain'[n - 1]
    BY <2>1, <2>2, <2>3, <2>4, <1>12, QueueAssumption
  <2> QED BY <2>4, <2>5, <2>6, <1>13 DEF EndSound
<1>20. \A i \in 1..n : Items[i] = cells[chain[i]].value
  BY <1>2 DEF Items
<1>21. \A i \in 1..(n - 1) : Items'[i] = cells'[chain'[i]].value
  BY <1>13 DEF Items
<1>22. \A i \in 1..(n - 1) : Items'[i] = IF i < f THEN Items[i] ELSE Items[i + 1]
  <2> SUFFICES ASSUME NEW i \in 1..(n - 1)
               PROVE  Items'[i] = IF i < f THEN Items[i] ELSE Items[i + 1]
    OBVIOUS
  <2>1. chain'[i] \in DOMAIN cells'
    BY <1>13, <1>18 DEF PathSound
  <2>2. cells'[chain'[i]].value = cells[chain'[i]].value
    BY <2>1, <1>16
  <2> QED BY <2>2, <1>14, <1>20, <1>21, <1>7
<1>23. /\ Items[f] = v
       /\ \A i \in 2..n : Items[i] = v => f <= i
  BY <1>7, <1>8, <1>20
<1> QED BY <1>1, <1>7, <1>13, <1>17, <1>18, <1>19, <1>22, <1>23 DEF QueueSound

(* The list is sound after remove_queue_element.                           *)
LEMMA RemoveSound ==
  ASSUME QueueSound, NEW v \in Value, remove_queue_element(v)
  PROVE  QueueSound'
<1>1. CASE {i \in DOMAIN chain \ {1} : cells[chain[i]].value = v} = {}
  <2>1. UNCHANGED queue_vars
    BY <1>1 DEF remove_queue_element
  <2> QED BY <2>1 DEF queue_vars, QueueSound, QueueTypeOK, PathSound, EndSound
<1>2. CASE {i \in DOMAIN chain \ {1} : cells[chain[i]].value = v} # {}
  BY <1>2, RemoveShortens
<1> QED BY <1>1, <1>2

-----------------------------------------------------------------------------
(* The windows.                                                            *)

(* A created window is listed like the others.                             *)
LEMMA CreateLists ==
  ASSUME QueueSound, end \in DOMAIN cells \cup {NULL}, Lists, live \subseteq Window,
         NEW w \in Window \ live, push_queue_element(w),
         live' = live \cup {w}, destroyed' = destroyed
  PROVE  Lists'
<1>0. w \in Value
  BY WindowsAssumption
<1>1. /\ QueueSound' /\ Len(chain') = Len(chain) + 1
      /\ \A i \in 1..Len(chain) : Items'[i] = Items[i]
      /\ Items'[Len(chain) + 1] = w
  BY <1>0, PushLengthens
<1>2. PICK n \in Nat : n = Len(chain) /\ DOMAIN chain = 1..n
  BY DEF QueueSound, QueueTypeOK
<1>3. DOMAIN chain' = 1..(n + 1)
  BY <1>1, <1>2 DEF QueueSound, QueueTypeOK
<1>4. \A i \in 1..n : Items'[i] = Items[i]
  BY <1>1, <1>2
<1>5. Items'[n + 1] = w
  BY <1>1, <1>2
<1>6. InQueue = {Items[i] : i \in 1..n} /\ InQueue' = {Items'[i] : i \in 1..(n + 1)}
  BY <1>2, <1>3 DEF InQueue
<1>7. InQueue' = InQueue \cup {w}
  <2>1. ASSUME NEW x \in InQueue PROVE x \in InQueue'
    <3>1. PICK i \in 1..n : Items[i] = x
      BY <1>6
    <3>2. i \in 1..(n + 1) /\ Items'[i] = x
      BY <3>1, <1>4
    <3> QED BY <3>2, <1>6
  <2>2. w \in InQueue'
    <3>1. n + 1 \in 1..(n + 1) OBVIOUS
    <3> QED BY <3>1, <1>5, <1>6
  <2>3. ASSUME NEW x \in InQueue' PROVE x \in InQueue \cup {w}
    <3>1. PICK i \in 1..(n + 1) : Items'[i] = x
      BY <1>6
    <3>2. CASE i \in 1..n BY <3>1, <3>2, <1>4, <1>6
    <3>3. CASE i = n + 1 BY <3>1, <3>3, <1>5
    <3> QED BY <3>2, <3>3
  <2> QED BY <2>1, <2>2, <2>3
<1>8. BehindFirst'
  <2>1. \A i \in 2..n : Items[i] \in live /\ Items[i] # w
    BY <1>2 DEF Lists, BehindFirst
  <2>2. ASSUME NEW i \in 2..(n + 1), NEW j \in 2..(n + 1), Items'[i] = Items'[j]
        PROVE  i = j
    <3>1. CASE i \in 2..n /\ j \in 2..n
      BY <3>1, <2>2, <1>2, <1>4 DEF Lists, BehindFirst
    <3>2. CASE i = n + 1 /\ j \in 2..n BY <3>2, <2>1, <2>2, <1>4, <1>5
    <3>3. CASE j = n + 1 /\ i \in 2..n BY <3>3, <2>1, <2>2, <1>4, <1>5
    <3> QED BY <3>1, <3>2, <3>3
  <2>3. \A i \in 2..(n + 1) : Items'[i] \in live'
    BY <2>1, <1>4, <1>5
  <2>4. (DOMAIN chain') \ {1} \subseteq 2..(n + 1)
    BY <1>3
  <2> QED BY <2>2, <2>3, <2>4 DEF BehindFirst
<1>9. ASSUME "first" \notin destroyed PROVE InQueue' = live' /\ Distinct'
  <2>1. InQueue = live /\ Distinct
    BY <1>9 DEF Lists
  <2>2. \A i \in 1..n : Items[i] # w
    BY <1>6, <2>1
  <2>3. ASSUME NEW i \in 1..(n + 1), NEW j \in 1..(n + 1), Items'[i] = Items'[j]
        PROVE  i = j
    <3>1. CASE i \in 1..n /\ j \in 1..n
      BY <3>1, <2>1, <2>3, <1>2, <1>4 DEF Distinct
    <3>2. CASE i = n + 1 /\ j \in 1..n BY <3>2, <2>2, <2>3, <1>4, <1>5
    <3>3. CASE j = n + 1 /\ i \in 1..n BY <3>3, <2>2, <2>3, <1>4, <1>5
    <3> QED BY <3>1, <3>2, <3>3
  <2>4. Distinct'
    BY <1>3, <2>3 DEF Distinct
  <2> QED BY <1>7, <2>1, <2>4
<1> QED BY <1>7, <1>8, <1>9 DEF Lists

(* A window that is destroyed leaves the queue for good if it has an entry *)
(* behind the first.                                                       *)
LEMMA DestroyUnlists ==
  ASSUME QueueSound, Lists,
         NEW w \in Window, remove_queue_element(w),
         {i \in DOMAIN chain \ {1} : cells[chain[i]].value = w} # {},
         live' = live \ {w}, destroyed' = destroyed \cup Ends(w),
         "last" \notin destroyed => end \in DOMAIN cells \cup {NULL}
  PROVE  /\ Lists'
         /\ "last" \notin destroyed' => end' \in DOMAIN cells' \cup {NULL}
<1>0. w \in Value
  BY WindowsAssumption
<1>1. PICK n \in Nat : n = Len(chain) /\ DOMAIN chain = 1..n
  BY DEF QueueSound, QueueTypeOK
<1>2. PICK f \in 2..n :
         /\ Items[f] = w
         /\ QueueSound' /\ Len(chain') = n - 1
         /\ \A i \in 1..(n - 1) : Items'[i] = IF i < f THEN Items[i] ELSE Items[i + 1]
         /\ f # n /\ end \in DOMAIN cells => end' \in DOMAIN cells'
  <2>1. \E f \in 2..Len(chain) :
           /\ Items[f] = w
           /\ \A i \in 2..Len(chain) : Items[i] = w => f <= i
           /\ QueueSound' /\ Len(chain') = Len(chain) - 1
           /\ \A i \in 1..Len(chain') : Items'[i] = IF i < f THEN Items[i] ELSE Items[i + 1]
           /\ f # Len(chain) /\ end \in DOMAIN cells => end' \in DOMAIN cells'
    BY <1>0, RemoveShortens
  <2> QED BY <2>1, <1>1
<1>3. \A i, j \in 2..n : Items[i] \in live /\ (Items[i] = Items[j] => i = j)
  BY <1>1 DEF Lists, BehindFirst
<1>4. DOMAIN chain' = 1..(n - 1)
  BY <1>2 DEF QueueSound, QueueTypeOK
<1>5. InQueue = {Items[i] : i \in 1..n} /\ InQueue' = {Items'[i] : i \in 1..(n - 1)}
  BY <1>1, <1>4 DEF InQueue
<1>6. ASSUME NEW x \in live \ {w} PROVE x \in InQueue'
  <2>1. PICK j \in 1..n : Items[j] = x
    BY <1>5 DEF Lists
  <2>2. j # f BY <2>1, <1>2, <1>6
  <2>3. CASE j < f
    <3>1. j \in 1..(n - 1) /\ Items'[j] = x BY <2>1, <2>3, <1>2
    <3> QED BY <3>1, <1>5
  <2>4. CASE j > f
    <3>1. j - 1 \in 1..(n - 1) /\ ~(j - 1 < f) /\ (j - 1) + 1 = j BY <2>1, <2>4, <1>2
    <3>2. Items'[j - 1] = x BY <3>1, <2>1, <1>2
    <3> QED BY <3>1, <3>2, <1>5
  <2> QED BY <2>2, <2>3, <2>4, <1>2
<1>7. \A i \in 1..(n - 1) : \E k \in 1..n \ {f} :
        k = (IF i < f THEN i ELSE i + 1) /\ Items'[i] = Items[k]
  BY <1>2
<1>8. BehindFirst'
  <2>1. ASSUME NEW i \in 2..(n - 1) PROVE Items'[i] \in live'
    <3>1. PICK k \in 1..n \ {f} : k = (IF i < f THEN i ELSE i + 1) /\ Items'[i] = Items[k]
      BY <1>7
    <3>2. k \in 2..n BY <3>1
    <3>3. Items[k] \in live /\ Items[k] # w BY <3>1, <3>2, <1>2, <1>3
    <3> QED BY <3>1, <3>3
  <2>2. ASSUME NEW i \in 2..(n - 1), NEW j \in 2..(n - 1), Items'[i] = Items'[j]
        PROVE  i = j
    <3>1. PICK k \in 1..n \ {f} : k = (IF i < f THEN i ELSE i + 1) /\ Items'[i] = Items[k]
      BY <1>7
    <3>2. PICK l \in 1..n \ {f} : l = (IF j < f THEN j ELSE j + 1) /\ Items'[j] = Items[l]
      BY <1>7
    <3>3. k = l
      <4>1. k \in 2..n /\ l \in 2..n /\ Items[k] = Items[l] BY <3>1, <3>2, <2>2
      <4> QED BY <4>1, <1>3
    <3> QED BY <3>1, <3>2, <3>3
  <2>3. (DOMAIN chain') \ {1} \subseteq 2..(n - 1)
    BY <1>4
  <2> QED BY <2>1, <2>2, <2>3 DEF BehindFirst
<1>9. ASSUME "first" \notin destroyed' PROVE InQueue' = live' /\ Distinct'
  <2>1. InQueue = live /\ Distinct
    BY <1>9 DEF Lists
  <2>2. \A i, j \in 1..n : Items[i] = Items[j] => i = j
    BY <2>1, <1>1 DEF Distinct
  <2>3. ASSUME NEW x \in InQueue' PROVE x \in live \ {w}
    <3>1. PICK i \in 1..(n - 1) : Items'[i] = x
      BY <1>5
    <3>2. PICK k \in 1..n \ {f} : Items[k] = x
      BY <3>1, <1>7
    <3> QED BY <3>2, <2>1, <2>2, <1>2, <1>5
  <2>4. ASSUME NEW i \in 1..(n - 1), NEW j \in 1..(n - 1), Items'[i] = Items'[j]
        PROVE  i = j
    <3>1. PICK k \in 1..n \ {f} : k = (IF i < f THEN i ELSE i + 1) /\ Items'[i] = Items[k]
      BY <1>7
    <3>2. PICK l \in 1..n \ {f} : l = (IF j < f THEN j ELSE j + 1) /\ Items'[j] = Items[l]
      BY <1>7
    <3>3. k = l BY <3>1, <3>2, <2>2, <2>4
    <3> QED BY <3>1, <3>2, <3>3
  <2>5. Distinct'
    BY <1>4, <2>4 DEF Distinct
  <2> QED BY <1>6, <2>3, <2>5
<1>10. ASSUME "last" \notin destroyed' PROVE end' \in DOMAIN cells'
  <2>1. "last" \notin destroyed /\ n \notin Times(w) \ {1}
    BY <1>1, <1>10 DEF Ends
  <2>2. f # n
    BY <2>1, <1>1, <1>2 DEF Times
  <2>3. end = chain[n] /\ chain[n] \in Cell
    BY <2>1, <1>1, <1>2 DEF QueueSound, QueueTypeOK, EndSound
  <2>4. end # NULL BY <2>3, QueueAssumption
  <2> QED BY <2>1, <2>2, <2>4, <1>2
<1> QED BY <1>6, <1>8, <1>9, <1>10 DEF Lists

(* One without such an entry is the first, and stays in the queue.         *)
LEMMA DestroyLeaves ==
  ASSUME QueueSound, Lists,
         NEW w \in live, UNCHANGED queue_vars,
         {i \in DOMAIN chain \ {1} : cells[chain[i]].value = w} = {},
         live' = live \ {w}, destroyed' = destroyed \cup Ends(w),
         "last" \notin destroyed => end \in DOMAIN cells \cup {NULL}
  PROVE  /\ Lists'
         /\ "last" \notin destroyed' => end' \in DOMAIN cells' \cup {NULL}
<1>1. \A i \in DOMAIN chain \ {1} : Items[i] # w
  BY DEF Items
<1>2. 1 \in Times(w)
  BY <1>1 DEF Lists, InQueue, Times
<1>3. "first" \in destroyed'
  BY <1>2 DEF Ends
<1>4. chain' = chain /\ Items' = Items /\ InQueue' = InQueue
  BY DEF queue_vars, Items, InQueue
<1>5. BehindFirst'
  BY <1>1, <1>4 DEF Lists, BehindFirst
<1>6. "last" \notin destroyed' => end' \in DOMAIN cells' \cup {NULL}
  BY DEF queue_vars
<1> QED BY <1>3, <1>4, <1>5, <1>6 DEF Lists

-----------------------------------------------------------------------------
(* Closing.                                                                *)

(* Freeing the queue, by whatever way, leaves a sound, empty one.          *)
LEMMA FreeQueueKeeps ==
  ASSUME IInv, free_queue, windows' = "freed",
         live' \subseteq Window, shown' = {}, UNCHANGED <<parent, destroyed>>,
         process' \in {"running", "exited"},
         damage' \subseteq damage \cup {"freed_twice", "freed_memory_of_SDL"}
  PROVE  IInv'
<1>1. QueueSound' /\ chain' = <<>>
  BY EmptySound DEF free_queue
<1>2. TypeOK'
  BY <1>1 DEF IInv, TypeOK, QueueSound
<1> QED BY <1>1, <1>2 DEF IInv, QueueSound, Listed

(* The interface is closed with or without ending the process.             *)
LEMMA CloseKeeps ==
  ASSUME IInv, Close, UNCHANGED <<parent, destroyed>>, process' \in {"running", "exited"}
  PROVE  IInv'
<1>1. damage' \subseteq damage \cup {"freed_twice", "freed_memory_of_SDL"}
  BY DEF Close, FreedTwice
<1>2. live' \subseteq Window
  BY DEF Close, IInv, TypeOK
<1> QED BY <1>1, <1>2, FreeQueueKeeps DEF Close

(* Of the windows none remains, and each is freed once unless the first is *)
(* there no more.                                                          *)
LEMMA CloseFreesAll ==
  ASSUME IInv, windows = "open", damage = {}
  PROVE  live \ InQueue = {} /\ ("first" \notin destroyed => FreedTwice = {})
BY DEF IInv, Listed, Lists, Distinct, FreedTwice

-----------------------------------------------------------------------------
(* The invariant.                                                          *)

LEMMA InitInv == Init => IInv
<1> SUFFICES ASSUME Init PROVE IInv
  OBVIOUS
<1>1. QueueSound /\ chain = <<>>
  BY DEF Init, QueueInit, QueueSound, QueueTypeOK, PathSound, EndSound
<1>2. TypeOK
  BY <1>1 DEF Init, TypeOK, QueueSound
<1> QED BY <1>1, <1>2 DEF Init, IInv, QueueSound, Listed

LEMMA StartKeeps == IInv /\ start_app_interface => IInv'
<1> SUFFICES ASSUME IInv, start_app_interface PROVE IInv'
  OBVIOUS
<1>1. CASE windows = "NULL"
  <2>1. /\ windows' = "open" /\ create_queue
        /\ UNCHANGED <<live, shown, process, damage, parent, destroyed>> /\ live = {}
    BY <1>1 DEF start_app_interface, IInv
  <2>2. QueueSound' /\ InQueue' = {} /\ Distinct' /\ end' = NULL /\ chain' = <<>>
    BY <2>1, EmptySound DEF create_queue
  <2>3. TypeOK'
    BY <2>1, <2>2 DEF IInv, TypeOK, QueueSound
  <2>4. Lists'
    BY <2>1, <2>2 DEF Lists, BehindFirst
  <2> QED BY <2>1, <2>2, <2>3, <2>4 DEF IInv, QueueSound, Listed
<1>2. CASE windows # "NULL"
  <2>1. Close /\ UNCHANGED <<parent, destroyed>> /\ process' \in {"running", "exited"}
    BY <1>2 DEF start_app_interface, Raise, Exit
  <2> QED BY <2>1, CloseKeeps
<1> QED BY <1>1, <1>2

(* Nothing but the end of the process.                                     *)
LEMMA ExitKeeps ==
  ASSUME IInv, Exit, UNCHANGED <<windows, live, shown, damage, queue_vars, parent, destroyed>>
  PROVE  IInv'
BY DEF Exit, IInv, TypeOK, QueueTypeOK, PathSound, EndSound, Listed, Lists, BehindFirst, InQueue, Distinct,
       Items, queue_vars

LEMMA CloseInterfaceKeeps == IInv /\ close_app_interface => IInv'
<1> SUFFICES ASSUME IInv, close_app_interface PROVE IInv'
  OBVIOUS
<1>1. CASE windows = "NULL"
  BY <1>1, ExitKeeps DEF close_app_interface
<1>2. CASE windows # "NULL"
  <2>1. Close /\ UNCHANGED <<parent, destroyed>> /\ process' \in {"running", "exited"}
    BY <1>2 DEF close_app_interface, IInv, TypeOK
  <2> QED BY <2>1, CloseKeeps
<1> QED BY <1>1, <1>2

LEMMA CreateFailsKeeps == IInv /\ CreateFails => IInv'
<1> SUFFICES ASSUME IInv, CreateFails PROVE IInv'
  OBVIOUS
<1>1. CASE windows = "NULL" /\ Exit /\ UNCHANGED <<windows, live, shown, damage, queue_vars>>
  BY <1>1, ExitKeeps DEF CreateFails
<1>2. CASE windows # "NULL" /\ Raise
  <2>1. Close /\ UNCHANGED <<parent, destroyed>> /\ process' \in {"running", "exited"}
    BY <1>2 DEF CreateFails, Raise, Exit
  <2> QED BY <2>1, CloseKeeps
<1>3. CASE /\ Exit /\ windows' = "freed" /\ live' = live \ InQueue /\ shown' = {} /\ free_queue
           /\ damage' = damage \cup FreedTwice \cup {"freed_memory_of_SDL"}
  <2>1. live' \subseteq Window /\ process' \in {"running", "exited"} /\ UNCHANGED <<parent, destroyed>>
    BY <1>3 DEF CreateFails, Exit, IInv, TypeOK
  <2>2. damage' \subseteq damage \cup {"freed_twice", "freed_memory_of_SDL"}
    BY <1>3 DEF FreedTwice
  <2> QED BY <1>3, <2>1, <2>2, FreeQueueKeeps
<1> QED BY <1>1, <1>2, <1>3 DEF CreateFails

LEMMA CreateKeeps ==
  ASSUME IInv, NEW p \in live \cup {NULL}, create_app_window(p)
  PROVE  IInv'
<1>1. PICK w \in Window \ live :
        /\ live' = live \cup {w}
        /\ parent' = [parent EXCEPT ![w] = p]
        /\ damage' = damage \cup PushDamage
        /\ IF PushDamage = {} THEN push_queue_element(w) ELSE UNCHANGED queue_vars
  BY DEF create_app_window
<1>2. UNCHANGED <<windows, shown, process, destroyed>> /\ windows # "NULL"
  BY DEF create_app_window
<1>3. /\ live' \subseteq Window
      /\ parent' \in [Window -> Window \cup {NULL}]
      /\ damage' \subseteq {"freed_twice", "pushed_on_freed_queue", "pushed_on_freed_element",
                            "freed_memory_of_SDL", "freed_parent"}
  BY <1>1 DEF IInv, TypeOK, PushDamage
<1>4. CASE PushDamage = {}
  <2>1. windows = "open" /\ end \in DOMAIN cells \cup {NULL} /\ push_queue_element(w)
    BY <1>1, <1>2, <1>4 DEF PushDamage, IInv, TypeOK
  <2>2. w \in Value /\ QueueSound
    BY WindowsAssumption DEF IInv, TypeOK, QueueSound
  <2>3. QueueSound' /\ end' \in DOMAIN cells'
    BY <2>1, <2>2, PushLengthens
  <2>4. TypeOK'
    BY <1>2, <1>3, <2>3 DEF IInv, TypeOK, QueueSound
  <2>5. damage' = {} => Lists'
    <3>1. damage' = {} => Lists
      BY <1>1, <2>1 DEF IInv, Listed
    <3>2. live \subseteq Window /\ destroyed' = destroyed
      BY <1>2 DEF IInv, TypeOK
    <3> QED BY <1>1, <2>1, <2>2, <3>1, <3>2, CreateLists
  <2> QED BY <1>2, <2>1, <2>3, <2>4, <2>5 DEF IInv, QueueSound, Listed
<1>5. CASE PushDamage # {}
  <2>1. UNCHANGED queue_vars
    BY <1>1, <1>5
  <2>2. damage' # {}
    BY <1>1, <1>5
  <2>3. QueueTypeOK' /\ PathSound' /\ EndSound' /\ chain' = chain
    BY <2>1 DEF IInv, TypeOK, QueueTypeOK, PathSound, EndSound, queue_vars
  <2>4. TypeOK'
    BY <1>2, <1>3, <2>3 DEF IInv, TypeOK
  <2> QED BY <1>2, <2>2, <2>3, <2>4 DEF IInv, Listed
<1> QED BY <1>4, <1>5

(* Showing and hiding leave the list alone.                                *)
LEMMA ShowKeeps ==
  ASSUME IInv, UNCHANGED <<windows, live, parent, process, destroyed, queue_vars>>,
         shown' \subseteq Window,
         damage' \in {damage, damage \cup {"freed_parent"}}
  PROVE  IInv'
<1>1. TypeOK'
  BY DEF IInv, TypeOK, QueueTypeOK, queue_vars
<1>2. UNCHANGED <<InQueue, Distinct, BehindFirst, PathSound, EndSound>>
  BY DEF InQueue, Distinct, BehindFirst, PathSound, EndSound, Items, queue_vars
<1>3. damage' = {} => damage = {}
  OBVIOUS
<1> QED BY <1>1, <1>2, <1>3 DEF IInv, Listed, Lists, queue_vars

LEMMA ShowWindowKeeps ==
  ASSUME IInv, NEW w \in live, show_app_window(w)
  PROVE  IInv'
<1>0. w \in Window
  BY DEF IInv, TypeOK
<1>1. CASE /\ shown' = shown \cup {w}
           /\ UNCHANGED <<windows, live, process, damage, queue_vars>>
  BY <1>0, <1>1, ShowKeeps DEF show_app_window, IInv, TypeOK
<1>2. CASE Raise
  <2>1. Close /\ UNCHANGED <<parent, destroyed>> /\ process' \in {"running", "exited"}
    BY <1>2 DEF show_app_window, Raise, Exit
  <2> QED BY <2>1, CloseKeeps
<1> QED BY <1>1, <1>2 DEF show_app_window

LEMMA ShowDialogKeeps ==
  ASSUME IInv, NEW w \in live, show_dialog_app_window(w)
  PROVE  IInv'
<1>1. shown' \subseteq Window
  BY DEF show_dialog_app_window, IInv, TypeOK
<1>2. damage' \in {damage, damage \cup {"freed_parent"}}
  BY DEF show_dialog_app_window
<1> QED BY <1>1, <1>2, ShowKeeps DEF show_dialog_app_window

LEMMA HideKeeps ==
  ASSUME IInv, NEW w \in live, hide_app_window(w)
  PROVE  IInv'
<1>1. shown' \subseteq Window
  BY DEF hide_app_window, IInv, TypeOK
<1> QED BY <1>1, ShowKeeps DEF hide_app_window

LEMMA DestroyKeeps ==
  ASSUME IInv, NEW w \in live, destory_app_window(w)
  PROVE  IInv'
<1>0. w \in Window /\ w \in Value /\ QueueSound
  BY WindowsAssumption DEF IInv, TypeOK, QueueSound
<1>1. /\ remove_queue_element(w)
      /\ live' = live \ {w} /\ shown' = shown \ {w} /\ parent' = [parent EXCEPT ![w] = NULL]
      /\ destroyed' = destroyed \cup Ends(w)
      /\ UNCHANGED <<windows, process, damage>>
  BY DEF destory_app_window
<1>2. QueueSound'
  BY <1>0, <1>1, RemoveSound
<1>3. destroyed' \subseteq {"first", "last"} /\ parent' \in [Window -> Window \cup {NULL}]
  BY <1>1 DEF IInv, TypeOK, Ends
<1>4. TypeOK'
  BY <1>1, <1>2, <1>3 DEF IInv, TypeOK, QueueSound
<1>5. Listed'
  <2> SUFFICES ASSUME windows' = "open", damage' = {}
               PROVE  Lists' /\ ("last" \notin destroyed' => end' \in DOMAIN cells' \cup {NULL})
    BY DEF Listed
  <2>1. Lists /\ ("last" \notin destroyed => end \in DOMAIN cells \cup {NULL})
    BY <1>1 DEF IInv, Listed
  <2>2. CASE {i \in DOMAIN chain \ {1} : cells[chain[i]].value = w} = {}
    <3>1. UNCHANGED queue_vars
      BY <1>1, <2>2 DEF remove_queue_element
    <3> QED BY <1>0, <1>1, <2>1, <2>2, <3>1, DestroyLeaves
  <2>3. CASE {i \in DOMAIN chain \ {1} : cells[chain[i]].value = w} # {}
    BY <1>0, <1>1, <2>1, <2>3, DestroyUnlists
  <2> QED BY <2>2, <2>3
<1>6. windows # "open" => chain' = <<>>
  <2> SUFFICES ASSUME windows # "open" PROVE chain' = <<>>
    OBVIOUS
  <2>1. chain = <<>> BY DEF IInv
  <2>2. {i \in DOMAIN chain \ {1} : cells[chain[i]].value = w} = {} BY <2>1
  <2> QED BY <1>1, <2>1, <2>2 DEF remove_queue_element, queue_vars
<1>7. windows' = "NULL" => live' = {}
  BY <1>1 DEF IInv
<1> QED BY <1>1, <1>2, <1>4, <1>5, <1>6, <1>7 DEF IInv, QueueSound

LEMMA StepKeeps == IInv /\ [Next]_vars => IInv'
<1> SUFFICES ASSUME IInv, [Next]_vars PROVE IInv'
  OBVIOUS
<1>1. CASE start_app_interface BY <1>1, StartKeeps
<1>2. CASE close_app_interface BY <1>2, CloseInterfaceKeeps
<1>3. CASE \E p \in live \cup {NULL} : create_app_window(p) BY <1>3, CreateKeeps
<1>4. CASE CreateFails BY <1>4, CreateFailsKeeps
<1>5. CASE \E w \in live : show_app_window(w) BY <1>5, ShowWindowKeeps
<1>6. CASE \E w \in live : show_dialog_app_window(w) BY <1>6, ShowDialogKeeps
<1>7. CASE \E w \in live : hide_app_window(w) BY <1>7, HideKeeps
<1>8. CASE \E w \in live : destory_app_window(w) BY <1>8, DestroyKeeps
<1>9. CASE UNCHANGED vars
  BY <1>9 DEF vars, IInv, TypeOK, QueueTypeOK, PathSound, EndSound, Listed, Lists, BehindFirst, InQueue,
              Distinct, Items, queue_vars
<1> QED BY <1>1, <1>2, <1>3, <1>4, <1>5, <1>6, <1>7, <1>8, <1>9 DEF Next

THEOREM Invariant == Spec => []IInv
BY InitInv, StepKeeps, PTL DEF Spec

-----------------------------------------------------------------------------
(* The properties.                                                         *)

(* The windows, the queue and the damage have their types.                 *)
THEOREM WindowTypes == Spec => []TypeOK
<1>1. IInv => TypeOK BY DEF IInv
<1> QED BY <1>1, Invariant, PTL

(* Of every window there is the queue has an entry, of no other one behind *)
(* the first; that the first entry is a window's only one, and end the last*)
(* element, is claimed until destory_app_window is called for that window  *)
(* or for the last of several (remove_queue_element, which leaves the first*)
(* entry there, and end as it is).                                         *)
THEOREM WindowsAreListed == Spec => []ListsTheWindows
<1>1. IInv => ListsTheWindows
  <2> SUFFICES ASSUME IInv, windows = "open", damage = {}
               PROVE  /\ PathSound
                      /\ live \subseteq InQueue
                      /\ \A i, j \in DOMAIN chain \ {1} : Items[i] \in live /\ (Items[i] = Items[j] => i = j)
                      /\ "first" \notin destroyed => InQueue = live /\ \A w \in live : Cardinality(Times(w)) = 1
                      /\ "last" \notin destroyed => end = IF chain = <<>> THEN NULL ELSE chain[Len(chain)]
    BY DEF ListsTheWindows
  <2>1. PathSound /\ Lists
    BY DEF IInv, Listed
  <2>2. "last" \notin destroyed => end = IF chain = <<>> THEN NULL ELSE chain[Len(chain)]
    BY DEF IInv, Listed, EndSound
  <2>3. ASSUME "first" \notin destroyed, NEW w \in live PROVE Cardinality(Times(w)) = 1
    <3>1. PICK i \in DOMAIN chain : Items[i] = w
      BY <2>1 DEF Lists, InQueue
    <3>2. Times(w) = {i}
      BY <3>1, <2>1, <2>3 DEF Times, Lists, Distinct
    <3> QED BY <3>2, FS_Singleton
  <2> QED BY <2>1, <2>2, <2>3 DEF Lists, BehindFirst
<1> QED BY <1>1, Invariant, PTL

(* The first close of the interface leaves no window, whatever has been    *)
(* destroyed.  That it frees none twice is claimed only as long as the     *)
(* window of the queue's first entry has not been destroyed, and that no   *)
(* creation before it writes in a freed element only as long as the last   *)
(* of several has not: remove_queue_element breaks both otherwise.         *)
THEOREM FirstCloseIsClean == Spec => CloseFreesEachOnce
<1> DEFINE Clean == windows = "open" =>
                      /\ windows' = "freed" =>
                           /\ live' = {}
                           /\ "first" \notin destroyed => "freed_twice" \notin damage'
                      /\ "last" \notin destroyed => "pushed_on_freed_element" \notin damage'
<1>1. IInv /\ [Next]_vars => [Clean]_vars
  <2> SUFFICES ASSUME IInv, Next, windows = "open"
               PROVE  /\ windows' = "freed" =>
                           /\ live' = {}
                           /\ "first" \notin destroyed => "freed_twice" \notin damage'
                      /\ "last" \notin destroyed => "pushed_on_freed_element" \notin damage'
    OBVIOUS
  <2>1. Running /\ damage = {}
    BY DEF Next, start_app_interface, close_app_interface, create_app_window, CreateFails,
           show_app_window, show_dialog_app_window, hide_app_window, destory_app_window, Running
  <2>2. /\ live \ InQueue = {} /\ ("first" \notin destroyed => FreedTwice = {})
        /\ "last" \notin destroyed => PushDamage = {}
        /\ "pushed_on_freed_element" \notin FreedTwice
    BY <2>1, CloseFreesAll DEF PushDamage, IInv, Listed, FreedTwice
  <2>3. CASE Close
    BY <2>1, <2>2, <2>3 DEF Close
  <2>4. CASE start_app_interface BY <2>3, <2>4 DEF start_app_interface, Raise
  <2>5. CASE close_app_interface BY <2>3, <2>5 DEF close_app_interface
  <2>6. CASE \E p \in live \cup {NULL} : create_app_window(p)
    BY <2>1, <2>2, <2>6 DEF create_app_window
  <2>7. CASE CreateFails BY <2>1, <2>2, <2>3, <2>7 DEF CreateFails, Raise
  <2>8. CASE \E w \in live : show_app_window(w) BY <2>1, <2>3, <2>8 DEF show_app_window, Raise
  <2>9. CASE \E w \in live : show_dialog_app_window(w) BY <2>1, <2>9 DEF show_dialog_app_window
  <2>10. CASE \E w \in live : hide_app_window(w) \/ destory_app_window(w)
    BY <2>1, <2>10 DEF hide_app_window, destory_app_window
  <2> QED BY <2>4, <2>5, <2>6, <2>7, <2>8, <2>9, <2>10 DEF Next
<1> QED BY <1>1, Invariant, PTL DEF Spec, CloseFreesEachOnce
=============================================================================
