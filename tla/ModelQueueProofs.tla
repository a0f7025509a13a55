-------------------------- MODULE ModelQueueProofs --------------------------
(***************************************************************************)
(* What every push and pop of Queue does to a sound list, and the safety   *)
(* properties of ModelQueues, for any number of rows, names and cells, and *)
(* any bound on the size.                                                  *)
(***************************************************************************)
EXTENDS ModelQueues, TLAPS

-----------------------------------------------------------------------------
(* The queue.                                                              *)

QueueInv == QueueTypeOK /\ Linked

(* Items is a sequence of values.                                          *)
LEMMA ItemsType ==
  ASSUME QueueInv
  PROVE  Items \in Seq(Value) /\ Len(Items) = Len(chain) /\ DOMAIN Items = 1..Len(chain)
<1>1. chain \in Seq(Cell) /\ DOMAIN chain = 1..Len(chain) /\ Len(chain) \in Nat
  BY DEF QueueInv, QueueTypeOK
<1>2. \A i \in 1..Len(chain) : cells[chain[i]].value \in Value
  BY <1>1 DEF QueueInv, QueueTypeOK, Linked, PathSound, QueueElement
<1> QED BY <1>1, <1>2 DEF Items

(* A new queue is sound and empty.                                         *)
LEMMA CreateSound ==
  ASSUME create_queue
  PROVE  QueueInv' /\ Items' = <<>>
BY DEF create_queue, QueueInv, QueueTypeOK, Linked, PathSound, Items

(* So is the queue at the start.                                           *)
LEMMA InitSound ==
  ASSUME QueueInit
  PROVE  QueueInv /\ Items = <<>>
BY DEF QueueInit, QueueInv, QueueTypeOK, Linked, PathSound, Items

(* push_queue_element puts the value behind the others.                    *)
LEMMA PushAppends ==
  ASSUME QueueInv, NEW v \in Value, push_queue_element(v)
  PROVE  QueueInv' /\ Items' = Append(Items, v) /\ size' = size + 1
<1>1. PICK c \in Cell \ DOMAIN cells :
         /\ cells' = [d \in DOMAIN cells \cup {c} |->
                   IF d = c THEN [value |-> v, next |-> NULL, prev |-> end]
                   ELSE IF d = end THEN [cells[d] EXCEPT !.next = c] ELSE cells[d]]
         /\ start' = IF end = NULL THEN c ELSE start
         /\ end' = c
         /\ size' = size + 1
         /\ chain' = Append(chain, c)
  BY DEF push_queue_element
<1> DEFINE n == Len(chain)
<1>2. /\ chain \in Seq(Cell) /\ n \in Nat /\ DOMAIN chain = 1..n
      /\ chain' \in Seq(Cell) /\ Len(chain') = n + 1 /\ DOMAIN chain' = 1..(n + 1)
      /\ \A i \in 1..n : chain'[i] = chain[i] /\ chain[i] \in DOMAIN cells /\ chain[i] # c
      /\ chain'[n + 1] = c
  BY <1>1 DEF QueueInv, QueueTypeOK, Linked, PathSound
<1>3. DOMAIN cells' = DOMAIN cells \cup {c}
  BY <1>1
<1>4. \A d \in DOMAIN cells : d # c /\
         cells'[d] = IF d = end THEN [cells[d] EXCEPT !.next = c] ELSE cells[d]
  BY <1>1
<1>5. cells'[c] = [value |-> v, next |-> NULL, prev |-> end]
  BY <1>1
<1>6. \A d \in DOMAIN cells : cells[d] \in QueueElement
  BY DEF QueueInv, QueueTypeOK
<1>7. end \in Cell \cup {NULL} /\ end = IF n = 0 THEN NULL ELSE chain[n]
  BY <1>2 DEF QueueInv, QueueTypeOK, Linked
<1>8. QueueTypeOK'
  <2>1. \A d \in DOMAIN cells' : cells'[d] \in QueueElement
    BY <1>1, <1>3, <1>4, <1>5, <1>6, <1>7 DEF QueueElement
  <2>2. start' \in Cell \cup {NULL} /\ end' \in Cell \cup {NULL} /\ size' \in Nat
    BY <1>1 DEF QueueInv, QueueTypeOK
  <2>3. DOMAIN cells' \subseteq Cell
    BY <1>3 DEF QueueInv, QueueTypeOK
  <2> QED BY <1>2, <2>1, <2>2, <2>3 DEF QueueTypeOK
<1>9. PathSound'
  <2>1. start' = chain'[1]
    BY <1>1, <1>2, <1>7, QueueAssumption DEF QueueInv, QueueTypeOK, Linked, PathSound
  <2>2. ASSUME NEW i \in 1..(n + 1)
        PROVE  chain'[i] \in DOMAIN cells' /\ cells'[chain'[i]].next = IF i = n + 1 THEN NULL ELSE chain'[i + 1]
    <3>1. CASE i = n + 1 BY <3>1, <1>2, <1>3, <1>5
    <3>2. CASE i = n
      BY <3>2, <1>2, <1>3, <1>4, <1>6, <1>7 DEF QueueElement
    <3>3. CASE i < n
      <4>3. i \in 1..n /\ i + 1 \in 1..n /\ i # n + 1 /\ i # n /\ n \in 1..n
        <5>1. n \in Nat BY <1>2
        <5> HIDE DEF n
        <5> QED BY <3>3, <5>1
      <4>6. PathSound BY DEF QueueInv, Linked
      <4>1. chain[i] # end
        <5>1. \A k, l \in 1..n : chain[k] = chain[l] => k = l
          BY <4>6, <1>2 DEF PathSound
        <5>2. n # 0 BY <4>3
        <5>3. end = chain[n] BY <5>2, <1>7
        <5> QED BY <5>1, <5>3, <4>3
      <4>2. cells[chain[i]].next = chain[i + 1]
        BY <4>3, <4>6, <1>2 DEF PathSound
      <4>4. chain'[i] = chain[i] /\ chain'[i + 1] = chain[i + 1] /\ chain[i] \in DOMAIN cells
        BY <4>3, <1>2
      <4>5. cells'[chain[i]] = cells[chain[i]]
        BY <4>1, <4>4, <1>4
      <4> QED BY <4>2, <4>3, <4>4, <4>5, <1>3
    <3>4. i = n + 1 \/ i = n \/ i < n
      <4>1. n \in Nat BY <1>2
      <4> QED BY <4>1
    <3> QED BY <3>1, <3>2, <3>3, <3>4
  <2>3. ASSUME NEW i \in 1..(n + 1), NEW j \in 1..(n + 1), chain'[i] = chain'[j]
        PROVE  i = j
    <3>1. \A k, l \in 1..n : chain[k] = chain[l] => k = l
      BY <1>2 DEF QueueInv, Linked, PathSound
    <3>2. CASE i \in 1..n /\ j \in 1..n
      <4>1. chain'[i] = chain[i] /\ chain'[j] = chain[j]
        BY <3>2, <1>2
      <4> QED BY <3>1, <3>2, <4>1, <2>3
    <3>3. CASE i = n + 1 /\ j \in 1..n
      <4>1. chain'[i] = c /\ chain'[j] # c
        BY <3>3, <1>2
      <4> QED BY <4>1, <2>3
    <3>4. CASE j = n + 1 /\ i \in 1..n
      <4>1. chain'[j] = c /\ chain'[i] # c
        BY <3>4, <1>2
      <4> QED BY <4>1, <2>3
    <3>5. (i \in 1..n \/ i = n + 1) /\ (j \in 1..n \/ j = n + 1)
      <4>1. n \in Nat BY <1>2
      <4> QED BY <4>1
    <3> QED BY <3>2, <3>3, <3>4, <3>5
  <2> QED BY <2>1, <2>2, <2>3, <1>2 DEF PathSound
<1>10. Linked'
  <2>1. end' = chain'[Len(chain')] /\ chain' # <<>>
    BY <1>1, <1>2
  <2>2. \A d \in DOMAIN cells' : \E i \in DOMAIN chain' : d = chain'[i]
    BY <1>2, <1>3 DEF QueueInv, Linked
  <2>3. ASSUME NEW i \in 1..(n + 1), i > 1
        PROVE  cells'[chain'[i]].prev = chain'[i - 1]
    <3>1. CASE i = n + 1 BY <3>1, <2>3, <1>2, <1>5, <1>7
    <3>2. CASE i \in 1..n
      <4>1. cells[chain[i]].prev = chain[i - 1]
        BY <3>2, <2>3, <1>2 DEF QueueInv, Linked
      <4>2. cells'[chain[i]].prev = cells[chain[i]].prev
        BY <3>2, <1>2, <1>4, <1>6 DEF QueueElement
      <4> QED BY <3>2, <4>1, <4>2, <2>3, <1>2
    <3> QED BY <3>1, <3>2, <1>2
  <2> QED BY <1>9, <2>1, <2>2, <2>3, <1>2 DEF Linked
<1>11. Items' = Append(Items, v)
  <2>1. Items' \in Seq(Value) /\ DOMAIN Items' = 1..(n + 1)
    <3>1. \A i \in 1..(n + 1) : cells'[chain'[i]].value \in Value
      BY <1>2, <1>8, <1>9 DEF QueueTypeOK, PathSound, QueueElement
    <3> QED BY <1>2, <3>1 DEF Items
  <2>2. \A i \in 1..n : Items'[i] = Items[i]
    <3>1. \A i \in 1..n : cells'[chain[i]].value = cells[chain[i]].value
      BY <1>2, <1>4, <1>6 DEF QueueElement
    <3> QED BY <1>2, <3>1 DEF Items
  <2>3. Items'[n + 1] = v
    BY <1>2, <1>5 DEF Items
  <2>4. Items \in Seq(Value) /\ Len(Items) = n /\ DOMAIN Items = 1..n
    BY ItemsType
  <2> QED BY <2>1, <2>2, <2>3, <2>4, <1>2
<1> QED BY <1>1, <1>8, <1>10, <1>11 DEF QueueInv

(* pop_queue_element takes the first value, if there is one.               *)
LEMMA PopTakesFirst ==
  ASSUME QueueInv, pop_queue_element
  PROVE  /\ QueueInv' /\ size' = size
         /\ chain = <<>> => popped = NULL /\ UNCHANGED queue_vars
         /\ chain # <<>> => popped = Items[1] /\ Items' = Tail(Items)
<1> DEFINE n == Len(chain)
<1>1. chain \in Seq(Cell) /\ n \in Nat /\ DOMAIN chain = 1..n
  BY DEF QueueInv, QueueTypeOK
<1>2. CASE chain = <<>>
  <2>1. start = NULL BY <1>2 DEF QueueInv, Linked, PathSound
  <2>2. UNCHANGED queue_vars BY <2>1 DEF pop_queue_element
  <2> QED BY <1>2, <2>1, <2>2 DEF popped, queue_vars, QueueInv, QueueTypeOK, Linked, PathSound
<1>3. CASE chain # <<>>
  <2>1. /\ n > 0 /\ start = chain[1] /\ start \in Cell /\ start # NULL /\ start \in DOMAIN cells
        /\ end = chain[n]
    BY <1>1, <1>3, QueueAssumption DEF QueueInv, QueueTypeOK, Linked, PathSound
  <2>2. /\ start' = IF start = end THEN NULL ELSE cells[start].next
        /\ end' = IF start = end THEN NULL ELSE end
        /\ cells' = [d \in DOMAIN cells \ {start} |-> cells[d]]
        /\ chain' = Tail(chain)
        /\ size' = size
    BY <2>1 DEF pop_queue_element
  <2>3. /\ chain' \in Seq(Cell) /\ Len(chain') = n - 1 /\ DOMAIN chain' = 1..(n - 1)
        /\ \A i \in 1..(n - 1) : chain'[i] = chain[i + 1]
    BY <1>1, <1>3, <2>1, <2>2
  <2>13. chain' = <<>> <=> n = 1
    <3>1. chain' = <<>> <=> Len(chain') = 0
      BY <2>3
    <3> QED BY <3>1, <2>3, <1>1
  <2>4. start = end <=> n = 1
    BY <1>1, <2>1 DEF QueueInv, Linked, PathSound
  <2>5. \A i \in 1..n : /\ chain[i] \in DOMAIN cells
                        /\ cells[chain[i]].next = IF i = n THEN NULL ELSE chain[i + 1]
                        /\ i > 1 => cells[chain[i]].prev = chain[i - 1]
                        /\ chain[i] = start => i = 1
    <3>1. ASSUME NEW i \in 1..n
          PROVE  /\ chain[i] \in DOMAIN cells
                 /\ cells[chain[i]].next = IF i = n THEN NULL ELSE chain[i + 1]
      BY <1>1 DEF QueueInv, Linked, PathSound
    <3>2. ASSUME NEW i \in 1..n, i > 1
          PROVE  cells[chain[i]].prev = chain[i - 1]
      BY <3>2, <1>1 DEF QueueInv, Linked
    <3>3. ASSUME NEW i \in 1..n, chain[i] = start
          PROVE  i = 1
      <4>1. 1 \in 1..n BY <1>1, <2>1
      <4> QED BY <3>3, <4>1, <1>1, <2>1 DEF QueueInv, Linked, PathSound
    <3> QED BY <3>1, <3>2, <3>3
  <2>6. \A d \in DOMAIN cells' : d \in DOMAIN cells /\ d # start /\ cells'[d] = cells[d]
    BY <2>2
  <2>7. \A i \in 1..(n - 1) : chain'[i] \in DOMAIN cells' /\ cells'[chain'[i]] = cells[chain[i + 1]]
    <3>1. ASSUME NEW i \in 1..(n - 1)
          PROVE  chain[i + 1] \in DOMAIN cells \ {start}
      <4>1. i + 1 \in 1..n /\ i + 1 # 1
        BY <1>1
      <4> QED BY <4>1, <2>5
    <3> QED BY <3>1, <2>2, <2>3, <1>1
  <2>8. QueueTypeOK'
    <3>1. start' \in Cell \cup {NULL} /\ end' \in Cell \cup {NULL}
      BY <2>1, <2>2 DEF QueueInv, QueueTypeOK, QueueElement
    <3>2. DOMAIN cells' \subseteq Cell /\ \A d \in DOMAIN cells' : cells'[d] \in QueueElement
      BY <2>6 DEF QueueInv, QueueTypeOK
    <3> QED BY <3>1, <3>2, <2>2, <2>3 DEF QueueInv, QueueTypeOK
  <2>9. PathSound'
    <3>1. start' = IF chain' = <<>> THEN NULL ELSE chain'[1]
      <4>1. CASE n = 1 BY <4>1, <2>2, <2>4, <2>13
      <4>2. CASE n > 1
        <5>1. start' = cells[start].next /\ cells[start].next = chain[1 + 1]
          <6>1. n # 1 BY <4>2, <1>1
          <6>3. start # end BY <6>1, <2>4
          <6>2. 1 \in 1..n /\ 1 # n BY <4>2, <1>1
          <6> QED BY <6>2, <6>3, <2>1, <2>2, <2>5
        <5>2. chain'[1] = chain[1 + 1] BY <4>2, <1>1, <2>3
        <5> QED BY <4>2, <5>1, <5>2, <2>13
      <4> QED BY <4>1, <4>2, <2>1, <1>1
    <3>2. ASSUME NEW i \in 1..(n - 1)
          PROVE  cells'[chain'[i]].next = IF i = n - 1 THEN NULL ELSE chain'[i + 1]
      <4>1. cells'[chain'[i]] = cells[chain[i + 1]]
        BY <2>7
      <4>2. i + 1 \in 1..n BY <1>1
      <4>3. cells[chain[i + 1]].next = IF i + 1 = n THEN NULL ELSE chain[(i + 1) + 1]
        BY <4>2, <2>5
      <4>4. CASE i = n - 1
        <5>1. i + 1 = n BY <4>4, <1>1
        <5> QED BY <5>1, <4>1, <4>3, <4>4
      <4>5. CASE i # n - 1
        <5>1. i + 1 # n /\ i + 1 \in 1..(n - 1)
          <6>1. n \in Nat BY <1>1
          <6> HIDE DEF n
          <6> QED BY <6>1, <4>5
        <5>2. chain'[i + 1] = chain[(i + 1) + 1] BY <5>1, <2>3
        <5> QED BY <5>1, <5>2, <4>1, <4>3, <4>5
      <4> QED BY <4>4, <4>5
    <3>3. ASSUME NEW i \in 1..(n - 1), NEW j \in 1..(n - 1), chain'[i] = chain'[j]
          PROVE  i = j
      <4>1. i + 1 \in 1..n /\ j + 1 \in 1..n
        BY <1>1
      <4>2. chain[i + 1] = chain[j + 1]
        BY <3>3, <2>3
      <4>3. \A k, l \in 1..n : chain[k] = chain[l] => k = l
        BY <1>1 DEF QueueInv, Linked, PathSound
      <4>4. i + 1 = j + 1
        BY <4>1, <4>2, <4>3
      <4> QED BY <4>4
    <3> QED BY <3>1, <3>2, <3>3, <2>3, <2>7 DEF PathSound
  <2>10. Linked'
    <3>1. end' = IF chain' = <<>> THEN NULL ELSE chain'[Len(chain')]
      <4>1. CASE n = 1 BY <4>1, <2>2, <2>4, <2>13
      <4>2. CASE n > 1
        <5>1. end' = chain[n] BY <4>2, <2>1, <2>2, <2>4
        <5>2. n - 1 \in 1..(n - 1) /\ (n - 1) + 1 = n BY <4>2, <1>1
        <5>3. chain'[n - 1] = chain[n] BY <5>2, <2>3
        <5> QED BY <4>2, <5>1, <5>3, <2>3, <2>13
      <4> QED BY <4>1, <4>2, <2>1, <1>1
    <3>2. ASSUME NEW d \in DOMAIN cells'
          PROVE  \E i \in DOMAIN chain' : d = chain'[i]
      <4>1. PICK k \in 1..n : d = chain[k]
        BY <2>6, <1>1 DEF QueueInv, Linked
      <4>2. k > 1 BY <4>1, <2>1, <2>6, <1>1
      <4>3. k - 1 \in 1..(n - 1) /\ chain'[k - 1] = chain[k]
        BY <4>1, <4>2, <2>3, <1>1
      <4> QED BY <4>1, <4>3, <2>3
    <3>3. ASSUME NEW i \in 1..(n - 1), i > 1
          PROVE  cells'[chain'[i]].prev = chain'[i - 1]
      <4>1. cells[chain[i + 1]].prev = chain[i]
        <5>1. i + 1 \in 1..n /\ i + 1 > 1 /\ (i + 1) - 1 = i BY <3>3, <1>1
        <5> QED BY <5>1, <2>5
      <4>2. chain'[i - 1] = chain[i]
        BY <3>3, <2>3, <1>1
      <4> QED BY <4>1, <4>2, <2>7
    <3> QED BY <2>9, <3>1, <3>2, <3>3, <2>3 DEF Linked
  <2>11. popped = Items[1]
    BY <1>1, <2>1 DEF popped, Items
  <2>12. Items' = Tail(Items)
    <3>1. Items \in Seq(Value) /\ Len(Items) = n /\ DOMAIN Items = 1..n
      BY ItemsType
    <3>2. Items' = [i \in 1..(n - 1) |-> cells[chain[i + 1]].value]
      BY <2>3, <2>7 DEF Items
    <3>3. \A i \in 1..(n - 1) : Items[i + 1] = cells[chain[i + 1]].value
      BY <1>1 DEF Items
    <3>4. /\ Tail(Items) \in Seq(Value) /\ Len(Tail(Items)) = n - 1
          /\ \A i \in 1..(n - 1) : Tail(Items)[i] = Items[i + 1]
      <4>1. Items # <<>> BY <3>1, <2>1
      <4> QED BY <3>1, <4>1, <2>1, <1>1
    <3>5. \A i \in 1..(n - 1) : Items'[i] = Tail(Items)[i]
      BY <3>2, <3>3, <3>4
    <3>6. Items' \in Seq(Value) /\ Len(Items') = n - 1
      <4>1. \A i \in 1..(n - 1) : cells[chain[i + 1]].value \in Value
        BY <2>7, <2>8, <2>3 DEF QueueTypeOK, QueueElement
      <4>2. n - 1 \in Nat BY <1>1, <2>1
      <4> QED BY <3>2, <4>1, <4>2
    <3> QED BY <3>4, <3>5, <3>6
  <2> QED BY <1>3, <2>2, <2>8, <2>10, <2>11, <2>12 DEF QueueInv
<1> QED BY <1>2, <1>3

(* The effect of a push, element by element.                               *)
LEMMA PushElements ==
  ASSUME QueueInv, NEW v \in Value, push_queue_element(v)
  PROVE  /\ Len(chain) \in Nat /\ DOMAIN chain = 1..Len(chain)
         /\ Len(chain') = Len(chain) + 1 /\ DOMAIN chain' = 1..(Len(chain) + 1)
         /\ \A k \in 1..Len(chain) : Items'[k] = Items[k] /\ Items[k] \in Value
         /\ Items'[Len(chain) + 1] = v
<1>1. Items \in Seq(Value) /\ Len(Items) = Len(chain) /\ DOMAIN Items = 1..Len(chain)
  BY ItemsType
<1>2. Items' = Append(Items, v)
  BY PushAppends
<1>3. chain \in Seq(Cell) /\ \E c \in Cell : chain' = Append(chain, c)
  BY DEF push_queue_element, QueueInv, QueueTypeOK
<1> QED BY <1>1, <1>2, <1>3

(* The effect of a pop, element by element.                                *)
LEMMA PopElements ==
  ASSUME QueueInv, pop_queue_element
  PROVE  /\ Len(chain) \in Nat /\ DOMAIN chain = 1..Len(chain)
         /\ chain = <<>> <=> Len(chain) = 0
         /\ chain = <<>> => popped = NULL /\ chain' = <<>>
         /\ chain # <<>> =>
              /\ Len(chain') = Len(chain) - 1 /\ DOMAIN chain' = 1..(Len(chain) - 1)
              /\ popped = Items[1] /\ popped \in Value
              /\ \A k \in 1..(Len(chain) - 1) : Items'[k] = Items[k + 1] /\ Items[k + 1] \in Value
<1>1. Items \in Seq(Value) /\ Len(Items) = Len(chain) /\ DOMAIN Items = 1..Len(chain)
  BY ItemsType
<1>2. chain \in Seq(Cell) /\ Len(chain) \in Nat /\ DOMAIN chain = 1..Len(chain)
  BY DEF QueueInv, QueueTypeOK
<1>3. CASE chain = <<>>
  BY <1>2, <1>3, PopTakesFirst DEF queue_vars
<1>4. CASE chain # <<>>
  <2>1. Items' = Tail(Items) /\ popped = Items[1]
    BY <1>4, PopTakesFirst
  <2>2. chain' = Tail(chain)
    BY <1>2, <1>4, QueueAssumption DEF pop_queue_element, QueueInv, QueueTypeOK, Linked, PathSound
  <2>3. Len(chain) > 0
    BY <1>2, <1>4
  <2>4. Len(chain') = Len(chain) - 1 /\ DOMAIN chain' = 1..(Len(chain) - 1)
    BY <1>2, <2>2, <2>3
  <2>5. popped \in Value
    BY <1>1, <2>1, <2>3, <1>2
  <2>6. ASSUME NEW k \in 1..(Len(chain) - 1)
        PROVE  Items'[k] = Items[k + 1] /\ Items[k + 1] \in Value
    BY <1>1, <1>2, <2>1, <2>3
  <2>7. chain # <<>> =>
              /\ Len(chain') = Len(chain) - 1 /\ DOMAIN chain' = 1..(Len(chain) - 1)
              /\ popped = Items[1] /\ popped \in Value
              /\ \A k \in 1..(Len(chain) - 1) : Items'[k] = Items[k + 1] /\ Items[k + 1] \in Value
    BY <2>1, <2>4, <2>5, <2>6
  <2>8. chain = <<>> <=> Len(chain) = 0
    BY <1>4, <2>3
  <2> QED BY <1>2, <1>4, <2>7, <2>8
<1> QED BY <1>3, <1>4

-----------------------------------------------------------------------------
(* The clients' passes over it.                                            *)

(* The inductive invariant is the properties and what they rest on.        *)

\* Which op goes with which step, hand and rest.
PassShape ==
  /\ pass.op # "select" => pass.rest = {}
  /\ pass.step = "pop" => pass.hand = NULL
  /\ pass.step = "request" => pass.op \in {"refresh", "update", "delete"}
  /\ At("delete", "request") => pass.hand # NULL

\* A turn has NULL in the hand only when the queue has nothing else.
EmptyHand == pass.step = "request" /\ pass.hand = NULL => chain = <<>>

\* The rows a select pushes are objects.
SelectedObjects == pass.op = "select" => \A k \in DOMAIN chain : Items[k] # NULL

\* With i turns to go, what is further from the front than i has been refreshed.
TurnsLeft ==
  pass.op = "refresh" =>
    \A k \in DOMAIN chain :
      k > pass.i /\ Items[k] # NULL => ~object[Items[k]].is_changed

\* A row that no other session has touched is still there.
RowsThere == \A id \in Held \ ({NULL} \cup foreign) : table[id] # NoRow

IInv ==
  /\ TypeOK /\ Linked /\ SizeCoversQueue /\ PassShape /\ EmptyHand /\ SelectedObjects
  /\ OneElementPerObject /\ NullStandsAlone /\ TurnsLeft /\ RowsThere /\ CleanIsCurrent

USE DEF At

(* What a step that leaves the queue alone keeps.                          *)
LEMMA QueueKept ==
  ASSUME QueueInv, UNCHANGED queue_vars
  PROVE  QueueInv' /\ Items' = Items /\ chain' = chain /\ size' = size
BY DEF queue_vars, QueueInv, QueueTypeOK, Linked, PathSound, Items

(* Items is made of ids and NULL, one for each position.                   *)
LEMMA ItemsAreObjects ==
  ASSUME IInv
  PROVE  /\ QueueInv /\ Len(chain) \in Nat /\ DOMAIN chain = 1..Len(chain)
         /\ \A k \in 1..Len(chain) : Items[k] \in Id \cup {NULL}
<1>1. QueueInv BY DEF IInv, TypeOK, QueueInv
<1>2. Items \in Seq(Value) /\ Len(Items) = Len(chain) /\ DOMAIN Items = 1..Len(chain)
  BY <1>1, ItemsType
<1>3. Len(chain) \in Nat /\ DOMAIN chain = 1..Len(chain)
  BY <1>1 DEF QueueInv, QueueTypeOK
<1> QED BY <1>1, <1>2, <1>3, ModelQueuesAssumption

(* The invariant holds at the start.                                       *)
LEMMA InitIInv == Init => IInv
<1> SUFFICES ASSUME Init PROVE IInv
  OBVIOUS
<1>1. QueueInv /\ chain = <<>> /\ size = 0
  BY InitSound DEF Init, QueueInit
<1>2. pass = NoPass("none") /\ foreign = {} /\ object = [id \in Id |-> Forgotten]
      /\ kind \in Kind /\ table \in [Id -> Name \cup {NoRow}]
  BY DEF Init
<1>3. TypeOK
  <2>1. Forgotten \in Object
    BY ModelQueuesAssumption DEF Forgotten, Object
  <2>2. pass \in Pass
    BY <1>2, ModelQueuesAssumption DEF Pass, NoPass
  <2> QED BY <1>1, <1>2, <2>1, <2>2 DEF TypeOK, QueueInv
<1>4. DOMAIN chain = {} /\ Len(chain) = 0
  BY <1>1
<1>5. /\ pass.op = "none" /\ pass.step = "pop" /\ pass.hand = NULL /\ pass.rest = {}
  BY <1>2 DEF NoPass
<1>6. Held = {NULL}
  BY <1>4, <1>5 DEF Held
<1> QED
  BY <1>1, <1>3, <1>4, <1>5, <1>6
  DEF IInv, QueueInv, SizeCoversQueue, PassShape, EmptyHand, SelectedObjects,
      OneElementPerObject, NullStandsAlone, TurnsLeft, RowsThere, CleanIsCurrent

(* The parts of the invariant that are about the queue and the pass.       *)
Positions ==
  /\ SizeCoversQueue /\ PassShape /\ EmptyHand /\ SelectedObjects
  /\ OneElementPerObject /\ NullStandsAlone

(* A row of the table or an object changes, the queue and the pass do not. *)
LEMMA PositionsKept ==
  ASSUME IInv, UNCHANGED <<queue_vars, pass>>
  PROVE  QueueInv' /\ Positions' /\ Held' = Held
<1>1. QueueInv' /\ Items' = Items /\ chain' = chain /\ size' = size
  BY ItemsAreObjects, QueueKept
<1> QED
  BY <1>1 DEF IInv, Positions, SizeCoversQueue, PassShape, EmptyHand, SelectedObjects,
              OneElementPerObject, NullStandsAlone, Held

(* The object in the hand is pushed and the turn ends.                     *)
LEMMA HandPushed ==
  ASSUME IInv, pass.step = "request", pass.op \in {"refresh", "update"},
         push_queue_element(pass.hand), EndTurn
  PROVE  /\ QueueInv' /\ Positions' /\ Held' \subseteq Held \cup {NULL}
         /\ pass' \in Pass
<1> DEFINE n == Len(chain)
<1>1. pass \in Pass /\ pass.hand \in Value
  BY DEF IInv, TypeOK, Pass
<1>2. /\ QueueInv' /\ size' = size + 1
      /\ n \in Nat /\ DOMAIN chain = 1..n
      /\ Len(chain') = n + 1 /\ DOMAIN chain' = 1..(n + 1)
      /\ \A k \in 1..n : Items'[k] = Items[k] /\ Items[k] \in Value
      /\ Items'[n + 1] = pass.hand
  BY <1>1, ItemsAreObjects, PushAppends, PushElements
<1>3. /\ pass'.op = pass.op /\ pass'.i = pass.i /\ pass'.step = "pop" /\ pass'.hand = NULL
      /\ pass'.rest = pass.rest /\ pass.rest = {} /\ pass' \in Pass
  BY <1>1, ModelQueuesAssumption DEF EndTurn, Pass, IInv, PassShape
<1>4. pass.hand = NULL => n = 0
  BY DEF IInv, EmptyHand
<1>5. size \in Nat /\ n <= size
  BY DEF IInv, SizeCoversQueue, TypeOK, QueueTypeOK
<1>6. SizeCoversQueue'
  BY <1>2, <1>5 DEF SizeCoversQueue
<1>7. PassShape' /\ EmptyHand' /\ SelectedObjects'
  BY <1>3 DEF PassShape, EmptyHand, SelectedObjects
<1>8. \A k \in 1..n : Items[k] # pass.hand
  BY <1>2, <1>4 DEF IInv, OneElementPerObject, NullStandsAlone
<1>9. OneElementPerObject'
  <2>1. \A i, j \in 1..n : Items[i] = Items[j] => i = j
    BY <1>2 DEF IInv, OneElementPerObject
  <2>2. ASSUME NEW i \in 1..(n + 1), NEW j \in 1..(n + 1), Items'[i] = Items'[j]
        PROVE  i = j
    <3>1. (i \in 1..n \/ i = n + 1) /\ (j \in 1..n \/ j = n + 1) BY <1>2
    <3> QED BY <3>1, <2>1, <2>2, <1>2, <1>8
  <2> QED BY <2>2, <1>2, <1>3 DEF OneElementPerObject
<1>10. NullStandsAlone'
  <2>1. ASSUME NEW k \in 1..(n + 1), Items'[k] = NULL
        PROVE  n = 0
    <3>1. CASE k = n + 1 BY <3>1, <2>1, <1>2, <1>4
    <3>2. CASE k \in 1..n
      <4>1. n = 1 /\ pass.hand = NULL
        BY <3>2, <2>1, <1>2 DEF IInv, NullStandsAlone
      <4> QED BY <4>1, <1>4
    <3> QED BY <3>1, <3>2, <1>2
  <2> QED BY <2>1, <1>2, <1>3 DEF NullStandsAlone
<1>11. Held' \subseteq Held \cup {NULL}
  <2>1. \A k \in 1..(n + 1) : Items'[k] \in {Items[i] : i \in 1..n} \cup {pass.hand}
    <3>1. \A k \in 1..(n + 1) : k \in 1..n \/ k = n + 1 BY <1>2
    <3> QED BY <3>1, <1>2
  <2> QED BY <2>1, <1>2, <1>3 DEF Held
<1> QED BY <1>2, <1>3, <1>6, <1>7, <1>9, <1>10, <1>11 DEF Positions

(* The first object goes from the queue to the hand.                       *)
LEMMA ObjectPopped ==
  ASSUME IInv, pass.step = "pop", pass.op \in {"refresh", "update", "delete"},
         pop_queue_element, pass' \in Pass, pass'.op = pass.op, pass'.step = "request",
         pass'.hand = popped, pass'.rest = pass.rest,
         pass.op = "delete" => popped # NULL
  PROVE  QueueInv' /\ Positions' /\ Held' \subseteq Held
<1> DEFINE n == Len(chain)
<1>1. /\ pass \in Pass /\ pass.hand = NULL /\ pass.rest = {}
  BY DEF IInv, TypeOK, PassShape
<1>2. /\ QueueInv' /\ size' = size /\ n \in Nat /\ DOMAIN chain = 1..n
      /\ chain = <<>> <=> n = 0
      /\ \A k \in 1..n : Items[k] \in Value
      /\ chain = <<>> => popped = NULL /\ chain' = <<>>
      /\ chain # <<>> =>
           /\ Len(chain') = n - 1 /\ DOMAIN chain' = 1..(n - 1)
           /\ popped = Items[1]
           /\ \A k \in 1..(n - 1) : Items'[k] = Items[k + 1]
  BY ItemsAreObjects, PopTakesFirst, PopElements, ModelQueuesAssumption
<1>3. size \in Nat /\ n <= size
  BY DEF IInv, SizeCoversQueue, TypeOK, QueueTypeOK
<1>4. CASE chain = <<>>
  <2>1. DOMAIN chain' = {} /\ Len(chain') = 0 /\ popped = NULL /\ chain' = <<>>
    BY <1>2, <1>4
  <2>2. Positions'
    BY <2>1, <1>1, <1>2, <1>3 DEF Positions, SizeCoversQueue, PassShape, EmptyHand,
         SelectedObjects, OneElementPerObject, NullStandsAlone
  <2>3. Held' \subseteq Held
    BY <2>1, <1>1 DEF Held
  <2> QED BY <1>2, <2>2, <2>3
<1>5. CASE chain # <<>>
  <2>1. /\ n > 0 /\ Len(chain') = n - 1 /\ DOMAIN chain' = 1..(n - 1) /\ popped = Items[1]
        /\ \A k \in 1..(n - 1) : Items'[k] = Items[k + 1] /\ k + 1 \in 1..n /\ k + 1 # 1
        /\ 1 \in 1..n
    BY <1>2, <1>5
  <2>2. \A i, j \in 1..n : Items[i] = Items[j] => i = j
    BY <1>2 DEF IInv, OneElementPerObject
  <2>3. \A k \in 1..n : Items[k] = NULL => n = 1
    BY <1>2 DEF IInv, NullStandsAlone
  <2>4. \A k \in 1..(n - 1) : Items'[k] # NULL /\ Items'[k] # popped
    <3>1. ASSUME NEW k \in 1..(n - 1) PROVE Items[k + 1] # NULL /\ Items[k + 1] # Items[1]
      <4>1. k + 1 \in 1..n /\ k + 1 # 1 /\ n # 1 BY <2>1, <1>2
      <4> QED BY <4>1, <2>1, <2>2, <2>3
    <3> QED BY <3>1, <2>1
  <2>5. SizeCoversQueue'
    BY <1>2, <1>3, <2>1 DEF SizeCoversQueue
  <2>6. EmptyHand'
    <3>1. popped = NULL => n = 1 BY <2>1, <2>3
    <3>2. n = 1 => chain' = <<>>
      <4>1. chain' \in Seq(Cell) BY <1>2 DEF QueueInv, QueueTypeOK
      <4>2. chain' = <<>> <=> Len(chain') = 0 BY <4>1
      <4> QED BY <4>2, <2>1, <1>2
    <3> QED BY <3>1, <3>2 DEF EmptyHand
  <2>7. PassShape' /\ SelectedObjects'
    BY <1>1 DEF PassShape, SelectedObjects
  <2>8. OneElementPerObject'
    <3>1. ASSUME NEW i \in 1..(n - 1), NEW j \in 1..(n - 1), Items'[i] = Items'[j]
          PROVE  i = j
      <4>1. i + 1 \in 1..n /\ j + 1 \in 1..n /\ Items[i + 1] = Items[j + 1] BY <3>1, <2>1
      <4>2. i + 1 = j + 1 BY <4>1, <2>2
      <4> QED BY <4>2
    <3> QED BY <3>1, <2>1, <2>4, <1>1 DEF OneElementPerObject
  <2>9. NullStandsAlone'
    BY <2>1, <2>4 DEF NullStandsAlone
  <2>10. Held' \subseteq Held
    <3>1. \A k \in 1..(n - 1) : Items'[k] \in {Items[i] : i \in 1..n} BY <2>1
    <3>2. popped \in {Items[i] : i \in 1..n} BY <2>1
    <3>3. Held' = {Items'[k] : k \in 1..(n - 1)} \cup {popped}
      BY <2>1, <1>1 DEF Held
    <3>4. {Items[i] : i \in 1..n} \subseteq Held
      BY <1>2 DEF Held
    <3> QED BY <3>1, <3>2, <3>3, <3>4
  <2> QED BY <1>2, <2>5, <2>6, <2>7, <2>8, <2>9, <2>10 DEF Positions
<1> QED BY <1>4, <1>5
(* What is left to show of an action, the queue and the pass settled.      *)
Current(id) == table[id] # NoRow /\ (~object[id].is_changed => object[id].name = table[id])

LEMMA Assemble ==
  ASSUME QueueInv', Positions', TurnsLeft',
         kind' \in Kind, table' \in [Id -> Name \cup {NoRow}], object' \in [Id -> Object],
         pass' \in Pass, foreign' \subseteq Id,
         \A id \in Held' \ ({NULL} \cup foreign') : Current(id)'
  PROVE  IInv'
BY DEF IInv, TypeOK, QueueInv, Positions, RowsThere, CleanIsCurrent, Current

LEMMA Types ==
  ASSUME IInv
  PROVE  /\ kind \in Kind /\ table \in [Id -> Name \cup {NoRow}] /\ object \in [Id -> Object]
         /\ pass \in Pass /\ foreign \subseteq Id /\ size \in Nat
         /\ Held \subseteq Id \cup {NULL} /\ NULL \in Value
         /\ \A id \in Held \ ({NULL} \cup foreign) : Current(id)
         /\ Forgotten \in Object
<1>1. Held \subseteq Id \cup {NULL}
  BY ItemsAreObjects, ModelQueuesAssumption DEF IInv, TypeOK, Pass, Held
<1>2. Forgotten \in Object
  BY ModelQueuesAssumption DEF Forgotten, Object
<1> QED
  BY <1>1, <1>2, ModelQueuesAssumption
  DEF IInv, TypeOK, QueueTypeOK, RowsThere, CleanIsCurrent, Current

LEMMA SelectRowsIInv ==
  ASSUME IInv, SelectRows
  PROVE  IInv'
<1>1. PICK rows \in Selections, changed \in ReadChanged :
        /\ pass' = [NoPass("select") EXCEPT !.rest = rows]
        /\ object' = [id \in Id |->
                        IF id \in rows THEN [name |-> table[id], is_changed |-> changed]
                        ELSE object[id]]
  BY DEF SelectRows
<1>2. foreign' = {} /\ create_queue /\ kind' = kind /\ table' = table
  BY DEF SelectRows
<1>3. /\ rows \subseteq Id /\ changed \in BOOLEAN
      /\ \A id \in rows : table[id] \in Name /\ table[id] # NoRow
  BY Types, ModelQueuesAssumption DEF Selections, ReadChanged
<1>4. QueueInv' /\ chain' = <<>> /\ size' = 0
  BY <1>2, CreateSound DEF create_queue
<1>5. /\ pass'.op = "select" /\ pass'.step = "pop" /\ pass'.hand = NULL /\ pass'.rest = rows
      /\ pass' \in Pass
  BY <1>1, <1>3, ModelQueuesAssumption DEF NoPass, Pass
<1>6. DOMAIN chain' = {} /\ Len(chain') = 0
  BY <1>4
<1>7. Positions' /\ TurnsLeft'
  BY <1>4, <1>5, <1>6, ModelQueuesAssumption
  DEF Positions, SizeCoversQueue, PassShape, EmptyHand, SelectedObjects,
      OneElementPerObject, NullStandsAlone, TurnsLeft
<1>8. object' \in [Id -> Object]
  BY <1>1, <1>3, Types DEF Object
<1>9. Held' = {NULL} \cup rows
  BY <1>5, <1>6 DEF Held
<1>10. \A id \in Held' \ ({NULL} \cup foreign') : Current(id)'
  <2>1. \A id \in rows : object'[id].name = table[id]
    BY <1>1, <1>3
  <2> QED BY <1>2, <1>3, <1>9, <2>1 DEF Current
<1> QED BY <1>2, <1>4, <1>5, <1>7, <1>8, <1>10, Types, Assemble

LEMMA FetchRowIInv ==
  ASSUME IInv, FetchRow
  PROVE  IInv'
<1> DEFINE n == Len(chain)
<1>1. PICK id \in pass.rest :
         /\ pass.op = "select" /\ push_queue_element(id)
         /\ pass' = [pass EXCEPT !.rest = @ \ {id}]
         /\ UNCHANGED <<kind, table, object, foreign>>
  BY DEF FetchRow
<1>2. id \in Id /\ id \in Value /\ id # NULL
  BY <1>1, Types, ModelQueuesAssumption DEF Pass
<1>3. /\ QueueInv' /\ size' = size + 1
      /\ n \in Nat /\ DOMAIN chain = 1..n
      /\ Len(chain') = n + 1 /\ DOMAIN chain' = 1..(n + 1)
      /\ \A k \in 1..n : Items'[k] = Items[k] /\ Items[k] \in Value
      /\ Items'[n + 1] = id
  BY <1>1, <1>2, ItemsAreObjects, PushAppends, PushElements
<1>4. /\ pass' \in Pass /\ pass'.op = "select" /\ pass'.step = "pop" /\ pass'.hand = NULL
      /\ pass'.rest = pass.rest \ {id} /\ pass.hand = NULL
  BY <1>1, Types DEF Pass, IInv, PassShape
<1>5. \A k \in 1..n : Items[k] # NULL /\ Items[k] \notin pass.rest
  BY <1>1, <1>3 DEF IInv, SelectedObjects, OneElementPerObject
<1>6. \A k \in 1..(n + 1) : k \in 1..n \/ k = n + 1
  BY <1>3
<1>7. SizeCoversQueue'
  BY <1>3, Types DEF IInv, SizeCoversQueue
<1>8. PassShape' /\ EmptyHand'
  BY <1>4 DEF PassShape, EmptyHand
<1>9. SelectedObjects' /\ NullStandsAlone'
  BY <1>2, <1>3, <1>5, <1>6 DEF SelectedObjects, NullStandsAlone
<1>10. OneElementPerObject'
  <2>1. \A i, j \in 1..n : Items[i] = Items[j] => i = j
    BY <1>3 DEF IInv, OneElementPerObject
  <2>2. \A i \in 1..n : Items[i] # id
    BY <1>1, <1>5
  <2>3. \A i, j \in 1..(n + 1) : Items'[i] = Items'[j] => i = j
    BY <1>3, <1>6, <2>1, <2>2
  <2>4. \A i \in 1..(n + 1) : Items'[i] \notin {NULL} \cup (pass.rest \ {id})
    BY <1>2, <1>3, <1>5, <1>6
  <2> QED BY <1>3, <1>4, <2>3, <2>4 DEF OneElementPerObject
<1>11. Held' \subseteq Held
  BY <1>1, <1>3, <1>4, <1>6 DEF Held
<1>12. TurnsLeft' BY <1>4 DEF TurnsLeft
<1>13. \A x \in Held' \ ({NULL} \cup foreign') : Current(x)'
  BY <1>1, <1>11, Types DEF Current
<1>14. Positions'
  BY <1>7, <1>8, <1>9, <1>10 DEF Positions
<1> QED BY <1>1, <1>3, <1>4, <1>12, <1>13, <1>14, Types, Assemble

(* Steps that change the pass alone.                                       *)
LEMMA PassAloneIInv ==
  ASSUME IInv, UNCHANGED <<kind, table, object, foreign, queue_vars>>,
         pass' \in Pass, pass'.step = "pop", pass'.hand = NULL, pass'.rest = {},
         pass'.op # "select", pass'.op = "refresh" => pass'.i = size
  PROVE  IInv'
<1>1. QueueInv' /\ Items' = Items /\ chain' = chain /\ size' = size
  BY ItemsAreObjects, QueueKept
<1>2. /\ Len(chain) \in Nat /\ DOMAIN chain = 1..Len(chain) /\ Len(chain) <= size /\ size \in Nat
  BY ItemsAreObjects, Types DEF IInv, SizeCoversQueue
<1>3. Positions'
  BY <1>1 DEF IInv, Positions, SizeCoversQueue, PassShape, EmptyHand, SelectedObjects,
              OneElementPerObject, NullStandsAlone
<1>4. TurnsLeft'
  <2>1. \A k \in DOMAIN chain : ~(k > size) BY <1>2
  <2> QED BY <1>1, <2>1 DEF TurnsLeft
<1>5. Held' \subseteq Held \cup {NULL}
  BY <1>1 DEF Held
<1>6. \A x \in Held' \ ({NULL} \cup foreign') : Current(x)'
  BY <1>5, Types DEF Current
<1> QED BY <1>1, <1>3, <1>4, <1>6, Types, Assemble

LEMMA EndSelectIInv ==
  ASSUME IInv, EndSelect \/ EndPass
  PROVE  IInv'
<1>1. pass' = NoPass("idle") /\ UNCHANGED <<kind, table, object, foreign, queue_vars>>
  BY DEF EndSelect, EndPass
<1>2. pass' \in Pass /\ pass'.step = "pop" /\ pass'.hand = NULL /\ pass'.rest = {} /\ pass'.op = "idle"
  BY <1>1, ModelQueuesAssumption DEF NoPass, Pass
<1> QED BY <1>1, <1>2, PassAloneIInv

LEMMA BeginIInv ==
  ASSUME IInv, Begin
  PROVE  IInv'
<1>1. pass \in Pass /\ pass.op = "idle" /\ pass.rest = {} /\ pass.step = "pop" /\ pass.hand = NULL
  BY Types DEF Begin, Pass, IInv, PassShape
<1>2. /\ UNCHANGED <<kind, table, object, foreign, queue_vars>>
      /\ pass' \in Pass /\ pass'.step = "pop" /\ pass'.hand = NULL /\ pass'.rest = {}
      /\ pass'.op # "select" /\ (pass'.op = "refresh" => pass'.i = size)
  BY <1>1, Types DEF Begin, Pass
<1> QED BY <1>2, PassAloneIInv

LEMMA FreeQueueIInv ==
  ASSUME IInv, FreeQueue
  PROVE  IInv'
<1>1. /\ pass' = NoPass("none") /\ object' = [id \in Id |-> Forgotten]
      /\ UNCHANGED <<kind, table, foreign>> /\ create_queue
  BY DEF FreeQueue, free_queue, create_queue
<1>2. QueueInv' /\ chain' = <<>> /\ size' = 0
  BY <1>1, CreateSound DEF create_queue
<1>3. /\ pass' \in Pass /\ pass'.op = "none" /\ pass'.step = "pop" /\ pass'.hand = NULL
      /\ pass'.rest = {}
  BY <1>1, ModelQueuesAssumption DEF NoPass, Pass
<1>4. DOMAIN chain' = {} /\ Len(chain') = 0
  BY <1>2
<1>5. Positions' /\ TurnsLeft' /\ Held' = {NULL}
  BY <1>2, <1>3, <1>4
  DEF Positions, SizeCoversQueue, PassShape, EmptyHand, SelectedObjects,
      OneElementPerObject, NullStandsAlone, TurnsLeft, Held
<1> QED BY <1>1, <1>2, <1>3, <1>5, Types, Assemble
LEMMA PopObjectIInv ==
  ASSUME IInv, PopObject
  PROVE  IInv'
<1> DEFINE n == Len(chain)
<1>1. /\ pass \in Pass /\ pass.op \in {"refresh", "update"} /\ pass.step = "pop" /\ pass.i > 0
      /\ pop_queue_element
      /\ pass' = [pass EXCEPT !.i = @ - 1, !.step = "request", !.hand = popped]
      /\ UNCHANGED <<kind, table, object, foreign>>
  BY Types DEF PopObject
<1>2. QueueInv
  BY ItemsAreObjects
<1>3. popped \in Value
  BY <1>1, <1>2, PopElements, Types
<1>4. /\ pass' \in Pass /\ pass'.op = pass.op /\ pass'.step = "request" /\ pass'.hand = popped
      /\ pass'.rest = pass.rest /\ pass'.i = pass.i - 1 /\ pass.i \in Nat
  <2>1. pass.i \in Nat /\ pass.i - 1 \in Nat
    BY <1>1 DEF Pass
  <2> QED BY <1>1, <1>3, <2>1 DEF Pass
<1>5. QueueInv' /\ Positions' /\ Held' \subseteq Held
  BY <1>1, <1>4, ObjectPopped
<1>6. TurnsLeft'
  <2>1. ASSUME pass.op = "refresh", NEW k \in DOMAIN chain', k > pass.i - 1, Items'[k] # NULL
        PROVE  ~object[Items'[k]].is_changed
    <3>1. chain # <<>>
      <4>1. chain = <<>> => chain' = <<>> BY <1>1, <1>2, PopElements
      <4>2. chain' = <<>> => DOMAIN chain' = {} OBVIOUS
      <4> QED BY <4>1, <4>2, <2>1
    <3>2. /\ n \in Nat /\ DOMAIN chain = 1..n /\ k \in 1..(n - 1) /\ Items'[k] = Items[k + 1]
      BY <1>1, <1>2, <2>1, <3>1, PopElements
    <3>3. k + 1 \in DOMAIN chain /\ k + 1 > pass.i
      BY <3>2, <2>1, <1>4
    <3> QED BY <2>1, <3>2, <3>3 DEF IInv, TurnsLeft
  <2> QED BY <2>1, <1>1, <1>4 DEF TurnsLeft
<1>7. \A x \in Held' \ ({NULL} \cup foreign') : Current(x)'
  BY <1>1, <1>5, Types DEF Current
<1> QED BY <1>1, <1>4, <1>5, <1>6, <1>7, Types, Assemble

LEMMA PopToDeleteIInv ==
  ASSUME IInv, PopToDelete
  PROVE  IInv'
<1>1. /\ pass \in Pass /\ pass.op = "delete" /\ pass.step = "pop" /\ pop_queue_element
      /\ UNCHANGED <<kind, table, object, foreign>>
      /\ pass.rest = {}
  BY Types DEF PopToDelete, IInv, PassShape
<1>2. QueueInv
  BY ItemsAreObjects
<1>3. popped \in Value
  BY <1>1, <1>2, PopElements, Types
<1>4. CASE popped # NULL
  <2>1. /\ pass' \in Pass /\ pass'.op = pass.op /\ pass'.step = "request" /\ pass'.hand = popped
        /\ pass'.rest = pass.rest
    BY <1>1, <1>3, <1>4 DEF PopToDelete, Pass
  <2>2. QueueInv' /\ Positions' /\ Held' \subseteq Held
    BY <1>1, <1>4, <2>1, ObjectPopped
  <2>3. TurnsLeft'
    BY <1>1, <2>1 DEF TurnsLeft
  <2>4. \A x \in Held' \ ({NULL} \cup foreign') : Current(x)'
    BY <1>1, <2>2, Types DEF Current
  <2> QED BY <1>1, <2>1, <2>2, <2>3, <2>4, Types, Assemble
<1>5. CASE popped = NULL
  <2>1. /\ pass' \in Pass /\ pass'.op = "idle" /\ pass'.step = "pop" /\ pass'.hand = NULL
        /\ pass'.rest = {}
    BY <1>1, <1>5, ModelQueuesAssumption DEF PopToDelete, Pass, NoPass
  <2>2. DOMAIN chain' = {} /\ Len(chain') = 0
    <3>1. CASE chain = <<>>
      <4>1. chain' = <<>> BY <1>1, <1>2, <3>1, PopElements
      <4> QED BY <4>1
    <3>2. CASE chain # <<>>
      <4>1. /\ Len(chain) \in Nat /\ DOMAIN chain = 1..Len(chain) /\ Len(chain) # 0
            /\ popped = Items[1] /\ Len(chain') = Len(chain) - 1
            /\ DOMAIN chain' = 1..(Len(chain) - 1)
        BY <1>1, <1>2, <3>2, PopElements
      <4>2. Len(chain) = 1
        BY <1>5, <4>1 DEF IInv, NullStandsAlone
      <4> QED BY <4>1, <4>2
    <3> QED BY <3>1, <3>2
  <2>3. QueueInv' /\ size' = size /\ size \in Nat
    BY <1>1, <1>2, PopTakesFirst, Types
  <2>4. Positions' /\ TurnsLeft' /\ Held' = {NULL}
    BY <2>1, <2>2, <2>3
    DEF Positions, SizeCoversQueue, PassShape, EmptyHand, SelectedObjects,
        OneElementPerObject, NullStandsAlone, TurnsLeft, Held
  <2> QED BY <1>1, <2>1, <2>3, <2>4, Types, Assemble
<1> QED BY <1>4, <1>5

(* A pushed object that has no changes keeps a refresh on its way.         *)
LEMMA TurnsLeftPushed ==
  ASSUME IInv, pass.step = "request", pass.op \in {"refresh", "update"},
         push_queue_element(pass.hand), EndTurn,
         pass.op = "refresh" =>
           /\ pass.hand # NULL => ~object'[pass.hand].is_changed
           /\ \A id \in Id : ~object[id].is_changed => ~object'[id].is_changed
  PROVE  TurnsLeft'
<1> DEFINE n == Len(chain)
<1>1. pass \in Pass /\ pass.hand \in Value
  BY Types DEF Pass
<1>2. /\ n \in Nat /\ DOMAIN chain = 1..n /\ DOMAIN chain' = 1..(n + 1)
      /\ \A k \in 1..n : Items'[k] = Items[k] /\ Items[k] \in Value
      /\ Items'[n + 1] = pass.hand
  BY <1>1, ItemsAreObjects, PushElements
<1>3. pass'.op = pass.op /\ pass'.i = pass.i
  BY <1>1 DEF EndTurn, Pass
<1>4. ASSUME pass.op = "refresh", NEW k \in 1..(n + 1), k > pass.i, Items'[k] # NULL
      PROVE  ~object'[Items'[k]].is_changed
  <2>1. CASE k = n + 1 BY <2>1, <1>2, <1>4
  <2>2. CASE k \in 1..n
    <3>1. Items[k] # NULL /\ Items[k] \in Id
      BY <2>2, <1>2, <1>4, ModelQueuesAssumption
    <3>2. ~object[Items[k]].is_changed
      BY <2>2, <3>1, <1>2, <1>4 DEF IInv, TurnsLeft
    <3> QED BY <2>2, <3>1, <3>2, <1>2, <1>4
  <2> QED BY <2>1, <2>2, <1>2
<1> QED BY <1>2, <1>3, <1>4 DEF TurnsLeft

LEMMA RefreshIInv ==
  ASSUME IInv, Refresh
  PROVE  IInv'
<1> DEFINE id == pass.hand
<1>1. /\ pass.op = "refresh" /\ pass.step = "request" /\ id # NULL /\ table[id] # NoRow
      /\ object' = [object EXCEPT ![id] = Fresh(id)] /\ foreign' = foreign \ {id}
      /\ push_queue_element(pass.hand) /\ EndTurn /\ UNCHANGED <<kind, table>>
  BY DEF Refresh
<1>2. id \in Id
  BY <1>1, Types, ModelQueuesAssumption DEF Pass
<1>3. Fresh(id) \in Object /\ ~Fresh(id).is_changed /\ Fresh(id).name = table[id]
  BY <1>1, <1>2, Types DEF Fresh, Object
<1>4. /\ object' \in [Id -> Object] /\ object'[id] = Fresh(id)
      /\ \A x \in Id \ {id} : object'[x] = object[x]
  BY <1>1, <1>2, <1>3, Types
<1>5. QueueInv' /\ Positions' /\ Held' \subseteq Held \cup {NULL} /\ pass' \in Pass
  BY <1>1, HandPushed
<1>6. TurnsLeft'
  BY <1>1, <1>2, <1>3, <1>4, TurnsLeftPushed
<1>7. ASSUME NEW x \in Held' \ ({NULL} \cup foreign')
      PROVE  Current(x)'
  <2>1. CASE x = id BY <2>1, <1>1, <1>3, <1>4 DEF Current
  <2>2. CASE x # id
    <3>1. x \in Held \ ({NULL} \cup foreign) /\ x \in Id \ {id}
      BY <2>2, <1>1, <1>5, <1>7, Types
    <3>2. Current(x) BY <3>1, Types
    <3> QED BY <3>1, <3>2, <1>1, <1>4 DEF Current
  <2> QED BY <2>1, <2>2
<1> QED BY <1>1, <1>4, <1>5, <1>6, <1>7, Types, Assemble

(* The object in the hand is freed and the turn ends, the queue as it was. *)
LEMMA HandFreed ==
  ASSUME IInv, pass.step = "request", FreeHand, EndTurn,
         UNCHANGED <<kind, foreign, queue_vars>>,
         table' \in [Id -> Name \cup {NoRow}],
         \A x \in Id \ {pass.hand} : table'[x] = table[x]
  PROVE  IInv'
<1> DEFINE id == pass.hand
<1>1. QueueInv' /\ Items' = Items /\ chain' = chain /\ size' = size
  BY ItemsAreObjects, QueueKept
<1>2. pass \in Pass /\ pass.op \in {"refresh", "update", "delete"} /\ pass.rest = {}
  BY Types DEF IInv, PassShape
<1>3. /\ pass' \in Pass /\ pass'.op = pass.op /\ pass'.i = pass.i /\ pass'.step = "pop"
      /\ pass'.hand = NULL /\ pass'.rest = {}
  BY <1>2, ModelQueuesAssumption DEF EndTurn, Pass
<1>4. /\ object' \in [Id -> Object] /\ \A x \in Id \ {id} : object'[x] = object[x]
      /\ id \in Id => ~object'[id].is_changed
  BY Types DEF FreeHand, Forgotten
<1>5. \A k \in DOMAIN chain : Items[k] # NULL => Items[k] # id
  BY DEF IInv, OneElementPerObject
<1>6. Positions'
  BY <1>1, <1>2, <1>3 DEF IInv, Positions, SizeCoversQueue, PassShape, EmptyHand,
       SelectedObjects, OneElementPerObject, NullStandsAlone
<1>7. TurnsLeft'
  <2>1. \A k \in DOMAIN chain : Items[k] \in Id \cup {NULL} BY ItemsAreObjects
  <2> QED BY <1>1, <1>3, <1>4, <1>5, <2>1 DEF IInv, TurnsLeft
<1>8. Held' \subseteq (Held \ {id}) \cup {NULL}
  BY <1>1, <1>3, <1>5 DEF Held
<1>9. ASSUME NEW x \in Held' \ ({NULL} \cup foreign')
      PROVE  Current(x)'
  <2>1. x \in Held \ ({NULL} \cup foreign) /\ x \in Id \ {id}
    BY <1>8, <1>9, Types
  <2>2. Current(x) BY <2>1, Types
  <2> QED BY <2>1, <2>2, <1>4 DEF Current
<1> QED BY <1>1, <1>3, <1>4, <1>6, <1>7, <1>9, Types, Assemble

LEMMA RefreshFailsIInv ==
  ASSUME IInv, RefreshFails
  PROVE  IInv'
<1>1. /\ pass.step = "request" /\ FreeHand /\ EndTurn
      /\ UNCHANGED <<kind, foreign, queue_vars>> /\ table' = table
  BY DEF RefreshFails
<1> QED BY <1>1, Types, HandFreed

LEMMA DeleteIInv ==
  ASSUME IInv, Delete
  PROVE  IInv'
<1>1. /\ pass.step = "request" /\ FreeHand /\ EndTurn
      /\ UNCHANGED <<kind, foreign, queue_vars>>
      /\ (table' = [table EXCEPT ![pass.hand] = NoRow] \/ table' = table)
  BY DEF Delete
<1>2. table' \in [Id -> Name \cup {NoRow}] /\ \A x \in Id \ {pass.hand} : table'[x] = table[x]
  BY <1>1, Types
<1> QED BY <1>1, <1>2, HandFreed

(* An UPDATE touches the row of its object alone, and writes its name.     *)
LEMMA RowUpdated ==
  ASSUME IInv, NEW id \in Id
  PROVE  /\ UpdatedRow(id) \in [Id -> Name \cup {NoRow}]
         /\ \A x \in Id \ {id} : UpdatedRow(id)[x] = table[x]
         /\ table[id] = NoRow => UpdatedRow(id)[id] = NoRow
         /\ table[id] # NoRow => UpdatedRow(id)[id] = object[id].name /\ object[id].name # NoRow
BY Types, ModelQueuesAssumption DEF UpdatedRow, Object

LEMMA UpdateIInv ==
  ASSUME IInv, Update
  PROVE  IInv'
<1> DEFINE id == pass.hand
<1>1. /\ pass.op = "update" /\ pass.step = "request"
      /\ push_queue_element(pass.hand) /\ EndTurn /\ kind' = kind
  BY DEF Update
<1>2. QueueInv' /\ Positions' /\ Held' \subseteq Held \cup {NULL} /\ pass' \in Pass
  BY <1>1, HandPushed
<1>3. TurnsLeft'
  BY <1>1, TurnsLeftPushed
<1>4. CASE id = NULL /\ UNCHANGED <<table, object, foreign>>
  <2>1. \A x \in Held' \ ({NULL} \cup foreign') : Current(x)'
    BY <1>2, <1>4, Types DEF Current
  <2> QED BY <1>1, <1>2, <1>3, <1>4, <2>1, Types, Assemble
<1>5. CASE /\ id # NULL
           /\ table' = UpdatedRow(id)
           /\ object' = [object EXCEPT ![id].is_changed = StaysChanged(id)]
           /\ foreign' = IF table'[id] = NoRow THEN foreign ELSE foreign \ {id}
  <2>1. id \in Id
    BY <1>5, Types, ModelQueuesAssumption DEF Pass
  <2>2. StaysChanged(id) \in BOOLEAN
    BY <2>1, Types DEF StaysChanged, Object
  <2>3. /\ object' \in [Id -> Object] /\ object'[id].name = object[id].name
        /\ \A x \in Id \ {id} : object'[x] = object[x]
    BY <1>5, <2>1, <2>2, Types DEF Object
  <2>4. ASSUME NEW x \in Held' \ ({NULL} \cup foreign')
        PROVE  Current(x)'
    <3>1. x \in Held \ {NULL} /\ x \in Id
      BY <2>4, <1>2, Types
    <3>2. CASE x # id
      <4>1. Current(x) BY <3>1, <3>2, <2>4, <1>5, Types
      <4> QED BY <4>1, <3>1, <3>2, <2>1, <2>3, <1>5, RowUpdated DEF Current
    <3>3. CASE x = id /\ table[id] = NoRow
      <4>1. x \in Held \ ({NULL} \cup foreign)
        BY <3>1, <3>3, <2>1, <2>4, <1>5, RowUpdated
      <4>2. Current(x) BY <4>1, Types
      <4> QED BY <4>2, <3>3 DEF Current
    <3>4. CASE x = id /\ table[id] # NoRow
      BY <3>4, <2>1, <2>3, <1>5, RowUpdated DEF Current
    <3> QED BY <3>2, <3>3, <3>4
  <2>5. table' \in [Id -> Name \cup {NoRow}] /\ foreign' \subseteq Id
    BY <1>5, <2>1, RowUpdated, Types
  <2> QED BY <1>1, <1>2, <1>3, <2>3, <2>4, <2>5, Types, Assemble
<1> QED BY <1>4, <1>5 DEF Update

LEMMA UpdateFailsIInv ==
  ASSUME IInv, UpdateFails
  PROVE  IInv'
<1> DEFINE id == pass.hand
<1>1. /\ pass.op = "update" /\ pass.step = "request" /\ id # NULL
      /\ (table' = table \/ table' = UpdatedRow(id))
      /\ push_queue_element(pass.hand) /\ EndTurn /\ UNCHANGED <<kind, object, foreign>>
  BY DEF UpdateFails
<1>2. QueueInv' /\ Positions' /\ Held' \subseteq Held \cup {NULL} /\ pass' \in Pass
  BY <1>1, HandPushed
<1>3. TurnsLeft'
  BY <1>1, TurnsLeftPushed
<1>4. id \in Id
  BY <1>1, Types, ModelQueuesAssumption DEF Pass
<1>5. table' \in [Id -> Name \cup {NoRow}]
  BY <1>1, <1>4, RowUpdated, Types
<1>6. ASSUME NEW x \in Held' \ ({NULL} \cup foreign')
      PROVE  Current(x)'
  <2>1. x \in Id /\ Current(x)
    BY <1>1, <1>2, <1>6, Types
  <2> QED BY <2>1, <1>1, <1>4, RowUpdated DEF Current
<1> QED BY <1>1, <1>2, <1>3, <1>5, <1>6, Types, Assemble

LEMMA SetNameIInv ==
  ASSUME IInv, SetName
  PROVE  IInv'
<1>1. PICK i \in DOMAIN chain, n \in Name :
        /\ Items[i] # NULL
        /\ object' = [object EXCEPT ![Items[i]] = [name |-> n, is_changed |-> TRUE]]
  BY DEF SetName
<1>2. pass.op = "idle" /\ UNCHANGED <<kind, table, pass, foreign, queue_vars>>
  BY DEF SetName
<1>3. Items[i] \in Id
  BY <1>1, ItemsAreObjects
<1>4. /\ object' \in [Id -> Object] /\ object'[Items[i]].is_changed
      /\ \A x \in Id \ {Items[i]} : object'[x] = object[x]
  BY <1>1, <1>3, Types DEF Object
<1>5. QueueInv' /\ Positions' /\ Held' = Held
  BY <1>2, PositionsKept
<1>6. TurnsLeft'
  BY <1>2 DEF TurnsLeft
<1>7. \A x \in Held' \ ({NULL} \cup foreign') : Current(x)'
  BY <1>2, <1>3, <1>4, <1>5, Types DEF Current
<1> QED BY <1>2, <1>4, <1>5, <1>6, <1>7, Types, Assemble

LEMMA OtherSessionIInv ==
  ASSUME IInv, OtherSession
  PROVE  IInv'
<1>1. PICK id \in Id, n \in Name \cup {NoRow} :
        table' = [table EXCEPT ![id] = n] /\ foreign' = foreign \cup {id}
  BY DEF OtherSession
<1>2. UNCHANGED <<kind, object, pass, queue_vars>>
  BY DEF OtherSession
<1>3. QueueInv' /\ Positions' /\ Held' = Held
  BY <1>2, PositionsKept
<1>4. TurnsLeft'
  <2>1. Items' = Items /\ chain' = chain BY <1>2, ItemsAreObjects, QueueKept
  <2> QED BY <1>2, <2>1 DEF IInv, TurnsLeft
<1>5. \A x \in Held' \ ({NULL} \cup foreign') : Current(x)'
  BY <1>1, <1>2, <1>3, Types DEF Current
<1>6. table' \in [Id -> Name \cup {NoRow}] /\ foreign' \subseteq Id
  BY <1>1, Types
<1> QED BY <1>2, <1>3, <1>4, <1>5, <1>6, Types, Assemble
(* Every step keeps the invariant.                                         *)
LEMMA NextIInv == IInv /\ [Next]_vars => IInv'
<1> SUFFICES ASSUME IInv, [Next]_vars PROVE IInv'
  OBVIOUS
<1>1. CASE SelectRows BY <1>1, SelectRowsIInv
<1>2. CASE FreeQueue BY <1>2, FreeQueueIInv
<1>3. CASE Begin BY <1>3, BeginIInv
<1>4. CASE PassStep
  <2>1. CASE FetchRow BY <2>1, FetchRowIInv
  <2>2. CASE EndSelect BY <2>2, EndSelectIInv
  <2>3. CASE PopObject BY <2>3, PopObjectIInv
  <2>4. CASE EndPass BY <2>4, EndSelectIInv
  <2>5. CASE Refresh BY <2>5, RefreshIInv
  <2>6. CASE RefreshFails BY <2>6, RefreshFailsIInv
  <2>7. CASE Update BY <2>7, UpdateIInv
  <2>8. CASE UpdateFails BY <2>8, UpdateFailsIInv
  <2>9. CASE PopToDelete BY <2>9, PopToDeleteIInv
  <2>10. CASE Delete BY <2>10, DeleteIInv
  <2> QED
    BY <1>4, <2>1, <2>2, <2>3, <2>4, <2>5, <2>6, <2>7, <2>8, <2>9, <2>10 DEF PassStep
<1>5. CASE SetName BY <1>5, SetNameIInv
<1>6. CASE OtherSession BY <1>6, OtherSessionIInv
<1>7. CASE UNCHANGED vars
  <2>1. UNCHANGED <<kind, table, object, pass, foreign, queue_vars>>
    BY <1>7 DEF vars
  <2>2. QueueInv' /\ Items' = Items /\ chain' = chain /\ size' = size
    BY <2>1, ItemsAreObjects, QueueKept
  <2>3. QueueInv' /\ Positions' /\ Held' = Held
    BY <2>1, PositionsKept
  <2>4. TurnsLeft'
    BY <2>1, <2>2 DEF IInv, TurnsLeft
  <2>5. \A x \in Held' \ ({NULL} \cup foreign') : Current(x)'
    BY <2>1, <2>3, Types DEF Current
  <2> QED BY <2>1, <2>3, <2>4, <2>5, Types, Assemble
<1> QED BY <1>1, <1>2, <1>3, <1>4, <1>5, <1>6, <1>7 DEF Next

(* The state of the client, its queue and the table keep their types.      *)
THEOREM Typed == Spec => []TypeOK
<1>1. IInv => TypeOK BY DEF IInv
<1> QED BY <1>1, InitIInv, NextIInv, PTL DEF Spec

(* The list of a client's queue is never broken.                           *)
THEOREM QueueIsLinked == Spec => []Linked
<1>1. IInv => Linked BY DEF IInv
<1> QED BY <1>1, InitIInv, NextIInv, PTL DEF Spec

(* The turns of a pass are never fewer than the objects of the queue.      *)
THEOREM TurnsSuffice == Spec => []SizeCoversQueue
<1>1. IInv => SizeCoversQueue BY DEF IInv
<1> QED BY <1>1, InitIInv, NextIInv, PTL DEF Spec

(* No object is in the queue twice, or in the queue and in the hand.       *)
THEOREM ObjectsAreOnce == Spec => []OneElementPerObject
<1>1. IInv => OneElementPerObject BY DEF IInv
<1> QED BY <1>1, InitIInv, NextIInv, PTL DEF Spec

(* An element of NULL is the only element.                                 *)
THEOREM NullIsAlone == Spec => []NullStandsAlone
<1>1. IInv => NullStandsAlone BY DEF IInv
<1> QED BY <1>1, InitIInv, NextIInv, PTL DEF Spec

(* After the turns of a refresh no object of the client has changes of its *)
(* own: with no turns to go, TurnsLeft speaks of the whole queue.          *)
THEOREM RefreshIsComplete == Spec => []RefreshReachesAll
<1>1. IInv => RefreshReachesAll
  <2> SUFFICES ASSUME IInv, pass.op = "refresh", pass.step = "pop", pass.i = 0,
                      NEW id \in Held \ {NULL}
               PROVE  ~object[id].is_changed
    BY DEF RefreshReachesAll
  <2>1. pass.hand = NULL /\ pass.rest = {}
    BY DEF IInv, PassShape
  <2>2. PICK k \in DOMAIN chain : id = Items[k]
    BY <2>1 DEF Held
  <2>3. k > 0
    BY ItemsAreObjects
  <2> QED BY <2>2, <2>3 DEF IInv, TurnsLeft
<1> QED BY <1>1, InitIInv, NextIInv, PTL DEF Spec

(* An object without changes of its own holds what its row holds, unless   *)
(* the other session has changed the row.                                  *)
THEOREM CleanObjectsAreCurrent == Spec => []CleanIsCurrent
<1>1. IInv => CleanIsCurrent BY DEF IInv
<1> QED BY <1>1, InitIInv, NextIInv, PTL DEF Spec

(* A delete of all objects leaves none in the queue: it stops at a NULL,   *)
(* and a NULL stands alone.                                                *)
THEOREM DeleteIsComplete == Spec => DeleteEmpties
<1>1. IInv /\ [Next]_vars => [pass.op = "delete" /\ pass'.op = "idle" => chain' = <<>>]_vars
  <2> SUFFICES ASSUME IInv, Next, pass.op = "delete", pass'.op = "idle"
               PROVE  chain' = <<>>
    OBVIOUS
  <2>1. pass \in Pass BY Types
  <2>2. PopToDelete
    BY <2>1 DEF Next, PassStep, SelectRows, FreeQueue, Begin, FetchRow, EndSelect, PopObject,
         EndPass, Refresh, RefreshFails, Update, UpdateFails, Delete, SetName, OtherSession,
         EndTurn, Pass
  <2>3. popped = NULL /\ pop_queue_element
    BY <2>1, <2>2 DEF PopToDelete, Pass
  <2>4. CASE chain = <<>>
    BY <2>3, <2>4, ItemsAreObjects, PopElements
  <2>5. CASE chain # <<>>
    <3>1. /\ Len(chain) \in Nat /\ DOMAIN chain = 1..Len(chain) /\ Len(chain) # 0
          /\ popped = Items[1] /\ Len(chain') = Len(chain) - 1
      BY <2>3, <2>5, ItemsAreObjects, PopElements
    <3>2. Len(chain) = 1
      BY <2>3, <3>1 DEF IInv, NullStandsAlone
    <3>3. chain' \in Seq(Cell)
      BY <2>3, ItemsAreObjects, PopTakesFirst DEF QueueInv, QueueTypeOK
    <3>4. Len(chain') = 0 BY <3>1, <3>2
    <3> QED BY <3>3, <3>4
  <2> QED BY <2>4, <2>5
<1> QED BY <1>1, InitIInv, NextIInv, PTL DEF Spec, DeleteEmpties

\* What is left of a pass: the turns of a refresh or an update, the elements a delete
\* has yet to take.
TurnsToGo == IF pass.op = "delete" THEN Len(chain) ELSE pass.i

\* The order behind EveryPassEnds: the rows to push, the turns to go, and the request
\* of the turn.  A pass over finitely many rows cannot go down it for ever.
PassGoesDown ==
  \/ pass'.op = "idle"
  \/ /\ pass'.op = pass.op
     /\ \/ pass'.rest \subseteq pass.rest /\ pass'.rest # pass.rest
        \/ /\ pass'.rest = pass.rest
           /\ TurnsToGo \in Nat /\ TurnsToGo' \in Nat
           /\ \/ TurnsToGo' < TurnsToGo
              \/ TurnsToGo' = TurnsToGo /\ pass.step = "request" /\ pass'.step = "pop"

(* Every step of a pass brings its end nearer, although refreshes and      *)
(* updates push back what they pop: they count turns, and a delete, which  *)
(* asks for the queue, pushes nothing.                                     *)
THEOREM EveryStepGoesDown == Spec => [][PassStep => PassGoesDown]_vars
<1>1. ASSUME IInv, PassStep PROVE PassGoesDown
  <2>1. pass \in Pass /\ PassShape BY <1>1, Types DEF IInv
  <2>2. CASE FetchRow
    BY <2>1, <2>2 DEF FetchRow, PassGoesDown, Pass
  <2>3. CASE EndSelect \/ EndPass
    BY <2>3 DEF EndSelect, EndPass, NoPass, PassGoesDown
  <2>4. CASE PopObject
    <3>1. pass'.op = pass.op /\ pass'.rest = pass.rest /\ pass'.i = pass.i - 1
      BY <2>1, <2>4 DEF PopObject, Pass
    <3>2. pass.i \in Nat /\ pass.i > 0 /\ pass.op # "delete"
      BY <2>1, <2>4 DEF PopObject, Pass
    <3> QED BY <3>1, <3>2 DEF PassGoesDown, TurnsToGo
  <2>5. CASE Refresh \/ RefreshFails \/ Update \/ UpdateFails
    <3>1. pass.step = "request" /\ pass.op # "delete" /\ EndTurn
      BY <2>5 DEF Refresh, RefreshFails, Update, UpdateFails
    <3>2. /\ pass'.op = pass.op /\ pass'.rest = pass.rest /\ pass'.i = pass.i
          /\ pass'.step = "pop" /\ pass.i \in Nat
      BY <2>1, <3>1 DEF EndTurn, Pass
    <3> QED BY <3>1, <3>2 DEF PassGoesDown, TurnsToGo
  <2>6. CASE PopToDelete
    <3>1. CASE popped = NULL
      BY <2>6, <3>1 DEF PopToDelete, NoPass, PassGoesDown
    <3>2. CASE popped # NULL
      <4>1. /\ pass.op = "delete" /\ pass'.op = "delete" /\ pass'.rest = pass.rest
        BY <2>1, <2>6, <3>2 DEF PopToDelete, Pass
      <4>2. Len(chain) \in Nat /\ Len(chain) # 0 /\ Len(chain') = Len(chain) - 1
        BY <1>1, <2>6, <3>2, ItemsAreObjects, PopElements DEF PopToDelete
      <4> QED BY <4>1, <4>2 DEF PassGoesDown, TurnsToGo
    <3> QED BY <3>1, <3>2
  <2>7. CASE Delete
    <3>1. pass.step = "request" /\ pass.op = "delete" /\ EndTurn /\ chain' = chain
      BY <2>7 DEF Delete, queue_vars
    <3>2. /\ pass'.op = pass.op /\ pass'.rest = pass.rest /\ pass'.step = "pop"
      BY <2>1, <3>1 DEF EndTurn, Pass
    <3>3. Len(chain) \in Nat
      BY <1>1, ItemsAreObjects
    <3> QED BY <3>1, <3>2, <3>3 DEF PassGoesDown, TurnsToGo
  <2> QED BY <1>1, <2>2, <2>3, <2>4, <2>5, <2>6, <2>7 DEF PassStep
<1>2. IInv => [PassStep => PassGoesDown]_vars
  BY <1>1
<1> QED BY <1>2, InitIInv, NextIInv, PTL DEF Spec

(* However the passes push and pop, the list is a first-in first-out queue *)
(* with a count of its pushes.                                             *)
THEOREM QueueIsFifo == Spec => FifoSpec
<1> USE DEF Promised!create_queue, Promised!push_queue_element, Promised!pop_queue_element
<1>1. Init => Promised!Init
  BY InitSound DEF Init, QueueInit, Promised!Init
<1>2. IInv /\ [Next]_vars => [Promised!Next]_<<Items, size>>
  <2> SUFFICES ASSUME IInv, [Next]_vars
               PROVE  Promised!Next \/ UNCHANGED <<Items, size>>
    OBVIOUS
  <2>1. QueueInv /\ pass \in Pass BY ItemsAreObjects, Types
  <2>2. create_queue => Promised!Next
    BY CreateSound DEF Promised!Next, create_queue
  <2>3. ASSUME NEW v \in Value, push_queue_element(v) PROVE Promised!Next
    BY <2>1, <2>3, PushAppends DEF Promised!Next
  <2>4. ASSUME pop_queue_element PROVE Promised!Next \/ UNCHANGED <<Items, size>>
    <3>1. CASE chain = <<>>
      <4>1. UNCHANGED queue_vars BY <2>1, <2>4, <3>1, PopTakesFirst
      <4> QED BY <2>1, <4>1, QueueKept
    <3>2. CASE chain # <<>>
      <4>1. Items' = Tail(Items) /\ size' = size BY <2>1, <2>4, <3>2, PopTakesFirst
      <4>2. Items # <<>>
        <5>1. DOMAIN chain # {}
          <6>1. Len(chain) \in Nat /\ DOMAIN chain = 1..Len(chain) /\ Len(chain) # 0
            BY <2>1, <2>4, <3>2, PopElements
          <6> QED BY <6>1
        <5>2. DOMAIN Items = DOMAIN chain BY DEF Items
        <5> QED BY <5>1, <5>2
      <4> QED BY <4>1, <4>2 DEF Promised!Next
    <3> QED BY <3>1, <3>2
  <2>5. UNCHANGED queue_vars => UNCHANGED <<Items, size>>
    BY <2>1, QueueKept
  <2>6. pass.hand \in Value /\ pass.rest \subseteq Value
    BY <2>1, ModelQueuesAssumption DEF Pass
  <2>7. CASE SelectRows BY <2>2, <2>7 DEF SelectRows
  <2>8. CASE FreeQueue BY <2>2, <2>8 DEF FreeQueue, free_queue, create_queue
  <2>9. CASE PassStep
    BY <2>3, <2>4, <2>5, <2>6, <2>9
    DEF PassStep, FetchRow, EndSelect, PopObject, EndPass, Refresh, RefreshFails, Update,
        UpdateFails, PopToDelete, Delete
  <2>10. CASE Begin \/ SetName \/ OtherSession \/ UNCHANGED vars
    BY <2>5, <2>10 DEF Begin, SetName, OtherSession, vars
  <2> QED BY <2>7, <2>8, <2>9, <2>10 DEF Next
<1> QED BY <1>1, <1>2, InitIInv, NextIInv, PTL DEF Spec, FifoSpec, Promised!Spec
=============================================================================
