------------------------------- MODULE Queue -------------------------------
(***************************************************************************)
(* The doubly linked list of src/database/queue.c: a Queue whose elements  *)
(* are cells of memory.  The specifications that use a queue (ModelQueues, *)
(* Windows) conjoin these actions with their own.                          *)
(***************************************************************************)
EXTENDS Naturals, Sequences

CONSTANTS
  Cell,   \* addresses malloc gives to a QueueElement
  Value,  \* what void* value may point to, NULL included
  NULL

ASSUME QueueAssumption == NULL \notin Cell

VARIABLES
  start, end, size,  \* the fields of the Queue
  cells,             \* the allocated QueueElements: value, next and prev
  chain              \* the cells next leads through from start, in order; a
                     \* history variable: it says where a loop over the queue goes

queue_vars == <<start, end, size, cells, chain>>

QueueElement == [value : Value, next : Cell \cup {NULL}, prev : Cell \cup {NULL}]

QueueInit == start = NULL /\ end = NULL /\ size = 0 /\ cells = <<>> /\ chain = <<>>

create_queue == start' = NULL /\ end' = NULL /\ size' = 0 /\ cells' = <<>> /\ chain' = <<>>

\* The values in order, as a loop from start sees them.
Items == [i \in DOMAIN chain |-> cells[chain[i]].value]

\* Variant: the new element goes to the front.
PushFront(v) ==
  \E c \in Cell \ DOMAIN cells :
    /\ cells' = [d \in DOMAIN cells \cup {c} |->
                   IF d = c THEN [value |-> v, next |-> start, prev |-> NULL]
                   ELSE IF d = start THEN [cells[d] EXCEPT !.prev = c] ELSE cells[d]]
    /\ start' = c
    /\ end' = IF end = NULL THEN c ELSE end
    /\ size' = size + 1
    /\ chain' = <<c>> \o chain

\* With end = NULL the new cell is start and end, and its prev is NULL, as end is.
push_queue_element(v) ==
  \E c \in Cell \ DOMAIN cells :
    /\ cells' = [d \in DOMAIN cells \cup {c} |->
                   IF d = c THEN [value |-> v, next |-> NULL, prev |-> end]
                   ELSE IF d = end THEN [cells[d] EXCEPT !.next = c] ELSE cells[d]]
    /\ start' = IF end = NULL THEN c ELSE start
    /\ end' = c
    /\ size' = size + 1
    /\ chain' = Append(chain, c)

\* What pop_queue_element returns.
popped == IF start = NULL THEN NULL ELSE cells[start].value

\* Variant: end is not reset when the last element leaves.
PopKeepsEnd ==
  IF start = NULL THEN UNCHANGED queue_vars
  ELSE /\ start' = cells[start].next
       /\ cells' = [d \in DOMAIN cells \ {start} |-> cells[d]]
       /\ chain' = Tail(chain)
       /\ UNCHANGED <<end, size>>

\* The prev of the new first cell is left as it is, and so is size.
pop_queue_element ==
  IF start = NULL THEN UNCHANGED queue_vars
  ELSE /\ start' = IF start = end THEN NULL ELSE cells[start].next
       /\ end' = IF start = end THEN NULL ELSE end
       /\ cells' = [d \in DOMAIN cells \ {start} |-> cells[d]]
       /\ chain' = Tail(chain)
       /\ UNCHANGED size

\* start, a cell, is never equal to the value: the first element stays, as do end,
\* size and the prev of the element that follows.
remove_queue_element(v) ==
  LET found == {i \in DOMAIN chain \ {1} : cells[chain[i]].value = v}
      first == CHOOSE i \in found : \A j \in found : i <= j
      tmp == chain[first]
  IN IF found = {} THEN UNCHANGED queue_vars
     ELSE /\ cells' = [c \in DOMAIN cells \ {tmp} |->
                         IF c = chain[first - 1] THEN [cells[c] EXCEPT !.next = cells[tmp].next]
                         ELSE cells[c]]
          /\ chain' = [i \in 1..Len(chain) - 1 |-> IF i < first THEN chain[i] ELSE chain[i + 1]]
          /\ UNCHANGED <<start, end, size>>

\* The elements are freed, and the Queue: its fields mean nothing from then on.
free_queue == start' = NULL /\ end' = NULL /\ size' = 0 /\ cells' = <<>> /\ chain' = <<>>

-----------------------------------------------------------------------------
(* What a sound queue looks like.                                          *)

PathSound ==
  /\ start = IF chain = <<>> THEN NULL ELSE chain[1]
  /\ \A i \in DOMAIN chain :
       /\ chain[i] \in DOMAIN cells
       /\ cells[chain[i]].next = IF i = Len(chain) THEN NULL ELSE chain[i + 1]
  /\ \A i, j \in DOMAIN chain : chain[i] = chain[j] => i = j

\* Start, end, next and prev describe one list of all the allocated cells, but for
\* the prev of the first cell, which may point to a freed one.
Linked ==
  /\ PathSound
  /\ end = IF chain = <<>> THEN NULL ELSE chain[Len(chain)]
  /\ \A c \in DOMAIN cells : \E i \in DOMAIN chain : c = chain[i]
  /\ \A i \in DOMAIN chain : i > 1 => cells[chain[i]].prev = chain[i - 1]

QueueTypeOK ==
  /\ start \in Cell \cup {NULL}
  /\ end \in Cell \cup {NULL}
  /\ size \in Nat
  /\ DOMAIN cells \subseteq Cell
  /\ \A c \in DOMAIN cells : cells[c] \in QueueElement
  /\ chain \in Seq(Cell)

\* However it is used by pushes and pops, the list is a first-in first-out queue.
Promised == INSTANCE Fifo WITH items <- Items, size <- size, Value <- Value
FifoSpec == Promised!Spec
=============================================================================
