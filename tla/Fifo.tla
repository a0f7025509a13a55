-------------------------------- MODULE Fifo --------------------------------
(***************************************************************************)
(* What the linked list of src/database/queue.c promises its callers:      *)
(* values leave in the order they came.  Its size is the number of pushes, *)
(* which pop_queue_element never takes back.                               *)
(***************************************************************************)
EXTENDS Naturals, Sequences

CONSTANT Value

VARIABLES items, size

Init == items = <<>> /\ size = 0

create_queue == items' = <<>> /\ size' = 0

push_queue_element(v) ==
  /\ items' = Append(items, v)
  /\ size' = size + 1

pop_queue_element ==
  /\ items # <<>>
  /\ items' = Tail(items)
  /\ UNCHANGED size

Next ==
  \/ create_queue
  \/ \E v \in Value : push_queue_element(v)
  \/ pop_queue_element

Spec == Init /\ [][Next]_<<items, size>>
=============================================================================
