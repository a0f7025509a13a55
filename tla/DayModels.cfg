SPECIFICATION Spec
CONSTANTS
  NULL = NULL
  Freed = Freed
  Slot = {s1}
  MaxDay = 2
SYMMETRY Symmetric
INVARIANTS ListsAreCurrent FreedOnce 
\* Once memory is damaged the program is not followed any further.
CHECK_DEADLOCK FALSE
