SPECIFICATION Spec
CONSTANTS
  NULL = NULL
  MaxCreated = 5
  Window = {w1, w2, w3, w4}
  Value = {w1, w2, w3, w4, NULL}
  Cell = {c1, c2, c3, c4}
SYMMETRY Symmetric
INVARIANTS ListsTheWindows
PROPERTIES CloseFreesEachOnce
\* The process exits, or has damaged its memory.
CHECK_DEADLOCK FALSE
