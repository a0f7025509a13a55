SPECIFICATION Spec
CONSTANTS
  Id = {one, two}
  Name = {"A", "B", "C"}
  NULL = NULL
  NoRow = NoRow
  Value = {one, two, NULL}
  Cell = {c1, c2}
  Kind <- AnyKind
  MaxSize = 4
INVARIANTS TypeOK Linked OneElementPerObject NullStandsAlone RefreshReachesAll CleanIsCurrent
PROPERTIES FifoSpec EveryPassEnds
