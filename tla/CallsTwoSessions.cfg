CONSTANTS
  MaxTime = 4
  Session = {p1, p2}
  RowId = {i1, i2, i3, i4}
  NoRow = NoRow
  RemovalRange <- NoRanges
SYMMETRY RowIds
SPECIFICATION Spec
INVARIANTS NonOverlapping
