CONSTANTS
  MaxTime = 4
  Session = {p1}
  RowId = {i1, i2, i3, i4, i5}
  NoRow = NoRow
  RemovalRange <- OrderedRanges
SYMMETRY RowIds
SPECIFICATION SpecWithAborts
INVARIANTS TypeOK NonOverlapping
PROPERTIES WholeCallsSpec DamageContained
