SPECIFICATION MCPlainSpec
CONSTANTS
  a = a
  b = b
  c = c
  Null = Null
  NoRow = NoRow
  BadDate = BadDate
  Ids <- MCIds
  Dates = {1}
  MaxInt = 20
  MaxDepth = 4
  MaxRequests = 2
  Requests <- MoveAndResizeRequests
INVARIANTS
  SizesAreSums
