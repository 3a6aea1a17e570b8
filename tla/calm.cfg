SPECIFICATION MCCalmSpec
CONSTANTS
  a = a
  b = b
  c = c
  Null = Null
  NoRow = NoRow
  BadDate = BadDate
  Ids <- MCIds
  Dates = {1, 2}
  MaxInt = 20
  MaxDepth = 4
  MaxRequests = 3
  Requests <- CalmRequests
INVARIANTS
  SizesAreSums
PROPERTIES
  AncestorsDated
  EveryRequestDone
