SPECIFICATION MCCrashSpec
CONSTANTS
  a = a
  b = b
  c = c
  Null = Null
  NoRow = NoRow
  BadDate = BadDate
  Ids <- MCIds
  Dates = {1}
  MaxInt = 3
  MaxDepth = 4
  MaxRequests = 3
  Requests <- CrashRequests
SYMMETRY Symmetry
INVARIANTS
  TypeOK
  ParentExists
  HistoryAgrees
  TouchesOnlyFootprint
  HandlerInvariant
  ProgressInvariant
PROPERTIES
  HistoryKept
  ImplementsFileTree
