SPECIFICATION FairReadSpec
CONSTANTS
  a = a
  b = b
  c = c
  Null = Null
  NoRow = NoRow
  BadDate = BadDate
  Ids <- MCIds
  Dates = {1, 2, 3}
  Odd = {3}
  Quoted = Quoted
  Day = 1
  NTHREADS = 2
  MaxInt = 20
  MaxDepth = 3
  MaxRequests = 3
  Requests <- MCRequests
  Queries <- MCQueries
INVARIANTS
  ReadTypeOK
  NodesAnswer
  WalkInvariant
  UpdatesInHistory
  HistoryShowsItem
  DepthFaults
PROPERTY QueryAnswered
