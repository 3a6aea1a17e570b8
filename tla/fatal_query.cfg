SPECIFICATION FairReadSpec
CONSTANTS
  a = a
  b = b
  c = c
  Null = Null
  NoRow = NoRow
  BadDate = BadDate
  Ids <- MCIds
  Dates = {1, 2, 3}
  Odd = {3}
  Quoted = Quoted
  Day = 1
  NTHREADS = 4
  MaxInt = 20
  MaxDepth = 3
  MaxRequests = 3
  Requests <- FatalRequests
  Queries <- FatalQueries
INVARIANT QueriesSurvive
