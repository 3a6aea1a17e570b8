SPECIFICATION FairSpec
CONSTANTS
  getter = getter
  poster = poster
  other = other
  Clients = {getter, poster, other}
  Body <- MCBody
  DateAt = 2
  BufferSize = 4
  Mapped = 5
  Garbage <- SomeGarbage
  Pieces = {0, 3, 5}
  MaxFds = 3
  Throwing = {}
  Impatient = {}
  Reuse = TRUE
  Signals = FALSE
  Null = Null
INVARIANTS
  ValidNotRefused
  RunsUntilTold
PROPERTY Answered
CHECK_DEADLOCK FALSE
