SPECIFICATION FairSpec
CONSTANTS
  getter = getter
  poster = poster
  other = other
  Clients = {getter, poster, other}
  Body <- MCBody
  DateAt = 2
  BufferSize = 6
  Mapped = 6
  Garbage <- CleanOnly
  Pieces = {0, 3, 5}
  MaxFds = 3
  Throwing = {}
  Impatient = {poster}
  Reuse = TRUE
  Signals = FALSE
  Null = Null
INVARIANT OwnBody
CHECK_DEADLOCK FALSE
