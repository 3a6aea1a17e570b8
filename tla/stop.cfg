SPECIFICATION FairSpec
CONSTANTS
  getter = getter
  poster = poster
  other = other
  Clients = {getter, poster, other}
  Body <- MCBody
  DateAt = 2
  BufferSize = 4
  Mapped = 4
  Garbage <- CleanOnly
  Pieces = {0, 3, 5}
  MaxFds = 2
  Throwing = {getter}
  Impatient = {getter, poster, other}
  Reuse = TRUE
  Signals = TRUE
  Null = Null
INVARIANTS
  TypeOK
  SocketsKnown
  NothingStartsAfterStop
  ServerInvariant
PROPERTY StopsWhenTold
CHECK_DEADLOCK FALSE
