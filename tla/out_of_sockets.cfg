SPECIFICATION FairSpec
CONSTANTS
  getter = getter
  poster = poster
  other = other
  Clients = {getter, poster, other}
  Body <- MCBody
  DateAt = 2
  BufferSize = 6
  Mapped = 6
  Garbage <- CleanOnly
  Pieces = {0, 3, 5}
  MaxFds = 2
  Throwing = {}
  Impatient = {}
  Reuse = FALSE
  Signals = FALSE
  Null = Null
PROPERTY Answered
CHECK_DEADLOCK FALSE
