SPECIFICATION Spec
CONSTANTS
  Clients = {c1, c2}
  Urls = {u, v}
  NoUrl = NoUrl
  BUF_SIZE = 3
  Bytes <- AllBytes
  Chunks <- Answers
  OK = OK
  NUL = NUL
  Behind <- SomethingBehind
  Messages <- Failures
  MaxEvents = 4
  MaxFetches = 2
INVARIANTS ToldItsAnswer OnlyALongerChunkShows
SYMMETRY Alike
CHECK_DEADLOCK FALSE
