SPECIFICATION Spec
CONSTANTS
  Clients = {c1}
  Urls = {u}
  OkUrls = {u}
  NoUrl = NoUrl
  Malformed = Malformed
  Origin = Origin
  StatusLen = 1
  ReqLen = 1
  TermLen = 1
  BUF_SIZE = 2
  SndBuf = 1
  Descriptors = {1, 2}
  MaxMore = 0
  MaxBlocks = 1
  Surroundings <- GoodPeers
CHECK_DEADLOCK FALSE
INVARIANT CompleteIsWhole
