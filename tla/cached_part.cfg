SPECIFICATION Spec
CONSTANTS
  Clients = {c1, c2}
  Urls = {u}
  OkUrls = {u}
  NoUrl = NoUrl
  Malformed = Malformed
  Origin = Origin
  StatusLen = 1
  ReqLen = 1
  TermLen = 1
  BUF_SIZE = 2
  SndBuf = 1
  Descriptors = {1, 2, 3, 4}
  MaxMore = 0
  MaxBlocks = 0
  Surroundings <- GoodPeers
CHECK_DEADLOCK FALSE
INVARIANT CachedPartFlows
