SPECIFICATION Spec
CONSTANTS
  Clients = {c1, c2}
  Urls = {u}
  OkUrls = {u}
  NoUrl = NoUrl
  Malformed = Malformed
  Origin = Origin
  StatusLen = 1
  ReqLen = 1
  TermLen = 1
  BUF_SIZE = 2
  SndBuf = 2
  Descriptors = {1, 2, 3, 4}
  MaxMore = 1
  MaxBlocks = 0
  Surroundings <- BadPeers
CHECK_DEADLOCK FALSE
SYMMETRY Symmetry
INVARIANTS TypeOK KeyedByLiveClients NothingElseOpen NoLostWakeup
PROPERTY KeepsTable
