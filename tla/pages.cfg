SPECIFICATION Spec
CONSTANTS
  Clients = {c1, c2}
  Urls = {u, v}
  OkUrls = {u}
  NoUrl = NoUrl
  Malformed = Malformed
  Origin = Origin
  StatusLen = 2
  ReqLen = 2
  TermLen = 2
  BUF_SIZE = 2
  SndBuf = 1
  Descriptors = {1, 2, 3, 4}
  MaxMore = 1
  MaxBlocks = 0
  Surroundings <- SomePeers
CHECK_DEADLOCK FALSE
SYMMETRY Symmetry
INVARIANTS EachFetchStoredInOrder SentIsCachePrefix CompleteIsWhole WaitsForSomebody ErrorComesAlone CachedPagesAreOk SoleFetchHasItsRequest OnlyOwnPage
PROPERTIES WholeNodeIsFinal KeepsEachPromise
