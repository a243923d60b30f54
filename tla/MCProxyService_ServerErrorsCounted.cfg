\* Does the c5xx meter see every server error a client receives?
CONSTANTS
  r1 = r1
  k1 = k1
  Conns <- MCConns
  ConnOf <- MCConnOf
  t1 = t1
  s1 = s1
  s2 = s2
  s3 = s3
  Requests <- MCRequests
  Calls <- MCCalls
  RequestKinds <- MCRequestKinds
  Traces <- MCTraces
  Spans <- MCSpans
  Methods <- MCMethods
  MetaCodes <- MCMetaCodes
  MetaHeaderLists <- MCMetaHeaderLists
  ChunkLens <- MCChunkLens
  ProcessErrors <- MCProcessErrors
  DiscardErrors <- MCDiscardErrors
  Limit = 3
  MaxAttempts = 4
  MaxBody = 1
  MsgLen = 3
SPECIFICATION ProxySpec
CHECK_DEADLOCK FALSE
INVARIANT
  ServerErrorsCounted
