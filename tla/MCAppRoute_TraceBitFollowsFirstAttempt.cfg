\* The request path end to end: retries, access log, deadline.
CONSTANTS
  r1 = r1
  t1 = t1
  s1 = s1
  s2 = s2
  s3 = s3
  Requests <- MCRequests
  Calls <- MCCalls
  RequestKinds <- MCRequestKinds
  Traces <- MCTraces
  Spans <- MCSpans
  Methods <- MCMethods
  MetaCodes <- MCMetaCodes
  MetaHeaderLists <- MCMetaHeaderLists
  ChunkLens <- MCChunkLens
  ProcessErrors <- MCProcessErrors
  DiscardErrors <- MCDiscardErrors
  Limit = 3
  MaxAttempts = 4
  MaxBody = 1
  MsgLen = 3
SPECIFICATION Spec
\* All requests answered and every backend stream ended: the worker idles.
CHECK_DEADLOCK FALSE
INVARIANT
  TraceBitFollowsFirstAttempt
