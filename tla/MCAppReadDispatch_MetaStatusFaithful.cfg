\* The dispatcher alone: every property of a single call's stream.
CONSTANTS
  c1 = c1
  t1 = t1
  Calls <- MCCalls
  Traces <- MCTraces
  Methods <- MCMethods
  MetaCodes <- MCMetaCodes
  MetaHeaderLists <- MCMetaHeaderLists
  ProcessErrors <- MCProcessErrors
  DiscardErrors <- MCDiscardErrors
  ChunkLens <- MCChunkLens
  MaxBody = 2
  MsgLen = 3
SPECIFICATION DispatchSpec
\* Every call's stream ends: the dispatcher really stops.
CHECK_DEADLOCK FALSE
INVARIANT
  MetaStatusFaithful
