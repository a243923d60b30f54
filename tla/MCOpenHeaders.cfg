\* The request_timeout codec and the header list of every attempt's open.
CONSTANTS
  Width = 16
  None = None
  Timeouts <- MCTimeouts
  t1 = t1
  s1 = s1
  s2 = s2
  Mapping <- MCMapping
  LineSeqs <- MCLineSeqs
  Traces = {t1}
  Spans = {s1, s2}
  Limit = 3
  Messages <- MCMessages
SPECIFICATION OpenSpec
\* After the last attempt's callback nothing is left to do.
CHECK_DEADLOCK FALSE
INVARIANTS
  RequestTimeoutIsFloorMillis
  OpenHeadersPerAttempt
  PayloadCarriesRequest
