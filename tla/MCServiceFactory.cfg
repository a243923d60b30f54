\* Three worker threads; the iterator yields three pairs (as configured)
\* or a single one (threads outnumber pairs).
CONSTANTS
  w1 = w1
  w2 = w2
  w3 = w3
  NoOne = NoOne
  Workers <- MCWorkers
  PairCounts = {1, 3}
SPECIFICATION Spec
\* Start-up ends once every worker serves or has panicked.
CHECK_DEADLOCK FALSE
INVARIANTS
  TypeOK
PROPERTIES
  EveryWorkerServes
