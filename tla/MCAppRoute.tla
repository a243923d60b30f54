----------------------------- MODULE MCAppRoute -----------------------------
(* AppRoute for TLC: one request at a time through routing, the body     *)
(* read, up to Limit attempts through the pool and the dispatcher, and   *)
(* the deadline.                                                          *)
EXTENDS AppRoute

CONSTANTS r1, t1, s1, s2, s3

MCRequests == {r1}
MCCalls == MCRequests \X (1..4)
MCTraces == {t1}
MCSpans == {s1}
(* Enough distinct span ids for every attempt to draw a fresh one. *)
MCAllSpans == {s1, s2, s3}
MCMethods == {"GET", "HEAD"}

(* Every routing outcome, every tracing-header case, both policies.      *)
MCRequestKinds ==
  [route : {"matched"}, tracing : {"absent", "invalid"},
   policy : {"auto", "manual"}, method : MCMethods]
  \cup {[route |-> "incomplete", tracing |-> "absent", policy |-> "auto",
         method |-> "GET"]}

MCMetaCodes == {200}
MCMetaHeaderLists == { <<>> }
MCChunkLens == {1}

Err(svc, cat, code) == [service |-> svc, category |-> cat, code |-> code]
(* Queue full (the safe failure), another queue error, a gateway error.  *)
MCProcessErrors ==
  { Err(TRUE, QueueCategory, 1), Err(TRUE, QueueCategory, 2),
    Err(TRUE, VicodynCategory, 3) }
MCDiscardErrors == { Err(TRUE, NetCategory, 1) }
=============================================================================
