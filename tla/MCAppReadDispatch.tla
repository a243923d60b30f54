------------------------ MODULE MCAppReadDispatch ------------------------
(* Model of AppReadDispatch for TLC: one call (calls share no state), every kind of  *)
(* frame and error the code distinguishes.                                *)
EXTENDS AppReadDispatch

CONSTANTS c1, t1

MCCalls  == {c1}
MCTraces == {t1}
MCMethods == {"GET", "HEAD"}

(* 65736 = 200 + 2^16 exercises the u32 -> u16 truncation; 1000 is no    *)
(* HTTP status at all.                                                    *)
MCMetaCodes == {200, 204, 304, 1000, 65736}

MCMetaHeaderLists ==
  { <<>>,
    << <<"content-length", "0">> >>,
    << <<"content-length", "x">> >>,
    << <<"content-length", "5">> >>,
    << <<"content-length", "5">>, <<"content-length", "0">> >>,
    << <<"x-request-id", "r">> >> }

Err(svc, cat, code) == [service |-> svc, category |-> cat, code |-> code]

(* (0x52ff,1) queue full, (0x52ff,2) another queue error, (0x54ff,3)     *)
(* gateway error, (1,1) a service error, and a non-service error.         *)
MCProcessErrors ==
  { Err(TRUE, QueueCategory, 1), Err(TRUE, QueueCategory, 2),
    Err(TRUE, VicodynCategory, 3), Err(TRUE, 1, 1), Err(FALSE, 0, 0) }

(* (10,1) service unavailable, (10,2) and a non-service error.            *)
MCDiscardErrors ==
  { Err(TRUE, NetCategory, 1), Err(TRUE, NetCategory, 2), Err(FALSE, 0, 0) }

MCChunkLens == {0, 1}
=============================================================================
