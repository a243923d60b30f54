---------------------------- MODULE MCWireCodec ----------------------------
EXTENDS WireCodec

(* Timeouts in seconds as n/d: whole seconds up to past the 16-bit range   *)
(* (65.535 s), milliseconds, half milliseconds, negatives, +inf, -inf and *)
(* NaN (d = 0).                                                            *)
MCTimeouts ==
  {[n |-> n, d |-> d] : n \in -2..70, d \in {1, 1000, 2000}}
    \cup {[n |-> n, d |-> 0] : n \in {-1, 0, 1}}
=============================================================================
