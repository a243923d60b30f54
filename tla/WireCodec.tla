----------------------------- MODULE WireCodec -----------------------------
(***************************************************************************)
(* The `request_timeout` header an attempt's callback adds when the pool  *)
(* hands it Settings with a timeout (src/src/route/app.rs 380-382):       *)
(*                                                                         *)
(*     pack_u64((timeout * 1000.0) as u64)                                 *)
(*                                                                         *)
(* `timeout` is an f64 number of seconds. It is modelled as a rational     *)
(* n/d; d = 0 stands for the non-finite values (+inf for n > 0, -inf for   *)
(* n < 0, NaN for n = 0). `as u64` is Rust's saturating float-to-int cast: *)
(* it truncates toward zero, maps NaN and negatives to 0 and clamps at     *)
(* the top of the range. pack_u64 writes the value little-endian into     *)
(* Width/8 bytes (LittleEndian::write_u64). The rounding of the f64       *)
(* product itself is not modelled: n*1000/d is exact.                      *)
(*                                                                         *)
(* Width is 64 in the code. TLC's integers are 32-bit, so the model is    *)
(* checked with a narrower Width, which keeps saturation reachable.        *)
(***************************************************************************)
EXTENDS Integers, Sequences, SequencesExt

CONSTANTS
  Width,      \* bits of the packed integer (64 in the code)
  Timeouts,   \* settings.timeout values as [n, d] records
  None        \* settings.timeout = None

ASSUME Width \in {8, 16, 24} /\ None \notin Timeouts

Bytes == Width \div 8
MaxU  == 2^Width - 1

VARIABLES
  timeout,    \* settings.timeout of the last callback
  header      \* the request_timeout value it pushed, or None

vars == <<timeout, header>>

(* The f64 `timeout * 1000.0` followed by `as u64`.                        *)
AsU64Millis(t) ==
  CASE t.d = 0            -> IF t.n > 0 THEN MaxU ELSE 0
    [] t.n <= 0           -> 0
    [] OTHER              -> LET ms == (t.n * 1000) \div t.d
                             IN  IF ms > MaxU THEN MaxU ELSE ms

(* pack_u64: k bytes of v, least significant first.                        *)
RECURSIVE PackLE(_, _)
PackLE(v, k) ==
  IF k = 0 THEN <<>> ELSE <<v % 256>> \o PackLE(v \div 256, k - 1)

(* pack_u64 writing the bytes most significant first.                      *)
RECURSIVE PackBE(_, _)
PackBE(v, k) ==
  IF k = 0 THEN <<>> ELSE PackBE(v \div 256, k - 1) \o <<v % 256>>

pack_u64BigEndian(v) == PackBE(v, Bytes)

pack_u64(v) == PackLE(v, Bytes)

(* The part of the callback that reads settings.timeout.                   *)
Callback(t) ==
  /\ timeout' = t
  /\ header'  = IF t = None THEN None ELSE pack_u64(AsU64Millis(t))

Init == timeout = None /\ header = None

(* Each attempt's callback runs with the Settings the pool chose.          *)
Next == \E t \in Timeouts \cup {None} : Callback(t)

Spec == Init /\ [][Next]_vars

-----------------------------------------------------------------------------
(* Reference definitions, independent of the code.                         *)

(* The value a backend reads from the header, as little-endian u64.       *)
DecodeLE(bs) == FoldRight(LAMBDA b, acc : b + 256 * acc, bs, 0)

Finite(t) == t.d # 0

(* floor(timeout * 1000), spec section 4.1.                                *)
FloorMillis(t) == (t.n * 1000) \div t.d

Byte == 0..255

(* The request_timeout header is exactly Width/8 bytes and decodes, as a  *)
(* little-endian integer, to floor(timeout * 1000) milliseconds wherever  *)
(* that fits the integer; a timeout beyond the range, or +inf, is sent as *)
(* the largest value and a negative or NaN one as 0 (never a wrapped     *)
(* value). Covers pack_u64 and the cast at app.rs 381.                     *)
RequestTimeoutIsFloorMillis ==
  timeout # None =>
    /\ Len(header) = Bytes
    /\ \A i \in 1..Bytes : header[i] \in Byte
    /\ DecodeLE(header) =
         CASE ~Finite(timeout)          -> IF timeout.n > 0 THEN MaxU ELSE 0
           [] timeout.n < 0             -> 0
           [] FloorMillis(timeout) > MaxU -> MaxU
           [] OTHER                     -> FloorMillis(timeout)

====
