---------------------------- MODULE OpenHeaders ----------------------------
(***************************************************************************)
(* The header list every attempt opens its backend call with              *)
(* (src/src/route/app.rs). invoke maps the request's headers once          *)
(* (map_headers, l.113-127, called at l.150); AppWithSafeRetry::new       *)
(* appends TraceId, SpanId and ParentId to them once (make_headers,       *)
(* l.336-348); make_future clones that list into each attempt's callback  *)
(* (l.356), and the callback clones it again and appends TraceBit when    *)
(* the verbose latch is set and request_timeout when the pool's Settings  *)
(* carry a timeout (l.367-382), the latter packed as in module WireCodec. *)
(*                                                                         *)
(* A header is <<name, value>>; a request header value is a sequence of   *)
(* bytes. Names are compared exactly (hyper compares them ignoring case). *)
(* The Manual sampling draw only forces settings.verbose, so `verbose`    *)
(* ranges over both values.                                               *)
(*                                                                         *)
(* The payload each attempt sends after the open (l.393-395) is the       *)
(* request's RequestMeta, built by AppRequest::new before the body is     *)
(* read (l.151, l.263-292) and completed by set_body once concat2 has the *)
(* whole body (l.157-158); every attempt serializes that one shared frame. *)
(* method and uri are serialized as they are (RouteParams checks the uri).*)
(***************************************************************************)
EXTENDS WireCodec, FiniteSets

CONSTANTS
  Mapping,    \* AppRoute.headers: configured HTTP name -> backend name
  LineSeqs,   \* request header lines <<name, value>> hyper may hand over
  Traces,     \* AppRequest.trace values
  Spans,      \* SpanId values drawn by make_headers
  Limit,      \* the retry limit (3)
  Messages    \* <<HttpVersion, body bytes>> of the requests hyper hands over

(* The names of the tracing headers of cocaine's hpack module.             *)
TracingNames == {"trace_id", "span_id", "parent_id", "trace_bit", "request_timeout"}

ASSUME \A n \in DOMAIN Mapping : Mapping[n] \notin TracingNames

VARIABLES
  lines,      \* the request's header lines
  trace,      \* AppRequest.trace
  base,       \* AppWithSafeRetry.headers
  latch,      \* the verbose AtomicBool
  attempts,   \* AppWithSafeRetry.attempts
  invoked,    \* how many attempts' callbacks the pool has run
  sent,       \* the header list the latest callback opened its call with
  version,    \* the request's HTTP version
  body,       \* the body the client sends
  mapped,     \* the headers map_headers produced, kept for AppWithSafeRetry::new
  frame,      \* AppRequest.frame
  payload     \* the RequestMeta the latest callback sent after its open

ohVars == <<lines, trace, base, latch, attempts, invoked, sent, timeout, header,
            version, body, mapped, frame, payload>>
frameVars == <<version, body, mapped, frame, payload>>

Present(ls) == {ls[i][1] : i \in DOMAIN ls}

(* Mutation: get_raw's first line only, the other values dropped.         *)
RawValueFirstLine(ls, n) ==
  LET at == {i \in DOMAIN ls : ls[i][1] = n}
  IN  ls[CHOOSE i \in at : \A j \in at : i <= j][2]

(* headers.get_raw(name) and the fold that extends one Vec with every     *)
(* value of the header, in order (l.116-120).                             *)
RawValue(ls, n) ==
  FoldLeft(LAMBDA acc, l : IF l[1] = n THEN acc \o l[2] ELSE acc, <<>>, ls)

(* map_headers: one header per configured name the request carries, in   *)
(* the HashMap's iteration order, which the code does not fix.            *)
MappedOrders(ls) ==
  { [i \in DOMAIN o |-> <<Mapping[o[i]], RawValue(ls, o[i])>>] :
      o \in SetToSeqs(DOMAIN Mapping \cap Present(ls)) }

(* make_headers: the three tracing headers pushed after the mapped ones.  *)
MakeHeaders(hs, t, s) ==
  hs \o << <<"trace_id", t>>, <<"span_id", s>>, <<"parent_id", t>> >>

(* The names of a request's headers once each, in the order hyper's     *)
(* Headers (a vector map) first stored them.                               *)
HeaderNames(ls) ==
  FoldLeft(LAMBDA acc, l : IF Contains(acc, l[1]) THEN acc ELSE Append(acc, l[1]),
           <<>>, ls)

(* AppRequest::new (l.263-292): every request header, its raw values      *)
(* joined (l.267-273), the version, and an empty body.                    *)
AppRequestNew(ls, v) ==
  LET ns == HeaderNames(ls)
  IN  [version |-> v,
       headers |-> [i \in DOMAIN ns |-> <<ns[i], RawValue(ls, ns[i])>>],
       body    |-> <<>>]

(* serialize_version (l.229-240): only Http11 is "1.1".                    *)
SerializeVersion(v) == IF v = "Http11" THEN "1.1" ELSE "1.0"

(* serialize::to_vec of RequestMeta (l.207-247, l.394): the version as   *)
(* its string, the body's bytes as they are (from_utf8_unchecked).        *)
Serialize(f) == [f EXCEPT !.version = SerializeVersion(f.version)]

(* invoke up to the body read: map_headers and AppRequest::new           *)
(* (l.150-151); base is empty until AppWithSafeRetry::new has run.        *)
OpenInit ==
  /\ lines \in LineSeqs
  /\ trace \in Traces
  /\ \E m \in Messages : version = m[1] /\ body = m[2]
  /\ mapped \in MappedOrders(lines)
  /\ frame = AppRequestNew(lines, version)
  /\ base = <<>> /\ payload = <<>>
  /\ latch = FALSE /\ attempts = 1 /\ invoked = 0 /\ sent = <<>>
  /\ timeout = None /\ header = None

(* Mutation: the body is handed on without set_body.                     *)
BodyReadNoSetBody ==
  /\ base = <<>>
  /\ \E s \in Spans : base' = MakeHeaders(mapped, trace, s)
  /\ UNCHANGED <<lines, trace, latch, attempts, invoked, sent, timeout, header,
                 version, body, mapped, frame, payload>>

(* concat2's and_then (l.157-158): set_body with the whole body, then     *)
(* AppWithSafeRetry::new runs make_headers on the mapped headers.         *)
BodyRead ==
  /\ base = <<>>
  /\ frame' = [frame EXCEPT !.body = body]
  /\ \E s \in Spans : base' = MakeHeaders(mapped, trace, s)
  /\ UNCHANGED <<lines, trace, latch, attempts, invoked, sent, timeout, header,
                 version, body, mapped, payload>>

(* The callback of the current attempt, run by the pool with Settings     *)
(* (timeout t, verbose v). The attempt captured self.attempts when        *)
(* make_future ran, before the retry's increment.                          *)
Invoke(t, v) ==
  LET label   == IF attempts = 1 THEN 1 ELSE attempts - 1
      latched == latch \/ (v /\ label = 1)
  IN
  /\ base # <<>> /\ invoked < attempts
  /\ Callback(t)
  /\ latch' = latched
  /\ sent' = base \o (IF latched THEN << <<"trace_bit", TRUE>> >> ELSE <<>>)
                  \o (IF t = None THEN <<>> ELSE << <<"request_timeout", header'>> >>)
  /\ invoked' = invoked + 1
  /\ payload' = Serialize(frame)
  /\ UNCHANGED <<lines, trace, base, attempts, version, body, mapped, frame>>

(* Mutation: each retry runs make_headers again on the kept list.         *)
RetryRemakeHeaders ==
  /\ invoked = attempts /\ attempts < Limit
  /\ \E s \in Spans : base' = MakeHeaders(base, trace, s)
  /\ attempts' = attempts + 1
  /\ UNCHANGED <<lines, trace, latch, invoked, sent, timeout, header>>
  /\ UNCHANGED frameVars

(* poll's Ready(None) under the limit: make_future, then attempts += 1;   *)
(* AppWithSafeRetry.headers is only cloned.                                *)
Retry ==
  /\ invoked = attempts /\ attempts < Limit
  /\ attempts' = attempts + 1
  /\ UNCHANGED <<lines, trace, base, latch, invoked, sent, timeout, header>>
  /\ UNCHANGED frameVars

OpenNext ==
  \/ BodyRead
  \/ \E t \in Timeouts \cup {None}, v \in BOOLEAN : Invoke(t, v)
  \/ Retry

OpenSpec == OpenInit /\ [][OpenNext]_ohVars

-----------------------------------------------------------------------------
(* How often a header name occurs in a list.                               *)
Occurrences(hs, n) == Len(SelectSeq(hs, LAMBDA h : h[1] = n))

(* Spec 4.1: the values of a request header, concatenated in order.       *)
Concatenated(ls, n) ==
  LET named == SelectSeq(ls, LAMBDA l : l[1] = n)
  IN  FlattenSeq([i \in DOMAIN named |-> named[i][2]])

(* Spec 4.1 and the wire contract of section 8, for every attempt, the    *)
(* retries included: the call is opened with one header per configured    *)
(* request header present, named as mapped and carrying all its values    *)
(* in order, and nothing else of the request; exactly one TraceId and one *)
(* ParentId, both the request's trace, and one SpanId; TraceBit exactly   *)
(* when the latch is set; request_timeout exactly when the pool gave a     *)
(* timeout, with the value the codec packed.                               *)
OpenHeadersPerAttempt ==
  invoked > 0 =>
    LET user == {i \in DOMAIN sent : sent[i][1] \notin TracingNames}
        want == DOMAIN Mapping \cap Present(lines)
    IN
    /\ {sent[i] : i \in user} =
         {<<Mapping[n], Concatenated(lines, n)>> : n \in want}
    /\ Cardinality(user) = Cardinality(want)
    /\ \A n \in {"trace_id", "span_id", "parent_id"} : Occurrences(sent, n) = 1
    /\ \A i \in DOMAIN sent : sent[i][1] \in {"trace_id", "parent_id"} => sent[i][2] = trace
    /\ Occurrences(sent, "trace_bit") = IF latch THEN 1 ELSE 0
    /\ Occurrences(sent, "request_timeout") = IF timeout = None THEN 0 ELSE 1
    /\ \A i \in DOMAIN sent : sent[i][1] = "request_timeout" => sent[i][2] = header

(* Spec 3, 4.3 and 8 (Http10 <-> "1.0", Http11 <-> "1.1"): every attempt, *)
(* the retries included, sends after its open the RequestMeta of the      *)
(* request: the version's string, the whole body the client sent (not the *)
(* empty body AppRequest::new started with), and every request header     *)
(* once, with all its values in order, in the order the request first     *)
(* carried them.                                                           *)
PayloadCarriesRequest ==
  invoked > 0 =>
    LET hs    == payload.headers
        first(n) == SelectInSeq(lines, LAMBDA l : l[1] = n)
    IN
    /\ payload.version = [Http10 |-> "1.0", Http11 |-> "1.1"][version]
    /\ payload.body = body
    /\ {hs[i] : i \in DOMAIN hs} = {<<n, Concatenated(lines, n)>> : n \in Present(lines)}
    /\ Len(hs) = Cardinality(Present(lines))
    /\ \A i, j \in DOMAIN hs : i < j => first(hs[i][1]) < first(hs[j][1])
=============================================================================
