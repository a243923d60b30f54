-------------------------- MODULE AppReadDispatch --------------------------
(***************************************************************************)
(* The Response Dispatcher of src/src/route/app.rs (AppReadDispatch,      *)
(* lines 500-650): the consumer of the framed backend stream of one call. *)
(* It rebuilds an HTTP response from the first data frame (ResponseMeta)  *)
(* and the body frames that follow, and resolves the attempt's one-shot   *)
(* reply when the stream ends, fails, or the call is discarded.           *)
(*                                                                         *)
(* Data abstraction: a body is its length in bytes, an error message is   *)
(* MsgLen bytes long, response headers are the two names whose values any *)
(* property reads (Content-Length and the tracing header), a trace is a   *)
(* model value.                                                            *)
(***************************************************************************)
EXTENDS Integers, Sequences, SequencesExt

CONSTANTS
  Calls,           \* backend calls, one per attempt
  MetaCodes,       \* values of ResponseMeta.code (a u32) a backend may send
  MetaHeaderLists, \* ResponseMeta.headers: sequences of <<name, value>>
  ChunkLens,       \* byte lengths of body data frames
  MaxBody,         \* bound on the bytes buffered by one dispatcher
  MsgLen,          \* length of a rendered error message
  ProcessErrors,   \* errors the backend stream may end with (process Err arm)
  DiscardErrors,   \* errors a discarded call is reported with
  Methods,         \* HTTP methods of the proxied requests
  Traces           \* trace ids

ASSUME MaxBody \in Nat /\ MsgLen \in Nat \ {0}
ASSUME ChunkLens \subseteq Nat

VARIABLES
  disp,  \* disp[c]: the AppReadDispatch registered for call c
  chan,  \* chan[c]: the sender side of the attempt's one-shot reply
  rx     \* rx[c]: the receiver side ("none", "live", "done", "dropped")

(* 0x52ff, 0x54ff and 10: the error categories the code names.            *)
QueueCategory   == 21247
VicodynCategory == 21759
NetCategory     == 10

NoBody   == -1          \* body: None, no meta seen yet
NoLength == -1          \* no parseable Content-Length header
Absent   == "absent"    \* a header that is not set
NoErr    == [service |-> FALSE, category |-> -1, code |-> -1]
HeaderNames == {"content-length", "x-request-id"}
NoBodyStatuses == {204, 304}

(* One-shot channel states seen from the sender.                          *)
Empty    == [st |-> "empty"]
Canceled == [st |-> "canceled"]
ReplyNone == [st |-> "none"]
ReplySome(resp, size) == [st |-> "some", resp |-> resp, size |-> size]

(* A hyper Response as far as the properties tell responses apart. The   *)
(* origin records which branch of the code built it.                       *)
(* cl is the Content-Length header it declares, NoLength when none.       *)
Resp(status, xrid, bodyLen, genBy, origin, cl) ==
  [status |-> status, xrid |-> xrid, bodyLen |-> bodyLen,
   genBy |-> genBy, origin |-> origin, cl |-> cl]

(* Mutation: the u16 is taken as the status without the range check.    *)
StatusOfUnchecked(code) == code % 65536

(* StatusCode::try_from(meta.code as u16).unwrap_or(InternalServerError): *)
(* the u32 is truncated to 16 bits, then 100..599 is accepted.            *)
StatusOf(code) ==
  LET n == code % 65536 IN IF n >= 100 /\ n <= 599 THEN n ELSE 500

(* Headers::set_raw replaces whatever the header held before.             *)
SetRaw(h, pair) == [h EXCEPT ![pair[1]] = pair[2]]

(* The decimal header values the model uses, parsed.                     *)
Decimal == [v \in {"0", "5"} |-> IF v = "0" THEN 0 ELSE 5]

(* resp.headers().get::<ContentLength>(): the typed view of the raw value;*)
(* a value that does not parse reads as no header.                        *)
ContentLengthOf(h) ==
  IF h["content-length"] \in DOMAIN Decimal
  THEN Decimal[h["content-length"]] ELSE NoLength

(* Mutation: any 0x52ff error counts as queue full, whatever its code.   *)
IsQueueFullAnyCode(e) == e.service /\ e.category = QueueCategory

IsQueueFull(e) == e.service /\ e.category = QueueCategory /\ e.code = 1

(* drop(self.tx.send(v)): a send to a dropped receiver is lost.           *)
Send(c, v) ==
  chan' = [chan EXCEPT ![c] = IF rx[c] = "dropped" THEN @ ELSE v]

Open(c) == disp[c].st = "open"

(* The closure passed to service.call creates the dispatcher (l.387-393). *)
Register(c, method, trace) ==
  disp' = [disp EXCEPT ![c] =
            [st |-> "open", method |-> method, trace |-> trace,
             body |-> NoBody, code |-> 0, status |-> 200, err |-> NoErr,
             hdrs |-> [n \in HeaderNames |-> Absent]]]

(* Mutation: the body is sent whenever one was buffered, whatever the     *)
(* declared Content-Length.                                               *)
HasBodyIgnoresLength(d) == d.body > 0

(* Ok(None) arm, l.547-602: the stream closed.                            *)
HasBody(d) ==
  /\ d.body > 0
  /\ ContentLengthOf(d.hdrs) # 0
(* Mutation: a HEAD response reports the buffered size to the log.       *)
CloseReplyHeadCounted(d) ==
  IF d.body = NoBody
  THEN ReplySome(Resp(500, d.trace, MsgLen, FALSE, "close", NoLength), MsgLen)
  ELSE LET sent == IF \/ d.method = "HEAD"
                      \/ d.status \in NoBodyStatuses
                      \/ ~HasBody(d)
                   THEN 0 ELSE d.body
           size == IF d.method = "HEAD" THEN d.body ELSE sent
       IN ReplySome(Resp(d.status, d.hdrs["x-request-id"], sent, FALSE, "meta",
                         ContentLengthOf(d.hdrs)), size)
(* Mutation: the log gets the buffered size even when Content-Length: 0  *)
(* kept the body off the response.                                        *)
CloseReplyLengthIgnoredInSize(d) ==
  IF d.body = NoBody
  THEN ReplySome(Resp(500, d.trace, MsgLen, FALSE, "close", NoLength), MsgLen)
  ELSE LET noBody == d.method = "HEAD" \/ d.status \in NoBodyStatuses
           sent == IF noBody \/ ~HasBody(d) THEN 0 ELSE d.body
           size == IF noBody THEN 0 ELSE d.body
       IN ReplySome(Resp(d.status, d.hdrs["x-request-id"], sent, FALSE, "meta",
                         ContentLengthOf(d.hdrs)), size)
(* Mutation: 304 Not Modified missing from the no-body statuses.         *)
CloseReplyNotModifiedSent(d) ==
  IF d.body = NoBody
  THEN ReplySome(Resp(500, d.trace, MsgLen, FALSE, "close", NoLength), MsgLen)
  ELSE LET sent == IF \/ d.method = "HEAD"
                      \/ d.status = 204
                      \/ ~HasBody(d)
                   THEN 0 ELSE d.body
       IN ReplySome(Resp(d.status, d.hdrs["x-request-id"], sent, FALSE, "meta",
                         ContentLengthOf(d.hdrs)), sent)
CloseReply(d) ==
  IF d.body = NoBody
  THEN ReplySome(Resp(500, d.trace, MsgLen, FALSE, "close", NoLength), MsgLen)
  ELSE LET sent == IF \/ d.method = "HEAD"
                      \/ d.status \in NoBodyStatuses
                      \/ ~HasBody(d)
                   THEN 0 ELSE d.body
       IN ReplySome(Resp(d.status, d.hdrs["x-request-id"], sent, FALSE, "meta",
                         ContentLengthOf(d.hdrs)), sent)

(* Err(e) arms, l.605-626.                                                *)
ErrorReply(d, e) ==
  IF IsQueueFull(e) THEN ReplyNone
  ELSE ReplySome(Resp(500, d.trace, MsgLen,
                      e.service /\ e.category = VicodynCategory, "error", NoLength),
                 MsgLen)

(* discard, l.630-649.                                                    *)
DiscardReply(d, e) ==
  LET status == IF e.service /\ e.category = NetCategory /\ e.code = 1
                THEN 503 ELSE 500
  IN ReplySome(Resp(status, d.trace, MsgLen, FALSE, "discard", NoLength), MsgLen)

-----------------------------------------------------------------------------
(* Actions: one per arm of process and one for discard.                   *)

(* First data frame, decoded as ResponseMeta (l.513-539).                 *)
ProcessMeta(c, code, mh) ==
  /\ Open(c) /\ disp[c].body = NoBody
  /\ disp' = [disp EXCEPT ![c].status = StatusOf(code), ![c].code = code,
                          ![c].hdrs = FoldLeft(SetRaw,
                                         [@ EXCEPT !["x-request-id"] = disp[c].trace], mh),
                          ![c].body = 0]
  /\ UNCHANGED <<chan, rx>>

(* First data frame that does not decode as ResponseMeta (l.514-525).     *)
ProcessBadMeta(c) ==
  /\ Open(c) /\ disp[c].body = NoBody
  /\ Send(c, ReplySome(Resp(500, disp[c].trace, MsgLen, FALSE, "decode", NoLength), MsgLen))
  /\ disp' = [disp EXCEPT ![c].st = "closed"]
  /\ UNCHANGED rx

(* A later data frame is appended to the body (l.540-544).                *)
ProcessChunk(c, n) ==
  /\ Open(c) /\ disp[c].body # NoBody
  /\ disp[c].body + n <= MaxBody
  /\ disp' = [disp EXCEPT ![c].body = @ + n]
  /\ UNCHANGED <<chan, rx>>

ProcessClose(c) ==
  /\ Open(c)
  /\ Send(c, CloseReply(disp[c]))
  /\ disp' = [disp EXCEPT ![c].st = "closed"]
  /\ UNCHANGED rx

ProcessError(c, e) ==
  /\ Open(c)
  /\ Send(c, ErrorReply(disp[c], e))
  /\ disp' = [disp EXCEPT ![c].st = "closed", ![c].err = e]
  /\ UNCHANGED rx

(* Mutation: discard drops the sender without replying.                  *)
DiscardSilent(c, e) ==
  /\ Open(c)
  /\ Send(c, Canceled)
  /\ disp' = [disp EXCEPT ![c].st = "closed", ![c].err = e]
  /\ UNCHANGED rx

Discard(c, e) ==
  /\ Open(c)
  /\ Send(c, DiscardReply(disp[c], e))
  /\ disp' = [disp EXCEPT ![c].st = "closed", ![c].err = e]
  /\ UNCHANGED rx

(* Everything the backend side can do to call c.                          *)
Backend(c) ==
  \/ \E code \in MetaCodes, mh \in MetaHeaderLists : ProcessMeta(c, code, mh)
  \/ ProcessBadMeta(c)
  \/ \E n \in ChunkLens : ProcessChunk(c, n)
  \/ ProcessClose(c)
  \/ \E e \in ProcessErrors : ProcessError(c, e)
  \/ \E e \in DiscardErrors : Discard(c, e)

-----------------------------------------------------------------------------
(* The dispatcher on its own: every call has just been opened; the        *)
(* receiver may be dropped at any moment (timeout, client gone).          *)

dispatchVars == <<disp, chan, rx>>

ReceiverDropped(c) ==
  /\ rx[c] = "live"
  /\ rx' = [rx EXCEPT ![c] = "dropped"]
  /\ UNCHANGED <<disp, chan>>

DispatchInit ==
  /\ disp \in [Calls -> {[st |-> "open", method |-> m, trace |-> t,
                          body |-> NoBody, code |-> 0, status |-> 200, err |-> NoErr,
                          hdrs |-> [n \in HeaderNames |-> Absent]] :
                          m \in Methods, t \in Traces}]
  /\ chan = [c \in Calls |-> Empty]
  /\ rx = [c \in Calls |-> "live"]

DispatchNext == \E c \in Calls : Backend(c) \/ ReceiverDropped(c)

DispatchSpec == DispatchInit /\ [][DispatchNext]_dispatchVars

-----------------------------------------------------------------------------
(* Properties.                                                             *)

Replies ==
  {Empty, Canceled, ReplyNone} \cup
  [st : {"some"}, resp : [status : Nat, xrid : Traces \cup {Absent} \cup STRING,
                          bodyLen : Nat, genBy : BOOLEAN,
                          origin : {"close", "meta", "decode", "error", "discard"},
                          cl : {NoLength} \cup Nat],
                  size : Nat]

DispatchTypeOK ==
  /\ \A c \in Calls :
       /\ disp[c].st \in {"idle", "open", "closed"}
       /\ disp[c].st # "idle" =>
            /\ disp[c].method \in Methods
            /\ disp[c].body \in {NoBody} \cup 0..MaxBody
            /\ disp[c].status \in 100..599
  /\ chan \in [Calls -> Replies]
  /\ rx \in [Calls -> {"none", "live", "done", "dropped"}]

(* The one-shot reply of a call whose receiver is still there is resolved *)
(* exactly when its dispatcher has consumed the stream: process returns   *)
(* None, or discard runs, only after tx.send, and never sends again.      *)
ReplyExactlyOnce ==
  \A c \in Calls :
    rx[c] \in {"live", "done"} =>
      (disp[c].st = "closed" <=> chan[c].st \in {"some", "none"})

(* The no-body table of spec 4.3 (RFC 2616 section 4.4): a response built *)
(* from a backend stream to HEAD, with status 204 or 304, with nothing    *)
(* buffered, or whose meta headers declare Content-Length: 0 carries no   *)
(* body and reports 0 bytes to the access log, whatever the backend       *)
(* buffered; the declared length is read back from the headers the meta   *)
(* frames left on the response.                                           *)
BodylessResponsesCarryNoBody ==
  \A c \in Calls :
    /\ chan[c].st = "some"
    /\ chan[c].resp.origin = "meta"
    /\ \/ disp[c].method = "HEAD"
       \/ chan[c].resp.status \in NoBodyStatuses
       \/ disp[c].body = 0
       \/ chan[c].resp.cl = 0
    => chan[c].resp.bodyLen = 0 /\ chan[c].size = 0

(* The byte count every reply hands to the access log is the length of    *)
(* the body the response really carries.                                  *)
SizeIsBodySent ==
  \A c \in Calls :
    chan[c].st = "some" => chan[c].size = chan[c].resp.bodyLen

(* Spec 4.3: the status of a response built from ResponseMeta is         *)
(* meta.code, clamped to 500 when the code is not an HTTP status.         *)
MetaStatusFaithful ==
  \A c \in Calls :
    chan[c].st = "some" /\ chan[c].resp.origin = "meta" =>
      chan[c].resp.status =
        IF disp[c].code \in 100..599 THEN disp[c].code ELSE 500

(* Spec 8: a response carries X-Request-Id equal to the trace sent on the *)
(* wire.                                                                  *)
ResponseCarriesTrace ==
  \A c \in Calls :
    chan[c].st = "some" => chan[c].resp.xrid = disp[c].trace

=============================================================================
