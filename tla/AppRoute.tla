------------------------------ MODULE AppRoute ------------------------------
(***************************************************************************)
(* The request path of src/src/route/app.rs on one worker: AppRoute       *)
(* (process, invoke), the safe-retry future AppWithSafeRetry (new,        *)
(* make_future, poll), the callback each attempt posts to the pool, the   *)
(* Response Dispatcher of every attempt (module AppReadDispatch) and the  *)
(* TimeoutMiddleware of src/src/service/cocaine.rs racing the whole of it *)
(* against a deadline.                                                    *)
(*                                                                         *)
(* The pool (crate::pool, not under src/) is modelled from the spec: it   *)
(* takes events from its channel in order and either invokes the          *)
(* callback with the Settings of some service or drops it. Neither the    *)
(* pool nor the backend is fair: the pool may never dispatch and a        *)
(* backend may never answer; the deadline timer and the executor are.     *)
(***************************************************************************)
EXTENDS AppReadDispatch, FiniteSets

CONSTANTS
  Requests,        \* HTTP requests accepted by this worker
  RequestKinds,    \* what each request carries (route, tracing header, ...)
  Limit,           \* the retry limit passed to AppWithSafeRetry::new (3)
  MaxAttempts,     \* call slots per request; > Limit so an excess is visible
  Spans            \* 64-bit span ids

ASSUME Limit \in Nat \ {0} /\ MaxAttempts \in Nat /\ MaxAttempts > Limit

(* Attempt k of request r is the backend call <<r, k>>.                    *)
ASSUME Calls = Requests \X (1..MaxAttempts)

VARIABLES
  req,       \* req[r]: the incoming request, fixed at Init
  phase,     \* phase[r]: "new", "reading" (body), "running" (retry SM), "answered"
  trace,     \* trace[r]: AppRequest.trace
  attempts,  \* attempts[r]: AppWithSafeRetry.attempts
  latch,     \* latch[r]: the shared verbose AtomicBool
  span,      \* span[r]: the SpanId in AppWithSafeRetry.headers
  manual,    \* manual[c]: manual_verbose captured by attempt c's callback
  label,     \* label[c]: the `attempt` captured by attempt c's callback
  poolq,     \* the worker's pool channel (UnboundedSender<Event>)
  wire,      \* wire[c]: the headers attempt c opened its backend call with
  resp,      \* resp[r]: the HTTP response the client received
  log        \* log[r]: the AccessLogger commits of request r

vars == <<req, phase, trace, attempts, latch, span, manual, label, poolq,
          wire, resp, log, disp, chan, rx>>

NoWire == [sent |-> FALSE]
NoResp == [status |-> 0]

(* Byte lengths of the fixed bodies the code renders.                     *)
CanceledBody    == 8   \* "canceled"
RetryLimitBody  == 35  \* "Retry limit exceeded: queue is full"
TimedOutBody    == 53  \* "Timed out while waiting for response from the Cocaine"

(* Error::code (l.463-471): the status each route error is rendered with.*)
ErrorCode ==
  [e \in {"IncompleteHeadersMatch", "InvalidRequestIdHeader", "InvalidBodyRead",
          "Canceled"} |->
     IF e \in {"IncompleteHeadersMatch", "InvalidRequestIdHeader"} THEN 400 ELSE 500]

Answer(r, rsp) ==
  /\ phase' = [phase EXCEPT ![r] = "answered"]
  /\ resp' = [resp EXCEPT ![r] = rsp]

(* The .then closure of invoke (l.160-174): annotate and commit the log.  *)
Commit(r, status, bytes, failed) ==
  log' = [log EXCEPT ![r] = Append(@, [status |-> status, bytes |-> bytes,
                                       err |-> failed])]

(* make_future (l.351-412): a fresh one-shot, the Manual(p) draw, the     *)
(* attempt number as it is when the future is made, the event posted.     *)
ManualDraws(r) ==
  IF req[r].policy = "auto" THEN {"none"} ELSE {"sampled", "unsampled"}
MakeFuture(r, k, lab) ==
  LET c == <<r, k>> IN
  /\ \E m \in ManualDraws(r) : manual' = [manual EXCEPT ![c] = m]
  /\ label' = [label EXCEPT ![c] = lab]
  /\ chan' = [chan EXCEPT ![c] = Empty]
  /\ poolq' = Append(poolq, c)

(* Mutation: the guard admits one attempt more than the limit.           *)
CanRetryInclusive(r) == attempts[r] <= Limit
(* Mutation: the guard gives up one attempt early.                        *)
CanRetryEarly(r) == attempts[r] < Limit - 1

(* poll's retry guard (l.425).                                             *)
CanRetry(r) == attempts[r] < Limit

Current(r) == <<r, attempts[r]>>

-----------------------------------------------------------------------------
(* AppRoute::process / extract_parameters: exactly one of the two routing  *)
(* headers is present (l.93, l.196-201).                                  *)
ProcessIncomplete(r) ==
  /\ phase[r] = "new" /\ req[r].route = "incomplete"
  /\ Answer(r, Resp(ErrorCode["IncompleteHeadersMatch"], Absent, MsgLen, FALSE, "route",
                      NoLength))
  /\ UNCHANGED <<req, trace, attempts, latch, span, manual, label, poolq,
                 wire, log, disp, chan, rx>>

(* invoke with a tracing header that does not parse (l.131-138): the      *)
(* error is returned before the access logger exists.                     *)
InvokeInvalidTrace(r) ==
  /\ phase[r] = "new" /\ req[r].route = "matched" /\ req[r].tracing = "invalid"
  /\ Answer(r, Resp(ErrorCode["InvalidRequestIdHeader"], Absent, MsgLen, FALSE,
                      "tracing", NoLength))
  /\ UNCHANGED <<req, trace, attempts, latch, span, manual, label, poolq,
                 wire, log, disp, chan, rx>>

(* invoke (l.128-176) up to the body read: the trace from the header or  *)
(* rand::random, the logger, the AppRequest; the deadline starts too.     *)
Invoke(r) ==
  /\ phase[r] = "new" /\ req[r].route = "matched" /\ req[r].tracing # "invalid"
  /\ \E t \in (IF req[r].tracing = "absent" THEN Traces ELSE {req[r].tracing}) :
       trace' = [trace EXCEPT ![r] = t]
  /\ phase' = [phase EXCEPT ![r] = "reading"]
  /\ UNCHANGED <<req, attempts, latch, span, manual, label, poolq, wire,
                 resp, log, disp, chan, rx>>

(* The body arrived: AppWithSafeRetry::new (l.317-334) with make_headers  *)
(* (one SpanId) and the first make_future, with attempts = 1.             *)
BodyRead(r) ==
  /\ phase[r] = "reading"
  /\ \E s \in Spans : span' = [span EXCEPT ![r] = s]
  /\ attempts' = [attempts EXCEPT ![r] = 1]
  /\ latch' = [latch EXCEPT ![r] = FALSE]
  /\ MakeFuture(r, 1, 1)
  /\ rx' = [rx EXCEPT ![<<r, 1>>] = "live"]
  /\ phase' = [phase EXCEPT ![r] = "running"]
  /\ UNCHANGED <<req, trace, wire, resp, log, disp>>

(* concat2 failed: InvalidBodyRead, logged as 500 and rendered (l.155,    *)
(* l.169-172, l.186-192).                                                 *)
BodyReadFailed(r) ==
  /\ phase[r] = "reading"
  /\ Commit(r, 500, 0, TRUE)
  /\ Answer(r, Resp(ErrorCode["InvalidBodyRead"], Absent, MsgLen, FALSE, "body",
                    NoLength))
  /\ UNCHANGED <<req, trace, attempts, latch, span, manual, label, poolq,
                 wire, disp, chan, rx>>

-----------------------------------------------------------------------------
(* AppWithSafeRetry::poll (l.419-447), woken by the current attempt's     *)
(* one-shot.                                                              *)

(* Ready(Some((res, bytes))): done; invoke's closure annotates and logs.  *)
AttemptCompleted(r) ==
  LET c == Current(r) IN
  /\ phase[r] = "running" /\ rx[c] = "live" /\ chan[c].st = "some"
  /\ rx' = [rx EXCEPT ![c] = "done"]
  /\ Commit(r, chan[c].resp.status, chan[c].size, FALSE)
  /\ Answer(r, chan[c].resp)
  /\ UNCHANGED <<req, trace, attempts, latch, span, manual, label, poolq,
                 wire, disp, chan>>

(* Ready(None) under the limit: make_future, then attempts += 1 (l.426-  *)
(* 427), so the new attempt captures the old count.                        *)
AttemptRetried(r) ==
  LET c == Current(r) IN
  /\ phase[r] = "running" /\ rx[c] = "live" /\ chan[c].st = "none"
  /\ CanRetry(r)
  /\ MakeFuture(r, attempts[r] + 1, attempts[r])
  /\ rx' = [rx EXCEPT ![c] = "done", ![<<r, attempts[r] + 1>>] = "live"]
  /\ attempts' = [attempts EXCEPT ![r] = @ + 1]
  /\ UNCHANGED <<req, phase, trace, latch, span, wire, resp, log, disp>>

(* Ready(None) at the limit: the synthesized 500 (l.430-436).             *)
RetryLimitExceeded(r) ==
  LET c == Current(r) IN
  /\ phase[r] = "running" /\ rx[c] = "live" /\ chan[c].st = "none"
  /\ ~CanRetry(r)
  /\ rx' = [rx EXCEPT ![c] = "done"]
  /\ Commit(r, 500, RetryLimitBody, FALSE)
  /\ Answer(r, Resp(500, trace[r], RetryLimitBody, FALSE, "limit", NoLength))
  /\ UNCHANGED <<req, trace, attempts, latch, span, manual, label, poolq,
                 wire, disp, chan>>

(* The sender was dropped: Error::Canceled, logged and rendered as 500.   *)
AttemptCanceled(r) ==
  LET c == Current(r) IN
  /\ phase[r] = "running" /\ rx[c] = "live" /\ chan[c].st = "canceled"
  /\ rx' = [rx EXCEPT ![c] = "done"]
  /\ Commit(r, 500, 0, TRUE)
  /\ Answer(r, Resp(ErrorCode["Canceled"], Absent, CanceledBody, FALSE,
                    "canceled", NoLength))
  /\ UNCHANGED <<req, trace, attempts, latch, span, manual, label, poolq,
                 wire, disp, chan>>

(* Mutation: the deadline is armed only once the retry future runs.      *)
DeadlineArmedAtDispatch(r) ==
  /\ phase[r] = "running"
  /\ Answer(r, Resp(504, Absent, TimedOutBody, FALSE, "timeout", NoLength))
  /\ rx' = [c \in Calls |-> IF c[1] = r /\ rx[c] = "live" THEN "dropped" ELSE rx[c]]
  /\ UNCHANGED <<req, trace, attempts, latch, span, manual, label, poolq,
                 wire, log, disp, chan>>

(* Mutation: the 504 goes out but the select's losing future is kept    *)
(* running instead of dropped.                                            *)
DeadlineKeepsInner(r) ==
  /\ phase[r] \in {"reading", "running"} /\ resp[r] = NoResp
  /\ resp' = [resp EXCEPT ![r] = Resp(504, Absent, TimedOutBody, FALSE,
                                      "timeout", NoLength)]
  /\ UNCHANGED <<req, phase, trace, attempts, latch, span, manual, label, poolq,
                 wire, log, disp, chan, rx>>

(* TimeoutMiddleware::call (cocaine.rs l.125-137): the deadline wins the *)
(* select; the inner future, and with it the current receiver, is dropped.*)
Deadline(r) ==
  /\ phase[r] \in {"reading", "running"}
  /\ Answer(r, Resp(504, Absent, TimedOutBody, FALSE, "timeout", NoLength))
  /\ rx' = [c \in Calls |-> IF c[1] = r /\ rx[c] = "live" THEN "dropped" ELSE rx[c]]
  /\ UNCHANGED <<req, trace, attempts, latch, span, manual, label, poolq,
                 wire, log, disp, chan>>

-----------------------------------------------------------------------------
(* The pool (spec-modelled) and the callback of make_future.              *)

(* func(service, settings) (l.366-405): Manual sampling, the latch, the   *)
(* TraceBit, then service.call registers the dispatcher.                  *)
PoolInvoke(verbose) ==
  LET c == Head(poolq)
      r == c[1]
      observed == verbose \/ manual[c] = "sampled"
      latched  == latch[r] \/ (observed /\ label[c] = 1)
  IN
  /\ poolq # <<>>
  /\ poolq' = Tail(poolq)
  /\ latch' = [latch EXCEPT ![r] = latched]
  /\ wire' = [wire EXCEPT ![c] =
               [sent |-> TRUE, trace |-> trace[r], span |-> span[r],
                parent |-> trace[r], traceBit |-> latched, verbose |-> observed]]
  /\ Register(c, req[r].method, trace[r])
  /\ UNCHANGED <<req, phase, trace, attempts, span, manual, label, resp, log,
                 chan, rx>>

(* The pool drops the event: the callback, and the sender it owns, go.    *)
PoolDrop ==
  LET c == Head(poolq) IN
  /\ poolq # <<>>
  /\ poolq' = Tail(poolq)
  /\ chan' = [chan EXCEPT ![c] = IF rx[c] = "dropped" THEN @ ELSE Canceled]
  /\ UNCHANGED <<req, phase, trace, attempts, latch, span, manual, label,
                 wire, resp, log, disp, rx>>

BackendStep(c) ==
  /\ Backend(c)
  /\ UNCHANGED <<req, phase, trace, attempts, latch, span, manual, label,
                 poolq, wire, resp, log>>

-----------------------------------------------------------------------------
Init ==
  /\ req \in [Requests -> RequestKinds]
  /\ phase = [r \in Requests |-> "new"]
  /\ trace = [r \in Requests |-> CHOOSE t \in Traces : TRUE]
  /\ attempts = [r \in Requests |-> 0]
  /\ latch = [r \in Requests |-> FALSE]
  /\ span = [r \in Requests |-> CHOOSE s \in Spans : TRUE]
  /\ manual = [c \in Calls |-> "none"]
  /\ label = [c \in Calls |-> 0]
  /\ poolq = <<>>
  /\ wire = [c \in Calls |-> NoWire]
  /\ resp = [r \in Requests |-> NoResp]
  /\ log = [r \in Requests |-> <<>>]
  /\ disp = [c \in Calls |-> [st |-> "idle"]]
  /\ chan = [c \in Calls |-> Empty]
  /\ rx = [c \in Calls |-> "none"]

Next ==
  \/ \E r \in Requests :
       \/ ProcessIncomplete(r) \/ InvokeInvalidTrace(r) \/ Invoke(r)
       \/ BodyRead(r) \/ BodyReadFailed(r)
       \/ AttemptCompleted(r) \/ AttemptRetried(r)
       \/ RetryLimitExceeded(r) \/ AttemptCanceled(r)
       \/ Deadline(r)
  \/ \E v \in BOOLEAN : PoolInvoke(v)
  \/ PoolDrop
  \/ \E c \in Calls : BackendStep(c)

(* The tokio timer fires and the executor polls a woken task; the client, *)
(* the pool and the backend promise nothing.                              *)
Poll(r) ==
  AttemptCompleted(r) \/ AttemptRetried(r) \/ RetryLimitExceeded(r)
  \/ AttemptCanceled(r)
Fairness == \A r \in Requests : WF_vars(Deadline(r)) /\ WF_vars(Poll(r))

Spec == Init /\ [][Next]_vars /\ Fairness
-----------------------------------------------------------------------------
(* Properties.                                                             *)

TypeOK ==
  /\ phase \in [Requests -> {"new", "reading", "running", "answered"}]
  /\ trace \in [Requests -> Traces]
  /\ attempts \in [Requests -> 0..Limit]
  /\ latch \in [Requests -> BOOLEAN]
  /\ span \in [Requests -> Spans]
  /\ manual \in [Calls -> {"none", "sampled", "unsampled"}]
  /\ label \in [Calls -> 0..MaxAttempts]
  /\ poolq \in Seq(Calls)
  /\ log \in [Requests -> Seq([status : Nat, bytes : Nat, err : BOOLEAN])]
  /\ DispatchTypeOK

(* Spec 4.2, the safety predicate: only a failure with category 0x52ff    *)
(* and code 1 proves the request never reached a worker.                  *)
SafeFailure(e) == e.service /\ e.category = 21247 /\ e.code = 1

(* A request is sent to the backend again only after its previous        *)
(* attempt's stream ended with the safe failure: poll must not turn any   *)
(* other dispatcher outcome, a cancellation or a response, into a retry.  *)
RetryOnlyAfterSafeFailure ==
  \A r \in Requests, k \in 2..MaxAttempts :
    rx[<<r, k>>] # "none" =>
      /\ disp[<<r, k - 1>>].st = "closed"
      /\ SafeFailure(disp[<<r, k - 1>>].err)

(* At most Limit attempts are made, and the retry-limit 500 is sent only *)
(* when all Limit of them met the safe failure.                           *)
RetryLimitRespected ==
  \A r \in Requests :
    /\ \A k \in (Limit + 1)..MaxAttempts : rx[<<r, k>>] = "none"
    /\ resp[r].status # 0 /\ resp[r].origin = "limit" =>
         \A k \in 1..Limit : disp[<<r, k>>].st = "closed"
                               /\ SafeFailure(disp[<<r, k>>].err)

(* Spec 4.1: the access log is committed exactly once for a request that *)
(* went through invoke and was answered by it (not by the deadline), with *)
(* the status the client got and, on success, the bytes it got.           *)
AccessLogAgreesWithResponse ==
  \A r \in Requests :
    /\ Len(log[r]) <= 1
    /\ phase[r] = "answered" /\ resp[r].origin \notin {"route", "tracing", "timeout"}
       => /\ Len(log[r]) = 1
          /\ log[r][1].status = resp[r].status
          /\ log[r][1].bytes = IF log[r][1].err THEN 0 ELSE resp[r].bodyLen

(* The HTTP layer always gets a response: every request the route took   *)
(* is eventually answered, by the backend, the gateway or the deadline,   *)
(* even when the pool never dispatches or the backend never answers.      *)
EveryRequestAnswered ==
  \A r \in Requests : phase[r] # "new" ~> phase[r] = "answered"

(* Spec 4.2 and 8: the verbose latch is set only by attempt #1. If the    *)
(* first attempt observed verbose, every attempt carries TraceBit; under  *)
(* Auto, if it did not, no attempt does.                                  *)
TraceBitFollowsFirstAttempt ==
  \A r \in Requests, k \in 1..MaxAttempts :
    wire[<<r, 1>>].sent /\ wire[<<r, k>>].sent =>
      /\ wire[<<r, 1>>].verbose => wire[<<r, k>>].traceBit
      /\ req[r].policy = "auto" /\ ~wire[<<r, 1>>].verbose
           => ~wire[<<r, k>>].traceBit

(* Spec 4.2 and 8: every attempt carries a freshly drawn SpanId.          *)
SpanFreshPerAttempt ==
  \A r \in Requests, j, k \in 1..MaxAttempts :
    j # k /\ wire[<<r, j>>].sent /\ wire[<<r, k>>].sent =>
      wire[<<r, j>>].span # wire[<<r, k>>].span

(* Spec 4.4: when the deadline wins, the inner computation is cancelled: *)
(* no backend call of that request is opened afterwards.                  *)
NoBackendCallAfterTimeout ==
  [][\A c \in Calls :
       phase[c[1]] = "answered" /\ resp[c[1]].origin = "timeout"
         => wire'[c] = wire[c]]_wire

-----------------------------------------------------------------------------
(* Refinement: the abstract safe-retry promise of module SafeRetry. The   *)
(* posted count is AppWithSafeRetry.attempts, the client is answered once *)
(* the route or the middleware has handed it a response, and the latest  *)
(* attempt's verdict is what its one-shot holds: Ready(None) is the safe  *)
(* failure, a response or a dropped sender is any other outcome.          *)
Verdict(r) ==
  IF attempts[r] = 0 THEN "pending"
  ELSE CASE chan[Current(r)].st = "none"  -> "safe"
         [] chan[Current(r)].st = "empty" -> "pending"
         [] OTHER                         -> "other"

Abstract == INSTANCE SafeRetry WITH
              posted   <- attempts,
              verdict  <- [r \in Requests |-> Verdict(r)],
              answered <- [r \in Requests |-> resp[r] # NoResp]

(* AppRoute, the retry future and the TimeoutMiddleware together          *)
(* implement SafeRetry: no attempt is posted after the client has its    *)
(* response (the timeout drops the retry future with its receiver), a    *)
(* retry follows only the latest attempt's queue-full reply, and no       *)
(* second response follows the first.                                      *)
ImplementsSafeRetry == Abstract!Spec
=============================================================================
