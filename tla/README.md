# TLA+ models of cocaine-http-proxy

These modules model the request path of the HTTP-to-Cocaine gateway in
`src/src`. They are checked with TLC.

## The system

The sources are three files. `route/app.rs`, `route/perf.rs` and
`service/cocaine.rs` hold about 1000 lines of Rust. The parts are:

| Part | Code | What it does |
|---|---|---|
| ProxyService / factories | `service/cocaine.rs` 25-82, 140-221 | Per-connection service: it keeps the connection gauge and the request and 5xx meters, and hands each worker thread one pool channel pair under a mutex. |
| TimeoutMiddleware | `service/cocaine.rs` 84-138 | Selects the upstream future against a deadline. If the deadline wins, the client gets 504 and the upstream future is dropped. |
| AppRoute | `route/app.rs` 56-205 | Routes by header or URI regex and reads the tracing header. It then reads the body, runs the retry future, logs the access line once and renders errors. |
| AppWithSafeRetry | `route/app.rs` 293-448 | Posts up to `limit` attempts to the pool. It retries only on queue-full `(0x52ff, 1)`. |
| Invocation callback | `route/app.rs` 366-405 | Runs on the pool. It decides tracing verbosity and sets the shared latch on attempt 1. It then sends TraceBit and the wire headers and opens the backend call with an AppReadDispatch. |
| AppReadDispatch | `route/app.rs` 500-650 | Turns the backend's frames into one reply on a oneshot: ResponseMeta, chunks, close, error, or discard. |
| RequestMeta codec and open headers | `route/app.rs` 36-40, 113-127, 207-291, 336-384 | `pack_u64`, `map_headers`, `make_headers`, the callback's per-attempt headers, and the meta frame: `AppRequest::new`, `set_body`, `serialize_version` and `serialize_body` (`serialize_method` abstracted). |
| PerfRoute | `route/perf.rs` | A route whose `process` is `todo!()`, and a single-chunk dispatcher. |

The pool (`crate::pool`) and the Cocaine client are not in `src/`. The model
builds them from `spec.md` and marks them `spec_modelled` in PROJECT.json:

- The pool is a FIFO of events. For each event it invokes the callback with
  some `Settings`, or drops it, which cancels the attempt's oneshot.
- The backend may send any sequence of frames, or none at all.

## Modules

- **`AppReadDispatch`**: the Response Dispatcher of one backend call.
  - State: `disp[c]` mirrors the struct fields (`method`, `trace`, `body`, and
    `response` as status plus headers). `chan[c]` is the oneshot's slot, and
    `rx[c]` says whether the receiver is live, dropped by the deadline, or
    done.
  - Actions: each arm of `process` and `discard` is one action. Status
    conversion is `StatusOf` (`as u16`, then `StatusCode::try_from`). The
    header merge is a fold of `SetRaw` over the meta headers. The no-body
    rules are in `CloseReply`.
  - The module runs standalone with `DispatchSpec`, over one call and every
    frame sequence.
- **`AppRoute`** EXTENDS `AppReadDispatch` and adds:
  - the requests, their phases, the retry counter, the verbose latch, the span;
  - the pool queue, the wire headers each attempt opened its call with, the
    response, and the access log.
  - `Invoke`, `ProcessIncomplete`, `InvokeInvalidTrace`, `BodyRead` and
    `BodyReadFailed` model `process` and `invoke`.
  - `MakeFuture` models `make_future`, keeping the argument numbering of the
    code: attempt k carries label k-1 for k ≥ 2.
  - `AttemptCompleted`, `AttemptRetried`, `RetryLimitExceeded` and
    `AttemptCanceled` model the arms of `poll`.
  - `PoolInvoke` is the callback, `PoolDrop` is the pool dropping an event, and
    `Deadline` is the TimeoutMiddleware's timer winning the select.
- **`SafeRetry`** is the abstract promise of the retry machinery.
  - Per request: attempts are posted one at a time, and only before the
    client has a response.
  - A retry follows only a safe failure of the latest attempt, and there are
    never more than `Limit` attempts.
  - The client gets exactly one response.
  - `AppRoute` instantiates it through `posted <- attempts`. The verdict comes
    from the current attempt's oneshot, and "answered" means a response was
    handed out. The `service` run checks `ImplementsSafeRetry` as a PROPERTY.
- **`RouteParams`**: `extract_parameters` and the `Match` that `process`
  makes of it (app.rs 67, 85-112, 178-204).
  - A request target is a sequence of characters.
  - `Captures` is the regex engine's search. It takes the leftmost position
    where `MatchAt` succeeds, and the groups are greedy.
  - `Normalise` is the `starts_with("/")` fix-up.
  - `SpecExtract` is the spec's anchored regex, written declaratively as the
    set of cuts of the URI.
- **`ServiceFactory`**: worker start-up in `create_factory` (cocaine.rs
  196-221).
  - `Lock` and `LockPoisoned` model `lock().unwrap()`.
  - The caller's iterator is a cursor: `ReadNext` reads the pair, then
    `Advance` moves on and drops the guard. `Exhausted` is the `expect`
    panic with the guard still held. `SpawnPool` spawns the PoolTask.
  - Each thread is weakly fair. The OS schedules every thread, and each
    thread takes the Mutex only once.
- **`WireCodec`**: the `request_timeout` header the callback adds
  (app.rs 380-382).
  - `AsU64Millis` is `(timeout * 1000.0) as u64`, Rust's saturating cast. The
    timeout is a rational `n/d`, and `d = 0` stands for +inf, -inf and NaN.
    The f64 product's own rounding is not modelled.
  - `pack_u64` is a RECURSIVE little-endian packing.
  - The header is checked against a reference decoder (a fold) and against
    the spec's `floor(timeout * 1000)` from §4.1.
  - §8 of the spec says the value is `round(...)` instead. The code follows
    §4.1: 0.0005 s is sent as 0 ms. The spec contradicts itself here, so no
    run checks §8's wording.
  - The width is a constant. It is 64 in the code and 16 in the run, because
    TLC's integers are 32-bit. At 16 bits, saturation at 65.535 s is
    reachable.
- **`OpenHeaders`** EXTENDS `WireCodec`. It models the header list each
  attempt opens its backend call with.
  - `RawValue` is `get_raw` with the fold that concatenates a header's
    values in order.
  - `MappedOrders` is `map_headers`. The order is any order of the
    configured names present, because the code iterates a `HashMap`.
  - `OpenInit` is `invoke` up to the body read: `map_headers` and
    `AppRequest::new`. `AppRequestNew` builds the meta frame. It copies every
    request header once, in the order hyper first stored it (`HeaderNames`),
    joins the header's raw values, takes the version, and starts with an
    empty body.
  - `BodyRead` is the `concat2` callback: `set_body` with the whole body,
    then `AppWithSafeRetry::new`, which runs `make_headers` (`MakeHeaders`).
    `base` stays empty until that step.
  - `Invoke` is the callback of the current attempt. It takes a clone of
    the kept list and appends TraceBit (the latch, with the attempt label of
    `make_future`) and `request_timeout`, using `WireCodec`'s `Callback`.
    It also sends the serialized shared frame as `payload`. `Serialize`
    writes the version as `serialize_version` does and leaves the body bytes
    as they are (`from_utf8_unchecked`).
  - `Retry` is `make_future` followed by `attempts += 1`. The kept list is
    only cloned.
  - The reference for the mapped values is the spec's "concatenated in
    order", written as `FlattenSeq` over `SelectSeq`.
- **`ProxyService`** EXTENDS `AppRoute` and adds the connection that carries
  the request (cocaine.rs 33-82, 155-160).
  - `CreateService` is `create_service` with `ProxyService::new`. It counts the
    connection on the `active` and `accepted` gauges. The peer address
    feeds only a log line and is left out.
  - `Call` is `ProxyService::call`: it marks `requests`, then `router.process`
    runs AppRoute's `process` (`ProcessIncomplete`, `InvokeInvalidTrace` or
    `Invoke`).
  - Every later step of the request future (`Resume`, `Poll2`) is AppRoute's
    step plus `MarkServerError`, the `and_then` that marks `c5xx`.
    `TimedOut` is AppRoute's `Deadline`. The middleware wraps ProxyService,
    so this step does not mark `c5xx`.
  - `Close` is the connection ending. hyper drops the service (its `Drop`
    decrements `active`) and, following spec §5, drops the request future
    still in flight with it.
  - `Environment` is the pool and the backend, unchanged.
- The **MC modules** give the constants: `MCAppReadDispatch`, `MCAppRoute`,
  `MCProxyService` (which EXTENDS `MCAppRoute` and adds one connection),
  `MCRouteParams`, `MCServiceFactory`, `MCWireCodec` (the timeout inputs) and
  `MCOpenHeaders` (which EXTENDS `MCWireCodec`).
  Requests, calls, traces and spans are model values, and the error and
  header inputs are small sets.

## Runs

| Run | Result | What it shows |
|---|---|---|
| `dispatch` | pass (about 4.3k states) | Every frame sequence resolves the oneshot exactly once (`ReplyExactlyOnce`), even when the receiver was dropped midway. Every row of the spec's no-body table holds: HEAD, 204, 304, an empty buffer and a declared `Content-Length: 0` give no body and a logged size of 0. The byte count reported for the access log equals the body sent. |
| `dispatch_status_truncation` | violation | A meta code of 65736 becomes `200 OK`, because of the `as u16` at app.rs:528. The spec maps such codes to 500. |
| `dispatch_trace_overwritten` | violation | A backend `x-request-id` meta header replaces the gateway's trace in the response (`set_raw` at app.rs:536). |
| `service` | pass (about 115k states) | One connection carries one request through the whole path, and the client may leave at any step. An attempt is retried only after queue-full. Attempts never exceed the limit, and "retry limit exceeded" is sent only after `Limit` safe failures. The access log agrees with the response. Under fairness, every request is answered unless its client left. The whole path refines `SafeRetry`. |
| `service_timeouts_uncounted` | violation | A request answered 504 by the TimeoutMiddleware is never counted in `metrics.responses.c5xx`. The `and_then` that marks it sits inside the middleware (cocaine.rs:62, 156-157). |
| `route_tracebit_latch` | violation | Attempt 2 captures `attempt = 1` (make_future runs before `attempts += 1`), so it can set the latch and send TraceBit. |
| `route_span_shared` | violation | Every attempt carries the span drawn once in `new`. The spec wants a fresh span per attempt. |
| `route_params` | pass (545 states) | Every origin-form target up to 5 characters was tried, plus absolute-form targets and `*`. A URI-routed request keeps its whole tail behind a leading `/`, and the event stops at `/` or `?`. |
| `route_params_absolute_form` | violation | `http://a` is routed to service `""` and event `a` (the host). The spec's anchored regex gives `Match::None`. |
| `factory` | pass (200 states) | Three threads race through `create_factory` for three pairs, or for only one. With as many pairs as threads, every thread eventually gets its pair and serves. With only one pair, the run still explores the panics: the thread that finds the iterator empty poisons the Mutex, and the later threads panic in `unwrap()`. It checks no property of them, because `std::sync::Mutex` and unwinding guarantee exclusion and release whatever `create_factory` does. |
| `codec` | pass (about 71k states, about 2 min) | Up to three attempts run, with every timeout input and both verbose settings. Each attempt opens its call with the mapped request headers (repeated values concatenated in order, unmapped ones dropped). It has exactly one TraceId and ParentId (the trace) and one SpanId. TraceBit is present exactly when the latch is set. One `request_timeout` of `Width/8` bytes is present exactly when the pool gave a timeout, and it decodes little-endian to floor(ms) or to the saturated value. Each attempt also sends the request's whole RequestMeta (`PayloadCarriesRequest`). That means the spec's version string, the body the client sent rather than the empty body the frame started with, and every request header once, with its values in order, in the order the request carried them. |
| `route_call_after_timeout` | violation | After the 504, an event still queued in the pool opens its backend call. |

Each property of a passing run has a mutant in PROJECT.json: a plausible bug
in the mapped code (an off-by-one in the retry guard, a dropped code check on
queue-full, a missing 304 case, a silent discard, the deadline armed too late, the body not set
before the first attempt)
that TLC shows breaks it.

## Bounds

- **`service`:**
  - One connection. The client may leave before the call, during any step
    of the request, or after the response. A second connection took the run
    past four minutes.
  - One request. Requests share nothing but the pool queue, and the pool is
    FIFO.
  - `Limit = 3`, the value `new` is given in the code. `MaxAttempts = 4`, so a
    fourth attempt would be visible.
  - Request kinds cover a matched route with the tracing header absent or
    invalid, auto and manual policy, GET and HEAD, and the incomplete-header
    error.
  - Backend errors: queue-full, queue with another code, and vicodyn. Discard
    is the network error.
  - Bodies are up to one byte. That is enough to tell a sent body from a
    suppressed one.
- **`dispatch`:**
  - One call. Calls share no state.
  - Meta codes: 200, 204, 304, 1000 (rejected by `try_from`), and
    65736 (which wraps to 200).
  - Header lists: none, `Content-Length` 0, not a number, 5, 5 then 0, and a
    backend `x-request-id`. The model carries the declared Content-Length
    (`Resp.cl`). No property checks it: the spec's table in §4.3 does not say
    what a backend's mismatched length should give.
  - Bodies of up to 2 bytes, in chunks of 0 or 1.

- **`route_params`:**
  - Origin-form targets: `/` followed by up to 4 characters from `a`, `/` and
    `?`. That covers zero, one and two slashes, queries before and after the
    event, and empty groups.
  - Also `h://a` with and without a path, and `*`.
  - Each of the four X-Cocaine-Service/Event presence pairs is tried.
- **`codec`:**
  - Whole seconds from -2 to 70 (past the 16-bit limit of 65.535 s).
  - The same numerators as milliseconds and as half milliseconds, where
    floor and round differ.
  - ±inf and NaN.
  - Header lines: none; one mapped; one unmapped; one mapped header given
    twice; and mixes with the mapped header split around others. Two
    configured names. Two span ids. `Limit = 3` attempts.
  - Two requests: HTTP/1.0 with no body, and HTTP/1.1 with a two-byte body.
    These are the two versions hyper's HTTP/1 parser yields. Pairing each
    version with one body keeps the run near two minutes, and both are
    still covered.

## Fairness

Only the TimeoutMiddleware's timer (`Deadline`) and the executor's polling of
the retry future (`Poll`) are weakly fair. The timer fires once the deadline
passes, and tokio polls a ready future. The pool and the backend get no
fairness: the code has to answer even when neither makes progress.
`EveryRequestAnswered` states this for AppRoute's own specification `Spec`.
In `ProxyService` the same two steps (`Poll2`, `TimedOut`) are weakly fair
only while the connection is open. Clients get no fairness: they may never
send a request, and they may leave at any time. So the `service` run's
`EveryCallSettles` says "answered, or the client left".

## Not modelled

Each item below is left out for the reason given. None of them hides
state that the modelled code reads.

1. `serialize_method` and the uri field of the meta frame are left out.
   The uri is built, and checked, in `RouteParams`. `method.to_string` is
   formatting that no property tells apart. Header names are compared
   exactly in `OpenHeaders`, while hyper ignores case.
2. ProxyService's connection log lines are not modelled. The counters are
   modelled in `ProxyService`.
3. **PerfRoute** is not modelled. `process` is `todo!()`, so nothing ever
   builds a `SingleChunkReadDispatch`, and any one request reaches the panic.
4. **Several requests.** The `service` run uses one request. Requests share
   only the FIFO pool channel, and no code reads another request's state.
   A two-request run would mainly multiply the state space. A second
   connection took the `service` run to about 1.4M states and four minutes.
   It would become worth its cost only with a pool model that reorders or
   batches events, and that pool is outside `src/`.

Some properties are deliberately not stated, because they would restate the
code or the language rather than check it:
- that the connection gauge equals the number of live services (it is an
  unconditional `add(1)` in `new` and `add(-1)` in `Drop`);
- that no two PoolTasks share a channel pair, and that no thread waits
  forever on the factory's Mutex (safe Rust's `Mutex`, and the guard
  dropped on unwinding, guarantee both).

Metrics other than those `ProxyService` keeps (the connection gauge and the
request and c5xx meters), logging text and the string formatting of error bodies are
not modelled. Error bodies appear only as their byte lengths.
