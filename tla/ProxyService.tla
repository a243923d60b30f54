---------------------------- MODULE ProxyService ----------------------------
(***************************************************************************)
(* The per-connection service of src/src/service/cocaine.rs around the    *)
(* request path of module AppRoute.                                       *)
(*                                                                         *)
(* ProxyServiceFactory::create_service (l.155-160) builds, for every      *)
(* accepted connection, TimeoutMiddleware<ProxyService>: ProxyService::new *)
(* counts the connection (active, accepted), ProxyService::call marks the *)
(* request and hands it to the router, adding an and_then that marks     *)
(* c5xx when the router's response is a server error, and the middleware  *)
(* races that whole future against the deadline. Dropping the service    *)
(* (Drop, l.72-82) takes the connection off the active gauge.            *)
(*                                                                         *)
(* When hyper ends a connection is not under src/: following spec section *)
(* 5, the client may go away at any time, and hyper then drops the        *)
(* service together with the request future still in flight on it.      *)
(***************************************************************************)
EXTENDS AppRoute

CONSTANTS
  Conns,      \* client connections accepted by this worker
  ConnOf      \* ConnOf[r]: the connection request r arrives on

ASSUME ConnOf \in [Requests -> Conns]

VARIABLES
  conn,       \* conn[k]: "idle" (not accepted), "open", "closed" (dropped)
  active,     \* metrics.connections.active
  accepted,   \* metrics.connections.accepted
  requests,   \* metrics.requests
  c5xx        \* metrics.responses.c5xx

proxyVars == <<conn, active, accepted, requests, c5xx>>
allVars == <<vars, proxyVars>>

(* The and_then of call (l.62-68): marks c5xx when the router's future    *)
(* resolves, in this step, with a server error.                           *)
MarkServerError(r) ==
  c5xx' = IF phase[r] # "answered" /\ phase'[r] = "answered"
               /\ resp'[r].status \in 500..599
          THEN c5xx + 1 ELSE c5xx

(* create_service (l.155-160) and ProxyService::new (l.33-49).             *)
CreateService(k) ==
  /\ conn[k] = "idle"
  /\ conn' = [conn EXCEPT ![k] = "open"]
  /\ active' = active + 1
  /\ accepted' = accepted + 1
  /\ UNCHANGED <<vars, requests, c5xx>>

(* ProxyService::call (l.58-69): mark the request, then router.process,   *)
(* which runs AppRoute::process up to its first suspension point.         *)
Call(r) ==
  /\ conn[ConnOf[r]] = "open"
  /\ requests' = requests + 1
  /\ ProcessIncomplete(r) \/ InvokeInvalidTrace(r) \/ Invoke(r)
  /\ MarkServerError(r)
  /\ UNCHANGED <<conn, active, accepted>>

(* The request future, polled by hyper while its connection is open.     *)
Poll2(r) ==
  /\ conn[ConnOf[r]] = "open"
  /\ Poll(r)
  /\ MarkServerError(r)
  /\ UNCHANGED <<conn, active, accepted, requests>>

Resume(r) ==
  /\ conn[ConnOf[r]] = "open"
  /\ BodyRead(r) \/ BodyReadFailed(r)
  /\ MarkServerError(r)
  /\ UNCHANGED <<conn, active, accepted, requests>>

(* TimeoutMiddleware: the deadline's 504 bypasses ProxyService's and_then.*)
TimedOut(r) ==
  /\ conn[ConnOf[r]] = "open"
  /\ Deadline(r)
  /\ UNCHANGED proxyVars

(* The connection ends: hyper drops the service (Drop, l.72-82) and the   *)
(* request future in flight on it, with the retry future's receiver.      *)
Close(k) ==
  /\ conn[k] = "open"
  /\ conn' = [conn EXCEPT ![k] = "closed"]
  /\ active' = active - 1
  /\ rx' = [c \in Calls |-> IF ConnOf[c[1]] = k /\ rx[c] = "live" THEN "dropped" ELSE rx[c]]
  /\ UNCHANGED <<req, phase, trace, attempts, latch, span, manual, label, poolq,
                 wire, resp, log, disp, chan, accepted, requests, c5xx>>

(* The pool and the backend run on regardless of connections.             *)
Environment ==
  /\ \/ \E v \in BOOLEAN : PoolInvoke(v)
     \/ PoolDrop
     \/ \E c \in Calls : BackendStep(c)
  /\ UNCHANGED proxyVars

ProxyInit ==
  /\ Init
  /\ conn = [k \in Conns |-> "idle"]
  /\ active = 0 /\ accepted = 0 /\ requests = 0 /\ c5xx = 0

ProxyNext ==
  \/ \E k \in Conns : CreateService(k) \/ Close(k)
  \/ \E r \in Requests : Call(r) \/ Resume(r) \/ Poll2(r) \/ TimedOut(r)
  \/ Environment

(* The executor polls a woken request future and the timer fires, while  *)
(* the connection lasts; clients, the pool and the backend promise        *)
(* nothing.                                                                *)
ProxySpec ==
  /\ ProxyInit /\ [][ProxyNext]_allVars
  /\ \A r \in Requests : WF_allVars(Poll2(r)) /\ WF_allVars(TimedOut(r))

-----------------------------------------------------------------------------
ProxyTypeOK ==
  /\ TypeOK
  /\ conn \in [Conns -> {"idle", "open", "closed"}]
  /\ {active, accepted, requests, c5xx} \subseteq Nat

(* A request the route took is eventually answered, by the route or the   *)
(* deadline, unless its client went away first and hyper dropped it.      *)
EveryCallSettles ==
  \A r \in Requests :
    phase[r] # "new" ~> (phase[r] = "answered" \/ conn[ConnOf[r]] = "closed")

(* The server-error meter counts every server-error response a client of  *)
(* this worker received (the meter is metrics.responses.c5xx).            *)
ServerErrorsCounted ==
  c5xx = Cardinality({r \in Requests : resp[r].status \in 500..599})
=============================================================================
