----------------------------- MODULE SafeRetry -----------------------------
(***************************************************************************)
(* What the safe-retry state machine promises (spec sections 3, 4.2 and   *)
(* 8), stated without the pool, the dispatcher or the wire: per request,  *)
(* attempts are posted one at a time and only while the client has no    *)
(* response; the first may always be posted, every later one only after  *)
(* the latest attempt's outcome was the safe failure; never more than     *)
(* Limit; and the client gets exactly one response.                       *)
(***************************************************************************)
EXTENDS Naturals

CONSTANTS Requests, Limit

VARIABLES
  posted,     \* posted[r]: attempts of r handed to the pool so far
  verdict,    \* verdict[r]: outcome of r's latest attempt
  answered    \* answered[r]: the client has its response

vars == <<posted, verdict, answered>>

Verdicts == {"pending", "safe", "other"}

Init ==
  /\ posted = [r \in Requests |-> 0]
  /\ verdict = [r \in Requests |-> "pending"]
  /\ answered = [r \in Requests |-> FALSE]

(* A new attempt: the first, or a retry of a safe failure, under Limit.   *)
Post(r) ==
  /\ ~answered[r]
  /\ posted[r] < Limit
  /\ posted[r] = 0 \/ verdict[r] = "safe"
  /\ posted' = [posted EXCEPT ![r] = @ + 1]
  /\ verdict' = [verdict EXCEPT ![r] = "pending"]
  /\ UNCHANGED answered

(* The latest attempt's outcome becomes known, once.                       *)
Resolve(r) ==
  /\ posted[r] > 0 /\ verdict[r] = "pending"
  /\ \E v \in Verdicts \ {"pending"} : verdict' = [verdict EXCEPT ![r] = v]
  /\ UNCHANGED <<posted, answered>>

(* The client gets its one response.                                       *)
Respond(r) ==
  /\ ~answered[r]
  /\ answered' = [answered EXCEPT ![r] = TRUE]
  /\ UNCHANGED <<posted, verdict>>

Next == \E r \in Requests : Post(r) \/ Resolve(r) \/ Respond(r)

Spec == Init /\ [][Next]_vars
====
