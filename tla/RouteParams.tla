---------------------------- MODULE RouteParams ----------------------------
(***************************************************************************)
(* AppRoute::extract_parameters and the Match it leads to in              *)
(* Route::process (src/src/route/app.rs 67, 85-112, 178-204).              *)
(*                                                                         *)
(* A request target is a sequence of one-character strings. The route    *)
(* regex  / ( [^/]* ) / ( [^/?]* ) ( .* )  is searched, not anchored:    *)
(* Regex::captures returns the leftmost match, with greedy groups. A     *)
(* match is modelled by what the engine does; the spec's anchored regex *)
(* ^ / ( [^/]* ) / ( [^/?]* ) ( .* ) $ is a declarative reference.        *)
(***************************************************************************)
EXTENDS Integers, Sequences, SequencesExt

CONSTANTS
  Chars,      \* the characters request targets are made of
  Uris,       \* request targets hyper can hand over
  Names,      \* X-Cocaine-Service / X-Cocaine-Event header values
  NoHdr       \* the header is absent

ASSUME NoHdr \notin Names

VARIABLES
  request,    \* [uri, service, event] of the request being routed
  route       \* the outcome of process for it

vars == <<request, route>>

NoneOf(s, cs) == \A i \in 1..Len(s) : s[i] \notin cs

(* Index of the first element at or after `from` in cs, Len(s)+1 if none.*)
FirstOf(s, from, cs) ==
  LET hits == {i \in from..Len(s) : s[i] \in cs}
  IN  IF hits = {} THEN Len(s) + 1 ELSE CHOOSE i \in hits : \A j \in hits : i <= j

(* Mutation: the event group written [^/]*, letting the query into it.   *)
MatchAtEventAny(u, i) ==
  LET j == FirstOf(u, i + 1, {"/"})
      k == FirstOf(u, j + 1, {"/"})
  IN  IF u[i] = "/" /\ j <= Len(u)
      THEN <<SubSeq(u, i + 1, j - 1), SubSeq(u, j + 1, k - 1), SubSeq(u, k, Len(u))>>
      ELSE <<>>

(* The regex tried at position i: "/" then [^/]* (greedy, so it ends at   *)
(* the next "/", which must exist), "/", [^/?]* greedy, then .* to the    *)
(* end. The three captures, or <<>> when it fails there.                  *)
MatchAt(u, i) ==
  LET j == FirstOf(u, i + 1, {"/"})
      k == FirstOf(u, j + 1, {"/", "?"})
  IN  IF u[i] = "/" /\ j <= Len(u)
      THEN <<SubSeq(u, i + 1, j - 1), SubSeq(u, j + 1, k - 1), SubSeq(u, k, Len(u))>>
      ELSE <<>>

(* self.regex.captures(uri): the match at the leftmost position that has *)
(* one.                                                                   *)
Captures(u) ==
  LET at == {i \in 1..Len(u) : MatchAt(u, i) # <<>>}
  IN  IF at = {} THEN <<>>
      ELSE MatchAt(u, CHOOSE i \in at : \A j \in at : i <= j)

(* Mutation: the tail is used as it is, without the leading "/".         *)
NormaliseAsIs(t) == t

(* if uri.starts_with("/") { uri } else { format!("/{}", uri) }           *)
Normalise(t) == IF t # <<>> /\ t[1] = "/" THEN t ELSE <<"/">> \o t

Routed(svc, ev, uri) == [kind |-> "app", service |-> svc, event |-> ev, uri |-> uri]
Incomplete == [kind |-> "error", status |-> 400]
NoMatch    == [kind |-> "none"]

(* extract_parameters followed by process's match on its result.          *)
ExtractParameters(u, svc, ev) ==
  CASE svc # NoHdr /\ ev # NoHdr -> Routed(svc, ev, u)
    [] svc # NoHdr \/ ev # NoHdr -> Incomplete
    [] OTHER -> LET m == Captures(u)
                IN  IF m = <<>> THEN NoMatch
                    ELSE Routed(m[1], m[2], Normalise(m[3]))

Process(u, svc, ev) ==
  /\ request' = [uri |-> u, service |-> svc, event |-> ev]
  /\ route'   = ExtractParameters(u, svc, ev)

Init == request = [uri |-> <<>>, service |-> NoHdr, event |-> NoHdr] /\ route = NoMatch

(* The router hands every request to the app route in turn.               *)
Next == \E u \in Uris, svc \in Names \cup {NoHdr}, ev \in Names \cup {NoHdr} :
          Process(u, svc, ev)

Spec == Init /\ [][Next]_vars

-----------------------------------------------------------------------------
(* Spec section 4.1, step 3: the anchored regex cuts u into "/" s "/" e t,*)
(* with the groups' classes and e as long as it can be.                   *)
SpecCut(u, i, k) ==
  /\ Len(u) >= 2 /\ u[1] = "/" /\ u[i] = "/" /\ i < k
  /\ NoneOf(SubSeq(u, 2, i - 1), {"/"})
  /\ NoneOf(SubSeq(u, i + 1, k - 1), {"/", "?"})
  /\ k > Len(u) \/ u[k] \in {"/", "?"}

SpecExtract(u, svc, ev) ==
  CASE svc # NoHdr /\ ev # NoHdr -> Routed(svc, ev, u)
    [] svc # NoHdr \/ ev # NoHdr -> Incomplete
    [] OTHER ->
         LET cuts == {c \in (2..Len(u)) \X (1..Len(u) + 1) : SpecCut(u, c[1], c[2])}
         IN  IF cuts = {} THEN NoMatch
             ELSE LET c == CHOOSE c \in cuts : TRUE
                  IN  Routed(SubSeq(u, 2, c[1] - 1), SubSeq(u, c[1] + 1, c[2] - 1),
                             Normalise(SubSeq(u, c[2], Len(u))))

Name == Names \cup Seq(Chars)

TypeOK ==
  /\ request \in [uri : Seq(Chars), service : Names \cup {NoHdr}, event : Names \cup {NoHdr}]
  /\ route \in {Incomplete, NoMatch} \cup
       [kind : {"app"}, service : Name, event : Name, uri : Seq(Chars) \ {<<>>}]

(* Spec section 8: a route taken from the URI keeps the whole tail, with  *)
(* a leading "/": "/" service "/" event followed by the tail (the routed  *)
(* uri, less a "/" the code prepended) ends the request URI, and the      *)
(* event stops at the first "/" or "?". Covers the regex's groups and the *)
(* starts_with normalisation at app.rs 95-105.                             *)
TailPreserved ==
  (route.kind = "app" /\ request.service = NoHdr) =>
    /\ route.uri[1] = "/"
    /\ NoneOf(route.event, {"/", "?"}) /\ NoneOf(route.service, {"/"})
    /\ \E x \in {route.uri, Tail(route.uri)} :
         /\ x = <<>> \/ x[1] \in {"/", "?"}
         /\ IsSuffix(<<"/">> \o route.service \o <<"/">> \o route.event \o x, request.uri)

(* Spec section 4.1: the route is what the anchored regex gives.          *)
RouteAgreesWithSpec ==
  route = SpecExtract(request.uri, request.service, request.event)
====
