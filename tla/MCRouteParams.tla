--------------------------- MODULE MCRouteParams ---------------------------
EXTENDS RouteParams

CONSTANTS s1

MCChars == {"/", "?", "a", "h", ":", "*"}

(* Request targets hyper 0.11 accepts: origin-form "/" followed by path   *)
(* and query characters, absolute-form "h://a" with or without a path,   *)
(* and the asterisk-form "*" of OPTIONS.                                  *)
Origin(n) == {<<"/">> \o w : w \in BoundedSeq({"a", "/", "?"}, n)}

MCUris ==
  Origin(4)
    \cup {<<"h", ":", "/", "/", "a">> \o p : p \in {<<>>} \cup Origin(2)}
    \cup {<<"*">>}
=============================================================================
