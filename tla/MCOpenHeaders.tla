--------------------------- MODULE MCOpenHeaders ---------------------------
(* OpenHeaders for TLC: the timeouts of MCWireCodec, two configured      *)
(* headers and one that is not, and request header lines covering none,  *)
(* one, a repeated and an unmapped header, both versions, two bodies.     *)
EXTENDS OpenHeaders, MCWireCodec

CONSTANTS t1, s1, s2

MCMapping == ("accept" :> "accept") @@ ("x-tag" :> "tag")

A == <<"a">>
B == <<"b">>
MCLineSeqs ==
  { <<>>,
    << <<"accept", A>> >>,
    << <<"cookie", A>> >>,
    << <<"x-tag", A>>, <<"x-tag", B>> >>,
    << <<"accept", B>>, <<"cookie", A>>, <<"x-tag", A>> >>,
    << <<"x-tag", B>>, <<"accept", A>>, <<"x-tag", A>> >> }

(* The two versions hyper's HTTP/1 parser yields, one without a body and  *)
(* one with a two-byte body.                                               *)
MCMessages == {<<"Http10", <<>>>>, <<"Http11", A \o B>>}
=============================================================================
