--------------------------- MODULE MCProxyService ---------------------------
(* ProxyService for TLC: one connection carrying                          *)
(* the one request of MCAppRoute.                                          *)
EXTENDS ProxyService, MCAppRoute

CONSTANTS k1

MCConns == {k1}
MCConnOf == [r \in MCRequests |-> k1]
=============================================================================
