------------------------- MODULE MCServiceFactory -------------------------
EXTENDS ServiceFactory

CONSTANTS w1, w2, w3

MCWorkers == {w1, w2, w3}
=============================================================================
