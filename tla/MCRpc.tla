------------------------------- MODULE MCRpc --------------------------------
\* Two addresses and two calls at once.
EXTENDS Rpc, TLC

CONSTANTS i1, i2, c1, c2
=============================================================================
