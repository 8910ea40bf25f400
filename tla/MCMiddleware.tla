---------------------------- MODULE MCMiddleware ----------------------------
\* Two addresses and two calls at once.
EXTENDS Middleware, TLC

CONSTANTS i1, i2, c1, c2
=============================================================================
