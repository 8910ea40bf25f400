-------------------------- MODULE MCEventsService --------------------------
\* One partition, where the order is promised; a message that always fails
\* (bad) lies before, between and after good ones (login).
EXTENDS EventsService, TLC

CONSTANTS login, bad, p1

MCKeyPartition == (login :> p1) @@ (bad :> p1)
=============================================================================
