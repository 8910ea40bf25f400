-------------------------- MODULE MCStatusService --------------------------
\* One partition; "bad" does not decode.
EXTENDS StatusService, TLC

CONSTANTS low, high, bad, p1

MCKeyPartition == (low :> p1) @@ (high :> p1) @@ (bad :> p1)
MCSeverityOf == (low :> "low") @@ (high :> "high")
=============================================================================
