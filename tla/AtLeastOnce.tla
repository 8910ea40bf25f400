---------------------------- MODULE AtLeastOnce ----------------------------
(***************************************************************************)
(* What a consumer group promises to whoever appends to its topic: per     *)
(* partition, messages are settled in the order they were appended, and    *)
(* the group moves past a message only after it was settled.  Nothing is   *)
(* said of how often a message is settled: at least once.                  *)
(***************************************************************************)
EXTENDS Naturals, Sequences

CONSTANTS Partition, Message, MaxLog

VARIABLES
    log,        \* per partition, the messages appended
    committed,  \* per partition, how many the group is past
    settled     \* the messages <<p, i>> whose fate is decided

vars == <<log, committed, settled>>

Init ==
    /\ log = [p \in Partition |-> <<>>]
    /\ committed = [p \in Partition |-> 0]
    /\ settled = {}

AppendTo(p) ==
    /\ Len(log[p]) < MaxLog
    /\ \E m \in Message : log' = [log EXCEPT ![p] = Append(@, m)]
    /\ UNCHANGED <<committed, settled>>

\* Only the first message that is not committed may be settled.
Settle(p) ==
    /\ committed[p] < Len(log[p])
    /\ settled' = settled \cup {<<p, committed[p] + 1>>}
    /\ UNCHANGED <<log, committed>>

Commit(p) ==
    /\ <<p, committed[p] + 1>> \in settled
    /\ committed' = [committed EXCEPT ![p] = @ + 1]
    /\ UNCHANGED <<log, settled>>

Next == \E p \in Partition : AppendTo(p) \/ Settle(p) \/ Commit(p)

Spec == Init /\ [][Next]_vars

=============================================================================
