---------------------------- MODULE SharedGroup ----------------------------
(***************************************************************************)
(* What is left of the promise of AtLeastOnce when several members share a *)
(* group and partitions are handed over with messages in hand: the offset  *)
(* may go back, by any number, but it is never beyond what is settled, and *)
(* of each partition the messages are settled for the first time in the    *)
(* order they were appended, whoever does it.                              *)
(***************************************************************************)
EXTENDS Naturals

CONSTANTS Partition, MaxLog

VARIABLES
    log,        \* per partition, the number of messages appended
    committed,  \* per partition, how many the group is past
    settled     \* the messages <<p, i>> whose fate is decided

vars == <<log, committed, settled>>

Init ==
    /\ log = [p \in Partition |-> 0]
    /\ committed = [p \in Partition |-> 0]
    /\ settled = {}

AppendTo(p) ==
    /\ log[p] < MaxLog
    /\ log' = [log EXCEPT ![p] = @ + 1]
    /\ UNCHANGED <<committed, settled>>

\* Everything up to the i-th message of the partition is settled.
SettledUpTo(p, i) == \A j \in 1 .. i : <<p, j>> \in settled

Settle(p) ==
    \E i \in 1 .. log[p] :
        /\ SettledUpTo(p, i - 1)
        /\ settled' = settled \cup {<<p, i>>}
        /\ UNCHANGED <<log, committed>>

Commit(p) ==
    \E i \in 1 .. log[p] :
        /\ SettledUpTo(p, i)
        /\ committed' = [committed EXCEPT ![p] = i]
        /\ UNCHANGED <<log, settled>>

Next == \E p \in Partition : AppendTo(p) \/ Settle(p) \/ Commit(p)

Spec == Init /\ [][Next]_vars

=============================================================================
