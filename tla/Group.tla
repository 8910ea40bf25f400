------------------------------- MODULE Group --------------------------------
(***************************************************************************)
(* A consumer group with several members: instances of events, or of       *)
(* status, that run kafkax.Consume with the same group.  Consume has the   *)
(* steps of one member in detail; here a message is handled in one step,   *)
(* with all its attempts and the copy to the DLQ, and what matters is how  *)
(* partitions are handed over while a message is in hand.  Broker and      *)
(* reader are external: a generation is a rebalance of the group, a member *)
(* learns of it later, and a commit is refused if its sender is not in the *)
(* generation, but not for being of a partition that is another's by now.  *)
(***************************************************************************)
EXTENDS Naturals

CONSTANTS
    Member,         \* the instances
    Partition,      \* the partitions of the topic
    NoMessage,      \* no message in hand
    MaxLog,         \* bound: messages per partition
    MaxGenerations, \* bound: rebalances
    MaxFaults       \* bound: crashes and failed commits

ASSUME GroupAssumption ==
    /\ NoMessage \notin Partition \X Nat \X Nat
    /\ MaxLog \in Nat /\ MaxGenerations \in Nat /\ MaxFaults \in Nat

VARIABLES
    log,            \* per partition, the number of messages appended
    committed,      \* per partition, the group's offset
    generation,     \* rebalances so far
    owner,          \* the assignment: which member has a partition
    members,        \* the members of the generation
    joined,         \* the generation a member knows itself in; 0: in none
    mine,           \* the partitions a member's reader reads
    position,       \* per member and partition, the offset of its reader
    hand,           \* the message a member has in hand, with the generation of its fetch
    done,           \* the members whose handler has returned: inside CommitMessages
    faults,         \* faults so far
    handled,        \* history: the messages that were handled
    times,          \* history: how often a message was handled, for each fetch of it
    late            \* history: partitions that got a late commit in this generation

brokerVars == <<log, committed, generation, owner, members>>
readerVars == <<joined, mine, position>>
workVars == <<hand, done, handled, times>>
vars == <<brokerVars, readerVars, workVars, faults, late>>

Id == Partition \X (1 .. MaxLog)

\* A message together with the generation in which it was fetched.
Fetch == Partition \X (1 .. MaxLog) \X (1 .. MaxGenerations)

\* EnsureTopic: the topic, with its partitions and no message.
EmptyTopic == [p \in Partition |-> 0]

Init ==
    /\ log = EmptyTopic
    /\ committed = [p \in Partition |-> 0]
    /\ generation = 0
    /\ owner \in [Partition -> Member]
    /\ members = {}
    /\ joined = [m \in Member |-> 0]
    /\ mine = [m \in Member |-> {}]
    /\ position = [m \in Member |-> [p \in Partition |-> 0]]
    /\ hand = [m \in Member |-> NoMessage]
    /\ done = {}
    /\ faults = 0
    /\ handled = {}
    /\ times = [f \in Fetch |-> 0]
    /\ late = {}

Fault == faults < MaxFaults /\ faults' = faults + 1

Produce(p) ==
    /\ log[p] < MaxLog
    /\ log' = [log EXCEPT ![p] = @ + 1]
    /\ UNCHANGED <<committed, generation, owner, members, readerVars, workVars, faults, late>>

\* A member comes, leaves, or is not heard of for too long: every partition gets an
\* owner among those that take part.
Rebalance ==
    /\ generation < MaxGenerations
    /\ generation' = generation + 1
    /\ members' \in SUBSET Member \ {{}}
    /\ owner' \in [Partition -> members']
    /\ late' = {}
    /\ UNCHANGED <<log, committed, readerVars, workVars, faults>>

\* The reader is in no generation, and has no partition to read.
Detach(m) ==
    /\ joined' = [joined EXCEPT ![m] = 0]
    /\ mine' = [mine EXCEPT ![m] = {}]
    /\ position' = [position EXCEPT ![m] = [p \in Partition |-> 0]]

\* The reader's goroutine, which does not wait for the handler, learns that its
\* generation has ended and drops what it has read.
Unsubscribe(m) ==
    /\ joined[m] \notin {0, generation}
    /\ Detach(m)
    /\ UNCHANGED <<brokerVars, workVars, faults, late>>

\* Mutant of Subscribe: a new member starts at the end (LastOffset).
SubscribeAtTheEnd(m) ==
    /\ m \in members
    /\ joined[m] = 0
    /\ joined' = [joined EXCEPT ![m] = generation]
    /\ mine' = [mine EXCEPT ![m] = {p \in Partition : owner[p] = m}]
    /\ position' = [position EXCEPT ![m] = [p \in Partition |-> IF owner[p] = m THEN log[p] ELSE 0]]
    /\ UNCHANGED <<brokerVars, workVars, faults, late>>

\* Mutant of Subscribe: a new member starts at the beginning (FirstOffset), always.
SubscribeAtTheStart(m) ==
    /\ m \in members
    /\ joined[m] = 0
    /\ joined' = [joined EXCEPT ![m] = generation]
    /\ mine' = [mine EXCEPT ![m] = {p \in Partition : owner[p] = m}]
    /\ position' = [position EXCEPT ![m] = [p \in Partition |-> 0]]
    /\ UNCHANGED <<brokerVars, workVars, faults, late>>

\* It takes its partitions from where the group is.
Subscribe(m) ==
    /\ m \in members
    /\ joined[m] = 0
    /\ joined' = [joined EXCEPT ![m] = generation]
    /\ mine' = [mine EXCEPT ![m] = {p \in Partition : owner[p] = m}]
    /\ position' = [position EXCEPT ![m] = [p \in Partition |-> IF owner[p] = m THEN committed[p] ELSE 0]]
    /\ UNCHANGED <<brokerVars, workVars, faults, late>>

FetchMessage(m, p) ==
    /\ hand[m] = NoMessage
    /\ p \in mine[m]
    /\ position[m][p] < log[p]
    /\ position' = [position EXCEPT ![m][p] = @ + 1]
    /\ hand' = [hand EXCEPT ![m] = <<p, position[m][p] + 1, joined[m]>>]
    /\ UNCHANGED <<brokerVars, joined, mine, done, handled, times, faults, late>>

CountHandling(m) ==
    /\ handled' = handled \cup {<<hand[m][1], hand[m][2]>>}
    /\ times' = [times EXCEPT ![hand[m]] = @ + 1]

\* Mutant of Handle: the message goes back to the reader's queue.
HandleAgain(m) ==
    /\ hand[m] # NoMessage /\ m \notin done
    /\ CountHandling(m)
    /\ done' \in {done, done \cup {m}}
    /\ UNCHANGED <<brokerVars, readerVars, hand, faults, late>>

\* processWithRetry has returned, and the copy to the DLQ if it gave up.
Handle(m) ==
    /\ hand[m] # NoMessage /\ m \notin done
    /\ CountHandling(m)
    /\ done' = done \cup {m}
    /\ UNCHANGED <<brokerVars, readerVars, hand, faults, late>>

CommittedIsHand(m) == committed' = [committed EXCEPT ![hand[m][1]] = hand[m][2]]

\* The message was fetched in an earlier generation than the one it is committed in.
IsLate(m) == hand[m][3] < joined[m]
LateAfter(m) == late' = IF IsLate(m) THEN late \cup {hand[m][1]} ELSE late

EmptyHands(m) ==
    /\ hand' = [hand EXCEPT ![m] = NoMessage]
    /\ done' = done \ {m}

\* The commit is sent in the generation the member is in by now, and accepted,
\* whoever owns the partition; while it is in none, CommitMessages waits.
Commit(m) ==
    /\ m \in done
    /\ joined[m] = generation /\ m \in members
    /\ CommittedIsHand(m)
    /\ LateAfter(m)
    /\ EmptyHands(m)
    /\ UNCHANGED <<log, generation, owner, members, readerVars, handled, times, faults>>

\* The member leaves the group, by Close or by its death.
Leaves(m) ==
    /\ members' = members \ {m}
    /\ Detach(m)
    /\ EmptyHands(m)

\* The generation has ended: the commit is refused, and Consume returns.
CommitRefused(m) ==
    /\ m \in done
    /\ joined[m] \notin {0, generation}
    /\ Leaves(m)
    /\ UNCHANGED <<log, committed, generation, owner, handled, times, faults, late>>

\* The commit fails, applied or not, and Consume returns.
CommitFails(m) ==
    /\ m \in done
    /\ joined[m] = generation /\ m \in members
    /\ Fault
    /\ \/ CommittedIsHand(m) /\ LateAfter(m)
       \/ UNCHANGED <<committed, late>>
    /\ Leaves(m)
    /\ UNCHANGED <<log, generation, owner, handled, times>>

Crash(m) ==
    /\ joined[m] # 0 \/ hand[m] # NoMessage
    /\ Fault
    /\ Leaves(m)
    /\ UNCHANGED <<log, committed, generation, owner, handled, times, late>>

Next ==
    \/ \E p \in Partition : Produce(p)
    \/ Rebalance
    \/ \E m \in Member : Unsubscribe(m)
    \/ \E m \in Member : Subscribe(m)
    \/ \E m \in Member, p \in Partition : FetchMessage(m, p)
    \/ \E m \in Member : Handle(m)
    \/ \E m \in Member : Commit(m)
    \/ \E m \in Member : CommitRefused(m)
    \/ \E m \in Member : CommitFails(m)
    \/ \E m \in Member : Crash(m)

Spec == Init /\ [][Next]_vars

-----------------------------------------------------------------------------

\* The types of all variables.
TypeOK ==
    /\ log \in [Partition -> 0 .. MaxLog]
    /\ committed \in [Partition -> 0 .. MaxLog]
    /\ generation \in 0 .. MaxGenerations
    /\ owner \in [Partition -> Member]
    /\ members \subseteq Member
    /\ joined \in [Member -> 0 .. generation]
    /\ mine \in [Member -> SUBSET Partition]
    /\ position \in [Member -> [Partition -> 0 .. MaxLog]]
    /\ hand \in [Member -> Fetch \cup {NoMessage}]
    /\ done \subseteq {m \in Member : hand[m] # NoMessage}
    /\ faults \in 0 .. MaxFaults
    /\ handled \subseteq Id
    /\ times \in [Fetch -> Nat]
    /\ late \subseteq Partition

\* The group is never past a message that nobody has handled, although partitions
\* are handed over with a message in hand and an earlier owner may commit late.
NothingSkipped ==
    \A p \in Partition : \A i \in 1 .. committed[p] : <<p, i>> \in handled

\* A message is handled once at most for each generation in which it is fetched, so
\* it takes a rebalance to see it again ("el handler debe aguantar duplicados").  An
\* earlier owner who has it in hand may handle it after the partition's new owner
\* did: that is the handling of its own fetch.
RepeatsCostGenerations ==
    \A f \in Fetch : times[f] <= (IF f[3] <= generation THEN 1 ELSE 0)

\* The group goes back only after the late commit of a message that was fetched in
\* an earlier generation: that commit itself, or that of the partition's owner, who
\* was not told that another had committed beyond it.
BackOnlyByALateCommit ==
    [][\A p \in Partition : committed'[p] < committed[p] => p \in late']_vars

\* However partitions are handed over, messages are handled for the first time in the
\* order of their partition, and the group is never past one that was not handled.
Shared == INSTANCE SharedGroup WITH settled <- handled
ImplementsSharedGroup == Shared!Spec

=============================================================================
