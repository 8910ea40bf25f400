---------------------------- MODULE Group_proofs ----------------------------
(***************************************************************************)
(* Proofs about Group, for any members, partitions and bounds.  That       *)
(* nothing is skipped is an argument about offsets: everything below the   *)
(* group's offset, below the message in a hand and below a reader's offset *)
(* is handled, but for the message in hand.  That repeats cost generations *)
(* is one about fetches: what a reader of some generation has yet to       *)
(* reach, and what an owner who has yet to subscribe will read, nobody has *)
(* fetched in that generation, since the partition is no other reader's.   *)
(***************************************************************************)
EXTENDS Group, TLAPS

\* A member in no generation reads nothing; one in this generation reads what it
\* owns; and there are no members before the first.
Attached ==
    /\ members # {} => generation > 0
    /\ \A m \in Member :
         /\ joined[m] = 0 => mine[m] = {}
         /\ joined[m] = generation /\ generation > 0 => mine[m] = {p \in Partition : owner[p] = m}

\* A message that was fetched in this generation is in the hand of the reader that
\* is there, and no generation is to come.
HandKnown ==
    \A m \in Member : hand[m] # NoMessage =>
        /\ hand[m][3] <= generation
        /\ hand[m][3] = generation =>
             /\ joined[m] = generation
             /\ hand[m][1] \in mine[m]
             /\ position[m][hand[m][1]] = hand[m][2]

\* What every other invariant rests on.
GroupInv == TypeOK /\ Attached /\ HandKnown

-----------------------------------------------------------------------------

\* The parts of a message in hand.
LEMMA HandType ==
    ASSUME TypeOK, NEW m \in Member, hand[m] # NoMessage
    PROVE  /\ hand[m][1] \in Partition
           /\ hand[m][2] \in 1 .. MaxLog
           /\ hand[m][3] \in 1 .. MaxGenerations
           /\ <<hand[m][1], hand[m][2]>> \in Id
  BY DEF TypeOK, Id, Fetch

\* It is of a fetch.
LEMMA HandFetch ==
    ASSUME TypeOK, NEW m \in Member, hand[m] # NoMessage
    PROVE  hand[m] \in Fetch
  BY DEF TypeOK

\* A member that leaves keeps the invariant, whatever is committed and counted as a
\* fault on the way.
LEMMA LeavesKeeps ==
    ASSUME GroupInv, NEW m \in Member, Leaves(m),
           UNCHANGED <<log, generation, owner, handled, times>>,
           committed' \in [Partition -> 0 .. MaxLog],
           faults' \in 0 .. MaxFaults,
           late' \subseteq Partition
    PROVE  GroupInv'
<1>1. TypeOK'
  <2>1. /\ members' \subseteq Member
        /\ joined' \in [Member -> 0 .. generation']
        /\ mine' \in [Member -> SUBSET Partition]
    BY DEF GroupInv, TypeOK, Leaves, Detach
  <2>2. position' \in [Member -> [Partition -> 0 .. MaxLog]]
    BY GroupAssumption DEF GroupInv, TypeOK, Leaves, Detach
  <2>3. /\ hand' \in [Member -> Fetch \cup {NoMessage}]
        /\ done' \subseteq {n \in Member : hand'[n] # NoMessage}
    BY DEF GroupInv, TypeOK, Leaves, EmptyHands
  <2>4. QED
    BY <2>1, <2>2, <2>3 DEF GroupInv, TypeOK
<1>2. Attached'
  BY DEF GroupInv, TypeOK, Attached, Leaves, Detach
<1>3. HandKnown'
  BY DEF GroupInv, TypeOK, HandKnown, Leaves, Detach, EmptyHands
<1>4. QED
  BY <1>1, <1>2, <1>3 DEF GroupInv

\* Every step keeps it.
LEMMA GroupStep == GroupInv /\ [Next]_vars => GroupInv'
<1> SUFFICES ASSUME GroupInv, [Next]_vars PROVE GroupInv'
  OBVIOUS
<1> USE DEF GroupInv
<1>1. ASSUME NEW p \in Partition, Produce(p) PROVE GroupInv'
  <2>1. log' \in [Partition -> 0 .. MaxLog]
    BY <1>1, GroupAssumption DEF TypeOK, Produce
  <2>2. QED
    BY <1>1, <2>1 DEF TypeOK, Attached, HandKnown, Produce, readerVars, workVars
<1>2. CASE Rebalance
  <2>1. /\ generation' \in 0 .. MaxGenerations /\ generation' = generation + 1
        /\ members' \subseteq Member /\ owner' \in [Partition -> Member]
        /\ joined' \in [Member -> 0 .. generation']
        /\ \A m \in Member : joined'[m] # generation'
    BY <1>2, GroupAssumption DEF TypeOK, Rebalance, readerVars
  <2>2. TypeOK'
    BY <1>2, <2>1 DEF TypeOK, Rebalance, readerVars, workVars
  <2>3. Attached'
    BY <1>2, <2>1 DEF TypeOK, Attached, Rebalance, readerVars
  <2>4. HandKnown'
    BY <1>2, <2>1, HandType DEF Fetch, TypeOK, HandKnown, Rebalance, readerVars, workVars
  <2>5. QED
    BY <2>2, <2>3, <2>4
<1>3. ASSUME NEW m \in Member, Unsubscribe(m) PROVE GroupInv'
  <2>1. TypeOK'
    BY <1>3, GroupAssumption DEF TypeOK, Unsubscribe, Detach, brokerVars, workVars
  <2>2. Attached'
    BY <1>3 DEF TypeOK, Attached, Unsubscribe, Detach, brokerVars
  <2>3. HandKnown'
    BY <1>3 DEF TypeOK, HandKnown, Unsubscribe, Detach, brokerVars, workVars
  <2>4. QED
    BY <2>1, <2>2, <2>3
<1>4. ASSUME NEW m \in Member, Subscribe(m) PROVE GroupInv'
  <2>1. TypeOK'
    BY <1>4, GroupAssumption DEF TypeOK, Subscribe, brokerVars, workVars
  <2>2. Attached'
    BY <1>4 DEF TypeOK, Attached, Subscribe, brokerVars
  <2>3. generation > 0
    BY <1>4 DEF Attached, Subscribe
  <2>4. HandKnown'
    BY <1>4, <2>3 DEF TypeOK, HandKnown, Subscribe, brokerVars, workVars
  <2>5. QED
    BY <2>1, <2>2, <2>4
<1>5. ASSUME NEW m \in Member, NEW p \in Partition, FetchMessage(m, p) PROVE GroupInv'
  <2>1. joined[m] \in 1 .. generation /\ position[m][p] + 1 \in 1 .. MaxLog
    BY <1>5, GroupAssumption DEF TypeOK, Attached, FetchMessage
  <2>2. /\ position' \in [Member -> [Partition -> 0 .. MaxLog]]
        /\ \A n \in Member, q \in Partition :
             position'[n][q] = IF n = m /\ q = p THEN position[m][p] + 1 ELSE position[n][q]
    BY <1>5, <2>1 DEF TypeOK, FetchMessage
  <2>3. joined[m] \in 1 .. MaxGenerations
    BY <2>1, GroupAssumption DEF TypeOK
  <2>4. <<p, position[m][p] + 1, joined[m]>> \in Fetch
    BY <2>1, <2>3 DEF Fetch
  <2>5. NoMessage # <<p, position[m][p] + 1, joined[m]>>
    BY <2>4, GroupAssumption DEF Fetch
  <2>6. /\ hand' \in [Member -> Fetch \cup {NoMessage}]
        /\ \A n \in Member : hand'[n] = IF n = m THEN <<p, position[m][p] + 1, joined[m]>> ELSE hand[n]
    BY <1>5, <2>4 DEF TypeOK, FetchMessage
  <2>7. TypeOK'
    BY <1>5, <2>2, <2>5, <2>6 DEF TypeOK, FetchMessage, brokerVars
  <2>8. Attached'
    BY <1>5 DEF Attached, FetchMessage, brokerVars
  <2>9. HandKnown'
    <3> SUFFICES ASSUME NEW n \in Member, hand'[n] # NoMessage
                 PROVE  /\ hand'[n][3] <= generation'
                        /\ hand'[n][3] = generation' =>
                             /\ joined'[n] = generation'
                             /\ hand'[n][1] \in mine'[n]
                             /\ position'[n][hand'[n][1]] = hand'[n][2]
      BY DEF HandKnown
    <3>1. CASE n = m
      BY <1>5, <2>1, <2>2, <2>6, <3>1 DEF TypeOK, FetchMessage, brokerVars
    <3>2. CASE n # m
      BY <1>5, <2>2, <2>6, <3>2, HandType DEF TypeOK, HandKnown, FetchMessage, brokerVars
    <3>3. QED
      BY <3>1, <3>2
  <2>10. QED
    BY <2>7, <2>8, <2>9
<1>6. ASSUME NEW m \in Member, Handle(m) PROVE GroupInv'
  <2>1. /\ handled' \subseteq Id /\ times' \in [Fetch -> Nat]
        /\ done' \subseteq {n \in Member : hand[n] # NoMessage}
    BY <1>6, HandType, HandFetch DEF TypeOK, Handle, CountHandling
  <2>2. QED
    BY <1>6, <2>1 DEF TypeOK, Attached, HandKnown, Handle, brokerVars, readerVars
<1>7. ASSUME NEW m \in Member, Commit(m) PROVE GroupInv'
  <2>1. hand[m] # NoMessage
    BY <1>7 DEF TypeOK, Commit
  <2>2. committed' \in [Partition -> 0 .. MaxLog] /\ late' \subseteq Partition
    BY <1>7, <2>1, HandType DEF Fetch, TypeOK, Commit, CommittedIsHand, LateAfter
  <2>3. /\ hand' \in [Member -> Fetch \cup {NoMessage}]
        /\ done' \subseteq {n \in Member : hand'[n] # NoMessage}
    BY <1>7 DEF TypeOK, Commit, EmptyHands
  <2>4. TypeOK'
    BY <1>7, <2>2, <2>3 DEF TypeOK, Commit, readerVars
  <2>5. Attached'
    BY <1>7 DEF Attached, Commit, readerVars
  <2>6. HandKnown'
    BY <1>7 DEF TypeOK, HandKnown, Commit, EmptyHands, readerVars
  <2>7. QED
    BY <2>4, <2>5, <2>6
<1>8. ASSUME NEW m \in Member, CommitRefused(m) \/ Crash(m) PROVE GroupInv'
  BY <1>8, LeavesKeeps, GroupAssumption DEF TypeOK, CommitRefused, Crash, Fault
<1>9. ASSUME NEW m \in Member, CommitFails(m) PROVE GroupInv'
  <2>1. hand[m] # NoMessage
    BY <1>9 DEF TypeOK, CommitFails
  <2>2. committed' \in [Partition -> 0 .. MaxLog] /\ late' \subseteq Partition
    <3>1. CASE UNCHANGED <<committed, late>>
      BY <3>1 DEF TypeOK
    <3>2. CASE CommittedIsHand(m) /\ LateAfter(m)
      BY <2>1, <3>2, HandType DEF Fetch, TypeOK, CommittedIsHand, LateAfter
    <3>3. QED
      BY <1>9, <3>1, <3>2 DEF CommitFails
  <2>3. QED
    BY <1>9, <2>2, LeavesKeeps, GroupAssumption DEF TypeOK, CommitFails, Fault
<1>10. CASE UNCHANGED vars
  BY <1>10 DEF TypeOK, Attached, HandKnown, vars, brokerVars, readerVars, workVars
<1>11. QED
  BY <1>1, <1>2, <1>3, <1>4, <1>5, <1>6, <1>7, <1>8, <1>9, <1>10 DEF Next

\* It holds at the start.
LEMMA GroupInit == Init => GroupInv
<1> SUFFICES ASSUME Init PROVE GroupInv
  OBVIOUS
<1>1. TypeOK
  BY GroupAssumption DEF Init, EmptyTopic, TypeOK
<1>2. Attached /\ HandKnown
  BY DEF Init, EmptyTopic, Attached, HandKnown
<1>3. QED
  BY <1>1, <1>2 DEF GroupInv

\* The types, and what a member and a hand know, in every state.
THEOREM GroupTypes == Spec => []GroupInv
  BY GroupInit, GroupStep, PTL DEF Spec

-----------------------------------------------------------------------------
\* Nothing is skipped.

HandledTo(p, n) == \A i \in 1 .. n : <<p, i>> \in handled

\* Everything before a message in hand is handled, and it too once its member is done.
BeforeHand ==
    \A m \in Member : hand[m] # NoMessage =>
        /\ \A i \in 1 .. MaxLog : i < hand[m][2] => <<hand[m][1], i>> \in handled
        /\ m \in done => <<hand[m][1], hand[m][2]>> \in handled

\* Everything before the offset of a reader is handled, but for the message in hand.
BeforeReader ==
    \A m \in Member : \A p \in mine[m] : \A i \in 1 .. position[m][p] :
        \/ <<p, i>> \in handled
        \/ m \notin done /\ hand[m] # NoMessage /\ hand[m][1] = p /\ hand[m][2] = i

SkipInv == NothingSkipped /\ BeforeHand /\ BeforeReader

\* What is handled stays so, and Handle adds to it.
LEMMA HandledGrows ==
    ASSUME GroupInv, [Next]_vars, NEW id \in handled
    PROVE  id \in handled'
<1>1. ASSUME NEW m \in Member, Handle(m) PROVE id \in handled'
  BY <1>1 DEF Handle, CountHandling
<1>2. CASE UNCHANGED handled
  BY <1>2
<1>3. QED
  BY <1>1, <1>2 DEF Next, vars, workVars, Produce, Rebalance, Unsubscribe, Subscribe, FetchMessage,
     Commit, CommitRefused, CommitFails, Crash

\* A commit puts the group where everything is handled.
LEMMA CommitIsHandled ==
    ASSUME GroupInv, SkipInv, NEW m \in Member, m \in done, CommittedIsHand(m), UNCHANGED handled
    PROVE  NothingSkipped'
<1>1. hand[m] # NoMessage
  BY DEF GroupInv, TypeOK
<1>2. hand[m][1] \in Partition /\ hand[m][2] \in 1 .. MaxLog
  BY <1>1, HandType DEF GroupInv
<1>3. \A i \in 1 .. hand[m][2] : <<hand[m][1], i>> \in handled
  <2>1. ASSUME NEW i \in 1 .. hand[m][2] PROVE <<hand[m][1], i>> \in handled
    <3>1. i \in 1 .. MaxLog /\ (i < hand[m][2] \/ i = hand[m][2])
      BY <1>2, GroupAssumption
    <3>2. QED
      BY <1>1, <3>1 DEF SkipInv, BeforeHand
  <2>2. QED
    BY <2>1
<1>4. \A p \in Partition : committed'[p] = IF p = hand[m][1] THEN hand[m][2] ELSE committed[p]
  BY <1>2 DEF GroupInv, TypeOK, CommittedIsHand
<1>5. QED
  BY <1>3, <1>4 DEF SkipInv, NothingSkipped

\* Empty hands leave the rest true.
LEMMA EmptyHandsKeeps ==
    ASSUME GroupInv, SkipInv, NEW m \in Member, EmptyHands(m), UNCHANGED handled,
           \/ m \in done /\ UNCHANGED <<mine, position>>
           \/ Detach(m)
    PROVE  BeforeHand' /\ BeforeReader'
<1>1. BeforeHand'
  BY DEF GroupInv, TypeOK, SkipInv, BeforeHand, EmptyHands
<1>2. ASSUME NEW n \in Member, NEW p \in mine'[n], NEW i \in 1 .. position'[n][p]
      PROVE  \/ <<p, i>> \in handled'
             \/ n \notin done' /\ hand'[n] # NoMessage /\ hand'[n][1] = p /\ hand'[n][2] = i
  <2>1. CASE n # m
    <3>1. p \in mine[n] /\ i \in 1 .. position[n][p]
      BY <2>1 DEF GroupInv, TypeOK, Detach
    <3>2. hand'[n] = hand[n] /\ (n \in done' <=> n \in done)
      BY <2>1 DEF GroupInv, TypeOK, EmptyHands
    <3>3. QED
      BY <3>1, <3>2 DEF SkipInv, BeforeReader
  <2>2. CASE n = m
    <3>1. ~Detach(m)
      BY <2>2 DEF GroupInv, TypeOK, Detach
    <3>2. QED
      BY <2>2, <3>1 DEF SkipInv, BeforeReader
  <2>3. QED
    BY <2>1, <2>2
<1>3. BeforeReader'
  BY <1>2 DEF BeforeReader
<1>4. QED
  BY <1>1, <1>3

\* Every step keeps it.
LEMMA SkipStep == GroupInv /\ SkipInv /\ [Next]_vars => SkipInv'
<1> SUFFICES ASSUME GroupInv, SkipInv, [Next]_vars PROVE SkipInv'
  OBVIOUS
<1> USE DEF SkipInv
<1>1. ASSUME UNCHANGED <<committed, readerVars, workVars>> PROVE SkipInv'
  BY <1>1 DEF NothingSkipped, BeforeHand, BeforeReader, readerVars, workVars
<1>2. ASSUME NEW m \in Member, Unsubscribe(m) PROVE SkipInv'
  BY <1>2 DEF GroupInv, TypeOK, NothingSkipped, BeforeHand, BeforeReader, Unsubscribe, Detach, brokerVars, workVars
<1>3. ASSUME NEW m \in Member, Subscribe(m) PROVE SkipInv'
  <2>1. NothingSkipped' /\ BeforeHand'
    BY <1>3 DEF NothingSkipped, BeforeHand, Subscribe, brokerVars, workVars
  <2>2. ASSUME NEW n \in Member, NEW p \in mine'[n], NEW i \in 1 .. position'[n][p]
        PROVE  \/ <<p, i>> \in handled'
               \/ n \notin done' /\ hand'[n] # NoMessage /\ hand'[n][1] = p /\ hand'[n][2] = i
    <3>1. CASE n = m
      <4>1. p \in Partition /\ owner[p] = m /\ position'[n][p] = committed[p]
        BY <1>3, <3>1 DEF GroupInv, TypeOK, Subscribe
      <4>2. QED
        BY <1>3, <4>1 DEF NothingSkipped, Subscribe, workVars
    <3>2. CASE n # m
      BY <1>3, <3>2 DEF GroupInv, TypeOK, BeforeReader, Subscribe, workVars
    <3>3. QED
      BY <3>1, <3>2
  <2>3. QED
    BY <2>1, <2>2 DEF BeforeReader
<1>4. ASSUME NEW m \in Member, NEW q \in Partition, FetchMessage(m, q) PROVE SkipInv'
  <2>1. NothingSkipped'
    BY <1>4 DEF NothingSkipped, FetchMessage, brokerVars
  <2>2. position[m][q] \in Nat /\ m \notin done
    BY <1>4, GroupAssumption DEF GroupInv, TypeOK, FetchMessage
  <2>3. \A i \in 1 .. position[m][q] : <<q, i>> \in handled
    BY <1>4 DEF BeforeReader, FetchMessage
  <2>4. \A n \in Member : hand'[n] = IF n = m THEN <<q, position[m][q] + 1, joined[m]>> ELSE hand[n]
    BY <1>4 DEF GroupInv, TypeOK, FetchMessage
  <2>5. BeforeHand'
    <3>1. \A i \in 1 .. MaxLog : i < position[m][q] + 1 => <<q, i>> \in handled
      BY <2>2, <2>3
    <3>2. QED
      BY <1>4, <2>2, <2>4, <3>1 DEF BeforeHand, FetchMessage
  <2>6. ASSUME NEW n \in Member, NEW p \in mine'[n], NEW i \in 1 .. position'[n][p]
        PROVE  \/ <<p, i>> \in handled'
               \/ n \notin done' /\ hand'[n] # NoMessage /\ hand'[n][1] = p /\ hand'[n][2] = i
    <3>1. p \in Partition /\ p \in mine[n]
      BY <1>4 DEF GroupInv, TypeOK, FetchMessage
    <3>2. position'[n][p] = IF n = m /\ p = q THEN position[m][q] + 1 ELSE position[n][p]
      BY <1>4, <3>1 DEF GroupInv, TypeOK, FetchMessage
    <3>3. CASE n = m /\ p = q
      <4>1. i \in 1 .. position[m][q] \/ i = position[m][q] + 1
        BY <2>2, <3>2, <3>3
      <4>2. CASE i \in 1 .. position[m][q]
        BY <1>4, <2>3, <3>3, <4>2 DEF FetchMessage
      <4>3. CASE i = position[m][q] + 1
        <5>1. hand'[m] # NoMessage
          BY <1>4, GroupStep, <2>4, HandType, GroupAssumption DEF GroupInv, TypeOK, FetchMessage, Attached
        <5>2. QED
          BY <1>4, <2>2, <2>4, <3>3, <4>3, <5>1 DEF FetchMessage
      <4>4. QED
        BY <4>1, <4>2, <4>3
    <3>4. CASE n = m /\ p # q
      BY <1>4, <3>1, <3>2, <3>4 DEF BeforeReader, FetchMessage
    <3>5. CASE n # m
      BY <1>4, <2>4, <3>1, <3>2, <3>5 DEF BeforeReader, FetchMessage
    <3>6. QED
      BY <3>3, <3>4, <3>5
  <2>7. QED
    BY <2>1, <2>5, <2>6 DEF BeforeReader
<1>5. ASSUME NEW m \in Member, Handle(m) PROVE SkipInv'
  <2> DEFINE its == <<hand[m][1], hand[m][2]>>
  <2>1. its \in Id /\ its \in handled'
    BY <1>5, HandType DEF GroupInv, TypeOK, Handle, CountHandling
  <2>2. \A p \in Partition, i \in 1 .. MaxLog : <<p, i>> \in handled => <<p, i>> \in handled'
    BY HandledGrows DEF Id
  <2>3. NothingSkipped'
    <3>1. ASSUME NEW p \in Partition, NEW i \in 1 .. committed[p] PROVE <<p, i>> \in handled'
      <4>1. i \in 1 .. MaxLog /\ <<p, i>> \in handled
        BY GroupAssumption DEF GroupInv, TypeOK, NothingSkipped
      <4>2. QED
        BY <2>2, <4>1
    <3>2. QED
      BY <1>5, <3>1 DEF NothingSkipped, Handle, brokerVars
  <2>4. BeforeHand'
    BY <1>5, <2>1, <2>2, HandType DEF GroupInv, TypeOK, BeforeHand, Handle
  <2>5. ASSUME NEW n \in Member, NEW p \in mine'[n], NEW i \in 1 .. position'[n][p]
        PROVE  \/ <<p, i>> \in handled'
               \/ n \notin done' /\ hand'[n] # NoMessage /\ hand'[n][1] = p /\ hand'[n][2] = i
    <3>1. p \in mine[n] /\ p \in Partition /\ i \in 1 .. position[n][p] /\ i \in 1 .. MaxLog
      BY <1>5, GroupAssumption DEF GroupInv, TypeOK, Handle, readerVars
    <3>2. \/ <<p, i>> \in handled
          \/ n \notin done /\ hand[n] # NoMessage /\ hand[n][1] = p /\ hand[n][2] = i
      BY <3>1 DEF BeforeReader
    <3>3. CASE <<p, i>> \in handled
      BY <2>2, <3>1, <3>3
    <3>4. CASE n \notin done /\ hand[n] # NoMessage /\ hand[n][1] = p /\ hand[n][2] = i
      BY <1>5, <2>1, <3>4 DEF Handle
    <3>5. QED
      BY <3>2, <3>3, <3>4
  <2>6. QED
    BY <2>3, <2>4, <2>5 DEF BeforeReader
<1>6. ASSUME NEW m \in Member, Commit(m) PROVE SkipInv'
  BY <1>6, CommitIsHandled, EmptyHandsKeeps DEF Commit, readerVars
<1>7. ASSUME NEW m \in Member, CommitRefused(m) \/ CommitFails(m) \/ Crash(m) PROVE SkipInv'
  <2>1. BeforeHand' /\ BeforeReader'
    BY <1>7, EmptyHandsKeeps DEF CommitRefused, CommitFails, Crash, Leaves
  <2>2. NothingSkipped'
    <3>1. CASE UNCHANGED committed
      BY <1>7, <3>1 DEF NothingSkipped, CommitRefused, CommitFails, Crash
    <3>2. CASE CommitFails(m) /\ CommittedIsHand(m)
      BY <3>2, CommitIsHandled DEF CommitFails
    <3>3. QED
      BY <1>7, <3>1, <3>2 DEF CommitRefused, CommitFails, Crash
  <2>3. QED
    BY <2>1, <2>2
<1>8. QED
  BY <1>1, <1>2, <1>3, <1>4, <1>5, <1>6, <1>7 DEF Next, Produce, Rebalance, vars, brokerVars

\* The group is never past a message that nobody has handled.
THEOREM NothingIsSkipped == Spec => []NothingSkipped
<1>1. Init => SkipInv
  BY DEF Init, EmptyTopic, SkipInv, NothingSkipped, BeforeHand, BeforeReader
<1>2. QED
  BY <1>1, GroupTypes, SkipStep, PTL DEF Spec, SkipInv

-----------------------------------------------------------------------------
\* What is left of an at-least-once group.

\* A message in hand was appended.
HandAppended ==
    \A m \in Member : hand[m] # NoMessage => hand[m][2] <= log[hand[m][1]]

LEMMA HandAppendedStep == GroupInv /\ HandAppended /\ [Next]_vars => HandAppended'
<1> SUFFICES ASSUME GroupInv, HandAppended, [Next]_vars,
                    NEW m \in Member, hand'[m] # NoMessage
             PROVE  hand'[m][2] <= log'[hand'[m][1]]
  BY DEF HandAppended
<1>1. \A p \in Partition : log[p] \in Nat /\ log'[p] \in Nat /\ log[p] <= log'[p]
  <2>1. \A p \in Partition : log[p] \in Nat
    BY GroupAssumption DEF GroupInv, TypeOK
  <2>2. CASE \E p \in Partition : Produce(p)
    BY <2>1, <2>2 DEF GroupInv, TypeOK, Produce
  <2>3. CASE UNCHANGED log
    BY <2>1, <2>3
  <2>4. QED
    BY <2>2, <2>3 DEF Next, vars, brokerVars, Rebalance, Unsubscribe, Subscribe, FetchMessage, Handle,
       Commit, CommitRefused, CommitFails, Crash
<1>2. CASE \E n \in Member, p \in Partition : FetchMessage(n, p)
  <2>1. PICK n \in Member, p \in Partition : FetchMessage(n, p)
    BY <1>2
  <2>2. CASE n = m
    <3>1. hand'[m] = <<p, position[m][p] + 1, joined[m]>> /\ position[m][p] < log[p] /\ UNCHANGED log
      BY <2>1, <2>2 DEF GroupInv, TypeOK, FetchMessage, brokerVars
    <3>2. position[m][p] \in Nat /\ log[p] \in Nat
      BY GroupAssumption DEF GroupInv, TypeOK
    <3>3. QED
      BY <3>1, <3>2
  <2>3. CASE n # m
    <3>1. hand'[m] = hand[m] /\ UNCHANGED log
      BY <2>1, <2>3 DEF GroupInv, TypeOK, FetchMessage, brokerVars
    <3>2. QED
      BY <3>1 DEF HandAppended
  <2>4. QED
    BY <2>2, <2>3
<1>3. CASE hand'[m] = hand[m]
  <2>1. hand[m][2] <= log[hand[m][1]] /\ hand[m][1] \in Partition /\ hand[m][2] \in 1 .. MaxLog
    BY <1>3, HandType DEF HandAppended, GroupInv
  <2>2. QED
    BY <1>1, <1>3, <2>1
<1>4. CASE \E n \in Member : EmptyHands(n)
  BY <1>3, <1>4 DEF GroupInv, TypeOK, EmptyHands
<1>5. CASE UNCHANGED hand
  BY <1>3, <1>5
<1>6. QED
  BY <1>2, <1>4, <1>5 DEF Next, vars, workVars, Leaves, Produce, Rebalance, Unsubscribe, Subscribe, Handle,
     Commit, CommitRefused, CommitFails, Crash

\* A step moves the log and the group's offset only by an append or a commit of what
\* some member is done with, and only Handle changes what is handled.
LEMMA GroupMoves ==
    ASSUME GroupInv, [Next]_vars
    PROVE  \/ \E p \in Partition : Produce(p)
           \/ \E m \in Member : Handle(m)
           \/ \E m \in done : CommittedIsHand(m) /\ UNCHANGED <<log, handled>>
           \/ UNCHANGED <<log, committed, handled>>
  BY DEF GroupInv, TypeOK, Next, vars, brokerVars, workVars, Rebalance, Unsubscribe, Subscribe, FetchMessage,
     Commit, CommitRefused, CommitFails, Crash

\* Every step appends a message, settles one that has everything before it settled,
\* puts the group where everything is settled, or is a stutter, for SharedGroup.
LEMMA SharedStep ==
    ASSUME GroupInv, SkipInv, HandAppended, [Next]_vars
    PROVE  [Shared!Next]_(Shared!vars)
<1>1. ASSUME NEW p \in Partition, Produce(p) PROVE Shared!Next
  <2>1. Shared!AppendTo(p)
    BY <1>1 DEF Shared!AppendTo, Produce, workVars
  <2>2. QED
    BY <2>1 DEF Shared!Next
<1>2. ASSUME NEW m \in Member, hand[m] # NoMessage
      PROVE  /\ hand[m][1] \in Partition /\ hand[m][2] \in 1 .. log[hand[m][1]]
             /\ <<hand[m][1], hand[m][2]>> \in Id
             /\ Shared!SettledUpTo(hand[m][1], hand[m][2] - 1)
             /\ m \in done => Shared!SettledUpTo(hand[m][1], hand[m][2])
  <2> DEFINE p == hand[m][1]
             i == hand[m][2]
  <2>1. p \in Partition /\ i \in 1 .. MaxLog /\ <<p, i>> \in Id /\ MaxLog \in Nat
    BY <1>2, HandType, GroupAssumption DEF GroupInv
  <2>2. i <= log[p] /\ log[p] \in 0 .. MaxLog
    BY <1>2, <2>1 DEF HandAppended, GroupInv, TypeOK
  <2>3. \A j \in 1 .. MaxLog : j < i => <<p, j>> \in handled
    BY <1>2 DEF SkipInv, BeforeHand
  <2>4. m \in done => <<p, i>> \in handled
    BY <1>2 DEF SkipInv, BeforeHand
  <2> HIDE DEF p, i
  <2>5. \A j \in 1 .. i - 1 : j \in 1 .. MaxLog /\ j < i
    BY <2>1
  <2>6. \A j \in 1 .. i - 1 : <<p, j>> \in handled
    BY <2>3, <2>5
  <2>7. m \in done => \A j \in 1 .. i : <<p, j>> \in handled
    BY <2>1, <2>4, <2>6
  <2>8. i \in 1 .. log[p]
    BY <2>1, <2>2
  <2>9. QED
    BY <2>1, <2>6, <2>7, <2>8 DEF Shared!SettledUpTo, p, i
<1>3. ASSUME NEW m \in Member, Handle(m) PROVE Shared!Next
  <2> DEFINE p == hand[m][1]
             i == hand[m][2]
  <2>1. hand[m] # NoMessage /\ UNCHANGED <<log, committed>>
        /\ handled' = handled \cup {<<p, i>>}
    BY <1>3 DEF Handle, CountHandling, brokerVars
  <2>2. /\ p \in Partition /\ i \in 1 .. log[p] /\ <<p, i>> \in Id
        /\ Shared!SettledUpTo(p, i - 1)
    BY <1>2, <2>1
  <2> HIDE DEF p, i
  <2>5. Shared!Settle(p)
    BY <2>1, <2>2 DEF Shared!Settle
  <2>6. QED
    BY <2>2, <2>5 DEF Shared!Next
<1>4. ASSUME NEW m \in done, CommittedIsHand(m), UNCHANGED <<log, handled>> PROVE Shared!Next
  <2>1. m \in Member /\ hand[m] # NoMessage
    BY DEF GroupInv, TypeOK
  <2>2. /\ hand[m][1] \in Partition /\ hand[m][2] \in 1 .. log[hand[m][1]]
        /\ Shared!SettledUpTo(hand[m][1], hand[m][2])
    BY <1>2, <2>1
  <2>4. Shared!Commit(hand[m][1])
    BY <1>4, <2>2 DEF Shared!Commit, CommittedIsHand
  <2>5. QED
    BY <2>2, <2>4 DEF Shared!Next
<1>5. ASSUME UNCHANGED <<log, committed, handled>> PROVE UNCHANGED Shared!vars
  BY <1>5 DEF Shared!vars
<1>6. QED
  BY <1>1, <1>3, <1>4, <1>5, GroupMoves

\* Members that share a group, with all hand-overs, late commits and crashes, settle
\* the messages of a partition for the first time in their order, and the group is
\* never past what is settled.
THEOREM ImplementsShared == Spec => ImplementsSharedGroup
<1>1. Init => Shared!Init /\ SkipInv /\ HandAppended
  BY DEF Init, EmptyTopic, Shared!Init, SkipInv, NothingSkipped, BeforeHand, BeforeReader, HandAppended
<1>2. GroupInv /\ SkipInv /\ HandAppended /\ [Next]_vars => [Shared!Next]_(Shared!vars)
  BY SharedStep
<1>3. QED
  BY <1>1, <1>2, GroupTypes, SkipStep, HandAppendedStep, PTL DEF Spec, ImplementsSharedGroup, Shared!Spec

-----------------------------------------------------------------------------
\* The group goes back only by a late commit.

\* Without a late commit the group is not ahead of the reader of a partition.
Ahead ==
    \A m \in Member : \A p \in mine[m] :
        joined[m] = generation /\ p \notin late => committed[p] <= position[m][p]

\* A commit that is not late is that of the owner.
LEMMA OnTimeIsOwners ==
    ASSUME GroupInv, NEW m \in Member, hand[m] # NoMessage, joined[m] = generation, ~IsLate(m)
    PROVE  /\ hand[m][1] \in mine[m]
           /\ position[m][hand[m][1]] = hand[m][2]
           /\ owner[hand[m][1]] = m
           /\ \A n \in Member : n # m /\ joined[n] = generation => hand[m][1] \notin mine[n]
<1>1. hand[m][3] = generation /\ generation > 0
  <2>1. hand[m][3] \in Nat /\ hand[m][3] > 0 /\ generation \in Nat
    BY HandType, GroupAssumption DEF GroupInv, TypeOK, Fetch
  <2>2. hand[m][3] <= generation /\ ~(hand[m][3] < generation)
    BY DEF GroupInv, HandKnown, IsLate
  <2>3. QED
    BY <2>1, <2>2
<1>2. QED
  BY <1>1 DEF GroupInv, HandKnown, Attached

\* A commit moves back a partition that has had a late commit only, and the readers
\* of the others stay ahead.
LEMMA CommitAhead ==
    ASSUME GroupInv, Ahead, NEW m \in Member, m \in done, joined[m] = generation,
           CommittedIsHand(m), LateAfter(m), UNCHANGED generation,
           UNCHANGED <<joined, mine, position>> \/ Detach(m)
    PROVE  /\ Ahead'
           /\ \A p \in Partition : committed'[p] < committed[p] => p \in late'
<1>1. hand[m] # NoMessage
  BY DEF GroupInv, TypeOK
<1>2. hand[m][1] \in Partition /\ hand[m][2] \in 1 .. MaxLog
  BY <1>1, HandType DEF GroupInv
<1>3. \A p \in Partition : committed'[p] = IF p = hand[m][1] THEN hand[m][2] ELSE committed[p]
  BY <1>2 DEF GroupInv, TypeOK, CommittedIsHand
<1>4. \A p \in Partition : committed[p] \in Nat
  BY GroupAssumption DEF GroupInv, TypeOK
<1>5. \A p \in Partition : p \notin late' =>
        /\ p \notin late
        /\ p = hand[m][1] => ~IsLate(m)
  BY DEF LateAfter
<1>6. ASSUME NEW p \in Partition, committed'[p] < committed[p] PROVE p \in late'
  <2>1. p = hand[m][1] /\ hand[m][2] < committed[p]
    BY <1>3, <1>4, <1>6
  <2>2. QED
    BY <1>1, <1>5, <2>1, <1>2, <1>4, OnTimeIsOwners DEF Ahead
<1>7. ASSUME NEW n \in Member, NEW p \in mine'[n], joined'[n] = generation', p \notin late'
      PROVE  committed'[p] <= position'[n][p]
  <2>1. CASE n = m
    <3>1. ~Detach(m)
      BY <2>1 DEF GroupInv, TypeOK, Detach
    <3>2. p \in mine[m] /\ p \in Partition
      BY <2>1, <3>1 DEF GroupInv, TypeOK
    <3>3. CASE p = hand[m][1]
      BY <1>1, <1>2, <1>3, <1>5, <1>7, <2>1, <3>1, <3>2, <3>3, OnTimeIsOwners
    <3>4. CASE p # hand[m][1]
      BY <1>3, <1>5, <1>7, <2>1, <3>1, <3>2, <3>4 DEF Ahead
    <3>5. QED
      BY <3>3, <3>4
  <2>2. CASE n # m
    <3>1. p \in mine[n] /\ p \in Partition /\ joined[n] = generation /\ position'[n] = position[n]
      BY <1>7, <2>2 DEF GroupInv, TypeOK, Detach
    <3>2. p # hand[m][1]
      BY <1>1, <1>5, <1>7, <2>2, <3>1, OnTimeIsOwners
    <3>3. QED
      BY <1>3, <1>5, <1>7, <3>1, <3>2 DEF Ahead
  <2>3. QED
    BY <2>1, <2>2
<1>8. QED
  BY <1>6, <1>7 DEF Ahead

\* Every step keeps it, and goes back after a late commit only.
LEMMA AheadStep ==
    ASSUME GroupInv, Ahead, [Next]_vars
    PROVE  /\ Ahead'
           /\ \A p \in Partition : committed'[p] < committed[p] => p \in late'
<1> DEFINE Goal == /\ Ahead'
                   /\ \A p \in Partition : committed'[p] < committed[p] => p \in late'
<1> USE DEF GroupInv
<1>0. \A p \in Partition : committed[p] \in Nat
  BY GroupAssumption DEF TypeOK
<1>1. ASSUME UNCHANGED <<committed, generation, readerVars, late>> PROVE Goal
  BY <1>0, <1>1 DEF Ahead, readerVars
<1>2. CASE Rebalance
  <2>1. \A m \in Member : joined'[m] # generation'
    BY <1>2 DEF TypeOK, Rebalance, readerVars
  <2>2. QED
    BY <1>0, <1>2, <2>1 DEF Ahead, Rebalance
<1>3. ASSUME NEW m \in Member, Unsubscribe(m) PROVE Goal
  BY <1>0, <1>3 DEF TypeOK, Ahead, Unsubscribe, Detach, brokerVars
<1>4. ASSUME NEW m \in Member, Subscribe(m) PROVE Goal
  <2>1. ASSUME NEW n \in Member, NEW p \in mine'[n], joined'[n] = generation', p \notin late'
        PROVE  committed'[p] <= position'[n][p]
    <3>1. CASE n = m
      <4>1. p \in Partition /\ position'[n][p] = committed[p]
        BY <1>4, <3>1 DEF TypeOK, Subscribe
      <4>2. QED
        BY <1>0, <1>4, <4>1 DEF Subscribe, brokerVars
    <3>2. CASE n # m
      BY <1>4, <2>1, <3>2 DEF TypeOK, Ahead, Subscribe, brokerVars
    <3>3. QED
      BY <3>1, <3>2
  <2>2. QED
    BY <1>0, <1>4, <2>1 DEF Ahead, Subscribe, brokerVars
<1>5. ASSUME NEW m \in Member, NEW q \in Partition, FetchMessage(m, q) PROVE Goal
  <2>1. ASSUME NEW n \in Member, NEW p \in mine'[n], joined'[n] = generation', p \notin late'
        PROVE  committed'[p] <= position'[n][p]
    <3>1. p \in Partition /\ committed'[p] = committed[p] /\ committed[p] <= position[n][p]
      BY <1>5, <2>1 DEF TypeOK, Ahead, FetchMessage, brokerVars
    <3>2. position[n][p] \in Nat /\ position'[n][p] \in {position[n][p], position[n][p] + 1}
      BY <1>5, <3>1, GroupAssumption DEF TypeOK, FetchMessage
    <3>3. QED
      BY <1>0, <3>1, <3>2
  <2>2. QED
    BY <1>0, <1>5, <2>1 DEF Ahead, FetchMessage, brokerVars
<1>6. ASSUME NEW m \in Member, Commit(m) PROVE Goal
  BY <1>6, CommitAhead DEF Commit, readerVars
<1>7. ASSUME NEW m \in Member, Leaves(m), UNCHANGED <<committed, generation, late>> PROVE Goal
  BY <1>0, <1>7 DEF TypeOK, Ahead, Leaves, Detach
<1>8. ASSUME NEW m \in Member, CommitFails(m) PROVE Goal
  <2>1. CASE UNCHANGED <<committed, late>>
    BY <1>7, <1>8, <2>1 DEF CommitFails
  <2>2. CASE CommittedIsHand(m) /\ LateAfter(m)
    BY <1>8, <2>2, CommitAhead DEF CommitFails, Leaves
  <2>3. QED
    BY <1>8, <2>1, <2>2 DEF CommitFails
<1>9. ASSUME NEW m \in Member, CommitRefused(m) \/ Crash(m) PROVE Goal
  BY <1>7, <1>9 DEF CommitRefused, Crash
<1>10. CASE \E p \in Partition : Produce(p)
  BY <1>1, <1>10 DEF Produce
<1>11. CASE \E m \in Member : Handle(m)
  BY <1>1, <1>11 DEF Handle, brokerVars
<1>12. CASE UNCHANGED vars
  BY <1>1, <1>12 DEF vars, brokerVars
<1>13. QED
  BY <1>2, <1>3, <1>4, <1>5, <1>6, <1>8, <1>9, <1>10, <1>11, <1>12 DEF Next

\* The group goes back only by a late commit.
THEOREM BackByLateCommits == Spec => BackOnlyByALateCommit
<1>1. Init => Ahead
  BY DEF Init, EmptyTopic, Ahead
<1>2. GroupInv /\ Ahead /\ [Next]_vars => Ahead'
  BY AheadStep
<1>3. GroupInv /\ Ahead /\ [Next]_vars =>
        [\A p \in Partition : committed'[p] < committed[p] => p \in late']_vars
  BY AheadStep
<1>4. QED
  BY <1>1, <1>2, <1>3, GroupTypes, PTL DEF Spec, BackOnlyByALateCommit

-----------------------------------------------------------------------------
\* Repeats cost generations.

\* Nobody has handled or has in hand what such a fetch would bring.
Untouched(f) == times[f] = 0 /\ \A m \in Member : hand[m] # f

\* The same after a step.
UntouchedNext(f) == times'[f] = 0 /\ \A m \in Member : hand'[m] # f

\* A message in hand that is to be handled yet, and what was fetched once is in one
\* hand only.
HandCounts ==
    /\ \A m \in Member : hand[m] # NoMessage /\ m \notin done => times[hand[m]] = 0
    /\ \A m, n \in Member : hand[m] = hand[n] /\ hand[m] # NoMessage => m = n

\* The readers of a generation read different partitions.
Apart ==
    \A m, n \in Member : m # n /\ joined[m] = joined[n] => mine[m] \cap mine[n] = {}

\* What a reader has yet to reach was not fetched in its generation.
Unread ==
    \A m \in Member : \A p \in mine[m] : \A i \in 1 .. MaxLog :
        position[m][p] < i => Untouched(<<p, i, joined[m]>>)

\* Nor is there anything fetched in this generation of a partition whose owner is
\* still to subscribe.
ToCome ==
    \A p \in Partition : \A i \in 1 .. MaxLog :
        owner[p] \in members /\ joined[owner[p]] # generation => Untouched(<<p, i, generation>>)

RepeatInv == RepeatsCostGenerations /\ HandCounts /\ Apart /\ Unread /\ ToCome

\* A reader's partitions have a generation, and it is one of the bounds.
LEMMA ReaderHasGeneration ==
    ASSUME GroupInv, NEW m \in Member, NEW p \in mine[m], NEW i \in 1 .. MaxLog
    PROVE  p \in Partition /\ joined[m] \in 1 .. generation /\ <<p, i, joined[m]>> \in Fetch
<1>1. /\ joined[m] \in 0 .. generation /\ joined[m] # 0 /\ generation \in 0 .. MaxGenerations
      /\ p \in Partition /\ MaxGenerations \in Nat
  BY GroupAssumption DEF GroupInv, TypeOK, Attached
<1>2. joined[m] \in 1 .. generation /\ joined[m] \in 1 .. MaxGenerations
  BY <1>1
<1>3. QED
  BY <1>1, <1>2 DEF Fetch

\* Where there are members there is a generation.
LEMMA MembersHaveGeneration ==
    ASSUME GroupInv, members # {}, NEW p \in Partition, NEW i \in 1 .. MaxLog
    PROVE  <<p, i, generation>> \in Fetch
  BY GroupAssumption DEF GroupInv, TypeOK, Attached, Fetch

\* The old hands and fewer, the same readers and fewer, and the same counts: all is kept.
LEMMA FewerKeep ==
    ASSUME GroupInv, RepeatInv, UNCHANGED <<times, generation, owner>>,
           members' \subseteq members,
           NEW m \in Member,
           \A n \in Member : n # m =>
             /\ hand'[n] = hand[n] /\ joined'[n] = joined[n]
             /\ mine'[n] = mine[n] /\ position'[n] = position[n]
             /\ n \in done => n \in done',
           \/ hand'[m] = hand[m] /\ (m \in done => m \in done')
           \/ hand'[m] = NoMessage,
           \/ UNCHANGED <<joined, mine, position>>
           \/ joined[m] # generation /\ Detach(m)
           \/ m \notin members' /\ Detach(m)
    PROVE  RepeatInv'
<1>0. \A f \in Fetch : Untouched(f) => UntouchedNext(f)
  <2>1. \A f \in Fetch : f # NoMessage
    BY GroupAssumption DEF Fetch
  <2>2. QED
    BY <2>1 DEF Untouched, UntouchedNext
<1>1. RepeatsCostGenerations'
  BY DEF RepeatInv, RepeatsCostGenerations
<1>2. HandCounts'
  BY DEF RepeatInv, HandCounts
<1>3. Apart'
  <2>1. \A n \in Member : mine'[n] \subseteq mine[n] /\ (mine'[n] # {} => joined'[n] = joined[n])
    BY DEF GroupInv, TypeOK, Detach
  <2>2. QED
    BY <2>1 DEF RepeatInv, Apart
<1>4. Unread'
  <2> SUFFICES ASSUME NEW n \in Member, NEW p \in mine'[n], NEW i \in 1 .. MaxLog, position'[n][p] < i
               PROVE  UntouchedNext(<<p, i, joined'[n]>>)
    BY DEF Unread, Untouched, UntouchedNext
  <2>1. p \in mine[n] /\ joined'[n] = joined[n] /\ position'[n] = position[n]
    BY DEF GroupInv, TypeOK, Detach
  <2>2. Untouched(<<p, i, joined[n]>>) /\ <<p, i, joined[n]>> \in Fetch
    BY <2>1, ReaderHasGeneration DEF RepeatInv, Unread
  <2>3. QED
    BY <1>0, <2>1, <2>2 DEF Untouched, UntouchedNext
<1>5. ToCome'
  <2> SUFFICES ASSUME NEW p \in Partition, NEW i \in 1 .. MaxLog,
                      owner'[p] \in members', joined'[owner'[p]] # generation'
               PROVE  UntouchedNext(<<p, i, generation'>>)
    BY DEF ToCome, Untouched, UntouchedNext
  <2>1. owner[p] \in members /\ joined[owner[p]] # generation
    BY DEF GroupInv, TypeOK, Detach
  <2>2. Untouched(<<p, i, generation>>) /\ <<p, i, generation>> \in Fetch
    BY <2>1, MembersHaveGeneration DEF RepeatInv, ToCome
  <2>3. QED
    BY <1>0, <2>2 DEF Untouched, UntouchedNext
<1>6. QED
  BY <1>1, <1>2, <1>3, <1>4, <1>5 DEF RepeatInv

\* Every step keeps it: a rebalance begins a generation in which nothing was fetched.
LEMMA RepeatStep == GroupInv /\ RepeatInv /\ [Next]_vars => RepeatInv'
<1> SUFFICES ASSUME GroupInv, RepeatInv, [Next]_vars PROVE RepeatInv'
  OBVIOUS
<1> USE DEF GroupInv
<1>1. ASSUME UNCHANGED <<generation, owner, members, readerVars, workVars>> PROVE RepeatInv'
  BY <1>1 DEF RepeatInv, RepeatsCostGenerations, HandCounts, Apart, Unread, ToCome, Untouched, UntouchedNext,
     readerVars, workVars
<1>2. CASE Rebalance
  <2>1. generation \in Nat /\ generation' = generation + 1
    BY <1>2, GroupAssumption DEF TypeOK, Rebalance
  <2>2. RepeatsCostGenerations'
    <3> SUFFICES ASSUME NEW f \in Fetch PROVE times[f] <= (IF f[3] <= generation + 1 THEN 1 ELSE 0)
      BY <1>2, <2>1 DEF RepeatsCostGenerations, Rebalance, workVars
    <3>1. times[f] <= (IF f[3] <= generation THEN 1 ELSE 0) /\ f[3] \in Nat /\ times[f] \in Nat
      BY DEF RepeatInv, RepeatsCostGenerations, Fetch, TypeOK
    <3>2. QED
      BY <2>1, <3>1
  <2>3. HandCounts' /\ Apart' /\ Unread'
    BY <1>2 DEF RepeatInv, HandCounts, Apart, Unread, Untouched, UntouchedNext, Rebalance, readerVars, workVars
  <2>4. ASSUME NEW p \in Partition, NEW i \in 1 .. MaxLog PROVE UntouchedNext(<<p, i, generation'>>)
    <3>1. <<p, i, generation + 1>> \in Fetch
      BY <1>2, <2>1, GroupAssumption DEF Rebalance, Fetch
    <3>2. times[<<p, i, generation + 1>>] = 0
      BY <2>1, <3>1 DEF RepeatInv, RepeatsCostGenerations, TypeOK
    <3>3. ASSUME NEW m \in Member PROVE hand[m] # <<p, i, generation + 1>>
      <4>1. CASE hand[m] = NoMessage
        BY <3>1, <4>1, GroupAssumption DEF Fetch
      <4>2. CASE hand[m] # NoMessage
        BY <2>1, <4>2, HandType DEF HandKnown
      <4>3. QED
        BY <4>1, <4>2
    <3>4. QED
      BY <1>2, <2>1, <3>2, <3>3 DEF Untouched, UntouchedNext, Rebalance, workVars
  <2>5. ToCome'
    BY <2>4 DEF ToCome, Untouched, UntouchedNext
  <2>6. QED
    BY <2>2, <2>3, <2>5 DEF RepeatInv
<1>3. ASSUME NEW m \in Member, Unsubscribe(m) PROVE RepeatInv'
  <2>1. /\ UNCHANGED <<times, generation, owner, members, hand, done>>
        /\ joined[m] # generation /\ Detach(m)
    BY <1>3 DEF Unsubscribe, brokerVars, workVars
  <2>2. \A n \in Member : n # m =>
          joined'[n] = joined[n] /\ mine'[n] = mine[n] /\ position'[n] = position[n]
    BY <2>1 DEF TypeOK, Detach
  <2>3. QED
    BY <2>1, <2>2, FewerKeep
<1>4. ASSUME NEW m \in Member, Subscribe(m) PROVE RepeatInv'
  <2>1. /\ generation > 0 /\ owner \in [Partition -> Member]
        /\ joined[m] # generation /\ m \in members
        /\ UNCHANGED <<times, hand, done, owner, members, generation>>
        /\ mine'[m] = {p \in Partition : owner[p] = m} /\ joined'[m] = generation
        /\ \A n \in Member : n # m =>
             mine'[n] = mine[n] /\ joined'[n] = joined[n] /\ position'[n] = position[n]
    BY <1>4 DEF TypeOK, Attached, Subscribe, brokerVars, workVars
  <2>2. RepeatsCostGenerations' /\ HandCounts'
    BY <2>1 DEF RepeatInv, RepeatsCostGenerations, HandCounts
  <2>3. Apart'
    <3>1. ASSUME NEW n \in Member, n # m, joined[n] = generation PROVE mine[n] \cap mine'[m] = {}
      BY <2>1, <3>1 DEF Attached
    <3>2. QED
      BY <2>1, <3>1 DEF RepeatInv, Apart
  <2>4. Unread'
    <3> SUFFICES ASSUME NEW n \in Member, NEW p \in mine'[n], NEW i \in 1 .. MaxLog, position'[n][p] < i
                 PROVE  UntouchedNext(<<p, i, joined'[n]>>)
      BY DEF Unread, Untouched, UntouchedNext
    <3>1. CASE n = m
      <4>1. Untouched(<<p, i, generation>>)
        BY <2>1, <3>1 DEF RepeatInv, ToCome
      <4>2. QED
        BY <2>1, <3>1, <4>1 DEF Untouched, UntouchedNext
    <3>2. CASE n # m
      <4>1. Untouched(<<p, i, joined[n]>>)
        BY <2>1, <3>2 DEF RepeatInv, Unread
      <4>2. QED
        BY <2>1, <3>2, <4>1 DEF Untouched, UntouchedNext
    <3>3. QED
      BY <3>1, <3>2
  <2>5. ToCome'
    BY <2>1 DEF RepeatInv, ToCome, Untouched, UntouchedNext
  <2>6. QED
    BY <2>2, <2>3, <2>4, <2>5 DEF RepeatInv
<1>5. ASSUME NEW m \in Member, NEW q \in Partition, FetchMessage(m, q) PROVE RepeatInv'
  <2> DEFINE k == position[m][q] + 1
             new == <<q, k, joined[m]>>
  <2>1. /\ position[m][q] \in Nat /\ k \in 1 .. MaxLog /\ q \in mine[m]
        /\ UNCHANGED <<times, done, owner, members, generation, joined, mine>>
        /\ \A n \in Member : hand'[n] = IF n = m THEN new ELSE hand[n]
        /\ \A n \in Member, p \in Partition :
             position'[n][p] = IF n = m /\ p = q THEN k ELSE position[n][p]
    BY <1>5, GroupAssumption DEF TypeOK, FetchMessage, brokerVars
  <2> HIDE DEF k
  <2>2. Untouched(new) /\ new \in Fetch /\ new # NoMessage
    <3>1. new \in Fetch /\ position[m][q] < k
      BY <2>1, ReaderHasGeneration DEF k
    <3>2. QED
      BY <2>1, <3>1, GroupAssumption DEF RepeatInv, Unread, Fetch
  <2>3. RepeatsCostGenerations'
    BY <2>1 DEF RepeatInv, RepeatsCostGenerations
  <2>4. HandCounts'
    BY <2>1, <2>2 DEF RepeatInv, HandCounts, Untouched, UntouchedNext
  <2>5. Apart'
    BY <2>1 DEF RepeatInv, Apart
  <2>6. Unread'
    <3> SUFFICES ASSUME NEW n \in Member, NEW p \in mine'[n], NEW i \in 1 .. MaxLog, position'[n][p] < i
                 PROVE  UntouchedNext(<<p, i, joined'[n]>>)
      BY DEF Unread, Untouched, UntouchedNext
    <3>1. p \in mine[n] /\ p \in Partition /\ position[n][p] \in Nat
      BY <2>1, GroupAssumption DEF TypeOK
    <3>2. position[n][p] < i
      BY <2>1, <3>1 DEF k
    <3>3. Untouched(<<p, i, joined[n]>>)
      BY <3>1, <3>2 DEF RepeatInv, Unread
    <3>4. <<p, i, joined[n]>> # new
      <4>1. CASE n = m
        BY <2>1, <3>1, <4>1 DEF k
      <4>2. CASE n # m
        BY <2>1, <3>1, <4>2 DEF RepeatInv, Apart
      <4>3. QED
        BY <4>1, <4>2
    <3>5. QED
      BY <2>1, <3>3, <3>4 DEF Untouched, UntouchedNext
  <2>7. ToCome'
    <3> SUFFICES ASSUME NEW p \in Partition, NEW i \in 1 .. MaxLog,
                        owner[p] \in members, joined[owner[p]] # generation
                 PROVE  UntouchedNext(<<p, i, generation>>)
      BY <2>1 DEF ToCome, Untouched, UntouchedNext
    <3>1. Untouched(<<p, i, generation>>)
      BY DEF RepeatInv, ToCome
    <3>2. <<p, i, generation>> # new
      <4>1. joined[m] = generation => owner[q] = m
        BY <2>1, MembersHaveGeneration, GroupAssumption DEF Attached, TypeOK
      <4>2. QED
        BY <4>1
    <3>3. QED
      BY <2>1, <3>1, <3>2 DEF Untouched, UntouchedNext
  <2>8. QED
    BY <2>3, <2>4, <2>5, <2>6, <2>7 DEF RepeatInv
<1>6. ASSUME NEW m \in Member, Handle(m) PROVE RepeatInv'
  <2>1. /\ hand[m] \in Fetch /\ times[hand[m]] = 0 /\ hand[m] # NoMessage /\ m \notin done
        /\ hand[m][3] <= generation /\ done' = done \cup {m}
        /\ UNCHANGED <<hand, owner, members, generation, joined, mine, position>>
        /\ \A f \in Fetch : times'[f] = IF f = hand[m] THEN 1 ELSE times[f]
    BY <1>6, HandFetch DEF TypeOK, HandKnown, RepeatInv, HandCounts, Handle, CountHandling,
       brokerVars, readerVars
  <2>2. ASSUME NEW f \in Fetch, Untouched(f) PROVE UntouchedNext(f)
    BY <2>1, <2>2 DEF Untouched, UntouchedNext
  <2>3. RepeatsCostGenerations'
    BY <2>1 DEF RepeatInv, RepeatsCostGenerations
  <2>4. HandCounts'
    BY <2>1, HandFetch DEF RepeatInv, HandCounts
  <2>5. Apart'
    BY <2>1 DEF RepeatInv, Apart
  <2>6. Unread'
    <3> SUFFICES ASSUME NEW n \in Member, NEW p \in mine[n], NEW i \in 1 .. MaxLog, position[n][p] < i
                 PROVE  UntouchedNext(<<p, i, joined[n]>>)
      BY <2>1 DEF Unread, Untouched, UntouchedNext
    <3>1. QED
      BY <2>2, ReaderHasGeneration DEF RepeatInv, Unread
  <2>7. ToCome'
    <3> SUFFICES ASSUME NEW p \in Partition, NEW i \in 1 .. MaxLog,
                        owner[p] \in members, joined[owner[p]] # generation
                 PROVE  UntouchedNext(<<p, i, generation>>)
      BY <2>1 DEF ToCome, Untouched, UntouchedNext
    <3>1. QED
      BY <2>2, MembersHaveGeneration DEF RepeatInv, ToCome
  <2>8. QED
    BY <2>3, <2>4, <2>5, <2>6, <2>7 DEF RepeatInv
<1>7. ASSUME NEW m \in Member, Commit(m) PROVE RepeatInv'
  <2>1. /\ UNCHANGED <<times, generation, owner, members, joined, mine, position>>
        /\ hand'[m] = NoMessage
        /\ \A n \in Member : n # m => hand'[n] = hand[n] /\ (n \in done => n \in done')
    BY <1>7 DEF TypeOK, Commit, EmptyHands, readerVars
  <2>2. QED
    BY <2>1, FewerKeep
<1>8. ASSUME NEW m \in Member, Leaves(m), UNCHANGED <<times, generation, owner>> PROVE RepeatInv'
  <2>1. /\ members' \subseteq members /\ m \notin members' /\ Detach(m)
        /\ hand'[m] = NoMessage
        /\ \A n \in Member : n # m =>
             /\ hand'[n] = hand[n] /\ joined'[n] = joined[n]
             /\ mine'[n] = mine[n] /\ position'[n] = position[n]
             /\ n \in done => n \in done'
    BY <1>8 DEF TypeOK, Leaves, EmptyHands, Detach
  <2>2. QED
    BY <1>8, <2>1, FewerKeep
<1>9. ASSUME NEW m \in Member, CommitRefused(m) \/ CommitFails(m) \/ Crash(m) PROVE RepeatInv'
  BY <1>8, <1>9 DEF CommitRefused, CommitFails, Crash
<1>10. QED
  BY <1>1, <1>2, <1>3, <1>4, <1>5, <1>6, <1>7, <1>9 DEF Next, Produce, vars, brokerVars

\* A message is handled once at most for each generation in which it is fetched, and
\* not before that generation.
THEOREM RepeatsAreCounted == Spec => []RepeatsCostGenerations
<1>1. Init => RepeatInv
  <2> SUFFICES ASSUME Init PROVE RepeatInv
    OBVIOUS
  <2>1. RepeatsCostGenerations
    BY DEF Init, EmptyTopic, RepeatsCostGenerations
  <2>2. HandCounts /\ Apart /\ Unread /\ ToCome
    BY DEF Init, EmptyTopic, HandCounts, Apart, Unread, ToCome
  <2>3. QED
    BY <2>1, <2>2 DEF RepeatInv
<1>2. RepeatInv => RepeatsCostGenerations
  BY DEF RepeatInv
<1>3. QED
  BY <1>1, <1>2, GroupTypes, RepeatStep, PTL DEF Spec

=============================================================================
