------------------------ MODULE EventsService_proofs ------------------------
(***************************************************************************)
(* Proofs about the events service, for any number of partitions, messages *)
(* and callers of Create, and for any bounds.  The consumer's part of the  *)
(* inductive invariant (ConsumerInv) holds whatever the handler does; the  *)
(* rest follows from what each step can do to the table, to the offsets    *)
(* and to the fate of a message (StoreMoves, CommittedMoves, FateMoves).   *)
(* Two more invariants rest on it: what duplicates cost (RowsPaid), and    *)
(* what is left of a step when nothing fails (OnlyMalformedFail and        *)
(* OneAnnouncement).                                                       *)
(***************************************************************************)
EXTENDS EventsService, SequenceTheorems, FiniteSetTheorems, TLAPS

-----------------------------------------------------------------------------
\* The consumer, whatever its handler does: the steps of the service are seen from
\* the variables of Consume alone (ConsumerMoves).

\* The reader's offsets between two fetches: equal to the committed ones, but for
\* the message in hand, which is the next one of its partition.
Offsets ==
    \A p \in Partition :
        /\ committed[p] <= Len(log[p])
        /\ position[p] <= Len(log[p])
        /\ Len(log[p]) <= MaxLog
        /\ pc = "fetch" => position[p] = committed[p]
        /\ Busy => position[p] = IF p = part THEN committed[p] + 1 ELSE committed[p]

ConsumerInv == ConsumeTypeOK /\ Offsets

\* Every action of a service that consumes, seen from the variables of Consume.
ConsumerMoves ==
    \/ \E m \in Message : Produce(m)
    \/ ConsumerStep
    \/ HandlerOk /\ (Fault \/ UNCHANGED faults)
    \/ HandlerFails /\ (Fault \/ UNCHANGED faults)
    \/ GiveUp /\ (Fault \/ UNCHANGED faults)
    \/ Stop
    \/ Die
    \/ Restart
    \/ UNCHANGED <<log, committed, position, pc, part, attempt, cancelled>> /\ Fault
    \/ UNCHANGED consumeVars

USE DEF NoPosition, Place, Busy, Alive, Fault, FaultOrCancelled, EmptyHands

\* A partition of the log has a length.
LEMMA LenOfLog == ASSUME log \in [Partition -> Seq(Message)], NEW p \in Partition PROVE Len(log[p]) \in Nat
<1>1. log[p] \in Seq(Message)
  OBVIOUS
<1> QED
  BY <1>1, LenProperties

\* A fresh group and a fresh reader satisfy the consumer's invariant.
LEMMA ConsumerInit == ConsumeInit => ConsumerInv
<1> SUFFICES ASSUME ConsumeInit PROVE ConsumerInv
    OBVIOUS
<1>1. \A p \in Partition : log[p] = <<>> /\ committed[p] = 0 /\ position[p] = 0
  BY DEF ConsumeInit, EmptyTopic
<1>2. ConsumeTypeOK
  <2>1. log \in [Partition -> Seq(Message)]
    BY DEF ConsumeInit, EmptyTopic
  <2>2. committed \in [Partition -> Nat] /\ position \in [Partition -> Nat]
    BY DEF ConsumeInit, EmptyTopic
  <2>3. cancelled \in BOOLEAN
    BY Zenon DEF ConsumeInit, EmptyTopic
  <2> QED
    BY <2>1, <2>2, <2>3, ConsumeAssumption, TopicAssumption DEF ConsumeInit, EmptyTopic, ConsumeTypeOK
<1>3. Offsets
  <2>1. pc = "loop" /\ MaxLog \in Nat
    BY ConsumeAssumption DEF ConsumeInit, EmptyTopic
  <2>2. \A p \in Partition : Len(log[p]) = 0
    BY <1>1, EmptySeq
  <2>3. \A p \in Partition : committed[p] = 0 /\ position[p] = 0
    BY <1>1
  <2>4. ~Busy
    BY <2>1
  <2> SUFFICES ASSUME NEW p \in Partition
               PROVE  /\ committed[p] <= Len(log[p])
                      /\ position[p] <= Len(log[p])
                      /\ Len(log[p]) <= MaxLog
                      /\ pc = "fetch" => position[p] = committed[p]
                      /\ Busy => position[p] = IF p = part THEN committed[p] + 1 ELSE committed[p]
    BY DEF Offsets
  <2>5. committed[p] <= Len(log[p])
    BY <2>2, <2>3
  <2>6. Len(log[p]) <= MaxLog
    BY <2>1, <2>2
  <2>7. position[p] <= Len(log[p])
    BY <2>2, <2>3
  <2>8. pc = "fetch" => position[p] = committed[p]
    BY <2>1
  <2> QED
    BY <2>4, <2>5, <2>6, <2>7, <2>8
<1> QED
  BY <1>2, <1>3 DEF ConsumerInv

\* Every step of Consume and processWithRetry, whatever the handler answers and
\* however the process stops, keeps the consumer's invariant.
LEMMA ConsumerMovesStep == ConsumerInv /\ ConsumerMoves => ConsumerInv'
<1> SUFFICES ASSUME ConsumerInv, ConsumerMoves PROVE ConsumerInv'
    OBVIOUS
<1> USE ConsumeAssumption, TopicAssumption DEF ConsumerInv, ConsumeTypeOK, Offsets
<1>1. CASE \E m \in Message : Produce(m)
  BY <1>1 DEF Produce
<1>2. CASE Enter
  BY <1>2 DEF Enter
<1>3. CASE End
  BY <1>3 DEF End
<1>4. CASE \E p \in Partition : FetchMessage(p)
  BY <1>4 DEF FetchMessage
<1>5. CASE FetchStops
  BY <1>5 DEF FetchStops
<1>6. CASE RetryTimer
  BY <1>6 DEF RetryTimer
<1>7. CASE RetryCancelled
  BY <1>7 DEF RetryCancelled
<1>8. CASE Commit
  BY <1>8 DEF Commit
<1>9. CASE CommitFails
  <2>1. committed' = committed \/ committed' = [committed EXCEPT ![part] = position[part]]
    BY <1>9 DEF CommitFails
  <2> QED
    <3>1. ConsumeTypeOK'
      BY <1>9, <2>1 DEF CommitFails
    <3>2. position' = NoPosition /\ log' = log /\ pc' = "loop"
      BY <1>9 DEF CommitFails
    <3>3. \A p \in Partition : committed'[p] <= Len(log[p])
      BY <1>9, <2>1 DEF CommitFails
    <3>4. \A p \in Partition : Len(log[p]) \in Nat
      BY LenOfLog
    <3> QED
      BY <3>1, <3>2, <3>3, <3>4
<1>10. CASE HandlerOk /\ (Fault \/ UNCHANGED faults)
  BY <1>10 DEF HandlerOk
<1>11. CASE HandlerFails /\ (Fault \/ UNCHANGED faults)
  BY <1>11 DEF HandlerFails
<1>12. CASE GiveUp /\ (Fault \/ UNCHANGED faults)
  BY <1>12 DEF GiveUp
<1>13. CASE Stop
  BY <1>13 DEF Stop
<1>14. CASE Die
  <2>4. cancelled' \in BOOLEAN
    BY <1>14, Zenon DEF Die
  <2>1. ConsumeTypeOK'
    BY <1>14, <2>4 DEF Die
  <2>2. position' = NoPosition /\ log' = log /\ committed' = committed /\ pc' = "down"
    BY <1>14 DEF Die
  <2>3. \A p \in Partition : Len(log[p]) \in Nat
    BY LenOfLog
  <2> QED
    BY <2>1, <2>2, <2>3
<1>15. CASE Restart
  BY <1>15 DEF Restart
<1>16. CASE UNCHANGED <<log, committed, position, pc, part, attempt, cancelled>> /\ Fault
  BY <1>16
<1>17. CASE UNCHANGED consumeVars
  BY <1>17 DEF consumeVars
<1> QED
  BY <1>1, <1>2, <1>3, <1>4, <1>5, <1>6, <1>7, <1>8, <1>9, <1>10, <1>11, <1>12,
     <1>13, <1>14, <1>15, <1>16, <1>17 DEF ConsumerMoves, ConsumerStep

\* The message in hand lies in the log, just behind the committed ones.
LEMMA InHand ==
  ASSUME ConsumerInv, Busy
  PROVE  /\ part \in Partition
         /\ position[part] = committed[part] + 1
         /\ position[part] \in 1 .. Len(log[part])
         /\ CurrentMessage \in Message
         /\ Current \in Id
<1> USE TopicAssumption, ConsumeAssumption DEF ConsumerInv
<1>1. part \in Partition
  BY DEF ConsumeTypeOK
<1>2. position[part] = committed[part] + 1 /\ position[part] <= Len(log[part]) /\ Len(log[part]) <= MaxLog
  BY <1>1 DEF Offsets
<1>3. committed[part] \in Nat /\ log[part] \in Seq(Message) /\ Len(log[part]) \in Nat
  BY <1>1, LenOfLog DEF ConsumeTypeOK
<1>4. position[part] \in 1 .. Len(log[part]) /\ position[part] \in 1 .. MaxLog
  BY <1>2, <1>3
<1>5. CurrentMessage \in Message
  BY <1>3, <1>4, ElementOfSeq DEF CurrentMessage
<1> QED
  BY <1>1, <1>2, <1>4, <1>5 DEF Current, Id

\* What Append does to a sequence, in the form the steps below use.
LEMMA AppendRow ==
  ASSUME NEW S, NEW s \in Seq(S), NEW e \in S, NEW t, t = Append(s, e)
  PROVE  /\ t \in Seq(S)
         /\ Len(t) = Len(s) + 1 /\ Len(s) \in Nat
         /\ DOMAIN s = 1 .. Len(s) /\ DOMAIN t = 1 .. Len(s) + 1
         /\ \A i \in 1 .. Len(s) : t[i] = s[i]
         /\ t[Len(s) + 1] = e
OBVIOUS

\* Only Produce changes the log, and it appends.
LEMMA LogGrows ==
  ASSUME ConsumerInv, ConsumerMoves, NEW p \in Partition
  PROVE  /\ Len(log[p]) \in Nat /\ Len(log'[p]) \in Nat
         /\ Len(log[p]) <= Len(log'[p])
         /\ \A i \in 1 .. Len(log[p]) : log'[p][i] = log[p][i]
<1>1. log[p] \in Seq(Message) /\ Len(log[p]) \in Nat
  BY LenOfLog DEF ConsumerInv, ConsumeTypeOK
<1>2. CASE \E m \in Message : Produce(m)
  <2>1. PICK m \in Message : Produce(m)
    BY <1>2
  <2>2. CASE p = KeyPartition[m]
    <3>1. log'[p] = Append(log[p], m)
      BY <2>1, <2>2 DEF Produce, ConsumerInv, ConsumeTypeOK
    <3> QED
      BY <1>1, <3>1, AppendRow
  <2>3. CASE p # KeyPartition[m]
    <3>1. log'[p] = log[p]
      BY <2>1, <2>3 DEF Produce, ConsumerInv, ConsumeTypeOK
    <3> QED
      BY <1>1, <3>1
  <2> QED
    BY <2>2, <2>3
<1>3. CASE UNCHANGED log
  BY <1>1, <1>3
<1> QED
  BY <1>2, <1>3 DEF ConsumerMoves, ConsumerStep, Enter, End, FetchMessage, FetchStops, RetryTimer,
     RetryCancelled, Commit, CommitFails, HandlerOk, HandlerFails, GiveUp, Stop, Die, Restart, consumeVars

\* Only the commit of the message in hand changes the committed offsets.
CommitsHand ==
    /\ pc = "commit"
    /\ committed' = [committed EXCEPT ![part] = position[part]]
    /\ UNCHANGED log

\* The committed offsets change only by the commit of the message in hand.
LEMMA CommittedMoves == ConsumerMoves => UNCHANGED committed \/ CommitsHand
BY DEF CommitsHand, ConsumerMoves, ConsumerStep, Enter, End, FetchMessage, FetchStops, RetryTimer,
   RetryCancelled, Commit, CommitFails, HandlerOk, HandlerFails, GiveUp, Stop, Die, Restart, consumeVars, Produce

-----------------------------------------------------------------------------

\* Every step of the events service is one of ConsumerMoves.
LEMMA NextMovesConsumer == [Next]_vars => ConsumerMoves
BY DEF Next, vars, ConsumerMoves, ConsumerNext, HandlerStep, Environment, HandleMalformed, HandleInsert,
   HandleInsertFails, HandleInsertUnacked, HandlePublish, DeadLetter, DeadLetterFails, AnnounceFault,
   CreatorStep, CreatorInsert, CreatorInsertUnacked, CreatorPublish, consumeVars

-----------------------------------------------------------------------------

\* A row that comes from a message names one that is there, is no further than the
\* next to be committed, and decodes.
RowFacts ==
    \A k \in DOMAIN rows :
        LET p == rows[k].part
            i == rows[k].idx
        IN  IF p = NoPartition
              THEN i = 0
              ELSE i \in 1 .. Len(log[p]) /\ i <= committed[p] + 1 /\ log[p][i] \notin Malformed

\* The row the consumer has saved is the row of the message in hand.
Hand ==
    saved[Consumer] # 0 =>
        /\ pc = "handle"
        /\ rows[saved[Consumer]].part = part
        /\ rows[saved[Consumer]].idx = position[part]

\* At the commit the message in hand is settled.
Decided == pc = "commit" => Current \in Settled

\* The group is past settled messages only.
NothingSkipped == Committed \subseteq Settled

\* The inductive invariant.
IInv ==
    /\ ConsumerInv
    /\ StoreTypeOK
    /\ GivenUp \subseteq Id
    /\ RowFacts
    /\ Hand
    /\ Decided
    /\ NothingSkipped
    /\ RowsInOrder

\* The rows that INSERTs add.
RowInHand == [type |-> CurrentMessage, part |-> part, idx |-> position[part]]
DirectRow(m) == [type |-> m, part |-> NoPartition, idx |-> 0]

\* An INSERT by the consumer, acknowledged or not.
InsertFromMessage ==
    /\ rows' = Append(rows, RowInHand)
    /\ pc = "handle"
    /\ CurrentMessage \notin Malformed
    /\ UNCHANGED <<log, committed, position, part, created, dlq, dropped>>
    /\ \/ saved' = [saved EXCEPT ![Consumer] = Len(rows) + 1] /\ pc' = "handle"
       \/ saved' = saved /\ saved[Consumer] = 0

\* An INSERT by a creator, acknowledged or not.
InsertDirect ==
    /\ \E m \in Message : rows' = Append(rows, DirectRow(m))
    /\ UNCHANGED <<log, committed, position, pc, part, created, dlq, dropped>>
    /\ \/ \E w \in Creator : saved' = [saved EXCEPT ![w] = Len(rows) + 1]
       \/ saved' = saved

\* What a step can do to the table, to the workers' hands and to the topic of
\* announcements.
LEMMA StoreMoves ==
  [Next]_vars =>
    \/ InsertFromMessage
    \/ InsertDirect
    \/ HandlePublish
    \/ \E w \in Creator : CreatorPublish(w)
    \/ Die /\ WorkersLost
    \/ /\ UNCHANGED storeVars
       /\ UNCHANGED <<pc, part, position>> \/ pc # "handle" \/ saved[Consumer] = 0
BY DEF Next, vars, ConsumerNext, HandlerStep, Environment, HandleMalformed, HandleInsert,
   HandleInsertFails, HandleInsertUnacked, DeadLetter, DeadLetterFails, GiveUp,
   CreatorStep, CreatorInsert, CreatorInsertUnacked, consumeVars, storeVars, fateVars,
   Insert, InsertUnacked, InsertFromMessage, InsertDirect, RowInHand, DirectRow, HandlerFails,
   ConsumerStep, Enter, End, FetchMessage, FetchStops, RetryTimer, RetryCancelled, Commit, CommitFails,
   Produce, Stop, Restart

\* The table changes by an INSERT only.
LEMMA RowsMove ==
  [Next]_vars => UNCHANGED rows \/ InsertFromMessage \/ InsertDirect
BY StoreMoves DEF HandlePublish, CreatorPublish, PublishCreated, WorkersLost, storeVars

\* A row made by a creator is a row.
LEMMA DirectRowType == ASSUME NEW m \in Message PROVE DirectRow(m) \in Row
BY DEF DirectRow, Row

\* A row made from the message in hand is a row.
LEMMA RowInHandType == ASSUME ConsumerInv, Busy PROVE RowInHand \in Row
BY InHand DEF RowInHand, Row, ConsumerInv, ConsumeTypeOK

\* What an INSERT does to the table.
LEMMA RowsGrow ==
  ASSUME ConsumerInv, rows \in Seq(Row), InsertFromMessage \/ InsertDirect
  PROVE  /\ rows' \in Seq(Row)
         /\ Len(rows') = Len(rows) + 1 /\ Len(rows) \in Nat
         /\ DOMAIN rows = 1 .. Len(rows) /\ DOMAIN rows' = 1 .. Len(rows) + 1
         /\ \A k \in 1 .. Len(rows) : rows'[k] = rows[k]
         /\ InsertFromMessage => rows'[Len(rows) + 1] = RowInHand
         /\ InsertDirect => \E m \in Message : rows'[Len(rows) + 1] = DirectRow(m)
<1>1. CASE InsertFromMessage
  <2>1. rows' = Append(rows, RowInHand) /\ RowInHand \in Row
    BY <1>1, RowInHandType DEF InsertFromMessage
  <2>2. ~InsertDirect \/ \E m \in Message : rows'[Len(rows) + 1] = DirectRow(m)
    <3>1. ASSUME InsertDirect PROVE \E m \in Message : rows'[Len(rows) + 1] = DirectRow(m)
      <4>1. PICK m \in Message : rows' = Append(rows, DirectRow(m))
        BY <3>1 DEF InsertDirect
      <4> QED
        BY <4>1, DirectRowType, AppendRow
    <3> QED
      BY <3>1
  <2> QED
    BY <2>1, <2>2, AppendRow
<1>2. CASE InsertDirect /\ ~InsertFromMessage
  <2>1. PICK m \in Message : rows' = Append(rows, DirectRow(m))
    BY <1>2 DEF InsertDirect
  <2> QED
    BY <1>2, <2>1, DirectRowType, AppendRow
<1> QED
  BY <1>1, <1>2

-----------------------------------------------------------------------------

\* Every row keeps telling the truth about the message it was made from.
LEMMA RowFactsStep ==
  ASSUME ConsumerInv, rows \in Seq(Row), RowFacts, [Next]_vars
  PROVE  RowFacts'
<1> DEFINE Fact(r, l, c) ==
      IF r.part = NoPartition
        THEN r.idx = 0
        ELSE r.idx \in 1 .. Len(l[r.part]) /\ r.idx <= c[r.part] + 1 /\ l[r.part][r.idx] \notin Malformed
<1>1. \A r \in Row : Fact(r, log, committed) => Fact(r, log', committed')
  <2> SUFFICES ASSUME NEW r \in Row, Fact(r, log, committed) PROVE Fact(r, log', committed')
    OBVIOUS
  <2>1. CASE r.part = NoPartition
    BY <2>1
  <2>2. CASE r.part # NoPartition
    <3> DEFINE p == r.part
    <3>1. p \in Partition /\ r.idx \in Nat
      BY <2>2 DEF Row
    <3>2. /\ Len(log[p]) \in Nat /\ Len(log'[p]) \in Nat /\ Len(log[p]) <= Len(log'[p])
          /\ \A i \in 1 .. Len(log[p]) : log'[p][i] = log[p][i]
      BY <3>1, LogGrows, NextMovesConsumer
    <3>3. committed[p] \in Nat /\ committed'[p] \in Nat /\ committed[p] <= committed'[p]
      <4>1. committed[p] \in Nat
        BY <3>1 DEF ConsumerInv, ConsumeTypeOK
      <4>2. CASE CommitsHand
        <5>1. part \in Partition /\ position[part] = committed[part] + 1
          BY <4>2, InHand DEF CommitsHand
        <5> QED
          BY <3>1, <4>1, <4>2, <5>1 DEF CommitsHand, ConsumerInv, ConsumeTypeOK
      <4> QED
        BY <4>1, <4>2, CommittedMoves, NextMovesConsumer
    <3> QED
      BY <2>2, <3>1, <3>2, <3>3
  <2> QED
    BY <2>1, <2>2
<1>2. \A k \in DOMAIN rows : rows[k] \in Row /\ Fact(rows[k], log, committed)
  BY ElementOfSeq, LenProperties DEF RowFacts
<1>3. CASE UNCHANGED rows
  BY <1>1, <1>2, <1>3 DEF RowFacts
<1>4. CASE InsertFromMessage
  <2>1. Fact(RowInHand, log, committed)
    <3>1. /\ part \in Partition /\ position[part] = committed[part] + 1
          /\ position[part] \in 1 .. Len(log[part])
          /\ committed[part] \in Nat
      BY <1>4, InHand DEF InsertFromMessage, ConsumerInv, ConsumeTypeOK
    <3>2. log[part][position[part]] \notin Malformed
      BY <1>4 DEF InsertFromMessage, CurrentMessage
    <3> QED
      BY <3>1, <3>2, TopicAssumption DEF RowInHand
  <2>2. RowInHand \in Row
    BY <1>4, RowInHandType DEF InsertFromMessage
  <2>3. Fact(RowInHand, log', committed')
    BY <1>1, <2>1, <2>2
  <2>4. \A k \in DOMAIN rows' : rows'[k] = RowInHand \/ (k \in DOMAIN rows /\ rows'[k] = rows[k])
    BY <1>4, RowsGrow
  <2> HIDE DEF Fact
  <2>5. \A k \in DOMAIN rows' : Fact(rows'[k], log', committed')
    BY <1>1, <1>2, <2>3, <2>4
  <2> QED
    BY <2>5 DEF RowFacts, Fact
<1>5. CASE InsertDirect
  <2>1. \A k \in DOMAIN rows' : (\E m \in Message : rows'[k] = DirectRow(m)) \/ (k \in DOMAIN rows /\ rows'[k] = rows[k])
    BY <1>5, RowsGrow
  <2>2. \A m \in Message : Fact(DirectRow(m), log', committed')
    BY DEF DirectRow
  <2> HIDE DEF Fact
  <2>3. \A k \in DOMAIN rows' : Fact(rows'[k], log', committed')
    BY <1>1, <1>2, <2>1, <2>2
  <2> QED
    BY <2>3 DEF RowFacts, Fact
<1> QED
  BY <1>3, <1>4, <1>5, RowsMove

\* An INSERT never puts a row behind one made from a later message of the same
\* partition: the message in hand is the furthest the group has come.
LEMMA RowsInOrderStep ==
  ASSUME ConsumerInv, rows \in Seq(Row), RowFacts, RowsInOrder, [Next]_vars
  PROVE  RowsInOrder'
<1>1. CASE UNCHANGED rows
  BY <1>1 DEF RowsInOrder
<1>2. CASE InsertFromMessage
  <2> SUFFICES ASSUME NEW j \in DOMAIN rows', NEW k \in DOMAIN rows', j < k, rows'[j].part = rows'[k].part
               PROVE  rows'[j].idx <= rows'[k].idx
    BY DEF RowsInOrder
  <2>1. /\ DOMAIN rows = 1 .. Len(rows) /\ DOMAIN rows' = 1 .. Len(rows) + 1 /\ Len(rows) \in Nat
        /\ \A n \in 1 .. Len(rows) : rows'[n] = rows[n]
        /\ rows'[Len(rows) + 1] = RowInHand
    BY <1>2, RowsGrow
  <2>2. j \in 1 .. Len(rows)
    BY <2>1
  <2>3. CASE k \in 1 .. Len(rows)
    BY <2>1, <2>2, <2>3 DEF RowsInOrder
  <2>4. CASE k = Len(rows) + 1
    <3>1. rows[j].part = part /\ rows'[k].idx = position[part]
      BY <2>1, <2>2, <2>4 DEF RowInHand
    <3>2. part \in Partition /\ position[part] = committed[part] + 1 /\ part # NoPartition
      BY <1>2, InHand, TopicAssumption DEF InsertFromMessage
    <3>3. rows[j].idx <= committed[part] + 1
      BY <2>1, <2>2, <3>1, <3>2 DEF RowFacts
    <3> QED
      BY <2>1, <2>2, <3>1, <3>2, <3>3
  <2> QED
    BY <2>1, <2>3, <2>4
<1>3. CASE InsertDirect
  <2> SUFFICES ASSUME NEW j \in DOMAIN rows', NEW k \in DOMAIN rows', j < k, rows'[j].part = rows'[k].part
               PROVE  rows'[j].idx <= rows'[k].idx
    BY DEF RowsInOrder
  <2>1. /\ DOMAIN rows = 1 .. Len(rows) /\ DOMAIN rows' = 1 .. Len(rows) + 1 /\ Len(rows) \in Nat
        /\ \A n \in 1 .. Len(rows) : rows'[n] = rows[n]
    BY <1>3, RowsGrow
  <2>2. PICK m \in Message : rows'[Len(rows) + 1] = DirectRow(m)
    BY <1>3, RowsGrow
  <2>3. j \in 1 .. Len(rows)
    BY <2>1
  <2>4. CASE k \in 1 .. Len(rows)
    BY <2>1, <2>3, <2>4 DEF RowsInOrder
  <2>5. CASE k = Len(rows) + 1
    BY <2>1, <2>2, <2>3, <2>5 DEF RowFacts, DirectRow
  <2> QED
    BY <2>1, <2>4, <2>5
<1> QED
  BY <1>1, <1>2, <1>3, RowsMove

-----------------------------------------------------------------------------

\* The types of the store are kept.
LEMMA StoreTypeStep ==
  ASSUME ConsumerInv, StoreTypeOK, [Next]_vars
  PROVE  StoreTypeOK'
<1> USE DEF StoreTypeOK
<1>0. Len(rows) \in Nat /\ DOMAIN rows = 1 .. Len(rows)
  BY LenProperties
<1>1. CASE InsertFromMessage \/ InsertDirect
  <2>1. rows' \in Seq(Row) /\ Len(rows') = Len(rows) + 1
    BY <1>1, RowsGrow
  <2>2. saved' \in [Worker -> 0 .. Len(rows')]
    <3>1. saved' = saved \/ \E w \in Worker : saved' = [saved EXCEPT ![w] = Len(rows) + 1]
      BY <1>1 DEF InsertFromMessage, InsertDirect, Worker
    <3> QED
      BY <3>1, <2>1, <1>0
  <2>3. created' \in [Partition -> Seq(1 .. Len(rows'))]
    <3>1. \A p \in Partition : created[p] \in Seq(1 .. Len(rows'))
      BY <1>0, <2>1, SeqMonotonic, 1 .. Len(rows) \subseteq 1 .. Len(rows')
    <3>2. created' = created
      BY <1>1 DEF InsertFromMessage, InsertDirect
    <3>3. created = [p \in Partition |-> created[p]]
      OBVIOUS
    <3> QED
      BY <3>1, <3>2, <3>3
  <2> QED
    BY <2>1, <2>2, <2>3
<1>2. CASE UNCHANGED rows
  <2>1. CASE UNCHANGED <<saved, created>>
    BY <1>2, <2>1
  <2>2. CASE WorkersLost
    BY <1>0, <2>2 DEF WorkersLost
  <2>3. ASSUME NEW w \in Worker, NEW n \in 0 .. MaxCopies, PublishCreated(w, n)
        PROVE  StoreTypeOK'
    <3> DEFINE p == KeyPartition[rows[saved[w]].type]
               copies == [k \in 1 .. n |-> saved[w]]
    <3>1. saved[w] \in 1 .. Len(rows)
      BY <2>3, <1>0 DEF PublishCreated
    <3>2. rows[saved[w]] \in Row
      BY <3>1, ElementOfSeq
    <3>3. p \in Partition
      BY <3>2, TopicAssumption DEF Row
    <3>4. n \in Nat
      BY EventsAssumption
    <3>5. copies \in Seq(1 .. Len(rows))
      BY <3>1, <3>4
    <3>6. created[p] \o copies \in Seq(1 .. Len(rows))
      BY <3>3, <3>5, ConcatProperties
    <3>7. created' = [created EXCEPT ![p] = @ \o copies]
      BY <2>3 DEF PublishCreated
    <3>8. created' \in [Partition -> Seq(1 .. Len(rows))]
      <4> HIDE DEF p, copies
      <4> QED
        BY <3>3, <3>6, <3>7
    <3>9. saved' \in [Worker -> 0 .. Len(rows)]
      BY <2>3, <1>0 DEF PublishCreated
    <3> QED
      BY <1>2, <3>8, <3>9
  <2>4. HandlePublish \/ (\E w \in Creator : CreatorPublish(w)) =>
          \E w \in Worker, n \in 0 .. MaxCopies : PublishCreated(w, n)
    BY DEF HandlePublish, CreatorPublish, Worker
  <2> QED
    BY <2>1, <2>2, <2>3, <2>4, StoreMoves, <1>1 DEF storeVars
<1> QED
  BY <1>1, <1>2, RowsMove

\* The row the consumer has saved and not announced stays the row of the message
\* in hand.
LEMMA HandStep ==
  ASSUME ConsumerInv, StoreTypeOK, Hand, [Next]_vars
  PROVE  Hand'
<1>0. /\ Consumer \in Worker /\ Consumer \notin Creator
      /\ Len(rows) \in Nat /\ saved[Consumer] \in 0 .. Len(rows)
      /\ saved \in [Worker -> 0 .. Len(rows)]
  BY EventsAssumption, LenProperties DEF Worker, StoreTypeOK
<1>1. CASE InsertFromMessage
  <2>1. /\ \A k \in 1 .. Len(rows) : rows'[k] = rows[k]
        /\ rows'[Len(rows) + 1] = RowInHand
    BY <1>1, RowsGrow DEF StoreTypeOK
  <2>2. CASE saved' = [saved EXCEPT ![Consumer] = Len(rows) + 1] /\ pc' = "handle"
    BY <1>0, <1>1, <2>1, <2>2 DEF Hand, RowInHand, InsertFromMessage
  <2>3. CASE saved' = saved /\ saved[Consumer] = 0
    BY <2>3 DEF Hand
  <2> QED
    BY <1>1, <2>2, <2>3 DEF InsertFromMessage
<1>2. CASE InsertDirect
  <2>1. \A k \in 1 .. Len(rows) : rows'[k] = rows[k]
    BY <1>2, RowsGrow DEF StoreTypeOK
  <2>2. saved'[Consumer] = saved[Consumer]
    BY <1>0, <1>2 DEF InsertDirect, Worker
  <2> QED
    BY <1>0, <1>2, <2>1, <2>2 DEF Hand, InsertDirect
<1>3. CASE HandlePublish
  BY <1>0, <1>3 DEF HandlePublish, PublishCreated, Hand
<1>4. CASE \E w \in Creator : CreatorPublish(w)
  <2>1. UNCHANGED <<rows, pc, part, position>> /\ saved'[Consumer] = saved[Consumer]
    BY <1>0, <1>4 DEF CreatorPublish, PublishCreated, Worker
  <2> QED
    BY <2>1 DEF Hand
<1>5. CASE Die /\ WorkersLost
  BY <1>0, <1>5 DEF WorkersLost, Hand
<1>6. CASE UNCHANGED storeVars /\ (UNCHANGED <<pc, part, position>> \/ pc # "handle" \/ saved[Consumer] = 0)
  BY <1>6 DEF Hand, storeVars
<1> QED
  BY <1>1, <1>2, <1>3, <1>4, <1>5, <1>6, StoreMoves

-----------------------------------------------------------------------------

\* What an INSERT adds to the messages that have a row.
LEMMA StoredGrows ==
  ASSUME ConsumerInv, StoreTypeOK
  PROVE  /\ UNCHANGED rows => Stored' = Stored
         /\ InsertFromMessage => Stored' = Stored \cup {Current}
         /\ InsertDirect => Stored' = Stored
<1>1. ASSUME UNCHANGED rows PROVE Stored' = Stored
  BY <1>1 DEF Stored, RowsOf
<1>2. ASSUME InsertFromMessage PROVE Stored' = Stored \cup {Current}
  <2>1. /\ DOMAIN rows = 1 .. Len(rows) /\ DOMAIN rows' = 1 .. Len(rows) + 1 /\ Len(rows) \in Nat
        /\ \A k \in 1 .. Len(rows) : rows'[k] = rows[k]
        /\ rows'[Len(rows) + 1] = RowInHand
    BY <1>2, RowsGrow DEF StoreTypeOK
  <2>2. Current \in Id /\ Current = <<part, position[part]>>
    BY <1>2, InHand DEF InsertFromMessage, Current
  <2>3. \A id \in Id : (\E k \in DOMAIN rows' : rows'[k].part = id[1] /\ rows'[k].idx = id[2])
                       <=> (\E k \in DOMAIN rows : rows[k].part = id[1] /\ rows[k].idx = id[2]) \/ id = Current
    BY <2>1, <2>2 DEF RowInHand, Id
  <2> QED
    BY <2>2, <2>3 DEF Stored, RowsOf
<1>3. ASSUME InsertDirect PROVE Stored' = Stored
  <2>1. /\ DOMAIN rows = 1 .. Len(rows) /\ DOMAIN rows' = 1 .. Len(rows) + 1 /\ Len(rows) \in Nat
        /\ \A k \in 1 .. Len(rows) : rows'[k] = rows[k]
        /\ rows'[Len(rows) + 1].part = NoPartition
    <3>1. PICK m \in Message : rows'[Len(rows) + 1] = DirectRow(m)
      BY <1>3, RowsGrow DEF StoreTypeOK
    <3>2. rows'[Len(rows) + 1].part = NoPartition
      BY <3>1 DEF DirectRow
    <3> QED
      BY <1>3, <3>2, RowsGrow DEF StoreTypeOK
  <2>2. \A id \in Id : id[1] # NoPartition
    BY TopicAssumption DEF Id
  <2>3. \A id \in Id : (\E k \in DOMAIN rows' : rows'[k].part = id[1] /\ rows'[k].idx = id[2])
                       <=> (\E k \in DOMAIN rows : rows[k].part = id[1] /\ rows[k].idx = id[2])
    BY <2>1, <2>2
  <2> QED
    BY <2>3 DEF Stored, RowsOf
<1> QED
  BY <1>1, <1>2, <1>3

\* A step gives up the message in hand, or nothing.
LEMMA FateMoves ==
  [Next]_vars =>
    \/ UNCHANGED fateVars
    \/ /\ pc = "giveup" /\ GivenUp' = GivenUp \cup {Current}
       /\ UNCHANGED <<rows, log, committed, part, position>>
BY DEF Next, vars, ConsumerNext, HandlerStep, Environment, HandleMalformed, HandleInsert,
   HandleInsertFails, HandleInsertUnacked, HandlePublish, DeadLetter, DeadLetterFails, GiveUp,
   CreatorStep, CreatorInsert, CreatorInsertUnacked, CreatorPublish, fateVars, GivenUp, storeVars

\* The fate of a message is decided at most one message at a time, and it is the
\* one in hand.
LEMMA SettledMoves ==
  ASSUME ConsumerInv, StoreTypeOK, [Next]_vars
  PROVE  \/ Settled' = Settled
         \/ /\ Busy /\ Settled' = Settled \cup {Current}
            /\ UNCHANGED <<log, committed, part, position>>
<1>1. CASE ~UNCHANGED fateVars
  <2>1. /\ pc = "giveup" /\ GivenUp' = GivenUp \cup {Current}
        /\ UNCHANGED <<rows, log, committed, part, position>>
    BY <1>1, FateMoves
  <2>2. Stored' = Stored
    BY <2>1, StoredGrows
  <2> QED
    BY <2>1, <2>2 DEF Settled
<1>2. CASE UNCHANGED fateVars /\ InsertFromMessage
  BY <1>2, StoredGrows DEF Settled, GivenUp, fateVars, InsertFromMessage
<1>3. CASE UNCHANGED fateVars /\ ~InsertFromMessage
  BY <1>3, StoredGrows, RowsMove DEF Settled, GivenUp, fateVars
<1> QED
  BY <1>1, <1>2, <1>3

\* Whoever comes to the commit has settled the message in hand: HandlePublish by
\* its row, DeadLetter and DeadLetterFails by giving it up.
LEMMA DecidedStep ==
  ASSUME ConsumerInv, StoreTypeOK, Hand, Decided, [Next]_vars
  PROVE  Decided'
<1> SUFFICES ASSUME pc' = "commit" PROVE Current' \in Settled'
  BY DEF Decided
<1>1. Settled \subseteq Settled'
  BY SettledMoves
<1>2. CASE HandlePublish
  <2>1. saved[Consumer] # 0 /\ saved[Consumer] \in 1 .. Len(rows)
    BY <1>2, LenProperties DEF HandlePublish, PublishCreated, StoreTypeOK, Worker
  <2>2. pc = "handle" /\ Current \in Id
    BY <1>2, InHand DEF HandlePublish, HandlerOk
  <2>3. saved[Consumer] \in RowsOf(Current)
    BY <2>1, LenProperties DEF Hand, RowsOf, Current, StoreTypeOK
  <2>4. Current \in Settled
    BY <2>2, <2>3 DEF Settled, Stored
  <2> QED
    BY <1>1, <1>2, <2>4 DEF HandlePublish, HandlerOk, Current
<1>3. CASE DeadLetter \/ DeadLetterFails
  BY <1>3 DEF DeadLetter, DeadLetterFails, GiveUp, Settled, GivenUp, Current
<1>4. CASE UNCHANGED <<pc, part, position>>
  BY <1>1, <1>4 DEF Decided, Current
<1>5. HandlePublish \/ DeadLetter \/ DeadLetterFails \/ UNCHANGED <<pc, part, position>>
  BY DEF Next, vars, ConsumerNext, HandlerStep, Environment, HandleMalformed, HandleInsert, HandlerFails,
     HandleInsertFails, HandleInsertUnacked, CreatorStep, CreatorInsert, CreatorInsertUnacked, CreatorPublish,
     consumeVars, ConsumerStep, Enter, End, FetchMessage, FetchStops, RetryTimer, RetryCancelled, Commit,
     CommitFails, Produce, Stop, Die, Restart
<1> QED
  BY <1>2, <1>3, <1>4, <1>5

\* A commit moves the group past the message in hand only, which is settled.
LEMMA NothingSkippedStep ==
  ASSUME ConsumerInv, StoreTypeOK, Decided, NothingSkipped, [Next]_vars
  PROVE  NothingSkipped'
<1>1. Settled \subseteq Settled'
  BY SettledMoves
<1>2. CASE UNCHANGED committed
  BY <1>1, <1>2 DEF NothingSkipped, Committed
<1>3. CASE CommitsHand
  <2>1. part \in Partition /\ position[part] = committed[part] + 1 /\ Current \in Settled
    BY <1>3, InHand DEF CommitsHand, Decided
  <2>2. \A id \in Id : id[2] <= committed'[id[1]] => id[2] <= committed[id[1]] \/ id = Current
    BY <1>3, <2>1 DEF CommitsHand, Id, Current, ConsumerInv, ConsumeTypeOK
  <2> QED
    BY <1>1, <2>1, <2>2 DEF NothingSkipped, Committed
<1> QED
  BY <1>2, <1>3, CommittedMoves, NextMovesConsumer

\* Only messages are given up.
LEMMA GivenUpStep == ASSUME ConsumerInv, GivenUp \subseteq Id, [Next]_vars PROVE GivenUp' \subseteq Id
BY FateMoves, InHand DEF GivenUp, fateVars

-----------------------------------------------------------------------------

\* The inductive invariant holds initially ...
LEMMA InitInductive == Init => IInv
<1> SUFFICES ASSUME Init PROVE IInv
    OBVIOUS
<1>1. ConsumerInv
  BY ConsumerInit DEF Init
<1>2. rows = <<>> /\ DOMAIN rows = {} /\ Len(rows) = 0
  BY DEF Init, StoreInit
<1>3. StoreTypeOK
  <2>1. rows \in Seq(Row)
    BY <1>2
  <2>2. saved \in [Worker -> 0 .. Len(rows)]
    BY <1>2 DEF Init, StoreInit
  <2>3. created \in [Partition -> Seq(1 .. Len(rows))]
    BY EmptySeq DEF Init, StoreInit
  <2> QED
    BY <2>1, <2>2, <2>3 DEF StoreTypeOK
<1>4. GivenUp \subseteq Id
  BY DEF Init, GivenUp
<1>5. RowFacts /\ RowsInOrder
  BY <1>2 DEF RowFacts, RowsInOrder
<1>6. Hand /\ Decided
  BY DEF Init, StoreInit, ConsumeInit, EmptyTopic, Hand, Decided, Worker
<1>7. NothingSkipped
  BY DEF Init, ConsumeInit, EmptyTopic, NothingSkipped, Committed, Id
<1> QED
  BY <1>1, <1>3, <1>4, <1>5, <1>6, <1>7 DEF IInv

\* ... and every step keeps it.
LEMMA StepInductive == IInv /\ [Next]_vars => IInv'
<1> SUFFICES ASSUME IInv, [Next]_vars PROVE IInv'
    OBVIOUS
<1>0. rows \in Seq(Row)
  BY DEF IInv, StoreTypeOK
<1>1. ConsumerInv'
  BY ConsumerMovesStep, NextMovesConsumer DEF IInv
<1>2. StoreTypeOK'
  BY StoreTypeStep DEF IInv
<1>3. (GivenUp \subseteq Id)'
  BY GivenUpStep DEF IInv, Id
<1>4. RowFacts'
  BY <1>0, RowFactsStep DEF IInv
<1>5. Hand'
  BY HandStep DEF IInv
<1>6. Decided'
  BY DecidedStep DEF IInv
<1>7. NothingSkipped'
  BY NothingSkippedStep DEF IInv
<1>8. RowsInOrder'
  BY <1>0, RowsInOrderStep DEF IInv
<1> QED
  BY <1>1, <1>2, <1>3, <1>4, <1>5, <1>6, <1>7, <1>8 DEF IInv

\* The inductive invariant holds in every behaviour of the events service.
THEOREM Inductive == Spec => []IInv
<1>1. Init => IInv
  BY InitInductive
<1>2. IInv /\ [Next]_vars => IInv'
  BY StepInductive
<1> QED
  BY <1>1, <1>2, PTL DEF Spec

\* Type correctness of the events service; the consumer holds an unannounced row
\* only while its handler runs.
THEOREM TypeCorrectness == Spec => []TypeOK
<1>1. IInv => TypeOK
  BY DEF IInv, TypeOK, ConsumerInv, GivenUp, Hand
<1> QED
  BY <1>1, Inductive, PTL

\* What the group is past is settled, and what became a row was there and decodes.
LEMMA CommittedFollows == IInv => CommittedAreSettled
<1> SUFFICES ASSUME IInv, NEW id \in Stored PROVE id \in Appended /\ ~IsMalformed(id)
  BY DEF IInv, NothingSkipped, CommittedAreSettled
<1>1. id \in Id /\ id[1] # NoPartition
  BY TopicAssumption DEF Stored, Id
<1>2. PICK k \in DOMAIN rows : rows[k].part = id[1] /\ rows[k].idx = id[2]
  BY DEF Stored, RowsOf
<1>3. Len(log[id[1]]) \in Nat
  BY <1>1, LenOfLog DEF IInv, ConsumerInv, ConsumeTypeOK, Id
<1>4. QED
  BY <1>1, <1>2, <1>3 DEF IInv, RowFacts, Appended, IsMalformed

\* The group never moves past a message whose fate is not decided, and no row was
\* made of a malformed or missing message (Consume commits after processWithRetry
\* and the DLQ).
THEOREM NothingSkippedAlways == Spec => []CommittedAreSettled
  BY CommittedFollows, Inductive, PTL

\* The table keeps the order of every partition, through retries, crashes,
\* redeliveries and other writers.
THEOREM RowsAlwaysInOrder == Spec => []RowsInOrder
<1>1. IInv => RowsInOrder
  BY DEF IInv
<1> QED
  BY <1>1, Inductive, PTL

-----------------------------------------------------------------------------

\* The initial states are initial states of AtLeastOnce.
LEMMA RefineInit == Init => Delivery!Init
BY DEF Init, StoreInit, ConsumeInit, EmptyTopic, Delivery!Init, Settled, Stored, GivenUp, RowsOf, NoPosition

\* Every step appends a message, settles the first one that is not committed,
\* commits it, or is a stutter, for AtLeastOnce.
LEMMA RefineNext == IInv /\ [Next]_vars => [Delivery!Next]_(Delivery!vars)
<1> SUFFICES ASSUME IInv, [Next]_vars PROVE [Delivery!Next]_(Delivery!vars)
    OBVIOUS
<1> USE DEF IInv
<1>1. CASE \E m \in Message : Produce(m) /\ UNCHANGED <<storeVars, fateVars>>
  <2>1. PICK m \in Message : Produce(m) /\ UNCHANGED <<storeVars, fateVars>>
    BY <1>1
  <2>2. Settled' = Settled
    BY <2>1 DEF Settled, Stored, GivenUp, RowsOf, storeVars, fateVars
  <2>3. KeyPartition[m] \in Partition
    BY TopicAssumption
  <2>4. Delivery!AppendTo(KeyPartition[m])
    BY <2>1, <2>2 DEF Delivery!AppendTo, Produce
  <2> QED
    BY <2>3, <2>4 DEF Delivery!Next
<1>2. CASE CommitsHand
  <2>1. part \in Partition /\ position[part] = committed[part] + 1 /\ Current \in Settled
    BY <1>2, InHand DEF CommitsHand, Decided
  <2>2. Settled' = Settled
    BY <1>2, <2>1, SettledMoves
  <2>3. Delivery!Commit(part)
    BY <1>2, <2>1, <2>2 DEF Delivery!Commit, CommitsHand, Current, ConsumerInv, ConsumeTypeOK
  <2> QED
    BY <2>1, <2>3 DEF Delivery!Next
<1>3. CASE UNCHANGED <<log, committed>>
  <2>1. CASE Settled' = Settled
    BY <1>3, <2>1 DEF Delivery!vars
  <2>2. CASE Busy /\ Settled' = Settled \cup {Current}
    <3>1. /\ part \in Partition /\ position[part] = committed[part] + 1
          /\ position[part] \in 1 .. Len(log[part])
          /\ committed[part] \in Nat /\ Len(log[part]) \in Nat
      BY <2>2, InHand, LenOfLog DEF ConsumerInv, ConsumeTypeOK
    <3>2. Delivery!Settle(part)
      BY <1>3, <2>2, <3>1 DEF Delivery!Settle, Current
    <3> QED
      BY <3>1, <3>2 DEF Delivery!Next
  <2> QED
    BY <2>1, <2>2, SettledMoves
<1>4. \/ \E m \in Message : Produce(m) /\ UNCHANGED <<storeVars, fateVars>>
      \/ UNCHANGED log
  BY DEF Next, vars, ConsumerNext, HandlerStep, Environment, HandleMalformed, HandleInsert, HandlerOk, HandlerFails,
     HandleInsertFails, HandleInsertUnacked, HandlePublish, DeadLetter, DeadLetterFails, GiveUp,
     CreatorStep, CreatorInsert, CreatorInsertUnacked, CreatorPublish, consumeVars,
     ConsumerStep, Enter, End, FetchMessage, FetchStops, RetryTimer, RetryCancelled, Commit,
     CommitFails, Stop, Die, Restart
<1> QED
  BY <1>1, <1>2, <1>3, <1>4, CommittedMoves, NextMovesConsumer DEF Produce

\* Consume and its handler implement an at-least-once group.
THEOREM Implements == Spec => ImplementsAtLeastOnce
<1>1. Init => Delivery!Init
  BY RefineInit
<1>2. IInv /\ [Next]_vars => [Delivery!Next]_(Delivery!vars)
  BY RefineNext
<1> QED
  BY <1>1, <1>2, Inductive, PTL DEF Spec, ImplementsAtLeastOnce, Delivery!Spec

\* The promise of one member is a special case of that of several.
Several == INSTANCE SharedGroup WITH log <- [p \in Partition |-> Len(log[p])], settled <- Settled

\* A step that AtLeastOnce allows from such a state, SharedGroup allows too.
LEMMA OneOfSeveral ==
    ASSUME IInv, IInv', [Delivery!Next]_(Delivery!vars)
    PROVE  [Several!Next]_(Several!vars)
<1> DEFINE length == [p \in Partition |-> Len(log[p])]
<1>1. /\ \A p \in Partition : committed[p] \in Nat /\ Len(log[p]) \in Nat
      /\ committed \in [Partition -> Nat] /\ log \in [Partition -> Seq(Message)]
  BY LenOfLog DEF IInv, ConsumerInv, ConsumeTypeOK
<1>2. ASSUME NEW p \in Partition PROVE \A j \in 1 .. committed[p] : <<p, j>> \in Settled
  <2>1. Committed \subseteq Settled
    BY CommittedFollows DEF CommittedAreSettled
  <2>2. committed[p] <= Len(log[p]) /\ Len(log[p]) <= MaxLog /\ MaxLog \in Nat
    BY ConsumeAssumption DEF IInv, ConsumerInv, Offsets
  <2>3. \A j \in 1 .. committed[p] : j \in 1 .. MaxLog /\ j <= committed[p]
    BY <1>1, <2>2
  <2>4. QED
    BY <2>1, <2>3 DEF Committed, Id
<1>3. ASSUME NEW p \in Partition, Delivery!AppendTo(p) PROVE Several!Next
  <2>1. PICK m \in Message : log' = [log EXCEPT ![p] = Append(@, m)]
    BY <1>3 DEF Delivery!AppendTo
  <2>2. log[p] \in Seq(Message) /\ Len(Append(log[p], m)) = Len(log[p]) + 1
    BY <1>1
  <2>3. length' = [length EXCEPT ![p] = @ + 1]
    BY <1>1, <2>1, <2>2
  <2>4. Several!AppendTo(p)
    BY <1>3, <2>3 DEF Delivery!AppendTo, Several!AppendTo
  <2>5. QED
    BY <2>4 DEF Several!Next
<1>4. ASSUME NEW p \in Partition, Delivery!Settle(p) PROVE Several!Next
  <2>1. committed[p] + 1 \in 1 .. length[p] /\ committed[p] + 1 - 1 = committed[p]
    BY <1>1, <1>4 DEF Delivery!Settle
  <2>2. Several!SettledUpTo(p, (committed[p] + 1) - 1)
    <3>1. \A j \in 1 .. (committed[p] + 1) - 1 : j \in 1 .. committed[p]
      BY <1>1
    <3>2. QED
      BY <1>2, <3>1 DEF Several!SettledUpTo
  <2>3. Several!Settle(p)
    BY <1>4, <2>1, <2>2 DEF Delivery!Settle, Several!Settle
  <2>4. QED
    BY <2>3 DEF Several!Next
<1>5. ASSUME NEW p \in Partition, Delivery!Commit(p) PROVE Several!Next
  <2>1. <<p, committed[p] + 1>> \in Settled /\ committed' = [committed EXCEPT ![p] = committed[p] + 1]
        /\ UNCHANGED <<log, Settled>>
    BY <1>5 DEF Delivery!Commit
  <2>2. \A j \in 1 .. committed[p] + 1 : j \in 1 .. committed[p] \/ j = committed[p] + 1
    BY <1>1
  <2>3. Several!SettledUpTo(p, committed[p] + 1)
    BY <1>2, <2>1, <2>2 DEF Several!SettledUpTo
  <2>4. committed[p] + 1 \in 1 .. length[p]
    <3>1. committed'[p] <= Len(log'[p])
      BY DEF IInv, ConsumerInv, Offsets
    <3>2. committed'[p] = committed[p] + 1 /\ log' = log
      BY <1>1, <2>1
    <3>3. QED
      BY <1>1, <3>1, <3>2
  <2>5. Several!Commit(p)
    BY <2>1, <2>3, <2>4 DEF Several!Commit
  <2>6. QED
    BY <2>5 DEF Several!Next
<1>6. ASSUME UNCHANGED Delivery!vars PROVE UNCHANGED Several!vars
  BY <1>6 DEF Delivery!vars, Several!vars
<1>7. QED
  BY <1>3, <1>4, <1>5, <1>6 DEF Delivery!Next

\* Consume with its handler, as the only member, keeps what is promised of a group
\* that several members share.
THEOREM ImplementsSeveral == Spec => Several!Spec
<1>1. Init => Several!Init
  BY DEF Init, StoreInit, ConsumeInit, EmptyTopic, Several!Init, Settled, Stored, GivenUp, RowsOf, NoPosition
<1>2. IInv /\ [Next]_vars => [Several!Next]_(Several!vars)
  BY OneOfSeveral, RefineNext, StepInductive
<1>3. QED
  BY <1>1, <1>2, Inductive, PTL DEF Spec, Several!Spec

-----------------------------------------------------------------------------
\* A second row of a message is paid for by a fault.

\* The consumer may come to save the message again without another fault, or the fault
\* that keeps it from doing so has been counted: it is told to stop.
Awaits(id) ==
    \/ cancelled
    \/ /\ id[2] > committed[id[1]]
       /\ ~(id = Current /\ (pc = "commit" \/ saved[Consumer] # 0))

RowsPaid ==
    \A id \in Id :
        /\ Cardinality(RowsOf(id)) <= 1 + faults
        /\ Awaits(id) => Cardinality(RowsOf(id)) <= faults

LEMMA RowsOfFinite ==
    ASSUME IInv, NEW id PROVE IsFiniteSet(RowsOf(id)) /\ Cardinality(RowsOf(id)) \in Nat
<1>1. rows \in Seq(Row)
  BY DEF IInv, StoreTypeOK
<1>2. Len(rows) \in Nat /\ DOMAIN rows = 1 .. Len(rows)
  BY <1>1
<1>3. IsFiniteSet(1 .. Len(rows))
  BY <1>2, FS_Interval
<1>4. RowsOf(id) \subseteq 1 .. Len(rows)
  BY <1>2 DEF RowsOf
<1>5. QED
  BY <1>3, <1>4, FS_Subset, FS_CardinalityType

\* Only an INSERT by the consumer adds to the rows of a message, and one row to those
\* of the message in hand.
LEMMA RowsOfMove ==
    ASSUME IInv, [Next]_vars, NEW id \in Id
    PROVE  \/ RowsOf(id)' = RowsOf(id)
           \/ InsertFromMessage /\ id = Current /\ RowsOf(id)' = RowsOf(id) \cup {Len(rows) + 1}
<1>1. rows \in Seq(Row) /\ ConsumerInv
  BY DEF IInv, StoreTypeOK
<1>2. id[1] \in Partition /\ id = <<id[1], id[2]>> /\ id[1] # NoPartition
  BY TopicAssumption DEF Id
<1>3. CASE UNCHANGED rows
  BY <1>3 DEF RowsOf
<1>4. CASE InsertDirect
  <2>1. PICK m \in Message : rows'[Len(rows) + 1] = DirectRow(m)
    BY <1>1, <1>4, RowsGrow
  <2>2. rows'[Len(rows) + 1].part # id[1]
    BY <1>2, <2>1 DEF DirectRow
  <2>3. /\ Len(rows) \in Nat /\ DOMAIN rows = 1 .. Len(rows) /\ DOMAIN rows' = 1 .. Len(rows) + 1
        /\ \A k \in 1 .. Len(rows) : rows'[k] = rows[k]
    BY <1>1, <1>4, RowsGrow
  <2>4. \A k : k \in RowsOf(id)' <=> k \in RowsOf(id)
    BY <2>2, <2>3 DEF RowsOf
  <2>5. QED
    BY <2>4
<1>5. CASE InsertFromMessage
  <2>1. /\ Len(rows) \in Nat /\ DOMAIN rows = 1 .. Len(rows) /\ DOMAIN rows' = 1 .. Len(rows) + 1
        /\ \A k \in 1 .. Len(rows) : rows'[k] = rows[k]
        /\ rows'[Len(rows) + 1].part = part /\ rows'[Len(rows) + 1].idx = position[part]
    BY <1>1, <1>5, RowsGrow DEF RowInHand
  <2>2. CASE id = Current
    <3>1. id[1] = part /\ id[2] = position[part]
      BY <2>2 DEF Current
    <3>2. \A k : k \in RowsOf(id)' <=> k \in RowsOf(id) \/ k = Len(rows) + 1
      BY <2>1, <3>1 DEF RowsOf
    <3>3. RowsOf(id)' = RowsOf(id) \cup {Len(rows) + 1}
      BY <3>2
    <3>4. QED
      BY <1>5, <2>2, <3>3
  <2>3. CASE id # Current
    <3>1. id[1] # part \/ id[2] # position[part]
      BY <1>2, <2>3 DEF Current
    <3>2. \A k : k \in RowsOf(id)' <=> k \in RowsOf(id)
      BY <2>1, <3>1 DEF RowsOf
    <3>3. QED
      BY <3>2
  <2>4. QED
    BY <2>2, <2>3
<1>6. QED
  BY <1>3, <1>4, <1>5, RowsMove

\* A step that adds no row of a message, and brings none back to wait but by a fault.
LEMMA PaidKept ==
    ASSUME IInv, RowsPaid, faults' = faults \/ faults' = faults + 1,
           \A id \in Id : RowsOf(id)' = RowsOf(id),
           faults' = faults => \A id \in Id : Awaits(id)' => Awaits(id)
    PROVE  RowsPaid'
<1>1. faults \in Nat
  BY ConsumeAssumption DEF IInv, ConsumerInv, ConsumeTypeOK
<1>2. ASSUME NEW id \in Id
      PROVE  Cardinality(RowsOf(id)) <= 1 + faults' /\ (Awaits(id)' => Cardinality(RowsOf(id)) <= faults')
  <2>1. Cardinality(RowsOf(id)) \in Nat /\ Cardinality(RowsOf(id)) <= 1 + faults
        /\ (Awaits(id) => Cardinality(RowsOf(id)) <= faults)
    BY RowsOfFinite DEF RowsPaid
  <2>2. QED
    BY <1>1, <2>1
<1>3. \A id \in Id : Cardinality(RowsOf(id))' = Cardinality(RowsOf(id))
  OBVIOUS
<1>4. QED
  BY <1>2, <1>3 DEF RowsPaid

\* The consumer saves a row of the message in hand.
LEMMA PaidInsert ==
    ASSUME IInv, RowsPaid, [Next]_vars, HandleInsert \/ HandleInsertUnacked
    PROVE  RowsPaid'
<1>1. /\ pc = "handle" /\ ~cancelled /\ saved[Consumer] = 0
      /\ UNCHANGED <<log, committed, position, part, cancelled>>
      /\ \/ faults' = faults /\ saved'[Consumer] # 0
         \/ faults' = faults + 1
  <2>1. rows \in Seq(Row) /\ saved \in [Worker -> 0 .. Len(rows)] /\ Consumer \in Worker
    BY DEF IInv, StoreTypeOK, Worker
  <2>2. Len(rows) \in Nat
    BY <2>1
  <2>3. CASE HandleInsert
    <3>1. saved' = [saved EXCEPT ![Consumer] = Len(rows) + 1]
      BY <2>3 DEF HandleInsert, Insert
    <3>2. saved'[Consumer] # 0
      BY <2>1, <2>2, <3>1
    <3>3. QED
      BY <2>3, <3>2 DEF HandleInsert, Insert, consumeVars
  <2>4. CASE HandleInsertUnacked
    BY <2>4 DEF HandleInsertUnacked, HandlerFails, InsertUnacked
  <2>5. QED
    BY <2>3, <2>4
<1>2. part \in Partition /\ position[part] = committed[part] + 1 /\ Current \in Id /\ committed[part] \in Nat
  BY <1>1, InHand DEF IInv, ConsumerInv, ConsumeTypeOK
<1>3. Current[1] = part /\ Current[2] = committed[part] + 1 /\ Current' = Current
  BY <1>1, <1>2 DEF Current
<1>4. Awaits(Current)
  BY <1>1, <1>2, <1>3 DEF Awaits
<1>5. faults \in Nat
  BY ConsumeAssumption DEF IInv, ConsumerInv, ConsumeTypeOK
<1>6. ASSUME NEW id \in Id
      PROVE  Cardinality(RowsOf(id)') <= 1 + faults' /\ (Awaits(id)' => Cardinality(RowsOf(id)') <= faults')
  <2>1. Cardinality(RowsOf(id)) \in Nat /\ IsFiniteSet(RowsOf(id)) /\ Cardinality(RowsOf(id)) <= 1 + faults
        /\ (Awaits(id) => Cardinality(RowsOf(id)) <= faults)
    BY RowsOfFinite DEF RowsPaid
  <2>2. CASE id = Current
    <3>1. Cardinality(RowsOf(id)) <= faults
      BY <1>4, <2>1, <2>2
    <3>2. Cardinality(RowsOf(id) \cup {Len(rows) + 1}) \in {Cardinality(RowsOf(id)), Cardinality(RowsOf(id)) + 1}
      BY <2>1, FS_AddElement
    <3>3. Cardinality(RowsOf(id)') \in Nat /\ Cardinality(RowsOf(id)') <= Cardinality(RowsOf(id)) + 1
      <4>1. RowsOf(id)' = RowsOf(id) \/ RowsOf(id)' = RowsOf(id) \cup {Len(rows) + 1}
        BY RowsOfMove
      <4>2. CASE RowsOf(id)' = RowsOf(id)
        BY <2>1, <4>2
      <4>3. CASE RowsOf(id)' = RowsOf(id) \cup {Len(rows) + 1}
        <5>1. Cardinality(RowsOf(id)') = Cardinality(RowsOf(id) \cup {Len(rows) + 1})
          BY <4>3
        <5>2. QED
          BY <2>1, <3>2, <5>1
      <4>4. QED
        BY <4>1, <4>2, <4>3
    <3>4. Awaits(id)' => faults' = faults + 1
      BY <1>1, <1>3, <2>2 DEF Awaits
    <3>5. QED
      BY <1>1, <1>5, <2>1, <3>1, <3>3, <3>4
  <2>3. CASE id # Current
    <3>1. RowsOf(id)' = RowsOf(id)
      BY <2>3, RowsOfMove
    <3>2. Awaits(id)' => Awaits(id)
      BY <1>1, <1>3, <2>3 DEF Awaits
    <3>3. QED
      BY <1>1, <1>5, <2>1, <3>1, <3>2
  <2>4. QED
    BY <2>2, <2>3
<1>7. QED
  BY <1>6 DEF RowsPaid

LEMMA PaidStep == ASSUME IInv, RowsPaid, [Next]_vars PROVE RowsPaid'
<1>0. faults \in Nat /\ ConsumerInv
  BY ConsumeAssumption DEF IInv, ConsumerInv, ConsumeTypeOK
<1>1. CASE HandleInsert \/ HandleInsertUnacked
  BY <1>1, PaidInsert
<1>2. ASSUME ~HandleInsert, ~HandleInsertUnacked PROVE \A id \in Id : RowsOf(id)' = RowsOf(id)
  <2>1. \/ UNCHANGED rows
        \/ \E w \in Creator : CreatorInsert(w) \/ CreatorInsertUnacked(w)
    BY <1>2 DEF Next, vars, ConsumerNext, HandlerStep, Environment, HandleMalformed, HandleInsertFails,
       HandlePublish, DeadLetter, DeadLetterFails, CreatorStep, CreatorPublish, PublishCreated, WorkersLost,
       storeVars
  <2>2. InsertFromMessage => UNCHANGED rows
    <3>1. ASSUME NEW w \in Creator, CreatorInsert(w) \/ CreatorInsertUnacked(w) PROVE ~InsertFromMessage
      <4>1. PICK m \in Message : rows' = Append(rows, DirectRow(m))
        BY <3>1 DEF CreatorInsert, CreatorInsertUnacked, Insert, InsertUnacked, DirectRow
      <4>2. ASSUME InsertFromMessage PROVE FALSE
        <5>1. rows'[Len(rows) + 1] = RowInHand
          BY <1>0, <4>2, RowsGrow DEF IInv, StoreTypeOK
        <5>2. rows \in Seq(Row) /\ DirectRow(m) \in Row
          BY DirectRowType DEF IInv, StoreTypeOK
        <5>3. rows'[Len(rows) + 1] = DirectRow(m)
          BY <4>1, <5>2, AppendRow
        <5>4. part \in Partition
          BY <1>0, <4>2, InHand DEF InsertFromMessage
        <5>5. QED
          BY <5>1, <5>3, <5>4, TopicAssumption DEF RowInHand, DirectRow
      <4>3. QED
        BY <4>2
    <3>2. QED
      BY <2>1, <3>1
  <2>3. QED
    <3>1. ASSUME NEW id \in Id PROVE RowsOf(id)' = RowsOf(id)
      <4>1. CASE UNCHANGED rows
        BY <4>1 DEF RowsOf
      <4>2. CASE ~InsertFromMessage
        BY <4>2, RowsOfMove
      <4>3. QED
        BY <2>2, <4>1, <4>2
    <3>2. QED
      BY <3>1
<1>3. CASE Commit /\ UNCHANGED <<storeVars, fateVars>>
  <2>1. part \in Partition /\ position[part] = committed[part] + 1 /\ committed[part] \in Nat
    BY <1>0, <1>3, InHand DEF Commit, ConsumerInv, ConsumeTypeOK
  <2>2. /\ UNCHANGED <<cancelled, faults, saved, rows>> /\ ~cancelled
        /\ \A p \in Partition : committed'[p] = IF p = part THEN position[part] ELSE committed[p]
    BY <1>0, <1>3 DEF Commit, storeVars, ConsumerInv, ConsumeTypeOK
  <2>3. \A id \in Id : id[1] \in Partition /\ id[2] \in Nat /\ id = <<id[1], id[2]>>
        /\ committed[id[1]] \in Nat
    BY <1>0 DEF Id, ConsumerInv, ConsumeTypeOK
  <2>4. \A id \in Id : Awaits(id)' => id[2] > committed[id[1]] /\ id # Current
    BY <2>1, <2>2, <2>3 DEF Awaits, Current
  <2>5. \A id \in Id : Awaits(id)' => Awaits(id)
    BY <2>4 DEF Awaits
  <2>6. \A id \in Id : RowsOf(id)' = RowsOf(id)
    BY <2>2 DEF RowsOf
  <2>7. QED
    BY <2>2, <2>5, <2>6, PaidKept
<1>4. ASSUME UNCHANGED <<committed, cancelled, part, position>>, pc = "commit" => pc' = "commit",
             saved[Consumer] # 0 => saved'[Consumer] # 0 \/ pc' = "commit", faults' = faults \/ faults' = faults + 1,
             ~HandleInsert, ~HandleInsertUnacked
      PROVE  RowsPaid'
  <2>1. \A id \in Id : Awaits(id)' => Awaits(id)
    BY <1>4 DEF Awaits, Current
  <2>2. QED
    BY <1>2, <1>4, <2>1, PaidKept
<1>5. ASSUME UNCHANGED <<committed, cancelled, rows>>, pc \in {"loop", "fetch", "down", "ended"},
             faults' = faults \/ faults' = faults + 1
      PROVE  RowsPaid'
  <2>1. saved[Consumer] = 0
    BY <1>5 DEF IInv, Hand
  <2>2. \A id \in Id : Awaits(id)' => Awaits(id)
    BY <1>5, <2>1 DEF Awaits
  <2>3. \A id \in Id : RowsOf(id)' = RowsOf(id)
    BY <1>5 DEF RowsOf
  <2>4. QED
    BY <1>5, <2>2, <2>3, PaidKept
<1>6. ASSUME UNCHANGED rows, FaultOrCancelled PROVE RowsPaid'
  <2>1. \A id \in Id : RowsOf(id)' = RowsOf(id)
    BY <1>6 DEF RowsOf
  <2>2. cancelled => \A id \in Id : Awaits(id)
    BY DEF Awaits
  <2>3. QED
    BY <1>0, <1>6, <2>1, <2>2, PaidKept
<1>7. ASSUME UNCHANGED rows, Fault PROVE RowsPaid'
  BY <1>6, <1>7
<1>8. ASSUME ConsumerStep, UNCHANGED <<storeVars, fateVars>> PROVE RowsPaid'
  <2>1. UNCHANGED <<rows, saved>> /\ ~HandleInsert /\ ~HandleInsertUnacked
    BY <1>8 DEF storeVars, HandleInsert, HandleInsertUnacked, HandlerFails, ConsumerStep, Enter, End, FetchMessage, FetchStops,
       RetryTimer, RetryCancelled, Commit, CommitFails
  <2>2. CASE Enter \/ End \/ (\E p \in Partition : FetchMessage(p))
    BY <1>5, <2>1, <2>2 DEF Enter, End, FetchMessage
  <2>3. CASE FetchStops \/ CommitFails
    BY <1>6, <2>1, <2>3 DEF FetchStops, CommitFails
  <2>4. CASE RetryTimer \/ RetryCancelled
    BY <1>4, <2>1, <2>4 DEF RetryTimer, RetryCancelled
  <2>5. QED
    BY <1>3, <1>8, <2>2, <2>3, <2>4 DEF ConsumerStep
<1>9. ASSUME HandlerStep PROVE RowsPaid'
  <2>1. CASE HandleMalformed \/ HandleInsertFails
    BY <1>4, <1>1, <2>1 DEF HandleMalformed, HandleInsertFails, HandlerFails, storeVars
  <2>2. CASE HandlePublish
    <3>1. UNCHANGED <<committed, cancelled, part, position>> /\ pc = "handle" /\ pc' = "commit"
          /\ (faults' = faults \/ faults' = faults + 1)
      BY <2>2 DEF HandlePublish, HandlerOk, AnnounceFault
    <3>2. QED
      BY <1>1, <1>4, <3>1
  <2>3. CASE DeadLetter \/ DeadLetterFails
    BY <1>1, <1>4, <2>3 DEF DeadLetter, DeadLetterFails, GiveUp, storeVars
  <2>4. QED
    BY <1>1, <1>9, <2>1, <2>2, <2>3 DEF HandlerStep
<1>10. ASSUME NEW w \in Creator, CreatorStep(w) PROVE RowsPaid'
  <2>1. w # Consumer /\ Consumer \in Worker /\ saved \in [Worker -> 0 .. Len(rows)]
    BY EventsAssumption DEF IInv, StoreTypeOK, Worker
  <2>2. UNCHANGED <<log, committed, position, pc, part, attempt, cancelled>>
        /\ (faults' = faults \/ faults' = faults + 1)
    BY <1>10 DEF CreatorStep, CreatorInsert, CreatorInsertUnacked, CreatorPublish, AnnounceFault, consumeVars
  <2>3. saved'[Consumer] = saved[Consumer]
    BY <1>10, <2>1 DEF CreatorStep, CreatorInsert, CreatorInsertUnacked, CreatorPublish, Insert, InsertUnacked,
       PublishCreated
  <2>4. QED
    BY <1>1, <1>4, <2>2, <2>3
<1>11. ASSUME NEW m \in Message, Produce(m), UNCHANGED <<storeVars, fateVars>> PROVE RowsPaid'
  BY <1>1, <1>4, <1>11 DEF Produce, storeVars
<1>12. ASSUME Stop, UNCHANGED <<storeVars, fateVars>> PROVE RowsPaid'
  BY <1>7, <1>12 DEF Stop, storeVars
<1>13. ASSUME Die, WorkersLost PROVE RowsPaid'
  BY <1>6, <1>13 DEF Die, WorkersLost
<1>14. ASSUME Restart, UNCHANGED <<storeVars, fateVars>> PROVE RowsPaid'
  BY <1>5, <1>14 DEF Restart, storeVars
<1>15. ASSUME UNCHANGED vars PROVE RowsPaid'
  BY <1>1, <1>4, <1>15 DEF vars, consumeVars, storeVars
<1>16. QED
  BY <1>8, <1>9, <1>10, <1>11, <1>12, <1>13, <1>14, <1>15 DEF Next, ConsumerNext, Environment

\* The payment holds in every reachable state.
LEMMA RowsPaidAlways == Spec => []RowsPaid
<1>1. Init => RowsPaid
  <2> SUFFICES ASSUME Init PROVE RowsPaid
    OBVIOUS
  <2>1. rows = <<>> /\ faults = 0
    BY DEF Init, StoreInit, ConsumeInit, EmptyTopic
  <2>2. \A id \in Id : RowsOf(id) = {}
    BY <2>1 DEF RowsOf
  <2>3. QED
    BY <2>1, <2>2, FS_EmptySet DEF RowsPaid
<1>2. IInv /\ RowsPaid /\ [Next]_vars => RowsPaid'
  BY PaidStep
<1>3. QED
  BY <1>1, <1>2, Inductive, PTL DEF Spec

\* Each row beyond the first that a message becomes is paid for by a fault.
THEOREM DuplicatesArePaidFor == Spec => []DuplicatesCostFaults
<1>1. RowsPaid => DuplicatesCostFaults
  BY DEF RowsPaid, DuplicatesCostFaults
<1> QED
  BY <1>1, RowsPaidAlways, PTL

-----------------------------------------------------------------------------
\* Exactly once, as long as nothing fails.

\* Without faults nobody told the service to stop, what is retried or given up is
\* malformed, and every given up message has its copy in the DLQ.
OnlyMalformedFail ==
    faults = 0 =>
        /\ ~cancelled
        /\ pc \in {"retry", "giveup"} => CurrentMessage \in Malformed
        /\ dropped = {}
        /\ \A id \in dlq : id[2] \in 1 .. Len(log[id[1]]) /\ IsMalformed(id)

\* No two workers hold one row; without faults a row that some worker holds is not
\* yet announced and any other was announced once.
OneAnnouncement ==
    /\ \A v, w \in Worker : saved[v] = saved[w] /\ saved[v] # 0 => v = w
    /\ faults = 0 =>
         \A k \in DOMAIN rows :
             IF \E w \in Worker : saved[w] = k
               THEN Announcements(k) = {}
               ELSE \E a : Announcements(k) = {a}

\* The steps that are left when nothing fails.
FaultlessStep ==
    \/ (Enter \/ (\E p \in Partition : FetchMessage(p)) \/ RetryTimer \/ Commit) /\ UNCHANGED <<storeVars, fateVars>>
    \/ HandleMalformed
    \/ HandleInsert
    \/ HandlerOk /\ PublishCreated(Consumer, 1) /\ UNCHANGED fateVars
    \/ DeadLetter
    \/ \E m \in Message : Produce(m) /\ UNCHANGED <<storeVars, fateVars>>
    \/ \E w \in Creator : CreatorInsert(w)
    \/ \E w \in Creator : /\ PublishCreated(w, 1)
                          /\ UNCHANGED <<log, committed, position, pc, part, attempt, cancelled, fateVars>>
    \/ Restart /\ UNCHANGED <<storeVars, fateVars>>
    \/ UNCHANGED vars

\* A step after which there is no fault is one of these, and there was none before.
LEMMA Faultless ==
    ASSUME IInv, OnlyMalformedFail, [Next]_vars, faults' = 0
    PROVE  faults = 0 /\ ~cancelled /\ FaultlessStep
<1>1. faults \in Nat
  BY ConsumeAssumption DEF IInv, ConsumerInv, ConsumeTypeOK
<1>2. faults' \in {faults, faults + 1}
  BY DEF Next, vars, ConsumerNext, HandlerStep, Environment, HandleMalformed, HandleInsert,
     HandleInsertFails, HandleInsertUnacked, HandlePublish, DeadLetter, DeadLetterFails, AnnounceFault,
     CreatorStep, CreatorInsert, CreatorInsertUnacked, CreatorPublish, consumeVars,
     ConsumerStep, Enter, End, FetchMessage, FetchStops, RetryTimer, RetryCancelled, Commit,
     CommitFails, Produce, Stop, Die, Restart
<1>3. faults = 0 /\ ~Fault
  BY <1>1, <1>2
<1>4. ~cancelled
  BY <1>3 DEF OnlyMalformedFail
<1>5. ~FaultOrCancelled
  BY <1>3, <1>4
<1>6. ASSUME NEW w \in Worker, \E n \in 0 .. MaxCopies : PublishCreated(w, n) /\ AnnounceFault(n)
      PROVE  PublishCreated(w, 1)
  BY <1>3, <1>6 DEF AnnounceFault
<1>7. ~FetchStops /\ ~CommitFails /\ ~End /\ ~RetryCancelled /\ ~HandleInsertFails /\ ~HandleInsertUnacked
      /\ ~DeadLetterFails /\ ~Stop /\ ~Die /\ \A w \in Creator : ~CreatorInsertUnacked(w)
  BY <1>3, <1>4, <1>5 DEF FetchStops, CommitFails, End, RetryCancelled, HandleInsertFails, HandleInsertUnacked,
     DeadLetterFails, Stop, Die, CreatorInsertUnacked
<1>8. CASE HandlePublish
  BY <1>3, <1>4, <1>6, <1>8 DEF HandlePublish, FaultlessStep, Worker
<1>9. CASE \E w \in Creator : CreatorPublish(w)
  BY <1>3, <1>4, <1>6, <1>9 DEF CreatorPublish, FaultlessStep, Worker
<1>10. QED
  BY <1>3, <1>4, <1>7, <1>8, <1>9 DEF Next, ConsumerNext, ConsumerStep, HandlerStep, Environment, CreatorStep, FaultlessStep

LEMMA OnlyMalformedFailStep ==
    ASSUME IInv, OnlyMalformedFail, [Next]_vars
    PROVE  OnlyMalformedFail'
<1> SUFFICES ASSUME faults' = 0
             PROVE  /\ ~cancelled'
                    /\ pc' \in {"retry", "giveup"} => CurrentMessage' \in Malformed
                    /\ dropped' = {}
                    /\ \A id \in dlq' : id[2] \in 1 .. Len(log'[id[1]]) /\ log'[id[1]][id[2]] \in Malformed
  BY DEF OnlyMalformedFail, IsMalformed
<1>1. ConsumerInv /\ ConsumerMoves /\ dlq \subseteq Id
  BY NextMovesConsumer DEF IInv, GivenUp
<1>2. /\ faults = 0 /\ ~cancelled /\ FaultlessStep
      /\ pc \in {"retry", "giveup"} => CurrentMessage \in Malformed
      /\ dropped = {}
      /\ \A id \in dlq : id[2] \in 1 .. Len(log[id[1]]) /\ log[id[1]][id[2]] \in Malformed
  BY Faultless DEF OnlyMalformedFail, IsMalformed
<1>3. ~cancelled' /\ dropped' = {}
  BY <1>2 DEF FaultlessStep, Enter, FetchMessage, RetryTimer, Commit, HandleMalformed, HandlerFails, HandleInsert,
     HandlerOk, DeadLetter, GiveUp, Produce, CreatorInsert, Restart, vars, consumeVars, fateVars
<1>4. ASSUME NEW id \in Id, id[2] \in 1 .. Len(log[id[1]])
      PROVE  id[2] \in 1 .. Len(log'[id[1]]) /\ log'[id[1]][id[2]] = log[id[1]][id[2]]
  <2>1. id[1] \in Partition
    BY DEF Id
  <2>2. QED
    BY <1>1, <1>4, <2>1, LogGrows
<1>5. pc' \in {"retry", "giveup"} => CurrentMessage' \in Malformed
  <2> SUFFICES ASSUME pc' \in {"retry", "giveup"} PROVE CurrentMessage' \in Malformed
    OBVIOUS
  <2>1. /\ pc \in {"handle", "retry", "giveup"} /\ UNCHANGED <<part, position>>
        /\ pc = "handle" => CurrentMessage \in Malformed
    BY <1>2 DEF FaultlessStep, Enter, FetchMessage, RetryTimer, Commit, HandleMalformed, HandlerFails, HandleInsert,
       HandlerOk, DeadLetter, GiveUp, Produce, CreatorInsert, Restart, vars, consumeVars
  <2>2. Current \in Id /\ position[part] \in 1 .. Len(log[part])
    BY <1>1, <2>1, InHand
  <2>3. CurrentMessage' = CurrentMessage
    BY <1>4, <2>1, <2>2 DEF CurrentMessage, Current
  <2>4. QED
    BY <1>2, <2>1, <2>3
<1>6. \A id \in dlq' : id \in dlq \/ (id = Current /\ DeadLetter)
  BY <1>2 DEF FaultlessStep, Enter, FetchMessage, RetryTimer, Commit, HandleMalformed, HandlerFails, HandleInsert,
     HandlerOk, DeadLetter, GiveUp, Produce, CreatorInsert, Restart, vars, consumeVars, fateVars
<1>7. ASSUME NEW id \in dlq'
      PROVE  id[2] \in 1 .. Len(log'[id[1]]) /\ log'[id[1]][id[2]] \in Malformed
  <2>1. id \in Id /\ id[2] \in 1 .. Len(log[id[1]]) /\ log[id[1]][id[2]] \in Malformed
    <3>1. CASE id \in dlq
      BY <1>1, <1>2, <3>1
    <3>2. CASE id = Current /\ DeadLetter
      <4>1. pc = "giveup" /\ CurrentMessage \in Malformed
        BY <1>2, <3>2 DEF DeadLetter, GiveUp
      <4>2. Current \in Id /\ position[part] \in 1 .. Len(log[part])
        BY <1>1, <4>1, InHand
      <4>3. QED
        BY <3>2, <4>1, <4>2 DEF Current, CurrentMessage
    <3>3. QED
      BY <1>6, <3>1, <3>2
  <2>2. QED
    BY <1>4, <2>1
<1>8. QED
  BY <1>3, <1>5, <1>7

\* The places of a row in the topic of announcements.
LEMMA AnnouncedAt ==
    ASSUME NEW k, NEW a
    PROVE  a \in Announcements(k) <=>
               \E p \in Partition : \E j \in DOMAIN created[p] : a = <<p, j>> /\ created[p][j] = k
BY DEF Announcements

\* Announcing a row once adds one place to its own and none to those of another.
LEMMA AnnounceOnce ==
    ASSUME StoreTypeOK, NEW w \in Worker, PublishCreated(w, 1), NEW k
    PROVE  \E a : Announcements(k)' = IF k = saved[w] THEN Announcements(k) \cup {a} ELSE Announcements(k)
<1> DEFINE q == KeyPartition[rows[saved[w]].type]
<1>1. q \in Partition
  <2>1. saved[w] \in 1 .. Len(rows) /\ rows \in Seq(Row)
    BY DEF StoreTypeOK, PublishCreated
  <2>2. rows[saved[w]] \in Row
    BY <2>1
  <2>3. QED
    BY <2>2, TopicAssumption DEF Row
<1>2. created' = [created EXCEPT ![q] = @ \o [j \in 1 .. 1 |-> saved[w]]] /\ created \in [Partition -> Seq(1 .. Len(rows))]
  BY DEF PublishCreated, StoreTypeOK
<1> HIDE DEF q
<1> DEFINE n == Len(created[q])
<1>3. n \in Nat /\ DOMAIN created[q] = 1 .. n
  BY <1>1, <1>2
<1>4. DOMAIN created'[q] = 1 .. n + 1 /\ created'[q][n + 1] = saved[w] /\ \A j \in 1 .. n : created'[q][j] = created[q][j]
  <2>1. created'[q] = created[q] \o [j \in 1 .. 1 |-> saved[w]]
    BY <1>1, <1>2
  <2>2. [j \in 1 .. 1 |-> saved[w]] = <<saved[w]>>
    OBVIOUS
  <2>3. created[q] \in Seq(1 .. Len(rows))
    BY <1>1, <1>2
  <2>4. QED
    BY <2>1, <2>2, <2>3
<1>5. \A p \in Partition : p # q => created'[p] = created[p]
  BY <1>2
<1> HIDE DEF n
<1>6. \A a : a \in Announcements(k)' <=> a \in Announcements(k) \/ (a = <<q, n + 1>> /\ k = saved[w])
  <2> SUFFICES ASSUME NEW a
               PROVE  a \in Announcements(k)' <=> a \in Announcements(k) \/ (a = <<q, n + 1>> /\ k = saved[w])
    OBVIOUS
  <2>1. a \in Announcements(k)' <=>
            \E p \in Partition : \E j \in DOMAIN created'[p] : a = <<p, j>> /\ created'[p][j] = k
    BY DEF Announcements
  <2>2. ASSUME NEW p \in Partition
        PROVE  (\E j \in DOMAIN created'[p] : a = <<p, j>> /\ created'[p][j] = k) <=>
               \/ \E j \in DOMAIN created[p] : a = <<p, j>> /\ created[p][j] = k
               \/ p = q /\ a = <<q, n + 1>> /\ k = saved[w]
    <3>1. CASE p # q
      BY <1>5, <3>1
    <3>2. CASE p = q
      BY <1>3, <1>4, <3>2
    <3>3. QED
      BY <3>1, <3>2
  <2>3. QED
    BY <1>1, <2>1, <2>2, AnnouncedAt
<1>7. CASE k = saved[w]
  <2>1. Announcements(k)' = Announcements(k) \cup {<<q, n + 1>>}
    BY <1>6, <1>7
  <2>2. QED
    BY <1>7, <2>1
<1>8. CASE k # saved[w]
  <2>1. Announcements(k)' = Announcements(k)
    BY <1>6, <1>8
  <2>2. QED
    BY <1>8, <2>1
<1>9. QED
  BY <1>7, <1>8

\* The worker that announces its row lets go of it.
LEMMA AnnouncedStep ==
    ASSUME StoreTypeOK, OneAnnouncement, faults = 0, NEW w \in Worker, PublishCreated(w, 1)
    PROVE  OneAnnouncement'
<1>1. /\ saved[w] # 0 /\ saved' = [saved EXCEPT ![w] = 0] /\ UNCHANGED rows
      /\ saved \in [Worker -> 0 .. Len(rows)]
  BY DEF PublishCreated, StoreTypeOK
<1>2. \A u, v \in Worker : saved'[u] = saved'[v] /\ saved'[u] # 0 => u = v
  BY <1>1 DEF OneAnnouncement
<1>3. ASSUME NEW k \in DOMAIN rows
      PROVE  IF \E v \in Worker : saved'[v] = k
               THEN Announcements(k)' = {}
               ELSE \E a : Announcements(k)' = {a}
  <2>1. k # 0
    <3>1. rows \in Seq(Row)
      BY DEF StoreTypeOK
    <3>2. QED
      BY <3>1
  <2>2. PICK a : Announcements(k)' = IF k = saved[w] THEN Announcements(k) \cup {a} ELSE Announcements(k)
    BY AnnounceOnce
  <2>3. CASE k = saved[w]
    <3>1. Announcements(k) = {}
      BY <2>3 DEF OneAnnouncement
    <3>2. Announcements(k)' = {a}
      BY <2>2, <2>3, <3>1
    <3>3. ~ \E v \in Worker : saved'[v] = k
      BY <1>1, <2>1, <2>3 DEF OneAnnouncement
    <3>4. QED
      BY <3>2, <3>3
  <2>4. CASE k # saved[w]
    <3>1. Announcements(k)' = Announcements(k)
      BY <2>2, <2>4
    <3>2. (\E v \in Worker : saved'[v] = k) <=> (\E v \in Worker : saved[v] = k)
      BY <1>1, <2>1, <2>4
    <3>3. IF \E v \in Worker : saved[v] = k THEN Announcements(k) = {} ELSE \E b : Announcements(k) = {b}
      BY DEF OneAnnouncement
    <3>4. CASE \E v \in Worker : saved[v] = k
      BY <3>1, <3>2, <3>3, <3>4
    <3>5. CASE ~ \E v \in Worker : saved[v] = k
      <4>1. PICK b : Announcements(k) = {b}
        BY <3>3, <3>5
      <4>2. Announcements(k)' = {b}
        BY <3>1, <4>1
      <4>3. QED
        BY <3>2, <3>5, <4>2
    <3>6. QED
      BY <3>4, <3>5
  <2>5. QED
    BY <2>3, <2>4
<1>4. QED
  BY <1>1, <1>2, <1>3 DEF OneAnnouncement

\* The worker that saves a row, which nobody can have announced, holds it.
LEMMA SavedStep ==
    ASSUME StoreTypeOK, OneAnnouncement, NEW w \in Worker, NEW m \in Message,
           NEW p \in Partition \cup {NoPartition}, NEW i \in Nat, Insert(w, m, p, i), UNCHANGED faults
    PROVE  OneAnnouncement'
<1>1. rows \in Seq(Row) /\ saved \in [Worker -> 0 .. Len(rows)] /\ created \in [Partition -> Seq(1 .. Len(rows))]
  BY DEF StoreTypeOK
<1>2. [type |-> m, part |-> p, idx |-> i] \in Row
  BY DEF Row
<1>3. /\ Len(rows) \in Nat /\ DOMAIN rows = 1 .. Len(rows) /\ DOMAIN rows' = 1 .. Len(rows) + 1
      /\ saved' = [saved EXCEPT ![w] = Len(rows) + 1] /\ created' = created
  BY <1>1, <1>2, AppendRow DEF Insert
<1>4. \A u, v \in Worker : saved'[u] = saved'[v] /\ saved'[u] # 0 => u = v
  BY <1>1, <1>3 DEF OneAnnouncement
<1>5. \A k : Announcements(k)' = Announcements(k)
  BY <1>3 DEF Announcements
<1>6. Announcements(Len(rows) + 1) = {}
  <2>1. ASSUME NEW q \in Partition, NEW j \in DOMAIN created[q] PROVE created[q][j] # Len(rows) + 1
    <3>1. created[q] \in Seq(1 .. Len(rows))
      BY <1>1
    <3>2. created[q][j] \in 1 .. Len(rows)
      BY <3>1
    <3>3. QED
      BY <1>3, <3>2
  <2>2. QED
    BY <2>1, AnnouncedAt
<1>7. ASSUME NEW k \in DOMAIN rows', faults = 0
      PROVE  IF \E v \in Worker : saved'[v] = k
               THEN Announcements(k)' = {}
               ELSE \E a : Announcements(k)' = {a}
  <2>1. CASE k = Len(rows) + 1
    BY <1>1, <1>3, <1>5, <1>6, <2>1
  <2>2. CASE k \in DOMAIN rows
    <3>1. IF \E v \in Worker : saved[v] = k THEN Announcements(k) = {} ELSE \E a : Announcements(k) = {a}
      BY <1>7, <2>2 DEF OneAnnouncement
    <3>2. saved[w] = 0
      BY DEF Insert
    <3>3. (\E v \in Worker : saved'[v] = k) <=> (\E v \in Worker : saved[v] = k)
      BY <1>1, <1>3, <2>2, <3>2
    <3>4. Announcements(k)' = Announcements(k)
      BY <1>5
    <3>5. CASE \E v \in Worker : saved[v] = k
      BY <3>1, <3>3, <3>4, <3>5
    <3>6. CASE ~ \E v \in Worker : saved[v] = k
      <4>1. PICK b : Announcements(k) = {b}
        BY <3>1, <3>6
      <4>2. Announcements(k)' = {b}
        BY <3>4, <4>1
      <4>3. QED
        BY <3>3, <3>6, <4>2
    <3>7. QED
      BY <3>5, <3>6
  <2>3. k = Len(rows) + 1 \/ k \in DOMAIN rows
    BY <1>3
  <2>4. QED
    BY <2>1, <2>2, <2>3
<1>8. QED
  BY <1>3, <1>4, <1>7 DEF OneAnnouncement

\* Workers never come to hold one row, not even when faults happen.
LEMMA HandsApart ==
    ASSUME StoreTypeOK, OneAnnouncement, [Next]_vars
    PROVE  \A v, w \in Worker : saved'[v] = saved'[w] /\ saved'[v] # 0 => v = w
<1>1. saved \in [Worker -> 0 .. Len(rows)] /\ Len(rows) \in Nat
  <2>1. rows \in Seq(Row)
    BY DEF StoreTypeOK
  <2>2. QED
    BY <2>1 DEF StoreTypeOK
<1>2. \A v, w \in Worker : saved[v] = saved[w] /\ saved[v] # 0 => v = w
  BY DEF OneAnnouncement
<1>3. \/ saved' = saved
      \/ saved' = [w \in Worker |-> 0]
      \/ \E w \in Worker : saved' = [saved EXCEPT ![w] = Len(rows) + 1] \/ saved' = [saved EXCEPT ![w] = 0]
  BY StoreMoves DEF Worker, InsertFromMessage, InsertDirect, HandlePublish, CreatorPublish, PublishCreated, WorkersLost, storeVars
<1>4. QED
  BY <1>1, <1>2, <1>3

LEMMA OneAnnouncementStep ==
    ASSUME IInv, OnlyMalformedFail, OneAnnouncement, [Next]_vars
    PROVE  OneAnnouncement'
<1>1. StoreTypeOK /\ ConsumerInv
  BY DEF IInv
<1>2. \A v, w \in Worker : saved'[v] = saved'[w] /\ saved'[v] # 0 => v = w
  BY <1>1, HandsApart
<1>3. ASSUME faults' = 0 PROVE OneAnnouncement'
  <2>1. faults = 0 /\ FaultlessStep
    BY <1>3, Faultless
  <2>2. Consumer \in Worker /\ \A w \in Creator : w \in Worker
    BY DEF Worker
  <2>3. CASE HandleInsert
    <3>1. part \in Partition /\ position[part] \in Nat /\ CurrentMessage \in Message
      BY <1>1, <2>3, InHand DEF HandleInsert, ConsumerInv, ConsumeTypeOK
    <3>2. Insert(Consumer, CurrentMessage, part, position[part]) /\ UNCHANGED faults
      BY <2>3 DEF HandleInsert, consumeVars
    <3>3. QED
      BY <1>1, <2>2, <3>1, <3>2, SavedStep
  <2>4. CASE \E w \in Creator : CreatorInsert(w)
    <3>1. PICK w \in Creator, m \in Message : Insert(w, m, NoPartition, 0) /\ UNCHANGED faults
      BY <2>4 DEF CreatorInsert, consumeVars
    <3>2. QED
      BY <1>1, <2>2, <3>1, SavedStep
  <2>5. CASE \E w \in Worker : PublishCreated(w, 1)
    BY <1>1, <2>1, <2>5, AnnouncedStep
  <2>6. CASE UNCHANGED storeVars
    <3>1. \A k : Announcements(k)' = Announcements(k)
      BY <2>6 DEF Announcements, storeVars
    <3>2. \A k \in DOMAIN rows' :
             IF \E w \in Worker : saved'[w] = k THEN Announcements(k)' = {} ELSE \E a : Announcements(k)' = {a}
      BY <2>1, <2>6, <3>1 DEF OneAnnouncement, storeVars
    <3>3. QED
      BY <1>2, <3>2 DEF OneAnnouncement
  <2>7. QED
    BY <2>1, <2>2, <2>3, <2>4, <2>5, <2>6 DEF FaultlessStep, HandleMalformed, DeadLetter, vars
<1>4. QED
  BY <1>2, <1>3 DEF OneAnnouncement

\* What the invariants say when nothing failed.
LEMMA ExactlyOnceFollows ==
    ASSUME IInv, RowsPaid, OnlyMalformedFail, OneAnnouncement
    PROVE  ExactlyOnceWithoutFaults
<1> SUFFICES ASSUME faults = 0
             PROVE  /\ \A id \in Committed :
                         IF IsMalformed(id)
                           THEN id \in dlq /\ RowsOf(id) = {}
                           ELSE Cardinality(RowsOf(id)) = 1 /\ id \notin GivenUp
                    /\ \A k \in DOMAIN rows :
                         Cardinality(Announcements(k)) = IF \E w \in Worker : saved[w] = k THEN 0 ELSE 1
  BY DEF ExactlyOnceWithoutFaults
<1>1. ASSUME NEW k \in DOMAIN rows
      PROVE  Cardinality(Announcements(k)) = IF \E w \in Worker : saved[w] = k THEN 0 ELSE 1
  BY FS_EmptySet, FS_Singleton DEF OneAnnouncement
<1>2. ASSUME NEW id \in Committed
      PROVE  IF IsMalformed(id)
               THEN id \in dlq /\ RowsOf(id) = {}
               ELSE Cardinality(RowsOf(id)) = 1 /\ id \notin GivenUp
  <2>1. id \in Id /\ id \in Settled
    BY DEF Committed, IInv, NothingSkipped
  <2>2. id \in Stored => ~IsMalformed(id)
    BY <2>1, CommittedFollows DEF CommittedAreSettled
  <2>3. id \in dlq \cup dropped => id \in dlq /\ IsMalformed(id)
    BY DEF OnlyMalformedFail
  <2>4. CASE IsMalformed(id)
    BY <2>1, <2>2, <2>3, <2>4 DEF Settled, GivenUp, Stored
  <2>5. CASE ~IsMalformed(id)
    <3>1. id \notin GivenUp /\ RowsOf(id) # {}
      BY <2>1, <2>3, <2>5 DEF Settled, GivenUp, Stored
    <3>2. Cardinality(RowsOf(id)) \in Nat /\ Cardinality(RowsOf(id)) # 0
      BY <3>1, RowsOfFinite, FS_EmptySet
    <3>3. Cardinality(RowsOf(id)) <= 1
      BY <2>1 DEF RowsPaid
    <3>4. QED
      BY <2>5, <3>1, <3>2, <3>3
  <2>6. QED
    BY <2>4, <2>5
<1>3. QED
  BY <1>1, <1>2

\* When nothing failed and nobody stopped the service, the path of a message from
\* its topic to its row and its announcement is taken exactly once.
THEOREM ExactlyOnce == Spec => []ExactlyOnceWithoutFaults
<1>1. Init => OnlyMalformedFail /\ OneAnnouncement
  BY EmptySeq DEF Init, ConsumeInit, EmptyTopic, StoreInit, OnlyMalformedFail, OneAnnouncement
<1>2. IInv /\ OnlyMalformedFail /\ OneAnnouncement /\ [Next]_vars => OnlyMalformedFail' /\ OneAnnouncement'
  BY OnlyMalformedFailStep, OneAnnouncementStep
<1>3. IInv /\ RowsPaid /\ OnlyMalformedFail /\ OneAnnouncement => ExactlyOnceWithoutFaults
  BY ExactlyOnceFollows
<1>4. QED
  BY <1>1, <1>2, <1>3, Inductive, RowsPaidAlways, PTL DEF Spec


=============================================================================
