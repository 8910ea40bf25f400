------------------------ MODULE StatusService_proofs ------------------------
(***************************************************************************)
(* Proofs about the status service, for any partitions, messages, clients  *)
(* and bounds.  The consumer's part of the invariant (ConsumerInv) is the  *)
(* same as in EventsService_proofs.  How often a message was counted is    *)
(* bounded by an account of the faults: a message that awaits the consumer *)
(* was counted at most once per fault, and a count takes it out of those   *)
(* that wait until another fault brings it back.  What the callers are     *)
(* told follows from who holds the mutex (TallyInv, SeenChecks).           *)
(***************************************************************************)
EXTENDS StatusService, SequenceTheorems, FiniteSetTheorems, TLAPS

-----------------------------------------------------------------------------
\* The consumer, whatever its handler does: the steps of the service are seen from
\* the variables of Consume alone (ConsumerMoves).

\* The reader's offsets between two fetches: equal to the committed ones, but for
\* the message in hand, which is the next one of its partition.
Offsets ==
    \A p \in Partition :
        /\ committed[p] <= Len(log[p])
        /\ position[p] <= Len(log[p])
        /\ Len(log[p]) <= MaxLog
        /\ pc = "fetch" => position[p] = committed[p]
        /\ Busy => position[p] = IF p = part THEN committed[p] + 1 ELSE committed[p]

ConsumerInv == ConsumeTypeOK /\ Offsets

\* Every action of a service that consumes, seen from the variables of Consume.
ConsumerMoves ==
    \/ \E m \in Message : Produce(m)
    \/ ConsumerStep
    \/ HandlerOk /\ (Fault \/ UNCHANGED faults)
    \/ HandlerFails /\ (Fault \/ UNCHANGED faults)
    \/ GiveUp /\ (Fault \/ UNCHANGED faults)
    \/ Stop
    \/ Die
    \/ Restart
    \/ UNCHANGED <<log, committed, position, pc, part, attempt, cancelled>> /\ Fault
    \/ UNCHANGED consumeVars

USE DEF NoPosition, Place, Busy, Alive, Fault, FaultOrCancelled, EmptyHands

\* A partition of the log has a length.
LEMMA LenOfLog == ASSUME log \in [Partition -> Seq(Message)], NEW p \in Partition PROVE Len(log[p]) \in Nat
<1>1. log[p] \in Seq(Message)
  OBVIOUS
<1> QED
  BY <1>1, LenProperties

\* A fresh group and a fresh reader satisfy the consumer's invariant.
LEMMA ConsumerInit == ConsumeInit => ConsumerInv
<1> SUFFICES ASSUME ConsumeInit PROVE ConsumerInv
    OBVIOUS
<1>1. \A p \in Partition : log[p] = <<>> /\ committed[p] = 0 /\ position[p] = 0
  BY DEF ConsumeInit, EmptyTopic
<1>2. ConsumeTypeOK
  <2>1. log \in [Partition -> Seq(Message)]
    BY DEF ConsumeInit, EmptyTopic
  <2>2. committed \in [Partition -> Nat] /\ position \in [Partition -> Nat]
    BY DEF ConsumeInit, EmptyTopic
  <2>3. cancelled \in BOOLEAN
    BY Zenon DEF ConsumeInit, EmptyTopic
  <2> QED
    BY <2>1, <2>2, <2>3, ConsumeAssumption, TopicAssumption DEF ConsumeInit, EmptyTopic, ConsumeTypeOK
<1>3. Offsets
  <2>1. pc = "loop" /\ MaxLog \in Nat
    BY ConsumeAssumption DEF ConsumeInit, EmptyTopic
  <2>2. \A p \in Partition : Len(log[p]) = 0
    BY <1>1, EmptySeq
  <2>3. \A p \in Partition : committed[p] = 0 /\ position[p] = 0
    BY <1>1
  <2>4. ~Busy
    BY <2>1
  <2> SUFFICES ASSUME NEW p \in Partition
               PROVE  /\ committed[p] <= Len(log[p])
                      /\ position[p] <= Len(log[p])
                      /\ Len(log[p]) <= MaxLog
                      /\ pc = "fetch" => position[p] = committed[p]
                      /\ Busy => position[p] = IF p = part THEN committed[p] + 1 ELSE committed[p]
    BY DEF Offsets
  <2>5. committed[p] <= Len(log[p])
    BY <2>2, <2>3
  <2>6. Len(log[p]) <= MaxLog
    BY <2>1, <2>2
  <2>7. position[p] <= Len(log[p])
    BY <2>2, <2>3
  <2>8. pc = "fetch" => position[p] = committed[p]
    BY <2>1
  <2> QED
    BY <2>4, <2>5, <2>6, <2>7, <2>8
<1> QED
  BY <1>2, <1>3 DEF ConsumerInv

\* Every step of Consume and processWithRetry, whatever the handler answers and
\* however the process stops, keeps the consumer's invariant.
LEMMA ConsumerMovesStep == ConsumerInv /\ ConsumerMoves => ConsumerInv'
<1> SUFFICES ASSUME ConsumerInv, ConsumerMoves PROVE ConsumerInv'
    OBVIOUS
<1> USE ConsumeAssumption, TopicAssumption DEF ConsumerInv, ConsumeTypeOK, Offsets
<1>1. CASE \E m \in Message : Produce(m)
  BY <1>1 DEF Produce
<1>2. CASE Enter
  BY <1>2 DEF Enter
<1>3. CASE End
  BY <1>3 DEF End
<1>4. CASE \E p \in Partition : FetchMessage(p)
  BY <1>4 DEF FetchMessage
<1>5. CASE FetchStops
  BY <1>5 DEF FetchStops
<1>6. CASE RetryTimer
  BY <1>6 DEF RetryTimer
<1>7. CASE RetryCancelled
  BY <1>7 DEF RetryCancelled
<1>8. CASE Commit
  BY <1>8 DEF Commit
<1>9. CASE CommitFails
  <2>1. committed' = committed \/ committed' = [committed EXCEPT ![part] = position[part]]
    BY <1>9 DEF CommitFails
  <2> QED
    <3>1. ConsumeTypeOK'
      BY <1>9, <2>1 DEF CommitFails
    <3>2. position' = NoPosition /\ log' = log /\ pc' = "loop"
      BY <1>9 DEF CommitFails
    <3>3. \A p \in Partition : committed'[p] <= Len(log[p])
      BY <1>9, <2>1 DEF CommitFails
    <3>4. \A p \in Partition : Len(log[p]) \in Nat
      BY LenOfLog
    <3> QED
      BY <3>1, <3>2, <3>3, <3>4
<1>10. CASE HandlerOk /\ (Fault \/ UNCHANGED faults)
  BY <1>10 DEF HandlerOk
<1>11. CASE HandlerFails /\ (Fault \/ UNCHANGED faults)
  BY <1>11 DEF HandlerFails
<1>12. CASE GiveUp /\ (Fault \/ UNCHANGED faults)
  BY <1>12 DEF GiveUp
<1>13. CASE Stop
  BY <1>13 DEF Stop
<1>14. CASE Die
  <2>4. cancelled' \in BOOLEAN
    BY <1>14, Zenon DEF Die
  <2>1. ConsumeTypeOK'
    BY <1>14, <2>4 DEF Die
  <2>2. position' = NoPosition /\ log' = log /\ committed' = committed /\ pc' = "down"
    BY <1>14 DEF Die
  <2>3. \A p \in Partition : Len(log[p]) \in Nat
    BY LenOfLog
  <2> QED
    BY <2>1, <2>2, <2>3
<1>15. CASE Restart
  BY <1>15 DEF Restart
<1>16. CASE UNCHANGED <<log, committed, position, pc, part, attempt, cancelled>> /\ Fault
  BY <1>16
<1>17. CASE UNCHANGED consumeVars
  BY <1>17 DEF consumeVars
<1> QED
  BY <1>1, <1>2, <1>3, <1>4, <1>5, <1>6, <1>7, <1>8, <1>9, <1>10, <1>11, <1>12,
     <1>13, <1>14, <1>15, <1>16, <1>17 DEF ConsumerMoves, ConsumerStep

\* The message in hand lies in the log, just behind the committed ones.
LEMMA InHand ==
  ASSUME ConsumerInv, Busy
  PROVE  /\ part \in Partition
         /\ position[part] = committed[part] + 1
         /\ position[part] \in 1 .. Len(log[part])
         /\ CurrentMessage \in Message
         /\ Current \in Id
<1> USE TopicAssumption, ConsumeAssumption DEF ConsumerInv
<1>1. part \in Partition
  BY DEF ConsumeTypeOK
<1>2. position[part] = committed[part] + 1 /\ position[part] <= Len(log[part]) /\ Len(log[part]) <= MaxLog
  BY <1>1 DEF Offsets
<1>3. committed[part] \in Nat /\ log[part] \in Seq(Message) /\ Len(log[part]) \in Nat
  BY <1>1, LenOfLog DEF ConsumeTypeOK
<1>4. position[part] \in 1 .. Len(log[part]) /\ position[part] \in 1 .. MaxLog
  BY <1>2, <1>3
<1>5. CurrentMessage \in Message
  BY <1>3, <1>4, ElementOfSeq DEF CurrentMessage
<1> QED
  BY <1>1, <1>2, <1>4, <1>5 DEF Current, Id

\* What Append does to a sequence, in the form the steps below use.
LEMMA AppendRow ==
  ASSUME NEW S, NEW s \in Seq(S), NEW e \in S, NEW t, t = Append(s, e)
  PROVE  /\ t \in Seq(S)
         /\ Len(t) = Len(s) + 1 /\ Len(s) \in Nat
         /\ DOMAIN s = 1 .. Len(s) /\ DOMAIN t = 1 .. Len(s) + 1
         /\ \A i \in 1 .. Len(s) : t[i] = s[i]
         /\ t[Len(s) + 1] = e
OBVIOUS

\* Only Produce changes the log, and it appends.
LEMMA LogGrows ==
  ASSUME ConsumerInv, ConsumerMoves, NEW p \in Partition
  PROVE  /\ Len(log[p]) \in Nat /\ Len(log'[p]) \in Nat
         /\ Len(log[p]) <= Len(log'[p])
         /\ \A i \in 1 .. Len(log[p]) : log'[p][i] = log[p][i]
<1>1. log[p] \in Seq(Message) /\ Len(log[p]) \in Nat
  BY LenOfLog DEF ConsumerInv, ConsumeTypeOK
<1>2. CASE \E m \in Message : Produce(m)
  <2>1. PICK m \in Message : Produce(m)
    BY <1>2
  <2>2. CASE p = KeyPartition[m]
    <3>1. log'[p] = Append(log[p], m)
      BY <2>1, <2>2 DEF Produce, ConsumerInv, ConsumeTypeOK
    <3> QED
      BY <1>1, <3>1, AppendRow
  <2>3. CASE p # KeyPartition[m]
    <3>1. log'[p] = log[p]
      BY <2>1, <2>3 DEF Produce, ConsumerInv, ConsumeTypeOK
    <3> QED
      BY <1>1, <3>1
  <2> QED
    BY <2>2, <2>3
<1>3. CASE UNCHANGED log
  BY <1>1, <1>3
<1> QED
  BY <1>2, <1>3 DEF ConsumerMoves, ConsumerStep, Enter, End, FetchMessage, FetchStops, RetryTimer,
     RetryCancelled, Commit, CommitFails, HandlerOk, HandlerFails, GiveUp, Stop, Die, Restart, consumeVars

-----------------------------------------------------------------------------

\* Every step of the status service is one of ConsumerMoves.
LEMMA NextMovesConsumer == [Next]_vars => ConsumerMoves
  BY DEF Next, vars, ConsumerMoves, ConsumerNext, HandleMalformed, HandleTotal, HandleSeverity, LeaveBehind,
     Request, CallStep, InsertCheckFails, Crash, StartAgain, consumeVars, consumeRest

-----------------------------------------------------------------------------
\* Types, and who holds the mutex.

\* The consumer holds the mutex over a message that decodes only, and what is given
\* up does not.
Holding ==
    /\ mu = "consumer" => pc = "handle" /\ CurrentMessage \notin Malformed
    /\ pc \in {"retry", "giveup"} => CurrentMessage \in Malformed

Tracked ==
    /\ mu \in Client \cup {"consumer", "free"}
    /\ \A c \in Client : at[c] = "insert" <=> mu = c
    /\ checks \in Nat /\ eventsSeen \in Nat /\ checkRows \in Nat /\ failures \in Nat
    /\ bySeverity \in [Severity -> Nat]
    /\ at \in [Client -> {"idle", "register", "insert", "snapshot", "counts"}]
    /\ answer \in [Client -> [checks : Nat, total : Nat, bySeverity : [Severity -> Nat]]]
    /\ requests \in 0 .. MaxRequests
    /\ times \in [Id -> Nat]
    /\ born \in [offsets : [Partition -> Nat], rows : Nat]

StatusInv == ConsumerInv /\ Holding /\ Tracked

\* The message in hand stays what it is while it is in hand.
LEMMA HandStays ==
    ASSUME ConsumerInv, ConsumerMoves, Busy, UNCHANGED <<part, position>>
    PROVE  CurrentMessage' = CurrentMessage /\ Current' = Current
<1>1. part \in Partition /\ position[part] \in 1 .. Len(log[part])
  BY InHand
<1>2. log'[part][position[part]] = log[part][position[part]]
  BY <1>1, LogGrows
<1>3. QED
  BY <1>2 DEF CurrentMessage, Current

LEMMA HoldingStep == ASSUME StatusInv, [Next]_vars PROVE Holding'
<1>0. ConsumerMoves
  BY NextMovesConsumer
<1>1. CASE HandleTotal
  BY <1>1 DEF HandleTotal, StatusInv, Holding, CurrentMessage, consumeVars
<1>2. CASE HandleMalformed
  <2>1. pc = "handle" /\ pc' = "retry" /\ UNCHANGED <<log, part, position, mu>> /\ CurrentMessage \in Malformed
    BY <1>2 DEF HandleMalformed, HandlerFails, trackerVars
  <2>2. QED
    BY <2>1 DEF StatusInv, Holding, CurrentMessage
<1>3. CASE HandleSeverity
  BY <1>3 DEF HandleSeverity, HandlerOk, Holding
<1>4. CASE LeaveBehind
  BY <1>4 DEF LeaveBehind, GiveUp, StatusInv, Holding, trackerVars
<1>5. CASE ConsumerStep /\ UNCHANGED trackerVars
  <2>1. CASE RetryTimer \/ RetryCancelled
    BY <1>5, <2>1 DEF RetryTimer, RetryCancelled, StatusInv, Holding, CurrentMessage, trackerVars
  <2>2. CASE ~RetryTimer /\ ~RetryCancelled
    BY <1>5, <2>2 DEF ConsumerStep, Enter, End, FetchMessage, FetchStops, Commit, CommitFails, StatusInv, Holding,
       trackerVars
  <2>3. QED
    BY <2>1, <2>2
<1>6. ASSUME NEW m \in Message, Produce(m), UNCHANGED <<trackerVars, checkVars, callVars, born>> PROVE Holding'
  <2>1. UNCHANGED <<pc, part, position, mu>>
    BY <1>6 DEF Produce, trackerVars
  <2>2. Busy => CurrentMessage' = CurrentMessage
    BY <1>0, <2>1, HandStays DEF StatusInv
  <2>3. QED
    BY <2>1, <2>2 DEF StatusInv, Holding
<1>7. CASE Stop /\ UNCHANGED <<trackerVars, checkVars, callVars, born>>
  BY <1>7 DEF Stop, StatusInv, Holding, CurrentMessage, trackerVars
<1>8. ASSUME NEW c \in Client,
             \/ Request(c) /\ UNCHANGED <<consumeVars, born>>
             \/ CallStep(c) /\ UNCHANGED <<consumeRest, born>>
      PROVE  Holding'
  <2>1. UNCHANGED <<pc, log, part, position>> /\ (UNCHANGED mu \/ mu' \in {c, "free"})
    BY <1>8 DEF Request, CallStep, RegisterCheck, InsertCheck, InsertCheckFails, Snapshot, EventCounts, consumeVars,
       consumeRest, trackerVars
  <2>2. c # "consumer"
    BY StatusAssumption
  <2>3. QED
    BY <2>1, <2>2 DEF StatusInv, Holding, CurrentMessage
<1>9. CASE Crash
  BY <1>9 DEF Crash, Die, Holding
<1>10. CASE StartAgain
  BY <1>10 DEF StartAgain, Restart, StatusInv, Holding, trackerVars
<1>11. CASE UNCHANGED vars
  BY <1>11 DEF StatusInv, Holding, CurrentMessage, vars, consumeVars, trackerVars
<1>12. CASE ConsumerNext
  BY <1>1, <1>2, <1>3, <1>4, <1>5, <1>12 DEF ConsumerNext
<1>13. QED
  BY <1>6, <1>7, <1>8, <1>9, <1>10, <1>11, <1>12 DEF Next

\* A step of a handler.
LEMMA CallTyped ==
    ASSUME StatusInv, NEW c \in Client, Request(c) \/ CallStep(c), UNCHANGED born
    PROVE  Tracked'
<1> USE DEF StatusInv, Tracked
<1>0. c \notin {"consumer", "free"}
  BY StatusAssumption
<1>1. CASE Request(c)
  BY <1>0, <1>1, StatusAssumption DEF Request, trackerVars, checkVars
<1>2. CASE RegisterCheck(c)
  BY <1>0, <1>2, StatusAssumption DEF RegisterCheck, checkVars
<1>3. CASE InsertCheck(c)
  BY <1>0, <1>3, StatusAssumption DEF InsertCheck
<1>4. CASE InsertCheckFails(c)
  BY <1>0, <1>4, StatusAssumption DEF InsertCheckFails
<1>5. CASE Snapshot(c)
  <2>1. [NoAnswer EXCEPT !.checks = checks] \in [checks : Nat, total : Nat, bySeverity : [Severity -> Nat]]
    BY DEF NoAnswer, NoCounts
  <2>2. UNCHANGED <<trackerVars, checkVars, requests>>
    BY <1>5 DEF Snapshot
  <2>3. PICK next \in {"idle", "counts"} : at' = [at EXCEPT ![c] = next]
    BY <1>5 DEF Snapshot
  <2>4. at' \in [Client -> {"idle", "register", "insert", "snapshot", "counts"}]
        /\ \A d \in Client : at'[d] = "insert" <=> at[d] = "insert"
    BY <1>5, <2>3 DEF Snapshot
  <2>5. answer' \in [Client -> [checks : Nat, total : Nat, bySeverity : [Severity -> Nat]]]
    BY <1>5, <2>1 DEF Snapshot
  <2>6. QED
    BY <2>2, <2>4, <2>5 DEF trackerVars, checkVars
<1>6. CASE EventCounts(c)
  <2>1. [answer[c] EXCEPT !.total = eventsSeen, !.bySeverity = bySeverity]
          \in [checks : Nat, total : Nat, bySeverity : [Severity -> Nat]]
    OBVIOUS
  <2>2. answer' \in [Client -> [checks : Nat, total : Nat, bySeverity : [Severity -> Nat]]]
    BY <1>6, <2>1 DEF EventCounts
  <2>3. at' \in [Client -> {"idle", "register", "insert", "snapshot", "counts"}]
        /\ \A d \in Client : at'[d] = "insert" <=> at[d] = "insert"
    BY <1>6 DEF EventCounts
  <2>4. QED
    BY <1>6, <2>2, <2>3 DEF EventCounts, trackerVars, checkVars
<1>7. QED
  BY <1>1, <1>2, <1>3, <1>4, <1>5, <1>6 DEF CallStep

LEMMA TrackedStep == ASSUME StatusInv, [Next]_vars PROVE Tracked'
<1>1. ASSUME NEW c \in Client, Request(c) \/ CallStep(c), UNCHANGED born PROVE Tracked'
  BY <1>1, CallTyped
<1>2. CASE HandleTotal /\ UNCHANGED <<checkVars, callVars, born>>
  <2>1. \A c \in Client : c \notin {"consumer", "free"}
    BY StatusAssumption
  <2>2. QED
    BY <1>2, <2>1 DEF HandleTotal, StatusInv, Tracked, checkVars, callVars
<1>3. CASE HandleSeverity /\ UNCHANGED <<checkVars, callVars, born>>
  <2>1. \A c \in Client : c \notin {"consumer", "free"}
    BY StatusAssumption
  <2>2. UNCHANGED <<checks, eventsSeen, checkRows, failures, at, answer, requests, born>>
        /\ mu = "consumer" /\ mu' = "free"
        /\ bySeverity' = [bySeverity EXCEPT ![SeverityOf[CurrentMessage]] = @ + 1]
        /\ times' = [times EXCEPT ![Current] = @ + 1]
    BY <1>3 DEF HandleSeverity, checkVars, callVars
  <2>3. Current \in Id /\ CurrentMessage \in Message \ Malformed
    BY <2>2, InHand DEF StatusInv, Holding
  <2>4. SeverityOf[CurrentMessage] \in Severity
    BY <2>3, StatusAssumption
  <2>5. bySeverity' \in [Severity -> Nat]
    BY <2>2, <2>4 DEF StatusInv, Tracked
  <2>6. times' \in [Id -> Nat]
    BY <2>2, <2>3 DEF StatusInv, Tracked
  <2>7. QED
    BY <2>1, <2>2, <2>5, <2>6 DEF StatusInv, Tracked
<1>4. CASE Crash
  <2>1. \A c \in Client : c \notin {"consumer", "free"}
    BY StatusAssumption
  <2>2. NoAnswer \in [checks : Nat, total : Nat, bySeverity : [Severity -> Nat]] /\ NoCounts \in [Severity -> Nat]
    BY DEF NoAnswer, NoCounts
  <2>3. QED
    BY <1>4, <2>1, <2>2 DEF Crash, StatusInv, Tracked
<1>5. CASE StartAgain
  <2>1. [offsets |-> committed, rows |-> checkRows] \in [offsets : [Partition -> Nat], rows : Nat]
    BY DEF StatusInv, Tracked, ConsumerInv, ConsumeTypeOK
  <2>2. QED
    BY <1>5, <2>1 DEF StartAgain, StatusInv, Tracked, trackerVars, checkVars, callVars
<1>6. CASE UNCHANGED <<trackerVars, checkVars, callVars, born>>
  BY <1>6 DEF StatusInv, Tracked, trackerVars, checkVars, callVars
<1>7. QED
  BY <1>1, <1>2, <1>3, <1>4, <1>5, <1>6
     DEF Next, ConsumerNext, HandleMalformed, LeaveBehind, vars

LEMMA StatusInit == Init => StatusInv
<1> SUFFICES ASSUME Init PROVE StatusInv
  OBVIOUS
<1>1. ConsumerInv /\ pc = "loop" /\ committed \in [Partition -> Nat]
  BY ConsumerInit DEF Init, ConsumeInit, EmptyTopic
<1>2. \A c \in Client : c \notin {"consumer", "free"}
  BY StatusAssumption
<1>3. NoAnswer \in [checks : Nat, total : Nat, bySeverity : [Severity -> Nat]] /\ NoCounts \in [Severity -> Nat]
  BY DEF NoAnswer, NoCounts
<1>4. born \in [offsets : [Partition -> Nat], rows : Nat]
  BY <1>1 DEF Init
<1>5. Tracked
  BY <1>2, <1>3, <1>4, StatusAssumption DEF Init, Tracked
<1>6. QED
  BY <1>1, <1>5 DEF Init, StatusInv, Holding

LEMMA StatusStep == StatusInv /\ [Next]_vars => StatusInv'
  BY NextMovesConsumer, ConsumerMovesStep, HoldingStep, TrackedStep DEF StatusInv

\* The types of all variables; the holder of the mutex is where it may hold it.
THEOREM StatusTypes == Spec => []TypeOK
<1>1. StatusInv => TypeOK
  BY DEF StatusInv, ConsumerInv, Holding, Tracked, TypeOK
<1>2. QED
  BY <1>1, StatusInit, StatusStep, PTL DEF Spec

-----------------------------------------------------------------------------
\* Checks and rows.

\* The check that was counted and whose row is being written.
Pending == IF mu \in Client THEN 1 ELSE 0

\* checks is the rows of this life, the failures, and the one being written.
ChecksBalance ==
    /\ born.rows <= checkRows
    /\ checks + born.rows = checkRows + failures + Pending \/ ~Alive
    /\ ~Alive => checks = 0 /\ failures = 0 /\ mu = "free" /\ \A c \in Client : at[c] = "idle"

LEMMA ChecksBalanceStep == ASSUME StatusInv, ChecksBalance, [Next]_vars PROVE ChecksBalance'
<1>1. /\ "consumer" \notin Client /\ "free" \notin Client
      /\ checks \in Nat /\ checkRows \in Nat /\ failures \in Nat /\ born.rows \in Nat
      /\ \A c \in Client : at[c] = "insert" <=> mu = c
  BY StatusAssumption DEF StatusInv, Tracked
<1>2. ASSUME NEW c \in Client, CallStep(c), UNCHANGED <<consumeRest, born>> PROVE ChecksBalance'
  <2>1. UNCHANGED <<pc, born>> /\ Alive
    BY <1>2 DEF consumeRest, CallStep, RegisterCheck, InsertCheck, InsertCheckFails, Snapshot, EventCounts,
       ChecksBalance
  <2>2. CASE RegisterCheck(c)
    <3>1. mu = "free" /\ mu' = c /\ checks' = checks + 1 /\ UNCHANGED <<checkRows, failures>>
      BY <2>2 DEF RegisterCheck, checkVars
    <3>2. QED
      BY <1>1, <2>1, <3>1 DEF ChecksBalance, Pending
  <2>3. CASE InsertCheck(c) \/ InsertCheckFails(c)
    <3>1. mu = c /\ mu' = "free" /\ UNCHANGED checks
          /\ \/ checkRows' = checkRows + 1 /\ UNCHANGED failures
             \/ failures' = failures + 1 /\ UNCHANGED checkRows
      BY <1>1, <2>3 DEF InsertCheck, InsertCheckFails
    <3>2. QED
      BY <1>1, <2>1, <3>1 DEF ChecksBalance, Pending
  <2>4. CASE Snapshot(c) \/ EventCounts(c)
    BY <2>1, <2>4 DEF Snapshot, EventCounts, trackerVars, checkVars, ChecksBalance, Pending
  <2>5. QED
    BY <1>2, <2>2, <2>3, <2>4 DEF CallStep
<1>3. CASE Crash
  <2>1. checkRows' = checkRows /\ born' = born /\ checks' = 0 /\ failures' = 0 /\ mu' = "free" /\ pc' = "down"
        /\ \A c \in Client : at'[c] = "idle"
    BY <1>3 DEF Crash, Die
  <2>2. QED
    BY <2>1 DEF ChecksBalance
<1>4. CASE StartAgain
  <2>1. /\ born'.rows = checkRows /\ UNCHANGED <<checks, failures, mu, checkRows>> /\ ~Alive
        /\ pc' = "loop"
    BY <1>4 DEF StartAgain, Restart, trackerVars, checkVars
  <2>2. QED
    BY <1>1, <2>1 DEF ChecksBalance, Pending
<1>5. CASE ConsumerNext /\ UNCHANGED <<checkVars, callVars, born>>
  <2>1. UNCHANGED <<checks, checkRows, failures, born>>
        /\ \/ UNCHANGED mu
           \/ mu = "free" /\ mu' = "consumer"
           \/ mu = "consumer" /\ mu' = "free"
    BY <1>5 DEF ConsumerNext, HandleMalformed, HandleTotal, HandleSeverity, LeaveBehind, trackerVars, checkVars
  <2>2. pc # "down" /\ pc' # "down"
    BY <1>5 DEF ConsumerNext, HandleMalformed, HandleTotal, HandleSeverity, LeaveBehind, ConsumerStep, HandlerFails,
       HandlerOk, GiveUp, Enter, End, FetchMessage, FetchStops, RetryTimer, RetryCancelled, Commit, CommitFails,
       consumeVars
  <2>3. Pending' = Pending
    BY <1>1, <2>1 DEF Pending
  <2>4. QED
    BY <2>1, <2>2, <2>3 DEF ChecksBalance
<1>6. CASE UNCHANGED <<trackerVars, checkVars, born, pc>> /\ (UNCHANGED at \/ Alive)
  BY <1>6 DEF trackerVars, checkVars, ChecksBalance, Pending
<1>7. ASSUME NEW m \in Message, Produce(m) /\ UNCHANGED <<trackerVars, checkVars, callVars, born>>
      PROVE  ChecksBalance'
  BY <1>6, <1>7 DEF Produce, callVars
<1>8. ASSUME Stop /\ UNCHANGED <<trackerVars, checkVars, callVars, born>> PROVE ChecksBalance'
  BY <1>6, <1>8 DEF Stop, callVars
<1>9. ASSUME NEW c \in Client, Request(c) /\ UNCHANGED <<consumeVars, born>> PROVE ChecksBalance'
  BY <1>6, <1>9 DEF Request, consumeVars
<1>10. ASSUME UNCHANGED vars PROVE ChecksBalance'
  BY <1>6, <1>10 DEF vars, consumeVars, callVars
<1>11. QED
  BY <1>2, <1>3, <1>4, <1>5, <1>7, <1>8, <1>9, <1>10 DEF Next

\* Concurrent calls lose no check and no row.
THEOREM ChecksAccounted == Spec => []ChecksAccountForRows
<1>1. Init => ChecksBalance
  <2>1. "free" \notin Client
    BY StatusAssumption
  <2>2. QED
    BY <2>1 DEF Init, ConsumeInit, EmptyTopic, ChecksBalance, Pending
<1>2. StatusInv /\ ChecksBalance /\ [Next]_vars => ChecksBalance'
  BY ChecksBalanceStep
<1>3. StatusInv /\ ChecksBalance => ChecksAccountForRows
  <2> SUFFICES ASSUME StatusInv, ChecksBalance, Alive, mu = "free" PROVE checks = checkRows - born.rows + failures
    BY DEF ChecksAccountForRows
  <2>1. /\ "free" \notin Client
        /\ checks \in Nat /\ checkRows \in Nat /\ failures \in Nat /\ born.rows \in Nat
    BY StatusAssumption DEF StatusInv, Tracked
  <2>2. QED
    BY <2>1 DEF ChecksBalance, Pending
<1>4. QED
  BY <1>1, <1>2, <1>3, StatusInit, StatusStep, PTL DEF Spec

-----------------------------------------------------------------------------
\* What was counted.

\* The consumer may come to count the message again without another fault.
Awaits(id) ==
    /\ id[2] > committed[id[1]]
    /\ ~(pc = "commit" /\ id = Current)
    /\ ~(cancelled /\ pc \in {"loop", "ended"})

PaidFor ==
    \A id \in Id : times[id] <= 1 + faults /\ (Awaits(id) => times[id] <= faults)

\* What the group was past at the start is not counted, and nobody counts while there
\* is no process.
NotBefore ==
    /\ \A p \in Partition : born.offsets[p] <= committed[p]
    /\ \A id \in Id : id[2] <= born.offsets[id[1]] \/ ~Alive => times[id] = 0

\* What was committed since was counted, unless it does not decode.
CountedOnce ==
    /\ pc = "commit" /\ CurrentMessage \notin Malformed => times[Current] >= 1
    /\ Alive => \A id \in Id :
         /\ born.offsets[id[1]] < id[2]
         /\ id[2] <= committed[id[1]]
         /\ log[id[1]][id[2]] \notin Malformed
         => times[id] >= 1

CountInv == PaidFor /\ NotBefore /\ CountedOnce

LEMMA Numbers ==
    ASSUME StatusInv
    PROVE  /\ faults \in Nat
           /\ \A p \in Partition : committed[p] \in Nat /\ born.offsets[p] \in Nat /\ Len(log[p]) \in Nat
           /\ \A p \in Partition : committed[p] <= Len(log[p])
           /\ \A id \in Id : id[1] \in Partition /\ id[2] \in Nat /\ times[id] \in Nat /\ id = <<id[1], id[2]>>
<1>1. faults \in Nat
  BY ConsumeAssumption DEF StatusInv, ConsumerInv, ConsumeTypeOK
<1>2. \A p \in Partition : committed[p] \in Nat /\ born.offsets[p] \in Nat /\ committed[p] <= Len(log[p])
  BY DEF StatusInv, ConsumerInv, ConsumeTypeOK, Tracked, Offsets
<1>3. \A p \in Partition : Len(log[p]) \in Nat
  BY LenOfLog DEF StatusInv, ConsumerInv, ConsumeTypeOK
<1>4. \A id \in Id : id[1] \in Partition /\ id[2] \in Nat /\ times[id] \in Nat /\ id = <<id[1], id[2]>>
  BY DEF StatusInv, Tracked, Id
<1>5. QED
  BY <1>1, <1>2, <1>3, <1>4

\* A message that the group is past stays what it is.
LEMMA PastStays ==
    ASSUME StatusInv, ConsumerMoves, NEW id \in Id, id[2] <= committed[id[1]]
    PROVE  log'[id[1]][id[2]] = log[id[1]][id[2]]
<1>1. id[1] \in Partition /\ id[2] \in 1 .. Len(log[id[1]])
  BY Numbers DEF Id
<1>2. QED
  BY <1>1, LogGrows DEF StatusInv

\* The consumer counts the message in hand.
LEMMA SeverityCounts ==
    ASSUME StatusInv, CountInv, [Next]_vars, HandleSeverity, UNCHANGED born
    PROVE  CountInv'
<1>1. /\ pc = "handle" /\ pc' = "commit" /\ UNCHANGED <<log, committed, position, part, cancelled, faults, born>>
      /\ times' = [times EXCEPT ![Current] = @ + 1]
  BY DEF HandleSeverity, HandlerOk
<1>2. part \in Partition /\ position[part] = committed[part] + 1 /\ Current \in Id
  BY <1>1, InHand DEF StatusInv
<1>3. Current[1] = part /\ Current[2] = committed[part] + 1 /\ Current' = Current
      /\ CurrentMessage' = CurrentMessage
  BY <1>1, <1>2 DEF Current, CurrentMessage
<1>4. times[Current] <= faults /\ times'[Current] = times[Current] + 1
      /\ \A id \in Id : id # Current => times'[id] = times[id]
  BY <1>1, <1>2, <1>3, Numbers DEF CountInv, PaidFor, Awaits, StatusInv, Tracked
<1>5. PaidFor'
  <2>1. ASSUME NEW id \in Id PROVE times'[id] <= 1 + faults /\ (Awaits(id)' => times'[id] <= faults)
    <3>1. CASE id = Current
      BY <1>1, <1>2, <1>3, <1>4, <3>1, Numbers DEF Awaits
    <3>2. CASE id # Current
      BY <1>1, <1>3, <1>4, <3>2 DEF Awaits, CountInv, PaidFor
    <3>3. QED
      BY <3>1, <3>2
  <2>2. QED
    BY <1>1, <2>1 DEF PaidFor
<1>6. NotBefore'
  <2>1. born.offsets[part] <= committed[part]
    BY <1>2 DEF CountInv, NotBefore
  <2>2. ~(Current[2] <= born.offsets[Current[1]])
    BY <1>2, <1>3, <2>1, Numbers
  <2>3. \A id \in Id : id[2] <= born.offsets[id[1]] => times'[id] = 0
    BY <1>4, <2>2 DEF CountInv, NotBefore
  <2>4. QED
    BY <1>1, <2>3 DEF CountInv, NotBefore
<1>7. CountedOnce'
  <2>1. \A id \in Id : times'[id] >= times[id]
    BY <1>4, Numbers
  <2>2. times'[Current] >= 1
    BY <1>2, <1>4, Numbers
  <2>3. \A id \in Id : times[id] >= 1 => times'[id] >= 1
    BY <1>2, <1>4, <2>2
  <2>4. QED
    BY <1>1, <1>3, <2>2, <2>3 DEF CountInv, CountedOnce
<1>8. QED
  BY <1>5, <1>6, <1>7 DEF CountInv

\* The commit of the message in hand, whatever Consume is told of it.
LEMMA CommitCounts ==
    ASSUME StatusInv, CountInv, Commit \/ CommitFails, UNCHANGED <<times, born>>
    PROVE  CountInv'
<1>1. /\ pc = "commit" /\ pc' \in {"fetch", "loop"} /\ UNCHANGED <<log, cancelled>>
      /\ committed' = [committed EXCEPT ![part] = position[part]] \/ UNCHANGED committed
      /\ \/ committed' = [committed EXCEPT ![part] = position[part]] /\ UNCHANGED faults
         \/ pc' = "loop" /\ faults' = faults + 1
         \/ pc' = "loop" /\ UNCHANGED faults /\ cancelled
  <2>1. CASE Commit
    BY <2>1 DEF Commit
  <2>2. CASE CommitFails
    BY <2>2 DEF CommitFails
  <2>3. QED
    BY <2>1, <2>2
<1>2. part \in Partition /\ position[part] = committed[part] + 1 /\ Current \in Id
  BY <1>1, InHand DEF StatusInv
<1>3. /\ \A p \in Partition : committed'[p] = committed[p] \/ (p = part /\ committed'[p] = position[part])
      /\ \A p \in Partition : committed[p] <= committed'[p]
  <2>1. \A p \in Partition : committed[p] \in Nat
    BY Numbers
  <2>2. CASE committed' = [committed EXCEPT ![part] = position[part]]
    <3>1. \A p \in Partition : committed'[p] = IF p = part THEN position[part] ELSE committed[p]
      BY <2>2 DEF StatusInv, ConsumerInv, ConsumeTypeOK
    <3>2. QED
      BY <1>2, <2>1, <3>1
  <2>3. CASE UNCHANGED committed
    BY <2>1, <2>3
  <2>4. QED
    BY <1>1, <2>2, <2>3
<1>4. Current = <<part, position[part]>>
  BY DEF Current
<1>5. PaidFor'
  <2>1. ASSUME NEW id \in Id PROVE times[id] <= 1 + faults' /\ (Awaits(id)' => times[id] <= faults')
    <3>1. times[id] <= 1 + faults /\ times[id] \in Nat /\ faults \in Nat /\ id[1] \in Partition /\ id[2] \in Nat
          /\ id = <<id[1], id[2]>>
      BY Numbers DEF CountInv, PaidFor
    <3>2. CASE faults' = faults + 1
      BY <3>1, <3>2
    <3>3. CASE pc' = "loop" /\ UNCHANGED faults /\ cancelled
      BY <1>1, <3>1, <3>3 DEF Awaits
    <3>4. CASE committed' = [committed EXCEPT ![part] = position[part]] /\ UNCHANGED faults
      <4>1. committed'[part] = position[part]
        BY <1>2, <3>4 DEF StatusInv, ConsumerInv, ConsumeTypeOK
      <4>2. Awaits(id)' => id # Current /\ id[2] > committed[id[1]]
        BY <1>2, <1>3, <1>4, <3>1, <4>1, Numbers DEF Awaits
      <4>3. Awaits(id)' => Awaits(id)
        BY <1>1, <4>2 DEF Awaits
      <4>4. QED
        BY <3>1, <3>4, <4>3 DEF CountInv, PaidFor
    <3>5. QED
      BY <1>1, <3>2, <3>3, <3>4
  <2>2. QED
    BY <2>1 DEF PaidFor
<1>6. NotBefore'
  <2>1. \A p \in Partition : born.offsets[p] <= committed'[p]
    <3> SUFFICES ASSUME NEW p \in Partition PROVE born.offsets[p] <= committed'[p]
      OBVIOUS
    <3>1. born.offsets[p] <= committed[p] /\ committed[p] <= committed'[p] /\ born.offsets[p] \in Nat
          /\ committed[p] \in Nat
      BY <1>3, Numbers DEF CountInv, NotBefore
    <3>2. committed'[p] \in Nat
      BY <1>2, <1>3, Numbers
    <3>3. QED
      BY <3>1, <3>2
  <2>2. QED
    BY <1>1, <2>1 DEF CountInv, NotBefore
<1>7. CountedOnce'
  <2>1. ASSUME NEW id \in Id, born.offsets[id[1]] < id[2], id[2] <= committed'[id[1]],
               log[id[1]][id[2]] \notin Malformed
        PROVE  times[id] >= 1
    <3>1. id[1] \in Partition /\ id[2] \in Nat /\ id = <<id[1], id[2]>>
      BY Numbers
    <3>2. CASE id[2] <= committed[id[1]]
      BY <1>1, <2>1, <3>2 DEF CountInv, CountedOnce
    <3>3. CASE ~(id[2] <= committed[id[1]])
      <4>1. id[1] = part /\ id[2] = position[part]
        BY <1>2, <1>3, <2>1, <3>1, <3>3, Numbers
      <4>2. id = Current /\ log[id[1]][id[2]] = CurrentMessage
        BY <1>4, <3>1, <4>1 DEF CurrentMessage
      <4>3. QED
        BY <1>1, <2>1, <4>2 DEF CountInv, CountedOnce
    <3>4. QED
      BY <3>2, <3>3
  <2>2. QED
    BY <1>1, <2>1 DEF CountedOnce
<1>8. QED
  BY <1>5, <1>6, <1>7 DEF CountInv

\* The other steps in which the consumer counts nothing and commits nothing.
LEMMA OtherCounts ==
    ASSUME StatusInv, CountInv, [Next]_vars, UNCHANGED <<times, born, committed>>,
           Alive, pc' # "down", faults' = faults \/ faults' = faults + 1,
           pc' = "commit" => pc \in {"commit", "giveup"} /\ UNCHANGED <<part, position>>,
           pc = "commit" => pc' = "commit",
           pc \in {"loop", "ended"} /\ cancelled => pc' \in {"loop", "ended"} /\ cancelled'
    PROVE  CountInv'
<1>0. ConsumerMoves
  BY NextMovesConsumer
<1>1. pc' = "commit" => CurrentMessage' = CurrentMessage /\ Current' = Current
  BY <1>0, HandStays DEF StatusInv
<1>2. PaidFor'
  <2>1. ASSUME NEW id \in Id PROVE times[id] <= 1 + faults' /\ (Awaits(id)' => times[id] <= faults')
    <3>1. Awaits(id)' => Awaits(id)
      BY <1>1 DEF Awaits
    <3>2. times[id] <= 1 + faults /\ (Awaits(id) => times[id] <= faults) /\ times[id] \in Nat /\ faults \in Nat
      BY Numbers DEF CountInv, PaidFor
    <3>3. QED
      BY <3>1, <3>2
  <2>2. QED
    BY <2>1 DEF PaidFor
<1>3. NotBefore'
  BY DEF CountInv, NotBefore
<1>4. CountedOnce'
  <2>1. pc' = "commit" /\ CurrentMessage' \notin Malformed => times[Current]' >= 1
    BY <1>1 DEF CountInv, CountedOnce, StatusInv, Holding
  <2>2. \A id \in Id : id[2] <= committed[id[1]] => log'[id[1]][id[2]] = log[id[1]][id[2]]
    BY <1>0, PastStays
  <2>3. QED
    BY <2>1, <2>2 DEF CountInv, CountedOnce
<1>5. QED
  BY <1>2, <1>3, <1>4 DEF CountInv

\* The process ends and begins.
LEMMA LifeCounts ==
    ASSUME StatusInv, CountInv, Crash \/ StartAgain
    PROVE  CountInv'
<1>0. faults \in Nat /\ \A p \in Partition : committed[p] \in Nat
  BY Numbers
<1>1. CASE Crash
  <2>1. /\ pc' = "down" /\ UNCHANGED <<log, committed, born>> /\ faults' \in Nat
        /\ \A id \in Id : times'[id] = 0
    BY <1>0, <1>1 DEF Crash, Die
  <2>2. PaidFor'
    BY <2>1 DEF PaidFor
  <2>3. NotBefore' /\ CountedOnce'
    BY <2>1 DEF CountInv, NotBefore, CountedOnce
  <2>4. QED
    BY <2>2, <2>3 DEF CountInv
<1>2. CASE StartAgain
  <2>1. /\ pc = "down" /\ pc' = "loop" /\ UNCHANGED <<log, committed, faults, times>> /\ born'.offsets = committed
    BY <1>2 DEF StartAgain, Restart, trackerVars
  <2>2. \A id \in Id : times[id] = 0
    BY <2>1 DEF CountInv, NotBefore
  <2>3. PaidFor'
    BY <1>0, <2>1, <2>2 DEF PaidFor
  <2>4. NotBefore' /\ CountedOnce'
    <3>1. \A p \in Partition : born'.offsets[p] <= committed'[p]
      BY <1>0, <2>1
    <3>2. \A id \in Id : ~(born'.offsets[id[1]] < id[2] /\ id[2] <= committed'[id[1]])
      BY <2>1, Numbers
    <3>3. QED
      BY <2>1, <2>2, <3>1, <3>2 DEF NotBefore, CountedOnce
  <2>5. QED
    BY <2>3, <2>4 DEF CountInv
<1>3. QED
  BY <1>1, <1>2

\* Nothing is counted while there is no process.
LEMMA DownCounts ==
    ASSUME StatusInv, CountInv, ~Alive, UNCHANGED <<times, born, committed, pc>>, faults' = faults \/ faults' = faults + 1
    PROVE  CountInv'
<1>1. \A id \in Id : times[id] = 0
  BY DEF CountInv, NotBefore
<1>2. PaidFor'
  BY <1>1, Numbers DEF PaidFor
<1>3. NotBefore' /\ CountedOnce'
  BY DEF CountInv, NotBefore, CountedOnce
<1>4. QED
  BY <1>2, <1>3 DEF CountInv

LEMMA CountStep == ASSUME StatusInv, CountInv, [Next]_vars PROVE CountInv'
<1>1. CASE Crash \/ StartAgain
  BY <1>1, LifeCounts
<1>2. CASE ConsumerNext /\ UNCHANGED <<checkVars, callVars, born>>
  <2>1. CASE HandleSeverity
    BY <1>2, <2>1, SeverityCounts
  <2>2. CASE (Commit \/ CommitFails) /\ UNCHANGED trackerVars
    BY <1>2, <2>2, CommitCounts DEF trackerVars
  <2>3. CASE HandleMalformed \/ HandleTotal \/ LeaveBehind
    BY <1>2, <2>3, OtherCounts DEF HandleMalformed, HandleTotal, LeaveBehind, HandlerFails, GiveUp, consumeVars,
       trackerVars
  <2>4. CASE (ConsumerStep /\ ~Commit /\ ~CommitFails) /\ UNCHANGED trackerVars
    BY <1>2, <2>4, OtherCounts DEF ConsumerStep, Enter, End, FetchMessage, FetchStops, RetryTimer, RetryCancelled,
       trackerVars
  <2>5. QED
    BY <1>2, <2>1, <2>2, <2>3, <2>4 DEF ConsumerNext
<1>3. ASSUME NEW m \in Message, Produce(m) /\ UNCHANGED <<trackerVars, checkVars, callVars, born>>
      PROVE  CountInv'
  BY <1>3, OtherCounts, DownCounts DEF Produce, trackerVars
<1>4. ASSUME Stop /\ UNCHANGED <<trackerVars, checkVars, callVars, born>> PROVE CountInv'
  BY <1>4, OtherCounts DEF Stop, trackerVars
<1>5. ASSUME NEW c \in Client,
             \/ Request(c) /\ UNCHANGED <<consumeVars, born>>
             \/ CallStep(c) /\ UNCHANGED <<consumeRest, born>>
      PROVE  CountInv'
  <2>1. UNCHANGED <<times, born, committed, pc, part, position, cancelled>>
        /\ (faults' = faults \/ faults' = faults + 1)
    BY <1>5 DEF Request, CallStep, RegisterCheck, InsertCheck, InsertCheckFails, Snapshot, EventCounts, consumeVars,
       consumeRest, trackerVars
  <2>2. QED
    BY <2>1, OtherCounts, DownCounts
<1>6. ASSUME UNCHANGED vars PROVE CountInv'
  BY <1>6, OtherCounts, DownCounts DEF vars, consumeVars, trackerVars
<1>7. QED
  BY <1>1, <1>2, <1>3, <1>4, <1>5, <1>6 DEF Next

\* In each life the counters cover what the group moved past in that life, once per
\* fault and once more at most.
THEOREM CountedOnceStarted == Spec => []CountedSinceStart
<1>1. Init => CountInv
  <2> SUFFICES ASSUME Init PROVE CountInv
    OBVIOUS
  <2>1. /\ pc = "loop" /\ faults = 0 /\ \A id \in Id : times[id] = 0
        /\ \A p \in Partition : committed[p] = 0 /\ born.offsets[p] = 0
    BY DEF Init, ConsumeInit, EmptyTopic
  <2>2. \A id \in Id : id[1] \in Partition /\ id[2] \in Nat /\ id[2] > 0
    BY ConsumeAssumption DEF Id
  <2>3. QED
    BY <2>1, <2>2 DEF CountInv, PaidFor, NotBefore, CountedOnce
<1>2. StatusInv /\ CountInv /\ [Next]_vars => CountInv'
  BY CountStep
<1>3. StatusInv /\ CountInv => CountedSinceStart
  <2> SUFFICES ASSUME StatusInv, CountInv, Alive, NEW id \in Appended
               PROVE  /\ times[id] <= 1 + faults
                      /\ IF id[2] <= born.offsets[id[1]]
                           THEN times[id] = 0
                           ELSE id \in Committed /\ log[id[1]][id[2]] \notin Malformed => times[id] >= 1
    BY DEF CountedSinceStart
  <2>1. id \in Id
    BY DEF Appended
  <2>2. ~(id[2] <= born.offsets[id[1]]) => born.offsets[id[1]] < id[2]
    BY <2>1, Numbers
  <2>3. QED
    BY <2>1, <2>2 DEF CountInv, PaidFor, NotBefore, CountedOnce, Committed
<1>4. QED
  BY <1>1, <1>2, <1>3, StatusInit, StatusStep, PTL DEF Spec

-----------------------------------------------------------------------------
\* What the callers are told.

\* The counters agree, but for the severity of the event that the consumer is
\* counting while it holds the mutex; every answer is a copy of both.
TallyInv ==
    /\ IF mu = "consumer" THEN eventsSeen > 0 /\ Tally(eventsSeen - 1, bySeverity)
                          ELSE Tally(eventsSeen, bySeverity)
    /\ AnswersConsistent

\* A client has seen no check that was not counted, and its own call counts one
\* that it has not seen.
SeenChecks ==
    \A c \in Client :
        /\ answer[c].checks <= checks
        /\ at[c] \in {"insert", "snapshot"} => answer[c].checks < checks

AnswersInv == TallyInv /\ SeenChecks

\* No events, no counts.
LEMMA TallyNone == Tally(0, NoCounts)
<1>1. PICK f : f \in [1 .. 0 -> Severity]
  <2>1. [k \in 1 .. 0 |-> CHOOSE s \in Severity : TRUE] \in [1 .. 0 -> Severity]
    OBVIOUS
  <2>2. QED
    BY <2>1
<1>2. \A s \in Severity : {k \in 1 .. 0 : f[k] = s} = {}
  OBVIOUS
<1>3. \A s \in Severity : NoCounts[s] = Cardinality({k \in 1 .. 0 : f[k] = s})
  BY <1>2, FS_EmptySet DEF NoCounts
<1>4. QED
  BY <1>1, <1>3 DEF Tally

\* One event more, one count more.
LEMMA TallyOneMore ==
    ASSUME NEW t \in Nat, NEW counts \in [Severity -> Nat], Tally(t, counts), NEW new \in Severity
    PROVE  Tally(t + 1, [counts EXCEPT ![new] = @ + 1])
<1>1. PICK f \in [1 .. t -> Severity] : \A s \in Severity : counts[s] = Cardinality({k \in 1 .. t : f[k] = s})
  BY DEF Tally
<1> DEFINE g == [k \in 1 .. t + 1 |-> IF k = t + 1 THEN new ELSE f[k]]
           Old(s) == {k \in 1 .. t : f[k] = s}
           New(s) == {k \in 1 .. t + 1 : g[k] = s}
<1>2. g \in [1 .. t + 1 -> Severity]
  BY <1>1
<1>3. \A s \in Severity : IsFiniteSet(Old(s)) /\ t + 1 \notin Old(s)
  <2>1. IsFiniteSet(1 .. t)
    BY FS_Interval
  <2>2. \A s \in Severity : Old(s) \subseteq 1 .. t
    OBVIOUS
  <2>3. QED
    BY <2>1, <2>2, FS_Subset
<1>4. ASSUME NEW s \in Severity PROVE New(s) = IF s = new THEN Old(s) \cup {t + 1} ELSE Old(s)
  <2>1. \A k \in 1 .. t + 1 : k = t + 1 \/ k \in 1 .. t
    OBVIOUS
  <2>2. g[t + 1] = new /\ \A k \in 1 .. t : g[k] = f[k]
    OBVIOUS
  <2>3. \A k : k \in New(s) <=> k \in Old(s) \/ (k = t + 1 /\ s = new)
    BY <2>1, <2>2
  <2>4. CASE s = new
    BY <2>3, <2>4
  <2>5. CASE s # new
    BY <2>3, <2>5
  <2>6. QED
    BY <2>4, <2>5
<1> HIDE DEF g, Old, New
<1>5. ASSUME NEW s \in Severity PROVE [counts EXCEPT ![new] = @ + 1][s] = Cardinality(New(s))
  <2>1. counts[s] = Cardinality(Old(s)) /\ counts[s] \in Nat
    BY <1>1 DEF Old
  <2>2. CASE s = new
    <3>1. Cardinality(Old(s) \cup {t + 1}) = Cardinality(Old(s)) + 1
      BY <1>3, FS_AddElement
    <3>2. QED
      BY <1>4, <2>1, <2>2, <3>1
  <2>3. CASE s # new
    BY <1>4, <2>1, <2>3
  <2>4. QED
    BY <2>2, <2>3
<1>6. QED
  BY <1>2, <1>5 DEF Tally, New

\* The consumer counts an event, in two steps under the mutex.
LEMMA AnswersCounted ==
    ASSUME StatusInv, AnswersInv, HandleTotal \/ HandleSeverity, UNCHANGED <<checkVars, callVars, born>>
    PROVE  AnswersInv'
<1>1. eventsSeen \in Nat /\ bySeverity \in [Severity -> Nat]
  BY DEF StatusInv, Tracked
<1>2. UNCHANGED <<checks, at, answer>>
  BY DEF HandleTotal, HandleSeverity, callVars
<1>3. SeenChecks' /\ AnswersConsistent'
  BY <1>2 DEF AnswersInv, SeenChecks, TallyInv, AnswersConsistent
<1>4. CASE HandleTotal
  <2>1. mu = "free" /\ mu' = "consumer" /\ eventsSeen' = eventsSeen + 1 /\ bySeverity' = bySeverity
    BY <1>4 DEF HandleTotal
  <2>2. eventsSeen' > 0 /\ eventsSeen' - 1 = eventsSeen
    BY <1>1, <2>1
  <2>3. QED
    BY <1>3, <2>1, <2>2 DEF AnswersInv, TallyInv
<1>5. CASE HandleSeverity
  <2>1. mu = "consumer" /\ mu' = "free" /\ eventsSeen' = eventsSeen
        /\ bySeverity' = [bySeverity EXCEPT ![SeverityOf[CurrentMessage]] = @ + 1]
    BY <1>5 DEF HandleSeverity
  <2>2. SeverityOf[CurrentMessage] \in Severity
    <3>1. CurrentMessage \in Message \ Malformed
      BY <2>1, InHand DEF StatusInv, Holding
    <3>2. QED
      BY <3>1, StatusAssumption
  <2>3. eventsSeen - 1 \in Nat /\ Tally(eventsSeen - 1, bySeverity) /\ (eventsSeen - 1) + 1 = eventsSeen
    BY <1>1, <2>1 DEF AnswersInv, TallyInv
  <2>4. Tally((eventsSeen - 1) + 1, [bySeverity EXCEPT ![SeverityOf[CurrentMessage]] = @ + 1])
    BY <1>1, <2>2, <2>3, TallyOneMore
  <2>5. QED
    BY <1>3, <2>1, <2>3, <2>4 DEF AnswersInv, TallyInv
<1>6. QED
  BY <1>4, <1>5

\* A call counts its check, then reads; what it reads it reads under the mutex.
LEMMA AnswersCalled ==
    ASSUME StatusInv, AnswersInv, NEW c \in Client, Request(c) \/ CallStep(c)
    PROVE  AnswersInv'
<1> USE DEF AnswersInv, TallyInv, SeenChecks, AnswersConsistent
<1>1. /\ checks \in Nat /\ \A d \in Client : answer[d].checks \in Nat
      /\ at \in [Client -> {"idle", "register", "insert", "snapshot", "counts"}]
      /\ answer \in [Client -> [checks : Nat, total : Nat, bySeverity : [Severity -> Nat]]]
      /\ c # "consumer"
      /\ \A d \in Client : at[d] = "insert" <=> mu = d
  BY StatusAssumption DEF StatusInv, Tracked
<1>2. CASE Request(c)
  BY <1>1, <1>2 DEF Request, trackerVars
<1>3. CASE RegisterCheck(c)
  <2>1. /\ mu = "free" /\ mu' = c /\ UNCHANGED <<eventsSeen, bySeverity, answer>>
        /\ checks' = checks + 1 /\ at' = [at EXCEPT ![c] = "insert"]
    BY <1>3 DEF RegisterCheck
  <2>2. TallyInv'
    BY <1>1, <2>1
  <2>3. SeenChecks'
    BY <1>1, <2>1
  <2>4. QED
    BY <2>2, <2>3
<1>4. CASE InsertCheck(c) \/ InsertCheckFails(c)
  <2>1. /\ mu = c /\ mu' = "free" /\ UNCHANGED <<eventsSeen, bySeverity, answer, checks>>
        /\ \E place \in {"snapshot", "idle"} : at' = [at EXCEPT ![c] = place]
        /\ at[c] = "insert"
    BY <1>1, <1>4 DEF InsertCheck, InsertCheckFails
  <2>2. TallyInv'
    BY <1>1, <2>1
  <2>3. SeenChecks'
    BY <1>1, <2>1
  <2>4. QED
    BY <2>2, <2>3
<1>5. CASE Snapshot(c)
  <2>1. /\ UNCHANGED <<mu, eventsSeen, bySeverity, checks>>
        /\ answer' = [answer EXCEPT ![c] = [NoAnswer EXCEPT !.checks = checks]]
        /\ \E place \in {"idle", "counts"} : at' = [at EXCEPT ![c] = place]
    BY <1>5 DEF Snapshot, trackerVars
  <2>2. /\ answer'[c].checks = checks /\ answer'[c].total = 0 /\ answer'[c].bySeverity = NoCounts
        /\ \A d \in Client : d # c => answer'[d] = answer[d]
    BY <1>1, <2>1 DEF NoAnswer
  <2>3. AnswersConsistent'
    <3>1. ASSUME NEW d \in Client PROVE Tally(answer'[d].total, answer'[d].bySeverity)
      BY <2>2, TallyNone
    <3>2. QED
      BY <3>1
  <2>4. SeenChecks'
    BY <1>1, <2>1, <2>2
  <2>5. QED
    BY <2>1, <2>3, <2>4
<1>6. CASE EventCounts(c)
  <2>1. /\ mu = "free" /\ UNCHANGED <<mu, eventsSeen, bySeverity, checks>>
        /\ answer' = [answer EXCEPT ![c].total = eventsSeen, ![c].bySeverity = bySeverity]
        /\ at' = [at EXCEPT ![c] = "idle"]
    BY <1>6 DEF EventCounts, trackerVars
  <2>2. /\ answer'[c].checks = answer[c].checks /\ answer'[c].total = eventsSeen /\ answer'[c].bySeverity = bySeverity
        /\ \A d \in Client : d # c => answer'[d] = answer[d]
    BY <1>1, <2>1
  <2>3. AnswersConsistent'
    <3>1. Tally(eventsSeen, bySeverity)
      BY <2>1
    <3>2. ASSUME NEW d \in Client PROVE Tally(answer'[d].total, answer'[d].bySeverity)
      BY <2>2, <3>1
    <3>3. QED
      BY <3>2
  <2>4. SeenChecks'
    BY <1>1, <2>1, <2>2
  <2>5. QED
    BY <2>1, <2>3, <2>4
<1>7. QED
  BY <1>2, <1>3, <1>4, <1>5, <1>6 DEF CallStep

LEMMA AnswersStep == ASSUME StatusInv, AnswersInv, [Next]_vars PROVE AnswersInv'
<1>1. CASE Crash
  <2>1. /\ mu' = "free" /\ checks' = 0 /\ eventsSeen' = 0 /\ bySeverity' = NoCounts
        /\ \A c \in Client : answer'[c] = NoAnswer /\ at'[c] = "idle"
    BY <1>1 DEF Crash
  <2>2. \A c \in Client : answer'[c].checks = 0 /\ answer'[c].total = 0 /\ answer'[c].bySeverity = NoCounts
    BY <2>1 DEF NoAnswer
  <2>3. TallyInv'
    BY <2>1, <2>2, TallyNone DEF TallyInv, AnswersConsistent
  <2>4. SeenChecks'
    BY <2>1, <2>2 DEF SeenChecks
  <2>5. QED
    BY <2>3, <2>4 DEF AnswersInv
<1>2. CASE UNCHANGED <<trackerVars, callVars>>
  BY <1>2 DEF AnswersInv, TallyInv, AnswersConsistent, SeenChecks, trackerVars, callVars
<1>3. CASE ConsumerNext /\ UNCHANGED <<checkVars, callVars, born>>
  BY <1>2, <1>3, AnswersCounted DEF ConsumerNext, HandleMalformed, LeaveBehind
<1>4. QED
  BY <1>1, <1>2, <1>3, AnswersCalled DEF Next, StartAgain, vars

\* The invariant of the answers holds in every reachable state.
LEMMA AnswersAlways == Spec => [](StatusInv /\ AnswersInv)
<1>1. Init => AnswersInv
  <2> SUFFICES ASSUME Init PROVE AnswersInv
    OBVIOUS
  <2>1. /\ mu = "free" /\ checks = 0 /\ eventsSeen = 0 /\ bySeverity = NoCounts
        /\ \A c \in Client : answer[c] = NoAnswer /\ at[c] = "idle"
    BY DEF Init
  <2>2. \A c \in Client : answer[c].checks = 0 /\ answer[c].total = 0 /\ answer[c].bySeverity = NoCounts
    BY <2>1 DEF NoAnswer
  <2>3. QED
    BY <2>1, <2>2, TallyNone DEF AnswersInv, TallyInv, AnswersConsistent, SeenChecks
<1>2. QED
  BY <1>1, AnswersStep, StatusInit, StatusStep, PTL DEF Spec

\* No answer shows a total without its severity, for any severities and calls.
THEOREM ConsistentAnswers == Spec => []AnswersConsistent
  BY AnswersAlways, PTL DEF AnswersInv, TallyInv

\* Successive answers to one client show a growing checks_done.
THEOREM GrowingAnswers == Spec => AnswersGrow
<1> DEFINE Grows ==
      \A c \in Client :
        at[c] = "snapshot" /\ at'[c] \in {"idle", "counts"} /\ Alive' =>
            answer'[c].checks > answer[c].checks
<1>1. StatusInv /\ AnswersInv /\ [Next]_vars => [Grows]_vars
  <2> SUFFICES ASSUME StatusInv, AnswersInv, Next, NEW c \in Client,
                      at[c] = "snapshot", at'[c] \in {"idle", "counts"}, Alive'
               PROVE  answer'[c].checks > answer[c].checks
    OBVIOUS
  <2>1. answer[c].checks < checks /\ checks \in Nat /\ answer[c].checks \in Nat
    BY DEF AnswersInv, SeenChecks, StatusInv, Tracked
  <2>2. Snapshot(c)
    <3>1. \/ UNCHANGED at
          \/ Crash
          \/ \E d \in Client : Request(d) \/ CallStep(d)
      BY DEF Next, callVars, StartAgain
    <3>2. ~Crash
      BY DEF Crash, Die
    <3>3. PICK d \in Client : Request(d) \/ CallStep(d)
      BY <3>1, <3>2
    <3>4. d = c
      <4>1. \E place : at' = [at EXCEPT ![d] = place]
        BY <3>3 DEF Request, CallStep, RegisterCheck, InsertCheck, InsertCheckFails, Snapshot, EventCounts
      <4>2. QED
        BY <4>1 DEF StatusInv, Tracked
    <3>5. QED
      BY <3>3, <3>4 DEF Request, CallStep, RegisterCheck, InsertCheck, InsertCheckFails, EventCounts
  <2>3. answer'[c].checks = checks
    BY <2>2 DEF Snapshot, NoAnswer, StatusInv, Tracked
  <2>4. QED
    BY <2>1, <2>3
<1>2. QED
  BY <1>1, AnswersAlways, PTL DEF Spec, AnswersGrow


=============================================================================
