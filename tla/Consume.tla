------------------------------ MODULE Consume ------------------------------
(***************************************************************************)
(* One consumer of one Kafka topic: kafkax.Consume, processWithRetry and   *)
(* the goroutine that enters Consume again when it returns.  The same      *)
(* kafkax.go is compiled into events (group events-writer, topic           *)
(* accounts.activity) and into status (group status-counter, topic         *)
(* events.created).                                                        *)
(*                                                                         *)
(* A message is identified by where it lies: <<p, i>> is the i-th message  *)
(* of partition p.  What the handler does with a message is left to the    *)
(* modules that extend this one: they strengthen HandlerOk, HandlerFails   *)
(* and GiveUp.  The broker and the kafka-go reader are external; an error  *)
(* from them, and the death of the process, is a fault, and a behaviour    *)
(* has at most MaxFaults of them.                                          *)
(***************************************************************************)
EXTENDS Topic

CONSTANTS
    MaxAttempts,    \* the literal 3 of Consume's call of processWithRetry
    MaxLog,         \* bound: messages per partition
    MaxFaults       \* bound: faults per behaviour

ASSUME ConsumeAssumption ==
    /\ MaxAttempts \in Nat \ {0}
    /\ MaxLog \in Nat
    /\ MaxFaults \in Nat

VARIABLES
    log,        \* the topic: a sequence of messages per partition
    committed,  \* the group's committed offset, kept by the broker
    position,   \* the reader's offset: what FetchMessage has returned so far
    pc,         \* where the consumer goroutine is
    part,       \* the partition of the message in hand
    attempt,    \* i of processWithRetry
    cancelled,  \* appCtx is cancelled: SIGTERM was received
    faults      \* faults so far

consumeVars == <<log, committed, position, pc, part, attempt, cancelled, faults>>

Id == Partition \X (1 .. MaxLog)

NoPosition == [p \in Partition |-> 0]

\* "down": no process.  "loop": the test ctx.Err() == nil.  "fetch": inside
\* FetchMessage.  "handle": inside the handler.  "retry": inside the select of
\* processWithRetry.  "giveup": processWithRetry returned an error.  "commit":
\* inside CommitMessages.  "ended": the goroutine has returned.
Place == {"down", "loop", "fetch", "handle", "retry", "giveup", "commit", "ended"}

Busy == pc \in {"handle", "retry", "giveup", "commit"}
Alive == pc # "down"

\* The message in hand.
Current == <<part, position[part]>>
CurrentMessage == log[part][position[part]]

Appended == {id \in Id : id[2] <= Len(log[id[1]])}
Committed == {id \in Id : id[2] <= committed[id[1]]}

-----------------------------------------------------------------------------

Fault == faults < MaxFaults /\ faults' = faults + 1

\* A call made with a cancelled ctx may fail; any other failure is a fault.
FaultOrCancelled == \/ Fault
                    \/ cancelled /\ UNCHANGED faults

EmptyHands == part' = NoPartition /\ attempt' = 0

ConsumeInit ==
    /\ log = EmptyTopic
    /\ committed = NoPosition
    /\ position = NoPosition
    /\ pc = "loop"
    /\ part = NoPartition
    /\ attempt = 0
    /\ cancelled = FALSE
    /\ faults = 0

\* A producer appends m to the partition of its key.
Produce(m) ==
    LET p == KeyPartition[m] IN
    /\ Len(log[p]) < MaxLog
    /\ log' = [log EXCEPT ![p] = Append(@, m)]
    /\ UNCHANGED <<committed, position, pc, part, attempt, cancelled, faults>>

\* Mutant of Enter: the reader has no GroupID and starts at the first offset.
EnterFromTheStart ==
    /\ pc = "loop"
    /\ ~cancelled
    /\ pc' = "fetch"
    /\ position' = NoPosition
    /\ UNCHANGED <<log, committed, part, attempt, cancelled, faults>>

\* Consume makes a reader, which starts at the group's committed offsets.  The
\* 3 s pause between two entries is part of this step.
Enter ==
    /\ pc = "loop"
    /\ ~cancelled
    /\ pc' = "fetch"
    /\ position' = committed
    /\ UNCHANGED <<log, committed, part, attempt, cancelled, faults>>

\* ctx.Err() # nil: the goroutine returns.
End ==
    /\ pc = "loop"
    /\ cancelled
    /\ pc' = "ended"
    /\ UNCHANGED <<log, committed, position, part, attempt, cancelled, faults>>

\* Mutant of FetchMessage: ReadMessage, which commits on its own.
FetchAndCommit(p) ==
    /\ pc = "fetch"
    /\ position[p] < Len(log[p])
    /\ pc' = "handle"
    /\ part' = p
    /\ position' = [position EXCEPT ![p] = @ + 1]
    /\ committed' = [committed EXCEPT ![p] = position[p] + 1]
    /\ attempt' = 1
    /\ UNCHANGED <<log, cancelled, faults>>

\* FetchMessage returns the next message of a partition.  It selects between
\* the messages and ctx.Done, so it may still do so when ctx is cancelled.
FetchMessage(p) ==
    /\ pc = "fetch"
    /\ position[p] < Len(log[p])
    /\ pc' = "handle"
    /\ part' = p
    /\ position' = [position EXCEPT ![p] = @ + 1]
    /\ attempt' = 1
    /\ UNCHANGED <<log, committed, cancelled, faults>>

\* FetchMessage returns an error and so does Consume (nil when cancelled); the
\* deferred Close drops the reader and its position.
FetchStops ==
    /\ pc = "fetch"
    /\ FaultOrCancelled
    /\ pc' = "loop"
    /\ position' = NoPosition
    /\ UNCHANGED <<log, committed, part, attempt, cancelled>>

\* Mutant of HandlerOk: processWithRetry lacks the return of a nil error.
HandlerOkGoesOn ==
    /\ pc = "handle"
    /\ pc' = "retry"
    /\ UNCHANGED <<log, committed, position, part, attempt, cancelled>>

\* The handler returns nil.  Here and in the next two actions, whether a call
\* made by the handler was a fault is the handler's to say.
HandlerOk ==
    /\ pc = "handle"
    /\ pc' = "commit"
    /\ UNCHANGED <<log, committed, position, part, attempt, cancelled>>

\* The handler returns an error.
HandlerFails ==
    /\ pc = "handle"
    /\ pc' = "retry"
    /\ UNCHANGED <<log, committed, position, part, attempt, cancelled>>

\* Mutant of RetryTimer: one attempt too many.
RetryTimerOnceMore ==
    /\ pc = "retry"
    /\ ~cancelled
    /\ IF attempt <= MaxAttempts
         THEN pc' = "handle" /\ attempt' = attempt + 1
         ELSE pc' = "giveup" /\ UNCHANGED attempt
    /\ UNCHANGED <<log, committed, position, part, cancelled, faults>>

\* Mutant of RetryTimer: attempts are not counted.
RetryTimerForever ==
    /\ pc = "retry"
    /\ ~cancelled
    /\ pc' = "handle"
    /\ UNCHANGED <<log, committed, position, part, attempt, cancelled, faults>>

\* The timer of i * 500 ms fires: the next attempt, or the last error.  Go
\* wakes the goroutine for the first channel that is ready, so a cancelled ctx
\* is seen by RetryCancelled and not here.
RetryTimer ==
    /\ pc = "retry"
    /\ ~cancelled
    /\ IF attempt < MaxAttempts
         THEN pc' = "handle" /\ attempt' = attempt + 1
         ELSE pc' = "giveup" /\ UNCHANGED attempt
    /\ UNCHANGED <<log, committed, position, part, cancelled, faults>>

\* ctx.Done while waiting: processWithRetry returns ctx.Err().
RetryCancelled ==
    /\ pc = "retry"
    /\ cancelled
    /\ pc' = "giveup"
    /\ UNCHANGED <<log, committed, position, part, attempt, cancelled, faults>>

\* Consume goes on to commit, whatever became of the message.
GiveUp ==
    /\ pc = "giveup"
    /\ pc' = "commit"
    /\ UNCHANGED <<log, committed, position, part, attempt, cancelled>>

\* Mutant of Commit: the end of the partition is committed.
CommitAll ==
    /\ pc = "commit"
    /\ ~cancelled
    /\ committed' = [committed EXCEPT ![part] = Len(log[part])]
    /\ pc' = "fetch"
    /\ EmptyHands
    /\ UNCHANGED <<log, position, cancelled, faults>>

\* CommitMessages succeeds and the loop fetches again.  With a cancelled ctx it
\* returns ctx.Err() instead: CommitFails.
Commit ==
    /\ pc = "commit"
    /\ ~cancelled
    /\ committed' = [committed EXCEPT ![part] = position[part]]
    /\ pc' = "fetch"
    /\ EmptyHands
    /\ UNCHANGED <<log, position, cancelled, faults>>

\* CommitMessages returns an error, the commit being applied or not: with a
\* cancelled ctx the request may already be in the reader's queue, which Close
\* drains.  Consume returns the error and the goroutine starts over.
CommitFails ==
    /\ pc = "commit"
    /\ FaultOrCancelled
    /\ \/ committed' = [committed EXCEPT ![part] = position[part]]
       \/ UNCHANGED committed
    /\ pc' = "loop"
    /\ EmptyHands
    /\ position' = NoPosition
    /\ UNCHANGED <<log, cancelled>>

\* SIGTERM: stopApp cancels appCtx.
Stop ==
    /\ Alive
    /\ ~cancelled
    /\ Fault
    /\ cancelled' = TRUE
    /\ UNCHANGED <<log, committed, position, pc, part, attempt>>

\* The process is gone: main returned after SIGTERM, without waiting for the
\* goroutine, or the process crashed.
Die ==
    /\ Alive
    /\ FaultOrCancelled
    /\ pc' = "down"
    /\ cancelled' = FALSE
    /\ EmptyHands
    /\ position' = NoPosition
    /\ UNCHANGED <<log, committed>>

\* main runs again.
Restart ==
    /\ pc = "down"
    /\ pc' = "loop"
    /\ UNCHANGED <<log, committed, position, part, attempt, cancelled, faults>>

\* The steps of the goroutine in which the handler has no part.
ConsumerStep ==
    \/ Enter
    \/ End
    \/ \E p \in Partition : FetchMessage(p)
    \/ FetchStops
    \/ RetryTimer
    \/ RetryCancelled
    \/ Commit
    \/ CommitFails

-----------------------------------------------------------------------------

ConsumeTypeOK ==
    /\ log \in [Partition -> Seq(Message)]
    /\ committed \in [Partition -> Nat]
    /\ position \in [Partition -> Nat]
    /\ pc \in Place
    /\ part \in Partition \cup {NoPartition}
    /\ Busy <=> part # NoPartition
    /\ attempt \in 0 .. MaxAttempts
    /\ cancelled \in BOOLEAN
    /\ faults \in 0 .. MaxFaults

=============================================================================
