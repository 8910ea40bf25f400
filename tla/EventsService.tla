--------------------------- MODULE EventsService ---------------------------
(***************************************************************************)
(* The events service: the consumer of accounts.activity, which stores     *)
(* every message as a row, and the other callers of Create, all writing to *)
(* one table and announcing each row in events.created.                    *)
(***************************************************************************)
EXTENDS Consume, EventsStore, FiniteSets

CONSTANTS
    Malformed,      \* messages that do not decode, or lack type or severity
    MaxDirect       \* bound: rows that come from no message

ASSUME EventsAssumption ==
    /\ Malformed \subseteq Message
    /\ Consumer \notin Creator
    /\ MaxCopies \in Nat
    /\ MaxDirect \in Nat

VARIABLES
    dlq,        \* messages copied to accounts.activity.dlq
    dropped     \* history: messages given up whose copy to the DLQ failed too

vars == <<consumeVars, storeVars, dlq, dropped>>

fateVars == <<dlq, dropped>>

Init ==
    /\ ConsumeInit
    /\ StoreInit
    /\ dlq = {}
    /\ dropped = {}

-----------------------------------------------------------------------------
\* The handler of StartAccountsConsumer.

\* json.Unmarshal fails, or type or severity is missing.
HandleMalformed ==
    /\ HandlerFails
    /\ CurrentMessage \in Malformed
    /\ saved[Consumer] = 0
    /\ UNCHANGED <<faults, storeVars, fateVars>>

\* repo.Create, first half: the row is saved.  database/sql refuses a ctx that
\* is cancelled already; one cancelled on the way is Stop after this step.
HandleInsert ==
    /\ pc = "handle"
    /\ ~cancelled
    /\ CurrentMessage \notin Malformed
    /\ Insert(Consumer, CurrentMessage, part, position[part])
    /\ UNCHANGED <<consumeVars, fateVars>>

\* repo.Create returns an error and there is no row.
HandleInsertFails ==
    /\ HandlerFails
    /\ CurrentMessage \notin Malformed
    /\ saved[Consumer] = 0
    /\ FaultOrCancelled
    /\ UNCHANGED <<storeVars, fateVars>>

\* repo.Create returns an error and there is a row: the answer was lost, or ctx
\* was cancelled while it was on its way, which is Stop after this step.
HandleInsertUnacked ==
    /\ HandlerFails
    /\ ~cancelled
    /\ CurrentMessage \notin Malformed
    /\ Fault
    /\ InsertUnacked(Consumer, CurrentMessage, part, position[part])
    /\ UNCHANGED fateVars

\* Any number of copies but one is a fault.
AnnounceFault(n) == IF n = 1 THEN UNCHANGED faults ELSE Fault

\* repo.Create, second half: the announcement, and the handler returns nil.
HandlePublish ==
    /\ HandlerOk
    /\ \E n \in 0 .. MaxCopies :
         PublishCreated(Consumer, n) /\ AnnounceFault(n)
    /\ UNCHANGED fateVars

\* The message in hand was given up and is copied to the DLQ.
DeadLetter ==
    /\ GiveUp
    /\ dlq' = dlq \cup {Current}
    /\ UNCHANGED <<faults, storeVars, dropped>>

\* The copy fails too, which is logged and nothing else.
DeadLetterFails ==
    /\ GiveUp
    /\ FaultOrCancelled
    /\ dropped' = dropped \cup {Current}
    /\ UNCHANGED <<storeVars, dlq>>

HandlerStep ==
    \/ HandleMalformed
    \/ HandleInsert
    \/ HandleInsertFails
    \/ HandleInsertUnacked
    \/ HandlePublish
    \/ DeadLetter
    \/ DeadLetterFails

-----------------------------------------------------------------------------
\* The other callers of Create.  They test type and severity themselves.

DirectRows == {k \in DOMAIN rows : rows[k].part = NoPartition}

CreatorInsert(w) ==
    /\ Alive
    /\ Cardinality(DirectRows) < MaxDirect
    /\ \E m \in Message \ Malformed : Insert(w, m, NoPartition, 0)
    /\ UNCHANGED <<consumeVars, fateVars>>

CreatorInsertUnacked(w) ==
    /\ Alive
    /\ Cardinality(DirectRows) < MaxDirect
    /\ Fault
    /\ \E m \in Message \ Malformed : InsertUnacked(w, m, NoPartition, 0)
    /\ UNCHANGED <<log, committed, position, pc, part, attempt, cancelled, fateVars>>

CreatorPublish(w) ==
    /\ Alive
    /\ \E n \in 0 .. MaxCopies : PublishCreated(w, n) /\ AnnounceFault(n)
    /\ UNCHANGED <<log, committed, position, pc, part, attempt, cancelled, fateVars>>

CreatorStep(w) ==
    \/ CreatorInsert(w)
    \/ CreatorInsertUnacked(w)
    \/ CreatorPublish(w)

-----------------------------------------------------------------------------

\* The consumer goroutine.
ConsumerNext ==
    \/ ConsumerStep /\ UNCHANGED <<storeVars, fateVars>>
    \/ HandlerStep

\* What the goroutine has no part in.
Environment ==
    \/ \E m \in Message : Produce(m) /\ UNCHANGED <<storeVars, fateVars>>
    \/ \E w \in Creator : CreatorStep(w)
    \/ Stop /\ UNCHANGED <<storeVars, fateVars>>
    \/ Die /\ WorkersLost /\ UNCHANGED fateVars
    \/ Restart /\ UNCHANGED <<storeVars, fateVars>>

Next == ConsumerNext \/ Environment

Spec == Init /\ [][Next]_vars

\* The goroutine is scheduled, its timers fire and its calls return: they have
\* timeouts, or the ctx ends them.  Nothing restarts a process that is down, and
\* faults end because MaxFaults bounds them.
FairSpec == Spec /\ WF_vars(ConsumerNext)

-----------------------------------------------------------------------------

\* The rows a message became.
RowsOf(id) == {k \in DOMAIN rows : rows[k].part = id[1] /\ rows[k].idx = id[2]}

Stored == {id \in Id : RowsOf(id) # {}}
GivenUp == dlq \cup dropped
Settled == Stored \cup GivenUp

IsMalformed(id) == log[id[1]][id[2]] \in Malformed

\* Where row k was announced: places <<p, j>> in events.created.
Announcements(k) ==
    UNION {{<<p, j>> : j \in {i \in DOMAIN created[p] : created[p][i] = k}} : p \in Partition}

\* The types of all variables; a row awaiting its announcement exists, and only
\* while a handler runs does the consumer hold one.
TypeOK ==
    /\ ConsumeTypeOK
    /\ StoreTypeOK
    /\ saved[Consumer] # 0 => pc = "handle"
    /\ dlq \subseteq Id
    /\ dropped \subseteq Id

\* The group never moves past a message whose fate is not decided, and the fate
\* is the right one: a malformed message never became a row (Consume commits
\* after processWithRetry and the DLQ, whatever fails on the way).
CommittedAreSettled ==
    /\ Committed \subseteq Settled
    /\ \A id \in Stored : id \in Appended /\ ~IsMalformed(id)

\* The table keeps the order of each partition, which is the order of each type,
\* through retries, crashes, redeliveries and other writers: a row never comes
\* after a row made from a later message of its partition.
RowsInOrder ==
    \A j, k \in DOMAIN rows :
        j < k /\ rows[j].part = rows[k].part => rows[j].idx <= rows[k].idx

\* Each row beyond the first that a message becomes is paid for by a fault: the
\* code on its own never handles a message again that it has handled.
DuplicatesCostFaults ==
    \A id \in Id : Cardinality(RowsOf(id)) <= 1 + faults

\* When nothing failed and nobody stopped the service, what the group is past
\* was handled exactly once, end to end: a good message is one row, announced
\* once, and not in the DLQ; a malformed one is in the DLQ and is no row.  A row
\* of any worker is announced once, or is about to be.
ExactlyOnceWithoutFaults ==
    faults = 0 =>
        /\ \A id \in Committed :
             IF IsMalformed(id)
               THEN id \in dlq /\ RowsOf(id) = {}
               ELSE Cardinality(RowsOf(id)) = 1 /\ id \notin GivenUp
        /\ \A k \in DOMAIN rows :
             Cardinality(Announcements(k)) = IF \E w \in Worker : saved[w] = k THEN 0 ELSE 1

\* Consume and its handler implement an at-least-once group.
Delivery == INSTANCE AtLeastOnce WITH settled <- Settled
ImplementsAtLeastOnce == Delivery!Spec

\* As long as the process stays up and is not told to stop, every message in
\* accounts.activity is eventually behind the group: a message that always fails
\* does not block its partition.
Running == Alive /\ pc # "ended" /\ ~cancelled
Drains ==
    <>[]Running => \A id \in Id : (id \in Appended) ~> (id \in Committed)

\* "si un mensaje falla todos los intentos se manda ahi" (kafkax.go) and "si
\* events esta caido no se pierde nada" (kafka_publisher.go): what the group is
\* past is a row or in the DLQ.
NothingLost == Committed \subseteq Stored \cup dlq

=============================================================================
