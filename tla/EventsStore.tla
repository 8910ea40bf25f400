---------------------------- MODULE EventsStore ----------------------------
(***************************************************************************)
(* What the events service writes: the rows of its events table and the    *)
(* announcements in the topic events.created.  PublishingRepository.Create *)
(* runs the inner Create, an INSERT, and then publishes; the two are steps *)
(* of their own here, so that other callers, a crash or a failure may come *)
(* between them.  A worker is whoever calls Create: the Kafka consumer, or *)
(* a creator (the generator, an HTTP or a gRPC request).                   *)
(***************************************************************************)
EXTENDS Topic

CONSTANTS
    Creator,        \* callers of Create other than the consumer
    MaxCopies       \* bound: how often the writer appends one message

VARIABLES
    rows,       \* the events table, by id
    saved,      \* per worker: the row it has saved and not yet published, or 0
    created     \* events.created: row ids, per partition

storeVars == <<rows, saved, created>>

Consumer == "consumer"
Worker == Creator \cup {Consumer}

Row == [type : Message, part : Partition \cup {NoPartition}, idx : Nat]

StoreInit ==
    /\ rows = <<>>
    /\ saved = [w \in Worker |-> 0]
    /\ created = [p \in Partition |-> <<>>]

\* The inner Create: a row with the next id.  <<p, i>> is the message it comes
\* from.
Insert(w, m, p, i) ==
    /\ saved[w] = 0
    /\ rows' = Append(rows, [type |-> m, part |-> p, idx |-> i])
    /\ saved' = [saved EXCEPT ![w] = Len(rows) + 1]
    /\ UNCHANGED created

\* The inner Create returns an error although the row was committed.
InsertUnacked(w, m, p, i) ==
    /\ saved[w] = 0
    /\ rows' = Append(rows, [type |-> m, part |-> p, idx |-> i])
    /\ UNCHANGED <<saved, created>>

\* Mutant of PublishCreated: the worker announces its row again.
PublishCreatedAgain(w, n) ==
    LET p == KeyPartition[rows[saved[w]].type] IN
    /\ saved[w] # 0
    /\ created' = [created EXCEPT ![p] = @ \o [k \in 1 .. n |-> saved[w]]]
    /\ UNCHANGED <<rows, saved>>

\* WriteMessages to events.created.  The writer retries on its own, so n copies
\* may be appended; an error is logged and Create returns nil all the same.
PublishCreated(w, n) ==
    LET p == KeyPartition[rows[saved[w]].type] IN
    /\ saved[w] # 0
    /\ created' = [created EXCEPT ![p] = @ \o [k \in 1 .. n |-> saved[w]]]
    /\ saved' = [saved EXCEPT ![w] = 0]
    /\ UNCHANGED rows

\* The workers are goroutines of the process: they end with it.
WorkersLost ==
    /\ saved' = [w \in Worker |-> 0]
    /\ UNCHANGED <<rows, created>>

StoreTypeOK ==
    /\ rows \in Seq(Row)
    /\ saved \in [Worker -> 0 .. Len(rows)]
    /\ created \in [Partition -> Seq(1 .. Len(rows))]

=============================================================================
