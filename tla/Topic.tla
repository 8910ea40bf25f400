------------------------------- MODULE Topic -------------------------------
(***************************************************************************)
(* What the producers and the consumers of the Kafka topics agree on.      *)
(* Every topic has kafkax.Partitions partitions and every writer places a  *)
(* message by the hash of its key, which is the event's type: a type has   *)
(* the same partition in accounts.activity and in events.created.          *)
(***************************************************************************)
EXTENDS Naturals, Sequences

CONSTANTS
    Partition,      \* the partitions of a topic
    NoPartition,    \* where a message, or a source, is absent
    Message,        \* the messages: an event's type and severity
    KeyPartition    \* kafka.Hash: the partition of a message's key

ASSUME TopicAssumption ==
    /\ NoPartition \notin Partition
    /\ KeyPartition \in [Message -> Partition]

\* What EnsureTopic leaves: the topic, with its partitions, before anybody writes to
\* it.  (Its failure is only logged: the broker makes the topic at the first message,
\* and is taken to make as many partitions.)
EmptyTopic == [p \in Partition |-> <<>>]

=============================================================================
