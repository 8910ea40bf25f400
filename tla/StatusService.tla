--------------------------- MODULE StatusService ---------------------------
(***************************************************************************)
(* The status service: the Tracker, a singleton behind one mutex, shared   *)
(* by the consumer of events.created, which counts events, and by the HTTP *)
(* and gRPC handlers, which count their own calls, write a row to sqlite   *)
(* for each and report the counters.  The counters live in memory; the     *)
(* group's offsets and the table survive a restart.                        *)
(***************************************************************************)
EXTENDS Consume, FiniteSets

CONSTANTS
    Malformed,      \* messages that do not decode
    Severity,       \* the severities messages carry
    SeverityOf,     \* the severity of each message that decodes
    Client,         \* concurrent calls of Status (HTTP) or GetStatus (gRPC)
    MaxRequests     \* bound: requests per behaviour

ASSUME StatusAssumption ==
    /\ Malformed \subseteq Message
    /\ SeverityOf \in [Message \ Malformed -> Severity]
    /\ {"consumer", "free"} \cap Client = {}
    /\ MaxRequests \in Nat

VARIABLES
    mu,             \* Tracker.mu: who holds it, or "free"
    checks,         \* Tracker.checks
    eventsSeen,     \* Tracker.eventsSeen
    bySeverity,     \* Tracker.bySeverity
    checkRows,      \* rows of the sqlite table checks
    at,             \* where each call is
    answer,         \* the last answer of each client, in this life of the process
    requests,       \* requests so far
    times,          \* history: how often each message was counted in this life
    born,           \* history: the offsets and the rows when this life began
    failures        \* history: failed INSERTs in this life

trackerVars == <<mu, checks, eventsSeen, bySeverity, times>>
checkVars == <<checkRows, failures>>
callVars == <<at, answer, requests>>
vars == <<consumeVars, trackerVars, checkVars, callVars, born>>

NoCounts == [s \in Severity |-> 0]

\* No answer yet, or the answer of a call of this process life.
NoAnswer == [checks |-> 0, total |-> 0, bySeverity |-> NoCounts]

Init ==
    /\ ConsumeInit
    /\ mu = "free"
    /\ checks = 0
    /\ eventsSeen = 0
    /\ bySeverity = NoCounts
    /\ checkRows = 0
    /\ at = [c \in Client |-> "idle"]
    /\ answer = [c \in Client |-> NoAnswer]
    /\ requests = 0
    /\ times = [id \in Id |-> 0]
    /\ born = [offsets |-> committed, rows |-> 0]
    /\ failures = 0

-----------------------------------------------------------------------------
\* The handler of StartEventsConsumer.

\* json.Unmarshal fails.
HandleMalformed ==
    /\ HandlerFails
    /\ CurrentMessage \in Malformed
    /\ UNCHANGED <<faults, trackerVars>>

\* RegisterEvent takes the mutex and raises the total ...
HandleTotal ==
    /\ pc = "handle"
    /\ CurrentMessage \notin Malformed
    /\ mu = "free"
    /\ mu' = "consumer"
    /\ eventsSeen' = eventsSeen + 1
    /\ UNCHANGED <<consumeVars, checks, bySeverity, times>>

\* ... then the severity's counter, and releases it; the handler returns nil.
HandleSeverity ==
    /\ HandlerOk
    /\ mu = "consumer"
    /\ mu' = "free"
    /\ bySeverity' = [bySeverity EXCEPT ![SeverityOf[CurrentMessage]] = @ + 1]
    /\ times' = [times EXCEPT ![Current] = @ + 1]
    /\ UNCHANGED <<faults, checks, eventsSeen>>

\* status passes no DLQ: a message given up is logged and left behind.
LeaveBehind ==
    /\ GiveUp
    /\ UNCHANGED <<faults, trackerVars>>

ConsumerNext ==
    \/ ConsumerStep /\ UNCHANGED trackerVars
    \/ HandleMalformed
    \/ HandleTotal
    \/ HandleSeverity
    \/ LeaveBehind

-----------------------------------------------------------------------------
\* Status and GetStatus: CheckAndSnapshot, and for Status also EventCounts.

\* Mutant of Request: CheckAndSnapshot does not call RegisterCheck.
RequestUnchecked(c) ==
    /\ Alive
    /\ at[c] = "idle"
    /\ requests < MaxRequests
    /\ requests' = requests + 1
    /\ at' = [at EXCEPT ![c] = "snapshot"]
    /\ UNCHANGED <<trackerVars, checkVars, answer>>

\* A request arrives and is about to call RegisterCheck.
Request(c) ==
    /\ Alive
    /\ at[c] = "idle"
    /\ requests < MaxRequests
    /\ requests' = requests + 1
    /\ at' = [at EXCEPT ![c] = "register"]
    /\ UNCHANGED <<trackerVars, checkVars, answer>>

\* Mutant of RegisterCheck: the mutex is released before the INSERT.
RegisterCheckUnlocked(c) ==
    /\ at[c] = "register"
    /\ mu = "free"
    /\ checks' = checks + 1
    /\ at' = [at EXCEPT ![c] = "insert"]
    /\ UNCHANGED <<mu, eventsSeen, bySeverity, times, checkVars, answer, requests>>

\* RegisterCheck takes the mutex and raises checks; it holds it over the INSERT.
RegisterCheck(c) ==
    /\ at[c] = "register"
    /\ mu = "free"
    /\ mu' = c
    /\ checks' = checks + 1
    /\ at' = [at EXCEPT ![c] = "insert"]
    /\ UNCHANGED <<eventsSeen, bySeverity, times, checkVars, answer, requests>>

InsertCheck(c) ==
    /\ at[c] = "insert"
    /\ checkRows' = checkRows + 1
    /\ mu' = "free"
    /\ at' = [at EXCEPT ![c] = "snapshot"]
    /\ UNCHANGED <<checks, eventsSeen, bySeverity, times, failures, answer, requests>>

\* Mutant of InsertCheckFails: the early return leaves the mutex locked.
InsertCheckFailsLocked(c) ==
    /\ at[c] = "insert"
    /\ failures' = failures + 1
    /\ at' = [at EXCEPT ![c] = "idle"]
    /\ UNCHANGED <<trackerVars, checkRows, answer, requests>>

\* The INSERT fails: the caller gets an error, checks stays raised.
InsertCheckFails(c) ==
    /\ at[c] = "insert"
    /\ failures' = failures + 1
    /\ mu' = "free"
    /\ at' = [at EXCEPT ![c] = "idle"]
    /\ UNCHANGED <<checks, eventsSeen, bySeverity, times, checkRows, answer, requests>>

\* Snapshot reads checks under the mutex.  GetStatus answers; Status goes on.
Snapshot(c) ==
    /\ at[c] = "snapshot"
    /\ mu = "free"
    /\ answer' = [answer EXCEPT ![c] = [NoAnswer EXCEPT !.checks = checks]]
    /\ \E next \in {"idle", "counts"} : at' = [at EXCEPT ![c] = next]
    /\ UNCHANGED <<trackerVars, checkVars, requests>>

\* Mutant of EventCounts: it copies the map without the mutex.
EventCountsUnlocked(c) ==
    /\ at[c] = "counts"
    /\ answer' = [answer EXCEPT ![c].total = eventsSeen, ![c].bySeverity = bySeverity]
    /\ at' = [at EXCEPT ![c] = "idle"]
    /\ UNCHANGED <<trackerVars, checkVars, requests>>

\* EventCounts copies the total and the map under the mutex; Status answers.
EventCounts(c) ==
    /\ at[c] = "counts"
    /\ mu = "free"
    /\ answer' = [answer EXCEPT ![c].total = eventsSeen, ![c].bySeverity = bySeverity]
    /\ at' = [at EXCEPT ![c] = "idle"]
    /\ UNCHANGED <<trackerVars, checkVars, requests>>

\* What a handler does once its request is there.
CallStep(c) ==
    \/ (RegisterCheck(c) \/ InsertCheck(c) \/ Snapshot(c) \/ EventCounts(c)) /\ UNCHANGED faults
    \/ InsertCheckFails(c) /\ Fault

-----------------------------------------------------------------------------

\* The process ends.  InitTracker will make a new Tracker at zero: what was kept
\* in memory is gone, and so are the calls.
Crash ==
    /\ Die
    /\ mu' = "free"
    /\ checks' = 0
    /\ eventsSeen' = 0
    /\ bySeverity' = NoCounts
    /\ at' = [c \in Client |-> "idle"]
    /\ answer' = [c \in Client |-> NoAnswer]
    /\ times' = [id \in Id |-> 0]
    /\ failures' = 0
    /\ UNCHANGED <<checkRows, requests, born>>

\* main runs again; the table and the group's offsets are as they were.
StartAgain ==
    /\ Restart
    /\ born' = [offsets |-> committed, rows |-> checkRows]
    /\ UNCHANGED <<trackerVars, checkVars, callVars>>

consumeRest == <<log, committed, position, pc, part, attempt, cancelled>>

Next ==
    \/ ConsumerNext /\ UNCHANGED <<checkVars, callVars, born>>
    \/ (\E m \in Message : Produce(m)) /\ UNCHANGED <<trackerVars, checkVars, callVars, born>>
    \/ Stop /\ UNCHANGED <<trackerVars, checkVars, callVars, born>>
    \/ \E c \in Client : Request(c) /\ UNCHANGED <<consumeVars, born>>
    \/ \E c \in Client : CallStep(c) /\ UNCHANGED <<consumeRest, born>>
    \/ Crash
    \/ StartAgain

Spec == Init /\ [][Next]_vars

\* The consumer is scheduled and so is each handler; sqlite answers one way or
\* the other, and the mutex is granted to whoever waits.
FairSpec ==
    /\ Spec
    /\ WF_vars(ConsumerNext /\ UNCHANGED <<checkVars, callVars, born>>)
    /\ \A c \in Client : WF_vars(CallStep(c) /\ UNCHANGED <<consumeRest, born>>)

-----------------------------------------------------------------------------

\* Some total events have the severities that counts says.
Tally(total, counts) ==
    \E f \in [1 .. total -> Severity] :
        \A s \in Severity : counts[s] = Cardinality({k \in 1 .. total : f[k] = s})

\* The types of all variables; the holder of the mutex is where it may hold it.
TypeOK ==
    /\ ConsumeTypeOK
    /\ mu \in Client \cup {"consumer", "free"}
    /\ mu = "consumer" => pc = "handle"
    /\ \A c \in Client : at[c] = "insert" <=> mu = c
    /\ checks \in Nat /\ eventsSeen \in Nat /\ checkRows \in Nat /\ failures \in Nat
    /\ bySeverity \in [Severity -> Nat]
    /\ at \in [Client -> {"idle", "register", "insert", "snapshot", "counts"}]
    /\ answer \in [Client -> [checks : Nat, total : Nat, bySeverity : [Severity -> Nat]]]
    /\ requests \in 0 .. MaxRequests
    /\ times \in [Id -> Nat]
    /\ born \in [offsets : [Partition -> Nat], rows : Nat]

\* In each life of the process, the counters cover what the group moved past in
\* that life and nothing it was past before: after a restart they lag behind the
\* topic by exactly the messages committed earlier, never by one committed since.
\* A message counted twice in one life is paid for by a fault.
CountedSinceStart ==
    Alive =>
        \A id \in Appended :
            /\ times[id] <= 1 + faults
            /\ IF id[2] <= born.offsets[id[1]]
                 THEN times[id] = 0
                 ELSE id \in Committed /\ log[id[1]][id[2]] \notin Malformed => times[id] >= 1

\* No answer shows a total without its severity (EventCounts copies both under
\* the mutex that RegisterEvent holds while it changes them).
AnswersConsistent == \A c \in Client : Tally(answer[c].total, answer[c].bySeverity)

\* Whenever no call is inside RegisterCheck, checks is the rows written in this
\* life plus the INSERTs that failed: concurrent calls lose no check and no row.
ChecksAccountForRows ==
    Alive /\ mu = "free" => checks = checkRows - born.rows + failures

\* Successive answers to one client show a growing checks_done: each call counts
\* itself before it reads, whatever the other calls do in between.
AnswersGrow ==
    [][\A c \in Client :
         at[c] = "snapshot" /\ at'[c] \in {"idle", "counts"} /\ Alive' =>
             answer'[c].checks > answer[c].checks]_vars

\* A request is answered, and a message is put behind the group, unless the
\* process dies or is told to stop: nobody waits for the mutex forever.
\* (Again and again no call is open is the same as that each one ends.)
Running == Alive /\ pc # "ended" /\ ~cancelled
NobodyStuck ==
    <>[]Running =>
        /\ \A c \in Client : []<>(at[c] = "idle")
        /\ \A id \in Id : []<>(id \in Appended => id \in Committed)

=============================================================================
