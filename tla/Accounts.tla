----------------------------- MODULE Accounts ------------------------------
(***************************************************************************)
(* The accounts service: Register and Login, the same over HTTP and gRPC,  *)
(* on one table with a unique index on the username, and its Publisher,    *)
(* which tells the events service of what happened from a goroutine of its *)
(* own, so that no request waits for it.  main chooses among three: the    *)
(* topic accounts.activity, a call of CreateEvent, or nothing.  A request  *)
(* is identified by a member of Request and is made at most once.          *)
(***************************************************************************)
EXTENDS Topic, FiniteSets

CONSTANTS
    Request,        \* requests, each over HTTP or gRPC
    User,           \* usernames
    Password,       \* passwords
    Short,          \* passwords of less than 6 characters
    MaxCopies,      \* bound: how often the writer appends one message
    MaxFaults       \* bound: faults per behaviour

ASSUME AccountsAssumption ==
    /\ {"account_created", "login_success", "login_failed"} \subseteq Message
    /\ Short \subseteq Password
    /\ MaxCopies \in Nat
    /\ MaxFaults \in Nat

VARIABLES
    accounts,       \* the rows of the accounts table
    call,           \* each request: what it asks, where it is, what came of it
    publisher,      \* the Publisher that main has made
    publishing,     \* requests whose Publish goroutine is running
    log,            \* accounts.activity: per partition, the requests written
    created,        \* rows of events that CreateEvent wrote, each by its request
    faults,         \* faults so far
    published,      \* history: requests in the order Publish was called
    before,         \* history: requests that were answered when this one came
    lost            \* history: requests whose message was never written

tellingVars == <<publisher, publishing, log, created, published, lost>>
vars == <<accounts, call, tellingVars, faults, before>>

\* "none": not made.  "open": the handler has not called the repository.
\* "decided": the repository has returned.  "published": Publish was called.
\* "answered": the client has its answer.  "cut": the process died before.
Place == {"none", "open", "decided", "published", "answered", "cut"}

\* What comes of a request, by its HTTP code; gRPC has one for each.  0 is
\* nothing yet.
Code == {0, 200, 201, 400, 401, 409, 500}

Call == [op : {"register", "login"}, user : User, password : Password, at : Place, code : Code]

Row == [user : User, password : Password, by : Request]

Fault == faults < MaxFaults /\ faults' = faults + 1

InFlight(r) == call[r].at \in {"open", "decided", "published"}
Answered(r) == call[r].at = "answered"
Registered(u) == \E row \in accounts : row.user = u

\* The type of the message that announces what came of a request.
Activity(r) ==
    CASE call[r].code = 201 -> "account_created"
      [] call[r].code = 200 -> "login_success"
      [] call[r].code = 401 -> "login_failed"

\* The publishers: KafkaPublisher, GRPCPublisher and Noop, which does nothing.
Publisher == {"kafka", "grpc", "noop"}

Init ==
    /\ accounts = {}
    /\ call \in [Request -> {c \in Call : c.at = "none" /\ c.code = 0}]
    /\ publisher \in Publisher
    /\ publishing = {}
    /\ created = <<>>
    /\ log = EmptyTopic
    /\ faults = 0
    /\ published = <<>>
    /\ before = [r \in Request |-> {}]
    /\ lost = {}

Goes(r, place, code) == call' = [call EXCEPT ![r].at = place, ![r].code = code]

Registering(r) == call[r].at = "open" /\ call[r].op = "register"
LoggingIn(r) == call[r].at = "open" /\ call[r].op = "login"

\* Mutant of Receive: Register refuses with a code of its own.
ReceiveUnprocessable(r) ==
    /\ call[r].at = "none"
    /\ IF call[r].op = "register" /\ call[r].password \in Short
         THEN Goes(r, "answered", 422)
         ELSE Goes(r, "open", 0)
    /\ before' = [before EXCEPT ![r] = {q \in Request : Answered(q)}]
    /\ UNCHANGED <<accounts, tellingVars, faults>>

\* A request comes in.  Register refuses a short password before anything else.
Receive(r) ==
    /\ call[r].at = "none"
    /\ IF call[r].op = "register" /\ call[r].password \in Short
         THEN Goes(r, "answered", 400)
         ELSE Goes(r, "open", 0)
    /\ before' = [before EXCEPT ![r] = {q \in Request : Answered(q)}]
    /\ UNCHANGED <<accounts, tellingVars, faults>>

NewRow(r) == [user |-> call[r].user, password |-> call[r].password, by |-> r]

\* Mutant of CreateAccount: the table has no unique index.
CreateAccountAnyway(r) ==
    /\ Registering(r)
    /\ Goes(r, "decided", 201)
    /\ accounts' = accounts \cup {NewRow(r)}
    /\ UNCHANGED <<tellingVars, faults, before>>

\* Mutant of CreateAccount: the handler goes on with a username that is taken.
CreateAccountAnnounced(r) ==
    /\ Registering(r)
    /\ IF Registered(call[r].user)
         THEN Goes(r, "decided", 409) /\ UNCHANGED accounts
         ELSE Goes(r, "decided", 201) /\ accounts' = accounts \cup {NewRow(r)}
    /\ UNCHANGED <<tellingVars, faults, before>>

\* repo.Create: the INSERT, which the unique index refuses for a username that
\* is there; the refusal is answered at once.
CreateAccount(r) ==
    /\ Registering(r)
    /\ IF Registered(call[r].user)
         THEN Goes(r, "answered", 409) /\ UNCHANGED accounts
         ELSE Goes(r, "decided", 201) /\ accounts' = accounts \cup {NewRow(r)}
    /\ UNCHANGED <<tellingVars, faults, before>>

\* Mutant of CreateFails: a failed INSERT is taken for one that succeeded.
CreateFailsUnseen(r) ==
    /\ Registering(r)
    /\ Fault
    /\ Goes(r, "decided", 201)
    /\ UNCHANGED <<accounts, tellingVars, before>>

\* repo.Create returns another error, the row being there or not.
CreateFails(r) ==
    /\ Registering(r)
    /\ Fault
    /\ \/ UNCHANGED accounts
       \/ ~Registered(call[r].user) /\ accounts' = accounts \cup {NewRow(r)}
    /\ Goes(r, "answered", 500)
    /\ UNCHANGED <<tellingVars, before>>

\* repo.Authenticate: the row of the username, then bcrypt.  Rows never change,
\* so nothing can come between the two.
Authenticate(r) ==
    /\ LoggingIn(r)
    /\ Goes(r, "decided",
            IF \E row \in accounts : row.user = call[r].user /\ row.password = call[r].password
              THEN 200 ELSE 401)
    /\ UNCHANGED <<accounts, tellingVars, faults, before>>

\* The SELECT fails.
AuthenticateFails(r) ==
    /\ LoggingIn(r)
    /\ Fault
    /\ Goes(r, "answered", 500)
    /\ UNCHANGED <<accounts, tellingVars, before>>

\* Publish starts its goroutine, which that of Noop does not have, and returns.
Publish(r) ==
    /\ call[r].at = "decided"
    /\ Goes(r, "published", call[r].code)
    /\ publishing' = IF publisher = "noop" THEN publishing ELSE publishing \cup {r}
    /\ published' = Append(published, r)
    /\ UNCHANGED <<accounts, publisher, log, created, faults, before, lost>>

\* The handler writes its answer.
Reply(r) ==
    /\ call[r].at = "published"
    /\ Goes(r, "answered", call[r].code)
    /\ UNCHANGED <<accounts, tellingVars, faults, before>>

\* The goroutine of KafkaPublisher writes its message, keyed by type.  The writer retries
\* on its own, so any number of copies may be appended; an error is only logged.
WriteActivity(r) ==
    LET p == KeyPartition[Activity(r)] IN
    /\ publisher = "kafka"
    /\ r \in publishing
    /\ \E n \in 0 .. MaxCopies :
         /\ IF n = 1 THEN UNCHANGED faults ELSE Fault
         /\ log' = [log EXCEPT ![p] = @ \o [k \in 1 .. n |-> r]]
         /\ lost' = IF n = 0 THEN lost \cup {r} ELSE lost
    /\ publishing' = publishing \ {r}
    /\ UNCHANGED <<accounts, call, publisher, created, published, before>>

\* Mutant of CreateEvent: an error is answered with another call.
CreateEventRetried(r) ==
    /\ publisher = "grpc"
    /\ r \in publishing
    /\ \/ UNCHANGED faults /\ publishing' = publishing \ {r}
       \/ Fault /\ UNCHANGED publishing
    /\ created' = Append(created, r)
    /\ UNCHANGED <<accounts, call, publisher, log, published, before, lost>>

\* The goroutine of GRPCPublisher calls CreateEvent of the events service, once; an
\* error, or a call that takes more than 2 s, is only logged, the row being there or
\* not.
CreateEvent(r) ==
    /\ publisher = "grpc"
    /\ r \in publishing
    /\ \/ UNCHANGED <<faults, lost>> /\ created' = Append(created, r)
       \/ Fault /\ created' = Append(created, r) /\ UNCHANGED lost
       \/ Fault /\ lost' = lost \cup {r} /\ UNCHANGED created
    /\ publishing' = publishing \ {r}
    /\ UNCHANGED <<accounts, call, publisher, log, published, before>>

\* The process dies and comes back: requests in flight are cut, and so are the
\* Publish goroutines, which nothing waits for.
Crash ==
    /\ Fault
    /\ call' = [r \in Request |-> IF InFlight(r) THEN [call[r] EXCEPT !.at = "cut"] ELSE call[r]]
    /\ publishing' = {}
    /\ lost' = lost \cup publishing
    /\ UNCHANGED <<accounts, publisher, log, created, published, before>>

Next ==
    \/ \E r \in Request : Receive(r)
    \/ \E r \in Request : CreateAccount(r)
    \/ \E r \in Request : CreateFails(r)
    \/ \E r \in Request : Authenticate(r)
    \/ \E r \in Request : AuthenticateFails(r)
    \/ \E r \in Request : Publish(r)
    \/ \E r \in Request : Reply(r)
    \/ \E r \in Request : WriteActivity(r)
    \/ \E r \in Request : CreateEvent(r)
    \/ Crash

Spec == Init /\ [][Next]_vars

-----------------------------------------------------------------------------

\* Where the activity of a request was told.
Places(r) == UNION {{<<p, k>> : k \in {j \in DOMAIN log[p] : log[p][j] = r}} : p \in Partition}
Created(r) == {k \in DOMAIN created : created[k] = r}

\* The types of all variables.
TypeOK ==
    /\ accounts \subseteq Row
    /\ call \in [Request -> Call]
    /\ publisher \in Publisher
    /\ publishing \subseteq Request
    /\ created \in Seq(Request)
    /\ log \in [Partition -> Seq(Request)]
    /\ faults \in 0 .. MaxFaults
    /\ published \in Seq(Request)
    /\ before \in [Request -> SUBSET Request]
    /\ lost \subseteq Request

\* No username has two accounts, however registrations race (Create relies on
\* the unique index and looks nothing up first), and nobody is told of a failure
\* while the account is there, except when a fault took the INSERT's answer.
OneAccountPerUser ==
    /\ \A a, b \in accounts : a.user = b.user => a = b
    /\ Cardinality({a \in accounts : Answered(a.by) /\ call[a.by].code # 201}) <= faults

\* Who was told that an account is created can log in from then on: a later
\* login with that name and password never answers 401, through crashes, failed
\* INSERTs and registrations of the same name in between.
RegisteredCanLogin ==
    \A q, r \in Request :
        /\ q \in before[r]
        /\ call[q].code = 201
        /\ call[r].op = "login"
        /\ call[r].user = call[q].user /\ call[r].password = call[q].password
        => call[r].code # 401

\* The events service is told what happened and nothing else: what lies in the topic
\* is the activity of a request that has one, in the partition of its type; a
\* request answered with a code that is announced was told, or is on its way, or its
\* message was lost, unless main made no Publisher; without faults it is told once
\* at most, and over gRPC whatever fails.
ActivityTellsAnswers ==
    /\ \A p \in Partition : \A k \in DOMAIN log[p] :
         call[log[p][k]].code \in {200, 201, 401} /\ KeyPartition[Activity(log[p][k])] = p
    /\ \A r \in Request :
         /\ call[r].at = "published" \/ Created(r) # {} => call[r].code \in {200, 201, 401}
         /\ Answered(r) /\ call[r].code \in {200, 201, 401} /\ publisher # "noop" =>
              Places(r) # {} \/ Created(r) # {} \/ r \in publishing \cup lost
         /\ Cardinality(Created(r)) <= 1
    /\ faults = 0 => lost = {} /\ \A r \in Request : Cardinality(Places(r)) <= 1

\* "mismo tipo -> misma particion -> orden" (kafka_publisher.go): activities of
\* one type lie in the order in which Publish was called for them.
SameTypeInOrder ==
    \A p \in Partition : \A j, k \in DOMAIN log[p] :
        j < k /\ Activity(log[p][j]) = Activity(log[p][k]) /\ log[p][j] # log[p][k] =>
            \E m, n \in DOMAIN published :
                m < n /\ published[m] = log[p][j] /\ published[n] = log[p][k]

=============================================================================
