-------------------------------- MODULE Rpc ---------------------------------
(***************************************************************************)
(* A call, all the way: from its caller through the middleware, which      *)
(* poses as the three services, to an instance of one of them, and back;   *)
(* over gRPC, or over HTTP, of which the middleware is a reverse proxy     *)
(* (the codes are gRPC's, and HTTP has one for each).  The middleware      *)
(* picks an instance from its list, of which Middleware has the details,   *)
(* makes the same call, on the connection it keeps for the instance or on  *)
(* one of net/http, and hands on what comes back.  Instances of a service  *)
(* share its database, but for the counter of status.  A member of Call is *)
(* one call, which its caller may give up.  The handler chooses the method *)
(* and the request, among those of its service.                            *)
(***************************************************************************)
EXTENDS Integers, FiniteSets

CONSTANTS
    Instance,       \* the instances of the service
    Call,           \* calls
    NoInstance,     \* no instance picked
    NoMessage,      \* nil
    Text,           \* values of the text fields; "" is a field that is absent
    Password,       \* passwords
    Short,          \* passwords of less than 6 characters
    MaxFaults       \* bound: instances that die, database calls that fail

ASSUME RpcAssumption ==
    /\ NoInstance \notin Instance
    /\ Short \subseteq Password
    /\ MaxFaults \in Nat

VARIABLES
    service,        \* the service that is called
    up,             \* the instances whose process runs
    listed,         \* the instances in the list of the middleware
    broken,         \* gRPC connections that fail at once: a dial failed, and grpc-go waits
    target,         \* the instance each call was dispatched to
    call,           \* each call
    events,         \* the rows of events
    accounts,       \* the rows of accounts
    checks,         \* per instance, the counter of its Tracker
    faults,         \* faults so far
    applied,        \* history: how often each call has changed a table
    before,         \* history: the calls that were answered when this one was made
    away,           \* history: the instances that are down, or back and not yet dialled again
    excused         \* history: the calls during which the instance they went to was away

tableVars == <<events, accounts, checks, applied>>
listVars == <<service, listed, target, before>>
causeVars == <<away, excused>>
vars == <<listVars, up, broken, call, tableVars, faults, causeVars>>

-----------------------------------------------------------------------------
\* The messages.  created_at and uptime are left out.

Event == [id : Nat, type : Text, severity : Text]
CreateEventRequest == [type : Text, severity : Text]
CreateEventResponse == [event : Event]
ListEventsRequest == {<<>>}
ListEventsResponse == [events : SUBSET Event]
GetEventRequest == [id : Nat]
GetEventResponse == [event : Event]

Account == [id : Nat, username : Text]
RegisterRequest == [username : Text, password : Password]
RegisterResponse == [account : Account]
LoginRequest == [username : Text, password : Password]
LoginResponse == [account : Account]

GetStatusRequest == {<<>>}
GetStatusResponse == [service_id : Instance, checks_done : Nat]

\* The methods a service registers.
EventService_ServiceDesc == {"CreateEvent", "ListEvents", "GetEvent"}
AccountService_ServiceDesc == {"Register", "Login"}
StatusService_ServiceDesc == {"GetStatus"}

\* The services that the middleware poses as, each with a balancer of its own.
ServiceDesc(s) ==
    CASE s = "events" -> EventService_ServiceDesc
      [] s = "accounts" -> AccountService_ServiceDesc
      [] s = "status" -> StatusService_ServiceDesc

Service == {"accounts", "events", "status"}
Method == UNION {ServiceDesc(s) : s \in Service}

Refusal == {"InvalidArgument", "AlreadyExists", "NotFound", "Unauthenticated"}
Code == Refusal \cup {"none", "OK", "Internal", "Unavailable", "Canceled"}

\* The messages of a method: its request, and its response or an error.
Messages(m) ==
    CASE m = "CreateEvent" -> CreateEventRequest \X (CreateEventResponse \cup {NoMessage})
      [] m = "ListEvents" -> ListEventsRequest \X (ListEventsResponse \cup {NoMessage})
      [] m = "GetEvent" -> GetEventRequest \X (GetEventResponse \cup {NoMessage})
      [] m = "Register" -> RegisterRequest \X (RegisterResponse \cup {NoMessage})
      [] m = "Login" -> LoginRequest \X (LoginResponse \cup {NoMessage})
      [] m = "GetStatus" -> GetStatusRequest \X (GetStatusResponse \cup {NoMessage})

\* The caller: "none" before the call, then it "waits" until it is "told" a code.
Caller == {"none", "waits", "told"}

\* The handler on the instance: "none" until the call arrives, "runs", then "ends"
\* with a code and a response; "refused": it never arrived; "cut": the instance died.
HandlerState == {"none", "runs", "ends", "refused", "cut"}

Request ==
    CreateEventRequest \cup ListEventsRequest \cup GetEventRequest
        \cup RegisterRequest \cup LoginRequest \cup GetStatusRequest
Response ==
    CreateEventResponse \cup ListEventsResponse \cup GetEventResponse
        \cup RegisterResponse \cup LoginResponse \cup GetStatusResponse

ASSUME NoMessageAssumption == NoMessage \notin Response

CallState ==
    [caller : Caller, told : Code, handler : HandlerState,
     method : Method \cup {"none"}, in : {NoMessage} \cup Request, code : Code, out : {NoMessage} \cup Response]

NoCall == [caller |-> "none", told |-> "none", handler |-> "none",
           method |-> "none", in |-> NoMessage, code |-> "none", out |-> NoMessage]

AccountRow == [id : Nat, username : Text, password : Password]

Init ==
    /\ service \in Service
    /\ up = Instance
    /\ listed = {}
    /\ broken = {}
    /\ target = [c \in Call |-> NoInstance]
    /\ call = [c \in Call |-> NoCall]
    /\ events = {}
    /\ accounts = {}
    /\ checks = [i \in Instance |-> 0]
    /\ faults = 0
    /\ applied = [c \in Call |-> 0]
    /\ before = [c \in Call |-> {}]
    /\ away = {}
    /\ excused = {}

Fault == faults < MaxFaults /\ faults' = faults + 1

Waits(c) == call[c].caller = "waits"
Told(c) == call[c].caller = "told"

-----------------------------------------------------------------------------
\* The middleware.

\* The discovery loop: the list is what Consul last told.
Refresh ==
    /\ listed' = up
    /\ UNCHANGED <<service, target, before, up, broken, call, tableVars, faults, causeVars>>

\* A call comes in, and its handler decodes it for a method of the proxy.
Arrives(c) == call[c].caller = "none"

\* The method picks an instance of its service.
Ask(c) ==
    /\ Arrives(c)
    /\ \E i \in listed :
         /\ target' = [target EXCEPT ![c] = i]
         /\ excused' = IF i \in away THEN excused \cup {c} ELSE excused
    /\ call' = [call EXCEPT ![c].caller = "waits"]
    /\ before' = [before EXCEPT ![c] = {d \in Call : Told(d)}]
    /\ UNCHANGED <<service, listed, up, broken, tableVars, faults, away>>

\* Mutant of AskUnavailable: a plain error in the place of a status.
AskUnknown(c) ==
    /\ Arrives(c)
    /\ listed = {}
    /\ call' = [call EXCEPT ![c].caller = "told", ![c].told = "Unknown", ![c].handler = "refused"]
    /\ UNCHANGED <<listVars, up, broken, tableVars, faults, causeVars>>

\* There is none: Unavailable.
AskUnavailable(c) ==
    /\ Arrives(c)
    /\ listed = {}
    /\ call' = [call EXCEPT ![c].caller = "told", ![c].told = "Unavailable", ![c].handler = "refused"]
    /\ UNCHANGED <<listVars, up, broken, tableVars, faults, causeVars>>

\* No route has the prefix of the path, over HTTP: 404.
AskNobody(c) ==
    /\ Arrives(c)
    /\ call' = [call EXCEPT ![c].caller = "told", ![c].told = "NotFound", ![c].handler = "refused"]
    /\ UNCHANGED <<listVars, up, broken, tableVars, faults, causeVars>>

\* The proxy has picked the instance and has not made the call.
Picked(c) == call[c].handler = "none" /\ target[c] # NoInstance

\* Mutant of Refused: the proxy makes the call again until the instance is there.
RefusedRetried(c, code) ==
    IF Waits(c)
      THEN UNCHANGED call
      ELSE call' = [call EXCEPT ![c].handler = "refused", ![c].caller = "told", ![c].told = code]

Refused(c, code) ==
    call' = [call EXCEPT ![c].handler = "refused", ![c].caller = "told", ![c].told = code]

\* Mutant of Invoke: the proxy closes the pooled connection after the call.
InvokeAndClose(c) ==
    LET i == target[c] IN
    /\ Picked(c)
    /\ IF Waits(c) /\ i \in up \ broken
         THEN call' = [call EXCEPT ![c].handler = "runs"]
         ELSE Refused(c, IF Told(c) THEN call[c].told ELSE "Unavailable")
    /\ broken' = broken \cup {i}
    /\ UNCHANGED <<listVars, up, tableVars, faults, causeVars>>

\* The stub of the generated client sends the call, which does not wait for a
\* connection: if there is none and the dial fails, or has just failed, it returns
\* Unavailable.  A call that was given up is not sent.
Invoke(c) ==
    LET i == target[c] IN
    /\ Picked(c)
    /\ IF Waits(c) /\ i \in up \ broken
         THEN call' = [call EXCEPT ![c].handler = "runs"]
         ELSE Refused(c, IF Told(c) THEN call[c].told ELSE "Unavailable")
    /\ broken' = IF Waits(c) /\ i \notin up THEN broken \cup {i} ELSE broken
    /\ UNCHANGED <<listVars, up, tableVars, faults, causeVars>>

\* The reverse proxy dials whenever it has no connection that works, and answers 502
\* when that fails.  (A GET that net/http sends again after its connection broke is
\* one that is sent later.)
ServeHTTP(c) ==
    /\ Picked(c)
    /\ IF Waits(c) /\ target[c] \in up
         THEN call' = [call EXCEPT ![c].handler = "runs"]
         ELSE Refused(c, IF Told(c) THEN call[c].told ELSE "Unavailable")
    /\ UNCHANGED <<listVars, up, broken, tableVars, faults, causeVars>>

\* Mutant of Reply: the proxy tries the next instance when the backend fails.
ReplyOrRetry(c) ==
    /\ call[c].handler = "ends" /\ Waits(c)
    /\ IF call[c].code = "Internal"
         THEN call' = [call EXCEPT ![c] = [NoCall EXCEPT !.caller = "waits"]]
         ELSE call' = [call EXCEPT ![c].caller = "told", ![c].told = call[c].code]
    /\ UNCHANGED <<listVars, up, broken, tableVars, faults, causeVars>>

\* The backend's answer comes back, and the proxy returns it as it is.
Reply(c) ==
    /\ call[c].handler = "ends" /\ Waits(c)
    /\ call' = [call EXCEPT ![c].caller = "told", ![c].told = call[c].code]
    /\ UNCHANGED <<listVars, up, broken, tableVars, faults, causeVars>>

\* The caller gives up, or its deadline passes: ctx is cancelled on the way down.
Cancel(c) ==
    /\ Waits(c)
    /\ call' = [call EXCEPT ![c].caller = "told", ![c].told = "Canceled"]
    /\ UNCHANGED <<listVars, up, broken, tableVars, faults, causeVars>>

-----------------------------------------------------------------------------
\* The backends.  A handler gets its request and ends with a code and a message.

Serves(c, method) ==
    /\ call[c].handler = "runs"
    /\ method \in ServiceDesc(service)

Ends(c, method, in, code, out) ==
    call' = [call EXCEPT ![c].handler = "ends", ![c].method = method, ![c].in = in,
                         ![c].code = code, ![c].out = out]

Applied(c) == applied' = [applied EXCEPT ![c] = @ + 1]

NewEvent(in) == [id |-> Cardinality(events) + 1, type |-> in.type, severity |-> in.severity]

InsertEvent(c, in) ==
    /\ events' = events \cup {NewEvent(in)}
    /\ Applied(c)

CreateEvent(c) ==
    /\ Serves(c, "CreateEvent")
    /\ \E in \in CreateEventRequest :
         IF in.type = "" \/ in.severity = ""
           THEN /\ Ends(c, "CreateEvent", in, "InvalidArgument", NoMessage)
                /\ UNCHANGED <<events, applied>>
           ELSE /\ Ends(c, "CreateEvent", in, "OK", [event |-> NewEvent(in)])
                /\ InsertEvent(c, in)
    /\ UNCHANGED <<listVars, up, broken, accounts, checks, faults, causeVars>>

\* Mutant of ListEvents: the table is read from a copy that lags behind.
ListEventsStale(c) ==
    /\ Serves(c, "ListEvents")
    /\ \E seen \in SUBSET events : Ends(c, "ListEvents", <<>>, "OK", [events |-> seen])
    /\ UNCHANGED <<listVars, up, broken, tableVars, faults, causeVars>>

ListEvents(c) ==
    /\ Serves(c, "ListEvents")
    /\ Ends(c, "ListEvents", <<>>, "OK", [events |-> events])
    /\ UNCHANGED <<listVars, up, broken, tableVars, faults, causeVars>>

Get(id) == {e \in events : e.id = id}

\* A caller asks for an id it was told, for the next one, or for none.
GetEvent(c) ==
    /\ Serves(c, "GetEvent")
    /\ \E id \in 0 .. Cardinality(events) + 1 :
         LET found == Get(id) IN
         CASE id = 0 -> Ends(c, "GetEvent", [id |-> id], "InvalidArgument", NoMessage)
           [] id # 0 /\ found = {} -> Ends(c, "GetEvent", [id |-> id], "NotFound", NoMessage)
           [] OTHER -> \E e \in found : Ends(c, "GetEvent", [id |-> id], "OK", [event |-> e])
    /\ UNCHANGED <<listVars, up, broken, tableVars, faults, causeVars>>

Taken(username) == \E a \in accounts : a.username = username

NewAccount(in) == [id |-> Cardinality(accounts) + 1, username |-> in.username, password |-> in.password]

InsertAccount(c, in) ==
    /\ accounts' = accounts \cup {NewAccount(in)}
    /\ Applied(c)

\* toProto copies the id and the name, never the hash.
toProto(a) == [id |-> a.id, username |-> a.username]

Register(c) ==
    /\ Serves(c, "Register")
    /\ \E in \in RegisterRequest :
         CASE in.username = "" \/ in.password \in Short ->
                /\ Ends(c, "Register", in, "InvalidArgument", NoMessage)
                /\ UNCHANGED <<accounts, applied>>
           [] ~(in.username = "" \/ in.password \in Short) /\ Taken(in.username) ->
                /\ Ends(c, "Register", in, "AlreadyExists", NoMessage)
                /\ UNCHANGED <<accounts, applied>>
           [] OTHER ->
                /\ Ends(c, "Register", in, "OK", [account |-> toProto(NewAccount(in))])
                /\ InsertAccount(c, in)
    /\ UNCHANGED <<listVars, up, broken, events, checks, faults, causeVars>>

\* The account with that name, if the password's hash is the one stored.
Authenticate(in) == {a \in accounts : a.username = in.username /\ a.password = in.password}

Login(c) ==
    /\ Serves(c, "Login")
    /\ \E in \in LoginRequest :
         LET rows == Authenticate(in) IN
         IF rows = {}
           THEN Ends(c, "Login", in, "Unauthenticated", NoMessage)
           ELSE \E a \in rows : Ends(c, "Login", in, "OK", [account |-> toProto(a)])
    /\ UNCHANGED <<listVars, up, broken, tableVars, faults, causeVars>>

\* RegisterCheck, which inserts a row, and Snapshot; StatusService has them step by
\* step.
GetStatus(c) ==
    LET i == target[c] IN
    /\ Serves(c, "GetStatus")
    /\ checks' = [checks EXCEPT ![i] = @ + 1]
    /\ Applied(c)
    /\ Ends(c, "GetStatus", <<>>, "OK", [service_id |-> i, checks_done |-> checks[i] + 1])
    /\ UNCHANGED <<listVars, up, broken, events, accounts, faults, causeVars>>

\* The database call fails, or ctx is cancelled, which the handlers but that of
\* status hand to it: Internal, whether or not the row was inserted.  The counter
\* of status is raised before its INSERT, and sqlite inserts no row when it fails.
HandlerFails(c) ==
    /\ call[c].handler = "runs"
    /\ Fault \/ (Told(c) /\ service # "status" /\ UNCHANGED faults)
    /\ call' = [call EXCEPT ![c].handler = "ends", ![c].code = "Internal"]
    /\ \/ service # "status" /\ UNCHANGED tableVars
       \/ /\ service = "status"
          /\ checks' = [checks EXCEPT ![target[c]] = @ + 1]
          /\ UNCHANGED <<events, accounts, applied>>
       \/ /\ service = "events"
          /\ \E in \in {m \in CreateEventRequest : m.type # "" /\ m.severity # ""} : InsertEvent(c, in)
          /\ UNCHANGED <<accounts, checks>>
       \/ /\ service = "accounts"
          /\ \E in \in {m \in RegisterRequest : m.username # "" /\ m.password \notin Short} :
               ~Taken(in.username) /\ InsertAccount(c, in)
          /\ UNCHANGED <<events, checks>>
    /\ UNCHANGED <<listVars, up, broken, causeVars>>

Handler(c) ==
    \/ CreateEvent(c)
    \/ ListEvents(c)
    \/ GetEvent(c)
    \/ Register(c)
    \/ Login(c)
    \/ GetStatus(c)

-----------------------------------------------------------------------------
\* Instances, and the connections to them.

\* The connection breaks, and with it every call on it: Unavailable.
Die(i) ==
    LET cut == {c \in Call : target[c] = i /\ (call[c].handler = "runs" \/ (call[c].handler = "ends" /\ Waits(c)))} IN
    /\ i \in up
    /\ Fault
    /\ up' = up \ {i}
    /\ call' = [c \in Call |->
         IF c \notin cut THEN call[c]
         ELSE [call[c] EXCEPT !.handler = "cut", !.caller = "told",
                              !.told = IF Waits(c) THEN "Unavailable" ELSE @]]
    /\ checks' = [checks EXCEPT ![i] = 0]
    /\ away' = away \cup {i}
    /\ excused' = excused \cup {c \in Call : target[c] = i /\ Waits(c)}
    /\ UNCHANGED <<listVars, broken, events, accounts, applied>>

Restart(i) ==
    /\ i \notin up
    /\ up' = up \cup {i}
    /\ away' = IF i \in broken THEN away ELSE away \ {i}
    /\ UNCHANGED <<listVars, broken, call, tableVars, faults, excused>>

\* The pause after a failed dial is over: the next call dials again.
Redial(i) ==
    /\ i \in broken
    /\ broken' = broken \ {i}
    /\ away' = IF i \in up THEN away \ {i} ELSE away
    /\ UNCHANGED <<listVars, up, call, tableVars, faults, excused>>

Next ==
    \/ Refresh
    \/ \E c \in Call : Ask(c)
    \/ \E c \in Call : AskUnavailable(c)
    \/ \E c \in Call : AskNobody(c)
    \/ \E c \in Call : Invoke(c)
    \/ \E c \in Call : ServeHTTP(c)
    \/ \E c \in Call : Reply(c)
    \/ \E c \in Call : Cancel(c)
    \/ \E c \in Call : Handler(c)
    \/ \E c \in Call : HandlerFails(c)
    \/ \E i \in Instance : Die(i)
    \/ \E i \in Instance : Restart(i)
    \/ \E i \in Instance : Redial(i)

Spec == Init /\ [][Next]_vars

\* The loop, the goroutines of the middleware and those of the instances go on, and
\* so does grpc-go.  No process is owed a restart.
FairSpec ==
    /\ Spec
    /\ WF_vars(Refresh)
    /\ \A c \in Call : WF_vars(Invoke(c) \/ ServeHTTP(c)) /\ WF_vars(Handler(c)) /\ WF_vars(Reply(c))
    /\ \A i \in Instance : WF_vars(Redial(i))

-----------------------------------------------------------------------------

\* The types of all variables; a call that went through has the messages of its
\* method, and a response with OK only.
TypeOK ==
    /\ service \in Service
    /\ up \subseteq Instance /\ listed \subseteq Instance
    /\ broken \subseteq Instance /\ away \subseteq Instance /\ excused \subseteq Call
    /\ call \in [Call -> CallState]
    /\ \A c \in Call :
         /\ call[c].caller = "none" => call[c] = NoCall
         /\ call[c].handler \in {"none", "runs", "refused"} => call[c].code = "none"
         /\ call[c].method # "none" => /\ <<call[c].in, call[c].out>> \in Messages(call[c].method)
                                       /\ call[c].out # NoMessage <=> call[c].code = "OK"
    /\ target \in [Call -> Instance \cup {NoInstance}]
    /\ events \subseteq Event /\ accounts \subseteq AccountRow
    /\ checks \in [Instance -> Nat] /\ applied \in [Call -> Nat]
    /\ before \in [Call -> SUBSET Call]
    /\ faults \in 0 .. MaxFaults

\* A call is executed once at most, by one instance, however instances die and
\* answers get lost on the way; and what its caller is told is true: OK means that
\* its row was written, a refusal that it was not.  (Internal, Unavailable and
\* Canceled tell nothing.)
ExecutedOnce ==
    \A c \in Call :
        /\ applied[c] <= 1
        /\ call[c].told = "OK" /\ call[c].method \in {"CreateEvent", "Register", "GetStatus"} => applied[c] = 1
        /\ call[c].told \in Refusal => applied[c] = 0

\* Whoever was told OK finds what it wrote in every later call, whichever instance
\* answers: the event in the list and by its id, the account by a login, and the
\* name taken.
ReadsAreCurrent ==
    \A c \in Call : \A d \in before[c] :
        call[d].told = "OK" /\ call[c].handler = "ends" /\ call[c].code # "Internal" =>
            /\ call[d].method = "CreateEvent" =>
                 /\ call[c].method = "ListEvents" => call[d].out.event \in call[c].out.events
                 /\ call[c].method = "GetEvent" /\ call[c].in.id = call[d].out.event.id => call[c].code = "OK"
                 /\ call[c].method = "CreateEvent" /\ call[c].code = "OK" =>
                      call[c].out.event.id > call[d].out.event.id
            /\ call[d].method = "Register" =>
                 /\ call[c].method = "Login" /\ call[c].in = call[d].in => call[c].code = "OK"
                 /\ call[c].method = "Register" /\ call[c].in.username = call[d].in.username =>
                      call[c].code # "OK"

\* Unavailable has a cause: no instance was listed, or the one picked was down at
\* some moment of the call, or was back and grpc-go still paused after a dial that
\* had failed.  Once the instance is back and dialled again calls go through: that
\* the pool keeps every connection for ever, and all calls share it, makes none fail.
UnavailableHasACause ==
    \A c \in Call : call[c].told = "Unavailable" => target[c] = NoInstance \/ c \in excused

\* Every call is answered, whatever dies on the way: nobody waits for ever for an
\* instance that is gone.
EveryCallAnswered == \A c \in Call : Waits(c) ~> Told(c)

=============================================================================
