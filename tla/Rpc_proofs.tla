----------------------------- MODULE Rpc_proofs -----------------------------
(***************************************************************************)
(* Proofs about Rpc, for any instances, calls, texts and faults.  What a   *)
(* caller is told follows from what the handler has done, which a call     *)
(* carries with it; what the tables hold follows from the calls that ended *)
(* with OK, because rows are only added.                                   *)
(***************************************************************************)
EXTENDS Rpc, FiniteSetTheorems, TLAPS

\* The part of TypeOK that is about the calls.
CallsOK ==
    /\ call \in [Call -> CallState]
    /\ \A c \in Call :
         /\ call[c].caller = "none" => call[c] = NoCall
         /\ call[c].handler \in {"none", "runs", "refused"} => call[c].code = "none"
         /\ call[c].method # "none" => /\ <<call[c].in, call[c].out>> \in Messages(call[c].method)
                                       /\ call[c].out # NoMessage <=> call[c].code = "OK"

\* The part that is about the rest.
RestOK ==
    /\ service \in Service
    /\ up \subseteq Instance /\ listed \subseteq Instance
    /\ broken \subseteq Instance /\ away \subseteq Instance /\ excused \subseteq Call
    /\ target \in [Call -> Instance \cup {NoInstance}]
    /\ events \subseteq Event /\ accounts \subseteq AccountRow
    /\ checks \in [Instance -> Nat] /\ applied \in [Call -> Nat]
    /\ before \in [Call -> SUBSET Call]
    /\ faults \in 0 .. MaxFaults

\* The tables are finite; a handler has a code when it ends, and a method when the
\* code is not Internal; a call that is refused or cut has no method and changed
\* nothing but for what a cut handler did.
CallInv ==
    /\ TypeOK
    /\ IsFiniteSet(events) /\ IsFiniteSet(accounts)
    /\ \A c \in Call :
         /\ call[c].handler = "ends" => call[c].code \in Refusal \cup {"OK", "Internal"}
         /\ call[c].handler = "ends" /\ call[c].code # "Internal" => call[c].method # "none"
         /\ call[c].handler \in {"none", "runs", "refused"} => call[c].method = "none"
         /\ call[c].caller = "none" => target[c] = NoInstance
         /\ call[c].handler = "runs" => target[c] \in Instance

-----------------------------------------------------------------------------

\* The message's parts, now and after a step.
LEMMA TypeParts == TypeOK => CallsOK /\ RestOK
  BY DEF TypeOK, CallsOK, RestOK

LEMMA TypePartsNext == CallsOK' /\ RestOK' => TypeOK'
  BY DEF TypeOK, CallsOK, RestOK

\* What a call becomes when fields of it change.
LEMMA Changed ==
    ASSUME call \in [Call -> CallState], NEW c \in Call,
           NEW v \in CallState, call' = [call EXCEPT ![c] = v]
    PROVE  /\ call' \in [Call -> CallState]
           /\ call'[c] = v
           /\ \A d \in Call : d # c => call'[d] = call[d]
  OBVIOUS

\* The fields of a call.
LEMMA Fields ==
    ASSUME NEW v \in CallState
    PROVE  /\ v = [caller |-> v.caller, told |-> v.told, handler |-> v.handler, method |-> v.method,
                   in |-> v.in, code |-> v.code, out |-> v.out]
           /\ v.caller \in Caller /\ v.told \in Code /\ v.handler \in HandlerState
           /\ v.method \in Method \cup {"none"} /\ v.code \in Code
           /\ v.in \in {NoMessage} \cup Request /\ v.out \in {NoMessage} \cup Response
  BY DEF CallState

\* A handler ends.
LEMMA EndsChanges ==
    ASSUME CallInv, NEW c \in Call, call[c].handler = "runs",
           NEW m \in Method, NEW in \in Request, NEW code \in Code, NEW out \in {NoMessage} \cup Response,
           Ends(c, m, in, code, out)
    PROVE  /\ call' \in [Call -> CallState]
           /\ call'[c].caller = call[c].caller /\ call'[c].told = call[c].told
           /\ call'[c].handler = "ends" /\ call'[c].method = m
           /\ call'[c].in = in /\ call'[c].code = code /\ call'[c].out = out
           /\ \A d \in Call : d # c => call'[d] = call[d]
<1>1. call \in [Call -> CallState] /\ call[c] \in CallState
  BY DEF CallInv, TypeOK
<1>2. [call[c] EXCEPT !.handler = "ends", !.method = m, !.in = in, !.code = code, !.out = out] \in CallState
  BY <1>1 DEF CallState, HandlerState
<1>3. QED
  BY <1>1, <1>2 DEF Ends, CallState

LEMMA EndsKeeps ==
    ASSUME CallInv, NEW c \in Call, call[c].handler = "runs",
           NEW m \in Method, NEW in \in Request, NEW code \in Refusal \cup {"OK"},
           NEW out \in {NoMessage} \cup Response,
           <<in, out>> \in Messages(m), out # NoMessage <=> code = "OK",
           Ends(c, m, in, code, out),
           RestOK', IsFiniteSet(events'), IsFiniteSet(accounts'), UNCHANGED target
    PROVE  CallInv'
<1>1. /\ call' \in [Call -> CallState]
      /\ call'[c].caller = call[c].caller /\ call'[c].told = call[c].told
      /\ call'[c].handler = "ends" /\ call'[c].method = m
      /\ call'[c].in = in /\ call'[c].code = code /\ call'[c].out = out
      /\ \A d \in Call : d # c => call'[d] = call[d]
  BY EndsChanges DEF Code
<1>2. m # "none"
  BY DEF CallInv, TypeOK, Method, Service, ServiceDesc, EventService_ServiceDesc, AccountService_ServiceDesc,
     StatusService_ServiceDesc
<1>3. call[c].caller # "none"
  <2>1. call[c].caller = "none" => call[c] = NoCall
    BY TypeParts DEF CallInv, CallsOK
  <2>2. NoCall.handler = "none"
    BY DEF NoCall
  <2>3. QED
    BY <2>1, <2>2
<1>4. CallsOK'
  <2>1. ASSUME NEW d \in Call
        PROVE  /\ call'[d].caller = "none" => call'[d] = NoCall
               /\ call'[d].handler \in {"none", "runs", "refused"} => call'[d].code = "none"
               /\ call'[d].method # "none" => /\ <<call'[d].in, call'[d].out>> \in Messages(call'[d].method)
                                              /\ call'[d].out # NoMessage <=> call'[d].code = "OK"
    <3>1. CASE d = c
      BY <1>1, <1>3, <3>1
    <3>2. CASE d # c
      BY <1>1, <3>2, TypeParts DEF CallInv, CallsOK
    <3>3. QED
      BY <3>1, <3>2
  <2>2. QED
    BY <1>1, <2>1 DEF CallsOK, Messages
<1>5. TypeOK'
  BY <1>4, TypePartsNext
<1>6. QED
  <2>1. ASSUME NEW d \in Call
        PROVE  /\ call'[d].handler = "ends" => call'[d].code \in Refusal \cup {"OK", "Internal"}
               /\ call'[d].handler = "ends" /\ call'[d].code # "Internal" => call'[d].method # "none"
               /\ call'[d].handler \in {"none", "runs", "refused"} => call'[d].method = "none"
               /\ call'[d].caller = "none" => target[d] = NoInstance
               /\ call'[d].handler = "runs" => target[d] \in Instance
    <3>1. CASE d = c
      BY <1>1, <1>2, <1>3, <3>1
    <3>2. CASE d # c
      BY <1>1, <3>2 DEF CallInv
    <3>3. QED
      BY <3>1, <3>2
  <2>2. QED
    BY <1>5, <2>1 DEF CallInv

-----------------------------------------------------------------------------
\* What a handler does.

Wrote(m, code) == code = "OK" /\ m \in {"CreateEvent", "Register", "GetStatus"}

\* All that a handler which ends with this method, request, code and response tells
\* of the tables, and does to them.
Effect(c, m, in, code, out) ==
    /\ <<in, out>> \in Messages(m)
    /\ out # NoMessage <=> code = "OK"
    /\ applied' = IF Wrote(m, code) THEN [applied EXCEPT ![c] = @ + 1] ELSE applied
    /\ events' = IF Wrote(m, code) /\ m = "CreateEvent" THEN events \cup {NewEvent(in)} ELSE events
    /\ accounts' = IF Wrote(m, code) /\ m = "Register" THEN accounts \cup {NewAccount(in)} ELSE accounts
    /\ Wrote(m, code) /\ m = "CreateEvent" => out.event = NewEvent(in)
    /\ Wrote(m, code) /\ m = "Register" => ~Taken(in.username)
    /\ m = "ListEvents" => out.events = events
    /\ m = "GetEvent" /\ code # "OK" => in.id = 0 \/ \A e \in events : e.id # in.id
    /\ m = "Login" /\ code # "OK" =>
         ~\E a \in accounts : a.username = in.username /\ a.password = in.password

Result(c) ==
    \E m \in Method, in \in Request, code \in Refusal \cup {"OK"}, out \in {NoMessage} \cup Response :
        Ends(c, m, in, code, out) /\ Effect(c, m, in, code, out)

LEMMA Methods ==
    /\ Method = {"CreateEvent", "ListEvents", "GetEvent", "Register", "Login", "GetStatus"}
    /\ \A m \in Method : m # "none"
<1>1. Service = {"accounts", "events", "status"}
  BY DEF Service
<1>2. /\ ServiceDesc("events") = {"CreateEvent", "ListEvents", "GetEvent"}
      /\ ServiceDesc("accounts") = {"Register", "Login"}
      /\ ServiceDesc("status") = {"GetStatus"}
  BY DEF ServiceDesc, EventService_ServiceDesc, AccountService_ServiceDesc, StatusService_ServiceDesc
<1>3. QED
  BY <1>1, <1>2 DEF Method

\* The rows that are added have the types of rows.
LEMMA NewRows ==
    ASSUME CallInv
    PROVE  /\ \A in \in CreateEventRequest :
                NewEvent(in) \in Event /\ [event |-> NewEvent(in)] \in Response \ {NoMessage}
           /\ \A in \in RegisterRequest :
                NewAccount(in) \in AccountRow /\ [account |-> toProto(NewAccount(in))] \in RegisterResponse
<1>1. Cardinality(events) + 1 \in Nat /\ Cardinality(accounts) + 1 \in Nat
  BY FS_CardinalityType DEF CallInv
<1>2. \A in \in CreateEventRequest : NewEvent(in) \in Event
  BY <1>1 DEF CreateEventRequest, NewEvent, Event
<1>3. \A e \in Event : [event |-> e] \in Response \ {NoMessage}
  BY NoMessageAssumption DEF CreateEventResponse, Response
<1>4. \A in \in RegisterRequest :
        NewAccount(in) \in AccountRow /\ [account |-> toProto(NewAccount(in))] \in RegisterResponse
  BY <1>1 DEF RegisterRequest, NewAccount, AccountRow, toProto, Account, RegisterResponse
<1>5. QED
  BY <1>2, <1>3, <1>4

LEMMA CreateEventResult == ASSUME CallInv, NEW c \in Call, CreateEvent(c) PROVE Result(c)
<1>1. PICK in \in CreateEventRequest :
        IF in.type = "" \/ in.severity = ""
          THEN /\ Ends(c, "CreateEvent", in, "InvalidArgument", NoMessage)
               /\ UNCHANGED <<events, applied>>
          ELSE /\ Ends(c, "CreateEvent", in, "OK", [event |-> NewEvent(in)])
               /\ InsertEvent(c, in)
  BY DEF CreateEvent
<1>2. in \in Request /\ "CreateEvent" \in Method
  BY Methods DEF Request
<1>3. UNCHANGED accounts
  BY DEF CreateEvent
<1>4. CASE in.type = "" \/ in.severity = ""
  <2>1. Effect(c, "CreateEvent", in, "InvalidArgument", NoMessage)
    BY <1>1, <1>3, <1>4 DEF Effect, Wrote, Messages
  <2>2. QED
    BY <1>1, <1>2, <1>4, <2>1 DEF Result, Refusal
<1>5. CASE ~(in.type = "" \/ in.severity = "")
  <2> DEFINE out == [event |-> NewEvent(in)]
  <2>1. out \in Response /\ out # NoMessage /\ out \in CreateEventResponse
    BY NewRows DEF CreateEventResponse
  <2>2. Effect(c, "CreateEvent", in, "OK", out)
    BY <1>1, <1>3, <1>5, <2>1 DEF Effect, Wrote, Messages, InsertEvent, Applied
  <2>3. QED
    BY <1>1, <1>2, <1>5, <2>1, <2>2 DEF Result
<1>6. QED
  BY <1>4, <1>5

LEMMA ListEventsResult == ASSUME CallInv, NEW c \in Call, ListEvents(c) PROVE Result(c)
<1> DEFINE out == [events |-> events]
<1>1. out \in ListEventsResponse
  BY DEF CallInv, TypeOK, ListEventsResponse
<1>2. out \in Response /\ out # NoMessage /\ <<>> \in ListEventsRequest /\ <<>> \in Request
  BY <1>1, NoMessageAssumption DEF Response, Request, ListEventsRequest
<1>3. Ends(c, "ListEvents", <<>>, "OK", out) /\ UNCHANGED <<events, accounts, applied>>
  BY DEF ListEvents, tableVars
<1>4. Effect(c, "ListEvents", <<>>, "OK", out)
  BY <1>1, <1>2, <1>3 DEF Effect, Wrote, Messages
<1>5. QED
  BY <1>2, <1>3, <1>4, Methods DEF Result

LEMMA GetEventResult == ASSUME CallInv, NEW c \in Call, GetEvent(c) PROVE Result(c)
<1>1. PICK id \in 0 .. Cardinality(events) + 1 :
         LET found == {e \in events : e.id = id} IN
         CASE id = 0 -> Ends(c, "GetEvent", [id |-> id], "InvalidArgument", NoMessage)
           [] id # 0 /\ found = {} -> Ends(c, "GetEvent", [id |-> id], "NotFound", NoMessage)
           [] OTHER -> \E e \in found : Ends(c, "GetEvent", [id |-> id], "OK", [event |-> e])
  BY DEF GetEvent, Get
<1> DEFINE in == [id |-> id]
<1>2. in \in GetEventRequest /\ in \in Request /\ "GetEvent" \in Method
  BY Methods, FS_CardinalityType DEF GetEventRequest, Request, CallInv
<1>3. UNCHANGED <<events, accounts, applied>>
  BY DEF GetEvent, tableVars
<1>4. CASE id = 0
  <2>1. Ends(c, "GetEvent", in, "InvalidArgument", NoMessage)
    BY <1>1, <1>4
  <2>2. Effect(c, "GetEvent", in, "InvalidArgument", NoMessage)
    BY <1>2, <1>3, <1>4 DEF Effect, Wrote, Messages
  <2>3. QED
    BY <1>2, <2>1, <2>2 DEF Result, Refusal
<1>5. CASE id # 0 /\ {e \in events : e.id = id} = {}
  <2>1. Ends(c, "GetEvent", in, "NotFound", NoMessage)
    BY <1>1, <1>5
  <2>2. Effect(c, "GetEvent", in, "NotFound", NoMessage)
    BY <1>2, <1>3, <1>5 DEF Effect, Wrote, Messages
  <2>3. QED
    BY <1>2, <2>1, <2>2 DEF Result, Refusal
<1>6. CASE id # 0 /\ {e \in events : e.id = id} # {}
  <2>1. PICK e \in events : Ends(c, "GetEvent", in, "OK", [event |-> e])
    BY <1>1, <1>6
  <2>2. [event |-> e] \in GetEventResponse
    BY DEF CallInv, TypeOK, GetEventResponse
  <2>3. [event |-> e] \in Response /\ [event |-> e] # NoMessage
    BY <2>2, NoMessageAssumption DEF Response
  <2>4. Effect(c, "GetEvent", in, "OK", [event |-> e])
    BY <1>2, <1>3, <2>2, <2>3 DEF Effect, Wrote, Messages
  <2>5. QED
    BY <1>2, <2>1, <2>3, <2>4 DEF Result
<1>7. QED
  BY <1>4, <1>5, <1>6

LEMMA RegisterResult == ASSUME CallInv, NEW c \in Call, Register(c) PROVE Result(c)
<1>1. PICK in \in RegisterRequest :
         CASE in.username = "" \/ in.password \in Short ->
                /\ Ends(c, "Register", in, "InvalidArgument", NoMessage)
                /\ UNCHANGED <<accounts, applied>>
           [] ~(in.username = "" \/ in.password \in Short) /\ Taken(in.username) ->
                /\ Ends(c, "Register", in, "AlreadyExists", NoMessage)
                /\ UNCHANGED <<accounts, applied>>
           [] OTHER ->
                /\ Ends(c, "Register", in, "OK", [account |-> toProto(NewAccount(in))])
                /\ InsertAccount(c, in)
  BY DEF Register
<1>2. in \in Request /\ "Register" \in Method
  BY Methods DEF Request
<1>3. UNCHANGED events
  BY DEF Register
<1>4. CASE in.username = "" \/ in.password \in Short
  <2>1. Ends(c, "Register", in, "InvalidArgument", NoMessage) /\ UNCHANGED <<accounts, applied>>
    BY <1>1, <1>4
  <2>2. Effect(c, "Register", in, "InvalidArgument", NoMessage)
    BY <1>3, <2>1 DEF Effect, Wrote, Messages
  <2>3. QED
    BY <1>2, <2>1, <2>2 DEF Result, Refusal
<1>5. CASE ~(in.username = "" \/ in.password \in Short) /\ Taken(in.username)
  <2>1. Ends(c, "Register", in, "AlreadyExists", NoMessage) /\ UNCHANGED <<accounts, applied>>
    BY <1>1, <1>5
  <2>2. Effect(c, "Register", in, "AlreadyExists", NoMessage)
    BY <1>3, <2>1 DEF Effect, Wrote, Messages
  <2>3. QED
    BY <1>2, <2>1, <2>2 DEF Result, Refusal
<1>6. CASE ~(in.username = "" \/ in.password \in Short) /\ ~Taken(in.username)
  <2> DEFINE out == [account |-> toProto(NewAccount(in))]
  <2>1. Ends(c, "Register", in, "OK", out) /\ InsertAccount(c, in)
    BY <1>1, <1>6
  <2>2. out \in RegisterResponse
    BY NewRows
  <2>3. out \in Response /\ out # NoMessage
    BY <2>2, NoMessageAssumption DEF Response
  <2>4. Effect(c, "Register", in, "OK", out)
    BY <1>3, <1>6, <2>1, <2>2, <2>3 DEF Effect, Wrote, Messages, InsertAccount, Applied
  <2>5. QED
    BY <1>2, <2>1, <2>3, <2>4 DEF Result
<1>7. QED
  BY <1>4, <1>5, <1>6

LEMMA LoginResult == ASSUME CallInv, NEW c \in Call, Login(c) PROVE Result(c)
<1>1. PICK in \in LoginRequest :
         LET rows == {a \in accounts : a.username = in.username /\ a.password = in.password} IN
         IF rows = {}
           THEN Ends(c, "Login", in, "Unauthenticated", NoMessage)
           ELSE \E a \in rows : Ends(c, "Login", in, "OK", [account |-> toProto(a)])
  BY DEF Login, Authenticate
<1> DEFINE rows == {a \in accounts : a.username = in.username /\ a.password = in.password}
<1>2. in \in Request /\ "Login" \in Method
  BY Methods DEF Request
<1>3. UNCHANGED <<events, accounts, applied>>
  BY DEF Login, tableVars
<1>4. CASE rows = {}
  <2>1. Effect(c, "Login", in, "Unauthenticated", NoMessage)
    BY <1>3, <1>4 DEF Effect, Wrote, Messages
  <2>2. QED
    BY <1>1, <1>2, <1>4, <2>1 DEF Result, Refusal
<1>5. CASE rows # {}
  <2>1. PICK a \in accounts : Ends(c, "Login", in, "OK", [account |-> toProto(a)])
    BY <1>1, <1>5
  <2>2. [account |-> toProto(a)] \in LoginResponse
    BY DEF CallInv, TypeOK, LoginResponse, toProto, AccountRow, Account
  <2>3. [account |-> toProto(a)] \in Response /\ [account |-> toProto(a)] # NoMessage
    BY <2>2, NoMessageAssumption DEF Response
  <2>4. Effect(c, "Login", in, "OK", [account |-> toProto(a)])
    BY <1>3, <2>2, <2>3 DEF Effect, Wrote, Messages
  <2>5. QED
    BY <1>2, <2>1, <2>3, <2>4 DEF Result
<1>6. QED
  BY <1>4, <1>5

LEMMA GetStatusResult == ASSUME CallInv, NEW c \in Call, GetStatus(c) PROVE Result(c)
<1> DEFINE i == target[c]
           out == [service_id |-> i, checks_done |-> checks[i] + 1]
<1>1. Ends(c, "GetStatus", <<>>, "OK", out) /\ Applied(c) /\ UNCHANGED <<events, accounts>>
  BY DEF GetStatus
<1>2. i \in Instance
  BY DEF GetStatus, Serves, CallInv
<1>3. out \in GetStatusResponse
  BY <1>2 DEF CallInv, TypeOK, GetStatusResponse
<1>4. out \in Response /\ out # NoMessage /\ <<>> \in GetStatusRequest /\ <<>> \in Request
  BY <1>3, NoMessageAssumption DEF Response, Request, GetStatusRequest
<1>5. Effect(c, "GetStatus", <<>>, "OK", out)
  BY <1>1, <1>3, <1>4 DEF Effect, Wrote, Messages, Applied
<1>6. QED
  BY <1>1, <1>4, <1>5, Methods DEF Result

\* Each handler ends in one of these ways.
LEMMA HandlerResult ==
    ASSUME CallInv, NEW c \in Call, Handler(c)
    PROVE  /\ Result(c)
           /\ call[c].handler = "runs"
           /\ checks' \in [Instance -> Nat]
           /\ UNCHANGED <<listVars, up, broken, faults, causeVars>>
<1>1. Result(c)
  BY CreateEventResult, ListEventsResult, GetEventResult, RegisterResult, LoginResult, GetStatusResult DEF Handler
<1>2. UNCHANGED <<listVars, up, broken, faults, causeVars>> /\ call[c].handler = "runs"
  BY DEF Handler, CreateEvent, ListEvents, GetEvent, Register, Login, GetStatus, Serves
<1>3. checks' \in [Instance -> Nat]
  <2>1. CASE GetStatus(c)
    BY <2>1 DEF GetStatus, Serves, CallInv, TypeOK
  <2>2. CASE UNCHANGED checks
    BY <2>2 DEF CallInv, TypeOK
  <2>3. QED
    BY <2>1, <2>2 DEF Handler, CreateEvent, ListEvents, GetEvent, Register, Login, tableVars
<1>4. QED
  BY <1>1, <1>2, <1>3

-----------------------------------------------------------------------------
\* Types.

\* A step that ends no handler changes of a call only where its caller and its
\* handler are.
Moved ==
    /\ call' \in [Call -> CallState]
    /\ UNCHANGED <<events, accounts, applied>>
    /\ \A c \in Call :
         /\ call'[c].method = call[c].method /\ call'[c].in = call[c].in
         /\ call'[c].code = call[c].code /\ call'[c].out = call[c].out
         /\ call'[c].caller = "none" => call'[c] = call[c]
         /\ call[c].caller = "told" => call'[c].caller = "told" /\ call'[c].told = call[c].told
         /\ \/ call'[c].handler = call[c].handler
            \/ call[c].handler = "none" /\ call'[c].handler \in {"runs", "refused"}
            \/ call[c].handler = "runs" /\ call'[c].handler = "cut"
            \/ call[c].handler = "ends" /\ call'[c].handler = "cut" /\ call'[c].told = "Unavailable"
         /\ \/ call'[c].told \in {call[c].told, "Canceled", "Unavailable"}
            \/ call'[c].handler = "refused" /\ call'[c].told = "NotFound"
            \/ call'[c].handler = "ends" /\ call'[c].told = call[c].code

LEMMA MovedCalls == ASSUME CallInv, Moved PROVE CallsOK'
<1> SUFFICES ASSUME NEW c \in Call
             PROVE  /\ call'[c].caller = "none" => call'[c] = NoCall
                    /\ call'[c].handler \in {"none", "runs", "refused"} => call'[c].code = "none"
                    /\ call'[c].method # "none" => /\ <<call'[c].in, call'[c].out>> \in Messages(call'[c].method)
                                                   /\ call'[c].out # NoMessage <=> call'[c].code = "OK"
  BY DEF Moved, CallsOK, Messages
<1>1. /\ call[c].caller = "none" => call[c] = NoCall
      /\ call[c].handler \in {"none", "runs", "refused"} => call[c].code = "none"
      /\ call[c].method # "none" => /\ <<call[c].in, call[c].out>> \in Messages(call[c].method)
                                    /\ call[c].out # NoMessage <=> call[c].code = "OK"
  BY TypeParts DEF CallInv, CallsOK
<1>2. QED
  BY <1>1 DEF Moved

\* What a caller, a proxy or a death does to one call.
LEMMA MoveOne ==
    ASSUME CallInv, NEW c \in Call, NEW v \in CallState, call' = [call EXCEPT ![c] = v],
           UNCHANGED <<events, accounts, applied>>,
           v.method = call[c].method, v.in = call[c].in, v.code = call[c].code, v.out = call[c].out,
           v.caller # "none",
           call[c].caller = "told" => v.caller = "told" /\ v.told = call[c].told,
           \/ v.handler = call[c].handler
           \/ call[c].handler = "none" /\ v.handler \in {"runs", "refused"},
           \/ v.told \in {call[c].told, "Canceled", "Unavailable"}
           \/ v.handler = "refused" /\ v.told = "NotFound"
           \/ v.handler = "ends" /\ v.told = call[c].code
    PROVE  Moved
<1>1. /\ call' \in [Call -> CallState]
      /\ call'[c] = v
      /\ \A d \in Call : d # c => call'[d] = call[d]
  BY DEF CallInv, TypeOK
<1>2. ASSUME NEW d \in Call, d # c PROVE call'[d] = call[d]
  BY <1>1, <1>2
<1>3. QED
  BY <1>1, <1>2 DEF Moved

\* The actions that are moves.
Move(c) == Ask(c) \/ AskUnavailable(c) \/ AskNobody(c) \/ Invoke(c) \/ ServeHTTP(c) \/ Reply(c) \/ Cancel(c)

LEMMA MoveIsMoved == ASSUME CallInv, NEW c \in Call, Move(c) PROVE Moved
<1> USE DEF Move
<1>0. call \in [Call -> CallState] /\ call[c] \in CallState /\ UNCHANGED <<events, accounts, applied>>
  BY DEF CallInv, TypeOK, Ask, Arrives, AskUnavailable, AskNobody, Invoke, ServeHTTP, Reply, Cancel, tableVars
<1>1. CASE Ask(c)
  <2> DEFINE v == [call[c] EXCEPT !.caller = "waits"]
  <2>1. v \in CallState /\ call' = [call EXCEPT ![c] = v]
    BY <1>0, <1>1 DEF Ask, Arrives, CallState, Caller
  <2>2. /\ v.method = call[c].method /\ v.in = call[c].in /\ v.code = call[c].code /\ v.out = call[c].out
        /\ v.caller = "waits" /\ v.told = call[c].told /\ v.handler = call[c].handler
        /\ call[c].caller = "none"
    BY <1>0, <1>1 DEF Ask, Arrives, CallState
  <2> HIDE DEF v
  <2>3. QED
    BY <1>0, <2>1, <2>2, MoveOne
<1>2. CASE AskUnavailable(c) \/ AskNobody(c)
  <2>1. PICK code \in {"Unavailable", "NotFound"} :
          call' = [call EXCEPT ![c].caller = "told", ![c].told = code, ![c].handler = "refused"]
    BY <1>2 DEF AskUnavailable, AskNobody, Arrives
  <2> DEFINE v == [call[c] EXCEPT !.caller = "told", !.told = code, !.handler = "refused"]
  <2>2. v \in CallState /\ call' = [call EXCEPT ![c] = v]
    BY <1>0, <2>1 DEF CallState, Caller, Code, HandlerState, Refusal
  <2>3. call[c] = NoCall
    BY <1>2, TypeParts DEF CallInv, CallsOK, AskUnavailable, AskNobody, Arrives
  <2>4. /\ v.method = call[c].method /\ v.in = call[c].in /\ v.code = call[c].code /\ v.out = call[c].out
        /\ v.caller = "told" /\ v.told = code /\ v.handler = "refused"
        /\ call[c].caller = "none" /\ call[c].handler = "none"
    BY <1>0, <2>3 DEF CallState, NoCall
  <2> HIDE DEF v
  <2>5. QED
    BY <1>0, <2>2, <2>4, MoveOne
<1>3. CASE Invoke(c) \/ ServeHTTP(c)
  <2>1. call[c].handler = "none"
    BY <1>3 DEF Invoke, ServeHTTP, Picked
  <2>2. CASE call' = [call EXCEPT ![c].handler = "runs"] /\ Waits(c)
    <3> DEFINE v == [call[c] EXCEPT !.handler = "runs"]
    <3>1. v \in CallState /\ call' = [call EXCEPT ![c] = v]
      BY <1>0, <2>2 DEF CallState, HandlerState
    <3>2. /\ v.method = call[c].method /\ v.in = call[c].in /\ v.code = call[c].code /\ v.out = call[c].out
          /\ v.caller = "waits" /\ v.told = call[c].told /\ v.handler = "runs"
          /\ call[c].caller = "waits"
      BY <1>0, <2>2 DEF CallState, Waits
    <3> HIDE DEF v
    <3>3. QED
      BY <1>0, <2>1, <3>1, <3>2, MoveOne
  <2>3. CASE Refused(c, IF Told(c) THEN call[c].told ELSE "Unavailable")
    <3> DEFINE code == IF Told(c) THEN call[c].told ELSE "Unavailable"
               v == [call[c] EXCEPT !.handler = "refused", !.caller = "told", !.told = code]
    <3>1. code \in Code
      BY <1>0 DEF CallState, Code
    <3>2. v \in CallState /\ call' = [call EXCEPT ![c] = v]
      BY <1>0, <2>3, <3>1 DEF CallState, HandlerState, Caller, Refused
    <3>3. /\ v.method = call[c].method /\ v.in = call[c].in /\ v.code = call[c].code /\ v.out = call[c].out
          /\ v.caller = "told" /\ v.told = code /\ v.handler = "refused"
      BY <1>0 DEF CallState
    <3>4. code \in {call[c].told, "Unavailable"} /\ (call[c].caller = "told" => code = call[c].told)
      BY DEF Told
    <3> HIDE DEF v, code
    <3>5. QED
      BY <1>0, <2>1, <3>2, <3>3, <3>4, MoveOne
  <2>4. QED
    BY <1>3, <2>2, <2>3 DEF Invoke, ServeHTTP
<1>4. CASE Reply(c) \/ Cancel(c)
  <2>1. PICK code \in Code :
          /\ call' = [call EXCEPT ![c].caller = "told", ![c].told = code]
          /\ code = "Canceled" \/ (call[c].handler = "ends" /\ code = call[c].code)
    BY <1>0, <1>4 DEF Reply, Cancel, CallState, Code
  <2> DEFINE v == [call[c] EXCEPT !.caller = "told", !.told = code]
  <2>2. v \in CallState /\ call' = [call EXCEPT ![c] = v]
    BY <1>0, <2>1 DEF CallState, Caller
  <2>3. /\ v.method = call[c].method /\ v.in = call[c].in /\ v.code = call[c].code /\ v.out = call[c].out
        /\ v.caller = "told" /\ v.told = code /\ v.handler = call[c].handler
        /\ call[c].caller = "waits"
    BY <1>0, <1>4 DEF CallState, Reply, Cancel, Waits
  <2> HIDE DEF v
  <2>4. QED
    BY <1>0, <2>1, <2>2, <2>3, MoveOne
<1>5. QED
  BY <1>1, <1>2, <1>3, <1>4

LEMMA DieIsMoved ==
    ASSUME CallInv, NEW i \in Instance, Die(i)
    PROVE  Moved /\ \A c \in Call : call'[c] = call[c] \/ call'[c].handler = "cut"
<1> DEFINE cut == {c \in Call : target[c] = i /\ (call[c].handler = "runs" \/ (call[c].handler = "ends" /\ Waits(c)))}
           v(c) == [call[c] EXCEPT !.handler = "cut", !.caller = "told",
                                   !.told = IF Waits(c) THEN "Unavailable" ELSE call[c].told]
<1>1. /\ call' = [c \in Call |-> IF c \notin cut THEN call[c] ELSE v(c)]
      /\ UNCHANGED <<events, accounts, applied>>
  BY DEF Die
<1>2. ASSUME NEW c \in Call PROVE call[c] \in CallState /\ v(c) \in CallState
  <2>1. call[c] \in CallState
    BY DEF CallInv, TypeOK
  <2>2. (IF Waits(c) THEN "Unavailable" ELSE call[c].told) \in Code
    BY <2>1 DEF CallState, Code
  <2>3. QED
    BY <2>1, <2>2 DEF CallState, HandlerState, Caller
<1>3. \A c \in Call :
        /\ v(c).method = call[c].method /\ v(c).in = call[c].in
        /\ v(c).code = call[c].code /\ v(c).out = call[c].out
        /\ v(c).caller = "told" /\ v(c).handler = "cut"
        /\ v(c).told = IF Waits(c) THEN "Unavailable" ELSE call[c].told
  BY <1>2 DEF CallState
<1> HIDE DEF v
<1>4. QED
  <2>1. call' \in [Call -> CallState]
    BY <1>1, <1>2
  <2>2. \A c \in Call : call'[c] = IF c \notin cut THEN call[c] ELSE v(c)
    BY <1>1
  <2>3. ASSUME NEW c \in Call, c \in cut PROVE call'[c] = v(c) /\ call[c].caller # "none"
    <3>1. call[c].caller = "none" => call[c] = NoCall
      BY TypeParts DEF CallInv, CallsOK
    <3>2. NoCall.handler = "none"
      BY DEF NoCall
    <3>3. QED
      BY <2>2, <2>3, <3>1, <3>2
  <2>4. QED
    BY <1>1, <1>3, <2>1, <2>2, <2>3 DEF Moved, Waits

\* What HandlerFails does to its call, and what it may write.
LEMMA FailsChanges ==
    ASSUME CallInv, NEW c \in Call, HandlerFails(c)
    PROVE  /\ call[c].handler = "runs"
           /\ call' \in [Call -> CallState]
           /\ call'[c] = [call[c] EXCEPT !.handler = "ends", !.code = "Internal"]
           /\ call'[c].handler = "ends" /\ call'[c].code = "Internal"
           /\ call'[c].method = call[c].method /\ call'[c].in = call[c].in /\ call'[c].out = call[c].out
           /\ call'[c].caller = call[c].caller /\ call'[c].told = call[c].told
           /\ \A d \in Call : d # c => call'[d] = call[d]
<1>1. call \in [Call -> CallState] /\ call[c] \in CallState
  BY DEF CallInv, TypeOK
<1>2. [call[c] EXCEPT !.handler = "ends", !.code = "Internal"] \in CallState
  BY <1>1 DEF CallState, HandlerState, Code
<1>3. call' = [call EXCEPT ![c] = [call[c] EXCEPT !.handler = "ends", !.code = "Internal"]]
  BY <1>1 DEF HandlerFails
<1>4. QED
  BY <1>1, <1>2, <1>3 DEF HandlerFails, CallState

LEMMA FailsWrites ==
    ASSUME CallInv, NEW c \in Call, HandlerFails(c)
    PROVE  \/ UNCHANGED <<events, accounts, applied>>
           \/ /\ applied' = [applied EXCEPT ![c] = @ + 1]
              /\ \E in \in CreateEventRequest : events' = events \cup {NewEvent(in)}
              /\ UNCHANGED <<accounts, checks>>
           \/ /\ applied' = [applied EXCEPT ![c] = @ + 1]
              /\ \E in \in RegisterRequest : ~Taken(in.username) /\ accounts' = accounts \cup {NewAccount(in)}
              /\ UNCHANGED <<events, checks>>
<1>1. CASE UNCHANGED tableVars
  BY <1>1 DEF tableVars
<1>2. CASE UNCHANGED <<events, accounts, applied>>
  BY <1>2
<1>3. CASE /\ \E in \in {m \in CreateEventRequest : m.type # "" /\ m.severity # ""} : InsertEvent(c, in)
           /\ UNCHANGED <<accounts, checks>>
  BY <1>3 DEF InsertEvent, Applied
<1>4. CASE /\ \E in \in {m \in RegisterRequest : m.username # "" /\ m.password \notin Short} :
                ~Taken(in.username) /\ InsertAccount(c, in)
           /\ UNCHANGED <<events, checks>>
  BY <1>4 DEF InsertAccount, Applied
<1>5. QED
  BY <1>1, <1>2, <1>3, <1>4 DEF HandlerFails

\* Tables that grow by a row keep their types.
LEMMA GrownTables ==
    ASSUME CallInv,
           \/ UNCHANGED events
           \/ \E in \in CreateEventRequest : events' = events \cup {NewEvent(in)},
           \/ UNCHANGED accounts
           \/ \E in \in RegisterRequest : accounts' = accounts \cup {NewAccount(in)}
    PROVE  /\ events' \subseteq Event /\ IsFiniteSet(events')
           /\ accounts' \subseteq AccountRow /\ IsFiniteSet(accounts')
<1>0. /\ events \subseteq Event /\ IsFiniteSet(events)
      /\ accounts \subseteq AccountRow /\ IsFiniteSet(accounts)
  BY DEF CallInv, TypeOK
<1>1. events' \subseteq Event /\ IsFiniteSet(events')
  <2>1. CASE UNCHANGED events
    BY <1>0, <2>1
  <2>2. CASE \E in \in CreateEventRequest : events' = events \cup {NewEvent(in)}
    <3>1. PICK in \in CreateEventRequest : events' = events \cup {NewEvent(in)}
      BY <2>2
    <3>2. NewEvent(in) \in Event
      BY NewRows
    <3>3. IsFiniteSet(events \cup {NewEvent(in)})
      BY <1>0, FS_AddElement
    <3>4. QED
      BY <1>0, <3>1, <3>2, <3>3
  <2>3. QED
    BY <2>1, <2>2
<1>2. accounts' \subseteq AccountRow /\ IsFiniteSet(accounts')
  <2>1. CASE UNCHANGED accounts
    BY <1>0, <2>1
  <2>2. CASE \E in \in RegisterRequest : accounts' = accounts \cup {NewAccount(in)}
    <3>1. PICK in \in RegisterRequest : accounts' = accounts \cup {NewAccount(in)}
      BY <2>2
    <3>2. NewAccount(in) \in AccountRow
      BY NewRows
    <3>3. IsFiniteSet(accounts \cup {NewAccount(in)})
      BY <1>0, FS_AddElement
    <3>4. QED
      BY <1>0, <3>1, <3>2, <3>3
  <2>3. QED
    BY <2>1, <2>2
<1>3. QED
  BY <1>1, <1>2

LEMMA AppliedType ==
    ASSUME CallInv, NEW c \in Call, applied' = [applied EXCEPT ![c] = @ + 1] \/ UNCHANGED applied
    PROVE  applied' \in [Call -> Nat]
  BY DEF CallInv, TypeOK

\* A handler that ends keeps the types.
LEMMA ResultKeeps ==
    ASSUME CallInv, NEW c \in Call, Handler(c)
    PROVE  CallInv'
<1>1. /\ call[c].handler = "runs" /\ checks' \in [Instance -> Nat]
      /\ UNCHANGED <<listVars, up, broken, faults, causeVars>>
  BY HandlerResult
<1>2. PICK m \in Method, in \in Request, code \in Refusal \cup {"OK"}, out \in {NoMessage} \cup Response :
        Ends(c, m, in, code, out) /\ Effect(c, m, in, code, out)
  BY HandlerResult DEF Result
<1>3. /\ m = "CreateEvent" => in \in CreateEventRequest
      /\ m = "Register" => in \in RegisterRequest
  BY <1>2 DEF Effect, Messages
<1>4. /\ events' \subseteq Event /\ IsFiniteSet(events')
      /\ accounts' \subseteq AccountRow /\ IsFiniteSet(accounts')
  BY <1>2, <1>3, GrownTables DEF Effect
<1>5. applied' \in [Call -> Nat]
  BY <1>2, AppliedType DEF Effect
<1>6. RestOK'
  BY <1>1, <1>4, <1>5 DEF CallInv, TypeOK, RestOK, listVars, causeVars
<1>7. QED
  BY <1>1, <1>2, <1>4, <1>6, EndsKeeps DEF Effect, listVars

LEMMA FailsKeeps ==
    ASSUME CallInv, NEW c \in Call, HandlerFails(c)
    PROVE  CallInv'
<1>1. /\ events' \subseteq Event /\ IsFiniteSet(events')
      /\ accounts' \subseteq AccountRow /\ IsFiniteSet(accounts')
  BY FailsWrites, GrownTables
<1>2. applied' \in [Call -> Nat]
  BY FailsWrites, AppliedType
<1>3. checks' \in [Instance -> Nat]
  <2>1. checks \in [Instance -> Nat] /\ target[c] \in Instance
    BY FailsChanges DEF CallInv, TypeOK
  <2>2. UNCHANGED checks \/ checks' = [checks EXCEPT ![target[c]] = @ + 1]
    BY DEF HandlerFails, tableVars
  <2>3. QED
    BY <2>1, <2>2
<1>4. faults' \in 0 .. MaxFaults
  <2>1. faults \in 0 .. MaxFaults /\ MaxFaults \in Nat
    BY RpcAssumption DEF CallInv, TypeOK
  <2>2. Fault \/ UNCHANGED faults
    BY DEF HandlerFails
  <2>3. QED
    BY <2>1, <2>2 DEF Fault
<1>5. RestOK'
  BY <1>1, <1>2, <1>3, <1>4 DEF CallInv, TypeOK, RestOK, HandlerFails, listVars, causeVars
<1>6. CallsOK'
  <2>1. \A d \in Call :
          /\ call[d].caller = "none" => call[d] = NoCall
          /\ call[d].handler \in {"none", "runs", "refused"} => call[d].code = "none"
          /\ call[d].method # "none" => /\ <<call[d].in, call[d].out>> \in Messages(call[d].method)
                                        /\ call[d].out # NoMessage <=> call[d].code = "OK"
    BY TypeParts DEF CallInv, CallsOK
  <2>2. NoCall.handler = "none"
    BY DEF NoCall
  <2>3. call[c].method = "none"
    BY FailsChanges DEF CallInv
  <2>4. ASSUME NEW d \in Call
        PROVE  /\ call'[d].caller = "none" => call'[d] = NoCall
               /\ call'[d].handler \in {"none", "runs", "refused"} => call'[d].code = "none"
               /\ call'[d].method # "none" => /\ <<call'[d].in, call'[d].out>> \in Messages(call'[d].method)
                                              /\ call'[d].out # NoMessage <=> call'[d].code = "OK"
    <3>1. CASE d = c
      BY <2>1, <2>2, <2>3, <3>1, FailsChanges
    <3>2. CASE d # c
      <4>1. call'[d] = call[d]
        BY <3>2, FailsChanges
      <4>2. QED
        BY <2>1, <4>1
    <3>3. QED
      BY <3>1, <3>2
  <2>5. call' \in [Call -> CallState]
    BY FailsChanges
  <2>6. QED
    BY <2>4, <2>5 DEF CallsOK, Messages
<1>7. ASSUME NEW d \in Call
      PROVE  /\ call'[d].handler = "ends" => call'[d].code \in Refusal \cup {"OK", "Internal"}
             /\ call'[d].handler = "ends" /\ call'[d].code # "Internal" => call'[d].method # "none"
             /\ call'[d].handler \in {"none", "runs", "refused"} => call'[d].method = "none"
             /\ call'[d].caller = "none" => target'[d] = NoInstance
             /\ call'[d].handler = "runs" => target'[d] \in Instance
  <2>1. UNCHANGED target
    BY DEF HandlerFails, listVars
  <2>2. CASE d = c
    BY <2>1, <2>2, FailsChanges DEF CallInv
  <2>3. CASE d # c
    <3>1. call'[d] = call[d]
      BY <2>3, FailsChanges
    <3>2. QED
      BY <2>1, <3>1 DEF CallInv
  <2>4. QED
    BY <2>2, <2>3
<1>8. QED
  BY <1>1, <1>5, <1>6, <1>7, TypePartsNext DEF CallInv

\* The rest of CallInv after a move.
LEMMA MovedKeeps ==
    ASSUME CallInv, Moved, RestOK',
           \A d \in Call : target'[d] = target[d] \/ (target'[d] \in Instance /\ call'[d].caller # "none"),
           \A d \in Call : call'[d].handler = "runs" => target'[d] \in Instance
    PROVE  CallInv'
<1>1. CallsOK'
  BY MovedCalls
<1>2. IsFiniteSet(events') /\ IsFiniteSet(accounts')
  BY DEF CallInv, Moved
<1>3. ASSUME NEW d \in Call
      PROVE  /\ call'[d].handler = "ends" => call'[d].code \in Refusal \cup {"OK", "Internal"}
             /\ call'[d].handler = "ends" /\ call'[d].code # "Internal" => call'[d].method # "none"
             /\ call'[d].handler \in {"none", "runs", "refused"} => call'[d].method = "none"
             /\ call'[d].caller = "none" => target'[d] = NoInstance
  BY DEF CallInv, Moved
<1>4. QED
  BY <1>1, <1>2, <1>3, TypePartsNext DEF CallInv

LEMMA CallStep == CallInv /\ [Next]_vars => CallInv'
<1> SUFFICES ASSUME CallInv, [Next]_vars PROVE CallInv'
  OBVIOUS
<1>1. ASSUME NEW c \in Call, Ask(c) PROVE CallInv'
  <2>1. Moved
    BY <1>1, MoveIsMoved DEF Move
  <2>2. target' \in [Call -> Instance \cup {NoInstance}] /\ before' \in [Call -> SUBSET Call]
    BY <1>1 DEF CallInv, TypeOK, Ask, Arrives
  <2>3. RestOK'
    <3>1. excused' \subseteq Call
      BY <1>1 DEF CallInv, TypeOK, Ask, Arrives
    <3>2. QED
      BY <1>1, <2>2, <3>1 DEF CallInv, TypeOK, RestOK, Ask, Arrives, tableVars
  <2>4. ASSUME NEW d \in Call
        PROVE  /\ target'[d] = target[d] \/ (target'[d] \in Instance /\ call'[d].caller # "none")
               /\ call'[d].handler = "runs" => target'[d] \in Instance
    BY <1>1 DEF CallInv, TypeOK, Ask, Arrives, CallState
  <2>5. QED
    BY <2>1, <2>3, <2>4, MovedKeeps
<1>2. ASSUME NEW c \in Call, Move(c), ~Ask(c) PROVE CallInv'
  <2>1. Moved
    BY <1>2, MoveIsMoved
  <2>2. RestOK' /\ UNCHANGED target
    <3>1. RestOK
      BY TypeParts DEF CallInv
    <3>2. UNCHANGED <<service, listed, target, before, up, events, accounts, checks, applied, faults, causeVars>>
      BY <1>2 DEF Move, AskUnavailable, AskNobody, Arrives, Invoke, ServeHTTP, Reply, Cancel, listVars, tableVars
    <3>3. broken' \subseteq Instance
      <4>1. Picked(c) => target[c] \in Instance
        BY <3>1 DEF RestOK, Picked
      <4>2. broken' = broken \/ (Picked(c) /\ broken' = broken \cup {target[c]})
        BY <1>2 DEF Move, AskUnavailable, AskNobody, Arrives, Invoke, ServeHTTP, Reply, Cancel
      <4>3. QED
        BY <3>1, <4>1, <4>2 DEF RestOK
    <3>4. QED
      BY <3>1, <3>2, <3>3 DEF RestOK, causeVars
  <2>3. ASSUME NEW d \in Call, call'[d].handler = "runs" PROVE target[d] \in Instance
    <3>1. CASE call[d].handler = "runs"
      BY <3>1 DEF CallInv
    <3>2. CASE call[d].handler # "runs"
      <4>1. call[c].handler = "none" /\ target[c] # NoInstance
        BY <1>2, <2>3, <3>2 DEF CallInv, TypeOK, CallState, Move, AskUnavailable, AskNobody, Arrives, Invoke, ServeHTTP,
           Reply, Cancel, Picked, Refused
      <4>2. d = c
        BY <1>2, <2>3, <3>2 DEF CallInv, TypeOK, Move, AskUnavailable, AskNobody, Arrives, Invoke, ServeHTTP, Reply,
           Cancel, Refused
      <4>3. QED
        BY <4>1, <4>2 DEF CallInv, TypeOK
    <3>3. QED
      BY <3>1, <3>2
  <2>4. QED
    BY <2>1, <2>2, <2>3, MovedKeeps
<1>3. ASSUME NEW c \in Call, Handler(c) PROVE CallInv'
  BY <1>3, ResultKeeps
<1>4. ASSUME NEW c \in Call, HandlerFails(c) PROVE CallInv'
  BY <1>4, FailsKeeps
<1>5. ASSUME NEW i \in Instance, Die(i) PROVE CallInv'
  <2>1. Moved
    BY <1>5, DieIsMoved
  <2>2. /\ checks' \in [Instance -> Nat] /\ faults' \in 0 .. MaxFaults /\ up' \subseteq Instance
        /\ away' \subseteq Instance /\ excused' \subseteq Call
    <3>1. RestOK /\ MaxFaults \in Nat
      BY TypeParts, RpcAssumption DEF CallInv
    <3>2. /\ checks' = [checks EXCEPT ![i] = 0] /\ faults' = faults + 1 /\ faults < MaxFaults
          /\ up' = up \ {i} /\ away' = away \cup {i}
          /\ excused' = excused \cup {c \in Call : target[c] = i /\ Waits(c)}
      BY <1>5 DEF Die, Fault
    <3>3. QED
      BY <3>1, <3>2 DEF RestOK
  <2>3. RestOK' /\ UNCHANGED target
    BY <1>5, <2>2 DEF CallInv, TypeOK, RestOK, Die, listVars
  <2>4. \A d \in Call : call'[d].handler = "runs" => target[d] \in Instance
    <3>1. \A d \in Call : call'[d] = call[d] \/ call'[d].handler = "cut"
      BY <1>5, DieIsMoved
    <3>2. QED
      BY <3>1 DEF CallInv
  <2>5. QED
    BY <2>1, <2>3, <2>4, MovedKeeps
<1>6. ASSUME UNCHANGED <<service, target, before, call, tableVars, faults, excused>>,
             up' \subseteq Instance, listed' \subseteq Instance, broken' \subseteq Instance, away' \subseteq Instance
      PROVE  CallInv'
  BY <1>6 DEF CallInv, TypeOK, tableVars
<1>7. CASE Refresh
  BY <1>6, <1>7 DEF CallInv, TypeOK, Refresh, causeVars
<1>8. ASSUME NEW i \in Instance, Restart(i) \/ Redial(i) PROVE CallInv'
  BY <1>6, <1>8 DEF CallInv, TypeOK, Restart, Redial, listVars
<1>9. CASE UNCHANGED vars
  BY <1>6, <1>9 DEF CallInv, TypeOK, vars, listVars, causeVars
<1>10. QED
  BY <1>1, <1>2, <1>3, <1>4, <1>5, <1>7, <1>8, <1>9 DEF Next, Move

LEMMA CallInit == Init => CallInv
<1> SUFFICES ASSUME Init PROVE CallInv
  OBVIOUS
<1>1. NoCall \in CallState
  BY DEF NoCall, CallState, Caller, Code, HandlerState
<1>2. TypeOK
  BY <1>1, RpcAssumption DEF Init, TypeOK, NoCall, Messages
<1>3. QED
  BY <1>2, FS_EmptySet DEF Init, CallInv, NoCall

\* The types of all variables, and of the messages of every call.
THEOREM RpcTypes == Spec => []TypeOK
  BY CallInit, CallStep, PTL DEF Spec, CallInv

-----------------------------------------------------------------------------
\* What a caller is told is true.

\* A call has changed a table once at most, and not before its handler ends; its code
\* tells what it did, and its caller is told that code, if anything of it.
OutcomeInv ==
    \A c \in Call :
        /\ applied[c] \in {0, 1}
        /\ call[c].handler \in {"none", "runs", "refused"} => applied[c] = 0
        /\ call[c].handler = "ends" =>
             /\ call[c].code \in Refusal => applied[c] = 0
             /\ call[c].code = "OK" /\ call[c].method \in {"CreateEvent", "Register", "GetStatus"} => applied[c] = 1
        /\ call[c].told = "OK" => call[c].handler = "ends" /\ call[c].code = "OK"
        /\ call[c].told \in Refusal =>
             call[c].handler = "refused" \/ (call[c].handler = "ends" /\ call[c].code = call[c].told)

\* A step is a move, the end of a handler, or leaves the calls and tables alone.
LEMMA StepKinds ==
    ASSUME CallInv, [Next]_vars
    PROVE  \/ Moved
           \/ \E c \in Call : Handler(c) \/ HandlerFails(c)
           \/ UNCHANGED <<call, tableVars>>
<1>1. ASSUME NEW c \in Call, Move(c) PROVE Moved
  BY <1>1, MoveIsMoved
<1>2. ASSUME NEW i \in Instance, Die(i) PROVE Moved
  BY <1>2, DieIsMoved
<1>3. CASE Refresh \/ UNCHANGED vars \/ \E i \in Instance : Restart(i) \/ Redial(i)
  BY <1>3 DEF Refresh, Restart, Redial, vars
<1>4. QED
  BY <1>1, <1>2, <1>3 DEF Next, Move

\* What the end of a handler makes of its call.
LEMMA ResultChanges ==
    ASSUME CallInv, NEW c \in Call, Handler(c)
    PROVE  \E m \in Method, in \in Request, code \in Refusal \cup {"OK"}, out \in {NoMessage} \cup Response :
             /\ Effect(c, m, in, code, out)
             /\ call'[c].handler = "ends" /\ call'[c].method = m /\ call'[c].in = in
             /\ call'[c].code = code /\ call'[c].out = out
             /\ call'[c].told = call[c].told /\ call'[c].caller = call[c].caller
             /\ \A d \in Call : d # c => call'[d] = call[d]
<1>1. PICK m \in Method, in \in Request, code \in Refusal \cup {"OK"}, out \in {NoMessage} \cup Response :
        Ends(c, m, in, code, out) /\ Effect(c, m, in, code, out)
  BY HandlerResult DEF Result
<1>2. code \in Code /\ call[c].handler = "runs"
  BY HandlerResult DEF Code
<1>3. QED
  BY <1>1, <1>2, EndsChanges

LEMMA OutcomeStep ==
    ASSUME CallInv, OutcomeInv, [Next]_vars PROVE OutcomeInv'
<1>0. applied \in [Call -> Nat]
  BY DEF CallInv, TypeOK
<1>1. CASE Moved
  BY <1>1 DEF Moved, OutcomeInv, CallInv, TypeOK, CallState, HandlerState, Code, Refusal
<1>2. ASSUME NEW c \in Call, Handler(c) PROVE OutcomeInv'
  <2>1. PICK m \in Method, in \in Request, code \in Refusal \cup {"OK"}, out \in {NoMessage} \cup Response :
          /\ Effect(c, m, in, code, out)
          /\ call'[c].handler = "ends" /\ call'[c].method = m /\ call'[c].in = in
          /\ call'[c].code = code /\ call'[c].out = out
          /\ call'[c].told = call[c].told /\ call'[c].caller = call[c].caller
          /\ \A d \in Call : d # c => call'[d] = call[d]
    BY <1>2, ResultChanges
  <2>2. call[c].handler = "runs" /\ applied[c] = 0
    BY <1>2, HandlerResult DEF OutcomeInv
  <2>3. applied'[c] = (IF Wrote(m, code) THEN 1 ELSE 0) /\ \A d \in Call : d # c => applied'[d] = applied[d]
    BY <1>0, <2>1, <2>2 DEF Effect
  <2>4. "OK" \notin Refusal
    BY DEF Refusal
  <2>5. QED
    BY <2>1, <2>2, <2>3, <2>4 DEF OutcomeInv, Wrote
<1>3. ASSUME NEW c \in Call, HandlerFails(c) PROVE OutcomeInv'
  <2>1. call[c].handler = "runs" /\ applied[c] = 0
    BY <1>3, FailsChanges DEF OutcomeInv
  <2>2. applied'[c] \in {0, 1} /\ \A d \in Call : d # c => applied'[d] = applied[d]
    BY <1>0, <1>3, <2>1, FailsWrites
  <2>3. "Internal" \notin Refusal \cup {"OK"}
    BY DEF Refusal
  <2>4. QED
    <3>1. /\ call'[c].handler = "ends" /\ call'[c].code = "Internal" /\ call'[c].told = call[c].told
          /\ \A d \in Call : d # c => call'[d] = call[d]
      BY <1>3, FailsChanges
    <3>2. call[c].told \notin Refusal \cup {"OK"}
      BY <2>1 DEF OutcomeInv
    <3>3. QED
      BY <2>1, <2>2, <2>3, <3>1, <3>2 DEF OutcomeInv
<1>4. CASE UNCHANGED <<call, tableVars>>
  BY <1>4 DEF OutcomeInv, tableVars
<1>5. QED
  BY <1>1, <1>2, <1>3, <1>4, StepKinds

\* A call is executed once at most, and its caller is told the truth.
THEOREM CallsExecutedOnce == Spec => []ExecutedOnce
<1>1. Init => OutcomeInv
  BY DEF Init, OutcomeInv, NoCall, Refusal
<1>2. CallInv /\ OutcomeInv /\ [Next]_vars => OutcomeInv'
  BY OutcomeStep
<1>3. OutcomeInv => ExecutedOnce
  BY DEF OutcomeInv, ExecutedOnce
<1>4. QED
  BY <1>1, <1>2, <1>3, CallInit, CallStep, PTL DEF Spec

-----------------------------------------------------------------------------
\* Unavailable has a cause.

\* What is not up, and what cannot be dialled, is away, and a call that waits for an
\* instance that is away is excused.
CauseInv ==
    /\ Instance \ up \subseteq away
    /\ broken \subseteq away
    /\ \A c \in Call : Waits(c) /\ target[c] \in away => c \in excused
    /\ UnavailableHasACause

\* What the causes still say when no instance goes away and no call is made: a call
\* is told Unavailable when no instance was picked or it is excused.
LEMMA CauseKept ==
    ASSUME CauseInv, UNCHANGED <<target, excused>>, away' \subseteq away,
           Instance \ up' \subseteq away', broken' \subseteq away',
           \A c \in Call : Waits(c)' => Waits(c),
           \A c \in Call : call'[c].told = "Unavailable" =>
             call[c].told = "Unavailable" \/ target[c] = NoInstance \/ c \in excused
    PROVE  CauseInv'
  BY DEF CauseInv, UnavailableHasACause

LEMMA CauseStep ==
    ASSUME CallInv, CauseInv, [Next]_vars PROVE CauseInv'
<1>0. /\ call \in [Call -> CallState] /\ target \in [Call -> Instance \cup {NoInstance}]
      /\ Instance \ up \subseteq away /\ broken \subseteq away /\ away \subseteq Instance
      /\ \A c \in Call : Waits(c) /\ target[c] \in away => c \in excused
  BY DEF CallInv, TypeOK, CauseInv
<1>1. ASSUME NEW c \in Call, Ask(c) PROVE CauseInv'
  <2>1. PICK i \in listed :
          target' = [target EXCEPT ![c] = i] /\ excused' = IF i \in away THEN excused \cup {c} ELSE excused
    BY <1>1 DEF Ask, Arrives
  <2>2. call'[c].told # "Unavailable"
    <3>1. call[c] = NoCall
      BY <1>1, TypeParts DEF CallInv, CallsOK, Ask, Arrives
    <3>2. QED
      BY <1>0, <1>1, <3>1 DEF Ask, Arrives, CallState, NoCall
  <2>3. target'[c] = i /\ \A d \in Call : d # c => call'[d] = call[d] /\ target'[d] = target[d]
    BY <1>0, <1>1, <2>1 DEF Ask, Arrives
  <2>4. ASSUME NEW d \in Call
        PROVE  /\ Waits(d)' /\ target'[d] \in away => d \in excused'
               /\ call'[d].told = "Unavailable" => target'[d] = NoInstance \/ d \in excused'
    <3>1. CASE d = c
      BY <2>1, <2>2, <2>3, <3>1
    <3>2. CASE d # c
      BY <2>1, <2>3, <3>2 DEF CauseInv, UnavailableHasACause, Waits
    <3>3. QED
      BY <3>1, <3>2
  <2>5. UNCHANGED <<up, broken, away>>
    BY <1>1 DEF Ask, Arrives
  <2>6. QED
    BY <1>0, <2>4, <2>5 DEF CauseInv, UnavailableHasACause
<1>2. ASSUME NEW c \in Call, AskUnavailable(c) \/ AskNobody(c) PROVE CauseInv'
  <2>1. target[c] = NoInstance /\ \A d \in Call : d # c => call'[d] = call[d]
    BY <1>0, <1>2 DEF AskUnavailable, AskNobody, Arrives, CallInv
  <2>2. call'[c].caller = "told"
    BY <1>0, <1>2 DEF AskUnavailable, AskNobody, Arrives, CallState
  <2>3. UNCHANGED <<target, up, broken, away, excused>>
    BY <1>2 DEF AskUnavailable, AskNobody, Arrives, listVars, causeVars
  <2>4. QED
    BY <1>0, <2>1, <2>2, <2>3, CauseKept DEF Waits
<1>3. ASSUME NEW c \in Call, Invoke(c) \/ ServeHTTP(c) PROVE CauseInv'
  <2>1. target[c] \in Instance /\ UNCHANGED <<target, up, away, excused>>
    BY <1>0, <1>3 DEF Invoke, ServeHTTP, Picked, listVars, causeVars
  <2>2. broken' \subseteq away
    BY <1>0, <1>3, <2>1 DEF Invoke, ServeHTTP
  <2>3. \A d \in Call : d # c => call'[d] = call[d]
    BY <1>0, <1>3 DEF Invoke, ServeHTTP, Refused
  <2>4. Waits(c)' => Waits(c)
    BY <1>0, <1>3 DEF Invoke, ServeHTTP, Refused, CallState, Waits
  <2>5. call'[c].told = "Unavailable" => call[c].told = "Unavailable" \/ c \in excused
    <3>1. CASE ~Waits(c)
      <4>1. call[c].caller = "told"
        BY <1>0, <2>1, <3>1, RpcAssumption DEF CallInv, CallState, Caller, Waits
      <4>2. QED
        BY <1>0, <1>3, <3>1, <4>1 DEF Invoke, ServeHTTP, Refused, CallState, Told
    <3>2. CASE Waits(c) /\ target[c] \in up \ broken
      BY <1>0, <1>3, <3>2 DEF Invoke, ServeHTTP, Refused, CallState
    <3>3. CASE Waits(c) /\ target[c] \notin up \ broken
      BY <1>0, <2>1, <3>3
    <3>4. QED
      BY <3>1, <3>2, <3>3
  <2>6. QED
    BY <1>0, <2>1, <2>2, <2>3, <2>4, <2>5, CauseKept DEF Waits
<1>4. ASSUME NEW c \in Call, Reply(c) \/ Cancel(c) PROVE CauseInv'
  <2>1. /\ call'[c].told # "Unavailable" /\ call'[c].caller = "told"
        /\ \A d \in Call : d # c => call'[d] = call[d]
    BY <1>0, <1>4 DEF Reply, Cancel, CallState, CallInv, Refusal
  <2>2. UNCHANGED <<target, up, broken, away, excused>>
    BY <1>4 DEF Reply, Cancel, listVars, causeVars
  <2>3. QED
    BY <1>0, <2>1, <2>2, CauseKept DEF Waits
<1>5. ASSUME NEW c \in Call, Handler(c) \/ HandlerFails(c) PROVE CauseInv'
  <2>1. UNCHANGED <<target, up, broken, away, excused>>
    BY <1>5, HandlerResult DEF HandlerFails, listVars, causeVars
  <2>2. \A d \in Call : call'[d].told = call[d].told /\ call'[d].caller = call[d].caller
    BY <1>5, ResultChanges, FailsChanges
  <2>3. QED
    BY <1>0, <2>1, <2>2, CauseKept DEF Waits
<1>6. ASSUME NEW i \in Instance, Die(i) PROVE CauseInv'
  <2>1. ASSUME NEW c \in Call, target[c] # i PROVE call'[c] = call[c]
    BY <2>1, <1>6 DEF Die
  <2>2. ASSUME NEW c \in Call PROVE
          /\ Waits(c)' => Waits(c)
          /\ call'[c].told = "Unavailable" => call[c].told = "Unavailable" \/ Waits(c)
    BY <1>0, <1>6 DEF Die, CallState, Waits
  <2>3. /\ up' = up \ {i} /\ away' = away \cup {i} /\ UNCHANGED <<target, broken>>
        /\ excused' = excused \cup {c \in Call : target[c] = i /\ Waits(c)}
    BY <1>6 DEF Die, listVars
  <2>4. ASSUME NEW c \in Call
        PROVE  /\ Waits(c)' /\ target[c] \in away' => c \in excused'
               /\ call'[c].told = "Unavailable" => target[c] = NoInstance \/ c \in excused'
    <3>1. CASE target[c] = i
      BY <2>2, <2>3, <3>1 DEF CauseInv, UnavailableHasACause
    <3>2. CASE target[c] # i
      BY <1>0, <2>1, <2>3, <3>2 DEF CauseInv, UnavailableHasACause, Waits
    <3>3. QED
      BY <3>1, <3>2
  <2>5. QED
    BY <1>0, <2>3, <2>4 DEF CauseInv, UnavailableHasACause
<1>7. ASSUME NEW i \in Instance, Restart(i) \/ Redial(i) PROVE CauseInv'
  <2>1. /\ away' \subseteq away /\ UNCHANGED <<target, call, excused>>
        /\ Instance \ up' \subseteq away' /\ broken' \subseteq away'
    BY <1>0, <1>7 DEF Restart, Redial, listVars
  <2>2. QED
    BY <2>1, CauseKept DEF Waits
<1>8. CASE Refresh \/ UNCHANGED vars
  <2>1. UNCHANGED <<target, call, up, broken, away, excused>>
    BY <1>8 DEF Refresh, vars, listVars, causeVars
  <2>2. QED
    BY <1>0, <2>1, CauseKept DEF Waits
<1>9. QED
  BY <1>1, <1>2, <1>3, <1>4, <1>5, <1>6, <1>7, <1>8 DEF Next

\* Unavailable is told when there was no instance, or when the one picked was down, or
\* not dialled again since, at some moment of the call.
THEOREM UnavailableIsCaused == Spec => []UnavailableHasACause
<1>1. Init => CauseInv
  BY DEF Init, CauseInv, UnavailableHasACause, NoCall
<1>2. CallInv /\ CauseInv /\ [Next]_vars => CauseInv'
  BY CauseStep
<1>3. CauseInv => UnavailableHasACause
  BY DEF CauseInv
<1>4. QED
  BY <1>1, <1>2, <1>3, CallInit, CallStep, PTL DEF Spec

-----------------------------------------------------------------------------
\* Reads are current.

\* No row has an id beyond their number; what a call that ended with OK wrote is in
\* the tables; and a call that was answered before another is still answered.
WrittenInv ==
    /\ \A e \in events : e.id \in 1 .. Cardinality(events)
    /\ \A d \in Call : call[d].handler = "ends" /\ call[d].code = "OK" =>
         /\ call[d].method = "CreateEvent" => call[d].out.event \in events
         /\ call[d].method = "Register" =>
              \E a \in accounts : a.username = call[d].in.username /\ a.password = call[d].in.password
    /\ \A c \in Call : \A d \in before[c] : Told(d)

\* A row is added with the next id.
LEMMA IdsGrow ==
    ASSUME CallInv, WrittenInv,
           \/ UNCHANGED events
           \/ \E in \in CreateEventRequest : events' = events \cup {NewEvent(in)}
    PROVE  \A e \in events' : e.id \in 1 .. Cardinality(events')
<1>0. IsFiniteSet(events) /\ Cardinality(events) \in Nat /\ \A e \in events : e.id \in 1 .. Cardinality(events)
  BY FS_CardinalityType DEF CallInv, WrittenInv
<1>1. CASE UNCHANGED events
  BY <1>0, <1>1
<1>2. CASE \E in \in CreateEventRequest : events' = events \cup {NewEvent(in)}
  <2>1. PICK in \in CreateEventRequest : events' = events \cup {NewEvent(in)}
    BY <1>2
  <2>2. NewEvent(in).id = Cardinality(events) + 1
    BY DEF NewEvent
  <2>3. NewEvent(in) \notin events
    BY <1>0, <2>2
  <2>4. Cardinality(events') = Cardinality(events) + 1
    BY <1>0, <2>1, <2>3, FS_AddElement
  <2>5. QED
    BY <1>0, <2>1, <2>2, <2>4
<1>3. QED
  BY <1>1, <1>2

\* Answers are final, and a new call comes after what is answered.
LEMMA BeforeStep ==
    ASSUME CallInv, WrittenInv, [Next]_vars
    PROVE  /\ \A c \in Call : \A d \in before'[c] : Told(d)'
           /\ \A c \in Call : before'[c] = before[c] \/ call[c].handler = "none"
           /\ \A d \in Call : Told(d) => Told(d)' /\ call'[d].told = call[d].told
<1>1. \A d \in Call : Told(d) => Told(d)' /\ call'[d].told = call[d].told
  <2>1. CASE Moved
    BY <2>1 DEF Moved, Told
  <2>2. CASE \E c \in Call : Handler(c) \/ HandlerFails(c)
    BY <2>2, ResultChanges, FailsChanges DEF Told
  <2>3. CASE UNCHANGED <<call, tableVars>>
    BY <2>3 DEF Told
  <2>4. QED
    BY <2>1, <2>2, <2>3, StepKinds
<1>2. ASSUME NEW c \in Call, Ask(c) PROVE
        /\ \A b \in Call : b # c => before'[b] = before[b]
        /\ before'[c] = {d \in Call : Told(d)}
        /\ call[c].handler = "none"
  <2>1. call[c] = NoCall
    BY <1>2, TypeParts DEF CallInv, CallsOK, Ask, Arrives
  <2>2. QED
    BY <1>2, <2>1 DEF CallInv, TypeOK, Ask, Arrives, NoCall
<1>3. ASSUME ~\E c \in Call : Ask(c) PROVE before' = before
  BY <1>3, HandlerResult DEF Next, vars, listVars, Refresh, AskUnavailable, AskNobody, Arrives, Invoke, ServeHTTP, Reply,
     Cancel, HandlerFails, Die, Restart, Redial
<1>4. \A c \in Call : before[c] \in SUBSET Call /\ \A d \in before[c] : Told(d)
  BY DEF CallInv, TypeOK, WrittenInv
<1>5. QED
  BY <1>1, <1>2, <1>3, <1>4

LEMMA WrittenStep ==
    ASSUME CallInv, WrittenInv, [Next]_vars PROVE WrittenInv'
<1>1. \A c \in Call : \A d \in before'[c] : Told(d)'
  BY BeforeStep
<1>2. \A d \in Call : call[d].handler = "ends" /\ call[d].code = "OK" =>
        /\ call[d].method = "CreateEvent" => call[d].out.event \in events
        /\ call[d].method = "Register" =>
             \E a \in accounts : a.username = call[d].in.username /\ a.password = call[d].in.password
  BY DEF WrittenInv
<1>3. CASE Moved
  <2>1. UNCHANGED <<events, accounts>> /\ \A d \in Call : call'[d].handler = "ends" => call[d].handler = "ends"
    BY <1>3 DEF Moved
  <2>2. QED
    BY <1>1, <1>2, <1>3, <2>1, IdsGrow DEF WrittenInv, Moved
<1>4. ASSUME NEW c \in Call, Handler(c) PROVE WrittenInv'
  <2>1. PICK m \in Method, in \in Request, code \in Refusal \cup {"OK"}, out \in {NoMessage} \cup Response :
          /\ Effect(c, m, in, code, out)
          /\ call'[c].handler = "ends" /\ call'[c].method = m /\ call'[c].in = in
          /\ call'[c].code = code /\ call'[c].out = out
          /\ call'[c].told = call[c].told /\ call'[c].caller = call[c].caller
          /\ \A d \in Call : d # c => call'[d] = call[d]
    BY <1>4, ResultChanges
  <2>2. m = "CreateEvent" => in \in CreateEventRequest
    BY <2>1 DEF Effect, Messages
  <2>3. \A e \in events' : e.id \in 1 .. Cardinality(events')
    BY <2>1, <2>2, IdsGrow DEF Effect
  <2>4. events \subseteq events' /\ accounts \subseteq accounts'
    BY <2>1 DEF Effect
  <2>5. /\ m = "CreateEvent" /\ code = "OK" => out.event \in events'
        /\ m = "Register" /\ code = "OK" => NewAccount(in) \in accounts'
    BY <2>1 DEF Effect, Wrote
  <2>6. NewAccount(in).username = in.username /\ NewAccount(in).password = in.password
    BY DEF NewAccount
  <2>7. ASSUME NEW d \in Call, call'[d].handler = "ends", call'[d].code = "OK"
        PROVE  /\ call'[d].method = "CreateEvent" => call'[d].out.event \in events'
               /\ call'[d].method = "Register" =>
                    \E a \in accounts' : a.username = call'[d].in.username /\ a.password = call'[d].in.password
    <3>1. CASE d = c
      BY <2>1, <2>5, <2>6, <2>7, <3>1
    <3>2. CASE d # c
      BY <1>2, <2>1, <2>4, <2>7, <3>2
    <3>3. QED
      BY <3>1, <3>2
  <2>8. QED
    BY <1>1, <2>3, <2>7 DEF WrittenInv
<1>5. ASSUME NEW c \in Call, HandlerFails(c) PROVE WrittenInv'
  <2>1. events \subseteq events' /\ accounts \subseteq accounts'
    BY <1>5, FailsWrites
  <2>2. \A e \in events' : e.id \in 1 .. Cardinality(events')
    BY <1>5, FailsWrites, IdsGrow
  <2>3. call'[c].code = "Internal" /\ \A d \in Call : d # c => call'[d] = call[d]
    BY <1>5, FailsChanges
  <2>4. ASSUME NEW d \in Call, call'[d].handler = "ends", call'[d].code = "OK"
        PROVE  /\ call'[d].method = "CreateEvent" => call'[d].out.event \in events'
               /\ call'[d].method = "Register" =>
                    \E a \in accounts' : a.username = call'[d].in.username /\ a.password = call'[d].in.password
    BY <1>2, <2>1, <2>3, <2>4
  <2>5. QED
    BY <1>1, <2>2, <2>4 DEF WrittenInv
<1>6. CASE UNCHANGED <<call, tableVars>>
  BY <1>1, <1>6 DEF WrittenInv, tableVars
<1>7. QED
  BY <1>3, <1>4, <1>5, <1>6, StepKinds

\* What ReadsAreCurrent says of a call and one that was answered before it.
Finds(c, d) ==
    /\ call[d].method = "CreateEvent" =>
         /\ call[c].method = "ListEvents" => call[d].out.event \in call[c].out.events
         /\ call[c].method = "GetEvent" /\ call[c].in.id = call[d].out.event.id => call[c].code = "OK"
         /\ call[c].method = "CreateEvent" /\ call[c].code = "OK" =>
              call[c].out.event.id > call[d].out.event.id
    /\ call[d].method = "Register" =>
         /\ call[c].method = "Login" /\ call[c].in = call[d].in => call[c].code = "OK"
         /\ call[c].method = "Register" /\ call[c].in.username = call[d].in.username =>
              call[c].code # "OK"

\* A handler that ends finds what is written.
LEMMA ResultFinds ==
    ASSUME CallInv, WrittenInv, NEW c \in Call, Handler(c), NEW d \in Call, d # c,
           call[d].handler = "ends", call[d].code = "OK"
    PROVE  Finds(c, d)'
<1>1. PICK m \in Method, in \in Request, code \in Refusal \cup {"OK"}, out \in {NoMessage} \cup Response :
        /\ Effect(c, m, in, code, out)
        /\ call'[c].handler = "ends" /\ call'[c].method = m /\ call'[c].in = in
        /\ call'[c].code = code /\ call'[c].out = out
        /\ call'[c].told = call[c].told /\ call'[c].caller = call[c].caller
        /\ \A b \in Call : b # c => call'[b] = call[b]
  BY ResultChanges
<1>2. call'[d] = call[d]
  BY <1>1
<1>3. ASSUME call[d].method = "CreateEvent"
      PROVE  /\ m = "ListEvents" => call[d].out.event \in out.events
             /\ m = "GetEvent" /\ in.id = call[d].out.event.id => code = "OK"
             /\ m = "CreateEvent" /\ code = "OK" => out.event.id > call[d].out.event.id
  <2>1. /\ call[d].out.event \in events
        /\ call[d].out.event.id \in 1 .. Cardinality(events) /\ Cardinality(events) \in Nat
    BY <1>3, FS_CardinalityType DEF WrittenInv, CallInv
  <2>2. m = "CreateEvent" /\ code = "OK" => out.event.id = Cardinality(events) + 1
    BY <1>1 DEF Effect, Wrote, NewEvent
  <2>3. m = "GetEvent" /\ code # "OK" => in.id = 0 \/ \A e \in events : e.id # in.id
    BY <1>1 DEF Effect
  <2>4. m = "ListEvents" => out.events = events
    BY <1>1 DEF Effect
  <2>5. QED
    BY <2>1, <2>2, <2>3, <2>4
<1>4. ASSUME call[d].method = "Register"
      PROVE  /\ m = "Login" /\ in = call[d].in => code = "OK"
             /\ m = "Register" /\ in.username = call[d].in.username => code # "OK"
  <2>1. \E a \in accounts : a.username = call[d].in.username /\ a.password = call[d].in.password
    BY <1>4 DEF WrittenInv
  <2>2. QED
    BY <1>1, <2>1 DEF Effect, Wrote, Taken
<1>5. QED
  BY <1>1, <1>2, <1>3, <1>4 DEF Finds

LEMMA ReadsStep ==
    ASSUME CallInv, OutcomeInv, WrittenInv, ReadsAreCurrent, [Next]_vars
    PROVE  ReadsAreCurrent'
<1> SUFFICES ASSUME NEW c \in Call, NEW d \in before'[c],
                    call'[d].told = "OK", call'[c].handler = "ends", call'[c].code # "Internal"
             PROVE  Finds(c, d)'
  BY DEF ReadsAreCurrent, Finds
<1>1. d \in Call /\ OutcomeInv' /\ call'[d].handler = "ends" /\ call'[d].code = "OK"
  BY OutcomeStep, CallStep, BeforeStep DEF CallInv, TypeOK, OutcomeInv
<1>2. ASSUME call[c].handler = "ends", call[c].code # "Internal" PROVE d \in before[c] /\ call[d].told = "OK" /\ Finds(c, d)
  <2>1. d \in before[c]
    BY <1>2, BeforeStep
  <2>2. call[d].told = "OK"
    BY <1>1, <2>1, BeforeStep DEF WrittenInv
  <2>3. QED
    BY <1>2, <2>1, <2>2 DEF ReadsAreCurrent, Finds
<1>3. CASE Moved
  <2>1. /\ call[c].handler = "ends" /\ call[c].code = call'[c].code
        /\ call'[c].method = call[c].method /\ call'[c].in = call[c].in /\ call'[c].out = call[c].out
        /\ call'[d].method = call[d].method /\ call'[d].in = call[d].in /\ call'[d].out = call[d].out
    BY <1>1, <1>3 DEF Moved
  <2>2. QED
    BY <1>2, <2>1 DEF Finds
<1>4. ASSUME NEW b \in Call, Handler(b) PROVE Finds(c, d)'
  <2>1. call[b].handler = "runs" /\ call'[b].told = call[b].told /\ \A a \in Call : a # b => call'[a] = call[a]
    BY <1>4, HandlerResult, ResultChanges
  <2>2. d # b /\ call'[d] = call[d]
    BY <1>1, <2>1 DEF OutcomeInv
  <2>3. CASE c = b
    BY <1>1, <1>4, <2>2, <2>3, ResultFinds
  <2>4. CASE c # b
    BY <1>2, <2>1, <2>2, <2>4 DEF Finds
  <2>5. QED
    BY <2>3, <2>4
<1>5. ASSUME NEW b \in Call, HandlerFails(b) PROVE Finds(c, d)'
  <2>1. /\ call'[b].code = "Internal" /\ \A a \in Call : a # b => call'[a] = call[a]
    BY <1>5, FailsChanges
  <2>2. c # b /\ d # b /\ call'[c] = call[c] /\ call'[d] = call[d]
    BY <1>1, <2>1
  <2>3. QED
    BY <1>2, <2>2 DEF Finds
<1>6. CASE UNCHANGED <<call, tableVars>>
  BY <1>2, <1>6 DEF Finds
<1>7. QED
  BY <1>3, <1>4, <1>5, <1>6, StepKinds

\* Whoever was told OK finds what it wrote, whichever instance answers.
THEOREM ReadsFindWrites == Spec => []ReadsAreCurrent
<1>1. Init => OutcomeInv /\ WrittenInv /\ ReadsAreCurrent
  BY DEF Init, OutcomeInv, WrittenInv, ReadsAreCurrent, NoCall, Refusal
<1>2. CallInv /\ OutcomeInv /\ [Next]_vars => OutcomeInv'
  BY OutcomeStep
<1>3. CallInv /\ WrittenInv /\ [Next]_vars => WrittenInv'
  BY WrittenStep
<1>4. CallInv /\ OutcomeInv /\ WrittenInv /\ ReadsAreCurrent /\ [Next]_vars => ReadsAreCurrent'
  BY ReadsStep
<1>5. QED
  BY <1>1, <1>2, <1>3, <1>4, CallInit, CallStep, PTL DEF Spec

=============================================================================
