-------------------------- MODULE Accounts_proofs ---------------------------
(***************************************************************************)
(* Proofs about Accounts, for any requests, users, passwords, partitions   *)
(* and faults.  Codes and rows are final: a request's code is fixed when   *)
(* the repository returns, and the row it wrote stays; what the goroutine  *)
(* of Publish has yet to tell is apart from what was told.                 *)
(***************************************************************************)
EXTENDS Accounts, FiniteSetTheorems, SequenceTheorems, TLAPS

\* A row is that of the request that wrote it, which knows; and a request that was
\* not decided has no code.
RowsKnown ==
    /\ IsFiniteSet(accounts)
    /\ \A a \in accounts :
         /\ a = NewRow(a.by)
         /\ call[a.by].at \notin {"none", "open"}
         /\ call[a.by].at \in {"decided", "published"} => call[a.by].code = 201
    /\ \A r \in Request :
         /\ call[r].at \in {"none", "open"} => call[r].code = 0
         /\ call[r].at \in {"decided", "published"} => call[r].code \in {200, 201, 401}
         /\ call[r].code = 201 => NewRow(r) \in accounts

AccountsInv == TypeOK /\ RowsKnown

-----------------------------------------------------------------------------

\* What a request becomes.
LEMMA GoesChanges ==
    ASSUME TypeOK, NEW r \in Request, NEW place \in Place, NEW code \in Code, Goes(r, place, code)
    PROVE  /\ call' \in [Request -> Call]
           /\ call'[r].at = place /\ call'[r].code = code
           /\ call'[r].op = call[r].op /\ call'[r].user = call[r].user /\ call'[r].password = call[r].password
           /\ NewRow(r)' = NewRow(r)
           /\ \A q \in Request : q # r => call'[q] = call[q] /\ NewRow(q)' = NewRow(q)
<1>1. call \in [Request -> Call]
  BY DEF TypeOK
<1>2. QED
  BY <1>1 DEF Goes, Call, NewRow

\* Its rows have the type of rows.
LEMMA NewRowType ==
    ASSUME TypeOK, NEW r \in Request PROVE NewRow(r) \in Row /\ NewRow(r).by = r /\ NewRow(r).user = call[r].user
  BY DEF TypeOK, NewRow, Row, Call

\* Copies appended to the log.
LEMMA CopiesType ==
    ASSUME NEW s \in Seq(Request), NEW r \in Request, NEW n \in Nat
    PROVE  /\ s \o [k \in 1 .. n |-> r] \in Seq(Request)
           /\ Len(s \o [k \in 1 .. n |-> r]) = Len(s) + n
           /\ \A j \in 1 .. Len(s) + n :
                (s \o [k \in 1 .. n |-> r])[j] = IF j <= Len(s) THEN s[j] ELSE r
<1>1. [k \in 1 .. n |-> r] \in Seq(Request) /\ Len([k \in 1 .. n |-> r]) = n
  OBVIOUS
<1>2. QED
  BY <1>1, ConcatProperties

\* Where a step of a handler takes its request, and what it does to the table.
Outcome(r, place, code) ==
    \/ /\ call[r].at = "none" /\ UNCHANGED accounts
       /\ <<place, code>> \in {<<"answered", 400>>, <<"open", 0>>}
    \/ /\ Registering(r) /\ UNCHANGED accounts
       /\ place = "answered" /\ code \in {409, 500}
    \/ /\ Registering(r) /\ ~Registered(call[r].user) /\ accounts' = accounts \cup {NewRow(r)}
       /\ <<place, code>> \in {<<"decided", 201>>, <<"answered", 500>>}
    \/ /\ LoggingIn(r) /\ UNCHANGED accounts
       /\ <<place, code>> \in {<<"decided", 200>>, <<"decided", 401>>, <<"answered", 500>>}
    \/ /\ call[r].at = "decided" /\ place = "published" /\ code = call[r].code /\ UNCHANGED accounts
    \/ /\ call[r].at = "published" /\ place = "answered" /\ code = call[r].code /\ UNCHANGED accounts

RequestSteps(r) == \E place \in Place, code \in Code : Goes(r, place, code) /\ Outcome(r, place, code)

HandlerStep(r) ==
    \/ Receive(r) \/ CreateAccount(r) \/ CreateFails(r) \/ Authenticate(r) \/ AuthenticateFails(r)
    \/ Publish(r) \/ Reply(r)

LEMMA HandlerSteps == ASSUME TypeOK, NEW r \in Request, HandlerStep(r) PROVE RequestSteps(r)
<1>0. /\ call[r] \in Call /\ call[r].code \in Code
      /\ {"open", "decided", "published", "answered"} \subseteq Place
      /\ {0, 200, 201, 400, 401, 409, 500} \subseteq Code
  BY DEF TypeOK, Call, Place, Code
<1>1. CASE Receive(r)
  <2>1. PICK place \in {"answered", "open"}, code \in {400, 0} :
          Goes(r, place, code) /\ <<place, code>> \in {<<"answered", 400>>, <<"open", 0>>}
    BY <1>1 DEF Receive
  <2>2. Outcome(r, place, code)
    BY <1>1, <2>1 DEF Receive, Outcome
  <2>3. QED
    BY <1>0, <2>1, <2>2 DEF RequestSteps
<1>2. CASE CreateAccount(r)
  <2>1. CASE Registered(call[r].user)
    <3>1. Goes(r, "answered", 409) /\ Outcome(r, "answered", 409)
      BY <1>2, <2>1 DEF CreateAccount, Outcome
    <3>2. QED
      BY <1>0, <3>1 DEF RequestSteps
  <2>2. CASE ~Registered(call[r].user)
    <3>1. Goes(r, "decided", 201) /\ Outcome(r, "decided", 201)
      BY <1>2, <2>2 DEF CreateAccount, Outcome
    <3>2. QED
      BY <1>0, <3>1 DEF RequestSteps
  <2>3. QED
    BY <2>1, <2>2
<1>3. CASE CreateFails(r)
  <2>1. Goes(r, "answered", 500) /\ Outcome(r, "answered", 500)
    BY <1>3 DEF CreateFails, Outcome
  <2>2. QED
    BY <1>0, <2>1 DEF RequestSteps
<1>4. CASE Authenticate(r)
  <2>1. PICK code \in {200, 401} : Goes(r, "decided", code)
    BY <1>4 DEF Authenticate
  <2>2. Outcome(r, "decided", code)
    BY <1>4, <2>1 DEF Authenticate, Outcome
  <2>3. QED
    BY <1>0, <2>1, <2>2 DEF RequestSteps
<1>5. CASE AuthenticateFails(r)
  <2>1. Goes(r, "answered", 500) /\ Outcome(r, "answered", 500)
    BY <1>5 DEF AuthenticateFails, Outcome
  <2>2. QED
    BY <1>0, <2>1 DEF RequestSteps
<1>6. CASE Publish(r)
  <2>1. Goes(r, "published", call[r].code) /\ Outcome(r, "published", call[r].code)
    BY <1>6 DEF Publish, Outcome
  <2>2. QED
    BY <1>0, <2>1 DEF RequestSteps
<1>7. CASE Reply(r)
  <2>1. Goes(r, "answered", call[r].code) /\ Outcome(r, "answered", call[r].code)
    BY <1>7 DEF Reply, Outcome
  <2>2. QED
    BY <1>0, <2>1 DEF RequestSteps
<1>8. QED
  BY <1>1, <1>2, <1>3, <1>4, <1>5, <1>6, <1>7 DEF HandlerStep

\* What it keeps.
LEMMA RequestStepKeeps ==
    ASSUME AccountsInv, NEW r \in Request, RequestSteps(r)
    PROVE  /\ call' \in [Request -> Call] /\ accounts' \subseteq Row
           /\ RowsKnown'
           /\ \A q \in Request : q # r => call'[q] = call[q]
           /\ accounts \subseteq accounts'
<1>1. PICK place \in Place, code \in Code : Goes(r, place, code) /\ Outcome(r, place, code)
  BY DEF RequestSteps
<1>2. /\ call' \in [Request -> Call]
      /\ call'[r].at = place /\ call'[r].code = code
      /\ call'[r].op = call[r].op /\ call'[r].user = call[r].user /\ call'[r].password = call[r].password
      /\ NewRow(r)' = NewRow(r)
      /\ \A q \in Request : q # r => call'[q] = call[q] /\ NewRow(q)' = NewRow(q)
  BY <1>1, GoesChanges DEF AccountsInv
<1>3. NewRow(r) \in Row /\ NewRow(r).by = r
  BY NewRowType DEF AccountsInv
<1>4. accounts' = accounts \/ accounts' = accounts \cup {NewRow(r)}
  BY <1>1 DEF Outcome
<1>5. IsFiniteSet(accounts')
  BY <1>4, FS_AddElement DEF AccountsInv, RowsKnown
<1>6. accounts' \subseteq Row
  BY <1>3, <1>4 DEF AccountsInv, TypeOK
<1>7. ASSUME NEW a \in accounts'
      PROVE  /\ a = NewRow(a.by)'
             /\ call'[a.by].at \notin {"none", "open"}
             /\ call'[a.by].at \in {"decided", "published"} => call'[a.by].code = 201
  <2>1. a.by \in Request
    BY <1>6 DEF Row
  <2>2. CASE a \in accounts /\ a.by # r
    BY <1>2, <2>1, <2>2 DEF AccountsInv, RowsKnown
  <2>3. CASE a \in accounts /\ a.by = r
    BY <1>1, <1>2, <2>3 DEF AccountsInv, RowsKnown, Registering, LoggingIn, Outcome
  <2>4. CASE a \notin accounts
    BY <1>1, <1>2, <1>3, <1>4, <2>4 DEF Outcome
  <2>5. QED
    BY <2>2, <2>3, <2>4
<1>8. ASSUME NEW q \in Request
      PROVE  /\ call'[q].at \in {"none", "open"} => call'[q].code = 0
             /\ call'[q].at \in {"decided", "published"} => call'[q].code \in {200, 201, 401}
             /\ call'[q].code = 201 => NewRow(q)' \in accounts'
  <2>1. CASE q # r
    BY <1>2, <1>4, <2>1 DEF AccountsInv, RowsKnown
  <2>2. CASE q = r
    BY <1>1, <1>2, <1>4, <2>2 DEF AccountsInv, RowsKnown, Outcome
  <2>3. QED
    BY <2>1, <2>2
<1>9. QED
  BY <1>2, <1>4, <1>5, <1>6, <1>7, <1>8 DEF RowsKnown

LEMMA FaultType == ASSUME TypeOK, Fault \/ UNCHANGED faults PROVE faults' \in 0 .. MaxFaults /\ faults' >= faults
  BY AccountsAssumption DEF TypeOK, Fault

\* The other variables, in a step of a handler.
LEMMA HandlerTypes ==
    ASSUME TypeOK, NEW r \in Request, HandlerStep(r)
    PROVE  /\ UNCHANGED <<publisher, log, created, lost>>
           /\ faults' \in 0 .. MaxFaults
           /\ publishing' \subseteq Request
           /\ published' \in Seq(Request)
           /\ before' \in [Request -> SUBSET Request]
<1>1. UNCHANGED <<publisher, log, created, lost>>
  BY DEF HandlerStep, Receive, CreateAccount, CreateFails, Authenticate, AuthenticateFails, Publish, Reply,
     tellingVars
<1>2. Fault \/ UNCHANGED faults
  BY DEF HandlerStep, Receive, CreateAccount, CreateFails, Authenticate, AuthenticateFails, Publish, Reply
<1>3. publishing' \subseteq Request
  BY DEF TypeOK, HandlerStep, Receive, CreateAccount, CreateFails, Authenticate, AuthenticateFails, Publish,
     Reply, tellingVars
<1>4. published' \in Seq(Request)
  <2>1. published' = published \/ published' = Append(published, r)
    BY DEF HandlerStep, Receive, CreateAccount, CreateFails, Authenticate, AuthenticateFails, Publish, Reply,
       tellingVars
  <2>2. published \in Seq(Request)
    BY DEF TypeOK
  <2>3. QED
    BY <2>1, <2>2
<1>5. before' \in [Request -> SUBSET Request]
  BY DEF TypeOK, HandlerStep, Receive, CreateAccount, CreateFails, Authenticate, AuthenticateFails, Publish,
     Reply
<1>6. QED
  BY <1>1, <1>2, <1>3, <1>4, <1>5, FaultType

\* An activity is in the partition of its type.
LEMMA ActivityPlace ==
    ASSUME NEW r \in Request, call[r].code \in {200, 201, 401}
    PROVE  KeyPartition[Activity(r)] \in Partition
  BY TopicAssumption, AccountsAssumption DEF Activity

\* What is being published has a code that is announced.
PublishingKnown ==
    \A r \in publishing : call[r].code \in {200, 201, 401} /\ call[r].at \in {"published", "answered", "cut"}

LEMMA WriteTypes ==
    ASSUME TypeOK, PublishingKnown, NEW r \in Request, WriteActivity(r)
    PROVE  /\ log' \in [Partition -> Seq(Request)]
           /\ faults' \in 0 .. MaxFaults
           /\ lost' \subseteq Request
<1> DEFINE p == KeyPartition[Activity(r)]
<1>1. PICK n \in 0 .. MaxCopies :
        /\ IF n = 1 THEN UNCHANGED faults ELSE Fault
        /\ log' = [log EXCEPT ![p] = @ \o [k \in 1 .. n |-> r]]
        /\ lost' = IF n = 0 THEN lost \cup {r} ELSE lost
  BY DEF WriteActivity
<1>2. p \in Partition /\ n \in Nat
  BY ActivityPlace, AccountsAssumption DEF WriteActivity, PublishingKnown
<1>3. log[p] \o [k \in 1 .. n |-> r] \in Seq(Request)
  BY <1>2, CopiesType DEF TypeOK
<1>4. log' \in [Partition -> Seq(Request)]
  BY <1>1, <1>2, <1>3 DEF TypeOK
<1>5. QED
  BY <1>1, <1>4, FaultType DEF TypeOK

\* A crash cuts what is in flight.
LEMMA CrashChanges ==
    ASSUME TypeOK, Crash
    PROVE  /\ call' \in [Request -> Call]
           /\ \A r \in Request :
                /\ InFlight(r) => call'[r].at = "cut"
                /\ ~InFlight(r) => call'[r] = call[r]
                /\ call'[r].code = call[r].code /\ NewRow(r)' = NewRow(r)
                /\ call'[r].op = call[r].op
<1>1. ASSUME NEW r \in Request
      PROVE  /\ [call[r] EXCEPT !.at = "cut"] \in Call
             /\ [call[r] EXCEPT !.at = "cut"].at = "cut"
             /\ [call[r] EXCEPT !.at = "cut"].code = call[r].code
             /\ [call[r] EXCEPT !.at = "cut"].user = call[r].user
             /\ [call[r] EXCEPT !.at = "cut"].password = call[r].password
             /\ [call[r] EXCEPT !.at = "cut"].op = call[r].op
  BY DEF TypeOK, Call, Place
<1>2. \A r \in Request : call'[r] = IF InFlight(r) THEN [call[r] EXCEPT !.at = "cut"] ELSE call[r]
  BY DEF Crash
<1>3. call' \in [Request -> Call]
  <2>1. \A r \in Request : (IF InFlight(r) THEN [call[r] EXCEPT !.at = "cut"] ELSE call[r]) \in Call
    BY <1>1 DEF TypeOK
  <2>2. QED
    BY <2>1 DEF Crash
<1>4. QED
  BY <1>1, <1>2, <1>3 DEF NewRow

\* Every step keeps the invariant.
LEMMA AccountsStep ==
    ASSUME AccountsInv, PublishingKnown, [Next]_vars PROVE AccountsInv' /\ PublishingKnown'
<1>1. ASSUME NEW r \in Request, HandlerStep(r) PROVE AccountsInv' /\ PublishingKnown'
  <2>1. /\ call' \in [Request -> Call] /\ accounts' \subseteq Row
        /\ RowsKnown'
        /\ \A q \in Request : q # r => call'[q] = call[q]
    BY <1>1, HandlerSteps, RequestStepKeeps DEF AccountsInv
  <2>2. TypeOK'
    BY <1>1, <2>1, HandlerTypes DEF AccountsInv, TypeOK
  <2>3. PublishingKnown'
    <3>1. CASE Publish(r)
      <4>1. call'[r].at = "published" /\ call'[r].code = call[r].code /\ call[r].code \in {200, 201, 401}
        BY <3>1 DEF Publish, Goes, AccountsInv, TypeOK, RowsKnown, Call
      <4>2. QED
        BY <2>1, <3>1, <4>1 DEF Publish, PublishingKnown, AccountsInv, TypeOK
    <3>2. CASE Reply(r)
      <4>1. call'[r].at = "answered" /\ call'[r].code = call[r].code
        BY <3>2 DEF Reply, Goes, AccountsInv, TypeOK, Call
      <4>2. QED
        BY <2>1, <3>2, <4>1 DEF Reply, PublishingKnown, AccountsInv, TypeOK, tellingVars
    <3>3. CASE ~Publish(r) /\ ~Reply(r)
      <4>1. call[r].at \in {"none", "open"} /\ UNCHANGED publishing
        BY <1>1, <3>3 DEF HandlerStep, Receive, CreateAccount, CreateFails, Authenticate, AuthenticateFails,
           Registering, LoggingIn, tellingVars
      <4>2. r \notin publishing
        BY <4>1 DEF PublishingKnown
      <4>3. QED
        BY <2>1, <4>1, <4>2 DEF PublishingKnown, AccountsInv, TypeOK
    <3>4. QED
      BY <3>1, <3>2, <3>3
  <2>4. QED
    BY <2>1, <2>2, <2>3 DEF AccountsInv
<1>2. ASSUME NEW r \in Request, WriteActivity(r) PROVE AccountsInv' /\ PublishingKnown'
  <2>1. UNCHANGED <<accounts, call, publisher, created, published, before>> /\ publishing' = publishing \ {r}
    BY <1>2 DEF WriteActivity
  <2>2. TypeOK'
    BY <1>2, <2>1, WriteTypes DEF AccountsInv, TypeOK
  <2>3. RowsKnown' /\ PublishingKnown'
    BY <2>1 DEF AccountsInv, RowsKnown, PublishingKnown, NewRow
  <2>4. QED
    BY <2>2, <2>3 DEF AccountsInv
<1>3. ASSUME NEW r \in Request, CreateEvent(r) PROVE AccountsInv' /\ PublishingKnown'
  <2>1. UNCHANGED <<accounts, call, publisher, log, published, before>> /\ publishing' = publishing \ {r}
    BY <1>3 DEF CreateEvent
  <2>2. created' \in Seq(Request) /\ lost' \subseteq Request
    <3>1. /\ created' = created \/ created' = Append(created, r)
          /\ lost' = lost \/ lost' = lost \cup {r}
      BY <1>3 DEF CreateEvent
    <3>2. created \in Seq(Request) /\ lost \subseteq Request
      BY DEF AccountsInv, TypeOK
    <3>3. QED
      BY <3>1, <3>2
  <2>3. faults' \in 0 .. MaxFaults
    BY <1>3, FaultType DEF CreateEvent, AccountsInv
  <2>4. TypeOK'
    BY <2>1, <2>2, <2>3 DEF AccountsInv, TypeOK
  <2>5. RowsKnown' /\ PublishingKnown'
    BY <2>1 DEF AccountsInv, RowsKnown, PublishingKnown, NewRow
  <2>6. QED
    BY <2>4, <2>5 DEF AccountsInv
<1>4. CASE Crash
  <2>1. UNCHANGED <<accounts, publisher, log, created, published, before>>
        /\ publishing' = {} /\ lost' = lost \cup publishing
    BY <1>4 DEF Crash
  <2>2. TypeOK'
    BY <1>4, <2>1, CrashChanges, FaultType DEF Crash, AccountsInv, TypeOK
  <2>3. RowsKnown'
    <3>1. ASSUME NEW a \in accounts
          PROVE  /\ a = NewRow(a.by)'
                 /\ call'[a.by].at \notin {"none", "open"}
                 /\ call'[a.by].at \in {"decided", "published"} => call'[a.by].code = 201
      <4>1. a.by \in Request
        BY DEF AccountsInv, TypeOK, Row
      <4>2. a = NewRow(a.by) /\ call[a.by].at \notin {"none", "open"}
        BY DEF AccountsInv, RowsKnown
      <4>3. QED
        BY <1>4, <4>1, <4>2, CrashChanges DEF AccountsInv, InFlight
    <3>2. ASSUME NEW r \in Request
          PROVE  /\ call'[r].at \in {"none", "open"} => call'[r].code = 0
                 /\ call'[r].at \in {"decided", "published"} => call'[r].code \in {200, 201, 401}
                 /\ call'[r].code = 201 => NewRow(r)' \in accounts
      BY <1>4, CrashChanges DEF AccountsInv, RowsKnown, InFlight
    <3>3. QED
      BY <2>1, <3>1, <3>2 DEF AccountsInv, RowsKnown
  <2>4. QED
    BY <2>1, <2>2, <2>3 DEF AccountsInv, PublishingKnown
<1>5. CASE UNCHANGED vars
  BY <1>5 DEF AccountsInv, TypeOK, RowsKnown, PublishingKnown, NewRow, vars, tellingVars
<1>6. QED
  BY <1>1, <1>2, <1>3, <1>4, <1>5 DEF Next, HandlerStep

LEMMA AccountsInit == Init => AccountsInv /\ PublishingKnown
<1> SUFFICES ASSUME Init PROVE AccountsInv /\ PublishingKnown
  OBVIOUS
<1>1. TypeOK
  BY AccountsAssumption DEF Init, EmptyTopic, Publisher, TypeOK
<1>2. RowsKnown /\ PublishingKnown
  BY FS_EmptySet DEF Init, EmptyTopic, Publisher, RowsKnown, PublishingKnown
<1>3. QED
  BY <1>1, <1>2 DEF AccountsInv

\* The types of all variables.
THEOREM AccountsTypes == Spec => []TypeOK
<1>1. AccountsInv /\ PublishingKnown /\ [Next]_vars => AccountsInv' /\ PublishingKnown'
  BY AccountsStep
<1>2. QED
  BY <1>1, AccountsInit, PTL DEF Spec, AccountsInv

-----------------------------------------------------------------------------
\* One account per user.

\* The rows whose request was told that it failed.
Unknowing == {a \in accounts : Answered(a.by) /\ call[a.by].code # 201}

LEMMA UnknowingFinite ==
    ASSUME AccountsInv, NEW S \in SUBSET accounts
    PROVE  IsFiniteSet(S) /\ Cardinality(S) \in Nat
  BY FS_Subset, FS_CardinalityType DEF AccountsInv, RowsKnown

\* A step of a handler adds a row only for a username that has none, and an unknowing
\* one only by a fault.
LEMMA OneAccountStep ==
    ASSUME AccountsInv, OneAccountPerUser, NEW r \in Request, HandlerStep(r)
    PROVE  OneAccountPerUser'
<1>1. PICK place \in Place, code \in Code : Goes(r, place, code) /\ Outcome(r, place, code)
  BY HandlerSteps DEF AccountsInv, RequestSteps
<1>2. /\ call'[r].at = place /\ call'[r].code = code
      /\ \A q \in Request : q # r => call'[q] = call[q]
  BY <1>1, GoesChanges DEF AccountsInv
<1>3. NewRow(r) \in Row /\ NewRow(r).by = r /\ NewRow(r).user = call[r].user
  BY NewRowType DEF AccountsInv
<1>4. \A a \in accounts : a.by \in Request /\ a = NewRow(a.by) /\ call[a.by].at \notin {"none", "open"}
                          /\ (call[a.by].at \in {"decided", "published"} => call[a.by].code = 201)
  BY DEF AccountsInv, TypeOK, RowsKnown, Row
<1>5. \A a, b \in accounts' : a.user = b.user => a = b
  <2>1. CASE UNCHANGED accounts
    BY <2>1 DEF OneAccountPerUser
  <2>2. CASE ~Registered(call[r].user) /\ accounts' = accounts \cup {NewRow(r)}
    BY <1>3, <2>2 DEF OneAccountPerUser, Registered
  <2>3. QED
    BY <1>1, <2>1, <2>2 DEF Outcome
<1>6. faults \in Nat /\ faults' \in Nat /\ faults' >= faults /\ Cardinality(Unknowing) <= faults
  BY HandlerTypes, FaultType, AccountsAssumption
     DEF AccountsInv, TypeOK, OneAccountPerUser, Unknowing, HandlerStep, Receive, CreateAccount, CreateFails,
         Authenticate, AuthenticateFails, Publish, Reply, Fault
<1>7. CASE Unknowing' \subseteq Unknowing
  <2>1. Cardinality(Unknowing') <= Cardinality(Unknowing) /\ Cardinality(Unknowing) \in Nat
        /\ Cardinality(Unknowing') \in Nat
    BY <1>7, UnknowingFinite, FS_Subset, FS_CardinalityType DEF Unknowing
  <2>2. QED
    BY <1>5, <1>6, <2>1 DEF OneAccountPerUser, Unknowing
<1>8. CASE CreateFails(r) /\ accounts' = accounts \cup {NewRow(r)}
  <2>1. Unknowing' \subseteq Unknowing \cup {NewRow(r)}
    BY <1>2, <1>4, <1>8 DEF Unknowing, Answered, CreateFails, Registering
  <2>2. IsFiniteSet(Unknowing) /\ Cardinality(Unknowing) \in Nat
    BY UnknowingFinite DEF Unknowing
  <2>3. /\ IsFiniteSet(Unknowing \cup {NewRow(r)})
        /\ Cardinality(Unknowing \cup {NewRow(r)}) \in {Cardinality(Unknowing), Cardinality(Unknowing) + 1}
    BY <2>2, FS_AddElement
  <2>4. Cardinality(Unknowing') <= Cardinality(Unknowing \cup {NewRow(r)}) /\ Cardinality(Unknowing') \in Nat
    BY <2>1, <2>3, FS_Subset, FS_CardinalityType
  <2>5. faults' = faults + 1
    BY <1>8 DEF CreateFails, Fault
  <2>6. Cardinality(Unknowing') <= faults'
    BY <1>6, <2>2, <2>3, <2>4, <2>5
  <2>7. QED
    BY <1>5, <2>6 DEF OneAccountPerUser, Unknowing
<1>9. CASE ~(CreateFails(r) /\ accounts' = accounts \cup {NewRow(r)})
  <2>1. accounts' = accounts \/ (accounts' = accounts \cup {NewRow(r)} /\ code = 201)
    <3>1. CASE CreateAccount(r)
      <4>1. accounts' = accounts \/ (Goes(r, "decided", 201) /\ accounts' = accounts \cup {NewRow(r)})
        BY <3>1 DEF CreateAccount
      <4>2. 201 \in Code /\ "decided" \in Place
        BY DEF Code, Place
      <4>3. Goes(r, "decided", 201) => call'[r].code = 201
        BY <4>2, GoesChanges DEF AccountsInv
      <4>4. QED
        BY <1>2, <4>1, <4>3
    <3>2. CASE CreateFails(r)
      BY <1>9, <3>2 DEF CreateFails
    <3>3. CASE ~CreateAccount(r) /\ ~CreateFails(r)
      BY <3>3 DEF HandlerStep, Receive, Authenticate, AuthenticateFails, Publish, Reply
    <3>4. QED
      BY <3>1, <3>2, <3>3
  <2>2. \A a \in accounts : a.by = r => code = 201 /\ call[r].code = 201
    BY <1>1, <1>4 DEF Outcome, Registering, LoggingIn
  <2>3. Unknowing' \subseteq Unknowing
    BY <1>2, <1>3, <1>4, <2>1, <2>2 DEF Unknowing, Answered
  <2>4. QED
    BY <1>7, <2>3
<1>10. QED
  BY <1>8, <1>9

\* No username has two accounts, and nobody is told of a failure while the account is
\* there but by a fault.
THEOREM OneAccountEach == Spec => []OneAccountPerUser
<1>1. Init => OneAccountPerUser
  BY FS_EmptySet DEF Init, EmptyTopic, Publisher, OneAccountPerUser
<1>2. ASSUME AccountsInv, OneAccountPerUser, [Next]_vars PROVE OneAccountPerUser'
  <2>1. ASSUME NEW r \in Request, HandlerStep(r) PROVE OneAccountPerUser'
    BY <1>2, <2>1, OneAccountStep
  <2>2. ASSUME NEW r \in Request, WriteActivity(r) \/ CreateEvent(r) PROVE OneAccountPerUser'
    <3>1. UNCHANGED <<accounts, call>>
      BY <2>2 DEF WriteActivity, CreateEvent
    <3>2. faults \in Nat /\ faults' \in Nat /\ faults' >= faults
      <4>1. Fault \/ UNCHANGED faults
        BY <2>2 DEF WriteActivity, CreateEvent
      <4>2. QED
        BY <1>2, <4>1, FaultType, AccountsAssumption DEF AccountsInv, TypeOK
    <3>3. Cardinality(Unknowing) \in Nat
      BY <1>2, UnknowingFinite DEF Unknowing
    <3>4. QED
      BY <1>2, <3>1, <3>2, <3>3 DEF OneAccountPerUser, Unknowing, Answered
  <2>3. CASE Crash
    <3>1. UNCHANGED accounts /\ \A a \in accounts : a.by \in Request
      BY <1>2, <2>3 DEF Crash, AccountsInv, TypeOK, Row
    <3>2. Unknowing' \subseteq Unknowing
      BY <1>2, <2>3, <3>1, CrashChanges DEF Unknowing, Answered, InFlight, AccountsInv
    <3>3. Cardinality(Unknowing') <= Cardinality(Unknowing) /\ Cardinality(Unknowing) \in Nat
          /\ Cardinality(Unknowing') \in Nat
      BY <1>2, <3>2, UnknowingFinite, FS_Subset, FS_CardinalityType DEF Unknowing
    <3>4. faults \in Nat /\ faults' = faults + 1
      BY <1>2, <2>3, AccountsAssumption DEF AccountsInv, TypeOK, Crash, Fault
    <3>5. QED
      BY <1>2, <3>1, <3>3, <3>4 DEF OneAccountPerUser, Unknowing
  <2>4. CASE UNCHANGED vars
    BY <1>2, <2>4 DEF OneAccountPerUser, Answered, vars
  <2>5. QED
    BY <1>2, <2>1, <2>2, <2>3, <2>4 DEF Next, HandlerStep
<1>3. AccountsInv /\ PublishingKnown /\ [Next]_vars => AccountsInv' /\ PublishingKnown'
  BY AccountsStep
<1>4. AccountsInv /\ OneAccountPerUser /\ [Next]_vars => OneAccountPerUser'
  BY <1>2
<1>5. QED
  BY <1>1, <1>3, <1>4, AccountsInit, PTL DEF Spec

-----------------------------------------------------------------------------
\* Who registered can log in.

\* A request looks back on answers, and those do not change.
LooksBack == \A r \in Request : \A q \in before[r] : Answered(q)

LoginInv == LooksBack /\ RegisteredCanLogin

\* A step of a handler.
LEMMA LoginStep ==
    ASSUME AccountsInv, LoginInv, NEW s \in Request, HandlerStep(s)
    PROVE  LoginInv'
<1>1. PICK place \in Place, code \in Code : Goes(s, place, code) /\ Outcome(s, place, code)
  BY HandlerSteps DEF AccountsInv, RequestSteps
<1>2. /\ call'[s].at = place /\ call'[s].code = code
      /\ call'[s].op = call[s].op /\ call'[s].user = call[s].user /\ call'[s].password = call[s].password
      /\ \A q \in Request : q # s => call'[q] = call[q]
  BY <1>1, GoesChanges DEF AccountsInv
<1>3. ~Answered(s)
  BY <1>1 DEF Outcome, Answered, Registering, LoggingIn
<1>4. \A q \in Request : Answered(q) => call'[q] = call[q] /\ Answered(q)'
  BY <1>2, <1>3 DEF Answered
<1>5. before' = before \/ (before' = [before EXCEPT ![s] = {q \in Request : Answered(q)}] /\ code # 401)
  <2>1. CASE Receive(s)
    <3>1. before' = [before EXCEPT ![s] = {q \in Request : Answered(q)}] /\ call[s].at = "none"
      BY <2>1 DEF Receive
    <3>2. code # 401
      BY <1>1, <3>1 DEF Outcome, Registering, LoggingIn
    <3>3. QED
      BY <3>1, <3>2
  <2>2. CASE ~Receive(s)
    BY <2>2 DEF HandlerStep, CreateAccount, CreateFails, Authenticate, AuthenticateFails, Publish, Reply
  <2>3. QED
    BY <2>1, <2>2
<1>6. before \in [Request -> SUBSET Request]
  BY DEF AccountsInv, TypeOK
<1>7. \A r \in Request : \A q \in before'[r] : q \in Request /\ Answered(q)
  BY <1>5, <1>6 DEF LoginInv, LooksBack
<1>8. LooksBack'
  BY <1>4, <1>7 DEF LooksBack
<1>9. ASSUME NEW q \in Request, NEW r \in Request, q \in before'[r], call'[q].code = 201, call'[r].op = "login",
             call'[r].user = call'[q].user, call'[r].password = call'[q].password
      PROVE  call'[r].code # 401
  <2>1. call'[q] = call[q]
    BY <1>4, <1>7, <1>9
  <2>2. CASE r # s
    <3>1. q \in before[r] /\ call'[r] = call[r]
      BY <1>2, <1>5, <1>6, <1>9, <2>2
    <3>2. QED
      BY <1>9, <2>1, <3>1 DEF LoginInv, RegisteredCanLogin
  <2>3. CASE r = s /\ Authenticate(s)
    <3>1. NewRow(q) \in accounts
      BY <1>9, <2>1 DEF AccountsInv, RowsKnown
    <3>2. \E row \in accounts : row.user = call[s].user /\ row.password = call[s].password
      BY <1>2, <1>9, <2>1, <2>3, <3>1 DEF NewRow
    <3>3. Goes(s, "decided", 200)
      BY <2>3, <3>2 DEF Authenticate
    <3>4. call'[s].code = 200
      BY <3>3 DEF Goes, AccountsInv, TypeOK, Call
    <3>5. QED
      BY <2>3, <3>4
  <2>4. CASE r = s /\ ~Authenticate(s)
    <3>1. code # 401 \/ (code = call[s].code /\ UNCHANGED before)
      BY <1>2, <2>4 DEF HandlerStep, Receive, CreateAccount, CreateFails, AuthenticateFails, Publish, Reply, Goes,
         AccountsInv, TypeOK, Call
    <3>2. CASE code = call[s].code /\ UNCHANGED before
      BY <1>2, <1>9, <2>1, <2>4, <3>2 DEF LoginInv, RegisteredCanLogin
    <3>3. QED
      BY <1>2, <2>4, <3>1, <3>2
  <2>5. QED
    BY <2>2, <2>3, <2>4
<1>10. RegisteredCanLogin'
  BY <1>9 DEF RegisteredCanLogin
<1>11. QED
  BY <1>8, <1>10 DEF LoginInv

\* After an account was announced to its client, a login with its name and password is
\* never refused.
THEOREM LoginAfterRegister == Spec => []RegisteredCanLogin
<1>1. Init => LoginInv
  BY DEF Init, EmptyTopic, Publisher, LoginInv, LooksBack, RegisteredCanLogin
<1>2. ASSUME AccountsInv, LoginInv, [Next]_vars PROVE LoginInv'
  <2>1. ASSUME NEW r \in Request, HandlerStep(r) PROVE LoginInv'
    BY <1>2, <2>1, LoginStep
  <2>2. ASSUME NEW r \in Request, WriteActivity(r) \/ CreateEvent(r) PROVE LoginInv'
    <3>1. UNCHANGED <<call, before>>
      BY <2>2 DEF WriteActivity, CreateEvent
    <3>2. QED
      BY <1>2, <3>1 DEF LoginInv, LooksBack, RegisteredCanLogin, Answered
  <2>3. CASE Crash
    <3>1. UNCHANGED before /\ before \in [Request -> SUBSET Request]
      BY <1>2, <2>3 DEF Crash, AccountsInv, TypeOK
    <3>2. \A r \in Request : /\ Answered(r) => call'[r] = call[r]
                             /\ call'[r].code = call[r].code /\ call'[r].op = call[r].op
                             /\ NewRow(r)' = NewRow(r)
      BY <1>2, <2>3, CrashChanges DEF AccountsInv, InFlight, Answered
    <3>3. \A r \in Request : call'[r].user = call[r].user /\ call'[r].password = call[r].password
      <4>1. \A r \in Request : NewRow(r).user = call[r].user /\ NewRow(r).password = call[r].password
        BY DEF NewRow
      <4>2. \A r \in Request : NewRow(r)'.user = call'[r].user /\ NewRow(r)'.password = call'[r].password
        BY DEF NewRow
      <4>3. QED
        BY <3>2, <4>1, <4>2
    <3>4. LooksBack'
      BY <1>2, <3>1, <3>2 DEF LoginInv, LooksBack, Answered
    <3>5. RegisteredCanLogin'
      BY <1>2, <3>1, <3>2, <3>3 DEF LoginInv, RegisteredCanLogin
    <3>6. QED
      BY <3>4, <3>5 DEF LoginInv
  <2>4. CASE UNCHANGED vars
    BY <1>2, <2>4 DEF LoginInv, LooksBack, RegisteredCanLogin, Answered, vars
  <2>5. QED
    BY <1>2, <2>1, <2>2, <2>3, <2>4 DEF Next, HandlerStep
<1>3. AccountsInv /\ PublishingKnown /\ [Next]_vars => AccountsInv' /\ PublishingKnown'
  BY AccountsStep
<1>4. AccountsInv /\ LoginInv /\ [Next]_vars => LoginInv'
  BY <1>2
<1>5. QED
  BY <1>1, <1>3, <1>4, AccountsInit, PTL DEF Spec, LoginInv

-----------------------------------------------------------------------------
\* The events service is told what happened.

Announced(r) == call[r].code \in {200, 201, 401} /\ call[r].at \in {"published", "answered", "cut"}

InLog(r) == \E p \in Partition : \E k \in DOMAIN log[p] : log[p][k] = r
InEvents(r) == \E k \in DOMAIN created : created[k] = r

\* What was told is announced, is in the partition of its type, and is not about to be
\* told again.
ToldIsSettled ==
    /\ \A r \in Request : InLog(r) \/ InEvents(r) => Announced(r) /\ r \notin publishing
    /\ \A p \in Partition : \A k \in DOMAIN log[p] : KeyPartition[Activity(log[p][k])] = p

\* What is announced was told, is about to be, or is lost.
ToldOrLost ==
    \A r \in Request :
        /\ call[r].at \in {"published", "answered"}
        /\ call[r].code \in {200, 201, 401}
        /\ publisher # "noop"
        => InLog(r) \/ InEvents(r) \/ r \in publishing \cup lost

\* No row of CreateEvent comes twice, and without faults no message.
ToldOnce ==
    /\ \A j, k \in DOMAIN created : created[j] = created[k] => j = k
    /\ faults = 0 =>
         /\ lost = {}
         /\ \A p, q \in Partition : \A j \in DOMAIN log[p] : \A k \in DOMAIN log[q] :
              log[p][j] = log[q][k] => p = q /\ j = k

TellInv == ToldIsSettled /\ ToldOrLost /\ ToldOnce

\* A set whose members are all the same has at most one.
LEMMA AtMostOne ==
    ASSUME NEW S, \A x, y \in S : x = y PROVE Cardinality(S) <= 1
<1>1. CASE S = {}
  BY <1>1, FS_EmptySet
<1>2. CASE S # {}
  <2>1. PICK x \in S : TRUE
    BY <1>2
  <2>2. S = {x}
    BY <2>1
  <2>3. QED
    BY <2>2, FS_Singleton
<1>3. QED
  BY <1>1, <1>2

\* The invariant says what the property says.
LEMMA TellImplies == ASSUME AccountsInv, TellInv PROVE ActivityTellsAnswers
<1>1. log \in [Partition -> Seq(Request)] /\ created \in Seq(Request)
  BY DEF AccountsInv, TypeOK
<1>2. \A p \in Partition : \A k \in DOMAIN log[p] : log[p][k] \in Request
  BY <1>1
<1>3. \A p \in Partition : \A k \in DOMAIN log[p] :
        call[log[p][k]].code \in {200, 201, 401} /\ KeyPartition[Activity(log[p][k])] = p
  BY <1>2 DEF TellInv, ToldIsSettled, InLog, Announced
<1>4. ASSUME NEW r \in Request
      PROVE  /\ Places(r) # {} <=> InLog(r)
             /\ Created(r) # {} <=> InEvents(r)
  <2>1. ASSUME InLog(r) PROVE Places(r) # {}
    <3>1. PICK p \in Partition : \E k \in DOMAIN log[p] : log[p][k] = r
      BY <2>1 DEF InLog
    <3>2. PICK k \in DOMAIN log[p] : log[p][k] = r
      BY <3>1
    <3>3. <<p, k>> \in Places(r)
      BY <3>2 DEF Places
    <3>4. QED
      BY <3>3
  <2>2. ASSUME NEW x \in Places(r) PROVE InLog(r)
    <3>1. PICK p \in Partition : \E k \in DOMAIN log[p] : x = <<p, k>> /\ log[p][k] = r
      BY DEF Places
    <3>2. QED
      BY <3>1 DEF InLog
  <2>3. Created(r) # {} <=> InEvents(r)
    BY DEF Created, InEvents
  <2>4. QED
    BY <2>1, <2>2, <2>3
<1>5. ASSUME NEW r \in Request
      PROVE  /\ call[r].at = "published" \/ Created(r) # {} => call[r].code \in {200, 201, 401}
             /\ Answered(r) /\ call[r].code \in {200, 201, 401} /\ publisher # "noop" =>
                  Places(r) # {} \/ Created(r) # {} \/ r \in publishing \cup lost
  BY <1>4 DEF TellInv, ToldIsSettled, ToldOrLost, Announced, Answered, AccountsInv, RowsKnown
<1>6. ASSUME NEW r \in Request PROVE Cardinality(Created(r)) <= 1
  <2>1. \A j, k \in Created(r) : j = k
    BY DEF TellInv, ToldOnce, Created
  <2>2. QED
    BY <2>1, AtMostOne
<1>7. ASSUME NEW r \in Request, faults = 0 PROVE Cardinality(Places(r)) <= 1
  <2>1. ASSUME NEW x \in Places(r), NEW y \in Places(r) PROVE x = y
    <3>1. PICK p \in Partition : \E k \in DOMAIN log[p] : x = <<p, k>> /\ log[p][k] = r
      BY DEF Places
    <3>2. PICK k \in DOMAIN log[p] : x = <<p, k>> /\ log[p][k] = r
      BY <3>1
    <3>3. PICK q \in Partition : \E j \in DOMAIN log[q] : y = <<q, j>> /\ log[q][j] = r
      BY DEF Places
    <3>4. PICK j \in DOMAIN log[q] : y = <<q, j>> /\ log[q][j] = r
      BY <3>3
    <3>5. p = q /\ k = j
      BY <1>7, <3>2, <3>4 DEF TellInv, ToldOnce
    <3>6. QED
      BY <3>2, <3>4, <3>5
  <2>2. QED
    BY <2>1, AtMostOne
<1>8. faults = 0 => lost = {}
  BY DEF TellInv, ToldOnce
<1>9. QED
  BY <1>3, <1>5, <1>6, <1>7, <1>8 DEF ActivityTellsAnswers

\* A step of a handler tells nothing; Publish makes sure that it will be told.
LEMMA TellHandlerStep ==
    ASSUME AccountsInv, PublishingKnown, TellInv, NEW s \in Request, HandlerStep(s)
    PROVE  TellInv'
<1>1. PICK place \in Place, code \in Code : Goes(s, place, code) /\ Outcome(s, place, code)
  BY HandlerSteps DEF AccountsInv, RequestSteps
<1>2. /\ call'[s].at = place /\ call'[s].code = code
      /\ \A q \in Request : q # s => call'[q] = call[q]
  BY <1>1, GoesChanges DEF AccountsInv
<1>3. UNCHANGED <<publisher, log, created, lost>>
  BY HandlerTypes DEF AccountsInv
<1>4. \A r \in Request : Announced(r) => Announced(r)' /\ call'[r].code = call[r].code
  BY <1>1, <1>2 DEF Outcome, Announced, Registering, LoggingIn
<1>5. \A r \in Request : Announced(r) => (r \in publishing' <=> r \in publishing)
  BY DEF HandlerStep, Receive, CreateAccount, CreateFails, Authenticate, AuthenticateFails, Publish, Reply,
     tellingVars, Announced
<1>6. \A r \in Request : (InLog(r)' <=> InLog(r)) /\ (InEvents(r)' <=> InEvents(r))
  BY <1>3 DEF InLog, InEvents
<1>7. ToldIsSettled'
  <2>1. \A r \in Request : InLog(r)' \/ InEvents(r)' => Announced(r)' /\ r \notin publishing'
    BY <1>4, <1>5, <1>6 DEF TellInv, ToldIsSettled
  <2>2. ASSUME NEW p \in Partition, NEW k \in DOMAIN log[p] PROVE KeyPartition[Activity(log[p][k])'] = p
    <3>1. log[p][k] \in Request
      BY DEF AccountsInv, TypeOK
    <3>2. call'[log[p][k]].code = call[log[p][k]].code
      BY <1>4, <3>1 DEF TellInv, ToldIsSettled, InLog
    <3>3. Activity(log[p][k])' = Activity(log[p][k])
      BY <1>3, <3>2 DEF Activity
    <3>4. QED
      BY <3>3 DEF TellInv, ToldIsSettled
  <2>3. QED
    BY <1>3, <2>1, <2>2 DEF ToldIsSettled
<1>8. ToldOrLost'
  <2>1. ASSUME NEW r \in Request, call'[r].at \in {"published", "answered"}, call'[r].code \in {200, 201, 401},
               publisher # "noop"
        PROVE  InLog(r) \/ InEvents(r) \/ r \in publishing' \cup lost
    <3>1. CASE r = s /\ Publish(s)
      BY <2>1, <3>1 DEF Publish
    <3>2. CASE r = s /\ ~Publish(s)
      <4>1. call[s].at = "published" /\ code = call[s].code /\ UNCHANGED publishing
        BY <1>1, <1>2, <2>1, <3>2 DEF HandlerStep, Receive, CreateAccount, CreateFails, Authenticate,
           AuthenticateFails, Reply, Outcome, tellingVars, Registering, LoggingIn
      <4>2. QED
        BY <1>2, <2>1, <3>2, <4>1 DEF TellInv, ToldOrLost
    <3>3. CASE r # s
      <4>1. call'[r] = call[r] /\ (r \in publishing => r \in publishing')
        BY <1>2, <1>5, <3>3 DEF PublishingKnown, Announced
      <4>2. QED
        BY <2>1, <4>1 DEF TellInv, ToldOrLost
    <3>4. QED
      BY <3>1, <3>2, <3>3
  <2>2. QED
    BY <1>3, <1>6, <2>1 DEF ToldOrLost
<1>9. ToldOnce'
  <2>1. faults' = 0 => faults = 0
    <3>1. Fault \/ UNCHANGED faults
      BY DEF HandlerStep, Receive, CreateAccount, CreateFails, Authenticate, AuthenticateFails, Publish, Reply
    <3>2. QED
      BY <3>1, AccountsAssumption DEF AccountsInv, TypeOK, Fault
  <2>2. QED
    BY <1>3, <2>1 DEF TellInv, ToldOnce
<1>10. QED
  BY <1>7, <1>8, <1>9 DEF TellInv

\* The goroutine of KafkaPublisher.
LEMMA TellWriteStep ==
    ASSUME AccountsInv, PublishingKnown, TellInv, NEW s \in Request, WriteActivity(s)
    PROVE  TellInv'
<1> DEFINE a == KeyPartition[Activity(s)]
<1>1. PICK n \in 0 .. MaxCopies :
        /\ IF n = 1 THEN UNCHANGED faults ELSE Fault
        /\ log' = [log EXCEPT ![a] = @ \o [k \in 1 .. n |-> s]]
        /\ lost' = IF n = 0 THEN lost \cup {s} ELSE lost
  BY DEF WriteActivity
<1>2. /\ UNCHANGED <<accounts, call, publisher, created, published, before>>
      /\ publishing' = publishing \ {s} /\ s \in publishing
  BY DEF WriteActivity
<1>3. Announced(s) /\ a \in Partition /\ n \in Nat
  BY <1>2, ActivityPlace, AccountsAssumption DEF PublishingKnown, Announced
<1>4. log \in [Partition -> Seq(Request)]
  BY DEF AccountsInv, TypeOK
<1>5. /\ \A p \in Partition : p # a => log'[p] = log[p]
      /\ log'[a] = log[a] \o [k \in 1 .. n |-> s]
  BY <1>1, <1>3, <1>4
<1>6. /\ Len(log[a]) \in Nat /\ DOMAIN log[a] = 1 .. Len(log[a]) /\ DOMAIN log'[a] = 1 .. Len(log[a]) + n
      /\ \A j \in 1 .. Len(log[a]) + n : log'[a][j] = IF j <= Len(log[a]) THEN log[a][j] ELSE s
  <2>1. log[a] \in Seq(Request)
    BY <1>3, <1>4
  <2>2. log'[a] \in Seq(Request) /\ Len(log'[a]) = Len(log[a]) + n
        /\ \A j \in 1 .. Len(log[a]) + n : log'[a][j] = IF j <= Len(log[a]) THEN log[a][j] ELSE s
    BY <1>3, <1>5, <2>1, CopiesType
  <2>3. QED
    BY <2>1, <2>2
<1>7. \A p \in Partition : \A j \in DOMAIN log[p] : j \in DOMAIN log'[p] /\ log'[p][j] = log[p][j] /\ log[p][j] # s
  <2>1. \A p \in Partition : \A j \in DOMAIN log[p] : log[p][j] # s
    BY <1>2 DEF TellInv, ToldIsSettled, InLog
  <2>2. \A j \in DOMAIN log[a] : j \in DOMAIN log'[a] /\ log'[a][j] = log[a][j]
    BY <1>3, <1>6
  <2>3. QED
    BY <1>5, <2>1, <2>2
<1>8. \A p \in Partition : \A j \in DOMAIN log'[p] :
        \/ j \in DOMAIN log[p] /\ log'[p][j] = log[p][j]
        \/ p = a /\ log'[p][j] = s /\ j > Len(log[a]) /\ j <= Len(log[a]) + n /\ n > 0
  <2>1. \A j \in DOMAIN log'[a] :
          \/ j \in DOMAIN log[a] /\ log'[a][j] = log[a][j]
          \/ log'[a][j] = s /\ j > Len(log[a]) /\ j <= Len(log[a]) + n /\ n > 0
    BY <1>3, <1>6
  <2>2. QED
    BY <1>5, <2>1
<1>9. \A r \in Request : InLog(r)' => InLog(r) \/ r = s
  BY <1>8 DEF InLog
<1>10. \A r \in Request : InLog(r) => InLog(r)'
  BY <1>7 DEF InLog
<1>11. n > 0 => InLog(s)'
  <2>1. n > 0 => Len(log[a]) + n \in DOMAIN log'[a] /\ log'[a][Len(log[a]) + n] = s
    BY <1>3, <1>6
  <2>2. QED
    BY <1>3, <2>1 DEF InLog
<1>12. ToldIsSettled'
  <2>1. \A r \in Request : Announced(r)' <=> Announced(r)
    BY <1>2 DEF Announced
  <2>2. \A r \in Request : InEvents(r)' <=> InEvents(r)
    BY <1>2 DEF InEvents
  <2>3. \A r \in Request : InLog(r)' \/ InEvents(r)' => Announced(r)' /\ r \notin publishing'
    BY <1>2, <1>3, <1>9, <2>1, <2>2 DEF TellInv, ToldIsSettled
  <2>4. ASSUME NEW p \in Partition, NEW k \in DOMAIN log'[p] PROVE KeyPartition[Activity(log[p][k])'] = p
    <3>1. Activity(log[p][k])' = Activity(log'[p][k])
      BY <1>2 DEF Activity
    <3>2. CASE k \in DOMAIN log[p] /\ log'[p][k] = log[p][k]
      BY <3>1, <3>2 DEF TellInv, ToldIsSettled
    <3>3. CASE p = a /\ log'[p][k] = s
      BY <3>1, <3>3
    <3>4. QED
      BY <1>8, <3>2, <3>3
  <2>5. QED
    BY <2>3, <2>4 DEF ToldIsSettled
<1>13. ToldOrLost'
  <2>1. n = 0 => s \in lost'
    BY <1>1
  <2>2. lost \subseteq lost'
    BY <1>1
  <2>3. \A r \in Request : InEvents(r)' <=> InEvents(r)
    BY <1>2 DEF InEvents
  <2>4. \A r \in Request : InLog(r) \/ InEvents(r) \/ r \in publishing \cup lost =>
                           InLog(r)' \/ InEvents(r)' \/ r \in publishing' \cup lost'
    BY <1>2, <1>3, <1>10, <1>11, <2>1, <2>2, <2>3
  <2>5. QED
    BY <1>2, <2>4 DEF TellInv, ToldOrLost
<1>14. ToldOnce'
  <2>1. ASSUME faults' = 0 PROVE faults = 0 /\ n = 1
    <3>1. faults \in Nat
      BY AccountsAssumption DEF AccountsInv, TypeOK
    <3>2. QED
      BY <1>1, <2>1, <3>1 DEF Fault
  <2>2. ASSUME faults' = 0, NEW p \in Partition, NEW q \in Partition, NEW j \in DOMAIN log'[p],
               NEW k \in DOMAIN log'[q], log'[p][j] = log'[q][k]
        PROVE  p = q /\ j = k
    <3>1. CASE j \in DOMAIN log[p] /\ k \in DOMAIN log[q]
      BY <1>7, <2>1, <2>2, <3>1 DEF TellInv, ToldOnce
    <3>2. CASE j \in DOMAIN log[p] /\ k \notin DOMAIN log[q]
      BY <1>7, <1>8, <2>2, <3>2
    <3>3. CASE j \notin DOMAIN log[p] /\ k \in DOMAIN log[q]
      BY <1>7, <1>8, <2>2, <3>3
    <3>4. CASE j \notin DOMAIN log[p] /\ k \notin DOMAIN log[q]
      <4>1. p = a /\ q = a /\ j > Len(log[a]) /\ j <= Len(log[a]) + 1 /\ k > Len(log[a]) /\ k <= Len(log[a]) + 1
        BY <1>8, <2>1, <2>2, <3>4
      <4>2. j \in Nat /\ k \in Nat
        BY <1>6, <4>1, <1>3
      <4>3. QED
        BY <1>6, <4>1, <4>2
    <3>5. QED
      BY <3>1, <3>2, <3>3, <3>4
  <2>3. faults' = 0 => lost' = {}
    BY <1>1, <2>1 DEF TellInv, ToldOnce
  <2>4. QED
    BY <1>2, <2>2, <2>3 DEF TellInv, ToldOnce
<1>15. QED
  BY <1>12, <1>13, <1>14 DEF TellInv

\* The goroutine of GRPCPublisher.
LEMMA TellCreateStep ==
    ASSUME AccountsInv, PublishingKnown, TellInv, NEW s \in Request, CreateEvent(s)
    PROVE  TellInv'
<1>1. /\ UNCHANGED <<accounts, call, publisher, log, published, before>>
      /\ publishing' = publishing \ {s} /\ s \in publishing
      /\ \/ created' = Append(created, s) /\ UNCHANGED lost
         \/ UNCHANGED created /\ lost' = lost \cup {s} /\ Fault
  BY DEF CreateEvent
<1>2. Announced(s) /\ ~InEvents(s)
  BY <1>1 DEF PublishingKnown, Announced, TellInv, ToldIsSettled
<1>3. created \in Seq(Request)
  BY DEF AccountsInv, TypeOK
<1>4. CASE created' = Append(created, s)
  <2>1. /\ Len(created) \in Nat /\ DOMAIN created = 1 .. Len(created) /\ DOMAIN created' = 1 .. Len(created) + 1
        /\ \A k \in 1 .. Len(created) : created'[k] = created[k]
        /\ created'[Len(created) + 1] = s
    BY <1>3, <1>4, AppendProperties
  <2>2. \A r \in Request : InEvents(r)' <=> InEvents(r) \/ r = s
    BY <2>1 DEF InEvents
  <2>3. \A r \in Request : (InLog(r)' <=> InLog(r)) /\ (Announced(r)' <=> Announced(r))
    BY <1>1 DEF InLog, Announced
  <2>4. \A r \in Request : InLog(r)' \/ InEvents(r)' => Announced(r)' /\ r \notin publishing'
    BY <1>1, <1>2, <2>2, <2>3 DEF TellInv, ToldIsSettled
  <2>5. \A p \in Partition : \A k \in DOMAIN log[p] : Activity(log[p][k])' = Activity(log[p][k])
    BY <1>1 DEF Activity
  <2>6. ToldIsSettled'
    BY <1>1, <2>4, <2>5 DEF TellInv, ToldIsSettled
  <2>7. ToldOrLost'
    BY <1>1, <1>4, <2>2, <2>3 DEF TellInv, ToldOrLost
  <2>8. \A j, k \in DOMAIN created' : created'[j] = created'[k] => j = k
    <3>1. \A k \in 1 .. Len(created) : created[k] # s
      BY <1>2, <2>1 DEF InEvents
    <3>2. QED
      BY <2>1, <3>1 DEF TellInv, ToldOnce
  <2>9. (faults' = 0 => faults = 0) /\ (faults' = 0 => UNCHANGED lost)
    <3>1. faults \in Nat /\ (Fault \/ UNCHANGED <<faults, lost>>)
      BY AccountsAssumption DEF AccountsInv, TypeOK, CreateEvent
    <3>2. QED
      BY <3>1 DEF Fault
  <2>10. ToldOnce'
    BY <1>1, <2>8, <2>9 DEF TellInv, ToldOnce
  <2>11. QED
    BY <2>6, <2>7, <2>10 DEF TellInv
<1>5. CASE UNCHANGED created /\ lost' = lost \cup {s} /\ Fault
  <2>1. \A r \in Request : (InLog(r)' <=> InLog(r)) /\ (InEvents(r)' <=> InEvents(r)) /\ (Announced(r)' <=> Announced(r))
    BY <1>1, <1>5 DEF InLog, InEvents, Announced
  <2>2. \A p \in Partition : \A k \in DOMAIN log[p] : Activity(log[p][k])' = Activity(log[p][k])
    BY <1>1 DEF Activity
  <2>3. ToldIsSettled'
    BY <1>1, <2>1, <2>2 DEF TellInv, ToldIsSettled
  <2>4. ToldOrLost'
    BY <1>1, <1>5, <2>1 DEF TellInv, ToldOrLost
  <2>5. faults' # 0
    BY <1>5, AccountsAssumption DEF AccountsInv, TypeOK, Fault
  <2>6. ToldOnce'
    BY <1>5, <2>5 DEF TellInv, ToldOnce
  <2>7. QED
    BY <2>3, <2>4, <2>6 DEF TellInv
<1>6. QED
  BY <1>1, <1>4, <1>5

\* A crash loses what was about to be told, and is a fault.
LEMMA TellCrash == ASSUME AccountsInv, PublishingKnown, TellInv, Crash PROVE TellInv'
<1>1. UNCHANGED <<publisher, log, created>> /\ publishing' = {} /\ lost' = lost \cup publishing
  BY DEF Crash
<1>2. \A r \in Request : (InLog(r)' <=> InLog(r)) /\ (InEvents(r)' <=> InEvents(r))
  BY <1>1 DEF InLog, InEvents
<1>3. \A r \in Request : /\ call'[r].code = call[r].code
                         /\ call'[r].at = IF InFlight(r) THEN "cut" ELSE call[r].at
  BY CrashChanges DEF AccountsInv
<1>4. \A r \in Request : Announced(r) => Announced(r)'
  BY <1>3 DEF Announced, InFlight
<1>5. ASSUME NEW p \in Partition, NEW k \in DOMAIN log[p] PROVE Activity(log[p][k])' = Activity(log[p][k])
  <2>1. log[p][k] \in Request
    BY DEF AccountsInv, TypeOK
  <2>2. QED
    BY <1>1, <1>3, <2>1 DEF Activity
<1>6. ToldIsSettled'
  BY <1>1, <1>2, <1>4, <1>5 DEF TellInv, ToldIsSettled
<1>7. ToldOrLost'
  BY <1>1, <1>2, <1>3 DEF TellInv, ToldOrLost, InFlight
<1>8. faults' # 0
  BY AccountsAssumption DEF AccountsInv, TypeOK, Fault, Crash
<1>9. ToldOnce'
  BY <1>1, <1>8 DEF TellInv, ToldOnce
<1>10. QED
  BY <1>6, <1>7, <1>9 DEF TellInv

\* The events service is told what happened, where its type goes, and nothing else.
THEOREM ActivityTells == Spec => []ActivityTellsAnswers
<1>1. Init => TellInv
  BY DEF Init, EmptyTopic, Publisher, TellInv, ToldIsSettled, ToldOrLost, ToldOnce, InLog, InEvents
<1>2. ASSUME AccountsInv, PublishingKnown, TellInv, [Next]_vars PROVE TellInv'
  <2>1. ASSUME NEW r \in Request, HandlerStep(r) PROVE TellInv'
    BY <1>2, <2>1, TellHandlerStep
  <2>2. ASSUME NEW r \in Request, WriteActivity(r) PROVE TellInv'
    BY <1>2, <2>2, TellWriteStep
  <2>3. ASSUME NEW r \in Request, CreateEvent(r) PROVE TellInv'
    BY <1>2, <2>3, TellCreateStep
  <2>4. CASE Crash
    BY <1>2, <2>4, TellCrash
  <2>5. CASE UNCHANGED vars
    <3>1. UNCHANGED <<call, publisher, publishing, log, created, faults, lost>>
      BY <2>5 DEF vars, tellingVars
    <3>2. \A r : /\ InLog(r)' <=> InLog(r)
                 /\ InEvents(r)' <=> InEvents(r)
                 /\ Announced(r)' <=> Announced(r)
      BY <3>1 DEF InLog, InEvents, Announced
    <3>3. \A p \in Partition : \A k \in DOMAIN log[p] : Activity(log[p][k])' = Activity(log[p][k])
      BY <3>1 DEF Activity
    <3>4. ToldIsSettled' /\ ToldOrLost' /\ ToldOnce'
      BY <1>2, <3>1, <3>2, <3>3 DEF TellInv, ToldIsSettled, ToldOrLost, ToldOnce
    <3>5. QED
      BY <3>4 DEF TellInv
  <2>6. QED
    BY <1>2, <2>1, <2>2, <2>3, <2>4, <2>5 DEF Next, HandlerStep
<1>3. AccountsInv /\ PublishingKnown /\ [Next]_vars => AccountsInv' /\ PublishingKnown'
  BY AccountsStep
<1>4. AccountsInv /\ PublishingKnown /\ TellInv /\ [Next]_vars => TellInv'
  BY <1>2
<1>5. AccountsInv /\ TellInv => ActivityTellsAnswers
  BY TellImplies
<1>6. QED
  BY <1>1, <1>3, <1>4, <1>5, AccountsInit, PTL DEF Spec

=============================================================================
