-------------------------- MODULE Dashboard_proofs --------------------------
(***************************************************************************)
(* Proofs about the dashboard, for any number of events, toasts, failed    *)
(* polls and runs of the effect.  The inductive invariant says what an     *)
(* answer on its way and the list shown have in common: each is what the   *)
(* table showed at some moment, the answer of the current run the later    *)
(* one (Polls), and a row that came to be seen below the highest id of     *)
(* either is a late one (NothingHidden).  What was alerted is at or below  *)
(* the highest id seen (Alerted), so an arrival is above everything that   *)
(* was alerted or was in the first list.                                   *)
(***************************************************************************)
EXTENDS Dashboard, FiniteSetTheorems, WellFoundedInduction, TLAPS

\* What the runs ask, and what they were answered.
Polls ==
    /\ answer \in [Run -> (SUBSET Id) \cup {NoList}]
    /\ \A r \in Run : r > run => poll[r] = "off"
    /\ events \subseteq visible
    /\ answer[run] # NoList => events \subseteq answer[run]

\* The first list, and the highest id of the last.
Seen ==
    IF first = NoList
      THEN lastMaxId = Null /\ events = {}
      ELSE lastMaxId = Newest(events) /\ first \subseteq events

\* What was alerted was seen, and was not in the first list.
Alerted ==
    \A i \in Id :
        \/ alerted[i] = 0
        \/ alerted[i] = 1 /\ first # NoList /\ i \notin first /\ i <= lastMaxId

\* A row that S lacks and that is below the highest id of S is a late one.
LateOf(S) == \A i \in visible \ S : i < Newest(S) => i \in late

NothingHidden ==
    /\ LateOf(events)
    /\ \A r \in Run : answer[r] # NoList => LateOf(answer[r])

\* The inductive invariant.
DashboardInv == TypeOK /\ Polls /\ Seen /\ Alerted /\ NothingHidden /\ NoAlertSwallowed

-----------------------------------------------------------------------------

\* A set of numbers has a least one.
LEMMA LeastNumber ==
    ASSUME NEW T \in SUBSET Nat, T # {}
    PROVE  \E m \in T : \A k \in T : m <= k
<1>1. PICK m \in T : \A k \in T : ~ (<<k, m>> \in OpToRel(<, Nat))
  BY NatLessThanWellFounded, WFMin
<1>2. \A k \in T : ~ (k < m)
  BY <1>1 DEF OpToRel
<1>3. QED
  BY <1>2

\* A set of ids has a highest one.
LEMMA HighestId ==
    ASSUME NEW S \in SUBSET Id, S # {}
    PROVE  \E m \in S : \A k \in S : k <= m
<1> DEFINE T == {MaxEvents - i : i \in S}
<1>1. T \in SUBSET Nat /\ T # {}
  <2>1. \A i \in S : MaxEvents - i \in Nat
    BY DashboardAssumption DEF Id
  <2>2. QED
    BY <2>1
<1>2. \A k \in S : MaxEvents - k \in T
  OBVIOUS
<1>3. PICK m \in T : \A k \in T : m <= k
  <2> HIDE DEF T
  <2>1. QED
    BY <1>1, LeastNumber
<1>4. PICK i \in S : m = MaxEvents - i
  OBVIOUS
<1>5. ASSUME NEW k \in S PROVE k <= i
  <2>1. m <= MaxEvents - k
    BY <1>2, <1>3
  <2>2. i \in Nat /\ k \in Nat /\ MaxEvents \in Nat
    BY DashboardAssumption DEF Id
  <2>3. QED
    BY <1>4, <2>1, <2>2
<1>6. QED
  BY <1>5

\* Newest is the highest id, and 0 when there is none.
LEMMA NewestIsHighest ==
    ASSUME NEW S \in SUBSET Id
    PROVE  /\ Newest(S) \in Id \cup {0}
           /\ S # {} => Newest(S) \in S
           /\ \A i \in S : i <= Newest(S)
           /\ S = {} => Newest(S) = 0
<1>1. CASE S = {}
  BY <1>1 DEF Newest
<1>2. CASE S # {}
  <2>1. \E m \in S : \A k \in S : k <= m
    BY <1>2, HighestId
  <2>2. Newest(S) \in S /\ \A k \in S : k <= Newest(S)
    BY <1>2, <2>1 DEF Newest
  <2>3. QED
    BY <1>2, <2>2
<1>3. QED
  BY <1>1, <1>2

\* More ids, no lower highest one.
LEMMA NewestGrows ==
    ASSUME NEW S \in SUBSET Id, NEW T \in SUBSET Id, S \subseteq T
    PROVE  Newest(S) <= Newest(T)
<1>1. Newest(S) \in Id \cup {0} /\ Newest(T) \in Id \cup {0} /\ (S = {} => Newest(S) = 0)
      /\ (S # {} => Newest(S) \in S) /\ \A i \in T : i <= Newest(T)
  BY NewestIsHighest
<1>2. Newest(T) >= 0
  BY <1>1 DEF Id
<1>3. CASE S = {}
  BY <1>1, <1>2, <1>3
<1>4. CASE S # {}
  BY <1>1, <1>4
<1>5. QED
  BY <1>3, <1>4

\* An order of the alerts has each of them, and nothing else.
LEMMA AlertsAreAll ==
    ASSUME NEW S \in SUBSET Id, NEW all \in Alerts(S)
    PROVE  /\ all \in Seq(S \cap Grave)
           /\ Len(all) \in Nat
           /\ DOMAIN all = 1 .. Len(all)
           /\ \A i \in S \cap Grave : \E k \in 1 .. Len(all) : all[k] = i
<1> DEFINE A == S \cap Grave
           n == Cardinality(A)
<1>1. IsFiniteSet(A)
  <2>1. IsFiniteSet(1 .. MaxEvents)
    BY DashboardAssumption, FS_Interval
  <2>2. A \subseteq 1 .. MaxEvents
    BY DEF Id
  <2>3. QED
    BY <2>1, <2>2, FS_Subset
<1>2. n \in Nat
  BY <1>1, FS_CardinalityType
<1>3. all \in [1 .. n -> A] /\ \A i, j \in 1 .. n : i # j => all[i] # all[j]
  BY DEF Alerts, SetToSeqs
<1>4. all \in Injection(1 .. n, A)
  BY <1>3 DEF Injection, IsInjective
<1>5. Cardinality(1 .. n) = n
  BY <1>2, FS_Interval
<1>6. all \in Surjection(1 .. n, A)
  BY <1>1, <1>4, <1>5, FS_Injection
<1>7. \A i \in A : \E k \in 1 .. n : all[k] = i
  BY <1>6 DEF Surjection
<1>8. all \in Seq(A) /\ Len(all) = n /\ DOMAIN all = 1 .. n
  <2> HIDE DEF n, A
  <2>1. QED
    BY <1>2, <1>3
<1>9. QED
  BY <1>2, <1>7, <1>8

-----------------------------------------------------------------------------

LEMMA DashboardInit == Init => DashboardInv
<1> SUFFICES ASSUME Init PROVE DashboardInv
  OBVIOUS
<1> USE DashboardAssumption DEF Init
<1>1. TypeOK
  <2>1. hidden \in BOOLEAN /\ live \in BOOLEAN /\ freshTimer \in BOOLEAN
    BY Zenon
  <2>2. toasts \in Seq(Grave) /\ Len(toasts) <= MaxToasts
    OBVIOUS
  <2>3. poll \in [Run -> {"off", "waiting", "asking", "ended"}] /\ alerted \in [Id -> Nat]
    OBVIOUS
  <2>4. \A r \in Run : (poll[r] = "waiting" => r = run) /\ answer[r] = NoList
    OBVIOUS
  <2>5. QED
    BY <2>1, <2>2, <2>3, <2>4 DEF TypeOK
<1>2. Polls
  BY DEF Polls
<1>3. Seen /\ Alerted /\ NothingHidden /\ NoAlertSwallowed
  BY DEF Seen, Alerted, NothingHidden, LateOf, NoAlertSwallowed
<1>4. QED
  BY <1>1, <1>2, <1>3 DEF DashboardInv

\* The table: a row that comes to be seen below an id that was answered is late.
LEMMA TableStep ==
    ASSUME DashboardInv, InsertBegins \/ \E i \in Id : InsertCommits(i)
    PROVE  DashboardInv'
<1> USE DashboardAssumption DEF DashboardInv
<1>1. CASE InsertBegins
  <2>1. begun' \in 0 .. MaxEvents /\ visible' \subseteq 1 .. begun'
    BY <1>1 DEF InsertBegins, TypeOK
  <2>2. UNCHANGED <<visible, late, pollVars, hidden, stateVars>>
    BY <1>1 DEF InsertBegins
  <2>3. TypeOK'
    BY <2>1, <2>2 DEF TypeOK, pollVars, stateVars
  <2>4. Polls' /\ Seen' /\ Alerted' /\ NothingHidden' /\ NoAlertSwallowed'
    BY <2>2 DEF Polls, Seen, Alerted, NothingHidden, LateOf, NoAlertSwallowed, pollVars, stateVars
  <2>5. QED
    BY <2>3, <2>4
<1>2. ASSUME NEW i \in Id, InsertCommits(i) PROVE DashboardInv'
  <2>1. /\ i \in 1 .. begun /\ visible' = visible \cup {i}
        /\ late' = IF i < Newest(visible) THEN late \cup {i} ELSE late
        /\ UNCHANGED <<begun, pollVars, hidden, stateVars>>
    BY <1>2 DEF InsertCommits
  <2>2. visible \subseteq Id /\ visible' \subseteq 1 .. begun
    BY <2>1 DEF TypeOK, Id
  <2>3. TypeOK'
    <3>1. late' \subseteq Id
      BY <2>1 DEF TypeOK
    <3>2. \A r \in Run : answer[r] \subseteq visible => answer[r] \subseteq visible'
      BY <2>1
    <3>3. QED
      BY <2>1, <2>2, <3>1, <3>2 DEF TypeOK, pollVars, stateVars
  <2>4. Polls' /\ Seen' /\ Alerted'
    BY <2>1 DEF Polls, Seen, Alerted, pollVars, stateVars
  <2>5. ASSUME NEW S \in SUBSET Id, S \subseteq visible, LateOf(S) PROVE LateOf(S)'
    <3>1. SUFFICES ASSUME NEW j \in visible' \ S, j < Newest(S) PROVE j \in late'
      BY DEF LateOf
    <3>2. CASE j \in visible
      BY <2>1, <2>5, <3>1, <3>2 DEF LateOf
    <3>3. CASE j = i
      <4>1. Newest(S) <= Newest(visible)
        BY <2>2, <2>5, NewestGrows
      <4>2. Newest(S) \in Int /\ Newest(visible) \in Int
        BY <2>2, NewestIsHighest DEF Id
      <4>3. j < Newest(visible)
        <5>1. j \in Int
          BY <2>2, <3>1
        <5>2. QED
          BY <3>1, <4>1, <4>2, <5>1
      <4>4. QED
        BY <2>1, <3>3, <4>3
    <3>4. QED
      BY <2>1, <3>2, <3>3
  <2>6. NothingHidden'
    <3>1. LateOf(events)'
      <4>1. events \in SUBSET Id /\ events \subseteq visible /\ LateOf(events)
        BY DEF TypeOK, Polls, NothingHidden
      <4>2. events' = events
        BY <2>1 DEF stateVars
      <4>3. QED
        BY <2>5, <4>1, <4>2 DEF LateOf
    <3>2. ASSUME NEW r \in Run, answer'[r] # NoList PROVE LateOf(answer[r])'
      <4>1. answer' = answer
        BY <2>1 DEF pollVars
      <4>2. answer[r] \in SUBSET Id /\ answer[r] \subseteq visible /\ LateOf(answer[r])
        BY <3>2, <4>1 DEF TypeOK, Polls, NothingHidden
      <4>3. QED
        BY <2>5, <4>1, <4>2 DEF LateOf
    <3>3. QED
      BY <3>1, <3>2 DEF NothingHidden
  <2>7. NoAlertSwallowed'
    <3>1. late \subseteq late'
      BY <2>1
    <3>2. QED
      BY <2>1, <3>1 DEF NoAlertSwallowed, stateVars
  <2>8. QED
    BY <2>3, <2>4, <2>6, <2>7
<1>3. QED
  BY <1>1, <1>2

\* The steps that take no list: what was alerted, seen and shown stays.
LEMMA ShownStays ==
    ASSUME DashboardInv, UNCHANGED <<tableVars, lastMaxId, events, first, alerted, cut>>
    PROVE  Seen' /\ Alerted' /\ LateOf(events)' /\ NoAlertSwallowed' /\ events' \subseteq visible'
  BY DEF DashboardInv, Polls, Seen, Alerted, NothingHidden, LateOf, NoAlertSwallowed, tableVars

\* The user, and the timers of rows and toasts.
LEMMA ScreenStep ==
    ASSUME DashboardInv, Hides \/ FreshEnds \/ \E k \in 1 .. MaxToasts : DismissToast(k)
    PROVE  DashboardInv'
<1>1. UNCHANGED <<tableVars, pollVars, lastMaxId, events, live, first, alerted, cut>>
  BY DEF Hides, FreshEnds, DismissToast, stateVars
<1>2. Seen' /\ Alerted' /\ NothingHidden' /\ NoAlertSwallowed' /\ Polls'
  BY <1>1, ShownStays DEF DashboardInv, Polls, NothingHidden, LateOf, pollVars, tableVars
<1>3. TypeOK'
  <2> USE DEF DashboardInv, TypeOK
  <2>1. CASE Hides
    BY <1>1, <2>1 DEF Hides, stateVars, pollVars, tableVars
  <2>2. CASE FreshEnds
    BY <1>1, <2>2 DEF FreshEnds, pollVars, tableVars
  <2>3. ASSUME NEW k \in 1 .. MaxToasts, DismissToast(k) PROVE TypeOK'
    <3>1. k \in 1 .. Len(toasts) /\ toasts \in Seq(Grave) /\ toasts' = RemoveAt(toasts, k)
      BY <2>3 DEF DismissToast
    <3> DEFINE before == SubSeq(toasts, 1, k - 1)
               after == SubSeq(toasts, k + 1, Len(toasts))
    <3>2. before \in Seq(Grave) /\ Len(before) = k - 1
      BY <3>1
    <3>3. after \in Seq(Grave) /\ Len(after) = Len(toasts) - k
      BY <3>1
    <3>4. toasts' \in Seq(Grave) /\ Len(toasts') = Len(toasts) - 1
      <4>1. toasts' = before \o after
        BY <3>1 DEF RemoveAt
      <4>2. Len(toasts) \in Nat /\ k \in Nat
        BY <3>1
      <4> HIDE DEF before, after
      <4>3. QED
        BY <3>2, <3>3, <4>1, <4>2
    <3>5. Len(toasts') <= MaxToasts
      BY <3>1, <3>4, DashboardAssumption
    <3>6. QED
      BY <1>1, <2>3, <3>4, <3>5 DEF DismissToast, pollVars, tableVars
  <2>4. QED
    BY <2>1, <2>2, <2>3
<1>4. QED
  BY <1>2, <1>3 DEF DashboardInv

\* A run asks and is answered, fails, or is followed by another.
LEMMA RunStep ==
    ASSUME DashboardInv, NEW r \in Run, Tick(r) \/ ListEvents(r) \/ PollFails(r)
    PROVE  DashboardInv'
<1> USE DashboardAssumption DEF DashboardInv
<1>1. UNCHANGED <<tableVars, run, hidden, lastMaxId, events, freshIds, freshTimer, toasts, first, alerted, cut>>
  BY DEF Tick, ListEvents, PollFails, GoesOn, stateVars
<1>2. Seen' /\ Alerted' /\ LateOf(events)' /\ NoAlertSwallowed' /\ events' \subseteq visible'
  BY <1>1, ShownStays
<1>3. poll \in [Run -> {"off", "waiting", "asking", "ended"}] /\ answer \in [Run -> (SUBSET Id) \cup {NoList}]
      /\ events \subseteq visible /\ visible \subseteq Id /\ run \in Run
  BY DEF TypeOK, Polls, Id
<1>4. CASE Tick(r)
  <2>1. /\ poll[r] = "waiting" /\ poll' = [poll EXCEPT ![r] = "asking"] /\ UNCHANGED <<answer, failures, live>>
    BY <1>4 DEF Tick, stateVars
  <2>2. TypeOK'
    BY <1>1, <1>3, <2>1 DEF TypeOK, tableVars
  <2>3. Polls' /\ NothingHidden'
    BY <1>1, <1>2, <1>3, <2>1 DEF Polls, NothingHidden, LateOf, tableVars, TypeOK
  <2>4. QED
    BY <1>2, <2>2, <2>3
<1>5. CASE ListEvents(r)
  <2>1. poll[r] = "asking" /\ answer' = [answer EXCEPT ![r] = visible] /\ UNCHANGED <<poll, failures, live>>
    BY <1>5 DEF ListEvents, stateVars
  <2>2. TypeOK'
    BY <1>1, <1>3, <2>1 DEF TypeOK, tableVars
  <2>3. Polls'
    BY <1>1, <1>2, <1>3, <2>1 DEF Polls, tableVars
  <2>4. NothingHidden'
    BY <1>1, <1>2, <1>3, <2>1 DEF NothingHidden, LateOf, tableVars
  <2>5. QED
    BY <1>2, <2>2, <2>3, <2>4
<1>6. CASE PollFails(r)
  <2>1. /\ poll[r] = "asking" /\ failures' \in 0 .. MaxFailures
        /\ poll' = [poll EXCEPT ![r] = IF r = run THEN "waiting" ELSE "ended"]
        /\ answer' = [answer EXCEPT ![r] = NoList]
        /\ live' = IF r = run THEN FALSE ELSE live
    BY <1>6 DEF PollFails, GoesOn, TypeOK
  <2>2. live' \in BOOLEAN
    <3>1. live \in BOOLEAN
      BY DEF TypeOK
    <3>2. QED
      BY <2>1, <3>1, Zenon
  <2>3. TypeOK'
    BY <1>1, <1>3, <2>1, <2>2 DEF TypeOK, tableVars
  <2>4. Polls' /\ NothingHidden'
    BY <1>1, <1>2, <1>3, <2>1 DEF Polls, NothingHidden, LateOf, tableVars
  <2>5. QED
    BY <1>2, <2>3, <2>4
<1>7. QED
  BY <1>4, <1>5, <1>6

\* The effect runs again: the new run has not asked yet.
LEMMA RunsAgainStep == ASSUME DashboardInv, RunsAgain PROVE DashboardInv'
<1> USE DashboardAssumption DEF DashboardInv
<1>1. /\ run' = run + 1 /\ run' \in Run /\ run \in Run /\ run \in Nat
      /\ UNCHANGED <<tableVars, answer, failures, hidden, lastMaxId, events, live, freshIds, toasts, first, alerted, cut>>
      /\ freshTimer' = FALSE
  BY DEF RunsAgain, TypeOK
<1>2. Seen' /\ Alerted' /\ LateOf(events)' /\ NoAlertSwallowed' /\ events' \subseteq visible'
  BY <1>1, ShownStays
<1>3. poll[run + 1] = "off" /\ answer[run + 1] = NoList
  BY <1>1 DEF Polls, TypeOK
<1>4. \A r \in Run : poll'[r] = IF r = run + 1 THEN "waiting" ELSE IF poll[r] = "waiting" THEN "ended" ELSE poll[r]
  <2>1. ASSUME NEW r \in Run
        PROVE  poll'[r] = CASE r = run + 1 -> "waiting"
                            [] poll[r] = "waiting" -> "ended"
                            [] OTHER -> poll[r]
    BY DEF RunsAgain
  <2>2. QED
    BY <1>3, <2>1
<1>5. poll' \in [Run -> {"off", "waiting", "asking", "ended"}]
  <2>1. poll' = [r \in Run |-> poll'[r]]
    BY DEF RunsAgain
  <2>2. \A r \in Run : poll'[r] \in {"off", "waiting", "asking", "ended"}
    BY <1>4 DEF TypeOK
  <2>3. QED
    BY <2>1, <2>2
<1>6. TypeOK'
  BY <1>1, <1>3, <1>4, <1>5 DEF TypeOK, tableVars
<1>7. Polls'
  <2>1. \A r \in Run : r > run' => poll'[r] = "off"
    BY <1>1, <1>4 DEF Polls
  <2>2. QED
    BY <1>1, <1>2, <1>3, <2>1 DEF Polls
<1>8. NothingHidden'
  BY <1>1, <1>2 DEF NothingHidden, LateOf, tableVars
<1>9. QED
  BY <1>2, <1>6, <1>7, <1>8

-----------------------------------------------------------------------------

\* The arrivals in a list.
Arrived(list) == {i \in list : lastMaxId # Null /\ i > lastMaxId}

\* What a list does to the toasts: each grave arrival raises one or is cut.
LEMMA ToastsRaised ==
    ASSUME TypeOK, NEW list \in SUBSET Id, TakesList(list)
    PROVE  /\ toasts' \in Seq(Grave) /\ Len(toasts') <= MaxToasts
           /\ alerted' \in [Id -> Nat]
           /\ cut \subseteq cut' /\ cut' \subseteq Grave
           /\ \A i \in Id : alerted'[i] = alerted[i] \/ (i \in Arrived(list) /\ alerted'[i] = alerted[i] + 1)
           /\ \A i \in Arrived(list) \cap Grave : alerted'[i] = alerted[i] + 1 \/ i \in cut'
<1> DEFINE A == Arrived(list) \cap Grave
           Raised(all) == SubSeq(all, 1, IF Len(all) < MaxToasts THEN Len(all) ELSE MaxToasts)
           Queue(all) == toasts \o Raised(all)
           Over(all) == IF Len(Queue(all)) > MaxToasts THEN Len(Queue(all)) - MaxToasts ELSE 0
<1>1. PICK all \in Alerts(Arrived(list)) :
        /\ toasts' = SubSeq(Queue(all), 1 + Over(all), Len(Queue(all)))
        /\ alerted' = [i \in Id |-> alerted[i] + IF \E k \in DOMAIN Raised(all) : Raised(all)[k] = i THEN 1 ELSE 0]
        /\ cut' = cut \cup {all[k] : k \in DOMAIN all \ DOMAIN Raised(all)}
  BY DEF TakesList, Arrived
<1>2. MaxToasts \in Nat \ {0} /\ Grave \subseteq Id
  BY DashboardAssumption
<1>3. /\ all \in Seq(A) /\ Len(all) \in Nat /\ DOMAIN all = 1 .. Len(all)
      /\ \A i \in A : \E k \in 1 .. Len(all) : all[k] = i
  <2>1. Arrived(list) \in SUBSET Id
    BY DEF Arrived
  <2>2. QED
    BY <2>1, AlertsAreAll
<1> DEFINE raised == Raised(all)
           queue == Queue(all)
           over == Over(all)
           m == IF Len(all) < MaxToasts THEN Len(all) ELSE MaxToasts
<1>4. /\ m \in 0 .. Len(all)
      /\ raised \in Seq(A) /\ Len(raised) = m /\ DOMAIN raised = 1 .. m
      /\ \A k \in 1 .. m : raised[k] = all[k]
  <2>1. m \in 0 .. Len(all)
    BY <1>2, <1>3
  <2>2. raised = SubSeq(all, 1, m)
    OBVIOUS
  <2> HIDE DEF m, A, raised
  <2>3. QED
    BY <1>3, <2>1, <2>2
<1>5. toasts' \in Seq(Grave) /\ Len(toasts') <= MaxToasts
  <2>1. toasts \in Seq(Grave) /\ raised \in Seq(Grave)
    <3>1. toasts \in Seq(Grave)
      BY DEF TypeOK
    <3>2. A \subseteq Grave
      OBVIOUS
    <3> HIDE DEF A, raised, m
    <3>3. QED
      BY <1>4, <3>1, <3>2
  <2>2. queue \in Seq(Grave) /\ Len(queue) \in Nat
    <3>1. queue = toasts \o raised
      OBVIOUS
    <3> HIDE DEF raised, queue
    <3>2. QED
      BY <2>1, <3>1
  <2>3. over \in 0 .. Len(queue) /\ Len(queue) - over <= MaxToasts
    <3> HIDE DEF queue
    <3>1. over = IF Len(queue) > MaxToasts THEN Len(queue) - MaxToasts ELSE 0
      BY DEF queue
    <3> HIDE DEF over
    <3>2. QED
      BY <1>2, <2>2, <3>1
  <2>4. toasts' = SubSeq(queue, 1 + over, Len(queue))
    BY <1>1
  <2> HIDE DEF queue, over
  <2>5. QED
    BY <1>2, <2>2, <2>3, <2>4
<1>6. alerted' = [i \in Id |-> alerted[i] + IF \E k \in DOMAIN raised : raised[k] = i THEN 1 ELSE 0]
      /\ cut' = cut \cup {all[k] : k \in DOMAIN all \ DOMAIN raised}
  BY <1>1
<1>7. A \subseteq Arrived(list) /\ A \subseteq Grave
  OBVIOUS
<1>8. \A i \in Arrived(list) \cap Grave : i \in A
  OBVIOUS
<1>9. alerted \in [Id -> Nat] /\ cut \subseteq Grave
  BY DEF TypeOK
<1> HIDE DEF A, raised, m
<1>10. \A k \in 1 .. Len(all) : all[k] \in A
  BY <1>3
<1>11. \A k \in 1 .. m : raised[k] \in A
  BY <1>4, <1>10
<1>12. alerted' \in [Id -> Nat]
       /\ \A i \in Id : alerted'[i] = alerted[i] \/ (i \in Arrived(list) /\ alerted'[i] = alerted[i] + 1)
  <2>1. ASSUME NEW i \in Id
        PROVE  /\ alerted'[i] \in Nat
               /\ alerted'[i] = alerted[i] \/ (i \in Arrived(list) /\ alerted'[i] = alerted[i] + 1)
    <3>1. CASE \E k \in DOMAIN raised : raised[k] = i
      BY <1>4, <1>6, <1>7, <1>9, <1>11, <3>1
    <3>2. CASE ~ \E k \in DOMAIN raised : raised[k] = i
      BY <1>6, <1>9, <3>2
    <3>3. QED
      BY <3>1, <3>2
  <2>2. QED
    BY <1>6, <2>1
<1>13. cut \subseteq cut' /\ cut' \subseteq Grave
  BY <1>3, <1>6, <1>7, <1>9, <1>10
<1>14. ASSUME NEW i \in A PROVE alerted'[i] = alerted[i] + 1 \/ i \in cut'
  <2>1. i \in Id
    BY <1>2, <1>7
  <2>2. PICK k \in 1 .. Len(all) : all[k] = i
    BY <1>3
  <2>3. CASE k \in DOMAIN raised
    <3>1. raised[k] = i
      BY <1>4, <2>2, <2>3
    <3>2. QED
      BY <1>6, <2>1, <2>3, <3>1
  <2>4. CASE k \notin DOMAIN raised
    BY <1>3, <1>6, <2>2, <2>4
  <2>5. QED
    BY <2>3, <2>4
<1>15. QED
  BY <1>5, <1>8, <1>12, <1>13, <1>14

\* The current run takes a list: it is a later one than the list shown, so nothing
\* goes back, and an arrival is above all that was alerted before.
LEMMA ListTaken ==
    ASSUME DashboardInv, NEW list \in SUBSET Id, list \subseteq visible, events \subseteq list, LateOf(list),
           TakesList(list), \A S \in SUBSET Id : NoList # S, UNCHANGED tableVars
    PROVE  /\ Seen' /\ Alerted' /\ LateOf(events)' /\ NoAlertSwallowed'
           /\ first' # NoList /\ first' \subseteq Id
           /\ events' = list /\ live' = TRUE /\ freshTimer' \in BOOLEAN /\ freshIds' \subseteq list
           /\ lastMaxId' \in Id \cup {Null, 0}
<1> USE DEF DashboardInv
<1>1. /\ lastMaxId' = Newest(list) /\ events' = list /\ live' = TRUE
      /\ first' = IF first = NoList THEN list ELSE first
      /\ UNCHANGED <<visible, late>>
      /\ \/ UNCHANGED <<freshIds, freshTimer>>
         \/ freshIds' = Arrived(list) /\ freshTimer' = TRUE
  <2>1. Arrived(list) = {i \in list : lastMaxId # Null /\ i > lastMaxId}
    BY DEF Arrived
  <2>2. QED
    BY <2>1 DEF TakesList, tableVars
<1>2. /\ Newest(list) \in Id \cup {0} /\ \A i \in list : i <= Newest(list)
      /\ Newest(events) \in Id \cup {0} /\ Newest(events) <= Newest(list)
      /\ (events # {} => Newest(events) \in events) /\ \A i \in events : i <= Newest(events)
  BY NewestIsHighest, NewestGrows DEF TypeOK
<1>3. /\ Id \subseteq Nat /\ list # NoList /\ events \subseteq Id /\ list \subseteq Id
      /\ Newest(list) \in Int /\ Newest(events) \in Int
  <2>1. Id \subseteq Nat
    BY DEF Id
  <2>2. list # NoList /\ events \subseteq Id
    BY DEF TypeOK
  <2>3. \A n \in Id \cup {0} : n \in Int
    BY <2>1
  <2>4. Newest(list) \in Int /\ Newest(events) \in Int
    BY <1>2, <2>3
  <2>5. QED
    BY <2>1, <2>2, <2>4
<1>4. lastMaxId = Null <=> first = NoList
  BY <1>2, <1>3 DEF Seen, Null
<1>5. freshTimer' \in BOOLEAN /\ freshIds' \subseteq list
  <2>1. freshTimer \in BOOLEAN /\ freshIds \subseteq events
    BY DEF TypeOK
  <2>2. freshTimer' \in BOOLEAN
    BY <1>1, <2>1, Zenon
  <2>3. Arrived(list) \subseteq list
    BY DEF Arrived
  <2>4. QED
    BY <1>1, <2>1, <2>2, <2>3
<1>6. Seen' /\ first' # NoList /\ first' \subseteq Id
  BY <1>1, <1>3 DEF Seen
<1>7. LateOf(events)'
  BY <1>1 DEF LateOf
<1>8. /\ \A i \in Id : alerted'[i] = alerted[i] \/ (i \in Arrived(list) /\ alerted'[i] = alerted[i] + 1)
      /\ \A i \in Arrived(list) \cap Grave : alerted'[i] = alerted[i] + 1 \/ i \in cut'
      /\ cut \subseteq cut'
  BY ToastsRaised
<1>9. ASSUME NEW i \in Arrived(list)
      PROVE  first # NoList /\ i \in Id /\ i > lastMaxId /\ alerted[i] = 0 /\ i \notin first /\ i <= lastMaxId'
  <2>1. i \in list /\ lastMaxId # Null /\ i > lastMaxId
    BY DEF Arrived
  <2>2. first # NoList /\ lastMaxId = Newest(events) /\ first \subseteq events
    BY <1>4, <2>1 DEF Seen
  <2>3. i \in Id /\ i \in Int /\ ~ (i <= Newest(events))
    BY <1>3, <2>1, <2>2
  <2>4. i \notin events
    BY <1>2, <2>3
  <2>5. alerted[i] = 0
    BY <2>2, <2>3 DEF Alerted
  <2>6. QED
    BY <1>1, <1>2, <2>1, <2>2, <2>3, <2>4, <2>5
<1>10. Alerted'
  <2>1. ASSUME NEW i \in Id
        PROVE  \/ alerted'[i] = 0
               \/ alerted'[i] = 1 /\ first' # NoList /\ i \notin first' /\ i <= lastMaxId'
    <3>1. CASE i \in Arrived(list) /\ alerted'[i] = alerted[i] + 1
      BY <1>1, <1>6, <1>9, <3>1
    <3>2. CASE alerted'[i] = alerted[i]
      <4>1. alerted[i] = 0 \/ (alerted[i] = 1 /\ first # NoList /\ i \notin first /\ i <= lastMaxId)
        BY DEF Alerted
      <4>2. ASSUME alerted[i] = 1, first # NoList, i \notin first, i <= lastMaxId
            PROVE  first' # NoList /\ i \notin first' /\ i <= lastMaxId'
        <5>1. lastMaxId = Newest(events) /\ lastMaxId' = Newest(list) /\ first' = first
          BY <1>1, <4>2 DEF Seen
        <5>2. i \in Int /\ i <= Newest(events)
          BY <1>3, <4>2, <5>1
        <5>3. i <= Newest(list)
          <6>1. Newest(events) <= Newest(list) /\ Newest(list) \in Int /\ Newest(events) \in Int
            BY <1>2, <1>3
          <6>2. QED
            BY <5>2, <6>1
        <5>4. QED
          BY <4>2, <5>1, <5>3
      <4>3. QED
        BY <3>2, <4>1, <4>2
    <3>3. QED
      BY <1>8, <3>1, <3>2
  <2>2. QED
    BY <2>1 DEF Alerted
<1>11. NoAlertSwallowed'
  <2>1. ASSUME NEW i \in list \cap Grave PROVE i \in first' \cup cut' \cup late \/ alerted'[i] = 1
    <3>1. i \in Id
      BY <1>3
    <3>2. CASE first = NoList
      BY <1>1, <2>1, <3>2
    <3>3. CASE first # NoList /\ i \in events
      <4>1. i \notin Arrived(list)
        <5>1. lastMaxId = Newest(events) /\ i <= Newest(events)
          BY <1>2, <3>3 DEF Seen
        <5>2. ~ (i > lastMaxId)
          BY <1>3, <3>1, <5>1
        <5>3. QED
          BY <5>2 DEF Arrived
      <4>2. i \in first \cup cut \cup late \/ alerted[i] = 1
        BY <3>3 DEF NoAlertSwallowed
      <4>3. QED
        BY <1>1, <1>8, <3>1, <3>3, <4>1, <4>2
    <3>4. CASE first # NoList /\ i \notin events /\ i \in Arrived(list)
      <4>1. alerted[i] = 0
        BY <1>9, <3>4
      <4>2. QED
        BY <1>8, <3>4, <4>1
    <3>5. CASE first # NoList /\ i \notin events /\ i \notin Arrived(list)
      <4>1. lastMaxId = Newest(events) /\ lastMaxId # Null
        BY <1>4, <3>5 DEF Seen
      <4>2. ~ (i > Newest(events))
        BY <3>5, <4>1 DEF Arrived
      <4>3. i # Newest(events)
        <5>1. CASE events = {}
          <6>1. Newest(events) = 0 /\ i # 0
            BY <3>1, <5>1, NewestIsHighest DEF Id
          <6>2. QED
            BY <6>1
        <5>2. CASE events # {}
          BY <1>2, <3>5, <5>2
        <5>3. QED
          BY <5>1, <5>2
      <4>4. i < Newest(events)
        <5>1. i \in Int /\ Newest(events) \in Int
          BY <1>3, <3>1
        <5>2. QED
          BY <4>2, <4>3, <5>1
      <4>5. LateOf(events) /\ i \in visible
        BY DEF NothingHidden
      <4>6. QED
        BY <3>5, <4>4, <4>5 DEF LateOf
    <3>6. QED
      BY <3>2, <3>3, <3>4, <3>5
  <2>2. QED
    BY <1>1, <2>1 DEF NoAlertSwallowed
<1>12. QED
  BY <1>1, <1>2, <1>5, <1>6, <1>7, <1>10, <1>11

\* A run has its answers; only the current one takes its list.
LEMMA PollSucceedsStep ==
    ASSUME DashboardInv, NEW r \in Run, PollSucceeds(r)
    PROVE  DashboardInv'
<1> USE DashboardAssumption DEF DashboardInv
<1>1. /\ poll[r] = "asking" /\ answer[r] # NoList
      /\ poll' = [poll EXCEPT ![r] = IF r = run THEN "waiting" ELSE "ended"]
      /\ answer' = [answer EXCEPT ![r] = NoList]
      /\ UNCHANGED <<tableVars, run, failures, hidden>>
  BY DEF PollSucceeds, GoesOn
<1>2. /\ poll \in [Run -> {"off", "waiting", "asking", "ended"}] /\ answer \in [Run -> (SUBSET Id) \cup {NoList}]
      /\ events \subseteq visible /\ visible \subseteq Id /\ run \in Run
  BY DEF TypeOK, Polls, Id
<1>3. /\ poll' \in [Run -> {"off", "waiting", "asking", "ended"}]
      /\ answer' \in [Run -> (SUBSET Id) \cup {NoList}]
      /\ \A s \in Run : poll'[s] = "waiting" => s = run
      /\ \A s \in Run : answer'[s] # NoList => poll'[s] = "asking" /\ answer'[s] = answer[s] /\ s # r
      /\ \A s \in Run : s > run => poll'[s] = "off"
  BY <1>1, <1>2 DEF TypeOK, Polls
<1>4. CASE r # run
  <2>1. UNCHANGED stateVars
    BY <1>4 DEF PollSucceeds
  <2>2. Seen' /\ Alerted' /\ LateOf(events)' /\ NoAlertSwallowed' /\ events' \subseteq visible'
    BY <1>1, <2>1, ShownStays DEF stateVars
  <2>3. TypeOK'
    BY <1>1, <1>3, <2>1 DEF TypeOK, stateVars, tableVars
  <2>4. Polls'
    BY <1>1, <1>2, <1>3, <2>1, <2>2 DEF Polls, stateVars
  <2>5. NothingHidden'
    BY <1>1, <1>3, <2>2 DEF NothingHidden, LateOf, tableVars
  <2>6. QED
    BY <2>2, <2>3, <2>4, <2>5
<1>5. CASE r = run
  <2> DEFINE list == answer[r]
  <2>1. TakesList(list)
    BY <1>5 DEF PollSucceeds
  <2>2. list \in SUBSET Id /\ list \subseteq visible /\ events \subseteq list /\ LateOf(list)
    BY <1>1, <1>2, <1>5 DEF Polls, TypeOK, NothingHidden
  <2> HIDE DEF list
  <2>3. /\ Seen' /\ Alerted' /\ LateOf(events)' /\ NoAlertSwallowed'
        /\ first' # NoList /\ first' \subseteq Id
        /\ events' = list /\ live' = TRUE /\ freshTimer' \in BOOLEAN /\ freshIds' \subseteq list
        /\ lastMaxId' \in Id \cup {Null, 0}
    BY <1>1, <2>1, <2>2, ListTaken
  <2>4. /\ toasts' \in Seq(Grave) /\ Len(toasts') <= MaxToasts
        /\ alerted' \in [Id -> Nat] /\ cut' \subseteq Grave
    BY <2>1, <2>2, ToastsRaised
  <2>5. TypeOK'
    BY <1>1, <1>3, <2>2, <2>3, <2>4 DEF TypeOK, tableVars
  <2>6. Polls'
    BY <1>1, <1>2, <1>3, <1>5, <2>2, <2>3 DEF Polls, tableVars
  <2>7. NothingHidden'
    BY <1>1, <1>3, <2>3 DEF NothingHidden, LateOf, tableVars
  <2>8. QED
    BY <2>3, <2>5, <2>6, <2>7
<1>6. QED
  BY <1>4, <1>5

LEMMA DashboardStep == ASSUME DashboardInv, [Next]_vars PROVE DashboardInv'
<1>1. CASE UNCHANGED vars
  <2>1. UNCHANGED <<tableVars, pollVars, hidden, stateVars>>
    BY <1>1 DEF vars
  <2>2. QED
    BY <2>1 DEF DashboardInv, TypeOK, Polls, Seen, Alerted, NothingHidden, LateOf, NoAlertSwallowed, tableVars,
       pollVars, stateVars
<1>2. QED
  BY <1>1, TableStep, ScreenStep, RunStep, RunsAgainStep, PollSucceedsStep DEF Next

\* The invariant holds in every reachable state.
THEOREM DashboardInductive == Spec => []DashboardInv
  BY DashboardInit, DashboardStep, PTL DEF Spec

-----------------------------------------------------------------------------

\* Type correctness: at most MaxToasts toasts, a timer for the current run only.
THEOREM DashboardTypes == Spec => []TypeOK
  BY DashboardInductive, PTL DEF DashboardInv

\* No event raises a second toast, and none of the first list raises one.
THEOREM AlertedOnceAtMost == Spec => []AlertedOnce
<1>1. DashboardInv => AlertedOnce
  BY DEF DashboardInv, Alerted, AlertedOnce
<1>2. QED
  BY <1>1, DashboardInductive, PTL

\* Every grave event in the list was in the first one, raised a toast, was cut or
\* came late.
THEOREM NoAlertIsSwallowed == Spec => []NoAlertSwallowed
  BY DashboardInductive, PTL DEF DashboardInv

\* The list and the highest id never go back to an older answer.
THEOREM ListNeverGoesBack == Spec => NeverGoesBack
<1>1. DashboardInv /\ [Next]_vars => [events \subseteq events' /\ lastMaxId <= lastMaxId']_vars
  <2> SUFFICES ASSUME DashboardInv, Next PROVE events \subseteq events' /\ lastMaxId <= lastMaxId'
    OBVIOUS
  <2>1. lastMaxId \in Int /\ lastMaxId >= Null
    BY DEF DashboardInv, TypeOK, Id, Null
  <2>2. CASE UNCHANGED <<events, lastMaxId>>
    BY <2>1, <2>2
  <2>3. ASSUME NEW r \in Run, PollSucceeds(r), r = run PROVE events \subseteq events' /\ lastMaxId <= lastMaxId'
    <3>1. events' = answer[r] /\ lastMaxId' = Newest(answer[r])
      BY <2>3 DEF PollSucceeds, TakesList
    <3>2. events \subseteq answer[r] /\ answer[r] \in SUBSET Id /\ events \in SUBSET Id
      BY <2>3 DEF PollSucceeds, DashboardInv, Polls, TypeOK
    <3>3. Newest(events) <= Newest(answer[r]) /\ Newest(answer[r]) \in Id \cup {0}
      BY <3>2, NewestGrows, NewestIsHighest
    <3>4. lastMaxId = Null \/ lastMaxId = Newest(events)
      BY DEF DashboardInv, Seen
    <3>5. QED
      BY <3>1, <3>2, <3>3, <3>4 DEF Id, Null
  <2>4. QED
    BY <2>2, <2>3 DEF Next, InsertBegins, InsertCommits, Hides, Tick, ListEvents, PollSucceeds, PollFails, RunsAgain,
       FreshEnds, DismissToast, stateVars
<1>2. QED
  BY <1>1, DashboardInductive, PTL DEF Spec, NeverGoesBack
=============================================================================
