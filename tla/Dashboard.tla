----------------------------- MODULE Dashboard -----------------------------
(***************************************************************************)
(* The dashboard of /home: a loop that polls the events and the status,    *)
(* finds out by their ids which events are new, lights their rows and      *)
(* raises toasts for the grave ones. React may clean the loop's effect up  *)
(* and run it again with the state kept (StrictMode, Fast Refresh), so an  *)
(* answer may come to a run that was cancelled. The table of events is     *)
(* that of the events service, where an id is handed out before its row    *)
(* can be seen; it is external here.                                       *)
(***************************************************************************)
EXTENDS Integers, Sequences, FiniteSets, SequencesExt

CONSTANTS
    MaxEvents,      \* bound: ids handed out
    Grave,          \* the ids of critical and high events
    MaxToasts,      \* MAX_TOASTS
    Run,            \* runs of the effect, 1 .. n
    MaxFailures,    \* bound: polls that fail
    NoList          \* no answer of listEvents yet

Id == 1 .. MaxEvents

ASSUME DashboardAssumption ==
    /\ MaxEvents \in Nat /\ MaxFailures \in Nat
    /\ MaxToasts \in Nat \ {0}
    /\ Grave \subseteq Id
    /\ 1 \in Run /\ Run \subseteq Nat
    /\ \A S \in SUBSET Id : NoList # S

VARIABLES
    begun,          \* ids handed out by the table's sequence
    visible,        \* ids of rows that a query sees
    run,            \* the current run of the effect; earlier ones are cancelled
    poll,           \* per run: "off", "waiting", "asking" or "ended"
    answer,         \* per run: what listEvents answered, or NoList
    hidden,         \* document.hidden
    lastMaxId,      \* the ref; -1 is null
    events,         \* the state: ids in the list
    live,           \* the state: the last poll succeeded
    freshIds,       \* the state: lit rows
    freshTimer,     \* a timer that will put the rows out is running
    toasts,         \* the state: the toasts' events
    failures,       \* polls that failed so far
    first,          \* history: the first list, or NoList
    alerted,        \* history: toasts raised, per event
    cut,            \* history: grave arrivals beyond MaxToasts
    late            \* history: rows seen only after a higher id was

tableVars == <<begun, visible, late>>
pollVars == <<run, poll, answer, failures>>
stateVars == <<lastMaxId, events, live, freshIds, freshTimer, toasts, first, alerted, cut>>
vars == <<tableVars, pollVars, hidden, stateVars>>

Null == -1

\* Math.max over the ids, from 0.
Newest(S) == IF S = {} THEN 0 ELSE CHOOSE i \in S : \A j \in S : j <= i

Init ==
    /\ begun = 0
    /\ visible = {}
    /\ run = 1
    /\ poll = [r \in Run |-> IF r = 1 THEN "waiting" ELSE "off"]
    /\ answer = [r \in Run |-> NoList]
    /\ hidden = FALSE
    /\ lastMaxId = Null
    /\ events = {}
    /\ live = TRUE
    /\ freshIds = {}
    /\ freshTimer = FALSE
    /\ toasts = <<>>
    /\ failures = 0
    /\ first = NoList
    /\ alerted = [i \in Id |-> 0]
    /\ cut = {}
    /\ late = {}

-----------------------------------------------------------------------------
\* The table of the events service.

InsertBegins ==
    /\ begun < MaxEvents
    /\ begun' = begun + 1
    /\ UNCHANGED <<visible, late, pollVars, hidden, stateVars>>

\* The transaction commits.
InsertCommits(i) ==
    /\ i \in 1 .. begun \ visible
    /\ visible' = visible \cup {i}
    /\ late' = IF i < Newest(visible) THEN late \cup {i} ELSE late
    /\ UNCHANGED <<begun, pollVars, hidden, stateVars>>

-----------------------------------------------------------------------------
\* The effect.

\* The user hides or shows the tab.
Hides ==
    /\ hidden' = ~hidden
    /\ UNCHANGED <<tableVars, pollVars, stateVars>>

\* tick asks for both at once.  In a hidden tab it sets its timer again, which is
\* no step.  The rows' timer is shorter than POLL_MS and was set before.
Tick(r) ==
    /\ poll[r] = "waiting"
    /\ ~hidden
    /\ ~freshTimer
    /\ poll' = [poll EXCEPT ![r] = "asking"]
    /\ UNCHANGED <<tableVars, run, answer, failures, hidden, stateVars>>

\* The events service runs the query.
ListEvents(r) ==
    /\ poll[r] = "asking"
    /\ answer[r] = NoList
    /\ answer' = [answer EXCEPT ![r] = visible]
    /\ UNCHANGED <<tableVars, run, poll, failures, hidden, stateVars>>

\* Mutant of GoesOn: finally sets the timer for a cancelled run too.
GoesOnAlways(r) ==
    /\ poll' = [poll EXCEPT ![r] = "waiting"]
    /\ answer' = [answer EXCEPT ![r] = NoList]
    /\ UNCHANGED run

\* After the await: a cancelled run returns, another sets its timer.
GoesOn(r) ==
    /\ poll' = [poll EXCEPT ![r] = IF r = run THEN "waiting" ELSE "ended"]
    /\ answer' = [answer EXCEPT ![r] = NoList]
    /\ UNCHANGED run

\* The arrivals that deserve a toast, in the order of the list, which is the order
\* of created_at and need not be that of the ids.
Alerts(arrived) == SetToSeqs(arrived \cap Grave)

\* What tick does with a list.
TakesList(list) ==
    LET arrived == {i \in list : lastMaxId # Null /\ i > lastMaxId} IN
    /\ lastMaxId' = Newest(list)
    /\ events' = list
    /\ live' = TRUE
    /\ first' = IF first = NoList THEN list ELSE first
    /\ IF arrived = {} THEN UNCHANGED <<freshIds, freshTimer>>
                       ELSE freshIds' = arrived /\ freshTimer' = TRUE
    /\ \E all \in Alerts(arrived) :
         LET raised == SubSeq(all, 1, IF Len(all) < MaxToasts THEN Len(all) ELSE MaxToasts)
             queue == toasts \o raised
         IN  /\ toasts' = SubSeq(queue, 1 + (IF Len(queue) > MaxToasts THEN Len(queue) - MaxToasts ELSE 0), Len(queue))
             /\ alerted' = [i \in Id |-> alerted[i] + IF \E k \in DOMAIN raised : raised[k] = i THEN 1 ELSE 0]
             /\ cut' = cut \cup {all[k] : k \in DOMAIN all \ DOMAIN raised}

\* Mutant of PollSucceeds: no test of cancelled after the await.
PollSucceedsUnchecked(r) ==
    /\ poll[r] = "asking"
    /\ answer[r] # NoList
    /\ TakesList(answer[r])
    /\ GoesOn(r)
    /\ UNCHANGED <<tableVars, failures, hidden>>

\* Both answers are there.
PollSucceeds(r) ==
    /\ poll[r] = "asking"
    /\ answer[r] # NoList
    /\ IF r = run THEN TakesList(answer[r]) ELSE UNCHANGED stateVars
    /\ GoesOn(r)
    /\ UNCHANGED <<tableVars, failures, hidden>>

\* Mutant of PollFails: the loop starts over with nothing seen.
PollFailsForgetting(r) ==
    /\ poll[r] = "asking"
    /\ failures < MaxFailures
    /\ failures' = failures + 1
    /\ live' = IF r = run THEN FALSE ELSE live
    /\ lastMaxId' = IF r = run THEN Null ELSE lastMaxId
    /\ GoesOn(r)
    /\ UNCHANGED <<tableVars, hidden, events, freshIds, freshTimer, toasts, first, alerted, cut>>

\* Mutant of PollFails: the catch returns, and the timer is not set.
PollFailsForGood(r) ==
    /\ poll[r] = "asking"
    /\ failures < MaxFailures
    /\ failures' = failures + 1
    /\ live' = IF r = run THEN FALSE ELSE live
    /\ poll' = [poll EXCEPT ![r] = "ended"]
    /\ answer' = [answer EXCEPT ![r] = NoList]
    /\ UNCHANGED <<tableVars, run, hidden, lastMaxId, events, freshIds, freshTimer, toasts, first, alerted, cut>>

\* One of the two failed: the state stays, but for the error.
PollFails(r) ==
    /\ poll[r] = "asking"
    /\ failures < MaxFailures
    /\ failures' = failures + 1
    /\ live' = IF r = run THEN FALSE ELSE live
    /\ GoesOn(r)
    /\ UNCHANGED <<tableVars, hidden, lastMaxId, events, freshIds, freshTimer, toasts, first, alerted, cut>>

\* The effect is cleaned up, with its timers, and runs again.
RunsAgain ==
    /\ run + 1 \in Run
    /\ run' = run + 1
    /\ poll' = [r \in Run |-> CASE r = run + 1 -> "waiting"
                                [] poll[r] = "waiting" -> "ended"
                                [] OTHER -> poll[r]]
    /\ freshTimer' = FALSE
    /\ UNCHANGED <<tableVars, answer, failures, hidden,
                   lastMaxId, events, live, freshIds, toasts, first, alerted, cut>>

\* The rows go out after FRESH_MS.
FreshEnds ==
    /\ freshTimer
    /\ freshIds' = {}
    /\ freshTimer' = FALSE
    /\ UNCHANGED <<tableVars, pollVars, hidden, lastMaxId, events, live, toasts, first, alerted, cut>>

\* A toast goes after 6 s or by its X.
DismissToast(k) ==
    /\ k \in DOMAIN toasts
    /\ toasts' = RemoveAt(toasts, k)
    /\ UNCHANGED <<tableVars, pollVars, hidden,
                   lastMaxId, events, live, freshIds, freshTimer, first, alerted, cut>>

-----------------------------------------------------------------------------

Next ==
    \/ InsertBegins
    \/ \E i \in Id : InsertCommits(i)
    \/ Hides
    \/ \E r \in Run : Tick(r)
    \/ \E r \in Run : ListEvents(r)
    \/ \E r \in Run : PollSucceeds(r)
    \/ \E r \in Run : PollFails(r)
    \/ RunsAgain
    \/ FreshEnds
    \/ \E k \in 1 .. MaxToasts : DismissToast(k)

Spec == Init /\ [][Next]_vars

\* Timers fire and requests are answered; how long polls fail is bounded.
FairSpec ==
    /\ Spec
    /\ WF_vars(FreshEnds)
    /\ \A r \in Run : WF_vars(Tick(r)) /\ WF_vars(ListEvents(r)) /\ WF_vars(PollSucceeds(r))

-----------------------------------------------------------------------------

\* The types of all variables; only the current run may set a timer, and no more
\* toasts are shown than MAX_TOASTS.
TypeOK ==
    /\ begun \in 0 .. MaxEvents
    /\ visible \subseteq 1 .. begun
    /\ run \in Run
    /\ poll \in [Run -> {"off", "waiting", "asking", "ended"}]
    /\ \A r \in Run : poll[r] = "waiting" => r = run
    /\ \A r \in Run : answer[r] # NoList => poll[r] = "asking" /\ answer[r] \subseteq visible
    /\ hidden \in BOOLEAN /\ live \in BOOLEAN /\ freshTimer \in BOOLEAN
    /\ lastMaxId \in Id \cup {Null, 0}
    /\ events \subseteq Id
    /\ freshIds \subseteq events
    /\ toasts \in Seq(Grave) /\ Len(toasts) <= MaxToasts
    /\ failures \in 0 .. MaxFailures
    /\ first = NoList \/ first \subseteq Id
    /\ alerted \in [Id -> Nat]
    /\ cut \subseteq Grave
    /\ late \subseteq Id

\* No event raises a second toast, and none of the first list raises one ("la
\* primera carga no avisa de nada"), whatever answers come late, to a run that
\* was cancelled, or after failed polls.
AlertedOnce ==
    \A i \in Id : alerted[i] <= (IF first # NoList /\ i \in first THEN 0 ELSE 1)

\* Every grave event in the list was in the first one, raised a toast, was one
\* too many at once, or came to be seen after a higher id: neither failed polls
\* nor a hidden tab nor a run that starts over swallow an alert.
NoAlertSwallowed ==
    \A i \in events \cap Grave :
        i \in first \cup cut \cup late \/ alerted[i] = 1

\* The list shown and the highest id seen never go back to an older answer.
NeverGoesBack ==
    [][events \subseteq events' /\ lastMaxId <= lastMaxId']_vars

\* While the tab stays in view, every event comes to be shown and the indicator
\* comes to say so: the loop survives the polls that fail.
CatchesUp ==
    <>[](~hidden) =>
        /\ \A i \in Id : (i \in visible) ~> (i \in events)
        /\ []<>live

\* "el id mas alto que ya vimos y con eso se sabe cual evento es nuevo"
\* (page.tsx): a grave event that comes into the list after the first load is
\* announced, but for those beyond MAX_TOASTS.
HighestIdTellsNew ==
    \A i \in events \cap Grave : i \in first \cup cut \/ alerted[i] = 1

=============================================================================
