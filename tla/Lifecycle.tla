----------------------------- MODULE Lifecycle -----------------------------
(***************************************************************************)
(* The life of one instance of a backend (accounts, events or status, whose*)
(* mains are alike): it registers in Consul, serves, and on SIGTERM goes   *)
(* out of Consul and stops its two servers.  Consul's checks and the list  *)
(* of the middleware lag behind it, and requests come by that list.  The   *)
(* process may also be killed.  Consul and the clients are external.       *)
(***************************************************************************)
EXTENDS Naturals, FiniteSets

CONSTANTS
    Request,        \* requests through the middleware
    MaxAttempts,    \* maxAttempts of register, 10 in the code
    MaxFaults,      \* bound: failed calls of Consul, failed checks, kills
    MaxStarts       \* bound: starts of the process

ASSUME LifecycleAssumption ==
    /\ MaxAttempts \in Nat \ {0}
    /\ MaxFaults \in Nat
    /\ MaxStarts \in Nat

VARIABLES
    place,      \* main: "down", "register", "registerGRPC" or "serve"
    attempt,    \* of register
    stopper,    \* the goroutine that waits for SIGTERM
    entry,      \* Consul: per server, "none", "passing" or "critical"
    listed,     \* the middleware's balancers: the servers they list
    answer,     \* what Consul has last told the middleware's loops
    call,       \* per request: its server and what became of it
    faults,     \* faults so far
    starts,     \* starts so far
    lost,       \* history: the servers that this start has lost in Consul, or never got there
    kept,       \* history: the servers whose Deregister failed in this stop
    stale       \* history: the servers that the middleware knows from before their Deregister

discovery == <<listed, answer>>
stopHistory == <<kept, stale>>
vars == <<place, attempt, stopper, entry, discovery, call, faults, starts, lost, stopHistory>>

Server == {"http", "grpc"}

\* "none": signal.Notify was not called.  "graceful": inside GracefulStop.
\* "shutdown": inside Shutdown.
Stopper == {"none", "wait", "deregister", "deregisterGRPC", "graceful", "shutdown"}

\* "cut": the process was killed.  "dropped": main returned.
Outcome == {"idle", "served", "answered", "refused", "cut", "dropped"}

\* The gRPC server runs before the registration, the HTTP server after it.
Listening(s) ==
    CASE s = "http" -> place = "serve" /\ stopper # "shutdown"
      [] s = "grpc" -> place # "down" /\ stopper \notin {"graceful", "shutdown"}

InFlight(s) == {r \in Request : call[r].at = "served" /\ call[r].server = s}

Fault == faults < MaxFaults /\ faults' = faults + 1

Init ==
    /\ place = "down"
    /\ attempt = 0
    /\ stopper = "none"
    /\ entry = [s \in Server |-> "none"]
    /\ listed = {}
    /\ answer = {}
    /\ call = [r \in Request |-> [server |-> "http", at |-> "idle"]]
    /\ faults = 0
    /\ starts = 0
    /\ lost = {}
    /\ kept = {}
    /\ stale = {}

\* main runs up to the registration.
Start ==
    /\ place = "down"
    /\ starts < MaxStarts
    /\ starts' = starts + 1
    /\ place' = "register"
    /\ attempt' = 1
    /\ UNCHANGED <<stopper, entry, discovery, call, faults, lost, stopHistory>>

Registering(s) == place = IF s = "http" THEN "register" ELSE "registerGRPC"

\* register returns, with or without an error, which main only logs.  After the
\* second one main calls Notify and ListenAndServe.
RegisterReturns(s) ==
    IF s = "http"
      THEN place' = "registerGRPC" /\ attempt' = 1 /\ UNCHANGED stopper
      ELSE place' = "serve" /\ attempt' = 0 /\ stopper' = "wait"

\* Consul takes the PUT.  A new check is critical until it passes; the check of an
\* entry that an earlier start has left may keep its status.
Applied(s) == \E status \in {"critical", entry[s]} \ {"none"} : entry' = [entry EXCEPT ![s] = status]

\* What is back in Consul is not lost any more.
LostIs(S) == lost' = {s \in S : entry'[s] = "none"}

\* Consul answers 200.
RegisterOk(s) ==
    /\ Registering(s)
    /\ Applied(s)
    /\ LostIs(lost)
    /\ RegisterReturns(s)
    /\ UNCHANGED <<discovery, call, faults, starts, stopHistory>>

\* Mutant of RegisterFails: no further attempt.
RegisterFailsOnce(s) ==
    /\ Registering(s)
    /\ Fault
    /\ RegisterReturns(s)
    /\ UNCHANGED <<entry, discovery, call, starts, lost, stopHistory>>

\* Mutant of RegisterFails: one attempt more than maxAttempts.
RegisterFailsOneMore(s) ==
    /\ Registering(s)
    /\ Fault
    /\ UNCHANGED entry \/ Applied(s)
    /\ LostIs(lost)
    /\ IF attempt <= MaxAttempts
         THEN attempt' = attempt + 1 /\ UNCHANGED <<place, stopper>>
         ELSE RegisterReturns(s)
    /\ UNCHANGED <<discovery, call, starts, stopHistory>>

\* The PUT fails, applied or not; after a pause there is another attempt, or else
\* the server goes without an entry.
RegisterFails(s) ==
    /\ Registering(s)
    /\ Fault
    /\ UNCHANGED entry \/ Applied(s)
    /\ IF attempt < MaxAttempts
         THEN attempt' = attempt + 1 /\ LostIs(lost) /\ UNCHANGED <<place, stopper>>
         ELSE RegisterReturns(s) /\ LostIs(lost \cup {s})
    /\ UNCHANGED <<discovery, call, starts, stopHistory>>

\* The process ends, and its requests with it.
Ends(outcome) ==
    /\ place' = "down"
    /\ attempt' = 0
    /\ stopper' = "none"
    /\ call' = [r \in Request |-> IF call[r].at = "served" THEN [call[r] EXCEPT !.at = outcome] ELSE call[r]]
    /\ lost' = {}
    /\ kept' = {}
    /\ stale' = {}

\* SIGTERM before Notify ends the process; later it wakes the goroutine, which
\* calls stopApp and Deregister.
Sigterm ==
    /\ \/ /\ place \in {"register", "registerGRPC"}
          /\ Ends("cut")
       \/ /\ stopper = "wait"
          /\ stopper' = "deregister"
          /\ UNCHANGED <<place, attempt, call, lost, stopHistory>>
    /\ UNCHANGED <<entry, discovery, faults, starts>>

\* A crash, or the SIGKILL that follows a SIGTERM after 10 s.
Kill ==
    /\ place # "down"
    /\ Fault
    /\ Ends("cut")
    /\ UNCHANGED <<entry, discovery, starts>>

Deregistering(s) == stopper = IF s = "http" THEN "deregister" ELSE "deregisterGRPC"

DeregisterGoesOn(s) == stopper' = IF s = "http" THEN "deregisterGRPC" ELSE "graceful"

\* Mutant of Deregister: only the HTTP entry is taken out.
DeregisterHttp(s) ==
    /\ Deregistering(s)
    /\ entry' = [entry EXCEPT !["http"] = "none"]
    /\ stale' = stale \cup ({s} \cap (listed \cup answer))
    /\ DeregisterGoesOn(s)
    /\ UNCHANGED <<place, attempt, discovery, call, faults, starts, lost, kept>>

Deregister(s) ==
    /\ Deregistering(s)
    /\ entry' = [entry EXCEPT ![s] = "none"]
    /\ stale' = stale \cup ({s} \cap (listed \cup answer))
    /\ DeregisterGoesOn(s)
    /\ UNCHANGED <<place, attempt, discovery, call, faults, starts, lost, kept>>

\* The PUT fails, which is logged, or Consul answers with an error, which is not.
DeregisterFails(s) ==
    /\ Deregistering(s)
    /\ Fault
    /\ kept' = kept \cup {s}
    /\ DeregisterGoesOn(s)
    /\ UNCHANGED <<place, attempt, entry, discovery, call, starts, lost, stale>>

\* Mutant of Shutdown: Shutdown comes first, and waits for the requests of HTTP.
ShutdownWaits ==
    /\ stopper = "graceful"
    /\ \A s \in Server : InFlight(s) = {}
    /\ stopper' = "shutdown"
    /\ UNCHANGED <<place, attempt, entry, discovery, call, faults, starts, lost, stopHistory>>

\* Mutant of Shutdown: Stop in the place of GracefulStop.
ShutdownAtOnce ==
    /\ stopper = "graceful"
    /\ stopper' = "shutdown"
    /\ UNCHANGED <<place, attempt, entry, discovery, call, faults, starts, lost, stopHistory>>

\* GracefulStop has waited for the RPCs in flight; Shutdown closes the listener.
Shutdown ==
    /\ stopper = "graceful"
    /\ InFlight("grpc") = {}
    /\ stopper' = "shutdown"
    /\ UNCHANGED <<place, attempt, entry, discovery, call, faults, starts, lost, stopHistory>>

\* ListenAndServe returns as soon as Shutdown has begun, and so does main, while
\* Shutdown waits for the requests in flight.
MainReturns ==
    /\ stopper = "shutdown"
    /\ Ends("dropped")
    /\ UNCHANGED <<entry, discovery, faults, starts>>

-----------------------------------------------------------------------------

\* Consul runs a check.
Check(s) ==
    /\ entry[s] # "none"
    /\ entry' = [entry EXCEPT ![s] = IF Listening(s) THEN "passing" ELSE "critical"]
    /\ UNCHANGED <<place, attempt, stopper, discovery, call, faults, starts, lost, stopHistory>>

\* A check fails although the server listens: it was not answered in 2 s.
CheckFails(s) ==
    /\ entry[s] = "passing"
    /\ Listening(s)
    /\ Fault
    /\ entry' = [entry EXCEPT ![s] = "critical"]
    /\ UNCHANGED <<place, attempt, stopper, discovery, call, starts, lost, stopHistory>>

\* DeregisterCriticalServiceAfter: an entry that was critical for a minute goes.
\* That of a process that comes up can only if its registration fails and is tried
\* again, which may take minutes.
Reap(s) ==
    /\ entry[s] = "critical"
    /\ place = "down" \/ (attempt > 1 /\ ~Listening(s))
    /\ entry' = [entry EXCEPT ![s] = "none"]
    /\ lost' = IF place = "down" THEN lost ELSE lost \cup {s}
    /\ UNCHANGED <<place, attempt, stopper, discovery, call, faults, starts, stopHistory>>

\* The checks of a process that runs fail for a minute, and its entry is gone; or
\* Consul, which keeps its entries in memory, restarts, and all are.
Forget(gone) ==
    /\ place # "down"
    /\ \A s \in gone : entry[s] # "none"
    /\ Fault
    /\ entry' = [s \in Server |-> IF s \in gone THEN "none" ELSE entry[s]]
    /\ lost' = lost \cup gone
    /\ UNCHANGED <<place, attempt, stopper, discovery, call, starts, stopHistory>>

\* What the middleware knows no more it does not know from before.
KeepStale == stale' = stale \cap (listed' \cup answer')

\* Consul answers one of the middleware's loops whether the server passes.
Answer(s) ==
    /\ answer' = IF entry[s] = "passing" THEN answer \cup {s} ELSE answer \ {s}
    /\ UNCHANGED listed
    /\ KeepStale
    /\ UNCHANGED <<place, attempt, stopper, entry, call, faults, starts, lost, kept>>

\* The loop sets what it was told, which may be outdated by now.
Refresh(s) ==
    /\ listed' = IF s \in answer THEN listed \cup {s} ELSE listed \ {s}
    /\ UNCHANGED answer
    /\ KeepStale
    /\ UNCHANGED <<place, attempt, stopper, entry, call, faults, starts, lost, kept>>

\* The middleware picks the instance for a request.
Dispatch(r, s) ==
    /\ call[r].at = "idle"
    /\ s \in listed
    /\ call' = [call EXCEPT ![r] = [server |-> s, at |-> IF Listening(s) THEN "served" ELSE "refused"]]
    /\ UNCHANGED <<place, attempt, stopper, entry, discovery, faults, starts, lost, stopHistory>>

Reply(r) ==
    /\ call[r].at = "served"
    /\ call' = [call EXCEPT ![r].at = "answered"]
    /\ UNCHANGED <<place, attempt, stopper, entry, discovery, faults, starts, lost, stopHistory>>

Next ==
    \/ Start
    \/ \E s \in Server : RegisterOk(s)
    \/ \E s \in Server : RegisterFails(s)
    \/ Sigterm
    \/ Kill
    \/ \E s \in Server : Deregister(s)
    \/ \E s \in Server : DeregisterFails(s)
    \/ Shutdown
    \/ MainReturns
    \/ \E s \in Server : Check(s)
    \/ \E s \in Server : CheckFails(s)
    \/ \E s \in Server : Reap(s)
    \/ \E gone \in SUBSET Server \ {{}} : Forget(gone)
    \/ \E s \in Server : Answer(s)
    \/ \E s \in Server : Refresh(s)
    \/ \E r \in Request, s \in Server : Dispatch(r, s)
    \/ \E r \in Request : Reply(r)

Spec == Init /\ [][Next]_vars

\* Consul's checks and the middleware's loop go on; so does the goroutine that stops
\* the process, once it was woken, and main after it.  Nobody is owed a start, a
\* registration or an answer.
FairSpec ==
    /\ Spec
    /\ WF_vars(\E s \in Server : Deregister(s) \/ DeregisterFails(s))
    /\ WF_vars(Shutdown) /\ WF_vars(MainReturns)
    /\ \A s \in Server : WF_vars(Answer(s)) /\ WF_vars(Refresh(s))
    /\ \A s \in Server : WF_vars(Check(s)) /\ WF_vars(Reap(s))

-----------------------------------------------------------------------------

\* The types of all variables; the goroutine stops a main that serves.
TypeOK ==
    /\ place \in {"down", "register", "registerGRPC", "serve"}
    /\ attempt \in 0 .. MaxAttempts
    /\ stopper \in Stopper
    /\ stopper # "none" <=> place = "serve"
    /\ entry \in [Server -> {"none", "passing", "critical"}]
    /\ listed \subseteq Server /\ answer \subseteq Server
    /\ call \in [Request -> [server : Server, at : Outcome]]
    /\ faults \in 0 .. MaxFaults
    /\ starts \in 0 .. MaxStarts
    /\ lost \subseteq Server /\ kept \subseteq Server /\ stale \subseteq Server

\* An RPC that was accepted is answered, or the process was killed: an orderly
\* stop never drops one (GracefulStop comes before main can return).
RpcsNeverDropped == \A r \in Request : ~(call[r].at = "dropped" /\ call[r].server = "grpc")

\* Before a server stops to accept, each of the two entries is out of Consul, unless
\* its own Deregister failed: whatever else has failed before, and if an earlier
\* start that was killed has left them.  From then on the middleware knows of the
\* server only what it was told before that, and so may still send it requests.
OutOfConsulFirst ==
    stopper \in {"graceful", "shutdown"} =>
        \A s \in Server \ kept : entry[s] = "none" /\ s \notin (listed \cup answer) \ stale

\* A process that stays up comes to be listed for good, whatever calls of Consul and
\* checks fail, but for the servers it has lost: nobody registers a server again once
\* all attempts have failed, or when Consul drops the entry later.
\* One that stays down comes to be forgotten for good, even when it was killed or
\* could not deregister.
ListTellsLife ==
    /\ \A S \in SUBSET Server :
         <>[](stopper = "wait" /\ lost = S) => <>[](listed = Server \ S)
    /\ <>[](place = "down") => <>[](listed = {})

\* A stop ends as soon as the RPCs in flight have ended: neither Consul, when it
\* fails, nor a request over HTTP that never ends can keep the process.  (An RPC that
\* never ends does: GracefulStop has no limit.)
StopEnds ==
    (\A r \in Request : []<>(r \notin InFlight("grpc"))) =>
        (stopper = "deregister" ~> place = "down")

\* "apagamos los dos servidores sin cortar nada" (main.go): an orderly stop drops
\* no request.
NothingCut == \A r \in Request : call[r].at # "dropped"

=============================================================================
