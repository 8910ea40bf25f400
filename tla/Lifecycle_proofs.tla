-------------------------- MODULE Lifecycle_proofs --------------------------
(***************************************************************************)
(* Proofs about Lifecycle, for any requests, attempts, faults and starts.  *)
(* An orderly stop is a sequence of steps of one goroutine while everybody *)
(* else goes on: the inductive invariant says what the goroutine has       *)
(* achieved by each of them.                                               *)
(***************************************************************************)
EXTENDS Lifecycle, TLAPS

\* While Shutdown waits, no RPC is in flight and none can be accepted.
NoRpcAtShutdown == stopper = "shutdown" => InFlight("grpc") = {}

\* Whose Deregister is over: the goroutine takes the HTTP entry first.
Deregistered(s) ==
    stopper \in IF s = "http" THEN {"deregisterGRPC", "graceful", "shutdown"}
                              ELSE {"graceful", "shutdown"}

\* Its entry is gone unless the call failed, since nobody puts it back; and what the
\* middleware knows of it dates from before.
EntriesGone ==
    \A s \in Server \ kept : Deregistered(s) =>
        entry[s] = "none" /\ s \notin (listed \cup answer) \ stale

\* The inductive invariant.
StopInv == TypeOK /\ NoRpcAtShutdown /\ RpcsNeverDropped /\ EntriesGone

-----------------------------------------------------------------------------

\* The process that ends leaves every request with an outcome.
LEMMA EndsType ==
    ASSUME TypeOK, NEW outcome \in Outcome, Ends(outcome),
           UNCHANGED <<entry, discovery, starts>>, faults' \in 0 .. MaxFaults
    PROVE  TypeOK'
<1>1. call' \in [Request -> [server : Server, at : Outcome]]
  BY DEF TypeOK, Ends
<1>2. place' = "down" /\ stopper' = "none" /\ attempt' = 0 /\ lost' = {} /\ kept' = {} /\ stale' = {}
  BY DEF Ends
<1>3. UNCHANGED <<entry, listed, answer, starts>>
  BY DEF discovery
<1>4. 0 \in 0 .. MaxAttempts
  BY LifecycleAssumption
<1>5. QED
  BY <1>1, <1>2, <1>3, <1>4 DEF TypeOK, Stopper

\* What register leads to, with or without success.
LEMMA RegisterReturnsType ==
    ASSUME TypeOK, NEW s \in Server, Registering(s), RegisterReturns(s)
    PROVE  /\ place' \in {"down", "register", "registerGRPC", "serve"}
           /\ attempt' \in 0 .. MaxAttempts
           /\ stopper' \in {"none", "wait"}
           /\ stopper' # "none" <=> place' = "serve"
  BY LifecycleAssumption DEF TypeOK, Registering, RegisterReturns, Server, Stopper

\* The variables that register touches keep their types, and it ends no stop.
LEMMA RegisterStep ==
    ASSUME TypeOK, NEW s \in Server, RegisterOk(s) \/ RegisterFails(s)
    PROVE  /\ TypeOK'
           /\ stopper' \in {"none", "wait"}
           /\ UNCHANGED call
<1>1. Registering(s) /\ UNCHANGED <<listed, answer, call, starts, kept, stale>>
  BY DEF RegisterOk, RegisterFails, discovery, stopHistory
<1>2. entry' \in [Server -> {"none", "passing", "critical"}] /\ lost' \subseteq Server
  BY DEF TypeOK, RegisterOk, RegisterFails, Applied, LostIs
<1>3. faults' \in 0 .. MaxFaults
  BY LifecycleAssumption DEF TypeOK, RegisterOk, RegisterFails, Fault
<1>4. /\ place' \in {"down", "register", "registerGRPC", "serve"}
      /\ attempt' \in 0 .. MaxAttempts
      /\ stopper' \in {"none", "wait"}
      /\ stopper' # "none" <=> place' = "serve"
  <2>1. CASE RegisterReturns(s)
    BY <1>1, <2>1, RegisterReturnsType
  <2>2. CASE attempt < MaxAttempts /\ attempt' = attempt + 1 /\ UNCHANGED <<place, stopper>>
    BY <1>1, <2>2, LifecycleAssumption DEF TypeOK, Registering, Server
  <2>3. QED
    BY <2>1, <2>2 DEF RegisterOk, RegisterFails
<1>5. QED
  BY <1>1, <1>2, <1>3, <1>4 DEF TypeOK, Stopper

\* Every step keeps the types.
LEMMA TypeStep == TypeOK /\ [Next]_vars => TypeOK'
<1> SUFFICES ASSUME TypeOK, [Next]_vars PROVE TypeOK'
  OBVIOUS
<1>1. CASE Start
  BY <1>1, LifecycleAssumption DEF TypeOK, Start, discovery, stopHistory
<1>2. ASSUME NEW s \in Server, RegisterOk(s) \/ RegisterFails(s) PROVE TypeOK'
  BY <1>2, RegisterStep
<1>3. CASE Sigterm
  <2>1. CASE Ends("cut")
    <3>1. "cut" \in Outcome /\ UNCHANGED <<entry, discovery, starts>> /\ faults' \in 0 .. MaxFaults
      BY <1>3 DEF TypeOK, Sigterm, Outcome
    <3>2. QED
      BY <2>1, <3>1, EndsType
  <2>2. CASE stopper = "wait" /\ stopper' = "deregister" /\ UNCHANGED <<place, attempt, call, lost, stopHistory>>
    BY <1>3, <2>2 DEF TypeOK, Sigterm, Stopper, discovery, stopHistory
  <2>3. QED
    BY <1>3, <2>1, <2>2 DEF Sigterm
<1>4. CASE Kill
  <2>1. "cut" \in Outcome /\ UNCHANGED <<entry, discovery, starts>> /\ faults' \in 0 .. MaxFaults
    BY <1>4, LifecycleAssumption DEF TypeOK, Kill, Fault, Outcome
  <2>2. QED
    BY <1>4, <2>1, EndsType DEF Kill
<1>5. ASSUME NEW s \in Server, Deregister(s) \/ DeregisterFails(s) PROVE TypeOK'
  <2>1. /\ stopper \in {"deregister", "deregisterGRPC"}
        /\ stopper' \in {"deregisterGRPC", "graceful"}
        /\ UNCHANGED <<place, attempt, listed, answer, call, starts, lost>>
        /\ kept' \subseteq Server /\ stale' \subseteq Server
    BY <1>5 DEF TypeOK, Deregister, DeregisterFails, Deregistering, DeregisterGoesOn, discovery
  <2>2. entry' \in [Server -> {"none", "passing", "critical"}]
    BY <1>5 DEF TypeOK, Deregister, DeregisterFails
  <2>3. faults' \in 0 .. MaxFaults
    BY <1>5, LifecycleAssumption DEF TypeOK, Deregister, DeregisterFails, Fault
  <2>4. QED
    BY <2>1, <2>2, <2>3 DEF TypeOK, Stopper
<1>6. CASE Shutdown
  BY <1>6 DEF TypeOK, Shutdown, Stopper, discovery, stopHistory
<1>7. CASE MainReturns
  <2>1. "dropped" \in Outcome /\ UNCHANGED <<entry, discovery, starts>> /\ faults' \in 0 .. MaxFaults
    BY <1>7 DEF TypeOK, MainReturns, Outcome
  <2>2. QED
    BY <1>7, <2>1, EndsType DEF MainReturns
<1>8. ASSUME NEW s \in Server, Check(s) \/ CheckFails(s) \/ Reap(s) PROVE TypeOK'
  BY <1>8, LifecycleAssumption DEF TypeOK, Check, CheckFails, Reap, Fault, discovery, stopHistory
<1>9. ASSUME NEW gone \in SUBSET Server, Forget(gone) PROVE TypeOK'
  BY <1>9, LifecycleAssumption DEF TypeOK, Forget, Fault, discovery, stopHistory
<1>10. ASSUME NEW s \in Server, Answer(s) \/ Refresh(s) PROVE TypeOK'
  BY <1>10 DEF TypeOK, Answer, Refresh, KeepStale
<1>11. ASSUME NEW r \in Request, NEW s \in Server, Dispatch(r, s) PROVE TypeOK'
  BY <1>11 DEF TypeOK, Dispatch, Outcome, discovery, stopHistory
<1>12. ASSUME NEW r \in Request, Reply(r) PROVE TypeOK'
  BY <1>12 DEF TypeOK, Reply, Outcome, discovery, stopHistory
<1>13. CASE UNCHANGED vars
  BY <1>13 DEF TypeOK, vars, discovery, stopHistory
<1>14. QED
  BY <1>1, <1>2, <1>3, <1>4, <1>5, <1>6, <1>7, <1>8, <1>9, <1>10, <1>11, <1>12, <1>13 DEF Next

-----------------------------------------------------------------------------

\* The stop: which steps change who is in flight and where the goroutine is.
LEMMA RpcStep == StopInv /\ [Next]_vars => NoRpcAtShutdown' /\ RpcsNeverDropped'
<1> SUFFICES ASSUME StopInv, [Next]_vars PROVE NoRpcAtShutdown' /\ RpcsNeverDropped'
  OBVIOUS
<1> USE DEF StopInv, NoRpcAtShutdown, RpcsNeverDropped, InFlight
<1>1. CASE Start
  BY <1>1 DEF Start
<1>2. ASSUME NEW s \in Server, RegisterOk(s) \/ RegisterFails(s)
      PROVE NoRpcAtShutdown' /\ RpcsNeverDropped'
  BY <1>2, RegisterStep
<1>3. CASE Sigterm
  <2>1. CASE Ends("cut")
    BY <2>1 DEF TypeOK, Ends
  <2>2. CASE stopper' = "deregister" /\ UNCHANGED call
    BY <2>2
  <2>3. QED
    BY <1>3, <2>1, <2>2 DEF Sigterm
<1>4. CASE Kill
  BY <1>4 DEF TypeOK, Kill, Ends
<1>5. ASSUME NEW s \in Server, Deregister(s) \/ DeregisterFails(s)
      PROVE NoRpcAtShutdown' /\ RpcsNeverDropped'
  BY <1>5 DEF Deregister, DeregisterFails, DeregisterGoesOn
<1>6. CASE Shutdown
  BY <1>6 DEF Shutdown
<1>7. CASE MainReturns
  BY <1>7 DEF TypeOK, MainReturns, Ends
<1>8. ASSUME NEW s \in Server, Check(s) \/ CheckFails(s) \/ Reap(s)
      PROVE NoRpcAtShutdown' /\ RpcsNeverDropped'
  BY <1>8 DEF Check, CheckFails, Reap
<1>9. ASSUME NEW gone \in SUBSET Server, Forget(gone)
      PROVE NoRpcAtShutdown' /\ RpcsNeverDropped'
  BY <1>9 DEF Forget
<1>10. ASSUME NEW s \in Server, Answer(s) \/ Refresh(s)
       PROVE NoRpcAtShutdown' /\ RpcsNeverDropped'
  BY <1>10 DEF Answer, Refresh
<1>11. ASSUME NEW r \in Request, NEW s \in Server, Dispatch(r, s)
       PROVE NoRpcAtShutdown' /\ RpcsNeverDropped'
  BY <1>11 DEF TypeOK, Dispatch, Listening, Server
<1>12. ASSUME NEW r \in Request, Reply(r)
       PROVE NoRpcAtShutdown' /\ RpcsNeverDropped'
  BY <1>12 DEF TypeOK, Reply
<1>13. CASE UNCHANGED vars
  BY <1>13 DEF vars
<1>14. QED
  BY <1>1, <1>2, <1>3, <1>4, <1>5, <1>6, <1>7, <1>8, <1>9, <1>10, <1>11, <1>12, <1>13 DEF Next

\* Where the goroutine stays where it is, no entry comes back and the middleware
\* learns of nobody without one, nothing changes.
LEMMA NoneComesBack ==
    ASSUME EntriesGone, TypeOK, UNCHANGED <<stopper, kept>>,
           \A s \in Server : Deregistered(s) /\ entry[s] = "none" =>
             /\ entry'[s] = "none"
             /\ s \in (listed' \cup answer') \ stale' => s \in (listed \cup answer) \ stale
    PROVE  EntriesGone'
  BY DEF EntriesGone, Deregistered

\* Every step keeps it: only register adds an entry, and only the goroutine's own
\* steps move it on.
LEMMA EntryStep == StopInv /\ [Next]_vars => EntriesGone'
<1> SUFFICES ASSUME StopInv, [Next]_vars PROVE EntriesGone'
  OBVIOUS
<1> USE DEF StopInv
<1>1. ASSUME stopper' \in {"none", "wait", "deregister"} PROVE EntriesGone'
  BY <1>1 DEF EntriesGone, Deregistered
<1>2. ASSUME UNCHANGED <<stopper, entry, discovery, stopHistory>> PROVE EntriesGone'
  BY <1>2, NoneComesBack DEF discovery, stopHistory
<1>3. ASSUME NEW s \in Server, RegisterOk(s) \/ RegisterFails(s) PROVE EntriesGone'
  BY <1>1, <1>3, RegisterStep
<1>4. CASE Sigterm \/ Kill \/ MainReturns
  BY <1>1, <1>4 DEF Sigterm, Kill, MainReturns, Ends
<1>5. ASSUME NEW s \in Server, Deregister(s) \/ DeregisterFails(s) PROVE EntriesGone'
  <2>1. ASSUME NEW t \in Server PROVE Deregistered(t)' <=> t = s \/ Deregistered(t)
    BY <1>5 DEF Deregister, DeregisterFails, Deregistering, DeregisterGoesOn, Deregistered, Server
  <2>2. CASE Deregister(s)
    BY <2>1, <2>2 DEF TypeOK, EntriesGone, Deregister, discovery
  <2>3. CASE DeregisterFails(s)
    BY <2>1, <2>3 DEF EntriesGone, DeregisterFails, discovery
  <2>4. QED
    BY <1>5, <2>2, <2>3
<1>6. CASE Shutdown
  BY <1>6 DEF EntriesGone, Deregistered, Shutdown, discovery, stopHistory
<1>7. ASSUME NEW s \in Server, Check(s) \/ CheckFails(s) \/ Reap(s) PROVE EntriesGone'
  <2>1. \A t \in Server : entry[t] = "none" => entry'[t] = "none"
    BY <1>7 DEF TypeOK, Check, CheckFails, Reap
  <2>2. UNCHANGED <<stopper, kept, stale, listed, answer>>
    BY <1>7 DEF Check, CheckFails, Reap, discovery, stopHistory
  <2>3. QED
    BY <2>1, <2>2, NoneComesBack
<1>8. ASSUME NEW gone \in SUBSET Server, Forget(gone) PROVE EntriesGone'
  <2>1. \A t \in Server : entry[t] = "none" => entry'[t] = "none"
    BY <1>8 DEF Forget
  <2>2. UNCHANGED <<stopper, kept, stale, listed, answer>>
    BY <1>8 DEF Forget, discovery, stopHistory
  <2>3. QED
    BY <2>1, <2>2, NoneComesBack
<1>9. ASSUME NEW s \in Server, Answer(s) \/ Refresh(s) PROVE EntriesGone'
  <2>1. /\ UNCHANGED <<stopper, kept, entry>>
        /\ stale' = stale \cap (listed' \cup answer')
    BY <1>9 DEF Answer, Refresh, KeepStale
  <2>2. \A t \in Server : entry[t] = "none" /\ t \in listed' \cup answer' => t \in listed \cup answer
    BY <1>9 DEF Answer, Refresh
  <2>3. QED
    BY <2>1, <2>2, NoneComesBack
<1>10. CASE Start
  BY <1>2, <1>10 DEF Start
<1>11. ASSUME NEW r \in Request, NEW s \in Server, Dispatch(r, s) \/ Reply(r) PROVE EntriesGone'
  BY <1>2, <1>11 DEF Dispatch, Reply
<1>12. CASE UNCHANGED vars
  BY <1>2, <1>12 DEF vars
<1>13. QED
  BY <1>3, <1>4, <1>5, <1>6, <1>7, <1>8, <1>9, <1>10, <1>11, <1>12 DEF Next, Server

\* They hold at the start.
LEMMA StopInvInit == Init => StopInv
  BY LifecycleAssumption
  DEF Init, StopInv, TypeOK, NoRpcAtShutdown, RpcsNeverDropped, EntriesGone, Deregistered, InFlight,
      Server, Outcome, Stopper

-----------------------------------------------------------------------------

\* The invariant holds in every reachable state.
THEOREM StopInductive == Spec => []StopInv
<1>1. StopInv /\ [Next]_vars => StopInv'
  BY TypeStep, RpcStep, EntryStep DEF StopInv
<1>2. QED
  BY StopInvInit, <1>1, PTL DEF Spec

\* Type correctness of the process, Consul's entries, the list and the requests.
THEOREM LifecycleTypes == Spec => []TypeOK
  BY StopInductive, PTL DEF StopInv

\* However main, Consul and the middleware interleave, an orderly stop drops no RPC.
THEOREM NoRpcDropped == Spec => []RpcsNeverDropped
  BY StopInductive, PTL DEF StopInv

\* However main, Consul and the middleware interleave, and whatever has failed before,
\* a server whose Deregister did not fail is out of Consul before it stops to accept,
\* and the middleware knows of it only from before that.
THEOREM OutOfConsulAlways == Spec => []OutOfConsulFirst
<1>1. StopInv => OutOfConsulFirst
  BY DEF StopInv, EntriesGone, Deregistered, OutOfConsulFirst, Server
<1>2. QED
  BY <1>1, StopInductive, PTL
=============================================================================
