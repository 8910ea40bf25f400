---------------------------- MODULE Middleware -----------------------------
(***************************************************************************)
(* The load balancer of one service: the list of instances that a loop     *)
(* refreshes from Consul, the round robin over it, and the pool of gRPC    *)
(* connections.  The balancers of the HTTP routes and of the gRPC services *)
(* are apart (Pooled tells which one this is): an HTTP call is dispatched  *)
(* once it has an instance, a gRPC call goes on to take the instance's     *)
(* connection from the pool.  Consul, and the health of the instances, are *)
(* external.                                                               *)
(***************************************************************************)
EXTENDS Integers, Sequences, FiniteSets, Functions

CONSTANTS
    Instance,       \* addresses of instances
    Call,           \* concurrent calls through the balancer
    NoInstance,     \* no instance picked
    NoAnswer,       \* the loop has no list to set
    Pooled,         \* whether this is the balancer of a gRPC service
    Counter,        \* the values of next before it wraps: 2^64 in the code
    MaxChanges,     \* bound: changes of the instances' health
    MaxPicks        \* bound: picks

ASSUME MiddlewareAssumption ==
    /\ IsFiniteSet(Instance)
    /\ NoInstance \notin Instance
    /\ "free" \notin Call
    /\ Pooled \in BOOLEAN
    /\ Counter \in Nat \ {0}
    /\ MaxChanges \in Nat
    /\ MaxPicks \in Nat

VARIABLES
    healthy,        \* the instances that pass their health check, for Consul
    answer,         \* the loop: NoAnswer, or a list received and not yet set
    instances,      \* balancer.instances
    next,           \* balancer.next
    readers,        \* the calls that hold balancer.mu for reading
    at,             \* where each call is
    target,         \* the instance each call last picked
    poolMu,         \* connPool.mu: who holds it, or "free"
    conns,          \* connPool.conns: the addresses that have a connection
    opened,         \* history: connections opened, per address
    hits,           \* history: picks per instance since the list changed
    changes,        \* health changes so far
    picks           \* picks so far

balancerVars == <<instances, next, hits, picks>>
poolVars == <<poolMu, conns, opened>>
callVars == <<readers, at, target>>
vars == <<healthy, answer, changes, balancerVars, poolVars, callVars>>

NoHits == [i \in Instance |-> 0]

\* The orders in which Consul may list a set of instances.
Listings(S) == {s \in [1 .. Cardinality(S) -> S] : IsInjective(s)}

\* A balancer without instances, as loadRoutes makes it.
Init ==
    /\ healthy = Instance
    /\ answer = NoAnswer
    /\ instances = <<>>
    /\ next = 0
    /\ readers = {}
    /\ at = [c \in Call |-> "idle"]
    /\ target = [c \in Call |-> NoInstance]
    /\ poolMu = "free"
    /\ conns = {}
    /\ opened = NoHits
    /\ hits = NoHits
    /\ changes = 0
    /\ picks = 0

\* Instances start, stop, fail or pass their check again.
HealthChanges ==
    /\ changes < MaxChanges
    /\ changes' = changes + 1
    /\ healthy' \in SUBSET Instance \ {healthy}
    /\ UNCHANGED <<answer, balancerVars, poolVars, callVars>>

\* queryConsul answers with the instances that pass.  When it returns an error
\* refreshAll goes on with the list it has, which is no step.
QueryConsul ==
    /\ answer = NoAnswer
    /\ answer' \in Listings(healthy)
    /\ UNCHANGED <<healthy, changes, balancerVars, poolVars, callVars>>

\* Mutant of SetInstances: the list is replaced without the write lock.
SetInstancesUnlocked ==
    /\ answer # NoAnswer
    /\ instances' = answer
    /\ hits' = IF answer = instances THEN hits ELSE NoHits
    /\ answer' = NoAnswer
    /\ UNCHANGED <<healthy, changes, next, picks, poolVars, callVars>>

\* Mutant of SetInstances: an empty list is taken for a failure of Consul.
SetInstancesUnlessEmpty ==
    /\ answer # NoAnswer
    /\ readers = {}
    /\ instances' = IF answer = <<>> THEN instances ELSE answer
    /\ hits' = IF answer = instances THEN hits ELSE NoHits
    /\ answer' = NoAnswer
    /\ UNCHANGED <<healthy, changes, next, picks, poolVars, callVars>>

\* setInstances replaces the list under the write lock.
SetInstances ==
    /\ answer # NoAnswer
    /\ readers = {}
    /\ instances' = answer
    /\ hits' = IF answer = instances THEN hits ELSE NoHits
    /\ answer' = NoAnswer
    /\ UNCHANGED <<healthy, changes, next, picks, poolVars, callVars>>

\* pick takes the read lock; with no instance the call is answered at once.
PickBegins(c) ==
    /\ at[c] = "idle"
    /\ picks < MaxPicks
    /\ instances # <<>>
    /\ readers' = readers \cup {c}
    /\ at' = [at EXCEPT ![c] = "pick"]
    /\ picks' = picks + 1
    /\ UNCHANGED <<healthy, answer, changes, instances, next, hits, target, poolVars>>

PickUnavailable(c) ==
    /\ at[c] = "idle"
    /\ picks < MaxPicks
    /\ instances = <<>>
    /\ target' = [target EXCEPT ![c] = NoInstance]
    /\ picks' = picks + 1
    /\ UNCHANGED <<healthy, answer, changes, instances, next, hits, readers, at, poolVars>>

\* Mutant of PickEnds: the counter is not atomic, and the number a pick adds to
\* is the one another call is about to add to.
PickEndsRacing(c) ==
    LET chosen == instances[(next % Len(instances)) + 1] IN
    /\ at[c] = "pick"
    /\ instances # <<>>
    /\ next' \in {next, (next + 1) % Counter}
    /\ target' = [target EXCEPT ![c] = chosen]
    /\ hits' = [hits EXCEPT ![chosen] = @ + 1]
    /\ readers' = readers \ {c}
    /\ at' = [at EXCEPT ![c] = IF Pooled THEN "get" ELSE "idle"]
    /\ UNCHANGED <<healthy, answer, changes, instances, picks, poolVars>>

\* Mutant of PoolOpen: the mutex is not released.
PoolOpenLocked(c) ==
    /\ at[c] = "open"
    /\ opened' = [opened EXCEPT ![target[c]] = @ + 1]
    /\ conns' = conns \cup {target[c]}
    /\ at' = [at EXCEPT ![c] = "idle"]
    /\ UNCHANGED <<healthy, answer, changes, balancerVars, readers, target, poolMu>>

\* next.Add(1) - 1, modulo the length of the list.  An HTTP call is dispatched;
\* a gRPC call goes to the pool.
PickEnds(c) ==
    LET chosen == instances[(next % Len(instances)) + 1] IN
    /\ at[c] = "pick"
    /\ instances # <<>>
    /\ next' = (next + 1) % Counter
    /\ target' = [target EXCEPT ![c] = chosen]
    /\ hits' = [hits EXCEPT ![chosen] = @ + 1]
    /\ readers' = readers \ {c}
    /\ at' = [at EXCEPT ![c] = IF Pooled THEN "get" ELSE "idle"]
    /\ UNCHANGED <<healthy, answer, changes, instances, picks, poolVars>>

\* Mutant of PoolGet: the map is looked up without the mutex.
PoolGetUnlocked(c) ==
    /\ at[c] = "get"
    /\ at' = [at EXCEPT ![c] = IF target[c] \in conns THEN "idle" ELSE "open"]
    /\ UNCHANGED <<healthy, answer, changes, balancerVars, readers, target, poolVars>>

\* connPool.get takes the mutex; a connection that is there is returned, and
\* the mutex released.
PoolGet(c) ==
    /\ at[c] = "get"
    /\ poolMu = "free"
    /\ IF target[c] \in conns
         THEN at' = [at EXCEPT ![c] = "idle"] /\ UNCHANGED poolMu
         ELSE at' = [at EXCEPT ![c] = "open"] /\ poolMu' = c
    /\ UNCHANGED <<healthy, answer, changes, balancerVars, readers, target, conns, opened>>

\* grpc.NewClient, the entry in the map, and the deferred Unlock.
PoolOpen(c) ==
    /\ at[c] = "open"
    /\ opened' = [opened EXCEPT ![target[c]] = @ + 1]
    /\ conns' = conns \cup {target[c]}
    /\ poolMu' = "free"
    /\ at' = [at EXCEPT ![c] = "idle"]
    /\ UNCHANGED <<healthy, answer, changes, balancerVars, readers, target>>

\* grpc.NewClient returns an error: nothing is stored, the mutex is released all the
\* same, and the call is answered with the error.
PoolOpenFails(c) ==
    /\ at[c] = "open"
    /\ poolMu' = "free"
    /\ at' = [at EXCEPT ![c] = "idle"]
    /\ UNCHANGED <<healthy, answer, changes, balancerVars, readers, target, conns, opened>>

Next ==
    \/ HealthChanges
    \/ QueryConsul
    \/ SetInstances
    \/ \E c \in Call : PickBegins(c)
    \/ \E c \in Call : PickUnavailable(c)
    \/ \E c \in Call : PickEnds(c)
    \/ \E c \in Call : PoolGet(c)
    \/ \E c \in Call : PoolOpen(c)
    \/ \E c \in Call : PoolOpenFails(c)

Spec == Init /\ [][Next]_vars

\* The ticker goes on and Consul keeps answering; a call that holds the lock goes
\* on; Go's RWMutex lets a waiting writer in before later readers.
FairSpec ==
    /\ Spec
    /\ WF_vars(QueryConsul)
    /\ SF_vars(SetInstances)
    /\ \A c \in Call : WF_vars(PickEnds(c))

-----------------------------------------------------------------------------

\* The types of all variables; a list names no instance twice, and each mutex is
\* held by exactly the calls that are inside it.
TypeOK ==
    /\ healthy \subseteq Instance
    /\ answer = NoAnswer \/ \E S \in SUBSET Instance : answer \in Listings(S)
    /\ \E S \in SUBSET Instance : instances \in Listings(S)
    /\ next \in 0 .. Counter - 1
    /\ readers = {c \in Call : at[c] = "pick"}
    /\ at \in [Call -> {"idle", "pick", "get", "open"}]
    /\ target \in [Call -> Instance \cup {NoInstance}]
    /\ {c \in Call : at[c] = "open"} = {poolMu} \ {"free"}
    /\ conns \subseteq Instance
    /\ opened \in [Instance -> Nat]
    /\ hits \in [Instance -> Nat]
    /\ changes \in 0 .. MaxChanges
    /\ picks \in 0 .. MaxPicks

\* A call that found the list non-empty still finds it so when it takes the
\* remainder by its length: a refresh cannot empty the list in between.
NoEmptyPick == \A c \in Call : at[c] = "pick" => instances # <<>>

\* Round robin: as long as the list is the same, whatever calls run side by side
\* and however often it is refreshed, no instance gets two picks more than
\* another.
RoundRobin ==
    \A i, j \in Range(instances) : hits[i] <= hits[j] + 1

\* The pool opens one connection to an address, however many calls ask for it at
\* once ("revisar si existe y si no crearla son varios pasos que pasan juntos").
OneConnection == \A i \in Instance : opened[i] <= 1

\* An instance that stays unhealthy leaves the list for good, and one that stays
\* healthy comes back, even when Consul's answers are old when they are applied.
ListFollowsHealth ==
    \A i \in Instance :
        /\ <>[](i \notin healthy) => <>[](i \notin Range(instances))
        /\ <>[](i \in healthy) => <>[](i \in Range(instances))

=============================================================================
