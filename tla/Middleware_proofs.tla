-------------------------- MODULE Middleware_proofs -------------------------
(***************************************************************************)
(* Proofs about Middleware, for any instances and any number of concurrent *)
(* calls: the two locks protect what they are there for, and the rotation  *)
(* is fair.  The inductive invariant ties the place of each call to the    *)
(* locks (Locks) and the pool's map to the connections opened (PoolInv).   *)
(* For the rotation, RotationInv says which instances of the list have had *)
(* one pick more than the others: those from the start of the round to the *)
(* turn.                                                                   *)
(***************************************************************************)
EXTENDS Middleware, FiniteSetTheorems, TLAPS

\* Who holds the read lock found the list non-empty, which no refresh can empty.
Locks ==
    /\ NoEmptyPick
    /\ \A c \in Call : at[c] \in {"get", "open"} => target[c] \in Instance

\* The map of the pool is what was opened; the call that is about to open a
\* connection holds the mutex since it found none.
PoolInv ==
    /\ \A i \in Instance : opened[i] = IF i \in conns THEN 1 ELSE 0
    /\ \A c \in Call : at[c] = "open" => target[c] \notin conns

\* The inductive invariant.
ProxyInv == TypeOK /\ Locks /\ PoolInv

-----------------------------------------------------------------------------

\* A listing is a sequence of instances, and one that is not empty has a first.
LEMMA ListingIsSeq ==
    ASSUME NEW S \in SUBSET Instance, NEW s \in Listings(S)
    PROVE  s \in Seq(Instance) /\ Len(s) \in Nat /\ (s # <<>> => Len(s) > 0)
<1>1. Cardinality(S) \in Nat
  BY MiddlewareAssumption, FS_Subset, FS_CardinalityType
<1>2. s \in [1 .. Cardinality(S) -> S]
  BY DEF Listings
<1>3. s \in Seq(S)
  BY <1>1, <1>2
<1>4. QED
  BY <1>3

\* The empty list is the listing of no instance.
LEMMA EmptyListing == <<>> \in Listings({})
<1>1. Cardinality({}) = 0
  BY FS_EmptySet
<1>2. <<>> \in [1 .. 0 -> {}]
  OBVIOUS
<1>3. IsInjective(<<>>)
  BY DEF IsInjective
<1>4. QED
  BY <1>1, <1>2, <1>3 DEF Listings

LEMMA ProxyInit == Init => ProxyInv
<1> SUFFICES ASSUME Init PROVE ProxyInv
  OBVIOUS
<1>1. \E S \in SUBSET Instance : instances \in Listings(S)
  BY EmptyListing DEF Init
<1>2. {c \in Call : at[c] = "open"} = {poolMu} \ {"free"}
  BY DEF Init
<1>3. TypeOK
  BY <1>1, <1>2, MiddlewareAssumption DEF Init, TypeOK, NoHits
<1>4. Locks /\ PoolInv
  BY DEF Init, Locks, NoEmptyPick, PoolInv, NoHits
<1>5. QED
  BY <1>3, <1>4 DEF ProxyInv

-----------------------------------------------------------------------------

\* What a pick returns is an instance.
LEMMA ChosenIsInstance ==
    ASSUME TypeOK, instances # <<>>
    PROVE  instances[(next % Len(instances)) + 1] \in Instance
<1>1. instances \in Seq(Instance) /\ Len(instances) > 0 /\ Len(instances) \in Nat
  BY ListingIsSeq DEF TypeOK
<1>2. next \in Nat
  BY MiddlewareAssumption DEF TypeOK
<1>3. (next % Len(instances)) + 1 \in 1 .. Len(instances)
  BY <1>1, <1>2
<1>4. QED
  BY <1>1, <1>3

\* The loop: its list is what Consul answered.
LEMMA DiscoveryStep ==
    ASSUME ProxyInv, HealthChanges \/ QueryConsul \/ SetInstances
    PROVE  ProxyInv'
<1> USE DEF ProxyInv
<1>1. CASE HealthChanges
  BY <1>1, MiddlewareAssumption
  DEF HealthChanges, TypeOK, Locks, NoEmptyPick, PoolInv, balancerVars, poolVars, callVars
<1>2. CASE QueryConsul
  BY <1>2 DEF QueryConsul, TypeOK, Locks, NoEmptyPick, PoolInv, balancerVars, poolVars, callVars
<1>3. CASE SetInstances
  <2>1. hits' \in [Instance -> Nat]
    BY <1>3 DEF SetInstances, TypeOK, NoHits
  <2>2. \E S \in SUBSET Instance : instances' \in Listings(S)
    BY <1>3 DEF SetInstances, TypeOK
  <2>3. \A c \in Call : at[c] # "pick"
    BY <1>3 DEF SetInstances, TypeOK
  <2>4. UNCHANGED <<healthy, changes, next, picks, poolVars, callVars>> /\ answer' = NoAnswer
    BY <1>3 DEF SetInstances
  <2>5. QED
    BY <2>1, <2>2, <2>3, <2>4 DEF TypeOK, Locks, NoEmptyPick, PoolInv, poolVars, callVars
<1>4. QED
  BY <1>1, <1>2, <1>3

\* A pick, under the read lock.
LEMMA PickStep ==
    ASSUME ProxyInv, NEW c \in Call, PickBegins(c) \/ PickUnavailable(c) \/ PickEnds(c)
    PROVE  ProxyInv'
<1> USE DEF ProxyInv
<1>1. CASE PickBegins(c)
  <2>1. picks' \in 0 .. MaxPicks
    BY <1>1, MiddlewareAssumption DEF PickBegins, TypeOK
  <2>2. QED
    BY <1>1, <2>1 DEF PickBegins, TypeOK, Locks, NoEmptyPick, PoolInv, poolVars
<1>2. CASE PickUnavailable(c)
  <2>1. picks' \in 0 .. MaxPicks
    BY <1>2, MiddlewareAssumption DEF PickUnavailable, TypeOK
  <2>2. QED
    BY <1>2, <2>1 DEF PickUnavailable, TypeOK, Locks, NoEmptyPick, PoolInv, poolVars
<1>3. CASE PickEnds(c)
  <2> DEFINE chosen == instances[(next % Len(instances)) + 1]
  <2>1. chosen \in Instance
    BY <1>3, ChosenIsInstance DEF PickEnds
  <2>2. next' \in 0 .. Counter - 1
    BY <1>3, MiddlewareAssumption DEF PickEnds, TypeOK
  <2>3. target' = [target EXCEPT ![c] = chosen] /\ hits' = [hits EXCEPT ![chosen] = @ + 1]
    BY <1>3 DEF PickEnds
  <2> HIDE DEF chosen
  <2>4. hits' \in [Instance -> Nat] /\ target' \in [Call -> Instance \cup {NoInstance}]
    BY <2>1, <2>3 DEF TypeOK
  <2>5. /\ readers' = readers \ {c}
        /\ at[c] = "pick"
        /\ \E place \in {"get", "idle"} : at' = [at EXCEPT ![c] = place]
        /\ UNCHANGED <<healthy, answer, changes, instances, picks, poolVars>>
    BY <1>3 DEF PickEnds
  <2>6. TypeOK'
    BY <2>2, <2>4, <2>5 DEF TypeOK, poolVars
  <2>7. Locks' /\ PoolInv'
    BY <2>1, <2>3, <2>5 DEF TypeOK, Locks, NoEmptyPick, PoolInv, poolVars
  <2>8. QED
    BY <2>6, <2>7
<1>4. QED
  BY <1>1, <1>2, <1>3

\* The pool, under its mutex.
LEMMA PoolStep ==
    ASSUME ProxyInv, NEW c \in Call, PoolGet(c) \/ PoolOpen(c) \/ PoolOpenFails(c)
    PROVE  ProxyInv'
<1> USE DEF ProxyInv
<1>1. CASE PoolGet(c)
  <2>1. \A d \in Call : at[d] # "open"
    BY <1>1 DEF PoolGet, TypeOK
  <2>2. CASE target[c] \in conns
    BY <1>1, <2>1, <2>2 DEF PoolGet, TypeOK, Locks, NoEmptyPick, PoolInv, balancerVars
  <2>3. CASE target[c] \notin conns
    <3>1. at' = [at EXCEPT ![c] = "open"] /\ poolMu' = c /\ c # "free"
      BY <1>1, <2>3, MiddlewareAssumption DEF PoolGet
    <3>2. QED
      BY <1>1, <2>1, <2>3, <3>1 DEF PoolGet, TypeOK, Locks, NoEmptyPick, PoolInv, balancerVars
  <2>4. QED
    BY <2>2, <2>3
<1>2. CASE PoolOpen(c)
  <2>1. poolMu = c /\ (\A d \in Call : at[d] = "open" => d = c) /\ target[c] \in Instance
    BY <1>2 DEF PoolOpen, TypeOK, Locks
  <2>2. target[c] \notin conns /\ opened[target[c]] = 0
    BY <1>2, <2>1 DEF PoolOpen, PoolInv
  <2>3. opened' \in [Instance -> Nat] /\ conns' \subseteq Instance
    BY <1>2, <2>1 DEF PoolOpen, TypeOK
  <2>4. TypeOK'
    BY <1>2, <2>1, <2>3 DEF PoolOpen, TypeOK, balancerVars
  <2>5. Locks' /\ PoolInv'
    BY <1>2, <2>1, <2>2 DEF PoolOpen, TypeOK, Locks, NoEmptyPick, PoolInv, balancerVars
  <2>6. QED
    BY <2>4, <2>5
<1>3. CASE PoolOpenFails(c)
  <2>1. poolMu = c /\ \A d \in Call : at[d] = "open" => d = c
    BY <1>3 DEF PoolOpenFails, TypeOK
  <2>2. at' = [at EXCEPT ![c] = "idle"] /\ poolMu' = "free" /\ at[c] = "open"
    BY <1>3 DEF PoolOpenFails
  <2>3. UNCHANGED <<healthy, answer, changes, balancerVars, readers, target, conns, opened>>
    BY <1>3 DEF PoolOpenFails
  <2>4. TypeOK'
    BY <2>1, <2>2, <2>3 DEF TypeOK, balancerVars
  <2>5. Locks' /\ PoolInv'
    BY <2>2, <2>3 DEF TypeOK, Locks, NoEmptyPick, PoolInv, balancerVars
  <2>6. QED
    BY <2>4, <2>5
<1>4. QED
  BY <1>1, <1>2, <1>3

\* The invariant holds in every reachable state.
THEOREM ProxyInductive == Spec => []ProxyInv
<1>1. ProxyInv /\ [Next]_vars => ProxyInv'
  <2> SUFFICES ASSUME ProxyInv, [Next]_vars PROVE ProxyInv'
    OBVIOUS
  <2>1. CASE UNCHANGED vars
    BY <2>1 DEF ProxyInv, TypeOK, Locks, NoEmptyPick, PoolInv, vars, balancerVars, poolVars, callVars
  <2>2. QED
    BY <2>1, DiscoveryStep, PickStep, PoolStep DEF Next
<1>2. QED
  BY ProxyInit, <1>1, PTL DEF Spec

-----------------------------------------------------------------------------

\* Type correctness: the list names no instance twice, each lock has its holders.
THEOREM MiddlewareTypes == Spec => []TypeOK
  BY ProxyInductive, PTL DEF ProxyInv

\* No pick takes a remainder by the length of an empty list.
THEOREM NoPickOfNothing == Spec => []NoEmptyPick
  BY ProxyInductive, PTL DEF ProxyInv, Locks

\* An address has one connection at most.
THEOREM OneConnectionAlways == Spec => []OneConnection
<1>1. ProxyInv => OneConnection
  BY DEF ProxyInv, PoolInv, OneConnection
<1>2. QED
  BY <1>1, ProxyInductive, PTL

-----------------------------------------------------------------------------

\* The position in the list, from 0, of the next pick.
Turn == next % Len(instances)

\* Whether a round that began at position s and has come to position t has
\* picked position k.
Picked(s, t, k) == IF s <= t THEN s <= k /\ k < t ELSE s <= k \/ k < t

\* Every position has had h picks, and one more if the round has picked it.
Balanced(hitsAt, L, s, t, h) ==
    \A k \in 0 .. L - 1 : hitsAt[k] = h + (IF Picked(s, t, k) THEN 1 ELSE 0)

\* The picks of the instance at each position.
HitsAt == [k \in 0 .. Len(instances) - 1 |-> hits[instances[k + 1]]]

\* Every increment of next was paid for by a pick, as those under way will be.
NextPaidFor ==
    /\ IsFiniteSet(readers)
    /\ next + Cardinality(readers) <= picks

Rotation ==
    instances # <<>> =>
        \E s \in 0 .. Len(instances) - 1, h \in Nat :
            Balanced(HitsAt, Len(instances), s, Turn, h)

\* Until there were as many picks as next has values, next does not wrap.
RotationInv == picks < Counter => NextPaidFor /\ Rotation

-----------------------------------------------------------------------------

\* The remainder, by its definition.
LEMMA Residue ==
    ASSUME NEW L \in Nat \ {0}, NEW q \in Nat, NEW r \in 0 .. L - 1
    PROVE  (L * q + r) % L = r
OBVIOUS

\* The remainders of two successive numbers are successive positions.
LEMMA ModNext ==
    ASSUME NEW n \in Nat, NEW L \in Nat \ {0}
    PROVE  (n + 1) % L = IF n % L = L - 1 THEN 0 ELSE (n % L) + 1
<1>1. PICK q \in Nat, r \in 0 .. L - 1 : n = L * q + r /\ r = n % L
  <2>1. n \div L \in Nat /\ n % L \in 0 .. L - 1 /\ n = L * (n \div L) + (n % L)
    OBVIOUS
  <2>2. QED
    BY <2>1
<1>2. CASE r = L - 1
  <2>1. n + 1 = L * (q + 1) + 0
    <3> DEFINE m == L * q
    <3>1. m \in Nat /\ L * (q + 1) = m + L
      OBVIOUS
    <3>2. n = m + r
      BY <1>1
    <3> HIDE DEF m
    <3>3. QED
      BY <1>2, <3>1, <3>2
  <2>2. (n + 1) % L = 0
    BY <2>1, Residue, q + 1 \in Nat, 0 \in 0 .. L - 1
  <2>3. QED
    BY <1>1, <1>2, <2>2
<1>3. CASE r # L - 1
  <2>1. n + 1 = L * q + (r + 1) /\ r + 1 \in 0 .. L - 1
    BY <1>1, <1>3
  <2>2. (n + 1) % L = r + 1
    BY <2>1, Residue
  <2>3. QED
    BY <1>1, <1>3, <2>2
<1>4. QED
  BY <1>2, <1>3

\* A pick of the position whose turn it is keeps the list balanced: the round
\* goes on, or the next one begins where it is complete.
LEMMA TurnKeepsBalance ==
    ASSUME NEW L \in Nat \ {0}, NEW f \in [0 .. L - 1 -> Nat],
           NEW s \in 0 .. L - 1, NEW t \in 0 .. L - 1, NEW h \in Nat,
           Balanced(f, L, s, t, h)
    PROVE  \E s2 \in 0 .. L - 1, h2 \in Nat :
               Balanced([f EXCEPT ![t] = @ + 1], L, s2, IF t = L - 1 THEN 0 ELSE t + 1, h2)
<1> DEFINE g == [f EXCEPT ![t] = @ + 1]
           u == IF t = L - 1 THEN 0 ELSE t + 1
<1>1. \A k \in 0 .. L - 1 : g[k] = IF k = t THEN f[k] + 1 ELSE f[k]
  OBVIOUS
<1>2. \A k \in 0 .. L - 1 : f[k] = h + (IF Picked(s, t, k) THEN 1 ELSE 0)
  BY DEF Balanced
<1>3. u \in 0 .. L - 1
  OBVIOUS
<1>4. f[t] = h
  BY <1>2 DEF Picked
<1> HIDE DEF g
<1>5. CASE s # u
  <2>1. \A k \in 0 .. L - 1 : g[k] = h + (IF Picked(s, u, k) THEN 1 ELSE 0)
    BY <1>1, <1>2, <1>4, <1>5 DEF Picked
  <2>2. QED
    BY <2>1 DEF Balanced, g
<1>6. CASE s = u
  <2>1. \A k \in 0 .. L - 1 : g[k] = (h + 1) + (IF Picked(u, u, k) THEN 1 ELSE 0)
    BY <1>1, <1>2, <1>4, <1>6 DEF Picked
  <2>2. h + 1 \in Nat
    OBVIOUS
  <2>3. QED
    BY <1>3, <2>1, <2>2 DEF Balanced, g
<1>7. QED
  BY <1>5, <1>6

\* A list that has had no pick is balanced, wherever the turn is.
LEMMA NoPicksBalanced ==
    ASSUME NEW L \in Nat \ {0}, NEW t \in 0 .. L - 1, NEW f,
           \A k \in 0 .. L - 1 : f[k] = 0
    PROVE  \E s \in 0 .. L - 1, h \in Nat : Balanced(f, L, s, t, h)
<1>1. Balanced(f, L, t, t, 0)
  BY DEF Balanced, Picked
<1>2. QED
  BY <1>1

\* A listing is a sequence without repetitions.
LEMMA ListingIsInjective ==
    ASSUME NEW S \in SUBSET Instance, NEW list \in Listings(S), list # <<>>
    PROVE  /\ Len(list) \in Nat \ {0}
           /\ list \in [1 .. Len(list) -> Instance]
           /\ \A j, k \in 1 .. Len(list) : list[j] = list[k] => j = k
<1>1. list \in Seq(Instance) /\ Len(list) > 0 /\ Len(list) \in Nat
  BY ListingIsSeq
<1>2. IsInjective(list)
  BY DEF Listings
<1>3. list \in [1 .. Len(list) -> Instance]
  BY <1>1
<1>4. QED
  BY <1>1, <1>2, <1>3 DEF IsInjective

\* The list in use, and the turn as a position of it.
LEMMA TheTurn ==
    ASSUME TypeOK, instances # <<>>
    PROVE  /\ Len(instances) \in Nat \ {0}
           /\ instances \in [1 .. Len(instances) -> Instance]
           /\ \A j, k \in 1 .. Len(instances) : instances[j] = instances[k] => j = k
           /\ next \in Nat
           /\ Turn \in 0 .. Len(instances) - 1
<1>1. PICK S \in SUBSET Instance : instances \in Listings(S)
  BY DEF TypeOK
<1>2. next \in Nat
  BY MiddlewareAssumption DEF TypeOK
<1>3. QED
  BY <1>1, <1>2, ListingIsInjective DEF Turn

LEMMA RotationInit == Init => RotationInv
  BY FS_EmptySet DEF Init, RotationInv, NextPaidFor, Rotation

\* A refresh with the same list changes nothing; a new list starts without picks.
LEMMA RefreshKeepsRotation ==
    ASSUME TypeOK, TypeOK', RotationInv, SetInstances
    PROVE  RotationInv'
<1> SUFFICES ASSUME picks < Counter, instances' # <<>> PROVE Rotation'
  BY DEF RotationInv, SetInstances, NextPaidFor, callVars, Rotation
<1>1. Rotation
  BY DEF RotationInv
<1>2. CASE answer = instances
  BY <1>1, <1>2 DEF SetInstances, Rotation, HitsAt, Turn
<1>3. CASE answer # instances
  <2>1. hits' = NoHits
    BY <1>3 DEF SetInstances
  <2>2. /\ Len(instances') \in Nat \ {0}
        /\ instances' \in [1 .. Len(instances') -> Instance]
        /\ Turn' \in 0 .. Len(instances') - 1
    <3>1. PICK S \in SUBSET Instance : instances' \in Listings(S)
      BY DEF TypeOK
    <3>2. next' \in Nat
      BY MiddlewareAssumption DEF TypeOK
    <3>3. QED
      BY <3>1, <3>2, ListingIsInjective DEF Turn
  <2>3. \A k \in 0 .. Len(instances') - 1 : HitsAt'[k] = 0
    BY <2>1, <2>2 DEF HitsAt, NoHits
  <2>4. QED
    BY <2>2, <2>3, NoPicksBalanced DEF Rotation
<1>4. QED
  BY <1>2, <1>3

\* A pick takes the position whose turn it is and hands the turn to the one after.
LEMMA PickKeepsRotation ==
    ASSUME TypeOK, RotationInv, NEW c \in Call, PickEnds(c)
    PROVE  RotationInv'
<1> SUFFICES ASSUME picks < Counter PROVE NextPaidFor' /\ Rotation'
  BY DEF RotationInv, PickEnds
<1>1. NextPaidFor /\ Rotation
  BY DEF RotationInv
<1>2. /\ c \in readers
      /\ readers' = readers \ {c}
      /\ instances # <<>>
      /\ UNCHANGED <<instances, picks>>
  BY DEF PickEnds, TypeOK
<1>3. next' = next + 1
  <2>1. Cardinality(readers) \in Nat /\ Cardinality(readers) # 0
    BY <1>1, <1>2, FS_CardinalityType, FS_EmptySet DEF NextPaidFor
  <2>2. next \in Nat /\ picks \in Nat /\ Counter \in Nat
    BY MiddlewareAssumption DEF TypeOK
  <2>3. next + 1 \in 0 .. Counter - 1
    BY <1>1, <2>1, <2>2 DEF NextPaidFor
  <2>4. next' = (next + 1) % Counter
    BY DEF PickEnds
  <2>5. QED
    BY <2>2, <2>3, <2>4
<1>4. NextPaidFor'
  <2>1. IsFiniteSet(readers') /\ Cardinality(readers') = Cardinality(readers) - 1
    BY <1>1, <1>2, FS_RemoveElement DEF NextPaidFor
  <2>2. Cardinality(readers) \in Nat /\ next \in Nat /\ picks \in Nat
    BY <1>1, FS_CardinalityType, MiddlewareAssumption DEF NextPaidFor, TypeOK
  <2>3. QED
    BY <1>1, <1>2, <1>3, <2>1, <2>2 DEF NextPaidFor
<1>5. Rotation'
  <2> DEFINE L == Len(instances)
  <2>1. /\ L \in Nat \ {0}
        /\ instances \in [1 .. L -> Instance]
        /\ \A j, k \in 1 .. L : instances[j] = instances[k] => j = k
        /\ next \in Nat
        /\ Turn \in 0 .. L - 1
    BY <1>2, TheTurn
  <2>2. hits' = [hits EXCEPT ![instances[Turn + 1]] = @ + 1] /\ hits \in [Instance -> Nat]
    BY DEF PickEnds, Turn, TypeOK
  <2>3. Turn' = IF Turn = L - 1 THEN 0 ELSE Turn + 1
    BY <1>2, <1>3, <2>1, ModNext DEF Turn
  <2>4. HitsAt \in [0 .. L - 1 -> Nat]
    BY <2>1, <2>2 DEF HitsAt
  <2>5. HitsAt' = [HitsAt EXCEPT ![Turn] = @ + 1]
    <3>1. \A k \in 0 .. L - 1 :
              hits'[instances[k + 1]] = IF k = Turn THEN hits[instances[k + 1]] + 1 ELSE hits[instances[k + 1]]
      <4> SUFFICES ASSUME NEW k \in 0 .. L - 1
                   PROVE  hits'[instances[k + 1]] = IF k = Turn THEN hits[instances[k + 1]] + 1 ELSE hits[instances[k + 1]]
        OBVIOUS
      <4>1. k + 1 \in 1 .. L /\ Turn + 1 \in 1 .. L
        BY <2>1
      <4>2. instances[k + 1] = instances[Turn + 1] => k = Turn
        BY <2>1, <4>1
      <4>3. instances[k + 1] \in Instance /\ instances[Turn + 1] \in Instance
        BY <2>1, <4>1
      <4>4. QED
        BY <2>2, <4>2, <4>3
    <3>2. HitsAt' = [k \in 0 .. L - 1 |-> hits'[instances[k + 1]]]
      BY <1>2 DEF HitsAt
    <3>3. QED
      BY <3>1, <3>2 DEF HitsAt
  <2>6. PICK s \in 0 .. L - 1, h \in Nat : Balanced(HitsAt, L, s, Turn, h)
    BY <1>1, <1>2 DEF Rotation
  <2>7. \E s2 \in 0 .. L - 1, h2 \in Nat : Balanced(HitsAt', L, s2, Turn', h2)
    <3> HIDE DEF L
    <3>1. QED
      BY <2>1, <2>3, <2>4, <2>5, <2>6, TurnKeepsBalance
  <2>8. QED
    BY <1>2, <2>7 DEF Rotation
<1>6. QED
  BY <1>4, <1>5

\* A call that begins a pick pays for the increment it is going to do.
LEMMA BeginKeepsRotation ==
    ASSUME TypeOK, RotationInv, NEW c \in Call, PickBegins(c) \/ PickUnavailable(c)
    PROVE  RotationInv'
<1> SUFFICES ASSUME picks' < Counter PROVE NextPaidFor' /\ Rotation'
  BY DEF RotationInv
<1>1. picks \in Nat /\ next \in Nat /\ Counter \in Nat /\ picks' = picks + 1
  BY MiddlewareAssumption DEF TypeOK, PickBegins, PickUnavailable
<1>2. NextPaidFor /\ Rotation
  BY <1>1 DEF RotationInv
<1>3. UNCHANGED <<instances, next, hits>>
  BY DEF PickBegins, PickUnavailable
<1>4. Cardinality(readers) \in Nat
  BY <1>2, FS_CardinalityType DEF NextPaidFor
<1>5. IsFiniteSet(readers') /\ Cardinality(readers') <= Cardinality(readers) + 1
  <2>1. CASE PickBegins(c)
    <3>1. readers' = readers \cup {c} /\ IsFiniteSet(readers)
      BY <1>2, <2>1 DEF PickBegins, NextPaidFor
    <3>2. QED
      BY <1>4, <3>1, FS_AddElement
  <2>2. CASE PickUnavailable(c)
    BY <1>2, <1>4, <2>2 DEF PickUnavailable, NextPaidFor
  <2>3. QED
    BY <2>1, <2>2
<1>6. Cardinality(readers') \in Nat
  BY <1>5, FS_CardinalityType
<1>7. NextPaidFor'
  BY <1>1, <1>2, <1>3, <1>4, <1>5, <1>6 DEF NextPaidFor
<1>8. Rotation'
  BY <1>2, <1>3 DEF Rotation, HitsAt, Turn
<1>9. QED
  BY <1>7, <1>8

LEMMA RotationStep ==
    ASSUME TypeOK, TypeOK', RotationInv, [Next]_vars
    PROVE  RotationInv'
<1>1. CASE UNCHANGED <<balancerVars, readers>>
  BY <1>1 DEF RotationInv, NextPaidFor, Rotation, HitsAt, Turn, balancerVars
<1>2. CASE HealthChanges \/ QueryConsul \/ (\E c \in Call : PoolGet(c) \/ PoolOpen(c) \/ PoolOpenFails(c)) \/ UNCHANGED vars
  BY <1>1, <1>2 DEF HealthChanges, QueryConsul, PoolGet, PoolOpen, PoolOpenFails, callVars, vars
<1>3. QED
  BY <1>2, RefreshKeepsRotation, PickKeepsRotation, BeginKeepsRotation DEF Next

\* The invariant of the rotation gives what a caller sees: who is a pick ahead.
LEMMA BalancedIsRoundRobin ==
    ASSUME TypeOK, RotationInv, picks < Counter
    PROVE  RoundRobin
<1> SUFFICES ASSUME NEW i \in Range(instances), NEW j \in Range(instances)
             PROVE  hits[i] <= hits[j] + 1
  BY DEF RoundRobin
<1>1. instances # <<>>
  <2>1. CASE instances = <<>>
    BY <2>1 DEF Range
  <2>2. QED
    BY <2>1
<1>2. Len(instances) \in Nat \ {0} /\ DOMAIN instances = 1 .. Len(instances)
  BY <1>1, TheTurn
<1>3. PICK s \in 0 .. Len(instances) - 1, h \in Nat :
          Balanced(HitsAt, Len(instances), s, Turn, h)
  BY <1>1 DEF RotationInv, Rotation
<1>4. \A n \in 1 .. Len(instances) : hits[instances[n]] \in {h, h + 1}
  <2> SUFFICES ASSUME NEW n \in 1 .. Len(instances) PROVE hits[instances[n]] \in {h, h + 1}
    OBVIOUS
  <2>1. n - 1 \in 0 .. Len(instances) - 1 /\ (n - 1) + 1 = n
    BY <1>2
  <2>2. HitsAt[n - 1] = hits[instances[n]]
    BY <2>1 DEF HitsAt
  <2>3. HitsAt[n - 1] = h + (IF Picked(s, Turn, n - 1) THEN 1 ELSE 0)
    BY <1>3, <2>1 DEF Balanced
  <2>4. QED
    BY <2>2, <2>3
<1>5. hits[i] \in {h, h + 1} /\ hits[j] \in {h, h + 1}
  BY <1>2, <1>4 DEF Range
<1>6. QED
  BY <1>5

\* Round robin: as long as next has not run through all its values, no instance
\* of the list gets two picks more than another, whatever calls run side by side.
THEOREM RoundRobinUntilWrap == Spec => [](picks < Counter => RoundRobin)
<1>1. TypeOK /\ TypeOK' /\ RotationInv /\ [Next]_vars => RotationInv'
  BY RotationStep
<1>2. TypeOK /\ RotationInv => (picks < Counter => RoundRobin)
  BY BalancedIsRoundRobin
<1>3. QED
  BY <1>1, <1>2, MiddlewareTypes, RotationInit, PTL DEF Spec
=============================================================================
