# XSIAM-sito in TLA+

This directory holds a specification of the program in `../src`: a small
security dashboard made of three Go services (accounts, events, status), a load
balancing middleware in front of them, Consul for discovery, Kafka between the
services, and a Next.js dashboard that polls them.  The modules model the parts
that are hard to get right (concurrent handlers, consumer groups, crashes,
redelivery, shutdown, stale lists, late answers); the `MC*` modules and `.cfg`
files check them with TLC on small instances; the `*_proofs` modules prove the
safety properties and the action properties of all of them for all values of the
constants with TLAPS.  `PROJECT.json` maps every definition to the source lines
it stands for and lists runs, mutants, findings, hazards and theorems.

Paths below are relative to `../src`.

## 1. The system

```
dashboard --HTTP--> middleware --HTTP/gRPC--> accounts --accounts.activity--> events --events.created--> status
 (browser)            |    ^                     (Kafka, 3 partitions, keyed by event type)
                      v    | every 5 s
                     Consul <-- register / deregister, checks every 5 s
```

| Component | State it keeps | Operations | Talks to |
|---|---|---|---|
| `kafkax` (`*/internal/kafkax`, one file compiled into three modules) | reader position, message in hand, attempt | `Consume`, `processWithRetry`, `NewWriter`, `EnsureTopic` | Kafka; the handler of its service |
| accounts (`backend/`) | table `accounts`, unique index on the username | `Register`, `Login` over HTTP and gRPC; `Publish` of `KafkaPublisher`, `GRPCPublisher` or `Noop`, in a goroutine | Postgres, topic `accounts.activity`, or events over gRPC |
| events (`events/`) | table `events`; group `events-writer`; the DLQ | consumer handler, generator, `Create`/`List`/`Get` over HTTP and gRPC; `PublishingRepository` | Postgres, `accounts.activity`, `.dlq`, `events.created` |
| status (`status/`) | `Tracker` in memory behind one mutex; sqlite table of checks; group `status-counter` | `RegisterEvent`, `RegisterCheck`, `Snapshot`, `EventCounts`; `Status` (HTTP), `GetStatus` (gRPC) | sqlite, `events.created` |
| middleware (`middleware/`) | per service a list of instances and a round robin counter; pool of gRPC connections | discovery loop, `pick`, `connPool.get`, HTTP and gRPC proxies | Consul, the services |
| life of an instance (`*/cmd/api/main.go`, `*/internal/consul`) | its two entries in Consul, its two listeners | start, `Register`, `RegisterGRPC`, SIGTERM, `Deregister`, `GracefulStop`, `Shutdown` | Consul, docker |
| dashboard (`src/app/home/page.tsx`, `src/components`, `src/lib`) | list, highest id seen, lit rows, toasts | polling loop, toasts, table, panel, login page | the middleware |
| generated gRPC code (`*/gen`) | – | messages, client stubs, the servers' dispatch | between middleware and services |
| nginx gateway, docker compose, scripts | – | configuration | – |

### What is hard, and what makes each part correct

* **kafkax and events.** The consumer commits by hand after the handler, three
  attempts and a dead letter queue; a SIGTERM cancels the context all of these
  share; main does not wait for the goroutine; the process may die anywhere; the
  generator and the handlers write to the same table at the same time.  Correct:
  the group is never past a message whose fate is open, fates are the right
  ones, the table keeps each partition's order, repetitions are only ever caused
  by faults, and a message that always fails does not block its partition.
* **The group.** Two instances of events, or of status, share the partitions; a
  rebalance may take one away while a message of it is in hand, and its earlier
  owner handles and commits it late.  Correct: no message is passed over, and one
  is handled once at most for each generation in which it is fetched.
* **status.** Counters in memory, offsets in the broker, rows in sqlite; one
  mutex held over an INSERT and wanted by everyone.  Correct: counters cover what
  the group moved past since the process started, answers are consistent and
  grow, failed INSERTs are accounted for, nobody waits forever.
* **accounts.** Registrations of one name race with only the unique index
  between them; INSERTs fail with or without effect; announcements leave from
  goroutines nothing waits for.  Correct: one account per name, a told success is
  durable, and events is told what happened and nothing else.
* **middleware.** The list is tested, indexed and replaced concurrently; the pool
  tests and inserts.  Correct: never a remainder by zero, a fair round robin, one
  connection per address, and a list that ends up following health.
* **A call, all the way.** Caller, proxy, connection and handler fail apart from
  each other, and instances share a database.  Correct: executed at most once,
  nobody is told what is not so, what was acknowledged is found by every later
  call, and everyone gets an answer.
* **Life of an instance.** Retries of the registration, two kinds of listeners,
  a signal that may come before its handler exists, and three views of whether
  the instance lives (itself, Consul, the middleware).  Correct: an orderly stop
  drops no RPC, leaves Consul first and ends, and the list ends up right.
* **Dashboard.** Polls that fail, answers that come to a cancelled run of the
  effect, ids handed out before their rows can be seen.  Correct: one toast per
  event, none swallowed, a list that never goes back and catches up.

`PROJECT.json` ("hazards") lists each of these at its line with the properties
that cover it, or a note saying why none does.

## 2. Modules

| Module | Models | Built on |
|---|---|---|
| `Topic` | what producers and consumers agree on: partitions, keys | – |
| `Consume` | `kafkax.Consume`, `processWithRetry`, the goroutine that re-enters it, SIGTERM, death, restart | `Topic` |
| `EventsStore` | the `events` table and `events.created`; `PublishingRepository.Create` as two steps | `Topic` |
| `EventsService` | the handler of `accounts.activity`, the DLQ, and the other callers of `Create` | `Consume`, `EventsStore` |
| `AtLeastOnce` | what a consumer group of one member promises (abstract; models no code) | – |
| `SharedGroup` | what is left of it when several members share the group (abstract; models no code) | – |
| `Group` | several members of one group: assignments, hand-over, late commits | – |
| `StatusService` | the `Tracker`, its consumer and its two handlers | `Consume` |
| `Accounts` | `Register`, `Login`, the three publishers | `Topic` |
| `Middleware` | discovery loop, balancer, gRPC connection pool | – |
| `Rpc` | a call of any method from its caller through the proxies to a handler and back: messages, stubs, connections, handlers, tables | – |
| `Lifecycle` | registration, shutdown, Consul's entry, the middleware's list, requests | – |
| `Dashboard` | the polling effect of `/home` and the toasts | – |
| `MC...` | values of the constants for TLC | the module of the same name |
| `EventsService_proofs`, `StatusService_proofs` | theorems, after the lemmas about `Consume` that each needs | the module of the same name |
| `Group_proofs`, `Accounts_proofs`, `Middleware_proofs`, `Lifecycle_proofs`, `Rpc_proofs`, `Dashboard_proofs` | theorems | the module of the same name |

`EventsService` and `StatusService` compose their service's own behaviour with
the same `Consume`: `HandlerOk`, `HandlerFails` and `GiveUp` say what the
consumer goroutine does, and the service conjoins what its handler does to its
own state.  `AtLeastOnce` is instantiated in `EventsService` with
`settled <- Settled`, the messages that are a row, in the DLQ, or given up;
`SharedGroup` in `Group` with `settled`, the messages that some member has handled.

### How state and actions correspond to the code

* **Consume.** `pc` is the place of the goroutine: `fetch` is `FetchMessage`
  (kafkax.go:80), `handle` the handler's call (:108), `retry` the `select` of
  `processWithRetry` (:112), `giveup` the branch of :89, `commit`
  `CommitMessages` (:98), `loop` the `for ctx.Err() == nil` of the service's own
  goroutine.  `position` is the reader's offset, `committed` the broker's,
  `cancelled` is `appCtx`.  A message is named by where it lies, `<<p, i>>`.  The
  kafka-go reader and the broker are external: a fetch or a commit may fail, and
  a commit that fails may have been applied.  Every failure, SIGTERM and crash
  takes one of `MaxFaults`; failures that follow from a cancelled context are
  free.
* **EventsService.** `Create` is `Insert` (row, not announced; `saved` holds it)
  and `PublishCreated`; a death in between loses the announcement
  (`WorkersLost`).  `InsertUnacked` is an INSERT whose answer was lost.
  `dropped` is a history variable: given up, and the DLQ write failed.
* **Group.** The same loop seen from the broker: a message is handled in one step,
  `done` are the members that are inside `CommitMessages`.  A message in hand carries
  the generation in which it was fetched, and `times` counts the handlings of each
  such fetch: two members may handle one message in the same generation, when one of
  them fetched it in an earlier one, and these are two fetches.  `generation`, `owner`
  and `members` are the broker's; `joined`, `mine` and `position` what a member's
  reader knows, which the reader's own goroutine changes while the handler runs.
  kafka-go keeps no generation with a message: `Commit` is sent in the generation
  the member is in by then, and the broker checks no more than that.  A commit of
  an ended generation is refused and `Consume` returns (`CommitRefused`).
* **StatusService.** Each acquisition of `Tracker.mu` is a step of its own;
  `RegisterEvent` and `RegisterCheck` are two steps each with the mutex held, so
  that a missing lock shows.  `born` and `times` are history: offsets and rows
  when this life of the process began, and how often a message was counted in it.
  The uptime is left out.
* **Accounts.** A request goes `open` → `decided` → `published` → `answered`.
  HTTP and gRPC have the same rules and are one action each; codes are the HTTP
  ones.  `publisher` is the one main has made: `WriteActivity` is the goroutine of
  `KafkaPublisher`, `CreateEvent` that of `GRPCPublisher`, and `Noop` has none.
  bcrypt is equality of passwords.  `before` (requests answered when this one came),
  `published` and `lost` are history.
* **Middleware.** One balancer; the read lock of `pick` is `readers`, and the
  loop's answer (`answer`) is separate from setting it, so it may be old.
  Consul's order of the instances is arbitrary.  `Pooled` tells a balancer of a
  gRPC service, whose calls go on to the pool, from one of an HTTP route.
  `PoolOpen` and `PoolOpenFails` are the two ways in which `connPool.get` returns
  with a new address; the second needs an address that `grpc.NewClient` cannot parse,
  so in `Rpc`, whose addresses come from Consul, it is left out.
* **Rpc.** One service is called, any of the three.  `call[c]` is the call as its
  caller sees it (`caller`, `told`) and as its handler does (`handler`, `method`,
  `in`, `code`, `out`), which part when the caller gives up or the connection
  breaks.  `Arrives` is the middleware's server, which hands the call to the proxy's
  method, `Ask` is `pick`, `Invoke` the generated stub with grpc-go under it
  (which fails at once while it waits to dial again: `broken`, `Redial`),
  `ServeHTTP` `net/http/httputil`'s proxy, `Reply` what the proxy returns.  A
  handler is one step, since each makes one statement on the database; the steps of
  the tracker's are in `StatusService`, and here its row counts in `applied` like those
  of the other tables.  `away` and `excused` are history: the instances that are down,
  or back and not yet dialled again, and the calls that found theirs so at some moment.  The generated messages are sets of records
  with their fields; `created_at` and `uptime` are left out.  What the
  handlers refuse, and their codes, are those of the gRPC servers; HTTP has a code
  for each.
* **Lifecycle.** `place` is main, `stopper` the goroutine that waits for the
  signal, `entry` Consul's two entries, `listed` what the middleware has, `answer` what
  Consul last answered it, which it may set late.  `kept` (the servers whose own
  `Deregister` failed in this stop) and `stale` (what the middleware already knew when
  an entry was taken out) are history.
  `MainReturns` may happen as soon as `Shutdown` has begun, which is when
  `ListenAndServe` returns.  Before `signal.Notify` a SIGTERM ends the process.
  `Reap` is `DeregisterCriticalServiceAfter` for a process that is down, or whose
  registration is being tried again, which may take minutes; `Forget`
  is the same for one that lives and was not heard of for a minute, or a restart of
  Consul, which runs with `-dev` and keeps its entries in memory.  Nobody registers
  a second time, and `lost` remembers which entries went that way.
* **Dashboard.** `InsertBegins` hands an id out, `InsertCommits` makes its row
  visible, in any order.  A run of the effect is a member of `Run`; `RunsAgain`
  is the cleanup followed by a new run with React's state and refs kept
  (StrictMode, Fast Refresh).  `lastMaxId`, `events`, `freshIds`, `toasts`,
  `live` are the variables of the same names.  The order of the list, by
  `created_at`, need not be that of the ids, so `Alerts` takes any.

Mutants (operators introduced by "Mutant of ...") are plausible bugs, at least
one per property; they are not part of any specification.

## 3. What the runs check

Every run finishes within about two and a half minutes with two workers.  `CHECK_DEADLOCK FALSE` appears where the bounds on
messages, requests or faults let a behaviour come to rest.

| Run | Shows | Bounds, and why they are enough |
|---|---|---|
| `events_outage` | `TypeOK`, `RowsInOrder`, `DuplicatesCostFaults`, `ExactlyOnceWithoutFaults`, `CommittedAreSettled`, `ImplementsAtLeastOnce`, `Drains` | One partition, 3 messages good or malformed, 3 faults, one other caller of `Create` with one row. Three faults are enough for a lost answer, a failed commit and a crash in one behaviour; three messages for a redelivery with messages on both sides, and for one that always fails between two others. The proofs cover any number of partitions. |
| `group` | `RepeatsCostGenerations`, `BackOnlyByALateCommit`, `ImplementsSharedGroup` | Two members, two partitions, 3 messages in each, 3 rebalances, 1 crash or failed commit; symmetric in members and partitions (about 6 million states). Three rebalances take a partition away, back and away again; three messages let another member commit beyond a message in hand. |
| `events_lost` | *violates* `NothingLost` | one message and one fault |
| `status` | `TypeOK`, `CountedSinceStart`, `AnswersConsistent`, `ChecksAccountForRows`, `AnswersGrow`, `NobodyStuck` | Two callers and the consumer, 3 requests, 2 messages, 2 faults: every pair of mutex holders meets, across a restart, and between two answers to one caller there is room for a call of the other. |
| `accounts` | `TypeOK`, `OneAccountPerUser`, `RegisteredCanLogin`, `ActivityTellsAnswers` | Three requests of any kind over 2 names and 3 passwords, one fault, up to 2 copies of a notice; symmetric in the requests. Three is what it takes for two registrations and a login. Each of the three publishers is a choice of `Init`. |
| `accounts_order` | *violates* `SameTypeInOrder` | two requests, no fault |
| `middleware` | `TypeOK`, `NoEmptyPick`, `RoundRobin`, `OneConnection`, `ListFollowsHealth` | Two calls at once, two instances, 2 changes of health, 4 picks: a list that empties and fills again under a call, two rounds. `Counter` is 64 (2^64 in the code), so `next` does not wrap; calls of a gRPC service (`Pooled`), which do all that calls of an HTTP route do and more. |
| `dashboard` | `TypeOK`, `AlertedOnce`, `NoAlertSwallowed`, `NeverGoesBack`, `CatchesUp` | Three grave events, `MAX_TOASTS` 2 (so that it is exceeded), two runs of the effect, one failed poll. |
| `dashboard_late` | *violates* `HighestIdTellsNew` | the same |
| `lifecycle` | `TypeOK`, `RpcsNeverDropped`, `OutOfConsulFirst`, `ListTellsLife`, `StopEnds` | Two requests, two starts, 3 attempts to register (10 in the code) and 3 faults, so that registration may give up, entries be lost, and a start after a kill find the killed one's entries in Consul and in the list. |
| `lifecycle_cut` | *violates* `NothingCut` | no fault |
| `rpc` | `TypeOK`, `ExecutedOnce`, `ReadsAreCurrent`, `UnavailableHasACause`, `EveryCallAnswered` | Two calls of any method, one after or beside the other, two instances, 2 faults (deaths, failed database calls), field values present or absent. Two calls are a write and the read that must see it; two instances let the read go to the other one. |

### Fairness

`FairSpec` of each module says no more than the code's scheduling gives:

* `EventsService`, `StatusService`: weak fairness of the consumer goroutine (it is
  runnable, its timers fire, its calls have timeouts or end with the context)
  and of the handlers of status.  Nothing is owed by producers, by SIGTERM, or by
  whoever restarts the process: `Drains` and `NobodyStuck` assume a process that
  stays up (`<>[]Running`).
* `Middleware`: the ticker goes on and Consul answers; strong fairness of
  `SetInstances`, because Go's `RWMutex` lets a waiting writer in before later
  readers; a call that holds the read lock goes on.
* `Lifecycle`: Consul's checks and the middleware's loop go on, and so does the
  goroutine that stops the process, once a SIGTERM has woken it.  Nobody is owed a
  start, a registration or an answer; `StopEnds` assumes that RPCs in flight end,
  since `GracefulStop` waits for them without a limit.
* `Rpc`: the goroutines of middleware and instances and grpc-go's backoff go on; no
  instance is owed a restart.
* `Dashboard`: timers fire and requests are answered; `CatchesUp` assumes that
  the tab stays in view.

### Findings

Four runs show that the code does something else than a comment beside it says.

1. `events_lost`: "si un mensaje falla todos los intentos se manda ahi"
   (kafkax.go:66).  When SIGTERM cancels the context while a message is in hand,
   the handler fails, the DLQ write is given the same cancelled context and
   fails too (only logged, :92), and the commit may still be applied when the
   reader is closed: the message is neither a row nor in the DLQ.
2. `accounts_order`: "mismo tipo -> misma particion -> orden"
   (kafka_publisher.go:46).  Each `Publish` runs in a goroutine of its own and
   nothing orders them before they reach the writer.
3. `dashboard_late`: "el id mas alto que ya vimos y con eso se sabe cual evento es
   nuevo" (page.tsx:44).  A row committed after a higher id was seen comes into
   the list without a toast.
4. `lifecycle_cut`: "apagamos los dos servidores sin cortar nada"
   (events main.go:105).  `ListenAndServe` returns when `Shutdown` begins, main
   returns, and HTTP requests in flight are cut.  `RpcsNeverDropped` shows that
   RPCs are not, because `GracefulStop` comes first.

Three more things the models show, which are no run of their own:

* After `Deregister` the servers stop at once (main.go:112-116), while the
  middleware renews its list every 5 s: until then requests are sent to a server
  that refuses them.  "pa que nadie le mande trafico mientras se apaga"
  (consul.go:135) holds of Consul (`OutOfConsulFirst`), and of the middleware only as far as what it is told anew.
* When partitions are handed over, an earlier owner's late commit may move the
  group back, and so may, after it, an on-time commit of the owner
  (`BackOnlyByALateCommit` is as much as can be said).  So a group of several
  members does not implement `AtLeastOnce`, whose offsets never go back, but the weaker
  `SharedGroup`: messages of a partition are handled for the first time in their order,
  and the offset is never beyond what is handled.  The whole table keeps the order of
  a partition for one member only: the row that an earlier owner makes a second time may
  come after rows of later messages.
* An entry that Consul has dropped while the process lives is never put back
  (`ListTellsLife` says which instances come to be listed in spite of it).

## 4. What is proved

The theorems hold for any sets of partitions, messages, members, instances,
requests and calls and any bounds, from the named `ASSUME`s of the modules, which
give types to the constants (the partition of a key, `MaxAttempts` at least 1,
finite sets where something is counted, model values apart from what they stand
beside).  Every invariant and every action property that a passing run checks is
stated by one of them.

| Theorem | Statement |
|---|---|
| `EventsService_proofs!Inductive`, `TypeCorrectness` | `Spec => []IInv`, `[]TypeOK` |
| `EventsService_proofs!NothingSkippedAlways` | `Spec => []CommittedAreSettled` |
| `EventsService_proofs!RowsAlwaysInOrder` | `Spec => []RowsInOrder` |
| `EventsService_proofs!DuplicatesArePaidFor` | `Spec => []DuplicatesCostFaults` |
| `EventsService_proofs!ExactlyOnce` | `Spec => []ExactlyOnceWithoutFaults` |
| `EventsService_proofs!Implements` | `Spec => ImplementsAtLeastOnce` |
| `EventsService_proofs!ImplementsSeveral` | `Spec => Several!Spec`, the instance of `SharedGroup` |
| `StatusService_proofs!StatusTypes` | `Spec => []TypeOK` |
| `StatusService_proofs!ChecksAccounted` | `Spec => []ChecksAccountForRows` |
| `StatusService_proofs!CountedOnceStarted` | `Spec => []CountedSinceStart` |
| `StatusService_proofs!ConsistentAnswers` | `Spec => []AnswersConsistent` |
| `StatusService_proofs!GrowingAnswers` | `Spec => AnswersGrow` |
| `Group_proofs!GroupTypes` | `Spec => []GroupInv` |
| `Group_proofs!NothingIsSkipped` | `Spec => []NothingSkipped` |
| `Group_proofs!ImplementsShared` | `Spec => ImplementsSharedGroup` |
| `Group_proofs!RepeatsAreCounted` | `Spec => []RepeatsCostGenerations` |
| `Group_proofs!BackByLateCommits` | `Spec => BackOnlyByALateCommit` |
| `Accounts_proofs!AccountsTypes`, `OneAccountEach`, `LoginAfterRegister`, `ActivityTells` | `Spec => []P` for `TypeOK`, `OneAccountPerUser`, `RegisteredCanLogin`, `ActivityTellsAnswers` |
| `Middleware_proofs!MiddlewareTypes`, `NoPickOfNothing`, `OneConnectionAlways` | `Spec => []P` for `TypeOK`, `NoEmptyPick`, `OneConnection` |
| `Middleware_proofs!RoundRobinUntilWrap` | `Spec => [](picks < Counter => RoundRobin)` |
| `Lifecycle_proofs!LifecycleTypes`, `NoRpcDropped`, `OutOfConsulAlways` | `Spec => []P` for `TypeOK`, `RpcsNeverDropped`, `OutOfConsulFirst` |
| `Rpc_proofs!RpcTypes`, `CallsExecutedOnce`, `ReadsFindWrites`, `UnavailableIsCaused` | `Spec => []P` for `TypeOK`, `ExecutedOnce`, `ReadsAreCurrent`, `UnavailableHasACause` |
| `Dashboard_proofs!DashboardInductive` | `Spec => []DashboardInv` |
| `Dashboard_proofs!DashboardTypes`, `AlertedOnceAtMost`, `NoAlertIsSwallowed` | `Spec => []P` for `TypeOK`, `AlertedOnce`, `NoAlertSwallowed` |
| `Dashboard_proofs!ListNeverGoesBack` | `Spec => NeverGoesBack` |

### Consumer and events

None of the invariants is inductive alone: that a commit is of a settled
message depends on how the message in hand relates to the offsets and to the
place of the goroutine.  `IInv` is the conjunction of

* `ConsumerInv`: the types of `Consume` and `Offsets` – between two fetches the
  reader is where the group is, but for the message in hand, which is the next
  one of its partition;
* `StoreTypeOK`, `GivenUp \subseteq Id`, and `RowFacts`: a row made from a message
  carries the place of one that was appended and is not malformed, at most one
  past the committed offset;
* `Hand`: a row that awaits its announcement belongs to the message in hand, and
  only while the handler runs;
* `Decided`: when the goroutine is at its commit, the message in hand is settled;
* `NothingSkipped`: committed messages are settled;
* `RowsInOrder`.

The steps are not taken action by action for each conjunct.  `NextMovesConsumer`
shows that every action of a service, seen from the variables of `Consume`, is one
of `ConsumerMoves`; the lemmas about `Consume` at the top of both services' proofs
show `ConsumerInv` for those with one case each, and say how offsets and log may move.  `StoreMoves` and
`FateMoves` likewise say what a step of `EventsService` may do to the table and to
the fate of a message.  For the refinement, `SettledMoves` shows that a step
settles at most the first message that is not committed, and `RefineNext` that a
step with `IInv` is a step of `AtLeastOnce` or a stutter.  `OneOfSeveral` goes on from
there: from a state of `IInv` it is also one of `SharedGroup`, so that the promise of
several members is the weaker of the two.

`DuplicatesCostFaults` needs an account of who has still to pay: `Awaits(id)` says
that the message may come to be saved again without another fault, or that the
consumer was told to stop, and `RowsPaid` that a message has at most one row more
than faults, and no more rows than faults while it awaits.  Every step that makes a
message await again, or saves one that does not, is a fault.

`ExactlyOnceWithoutFaults` needs two more facts, both about what may not happen while
`faults = 0`.  `OnlyMalformedFail`: nobody told the service to stop, what is retried or
given up is malformed, the DLQ write never failed, and the DLQ holds malformed messages
only.  With `RowsPaid` and `CommittedAreSettled` a committed good message then has one row,
not none and not two.  `OneAnnouncement`: two workers never hold one row, and a row is
announced or held but not both; this needs no look at the messages, so it is carried
through the steps (`SavedStep`, `AnnouncedStep`) by what they do to `saved` and to the
announcements alone.

### Status

`StatusInv` is `ConsumerInv`, when the consumer may hold the mutex (`Holding`), and
the types of the tracker and who else holds it (`Tracked`).  `ChecksBalance` equates the counter with rows, failures and the one
call that holds the mutex in between.  `CountInv` is the same account as for rows
(`PaidFor`), plus: nothing from before the start was counted, and what was committed
since was.

`Tally(total, counts)` says that some `total` events have the severities that `counts`
says, which is what a sum over the severities means, put so that it can be proved
without induction: counting one event extends the list of severities by one.
`TallyInv` carries it for the tracker's own counters, with the event that the consumer
is counting in between left out while the consumer holds the mutex; without that
exception it is not inductive, and without the mutex it is false.  `SeenChecks` says
that a caller has seen no check that was not counted, and that its own call counts one
that it has not seen; `AnswersGrow` follows from it.

### Group

`GroupInv` relates what a reader knows to the assignment of its generation, and a
message in hand to the reader.  `SkipInv` adds that everything before a reader's
offset and before a message in hand is handled, which is what makes a late commit
harmless; with it every step is one of `SharedGroup` (`SharedStep`): a message in hand
was appended (`HandAppended`) and has everything before it handled, and a commit is of
a message that is handled with all before it.  `NothingSkipped` follows from that
promise, and is proved beside it.

`Ahead` says that without a late commit the group is not ahead of the
reader of a partition.  `RepeatInv` makes `RepeatsCostGenerations` inductive: a message
in hand and not yet handled has no handling of its fetch, and no two hands hold the same
fetch (`HandCounts`); the readers of one generation read different partitions (`Apart`);
and what a reader has yet to reach, or an owner that is still to subscribe will read,
was never fetched in that generation (`Unread`, `ToCome`).  The last two are what a
fetch relies on: it is the first of its message in the reader's generation, whatever
members of other generations still hold.

### Accounts, middleware, life of an instance, calls, dashboard

* `Accounts_proofs`: `RowsKnown` (a row is of a request that knows it, and a 201 has
  its row) is shared; `Unknowing` rows are counted against faults; `LooksBack` keeps
  what a login looks back on; `TellInv` says of each request whether it was told, is
  about to be told, or is lost, and in which of them it may not be twice.
* `Middleware_proofs`: `ProxyInv` – the types, that whoever holds the read lock found the list not
  empty, and that an address was opened once if it is in the pool and never otherwise.
  `RotationInv` gives `RoundRobin`: every increment of `next` was paid for by a pick
  (`NextPaidFor`), so that it cannot wrap while `picks < Counter`, and the picks of the
  list are a number of complete rounds and part of one more, which started at some
  position and ends where the turn is (`Balanced`, `Picked`).  `RoundRobin` alone does
  not say whose turn it is and so is not inductive.  The premise is 2^64 picks in the
  code; where the number of instances does not divide 2^64, the wrap breaks the round.
* `Lifecycle_proofs`: `StopInv` – nothing of gRPC is in flight while `Shutdown` waits,
  and from the moment its `Deregister` returned a server that is not in `kept` has no
  entry, and the middleware knows of it only what is in `stale` (`EntriesGone`).  No
  premise on faults: nobody registers while the process stops, so no step puts the entry
  back, whatever happened before the stop.
* `Rpc_proofs`: `CallInv` relates caller and handler; `OutcomeInv` says what a code
  tells of the tables; `CauseInv` that what is down or cannot be dialled is `away`, and a call
  that waits for such an instance `excused`;
  `WrittenInv` that what was acknowledged is in the tables and ids grow.
* `Dashboard_proofs`: `DashboardInv`.  An answer on its way and the list shown are each
  what the table showed at some moment, and the answer of the current run is the later
  one (`Polls`), which a cancelled run's answer need not be; before the first list nothing
  was seen, and after it `lastMaxId` is the highest id of the list (`Seen`); what was
  alerted is at or below it (`Alerted`), so that an arrival is above all that was alerted;
  a row below the highest id of a list that lacks it is a late one (`NothingHidden`).
  `Newest` is a `CHOOSE`; that a set of ids has a highest one comes from `LeastNumber`,
  the well-ordering of the numbers, which the library's `WFMin` gives without an
  induction theorem.

### Only model-checked

Liveness (`Drains`, `NobodyStuck`, `ListFollowsHealth`, `CatchesUp`, `ListTellsLife`,
`StopEnds`, `EveryCallAnswered`), which with its fairness and `ENABLED` is outside what
the proof system does.  The four properties that the code violates have no theorem, of
course; of `HighestIdTellsNew`, `NoAlertIsSwallowed` says what is true of it.

## 5. What is not modelled

* `EnsureTopic`'s failure, which is only logged.  Topics exist (`EmptyTopic`): the broker
  makes one at the first message (kafka_publisher.go:28), and is taken to make as many
  partitions.
* Reading the configuration, opening the databases and their migration.
* The rewriting of a path by its prefix and of bodies in the middleware: whether a
  route has the prefix is a choice (`AskNobody`).
* The wire format of messages, and grpc-go under the stubs but for what its
  connections do when a dial fails or a connection breaks.
* `created_at` and the uptime.
* The login page, the session, paging and filters of the table, the panel: local
  state of single components that no other actor changes.
* The nginx gateway, docker compose and scripts (configuration).

## 6. Plan

The order of the work was: the consumer and the events service, since losing or
inventing events is the worst this system can do; status and accounts, at the ends
of the same pipeline; the middleware, the life of an instance and the dashboard;
then the hand-over between members of a group, calls from end to end, and the
proofs.  What is left, in this order:

1. **Pipeline**: `Accounts`, `EventsService` and `StatusService` composed over the
   two topics, with an abstract specification of what a login becomes end to end.
2. **Proofs**: of the refinement in 1; of what makes the liveness properties
   true, as far as it is safety (which steps never take back what a goroutine waits for).
3. **The table and the panel** of the dashboard: paging under a list that grows,
   and the detail request that a closed panel ignores.

## 7. Running

```
tlc -workers 2 -config MCEventsOutage.cfg MCEventsService
tlapm EventsService_proofs.tla     # and the other *_proofs modules
```
