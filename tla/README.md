# Verification of the ECS scheduler

TLA+ models of the Go package `ecs` in this repository (scheduler, worker pool,
entity registry, component stores, commands, resources, registration and observability), the TLC
configurations that check them on small instances, and TLAPS proofs of theorems
that hold for every value of their constants. `PROJECT.json` maps each definition
to the lines it models and lists runs, theorems, hazards and findings.

```
tlc -workers 2 -config MCScheduler.cfg MCScheduler     # any other run likewise
tlapm SchedulerProofs.tla                              # any other proof module likewise
```

## 1. The system

An application registers *work groups*, each a list of *systems*, with a scheduler
and calls `Tick` again and again. A system reads the world and defers *commands*;
the commands are applied to the world at the end of the tick.

| Part | Source | State | Operations | What makes it hard |
|---|---|---|---|---|
| Tick loop | `scheduler_impl.go` 352-545 | tick index, last runs, policies; locals of a `Tick` | `Tick`, `runWorkGroup`, `dispatchAsync` | concurrent async groups, retries, aborts in the middle, cancellation, work left behind by an aborted call |
| Worker pool | `worker_pool.go` | two channels, a once, a wait group, a result channel per job | `Submit`, `Wait`, `Close`, the workers | a channel closed under a blocked sender, two closers, cancellation between two checks |
| Command buffer | `command_buffer.go` | a slice | `Push`, `Drain`, `Snapshot`, `Restore`, a pool of buffers | roll-back of a failed attempt |
| Registration, builder | `scheduler_impl.go` 82-350 | group states, orders, policies, owner tables, world | `RegisterWorkGroup`, `WithSyncOrder`, `WithAsyncWorkers`, `WithErrorPolicy`, `Build` | order of the calls, partial failure |
| Entity registry | `entity.go` | generations, free list, counter | `Create`, `Destroy`, `IsAlive`, `Count` | recycling, stale handles, wrap-around |
| Dense store | `ecs/storage/dense.go` | a slice of slots, a count | `Set`, `Remove`, `Clear`, `Get`, `Iterate` | values of dead entities, stale handles, no lock |
| Shared store | `ecs/storage/shared.go` | two maps, a counter, an RWMutex | the same | reference counts, deduplication, iteration against writers, callbacks that call the store, wrap-around |
| World, commands | `world.go`, `commands.go`, `storage_provider.go` | registry, stores | four commands, `ApplyCommands` | handles that are stale by the time of the application, a prefix applied |
| Resource container | `resource_container.go` | one map under an RWMutex | `Get`, `Set`, `Delete`, `Range` | systems of several groups use it at once; only what they declared keeps them apart |
| Observability | `observability.go`, `scheduler_impl.go` 126-150, 540-579, 623-631 | the observer chain, the samples of a collector, the tracer of the process | `WithInstrumentation`, the publication of a summary, `ObserveWorkGroup`, `WriteMetrics`, `ExportWorkGroup`, `RunWithTrace` | the chain replaced under a ticker, a collector shared by schedulers and a scraper, a slow client |
| `Run`, `ecs-trace` | `scheduler_impl.go` 614-621, `ecs/cmd/ecs-trace` | — | a loop over `Tick`, a placeholder | — |

Interactions: systems use the world's resource container at once, and registration
refuses groups whose declared accesses would get in each other's way. `Tick` submits the async groups to the pool, whose workers run
`runWorkGroup` with a buffer of their own and hand back the commands through the
result channel; the synchronized groups run on the goroutine of `Tick` with one
buffer for all of them. Once every group was visited, `Tick` awaits the results
in dispatch order and calls `World.ApplyCommands` for each, then for its own
buffer; a command calls the registry or a store. The builder and `Tick` share the
scheduler's RWMutex, of which `WithAsyncWorkers` holds the write side while it
waits for the workers of the pool it replaces. `Tick` publishes a summary of each
work group to the observer chain, without that mutex although `WithInstrumentation`
replaces the chain under it; several schedulers may be given the same collector, and
its metrics are read by whoever calls `WriteMetrics`.

What makes each part correct: the tick applies the commands of successful attempts,
completely and in one order, and always returns; the pool resolves each job once and
truthfully and can always be closed; the registry never takes one entity for another;
the stores are maps; registered groups never conflict, so that what
a system has read of the resources stays true while it works with it; each summary reaches the
observers of one configuration, and metrics are of whole summaries. `PROJECT.json` names the line
where each of these can go wrong (`hazards`) and the properties that would catch it.

## 2. The modules

| Module | Models | State and actions |
|---|---|---|
| `Scheduler` | `Tick` and what interleaves with it | One action for each branch of `Tick`: `SkipGroup`, `StartGroup`, `GroupSucceeds`, `GroupFailureContinues`, `GroupFailureAborts`, `DispatchAsync`, `ApplyJob`, ..., `Commit`. `run` holds the locals of `Tick` and of the group it runs; `jobs` is every job ever dispatched, so those of an aborted call go on. Workers: `SendJob` to `FinishJob`. Builder: `CreatePool`, `ClosePool`, `DropPool`, `ReplacePool`, `WithErrorPolicy`; from `DropPool` to `ReplacePool` there is no pool, which a dispatch may see, as it reads `asyncPool` without the lock. A command is a record of its origin, including whether the attempt that deferred it succeeded |
| `WorkerPool` | `Submit`, `Wait`, workers, `Close` | one action for each operation on a channel, the once or the wait group |
| `JobPool` | — | what the pool promises: new, pending, running, resolved |
| `EntityRegistry` | the registry | a method is a step; `live` and `retired` are histories of the identifiers handed out |
| `EntityHandles` | — | what the registry promises: a handle is issued once, then stale for ever |
| `ComponentStore` | the interface in `api.go` | a map in which a `Set` may evict rivals |
| `DenseStore` | `dense.go` | `Set`, `Remove`, `Clear` on a sequence of slots |
| `SharedStore` | `shared.go` | the same under an RWMutex with two-step writers and a reader that iterates and whose callback may call the store: `CallbackReads`, `CallbackStores` |
| `World` | commands and their application | instantiates `EntityRegistry`, `DenseStore` and, for shared storage, `ComponentStore` on its own variables; `Defer`, `ApplyCommands`, and one action for each way a command ends |
| `Registration` | registration and builder | one action for each call, and one for a refused registration |
| `ResourceContainer` | `resource_container.go` | the map, who holds its RWMutex and who waits; `Set` and `Delete` are `Announce` and `Write`, `Range` is a `Visit` of each resource, whose callback may call the container: `CallbackReads`, `CallbackWrites` |
| `ResourceUse` | the systems of registered groups at the container | extends `Registration` and instantiates `ResourceContainer`; `RunWorkGroup` to `RunEnds` is a run of a group on the ticker or a worker, which calls the container in between (`CallResources`) within what it declared; `known` is what a run has read or written |
| `PolicyHistory` | — | extends `ResourceUse` with a history of the error policies that were given (`given`, `since`, `own`); it only restricts the steps (`HistoryImplementsUse`) |
| `Collector` | `PrometheusWorkGroupCollector` | the samples of each collector; `ObserveDuration` and `ObserveCounts` are `ObserveWorkGroup`, `WriteDurations` and `WriteCounters` are `WriteMetrics`: two steps each, with the lock from the first to the second |
| `Observability` | what a scheduler tells, and to whom | instantiates `Collector`; `WithInstrumentation` builds a chain, `Publish` to `Observed` take a summary along the chain that was read, `RunWithTrace` and `RunReturns` own the process's tracer |

`Scheduler` abstracts the pool of `WorkerPool` to the stage of each job; `World`
says what applying commands does, which `Scheduler` abstracts to the list `applied`;
`Observability` says what becomes of a summary, which `Scheduler` appends to `published`.
`ResourceUse` abstracts the order in which `Scheduler` runs groups to any order, with the
synchronized groups one at a time, and an async one possibly still there from an earlier `Tick`.

Abstract and detailed specifications: `WorkerPool` implements `JobPool`
(`PoolKeepsPromise`), `EntityRegistry` implements `EntityHandles` (`HandlesAreKept`),
`SharedStore` and `DenseStore` implement `ComponentStore` (`StoreIsAMap`; with no
rivals in the shared store, and with the other generations of the same slot as
rivals in the dense one, where it is checked through the steps of `World`). So `World`
uses `ComponentStore` itself for its shared component, and `StoreIsAMap` says that its
commands use each of the two stores as the map it is.

Abstractions worth knowing. A system run either fails, or succeeds and defers one
command; a skipped system is one that does not run. Group and system names,
durations and log lines are left out. A component value is a model value; `nan`
is one that `reflect.DeepEqual` tells from itself. `World` has a component type in each
kind of storage. In `Observability` a run of a group is the sequence of the outcomes of
its systems, from which `RunWorkGroup` counts the summary and, apart from it, `Exposed`
what the metrics should say. The observer of a scheduler is a Go interface, two words
that a ticker reads without synchronization: `ReadType` and `ReadData` take them in either
order, with any calls of `WithInstrumentation` between. A method called on the data of
another type is undefined; the model lets the process crash then and do nothing else.
`ResourceUse` takes systems to use what they declare, which nothing in the code enforces:
`ExecutionContext.World` gives them the container. `Range` shows them every resource; what
they have not declared they do not keep. A failed attempt of a system is not told apart: what
it has set stays, as a retry only rolls back the deferred commands.
In `Registration` the worker count kept without a pool is always zero in the code
(both are set together), so the branch that would reuse it is never taken.
Definitions marked *Defective variant* are not part of the model: each is what a
plausible bug would make of the definition after it, and putting it in the place of
that definition breaks the property listed with it under `mutants`.

## 3. The runs

| Run | Instance | Shows |
|---|---|---|
| `tick` | groups a1 (async), s1 (two systems), a2 (async, due on even ticks); pools of 0, 1, 2 workers; every policy; one builder call; cancellation at any time; one call of `Tick` | `AppliedInOrder`, `AppliedSucceeded`, `CommitIsComplete`, `PublishedInOrder` |
| `ticks` | a1 with two systems, s1 due on odd ticks; two calls of `Tick` | `ResultsAreFresh`, `TickReturns`, `WithAsyncWorkersReturns` |
| `worker_pool` | two jobs, at most two workers (none is a nil pool), two closers, two waits on each handle | `ResultIsOwned`, `WaitTellsOutcome`, `NobodyIsStranded`, `PoolKeepsPromise`, `EveryJobResolves`, `EveryCloseReturns` |
| `registry` | `uint32` of 16 values, six creations, identifiers composed of generations that `Create` could have issued | `LookupIsExact`, `FreeListIsExact`, `HandlesAreKept` |
| `shared_store` | two entities, values a, b, nan; two writers, one reader with reentrant callbacks; four calls | `RefCountsAreExact`, `ValuesAreShared`, `StoreIsAMap`, `IterateIsSnapshot`, `EveryCallReturns` |
| `world` | two creations, two commands in a buffer, two dense values (which are symmetric) and a shared one | `CountIsExact`, `ComponentsAreOwn`, `StoreIsAMap` |
| `registration` | `PolicyHistory`, with `ResourceUse` and `Registration` in it: three groups, fourteen configurations, three sync orders (one names a group twice, some name groups not registered yet), two calls of `WithErrorPolicy`, with any policy, for a group that is registered with or without one, two worlds; one resource of one value, which may be there or not; the ticker and one worker | `NoWriteConflict`, `TablesAreExact`, `OrderIsComplete`, `PolicyIsFirstOffered`, `ReadsStayTrue` |
| `observability` | two schedulers, one shared collector and their own, three configurations (no observer, one, four), two summaries, one call of `WithInstrumentation`, a scraper, two callers of `RunWithTrace` | `SummaryIsDelivered`, `PagesAreExact`, `TraceIsOwned`, `PublishReturns` |

Each of the passing runs also checks the type invariant of its module, except `ticks`,
which shares its module with `tick`.

Why the bounds are enough. In `tick`, async groups stand before and after a
synchronized one, so dispatch, execution and application orders all differ, and a
job of each finds the pool absent, open, full, closing and closed; two systems are
the least for a group to fail after it has deferred something. Two calls of `Tick`
are the least for a job to outlive its call. In the pool, with two jobs and one or two
workers a send is blocked on a busy worker while `Close` runs, and with two closers
one finds the once running and one finds it done. Six creations recycle a slot several
times and grow the registry; two entities with three values make every pair of
equal, different and incomparable values; two creations suffice for a slot to have
two tenants, the first with a stale handle. In `registration`, every clause of the
validation is the one that refuses some configuration; one resource that is there or not is
enough to tell that somebody changed it, and two goroutines that somebody else did. The theorem
`ReadsAlwaysStayTrue` has none of these bounds. Two calls of
`WithErrorPolicy` are enough for a policy to be replaced or taken back before the registration,
and for a second one after it to have no effect; `PolicyIsAlwaysFirstOffered` has no bound. In `observability`, the three
configurations make chains of each type an interface may have, two of them effective
in different ways; one exchange is enough to tear a read, and two summaries are enough
for two schedulers to meet at the collector, with the scraper between them. Summaries
have every outcome a system may have, and durations in a bucket, at its bound and in none.

### Disagreements found

Each is a run whose property TLC finds violated, and a finding in `PROJECT.json`.

- `slow_async`: an async group that does not return blocks `Tick`
  (`scheduler_impl.go:396`), although it is said to run "without blocking the main
  tick" (`docs/examples/integration.md:151`).
- `apply_race`: the commands of one async group are applied while the systems of
  another one still run (`scheduler_impl.go:411`); `implementation_plan.md:94` and
  `docs/adr/0001-api-sketch.md:94` say that deferral makes this safe. The dense store
  has no lock.
- `stale_add`: an `AddComponent` command through a stale handle removes the component
  of the slot's present entity (`commands.go:62-75`, `dense.go:83`), in spite of the
  stale handle detection of `README.md:13`.
- `component_reads`: an async group that reads a component another group writes is
  accepted (`scheduler_impl.go:303`); `README.md:25` promises the validation of
  component read/write conflicts. Of resources it is refused.

Also met while modelling, and kept as notes on hazards: the sample in
`README.md:244-255` constructs commands with an identifier that is still zero, which
`ApplyCommands` refuses; `nextValueID` (`shared.go:165`) wraps after 2^32 new values and may
then be given out while in use, so that `Get` finds what "should never happen"
(`shared.go:82`); a second `Wait` on a handle returns
a zero result; an even generation composed by hand passes `IsAlive`; a refused registration
of an async group leaves a worker pool behind; a policy given to a group that has another than
`Abort` is recorded and never takes effect (`PolicyIsFirstOffered` says so, and no document
says otherwise).

## 4. Fairness

- `Scheduler`: weak fairness of the ticker, of each job and of a
  `WithAsyncWorkers` that holds the lock (`DropPool`, `ReplacePool`): a goroutine that can go on does. It
  includes that systems return, which is the assumption of `TickReturns`; `SlowAsyncSpec`
  withdraws it for jobs (`HandOver` is fair, `RunJob` is not), and `TickReturns` fails.
  Calls of `Tick` and of the builder and cancellation are never assumed.
- `WorkerPool`: weak fairness of each goroutine that is inside `Submit` or `Close`
  and of each worker. Nobody has to submit, wait, close or cancel.
- `SharedStore`: weak fairness of a writer that may have the lock and of a reader to end
  its loop; strong fairness of a writer to be the next in line, since it competes with the
  other one: Go's mutex hands itself over to a waiter that has starved for a
  millisecond. That a waiting writer keeps new readers out, and that the readers that
  waited for it enter before the next one, is how `sync.RWMutex` works, and is in the
  actions. A callback that waits for the lock its own `Iterate` holds is never assumed to go
  on; `EveryCallReturns` says that there is no other cause for a call not to return.
- `Observability`: weak fairness of a ticker inside a publication and of a scrape that has
  the collector's lock, which includes that writing a page to a client ends; strong
  fairness of `Observe`, which competes for that lock with the scraper and the other
  schedulers: again Go's mutex hands itself over to a waiter that has starved. Nobody has
  to publish, scrape, trace or reconfigure.

## 5. Theorems

| Theorem | Module | Says, for every value of the constants |
|---|---|---|
| `TypeCorrect` | `SchedulerProofs` | `Spec => []TypeOK` |
| `OnlySucceededIsApplied` | `SchedulerProofs` | `Spec => []AppliedSucceeded` |
| `ResultsAreAlwaysFresh` | `SchedulerProofs` | `Spec => []ResultsAreFresh` |
| `AppliedAlwaysInOrder` | `SchedulerOrder` | `Spec => []AppliedInOrder` |
| `CommitIsAlwaysComplete` | `SchedulerOrder` | `Spec => []CommitIsComplete` |
| `PublishedAlwaysInOrder` | `SchedulerOrder` | `Spec => []PublishedInOrder` |
| `DueOncePerPeriod` | `SchedulerProofs` | `ShouldRunTick` holds in exactly one of `every` ticks in a row |
| `TypeCorrect` | `WorkerPoolProofs` | `Spec => []TypeOK` |
| `ResultIsAlwaysOwned` | `WorkerPoolProofs` | `Spec => []ResultIsOwned` |
| `WaitAlwaysTellsOutcome` | `WorkerPoolProofs` | `Spec => []WaitTellsOutcome` |
| `NobodyIsEverStranded` | `WorkerPoolProofs` | `Spec => []NobodyIsStranded` |
| `PoolAlwaysKeepsPromise` | `WorkerPoolProofs` | `Spec => PoolKeepsPromise`: the pool implements `JobPool` |
| `TypeCorrect` | `EntityRegistryProofs` | `Spec => []TypeOK` |
| `LookupIsAlwaysExact` | `EntityRegistryProofs` | `Spec => []LookupIsExact` |
| `FreeListIsAlwaysExact` | `EntityRegistryProofs` | `Spec => []FreeListIsExact` |
| `HandlesAreAlwaysKept` | `EntityRegistryProofs` | `Spec => HandlesAreKept`: the registry implements `EntityHandles` |
| `TypeCorrect` | `SharedStoreProofs` | `Spec => []TypeOK` |
| `RefCountsAreAlwaysExact` | `SharedStoreProofs` | `Spec => []RefCountsAreExact` |
| `ValuesAreAlwaysShared` | `SharedStoreProofs` | `Spec => []ValuesAreShared` |
| `IterateIsAlwaysSnapshot` | `SharedStoreProofs` | `Spec => []IterateIsSnapshot` |
| `StoreIsAlwaysAMap` | `SharedStoreProofs` | `Spec => StoreIsAMap`: the shared store implements `ComponentStore` |
| `TypeCorrect` | `WorldProofs` | `Spec => []TypeOK` |
| `CountIsAlwaysExact` | `WorldProofs` | `Spec => []CountIsExact` |
| `ComponentsAreAlwaysOwn` | `WorldProofs` | `Spec => []ComponentsAreOwn` |
| `StoreIsAlwaysAMap` | `WorldProofs` | `Spec => StoreIsAMap`: the dense store implements `ComponentStore`, through the world's steps |
| `TablesAreAlwaysExact` | `RegistrationProofs` | `Spec => []TablesAreExact` |
| `NoWriteConflictEver` | `RegistrationProofs` | `Spec => []NoWriteConflict` |
| `PolicyIsAlwaysFirstOffered` | `RegistrationProofs` | `HistorySpec => []PolicyIsFirstOffered` |
| `PolicyIsAlwaysKept` | `RegistrationProofs` | `Spec => PolicyIsKept`, which is proved only |
| `OrderIsAlwaysComplete` | `RegistrationProofs` | `Spec => []OrderIsComplete` |
| `TypeCorrect` | `RegistrationProofs` | `Spec => []TypeOK` |
| `UseImplementsRegistration` | `RegistrationProofs` | `UseSpec => Spec`: the composition implements `Registration` |
| `HistoryImplementsUse` | `RegistrationProofs` | `HistorySpec => UseSpec`: the history only restricts it |
| `ReadsAlwaysStayTrue` | `RegistrationProofs` | `UseSpec => []ReadsStayTrue` |
| `TypeCorrect` | `ObservabilityProofs` | `Spec => []TypeOK` |
| `SummaryIsAlwaysDelivered` | `ObservabilityProofs` | `Spec => []SummaryIsDelivered` |
| `PagesAreAlwaysExact` | `ObservabilityProofs` | `Spec => []PagesAreExact` |
| `TraceIsAlwaysOwned` | `ObservabilityProofs` | `Spec => []TraceIsOwned` |

The arguments:

- *Scheduler types.* `TypeInv` adds to `TypeOK` that a position is one of the order
  whenever a group is looked up by it. It is split into four parts, one for each group
  of variables many actions leave alone.
- *Scheduler origin.* `OriginInv`: every buffer, of the ticker and of each job, only
  holds commands of successful attempts of the call it belongs to (a failed attempt
  is rolled back to the snapshot: lemma `RolledBackIsBefore`), and every job from
  `handle` on is one of the present call. `AppliedSucceeded` and `ResultsAreFresh` are
  not inductive without these.
- *Scheduler order.* `OrderInv` rests on the two before it. `BufferInv` and `JobsInv`: a
  buffer is sorted by group and system, lies below what the next system would defer, and
  has exactly what the successful attempts deferred. `HandledInv`: the jobs of the call are
  in the order of their groups, and those before the handle are done and their commands
  applied. `AppliedInv`: what was applied comes from those jobs (the job at the handle, if
  the Tick stopped there) or, once all were awaited, from the ticker's buffer; so the buffer
  applied next comes after it, and everything that ought to precede it is there
  (`ApplyKeepsOrder`). `SummariesInv`: the published groups are the due ones before the
  position and those of the handled jobs that ran. The workers' and the builder's steps all
  are `JobsMove`: a job that is not done goes on at its place.
- *Pool.* `IInv` says who is responsible for a job: `Submit` until it has returned, a
  worker that holds it (no two hold the same), and then nobody, when it is resolved
  truthfully; and that workers have left once a `Close` has returned. The refinement
  maps each step to a step of `JobPool` or to a stutter, with `IInv` on both sides.
  That nobody is stranded rests on two more: `InvOnce` (while the once runs, some `Close` is
  between its two channels) and `InvLeft` (workers leave only when `closed` is closed), so
  between the two, when all workers may have left under a blocked send, a `Close` is there
  to end it.
- *Registry.* The parity of a generation tells whether its slot is free: `LiveInv`,
  `FreeInv`, `RetiredInv`, with `BoundInv` to exclude a wrap-around. The theorems assume
  `NoWrap` (fewer than half as many creations as a `uint32` has values) and
  `OddComposed` (identifiers made up by callers have generations that `Create` could
  have issued). Without either they are false: generations come back after a
  wrap-around, and a made-up even generation passes for alive.

- *Shared store.* `StoreInv`: every entry is referred to by as many entities as it counts, at
  least one, and equal values are one entry. `IdsInv`: the identifiers in use are below the next
  one, and the writes there have been leave room for those that are pending, so that a new
  identifier is never one in use. `LoopInv`: what a reader has left to visit is still in the
  store. Each of `Set`, `Remove` and `Clear` is a lemma on the tables and on the map they stand
  for, which is what the refinement needs. The theorems assume `NoWrap`, fewer writes than a
  value identifier has values; without it they are false (see the hazards).
- *World.* `DenseInv`: the dense store is typed and counts exactly. A `Set`, `Remove` or `Clear` on
  slots is the one of a map (`SetIsOfMap`, `RemoveIsOfMap`, `ClearIsOfMap`), since an identifier has
  the value in its slot if the generation there is its own (`VisitedIsHad`). `OwnInv` and `SharedInv`
  compare the stores with the history of what was added; `CommandsInv` says what a command that
  was deferred long ago may name, `RegistryInv` that the registry has fewer slots than there are
  indices. Nothing is assumed of wrap-around: the history belongs to an identifier, not to one tenant.
- *Registration.* `ConflictInv`: the tables say exactly what the groups access (`TablesAreExact`),
  nobody else accesses what a group writes of resources (`ExclusiveInv`), and a group reads what
  it writes of them (`AccessInv`). They are inductive together only: a new group is compared with
  the tables, which is of use only as long as these tell what the registered groups access.
- *Error policies.* `HistoryInv`: what is recorded for a group is the last policy it was given,
  unless that is `Abort` (`RecordIsLatest`), so a registration that brings none finds the one that
  counts as offered before it (`RegisterGroupInv`). A policy given later is the group's first only
  if nothing was taken before, which is when the group still has `Abort` (`GivePolicyInv`).
- *Intervals.* Of `every` numbers in a row exactly one is a multiple of `every` (`SomeMultiple`,
  `OneMultiple`); the reduced offset only shifts them. It is taken that tick and offset do not
  overflow their 64 bits.
- *Registration order.* What a loop that appends or continues makes of a sequence: there are
  increasing positions at which all that is chosen stands, and nothing else (`ChosenSelects`).
  `OrderInv`: no group is registered twice, and the order is the one `rebuildOrder` makes of the
  present groups and sync order, so nobody may change these without it. From the two follows
  `OrderIsComplete` (`OrderHolds`): an element comes as often as in the sequence it was chosen
  from (`ChosenTimes`, by the bijection of the positions), and what was chosen keeps its order.
- *Observability, delivery.* `DeliveryInv`: those told of a summary and those left to tell are,
  together and in the order of the ranks, everyone some configuration names that was in effect
  meanwhile (`Divided`), which each step of the chain keeps (`DividedPasses`). A ticker that has read one word
  of its observer has that of the chain of some such configuration, and if the other word is of
  another chain of the same type, it proceeds with one chain whole (`TypeIsOfConfig`,
  `WordsDelivery`); if it is of another type, two of them were in effect.
- *Observability, metrics.* `CollectorInv`: a collector is locked by a ticker exactly as long as
  that enters a summary, and by the scraper as long as its page is incomplete (`LockInv`); the counters are
  what the runs it was told of add up to, and the durations those and the run being entered
  (`DataInv`). So under the lock both are of the same runs, and the page that is written
  there is exact (`PageInv`). That `ObserveWorkGroup` and the summary `runWorkGroup`
  counts agree with what the runs add up to is `ExposedAppend`, which rests on facts about sums.
- *Induction.* What a recursive function computes is proved for every length by the least
  counterexample (`SetInduction`, from the library's `WFMin`): `SumExists` and `KeptExists` say
  that such a function exists, `SumsAgree` and `ChosenSelects` what it is.
- *Resource use.* `UseInv` is `ConflictInv`, which every step keeps since it is one of
  `Registration` or leaves that alone (`UseIsRegistration`, whence `UseImplementsRegistration`),
  with `RunInv`: groups that write run on the ticker, a call is one its group declared, and what
  a run knows is among what its group reads. Who writes a resource is then the only one to know
  it (`NobodyElseKnows`), so `ReadsStayTrue` survives a `Set`; a registration in between leaves
  the accesses of the registered groups as they are (`AccessesAreKept`).

The constants' assumptions are named `...Assumption` in the module that declares them.

Only model-checked: liveness under fairness, which is out of the prover's reach
(`TickReturns`, `WithAsyncWorkersReturns`, `EveryJobResolves`, `EveryCloseReturns`,
`EveryCallReturns`, `PublishReturns`), as is `ENABLED`. What can be said of blocking
without them is proved of the pool: `NobodyIsEverStranded`. Every invariant and every action property a passing run checks is a theorem. No module
declares a RECURSIVE operator: the loops of the code that go over a sequence are recursive
functions (`Chosen`, `SumOf`), which the prover can reason about.

## 6. Not modelled

- The wording of log lines, spans and pages of metrics, and failing writes (their errors are
  dropped). A writer given to several collectors or exporters, which have a mutex each.
- What the application does to the resource container between Ticks. That calls of the container
  return, but for those of a callback, is not stated of it: its lock is the one of `SharedStore`,
  of which `EveryCallReturns` says so.
- `Run` (a loop over `Tick`), the placeholder `ecs-trace`, the options of `NewWorld`, the
  examples under `docs/`, the build cache in `.cache`.
- Concurrent calls of `Tick` on one scheduler, and systems that take the scheduler's
  lock while `WithAsyncWorkers` waits for them.
- Memory effects of the data races on the scheduler's other unlocked fields (`asyncPool`,
  `policy`, `instrumentation.EnableTrace`), which are one word each: a read sees the value of
  one moment.
- Values of a dense component are not told apart by the world, so the run `world` takes them to
  be symmetric; widths other than that of identifiers and value identifiers (`TickInterval`).

## 7. Plan

Written in this order, because a tick is what the program is for: `Scheduler`,
`WorkerPool` with `JobPool`, their proofs, `EntityRegistry` with `EntityHandles` and its
proofs, the stores, `World`, `Registration`, then reentrant callbacks in `SharedStore`, a
second component type in `World`, the rest of the builder, `Collector` and `Observability`,
`ResourceContainer` and its composition with `Registration` in `ResourceUse`, `PolicyHistory`.
What is left:

1. Models: concurrent calls of `Tick`; the widths of `TickInterval`.
2. Theorems: what `NobodyIsEverStranded` says of the pool, of the stores, the collector and
   the scheduler too: whoever waits, waits for somebody who is there and goes on.
