# Verification of the observability agent

TLA+ models of the agent and of its intake, checked with TLC on small instances and, where
that is worth it, proved with TLAPS for every value of the constants.  Paths below are
relative to the repository; `PROJECT.json` maps every definition to its source lines.

- [The system](#the-system) - the inventory of its components
- [The models](#the-models) - which module stands for what, and what it abstracts
- [The runs](#the-runs) - what each shows, its bounds, its fairness
- [The proofs](#the-proofs)
- [Where the code and its documentation differ](#where-the-code-and-its-documentation-differ)
- [Plan](#plan) and [not modelled](#not-modelled)

Everything runs in this directory: `tlc -config SupervisorReload.cfg MCSupervisor.tla`
checks a run, `tlapm SupervisorProofs.tla` a proof.

## The system

An agent process hosts *modules* (host, process, discovery, logs, statsd, HTTP check,
container, OTLP receiver), started, probed and restarted by a *supervisor*.  Modules write to
*telemetry* ports; an *exporter* wraps the in-process telemetry and posts it to an intake,
where the *fleet store* builds the view of all hosts.

    agent.Run --> Supervisor --Start/Stop/Prepare/Commit/Health--> modules --Emit/EmitLog--> exporter
                     |  ^                                            |                         | |
         Register/Release |ReportFailure                             v                   spool | | POST
                     v  |                                     in-process telemetry <--scrape---' v
             capability runtime                                (series, event ring)          fleet store

| component | state | operations | hard | correct when |
|---|---|---|---|---|
| Supervisor (`internal/supervisor`, `module/state.go`) | a runner per module (lifecycle, generation, lease, crash window, retry, in-flight flag), the graph, the failures channel, the stopped flag | `Start`, `Reload`, `Shutdown` on the main goroutine; the control loop; a goroutine per start, stop and probe | module calls run outside the mutex between two critical sections; leases change hands; a reload or shutdown meets restarts and cascades | one lifecycle call and one probe per module; Running is the live instance; a lease has one owner; nothing leaks; the budget is exact; shutdown follows dependencies and ends; failed modules come back |
| Health (`internal/health`) | reports | aggregation | stale answers, restarts beside a probe | the agent is no better than its modules |
| Dependency graph (`graph.go`) | indegrees, ready list, search stack | `Resolve`, `findCycle`, `StopOrder`, `TransitiveDependents` | repeated dependencies, self-loops, missing IDs, map iteration | the order is the lowest-first topological one, the error the right one |
| Capability runtime (`inproc/runtime.go`) | slots, grants | register, release in the background | a release overtaken by the next start | a slot is released once |
| Guarded calls (`internal/guard`) | a result, a deadline, the settled channel | `Call`, `Value` | result and deadline at once, a callee that never returns | the caller knows when the callee is done |
| Collector goroutines (six modules) | settings, staged settings, signal channel, a stalled sweep | start, stop, sweep, prepare, commit, roll back, throttle | a sweep that outlives its deadline, a commit during a sweep | one sweep at a time, committed settings are used |
| Process module | tracked processes, exits, rollups, gauges | a cycle | PID reuse, refusal at the bound, shed events | a figure begins and ends with its own process as far as it can be told, what started is ended |
| Host module | counter baselines, due times, outcomes per source | tick, read, reconfigure | resets and wraps, sources that fail, pressure | a rate is of what happened, no source is left behind |
| Discovery module | entity table, relations, resync cursor, event budget | gather, build, cap, relate, emit | a host that changes while it is read, caps, budgets, failed sources | edges join what was really joined, a still host is silent, consumers converge |
| Logs module | offsets, partial lines, open records, the syslog listener, cursors | read, join, drain, bind, close | rotation, torn writes, overrun reads, rebinding while serving | each line, message and record is delivered once; a Close ends |
| StatsD | socket, reader goroutine | start, stop, apply | restart while a read is under way | measures reach their series, a Stop is complete |
| OTLP receiver (`otelengine`) | server, listeners, in-flight counter | start, handle, reload, stop | addresses that cannot be bound, handlers beside a Stop | bodies are bounded, no listener is left over |
| HTTP check, container modules | last meters, emitted ids | a sweep | containers restart between walk and read | traffic is what there was, no series outlives its container |
| In-process telemetry (`inproc/telemetry.go`) | capped tables, rings | add, set, observe, emit, retire | admission at the cap | who has a place keeps it, what is refused is counted |
| Native exporter (`platform/native`) | buffers, retained inventory, circuit, spool | accept, flush, post, replay, trim, shut down | lost answers, retries, a circuit that opens during a flush, restarts over a spool | nothing is lost or doubled but for stated reasons |
| OTLP exporter (`platform/otlp`) | two queues | the same without spool and circuit | a shutdown during a flush | items arrive as they were, or are counted |
| Instance metadata (`internal/imds`) | an identity being filled | one request after the other | junk, partial and absent answers | nothing is invented |
| Fleet store (`internal/fleet`, `cmd/obsagent-intake`) | hosts with series, rings, entities, relations, all bounded, with counters | ingest, evict, prune, view | late and repeated batches, full tables | counters are exact, the live are not kept out, views show what is there |
| Cost and pricing (`fleet/cost.go`, `internal/pricing`) | catalogs, downloads, disk cache | look up, refresh, split | broken, stale and overtaken downloads | a price is one that was listed |
| Diagnostics, configuration, scrubbing, local UI, platform readers | none, or a ring that is only shown | - | - | see [not modelled](#not-modelled) |

## The models

Each model keeps the control of its code (guards, early returns, order of effects, who holds
which lock) and abstracts the data: names are model values or small numbers, times are
"later" or small clocks, texts are sequences of tokens where a property depends on their
prefixes.  Unless noted otherwise an action is one critical section, or one call that leaves
the component.

### Supervision

**`Supervisor`** (with `MCSupervisor`, `DependencyOrder`).  One action is one critical section
of `Supervisor.mu`, or one call into a module or the runtime.

| variable | code |
|---|---|
| `runner[m]` | `runner`: enabled, configuration fragment, state, lease, crash-loop window, retry, blocked, generation |
| `op[m]` | the goroutine of the start, cascade or failure stop in flight for `m`, and its program counter |
| `mod[m]` | the module itself: down, up or broken, of which start, with which fragment |
| `mainStops[m]`, `admitted`, `releasing` | Stop calls of main executing in `m`; slots of the runtime; background releases |
| `main`, `cand` | the main goroutine inside `Start`, `Reload` or `Shutdown`; the candidate of a reload |
| `loop`, `due`, `failures` | the control loop, its list of due retries, the failures channel |
| `graph`, `stopped` | the resolved graph (its modules), the stopped flag |

The main goroutine takes `Start`/`StartOnce`/`LaunchLoop` (and `StartCancelled`: a signal
between two starts), then `Reload` = `ReloadRejected` or `SelectPrepared`, `Prepare`,
`AllPrepared`, `Commit`, `Swap`, `StopModule`, `Disable`, `Enable`, `StartOnce`, `ReloadDone`,
and `Shutdown` = `WaitLoop`, `WaitOps`, `StopModule`..., `Exit`, with `DeadlineExceeded` for
its bounds.  A start is `ClaimStart`, `Admit`, `StartReturns`, `CleanupReturns`,
`FinishStart`; a failure `HandleRuntimeFailure`, `StopForDependency` for each dependent,
`FailedStop`, `FailedStopped`.  `RetryDue`, `ReportFailure` and the returns of module calls are
the environment's.  Abstractions: a retry is `waiting`, then `due` at an arbitrary moment; any
number of events may leave the crash window; a start that overran its deadline is a start that
failed, because the code waits for it and stops it whatever it returned; the wake channel, the
retry timer and the ticker only change latency; a configuration is the number of the reload
that last changed it.  Of the order of starts (`StartRank`) only "dependencies first, one
module per position" is assumed; `DependencyOrder` gives TLC the order that `DependencyGraph`
shows `Resolve` computes.

**`HealthProbes`** (in `MCCollectors`).  `probeAll`, `probe` and `publishAggregateHealth`, with
the fold of `internal/health`.  `slot` is `probeInFlight`, `probe[m][i]` the probe goroutines
of a module: asking, answered, late, settled.  What moves a module's lifecycle is
`Supervisor`'s subject; here `Move` takes any step along its paths at any moment, so that what
is checked does not depend on when the supervisor acts.  A report is its status.

**`DependencyGraph`**.  `Resolve` as the loops it is: `Read` and `Decrement` over the manifests
in ID order, `Pop` of the ready list, `Visit` of the depth-first search, one action per
iteration.  The definitions it is compared with are in `DependencyOrder`.

**`Collectors`**.  The goroutine a collector module owns, `kind` saying which of the six a
behaviour is about, because each answers an overdue sweep differently (`CollectProcess`,
`CollectDiscovery`, `CollectHost`, `CollectLogs`, `ProbeAll`, `CollectContainer`).  `mod` holds
the fields of the Module, `loop[g]` the goroutine of the g-th Start, `sweep[w]` a worker of
`guard.Call` with the channel that tells when it has really returned, `stop` what the
supervisor's Stop waits for.  Timers fire at any moment; settings are versions; of a sweep the
model keeps how it ends.

### Collection

**`ProcessTable`** and **`ProcessWatch`**.  A cycle is `ListProcesses` (the listing and
`reconcile`: filters, exits, PID reuse by start stamp, greedy admission, CPU deltas), a
`ReadDetail` for each selected PID (its I/O counters, read from whoever holds the PID by then,
without another look at its start), and `EmitCycle` (lifecycle events under their budget, the
rollup per executable, gauges and their retirement, as far as back-pressure allows); between
them processes are born, die and reuse PIDs.  `sweep` is the cycle that runs.  An instance is
the number of its birth, and so is its start stamp; a program named in `Guarded` may be closed
to the agent and opened again (`Turns`, the Windows reader without a handle), and then has no
stamp.  `seen` is what the listing happened to read, at one moment.  `ProcessWatch` is what the table promises (a bounded watch of instances); `TableIsBoundedWatch`
maps the one to the other (`alive` to the instances running, `watched` to those in the table).

**`HostMetrics`**.  The schedule of the host module's goroutine (`due`, `wait`, `Tick`), the
outcome per source, the baselines of the cumulative counters (`prev`, `hasPrev`), settings
through prepare, commit and roll back, pressure, the entity its metrics are bound to.  A
device's counter goes on, resets, wraps or vanishes (`HostWorld`); `earned` is bookkeeping of
what it really counted.  Of the shares of the processor's time the busy one, `iowait`, which may
fall between two readings, and `user`, for itself and for system, steal and irq, which do not,
are kept (`share`).  How a read overruns is in `Collectors`.

**`Topology`**.  A discovery cycle: the sources read processes, services and sockets one after
the other (`ReadProcess`, `ReadServices`, `ReadEndpoints`) while the host moves on
(`WorldMoves`: births, deaths with reuse of the PID, sockets); `Build` turns facts into
candidates (`builder.go`, `derive.go`), applies the caps (`topology.go`), and relates what was
admitted (`relate.go`), for Linux, Windows and macOS.  A cgroup path is a sequence of
components.  PIDs, names, addresses and ports are numbers below `Radix`, so that the order of
`capacity.apply` (kind, rank, key, order of building) is the order of numbers.

**`Inventory`** (with `MCInventory`).  What the host holds on its way to the fleet view:
`Cycle` is a discovery cycle over entities with versions (capacity, changes or a resync's next
page under the event budget) writing the event ring; `Flush` is `foldInventory` and
`exportInventory`; a delivered post is `ingestEventsLocked`.  Resolution has a budget too
(`ResolveEntities`): an entity of a later cycle's turn is announced without an ID, and the
exporter retains it under a fallback key (`Fallback`), beside the row it gets once it is
resolved; the intake knows both as one thing (`EntityOf`).  An edge is announced once both of
its ends have an ID.  The platform resolves whatever it is asked for.  `HostChanges`, failed sources,
lost posts and the restarts of either side are the environment's.  Nothing in the repository
calls `Throttle`, so that pressure is normal here.

**`LogTail`**.  A cycle is `StatFiles`, which opens the files and finds their sizes, and
`Collect`: for each file `ReadPath` (rotation, window, lines in UTF-8 or UTF-16, consumed
offset, cut to the size that was found), `Add` and `FlushIdle` of the multi-line aggregation,
and what is emitted.  Between the two writers append and truncate (`Reading`, at most
`MaxUpsets` times); what they append then is read, and read again in the next cycle (`Again`).
What happens to one file while another is read may as well happen before its stat or after its
read.  A file is a sequence of bytes: the number of its line, CR, LF.  `CollectOverruns` is a read that outlives its deadline.  `excused` and `spilt` keep the
known losses apart (`Excuse`, and see below).  `Ascending`, which the process table and the other readers use
too, has numbers in their order: the positions of the line ends, PIDs, archives, sorted tags.

**`LogSyslog`**.  The syslog listener under `Configure`, `Stop` and Reads that may go on beside
Stop: `Start`, `Bind...`, `Drain`, `Release`/`Shut`/`Closed` of Close, the serving goroutines,
connections in a bounded table and a bounded queue that drops its oldest.  `life` is the lock
of start and Close; sockets, goroutines and stop channels carry their generation.

**`Intake`**.  What is sent to the agent, `Statsd` and `Receiver`, and the one property of both.

**`LogCursors`**.  The readers that keep a place in a binary log, `source` saying which:
journal, login records, Windows event log, last logins, archives.  The writer may be half-way
through a record (`Write`, `WriteEnds`), and the log may be replaced.

**`Statsd`**.  The UDP reader through start, stop and restart (fields `conn`, `cancel`, `done`
read when its goroutine starts), and `ApplyPacket`: lines, tags, instruments, and admission to
the capped tables of the in-process telemetry.

**`Receiver`**.  The OTLP/HTTP receiver: `StartReceiver` binds what can be bound,
`acceptor[g][a]` is the goroutine that serves address `a` for the g-th server, from before it is
scheduled (`born`) to its return; `StopReceiver`, `ShutDown`, `StopReceiverReturns` are the three
parts of Stop, the last perhaps at its deadline; `handler[r]` is a request: bounds read, counted
in, body read, taken, counted out.  net/http is what the module relies on: Serve closes its
listener when it returns, Shutdown closes listeners and waits for handlers.

**`Containers`**.  `Walk`, `ReadContainer`, `EmitSamples` of a sweep, between which containers
start, stop and restart under their id; `lastCPU`, `lastNet` are the remembered meters.

### Delivery

**`NativeExporter`** (with `MCNativeExporter`).  The flush loop with a phase and, inside a post
or a replay, a position (`at`): before the circuit is asked, request out, backing off,
answered but not removed.  `Accepts` is what producers do at any moment; `Shutdown` cancels the
context at any moment; a request of a cancelled context is `void`.  The intake answers with
success, refuses for good, or fails - and then may have received the request or not; once
`healthy`, it answers with success.  Items are numbered; writing a spool file and trimming are
one step.  A spool file that a replay cannot read is removed (`ReplayUnread`), its items `shed`.  `received`, `unsure`, `shed`, `late` are bookkeeping; no guard reads them.

**`OtlpExporter`**.  The queues, `agenda` (the signals a flush still takes), `posts`, the post
with its attempts, and a Shutdown that cancels the flush at work and flushes once more.
`Enriched` attributes of a received payload follow `enrich.go`.

**`InstanceMetadata`**.  `imds.Resolve`, one action per request, each of which may fail or be
answered with junk.

**`FleetStore`**.  Batches sent, late and again; handlers that read the intake's clock before
they take the mutex; `Observe` of one point with eviction, pruning and ring budgets.  A sample
is the time it was taken; points of a batch are folded in any order.

**`FleetView`**.  A host's rows, counts, topology and cost as operators of the state, because
every view is computed under the mutex and changes nothing; `MCFleet` gives it scenes (programs
with truncated names and a process that executes another, a renamed container, prices, rings,
counters).  The usage joined to mounts and containers is not modelled.

**`Prices`**.  `Resolver` lookups in the steps in which they take its mutex, downloads as
goroutines beside them, the cache on disk, and the scan of a price list row by row.

### Composite instances

`MCModules`, `MCLogs`, `MCAgent`, `MCFleet` and `MCCollectors` check several models that share
nothing in one run.  A variable `part` says which of them a behaviour is about and never
changes; the other models rest in one initial state.  The state space is the union of the
parts and not their product.  Components that do interact are composed inside a module:
discovery, exporter and intake in `Inventory`; StatsD and telemetry in `Statsd`; goroutine,
guard and supervisor's calls in `Collectors`; the writers with the readers of logs in `LogTail`,
`LogSyslog` and `LogCursors`.

## The runs

| run | question | instance |
|---|---|---|
| `SupervisorLeases` | Has each lease one owner, and does shutdown end, when everything goes wrong at once and no module call need ever return? | two modules, one depending on the other; one fault, one reload, hanging calls, early reports, a signal at boot |
| `SupervisorFaults` | Do lifecycle calls overlap, do failed starts leak, is the budget exact and charged to faults alone? | a chain of three, three faults, early reports |
| `SupervisorReload` | Across reloads: is Running alive, is the order of shutdown right, is a reload without faults complete? | two modules, two faults, one reload, failing commits |
| `SupervisorRecovery` | Do failed modules come back, and are those taken down whose work died? | two modules, three faults |
| `Collectors` | Is a sweep alone on its state, is an overdue one told, do committed settings take effect? Is a module asked by one probe at a time and heard again and again, and is the agent no better than its modules? | six collectors, two starts, two sweeps, two versions; two monitored modules, five lifecycle steps |
| `Modules` | Are figures, edges, lifecycle reports and container series those of the host, is the process table a bounded watch, does `Resolve` compute what it promises? | see `Modules.cfg`: two devices; one move of the host within a cycle; three births over two PIDs, one place, a program that may be closed to the agent; two containers, three rounds; every set of manifests over four IDs |
| `Logs` | Is every line, message and record delivered once, does every Close end; are datagrams and requests taken as they came? | a UTF-8 and a UTF-16 file, three lines, a rotation, and one upset (an append between stat and read, or a read that overruns); two addresses, queue and table of one; five cells; two datagrams over two starts; two servers on two addresses, two requests, two bounds |
| `NativeExporter` | Is anything lost or doubled, and does the spool drain? | three items, one too large; two requests per post, a circuit of two failures, a spool of two files, one restart |
| `Agent` | Is the identity asserted, do exported items arrive or are they counted, does the fleet view come to show everything? | every order of answers; three items, batch of one; three entities and a relationship, a budget of two events and two resolutions, a ring of three, room for both keys of each entity, two changes, one mishap |
| `Fleet` | Are counters exact, places given to the live and taken from the silent, do rows, chips and cost agree, are prices listed ones? | four series for two places, two batches of two hosts for one place; five scenes; two regions for one place, broken and stale files, two starts |
| `SupervisorReloadCalls`, `InventoryViewHeals` | violations: see [below](#where-the-code-and-its-documentation-differ) | the smallest that show them |

**What the properties say.**  Beside `TypeOK` (once, for the module that is proved type-correct)
each is about a hazard listed in `PROJECT.json`:

- *Ownership*: `LeaseOwned`, `NothingLeaks`, `ListenerAccountsForAll` (sockets and goroutines),
  the Stop of `IntakeIsTrue` (StatsD and receiver leave neither socket nor goroutine).
- *One at a time*: `OneLifecycleCall`, `SweepOwnsModule`, `OneHealthCall` of `HealthIsTold`.
- *What is said is so*: `RunningIsUp`, `OverdueIsTold`, `HealthIsTold`, `FiguresAreTrue`,
  `SourcesAreKept`, `EdgesAreProved`, `TableIsStable`, `ReportsAreTrue`, `ContainersAreReal`,
  `NothingIsInvented`, `RowsAreThings`, `CostAddsUp`, `PriceColumnIsTrue`.
- *Nothing lost, nothing twice*: `LinesBecomeRecords`, `CursorsKeepTheirPlace`, `Accounted`,
  `DuplicatesExplained`, `ItemsArriveOrAreCounted`, `TableIsTrue`.
- *Bounds that are exact*: `FaultsAreCharged`, `RingsCounted`, `PlacesGoToTheLive`,
  `BodiesAreBounded` and `MeasuresAreKept` of `IntakeIsTrue`.
- *Order and result*: `ShutdownOrder`, `ReloadReconciles`, `ResolveIsRight`.
- *What must happen*: `Recovers`, `ShutdownTerminates`, `CommitTakesEffect`, `HeardAgain` of
  `HealthIsTold`, `CloseEnds`, `SpoolDrains`, `Converges`.

**Refinement.**  `TableIsBoundedWatch` says that `ProcessTable` implements `ProcessWatch`: a
sample drops no instance it still sees, keeps none it does not, and passes one over only when
the table is full.  `Modules` checks it, `TableImplementsWatch` proves it.

**Why the bounds are enough.**  The supervisor's hazards need two modules of which one depends
on the other (cascade, blocked start), three for a cascade through a chain, one more fault
than `MaxRestarts = 1` for a quarantine, and one reload to meet each of them.  Probes need a
module that restarts while an old call is out (two goroutines per module, five steps), and two
modules of which one is required.  Collectors need two starts for a Stop that timed out, two
sweeps for one beside another, two versions for settings that are committed meanwhile.  Four
IDs allow a cycle behind a tail, two components, and a module that waits for two.  In
`Inventory` the budget (2) is below the number of entities (3), so that a resync takes two pages
and changes are cut, and below it for resolutions, so that one is announced before it has an ID;
the ring (3) is below what a resync sends; discovery and intake have room for the entities there
are, and the exporter for both keys of each (`RoomForTwins`: in the code all three are 4096, so
that the antecedent is about hosts of up to half as many).  The process table has one place for
two PIDs, so that admission refuses, and three births, so that a PID is reused, also within a
cycle.  The log window holds
two lines and a byte, so that it cuts one.  The syslog queue and table hold one, so that a
second is dropped or waits.  The store has two places for four series and one for two hosts.
The exporters' constants are the least for which there is a backoff, a circuit that counts, a
spool that is trimmed, and a batch longer than `MaxBatch`.  The receiver has two servers, so
that a start meets the listeners of a Stop that gave up, and two requests for a bound of one.

**Fairness.**  `Progress` (supervisor): goroutines are scheduled, a released mutex is acquired,
timers fire.  `ModulesReturn`: calls into modules return; it is assumed by `Recovers`, whose
statement carries it, and not by `ShutdownTerminates`, because the code bounds those calls
itself (`HangingSpec`).  A signal, a reload, a fault and a shutdown are never forced.
`Collectors`: strong fairness of each goroutine's step and of taking the settings' signal,
because Go's select takes a ready arm at random and passes none over for ever; a sweep returns
in the end.  `HealthProbes`: the ticker ticks, goroutines run, and a module's Health returns
sooner or later, perhaps after its deadline.  `LogSyslog`: goroutines notice a closed channel
or socket, a Close goes on, a connection ends when it is closed.  `Inventory` assumes that
cycles and flushes go on and that both intervals elapse: each is a ticker loop that nothing
stops; that a flush (every 5 s) falls between two cycles (every few minutes) is
`ExporterKeepsUp`.  `NativeExporter` assumes the loop's next step (the HTTP client has a timeout)
and the expiry of the circuit; that the intake recovers is in the antecedent of `SpoolDrains`.

**Deadlock** is checked in the supervisor's runs and in `InventoryViewHeals`.  The others really
come to rest: bounded writers have written, bounded starts are used up, a loop has ended after
its final flush.

Every property of a passing run has a mutant: an operator next to the definition it replaces,
with a comment that starts with "Bug:", under which TLC finds the property violated.

## The proofs

Each holds for every value of the constants that satisfies the named assumption of its module,
which TLC evaluates in the runs.  A theorem with a hypothesis says so in its ASSUME; the runs
meet the hypotheses too.

| module | about | theorems |
|---|---|---|
| `SupervisorProofs` | types, leases, what Running means, shutdown, calls, the budget, reloads | `TypeCorrect`, `LeaseSafe`, `RunningModulesAreUp`, `DependentsStopFirst`, `OneCallAtATime`, `NothingIsLeftBehind`, `QuarantineIsEarned`, `FaultsAreChargedOnce`, `ReloadsReconcile` |
| `CollectorsProofs` | collector goroutines, health probes | `CollectorsOverdueIsTold`, `CollectorsSweepOwnsModule`, `HealthIsAsItsModules` |
| `ModulesProofs` | process table, host, containers, dependency graph, topology | `TableImplementsWatch`, `TableReportsAreTrue`, `HostFiguresAreTrue`, `HostSourcesAreKept`, `ContainersTold`, `ResolvesRight`, `EdgesHaveEvidence`, `TablesSettle` |
| `LogsProofs` | syslog listener, OTLP receiver, StatsD, readers that keep a place | `SyslogAccountsForAll`, `ReceiverAnswers`, `StatsdAnswers`, `IntakeAnswers`, `CursorsKeep` |
| `LogTailProofs` | reader of log files | `LinesAreKept` |
| `NativeExporterProofs` | native exporter, retained inventory | `NothingIsLost`, `TwiceOnlyIfUnsure`, `TablesAreCounted`, `TablesAreTrue` |
| `FleetProofs` | metadata, OTLP exporter, store, views, prices | `IdentityIsAsserted`, `NothingIsLostUncounted`, `StoreRingsCounted`, `StorePlacesGoToTheLive`, `ViewRowsAreThings`, `CostsAddUp`, `PricesAreTrue` |
| `NumberSets` | lemmas on numbers, finite sets, folds, steps and what sequences hold that the library lacks | - |

**Types and leases of the supervisor** (`SupervisorProofs`).  `TypeOK` is inductive by itself;
`RunnerUpdates`, `OpUpdates` and `ModUpdates` say once that replacing one module's record by a
typed one keeps the function typed.  `LeaseOwned` says that a module is admitted exactly if one
of four parties holds its lease (its record, its op goroutine, a background release, the main
goroutine stopping it), and never two.  It is not inductive: whether `FinishStart` hands over a
lease or has none depends on where the op has been.  `LeaseInv` adds `OpLease`, which ties an op's
position to whether it holds a lease.  `RunningIsUp` needs `CallInv`: at which positions of the
main goroutine, of an op and of a stop the module is up, and that the start which put it there
is the one recorded.  Its hypothesis is that calls return in time or nothing is reloaded
(`Overrun => MaxReloads = 0`): with both, a reload that gave up on a Stop may enable the module
beside it.

**Shutdown, calls and reloads** (`SupervisorProofs`).  `ShutdownOrder` rests on where the
graph, the states and the list of modules still to stop are in each phase (`GraphPlace`,
`UpPlace`, `StopPlace`): before Shutdown no module is up above one at rest, and a cascade under
way is finished by `WaitOps`.  `OneLifecycleCall` and `NothingLeaks` rest on `WorkInv`, which
says which party is calling into a module.  Both exclude reloads, because `stopModule` really
does call into a module that is being started (see `SupervisorReloadCalls`), and `NothingLeaks` a
signal during boot, which ends the process without Shutdown.  `QuarantineIsEarned` (the window
exceeds the budget exactly when the module is quarantined) has no hypothesis.
`FaultsAreCharged` is that an injection exists from what is charged to the faults there were: an
injection is carried along and extended by each charge (`FaultInv`).  It excludes reloads and
overruns, as there a start may be refused because a discarded lease is still being released, and
that refusal is charged without any fault.  `ReloadReconciles` is about reloads during which
nothing fails: `CalmInv` says for each position of main which modules are already as the new
configuration says (`InPlace`), that the fragments in force or staged fit (`FragmentFits`,
`CalmFits`), and that what is still planned covers the rest (`CalmPlan`).  A start is never
refused then, since the order of starts puts dependencies first.

**The collectors** (`CollectorsProofs`).  "No two sweeps" is not inductive: whether a
goroutine may call depends on what it knows of the sweep before.  `Inv` is types, `OneLoop` (as
long as no Stop timed out, a goroutine that is alive is the module's own or the one Stop waits
for), `OwnSweep` (a goroutine that waits has a sweep of its own) and `SweepKnown` (a sweep that
runs is the one whose settled channel the module kept, that of a waiting goroutine, or of a
cancelled one; and a module that is stalled was last told failing).  For the health probes,
`ProbeInv` says that a module's slot is taken exactly as long as one probe goroutine of it lives,
so that a second call cannot begin; the agent's health is a fold over a set, which
`SetInduction` shows to be the worst of its components.

**Process table, host, containers, graph** (`ModulesProofs`).
`AdmissionFills` is the heart of the table: the greedy admission in PID order stays within the
limit and leaves nobody out below it; it is shown with the least PID that would break it
(`SmallestIn`).  `ListingIsSample` maps `ListProcesses` to `Sample` of `ProcessWatch`, every other
step is a change of the host or stutters there.  `BaselinesInv`: the I/O baseline of a row with a
stamp is of another process only once the row's own is over; so a row that survives a listing by
its stamp has its own, and so has what the cycle has yet to read (`SweepInv`).  `Owed` says of a
cycle under way that what was reported as started is in the table, is excused, or has its end among
what the listing found.  The listing finds the end of all that leaves the table with it
(`EndsAreFound`, `ChangesHold`), and `EndsAreTold` follows it through the filter (`WantedHolds`) and
the budget (`ToldHolds`): it is always wanted, so it is told or counted as shed.  For the host, `HostModuleInv` ties each due time to the settings in force or
pending (`Scheduled`) and each baseline to what the device had really counted when it was read
(`Earning`, with wrap-around of `w` bits), and says that the processor's shares come from one
pair of readings, so that only a state that fell can make the others exceed what is used.  For the containers, `BoxInv` says that a remembered meter is of the incarnation
it names.  For `Resolve`, `GraphInv` follows the three loops: the in-degree of a module is the
number of its dependencies not yet placed, every prefix of the order is the greedy one, the
search stack is a path, and what could not be placed waits for something else that could not
(so that, by the least counterexample, a cycle is found).  The cascade is a fold of the stop
order; `AffectedIsLeast` shows that it collects exactly the transitive dependents.

**Topology** (`ModulesProofs`).  That an edge is proved is a fact about moments: the child was read
first, its parent later, the service that names it later still, and the host moved in between.
`SceneInv` is about the host (a live process's parent is the instance that started it, `Orphan`, or
on Windows a number that went to a younger process: `Kin`).  `SightInv` is about what was read:
`SightAgrees` says that two facts already read name the same instance, `SightLasts` that what may
still be read will agree with them (the instance read is there, is gone, or its PID is in
`reused`).  `EdgeIsTrue` then takes each type of edge to the facts it was made from, and
`EdgeIsAlone` shows that the builder's choice leaves one target per source and type.
`TablesSettle` needs `CalmInv`: how much of the present host the cycle under way has read, and that
from the second calm cycle on the table is what is made of it.  What the Docker daemon answers
renames candidates without moving them, and a renaming does not change whom the caps admit
(`AdmissionRenames`), so only containers can be news.  Places are numbers to the base `Radix`,
compared digit by digit (`DigitsCompare`): services precede processes, hence a process is tracked
only when the services are all in or at their own cap (`ServicesAreShedLast`).

**Logs** (`LogsProofs`).  `SyslogAccountsForAll` assumes that Reads do not overlap (`OneReader`):
with two, a socket bound by the one is not seen by the other (source_syslog.go:82).  Its
invariant says for every generation of the listener which sockets, goroutines and connections it
has on record and which messages are drained, queued or counted.  `ReceiverAnswers`
(`ReceiverInv`: types, servers, counts, bodies) has no hypothesis; one conjunct of the property
`IntakeIsTrue` is `RequestsAreAnswered`, which it states.  `StatsdAnswers` states two more: while
every Stop outwaited its goroutine, the one that lives is the last launched, on the socket and
channel the module holds (`ReadersInv`); and the counter is the cardinality of the good datagrams.
`IntakeAnswers` states `IntakeIsTrue` whole, of the two listeners side by side (`Intake`).  What
is left for it is `MeasuresAreKept`: after every line, each series is worth what its lines are
(`KeptWell`: the sum, the last, or the count, sum and ends of a set of places in `LinesTaken`), no
series is without a line, and the lines without a series are as many as were counted.  `PutOnKeeps`
and `PutOffKeeps` are the two cases of a line: one that is admitted adds one place to one series,
and could not have been turned away before, as the table would have been full; one that is turned
away finds it full, and since series stay, so will every later one.  `PutsKeep` carries that along
the fold of a datagram.  That tags in another order are the same series (`KeyIs`) is `SortedSame`:
two sequences that ascend and have each entry as often are the same, whatever order CHOOSE took.
`CursorsKeep` rests on two invariants.  `LogInv`: the cells are numbered one after the other
(`CellsInv`), the reader stands inside the file it has looked at (`PlaceInv`), and nothing is told
of a cell it has not reached, nor twice, while all it has passed is told (`ToldInv`); a look
delivers cells beyond its place only, which are other than all it told before.  A reader gone
astray keeps the first half, and the second is then not claimed.  `SaidInv`: a user's reported
logins are different, up to the one remembered, and an archive is reported among those
remembered only, so that one looked at now was not.

**Log files** (`LogTailProofs`).  `LinesAreKept` has no hypothesis but the assumption on the
constants: any finite set of files, text or UTF-16, with LF or CR LF, any window, batch, number of
lines, rotations and upsets, read from the start or from the end.  `LinesBecomeRecords` is not inductive,
since it counts what was read and says nothing of what a file holds.  `TailInv` adds three things.  A file
is lines laid out one after the other, each with its number, and at most half a line at the end
(`Lies`; `LiesWhole` and its like show that the writer keeps it).  No line was read that was
not begun.  And `Known`, for the lines that nothing excuses: each came once; of those still
there, what came was passed and what was passed came; and the reader does not stand inside one.
Between a stat and its read the writer is as free as elsewhere: the place is then further back than
what was read (`KnownBack`), and what a truncated file gave counts for nothing (`KnownMore`).
A read is taken apart along the code.  `LineEnds` finds every end (`OrderHolds`), so that the
lines of a window are disjoint parts of it that leave out only ends; a line that lies in the
window whole is one of them (`PieceIsLine`); and the count of a text read is the place at which
the last line ended, which is where UTF-8 with CR LF fails and why `Sound` leaves it out.  `Reads` then says
of text and UTF-16 alike what was delivered between two places and what was cut, and `Known` is
carried along by `Reads` alone, whether the cycle delivered, was dropped at its deadline, or
passed over what `Seek` skipped.  The records are an induction over the lines of a cycle:
aggregation moves bytes between what went out and what is open (`ProcessKeeps`).

**Exporters and inventory** (`NativeExporterProofs`, `FleetProofs`).  `ExporterInv` says where an
item can be in each phase of a flush: `OnePlace` (one buffer, payload or file at a time) and what
was received once and why it may come again.  `OtlpInv` does so for the OTLP exporter, with the
counts as cardinalities (`ItemBooks`).  For the retained inventory, `FoldedIs` says what one event
makes of the table (the others stay, its own item is as it says; the counters move with it);
`RingIsFolded` turns the fold of the ring into steps, and `LatestIsFolded` is the induction over
them: of the last event of an item the table holds what it says, however often older ones are
folded again.  `TablesAreTrue` assumes that what may be retained has room for everything the host
can have (`Roomy`), as at the cap an announcement is passed over; `TablesAreCounted` does not.

**Metadata, store, views, prices** (`FleetProofs`).  `IdentityInv` says of each field who asserted
it.  `StoreInv` is types, `FoldingInv` (a batch is folded into a host that has a row) and `RowInv`:
what has a ring is held and chartable, and the two counters are the cardinalities of the charted
series of their class, within budget; the action property follows, because counters have to be
exact for a refusal to mean that the places are taken.  That what is given up was silent holds of
its own stamp, which a late batch moves back (see below).  The view's properties rest on how a host's
values, rows, units and rings come to be (`ValuesInv`, `RowsInv`, `UnitsInv`, `RingsInv`); that chips
count rows is an induction over the fold that makes them.  `ViewRowsAreThings` assumes that
containers have identifiers, and nothing of processes, whose rows are keyed by name and PID
(inventory.go:558-561): one that executes another program has two.
`PricesInv` ties what is held, downloaded, answered and on disk to what was listed.  Its key is
`FoundInv`: while nothing is known of a region that is being fetched, the disk has no usable file of
it, so that a lookup cannot put older rates over those of the download.

**Folds.**  A fold over a set or a sequence is a recursive function chosen by its equation.
`FoldExists` and `RunExists` show that the equation has a solution, `SetInduction` and
`UpInduction` carry a fact along it; both are first-order statements, proved by the least
counterexample, since the library's induction theorems cannot be instantiated.  The same way
`FlattenHolds` says what the parts of a flattened sequence add up to.

**Only model-checked.**  Liveness (`ShutdownTerminates`, `Recovers`, `SpoolDrains`, `Converges`,
`CommitTakesEffect`, `CloseEnds`, and the second half of `HealthIsTold`), which TLAPS cannot
reach.  Every invariant that a run checks is stated by a theorem.

## Where the code and its documentation differ

Shown by a run of its own:

- **`SupervisorReloadCalls`.**  `stopModule` does not look at `opInFlight`.  A reload that
  disables a module calls Stop into the Start that is executing; `runner.go` and ADR-0002 say
  that the in-flight flag bounds concurrency to one lifecycle call per module.  The module may
  end Disabled and running.
- **`InventoryViewHeals`.**  What is removed from a host is shown by the fleet view for ever:
  the store waits for a removal event, the exporter ships the retained set, which contains
  none.  (And a cycle that resyncs emits no removals, so that the exporter keeps the entity
  as well; with all three caps at 4096, such ghosts can keep live entities out.)

Met while modelling, and not stated as a property:

*Supervisor, health*
- A dependent whose start is in flight is skipped by the cascade (loop.go:293) and becomes
  Running without its dependency; the comment above `handleRuntimeFailure` says that everything
  that depends on the failed module is stopped.
- A report that is handled before `finishStart` has recorded Running is dropped, and so is one
  that finds the failures channel full of other modules' reports: the dead module stays
  Running.  `Recovers` fails with `EarlyReports` or with a `QueueCap` below the number of faults.
- `allowedTransitions` does not list Starting to CrashLooping, Registered to Failed and others
  that happen, since `setStateLocked` only records them.
- Failure handling that ends after a reload has disabled its module writes Failed over
  Disabled; if a retry is due, the loop re-arms a timer of zero again and again.
- A re-enabled module whose operation is in flight is not started; a module that is starting
  during a reload keeps its old fragment.
- Modules disabled by one reload are stopped in registration order, not in stop order.
- A Start that never returns holds `Supervisor.Start`; a signal during startup ends the
  process without `Shutdown`.
- Backoff, window and ticker keep the configuration of registration; a `PrepareConfig` that
  timed out is not rolled back.
- An answer to a probe asked before a restart is recorded as the new instance's until the
  next probe (loop.go:187); loop.go:172-174 discards a late result since "it describes a moment
  that has already passed", but only one that overran.  The health a tick publishes is that of
  the previous tick's answers.

*Collector goroutines*
- The logs module drops the settled channel (logs.go:317), and a second Read runs beside an
  overdue one; guard.go:82-84 asks callers to hold their slot.  An overdue Read's lines are lost
  although its offsets advanced, and so are the records `FlushIdle` gave to a read that failed.
- `updateHealth` of discovery (discovery.go:450-453) reads counters an overdue sweep writes, and
  settings reach its emitter without `awaitSettled`; a Stop that timed out, followed by a Start,
  leaves two cycles on one topology.  In the process module it leaves two loops, in the
  container module an unlocked package map with two writers, and in StatsD, HTTP check and
  container a goroutine that may close the new channel a second time.
- A new emitter after a restart has an empty `emitted`, so that gauges of before stay for ever.

*Process, host, containers*
- New processes are admitted before the same cycle's exits make room.  identity.go:37-40 says that
  an instance without a start stamp never gets counter baselines; it does (lifecycle.go:298-317),
  and where two without one follow each other in a PID, the second inherits the first's.
- I/O is read by bare PID after the listing (collect.go:192-201, reader_linux.go:245): the last
  delta of a process may end with a counter of the next holder of its PID.
- A process that cannot be read once counts as exited and started again; under
  pressure rollups are skipped, and gauges are set before older ones are retired.
- A host source that is disabled while it fails keeps the module Degraded for ever; the shares
  of user, system, iowait, steal and irq are not clamped (emit.go:168-173), and exceed the busy
  share, or one, when iowait has fallen; rising pressure makes every source due at once; after a
  restart with a failing HostID the entity is never rebound.
- An unreadable CPU meter is 0 and not -1 (linux.go:129-136, against linux.go:18), and the next
  good reading shows a lifetime as one cycle's; `container.running` of a runtime that is gone
  keeps its last value; "libpod-conmon-<id>.scope" counts as a container.

*Discovery and the inventory's way*
- A still host is not silent with two sockets on one port, two mounts on one point, or the
  status text of the Docker daemon (topology.go:21-22); a source that fails empties its domain
  for the cycle; a failed resolution is not retried.
- A PID that changes hands within a cycle gives a false edge (relate.go:287-291); a process
  without parent or service is isolated (derive.go:141-144 says it never is); several Windows
  services in one process keep the last; macOS gives the parent PID 0; only admitted interfaces
  own addresses; a kind without a priority gets 7; `ExcludeMounts` matches substrings.
- A relationship whose end is gone is removed without an event, one whose target changes
  leaves the old edge, and at the end of a resync relationships beyond the budget are dropped
  although the resync is recorded as done.
- An entity is announced without an ID when the budget of resolutions is used up (collect.go:149,
  topology.go:307), and retained under a fallback key (native/inventory.go:195-217).  Once it has
  its ID it gets a second row; the first stays until the agent restarts, takes a place of the 4096,
  and is posted with the second at every resend.  A removal takes the row with the ID only.  At the
  cap a twin keeps another entity out, and the fleet view may show the version the twin was
  announced with.  `Converges` says so in its antecedent.
- While the ring holds an announcement and a later change of an item, every flush finds a
  change and posts the whole inventory (native/inventory.go:71-83).

*Logs*
- Lines that are appended between the stat of a file and the read of it are delivered, and again
  in the next cycle, as the offset is cut to the size of the stat (source_files.go:252-255).
- A line that ends in CR LF is under-counted by one byte and read again; the last line without
  an end is emitted as whole; a read cut by its limit drops a byte; records over `MaxBatch` are
  dropped although offsets advanced; UTF-16 loses lines there; a rotation to a file no smaller
  is not seen; an overlong line stops a file.
- The journal's first look ships its last entry again; a first look at the logins may be
  misaligned; the Windows reader goes on from the newest record it saw; last logins exceed a
  batch by one; an archive that could not be opened counts as reported.
- Syslog: an abandoned Read rebinds after Stop (logs.go:190-194); two overlapping Reads with
  different addresses leak a socket, on which Close waits; a change of protocol at the same
  address is not seen (source_syslog.go:82).  `Readers` is one in the run for this reason.

*StatsD, OTLP receiver*
- A sampling rate is ignored, fractions of counters are cut, a datagram over the limit is cut
  silently, two sets of tags may share a key ("a=b:c", "a:b=c"), and the number of names is not
  bounded.
- The receiver's drops are never reset, so that one leaves it Degraded for ever, and its text
  says "to the queue bound" of bodies that were too large; a refused request is in flight while it
  is refused; the gauge of bound listeners is not lowered when one fails; handlers outlive a
  Stop whose Shutdown reached its deadline.

*Exporters, metadata*
- ADR-0006 says that a 4xx other than 429 is not retried; the payload is spooled, sent once
  more by the replay, and then removed and counted as replayed.  Inventory payloads are spooled
  and never replayed (native/exporter.go:43-44, 608).
- A spool file that a replay cannot read, or that is empty, is removed, and what it held is counted
  nowhere (exporter.go:616-620).
- `droppedExport` counts a failed post that is spooled, and not one that is spooled because
  the circuit is open; what trimming deletes is not counted at all.  In the OTLP exporter it
  adds up items and posts.
- Cancelling the context fails the replay under way, which counts towards the circuit: the
  final flush may then find it open and spool everything.
- `agent.shutdown` gives the telemetry what the modules' shutdown has left of one deadline; if
  nothing is left, the final flush is cut off with its batch in memory.
- The OTLP queue holds twice `MaxBatch`, a flush exports one `MaxBatch` and drops the rest; a
  flush that Shutdown cancels loses its batch; what is emitted after the last flush stays; JSON
  logs and metrics are posted as protobuf; an unparsable payload spoils the body it is joined to;
  JSON attributes that are not text are dropped.
- A local zone gives a region that does not exist; with a host id set and no metadata service
  start-up waits for about a dozen requests.

*Fleet store, views, prices*
- A late batch replaces newer values (store.go says each host holds the latest), and moves the
  time of the series back (store.go:372), so that one just reported may be pruned as dead.
- The process count and the disk column (view.go:264-277), and the containers of the cost page
  (cost.go:182-203), read series without the filter for liveness; the total share is
  clamped and not the rows, which may add to more (cost.go:231).
- Entities marked as gone count towards the cap; a process that executes another program has two
  rows with one ID, and an edge to it takes either name, in map order (inventory.go:745-755);
  `findSeries` falls back to any series, in map order.
- At the cap on regions a stale catalog is not refreshed although the comment says that the
  refresh is running; the cap ignores downloads under way and what comes from disk; a download
  that breaks off after some rates counts as complete for its whole life; "eight values" are
  nine.

## Plan

Done: the supervisor with its probes, the graph, the collector goroutines and what six of them
collect, the log readers, StatsD, the OTLP receiver, both exporters, metadata, inventory, the
store with its views and prices.  Proved: the theorems above.

Next, most important first:

1. An abstract lifecycle (a module is down, starting, up or stopping, one call at a time) that
   `Supervisor` without reloads implements.
2. The delivery path as a whole: what `NativeExporter` replays late, folded by `FleetStore`.
3. The rings of logs and traces in the in-process telemetry, and the diagnostics ring.

## Not modelled

Wire formats, protobuf and JSON decoding, severity and texts of log lines, secret scrubbing, the
parsing of `/proc`, sysctl and Windows APIs, configuration parsing and validation, identity
resolution beyond its budget, the usage joined to mounts and containers (inventory.go:379-423,
787-855), the network of a container whose namespace cannot be read (linux.go:205), the diagnostics ring, the local UI, HTML rendering, grants and `Authorize`:
conversions, I/O and tables that are only shown.  The arithmetic of money.  Memory-model
effects of the data races between an overdue sweep and its collector.  Pausing modules: nothing
in the repository calls it.
