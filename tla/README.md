# A TLA+ model of mlxlink_exporter

This directory holds a verification development of the exporter in this
repository: TLA+ modules translated from the Go source, TLC configurations that
model-check them on small instances, and proofs checked by TLAPS that hold for
every value of the constants. Line numbers refer to the source the modules were
translated from; `PROJECT.json` maps every definition to its lines.

## 1. The system

`mlxlink_exporter` runs NVIDIA's `mlxlink` in the background, one device after
another, and serves what it collected to Prometheus from memory.

| Component | Source | State | Operations | Talks to |
| --- | --- | --- | --- | --- |
| main | `main.go` | the exit code, the context, two goroutines, `errCh` | start-up, wait, `stop`, `wg.Wait`, `Shutdown`, `os.Exit` | starts the poller and the server, receives signals |
| Poller | `mlxlink/poller.go` | `store`, `pcieEyeStore`, `ready`, three counters; locals of the sweep and of the attempt | `Run`, `drainTicks`, `sweep`, `sweepDevices`, `collect*`, `record*` | calls Discovery and Runner, waits for a ticker, publishes to the collectors |
| Snapshot sets | `mlxlink/poller.go`, `model.go` | none: immutable values behind atomic pointers | `lookup`, `Snapshots` | poller writes, scrapes read |
| Discovery | `mlxlink/discovery.go` | which devices were warned about | `Discover` | reads sysfs while the kernel changes it |
| Runner | `mlxlink/runner.go` | none between invocations; per invocation a context, two `limitedBuffer`s | `Run`, `RunWithEye`, `RunPCIeEye`, `RunBaseline` | os/exec, the child and its descendants |
| Decoder | `mlxlink/decoder.go` | none between calls; per call the bins and lanes read so far | `Decode`, `DecodePCIeEye` | pure |
| Collectors | `mlxlink/collector.go`, `pcie_eye_collector.go` | none | `Collect`, `isStale` | load one set each, per scrape |
| HTTP server | `mlxlinkexporter/server.go` | net/http's | `ListenAndServe`, `Shutdown`, three handlers | `Ready`, the registry |
| Configuration | `mlxlinkexporter/config.go` | none | `Parse`, `StaleAfter` | main |
| Deployment | `deploy/systemd` | – | restart on failure, signals to the control group | main |

Control flows from main to the poller (a goroutine and a context), from the poller
to Discovery, Runner and Decoder (plain calls), and back through the context only.
Data flow from the poller to the scrapes through two atomic pointers, a flag and
counters. A scrape takes no lock and calls nothing.

What is hard in it:

* *Publication.* A set is replaced after every device. A scrape between any two
  steps must see each device at this sweep or the last and never a gap; readiness
  and the error counters must be ordered with it.
* *Fallback.* One attempt is up to three queries, each of which may be rejected,
  fail, be cancelled or not decode, and every rejection is counted exactly once.
* *Time.* Ticks fire during sweeps, sweeps outlast intervals, data grow stale.
* *Other people's processes.* A child may overproduce, fork, crash, ignore a kill
  for a while, or be signalled by others, as a deadline or a shutdown arrives.
* *Shutdown.* A signal, a second signal, a failing server and slow clients meet an
  invocation in flight.
* *A tree that moves.* sysfs is walked file by file under hotplug.
* *Somebody else's format.* `mlxlink` prints lists, maps and numbers that may be short,
  doubled, unreadable or not there, Go visits a map in any order, and one series
  named twice fails the scrape of every device.
* *Maps behind pointers.* A collector ranges over a published map while the sweep
  writes to its own; a copy at each publication is all that keeps them apart.

What makes each part correct is in section 4, property by property. `PROJECT.json`
lists every hazard at its line with the properties that cover it, or why none does.

## 2. The modules

| Module | Models | Composes |
| --- | --- | --- |
| `Snapshots` | targets, snapshots, sets, `lookup` | |
| `SnapshotCache` | abstract: what a published set promises its readers, with what follows from it proved | `Snapshots` |
| `Polling` | abstract: the loop main cancels and waits for | |
| `Poller` | the polling goroutine, its ticker, clock and context | `Snapshots`, `SnapshotCache` (twice), `Polling` |
| `MCPoller` | target lists and responses for TLC | `Poller` |
| `PollerProofs` | proofs about the poller | `Poller` |
| `Runner` | one invocation with os/exec and the child | |
| `RunnerProofs` | proofs about it | `Runner` |
| `Configuration` | `Parse`: variables, flags, defaults, validation | |
| `Exporter` | the life of the process | `Configuration`, `Polling` |
| `MCExporter` | environments and command lines for TLC | `Exporter` |
| `ExporterProofs` | proofs about it | `Exporter` |
| `Decoder` | `Decode` and `DecodePCIeEye` | |
| `Export` | the series the collectors make of what was decoded | `Decoder` |
| `MCDecoder` | texts and responses for TLC | `Export` |
| `DecoderProofs` | proofs about both | `Export` |
| `Scrape` | scrapes of a store that sweeps replace | `SnapshotCache` |
| `ScrapeProofs` | proofs about it | `Scrape` |
| `Cadence` | sweeps, ticks, ages and the staleness horizon | |
| `CadenceProofs` | proofs about it | `Cadence` |
| `Discovery` | one walk over sysfs | |
| `DiscoveryProofs` | proofs about it | `Discovery` |

### The two abstract specifications

`SnapshotCache` says what a scrape is promised of a published set: one device is renewed
at a time, a failure keeps data and date, readiness follows a device that is up. Three
stores implement it: both stores of `Poller`, and the pointer of `Scrape`, where a set is
a map that is allocated, filled, published and reclaimed.

`Polling` says what main is promised of the poller: no sweep is opened once the context is
done, an invocation that outlives the context is given up and no failure is seen of it, and
the loop ends between two sweeps. A failure seen before that may still be on its way to a
counter: the context may be cancelled between the check after a query and the counter.
`Poller` implements it statement by statement (`LoopIsPolling`); the poller inside
`Exporter`, which knows nothing but whether an invocation is under way, implements it too
(`PollerIsPolling`). So the wait main relies on in `Exporter` is described by a contract the
detailed goroutine keeps as well. That does not make the one an implementation of the other:
both are below `Polling`.

### Poller

`pc` is the statement the goroutine is about to execute. One action stands for
the code between two points at which somebody else can tell the difference:

| Action | Code |
| --- | --- |
| `Begin`, `NewTicker`, `Stop`, `TakeTick`, `Drain` | `Run` and `drainTicks` (182-235) |
| `DiscoverFails`, `Discover`, `EndPass`, `EndSweep` | `sweep` (237-266) |
| `SeedNone`, `Seed`, `Publish`, `Announce` | `sweepDevices` (268-315) and the readiness callback |
| `Collect`, `QueryRejected`, `QueryFailed`, `QueryAnswered`, `Record`, `Account` | `collect`, `collectWithEye`, `collectCombined`, `collectBaseline`, `collectPCIeEye` (317-562) |
| `RunCancelled`, `RecordCancelled`, `AccountCancelled` | the `ctx.Err()` checks after a query, after decoding, after the fallback |

`collectWithEye` calls `collectCombined` which calls `collectBaseline`; `query`
says how deep the attempt is, and `EyeWasRejected` what is still to be counted on
the way back up. A payload is the set of sections it carries: enough to say which
sections survive which query, which is what the code decides. The number of a
target's port and its PCI address are one value, `labels`: they only ever label.
`LastDuration` is assigned after each query in the code and here once, in
`Folded`: nobody reads it in between. The PCIe error counter has no port label in
the code; the model keys it by the whole target, which tells apart more, not less.

Two variables are history: `failed`, the failures the goroutine saw, and `late`,
whether the pending tick fired during a sweep.

### Runner

`pc` names what `run` is blocked in; os/exec's watching goroutine (`watch`), its
copying goroutine (`Copy`) and the child act beside it. The os/exec part is external
to this repository and follows the documented behaviour of `Cmd.Start`,
`Cmd.Wait`, `CommandContext` and `WaitDelay`: the kill at cancellation, the
hand-over of the watcher's error and timer, the pipe abandoned when the timer
ends. stdout stands for both pipes. `mortal` is a property of the child drawn
when the invocation begins: whether it dies at once when killed, or may be stuck
in the kernel for a while.

Time passes only while `run` waits for the child or the pipe: the exporter's own
steps take none. `ReturnsInTime` is about the child and its descendants, not
about a machine too busy to run the exporter.

### Exporter

main, the goroutine of `signal.NotifyContext`, the server, the poller reduced to
what shutdown depends on, and its child. Which way main takes through start-up is
decided by `Parse` over `settings`, drawn once: a variable, a flag or the default for
each option main depends on. What `Parse` lets through that something else panics
over is a step too: `New` registering paths (`StartServer`) and the ticker's
interval (`NewTicker`). `GroupSignals` says whether a stop signal
reaches the child too, as Ctrl-C in a terminal and systemd's default
`KillMode=control-group` do.

### Decoder and Export

The response is drawn in `Init`. Two loops over Go maps, in `decodeFECHistogram` and `serDesLanes`,
are steps, one per key in any order, since they return early; everything else is a
function of the response and assigned by `DecodeReturns` or `DecodePCIeEye`.

* A text is opaque. `Trim`, `Uint`, `Float`, `Commas`, `Colons`, `Unranged` and
  `Unbracketed` are constants: what `strings` and `strconv` make of it. What the
  decoder makes of that is modelled: which texts are no value, the range of an int
  and a uint64 (`MaxInt`), non-finite numbers, and which part of a family falls
  with one bad element.
* A value that is absent, null or of another shape is of one kind, "other": the code
  does not tell them apart.
* A list of samples is a set of entries with the place each was read at, so an entry
  that comes twice stays two. Prometheus sorts series; the `sort` calls only decide the
  place.
* A number keeps its divisor as `unit` in place of being divided. A parameter of the
  SerDes section stands for the tap it names.
* `Export` says which metric and which labels a sample becomes. The info metrics, the
  target's labels and the conversion of a count to float64 are left out.

### Scrape

Maps are objects on a `heap`; the store, the sweep (`previous`, `working`) and the
collector (`set`) refer to them. `Fresh` allocates, `Heap` clears what nobody refers
to. One store stands for both, as the same function sweeps both and the collectors
run the same loop. An attempt succeeds or fails; targets are visited in any order,
which includes the code's. There is one client, which asks `/readyz` and then
`/metrics`; collectors share nothing but the store, so more clients add nothing.

### Cadence

One device's view of the rhythm: where in a sweep its turn comes, which ticks are
dropped, how old its data are. `longest` is drawn once: how long this host's
sweeps may take. The return of a sweep (`SweepReturns`) and the drain after it (`Drain`)
are two steps, and a tick may fire between them: it is dropped and counted with those of
the sweep (`poller.go:218-222`). `MaxLag` is how much later than `longest` the drain may
come. Ages saturate at `MaxAge`, so time is unbounded.

### Discovery

One action per directory or link read, with `Change` between any two. `touched`
is history: the devices that changed since the walk began. `Poller` assumes of
`Discover` only that a list names a device once (`TargetList`); `InOrder` is what
discharges that.

Definitions marked "Faulty:" are slips the code could have made, at least one for every
property a passing run checks; substituted for the definition they follow, TLC finds the property
violated. They are part of no specification.

## 3. Runs

All take from a second to some two minutes. What a run checks is listed in `PROJECT.json`.

| Run | Instance and bounds | Why that is enough |
| --- | --- | --- |
| `hotplug` | 2 devices, 5 lists with one device under two labels, success or timeout, 2 ticks, 2 instants | three sweeps, so a device can appear, move, disappear and come back; two devices make a "visited" and a "pending" one |
| `fallback` | 1 device under two labels or none, Eye and PCIe on, rejection, timeout, bad JSON, partial answers, 1 tick | every path through the three stages and the PCIe pass, twice, with a relabelling, a removal or a return between; a sweep meets its bound of four invocations for the device. What `PCIeFollowsNetwork` says of a device while another is visited takes two, which with Eye and PCIe on is too many states: the theorem covers it |
| `liveness` | 2 devices, every query may be rejected, fairness | three stages for each device, ticks without end after the cancellation |
| `ready` | 1 device or none | expected violation, see 6 |
| `invocation` | timeout 2, limit 2, chunks of 1 or 2, 3 bytes in all | a buffer filled exactly, overflowed by one and written to when full; twice the timeout and a unit more of time |
| `shutdown` | any variable against any flag for a duration, a switch, a path and the level; any command line; 2 signals, 2 requests | every way through `Parse`, and after it a signal before, during and after registration and requests in flight beside a finished one |
| `group_signal` | 1 signal, 1 request | expected violation, see 6 |
| `decode` | some three thousand responses, one section varied at a time; up to 3 bins and 3 lanes; `MaxInt` 7 | doubled, unreadable, too large, reversed and missing elements in every place, the bins and lanes in every order |
| `scrape` | 2 devices, 5 maps, horizon 1, 4 instants, 2 sweeps | a device done and one pending; a scrape spans two publications and more; 4 references leave a map to allocate |
| `rhythm` | interval 4, sweeps up to 8, drains up to a unit later | sweeps that fit, touch, overrun and span two intervals, each with a tick before, at and after its end that the drain takes; seven failures |
| `five_failures` | the same, drained at once | expected violation, see 6 |
| `walk` | 3 devices, one excluded, 2 ports, 2 changes per walk | any kind of entry turned into any other between any two reads, twice |

The bounds: `MaxTicks`, `MaxClock` (Poller); `MaxWritten`, `MaxTime` (Runner);
`MaxSignals`, `MaxRequests`, `Settings` (Exporter); `Responses` (Decoder);
`MaxClock`, `MaxSweeps` (Scrape); `MaxSweep`, `MaxLag`, `MaxAge`,
`MaxFailures` (Cadence); `MaxChanges` (Discovery). The proofs hold for every value of them.
Deadlock is checked in every run: a process that is done steps in place
(`Returned`, `Gone`).

## 4. Properties

*Poller.* `MidSweepView`: what a scrape sees at any step. `NetIsACache`, `PCIeIsACache`:
both stores implement `SnapshotCache`: a publication renews one device from what it had, a
failure never blanks or re-dates data, readiness follows data and is never withdrawn.
`ErrorLedger`, `PublishedErrorIsCounted`: each failure is counted once, and before it is
shown. `OnlyRequestedSections`: nothing of a larger query survives a smaller one.
`PCIeFollowsNetwork`: the PCIe pass runs over what the network pass published, and the PCIe
series of a device that is gone outlive its network series until the first PCIe publication
of that sweep at the latest, unless the context is done. `NoBackToBackSweeps`.
`LoopIsPolling`: the goroutine implements `Polling`. `SweepIsBounded`: what is left of a
sweep is a number, in statements and in invocations, which every statement lessens; at most
four invocations for each device. Liveness: `ShutdownStopsPoller`, `SweepEnds`,
`EveryTargetVisited`.

*Runner.* `AcceptedOutputIsComplete`: no truncation, kill or abandoned pipe passes
for an answer. `ReasonIsTrue`: the exporter's kill is never taken for a rejection, which
would trigger a fallback, and a timeout has taken at least the timeout. `ReturnsInTime`:
an invocation takes at most two. Liveness: `RunReturns`.

*Exporter.* `ExitLeavesNoChild`: an exit orphans no `mlxlink`, and the process panics over
nothing `Parse` accepts but unusable paths; a signal that kills it outright leaves a child
only while main waits for the poller, and is then not the first reason to stop; `CleanExit`:
status zero only when asked for, or after a signal with every request answered; (a server
that fails as the signal arrives may go unnoticed, the stop is what the status reports);
`StoppingCountsNoError`, for signals only the exporter receives; `PollerIsPolling`.
Liveness: `ShutdownCompletes`.

*Decoder.* `DecodedInAnyOrder`: the order in which Go ranges over a map decides nothing;
`EyeLanesAgree`: the families of an Eye name the same lanes; `LanesLineUp`: families
that number lanes by position agree on which lane is which, and one of flags or states,
in which a lane could be unreadable, has all its lanes or none. *Export.* `NoSeriesTwice`:
whatever `mlxlink` prints twice, no series is exported twice.

*Scrape.* `ScrapeIsOneSet`: one published set, whole and judged at one instant, however
far the sweep gets meanwhile; `ScrapesGoForward`: from scrape to scrape a device that
stays is there and its last success does not go back; `ReadyThenData`: what `/readyz`
promises holds of the scrape that follows, unless a device was removed (with that
the promise fails, see `ready` in 6). `StoreIsACache`: what the pointer leads to implements
`SnapshotCache`, however maps are shared and reclaimed.

*Cadence.* `HealthyIsExported`: sweeps up to two intervals, drained within the third, never
let a healthy device's data reach the horizon, although the sweep a dropped tick
would have begun never runs. `ThreeFailuresAreSurvived`, `FailuresAreCounted`:
how many failures in a row the horizon leaves room for, and how many it does not.
`OverlapMeansLate`: a counted overlap says that an interval passed between the tick that
began a sweep and its drain, and is never missing if more did. It does not say that the sweep was
slow: one that fits its interval is counted too when the drain comes late.

*Discovery.* `StableIsFound`: a walk is right about every device that stood still,
and one cut short has no result. `InOrder`.

### Fairness

* Poller: `WF(Goroutine)`: the goroutine is scheduled and every invocation
  returns, which is `RunReturns` of `Runner`. `SF(Stop)`: Go's `select` chooses at
  random among ready cases, so a cancelled context that is ready at every turn is
  taken in the end. Ticks, cancellations and the clock have none.
* Runner: the exporter's goroutines run, timers fire, time passes, and a killed
  child dies sooner or later. Nothing is assumed of a child or descendant left
  alone. A child that cannot be killed at all would block `Cmd.Wait` for ever:
  the code has no remedy for it, and `RunReturns` does not hold of it.
* Exporter: main, the poller and the goroutine behind `NotifyContext` run. The
  server, the clients, the child and the signals have none: `ShutdownCompletes`
  holds because `Shutdown` gives up after ten seconds, not because clients finish.

## 5. Proofs

TLAPS checks all of them; nothing is taken on trust. Each module's assumptions are
the typing of its constants (`PollerAssumption`, `RunnerAssumption`,
`ConfigurationAssumption`, `ExporterAssumption`, `DecoderAssumption`, `AbsentAssumption` and
`StoreAssumption`, which is the same of the entries of `Scrape`),
and three ask for more: `ScrapeAssumption` that a map object is left to allocate beside
the four that are referred to, as the garbage collector sees to; `CadenceAssumption` that
the caps of an age and of a run of failures lie beyond the horizon; `DiscoveryAssumption`
that devices and ports are numbers. `StoppingCountsNoErrorHolds` assumes `~GroupSignals`.

**Poller.** For any devices, labels, target lists, responses, reasons and bounds.

* `TypeCorrect`. `TypeInv` strengthens `TypeOK` with what the pass and the attempt
  need of each other: a query belongs to its pass, an outcome to a finished query.
* `MidSweepViewHolds`. `MidSweepView` speaks of `store`, but the code publishes a
  working map, so it is not inductive: `Shape` says that the store is the previous
  set before the first publication and the working map after it, that the working
  map holds a renewed snapshot for every target visited and the previous one for
  every target pending, and nothing else.
* `ErrorLedgerHolds`. Inside an attempt counters lag. `Ledger` adds what is *owed*:
  the rejection of the Eye query until `Account`, that of the combined query and
  the attempt's own failure until `Record`. Counted and owed together are the
  failures seen, until a cancellation drops what is owed.
* `NetImplementsCache`, `PCIeImplementsCache`. `Fresh` says that an attempt's
  snapshot descends from what the previous set knew of the device and that no
  time is ahead of the clock; with `Shape` it makes `Publish` an abstract
  `Publish` and every other step an `Announce`, a `Retire`, an `Elapse` or a stutter.
* `PCIeFollowsNetworkHolds` from `InOrder` (of `PollerProofs`): during the PCIe
  pass the network store holds exactly the targets; and from `Accompanied`: outside a sweep,
  until the context is done, a device of the PCIe store is in the network store (`Paired`),
  and inside one what has lost its network series is gone with the first PCIe publication.
* `PublishedErrorIsCountedHolds` from `ShownCounted`: errors are counted in the
  snapshot, the working map and the stores, and counters never go down.
* `NoBackToBackSweepsHolds` from `Drained`.
* `LoopIsPollingHolds`. Each action is a step of `Polling` or shows nothing; the type
  invariant is all it needs. `WindsDownHolds` follows from it: after the cancellation every
  change of stage goes down in `ToGo`, so that at most one invocation is begun, and given up;
  with `ErrorLedger`, counters then move up to the failures seen before and no further.
* `SweepIsBoundedHolds`. `StepsLeft` counts the statements of the attempt under way and
  eight for each attempt to come in this pass and the next; `InvocationsLeft` the queries
  likewise, by `Chain`, the most a query and its fallbacks can be. `Asked` says that a
  query is of its attempt's chain, without which a fallback could lengthen the rest. The
  lemmas named `...Lessens` show action by action that the numbers fall. This is the safety
  core of `SweepEnds`: what is left to fairness is that the goroutine takes its steps.
  With `ReturnsInTime`, for children that die when killed, a sweep of *n* devices waits for
  mlxlink at most *8n* command timeouts: a bound on `longest` in `Cadence`.
* `StoresAreDated`, `StoresGoForward`, `ReadyWithAnUpDevice` are inherited from
  `SnapshotCache`, below.
* `OnlyRequestedSectionsHolds` from `Answered`, which has the property from `Record` on,
  where the answer is cut to what its query is authoritative for.

**SnapshotCache.** What follows from the abstract specification alone is proved once
and cited through the instances: `DatedHolds` (no success is ahead of the clock, no data
without a success), `OnlyForwardHolds` (a device that stays never goes back to an earlier
success, its data change with a success only), `ReadyOnceHolds`. The lemma they share is
`StepRenews`: a step renews a device by a success or a failure, keeps it or drops it.

**Runner.** One inductive invariant in parts: `Stage` (what holds of the process
where `run` is), `Kill` (who killed the child and why), `Output` (nothing is lost
between pipe and buffer but what overflowed), `Clock` (timers are not early),
`Verdict`. `ReturnsInTimeHolds` adds `Bounded` for a mortal child.

**Exporter.** For any settings. `Order` (nothing starts before main, a running poller has
a child), `Cause` (without the server's error it was a signal that brought main
here), `Configured` (whatever runs was started from a configuration `Parse` accepted,
so that the ticker's interval is positive), `Served` (what the exit status owes to
requests still in flight) and `Killing` (between `StartPoller` and `Stop` no signal kills,
and after it the killing one is not the first reason to stop). `PollerIsPollingHolds`
refines `Polling`, and `WindsDownHolds` follows as for the poller. `OneErrorPerSignalHolds`
says how far the divergence of `group_signal` can go: whoever a stop signal reaches, it
costs one collection error at most. Its invariant `Accountable` charges each error counted,
and the one a signalled child is about to cause, to a signal of its own.

**Decoder.** For any texts, conversions, `MaxInt` and responses. `BinsInv` and `LanesInv`:
what a loop has built is exactly what it visited, without doubles, or it is empty and
a key says why. That makes the finished map a function of the response
(`DecodedInAnyOrderHolds`). `NoSeriesTwiceHolds` needs in addition that a lane number
tells samples of a family apart: by position, by `UniqueEyeLanes`, or because the map
is keyed by it.

**Scrape.** For any devices, maps and number of sweeps. `Private`: the map a sweep writes
to is neither the store's, nor the one it started from, nor a reader's. Hence what a
scrape goes through is as it was when it was loaded (`Reader`), which is
`ScrapeIsOneSetHolds`. `Sweep` relates the three maps: of a device still to be visited all
agree, and of one that stays the working map knows no less than the store, so that the
store never falls behind the last scrape (`Forward`, for `ScrapesGoForwardHolds`). `Honest`
says that readiness was set after a success was stored, and that while no device was
removed that success is still there. `OneAhead` is what `StoreIsACacheHolds` adds: the map
about to be published differs from the store's by the device in hand, by those that left
the list, and by nothing else. `StoreGoesForward` is inherited.

**Discovery.** For any entries and any number of changes. `Passed`: the list is right about
every entry left behind that stood still; `Current`: what was read of the entry under way
is still so unless it changed; `Order`: entries to come are behind all targets found. The
walk takes the least entry left, so the proof needs that a set of numbers has one, which
is the well-foundedness of `<` on `Nat`.

**Cadence.** For any interval and any length of a sweep. `Place` ties the ticker to the time
spent in a sweep and until its drain. With it a device's age is bounded by its place in the
sweep and the failures since its success: from above when it is healthy (`Healthy`), or
failing with sweeps of half an interval (`Failing`), and from below always (`Failed`).

Only model-checked: the liveness properties, since fairness and `ENABLED` are out of the
prover's reach; `SweepIsBounded` and `WindsDown` are what can be proved of progress. Every
invariant, action property and refinement a passing run checks is also proved. The type
invariants of `Exporter`, `Cadence` and `Discovery` are proved and no longer run.

## 6. Where documents and code disagree

| Run | The text | What the code does |
| --- | --- | --- |
| `ready` | `server.go:82` "handleReady reports whether a scrape would return device data." | ready outlives the device |
| `group_signal` | `docs/design.md:98` "stopping the exporter never inflates the error counters" | a signal to the whole group ends `mlxlink` before the context is cancelled, and `exit_error` is counted |
| `five_failures` | `config.go:27-29` "a cached snapshot survives this many consecutive failed sweeps" | the data expire during the fifth |

In `group_signal` the failure is counted at once when the killed query is a baseline or a
PCIe one. The death of a combined or Eye query makes the poller fall back first, and is
counted only if the context is still open when the smaller query has returned and been
checked. `Exporter` does not tell these apart: it counts at `InvocationReturns` what
`Poller` counts at `Record` or `Account`.

Three more are plain from `Runner` and are stated here without a run of their own.
`--command-timeout` is described as the "Maximum duration of a single mlxlink
invocation" (`config.go:103`), and `ReturnsInTime` shows twice that. `exit_error`
is described as a non-zero exit status (`model.go:20`), and `ReasonIsTrue`
has to admit a death by somebody else's signal. `output_too_large` is described as
"the process was killed" (`model.go:24-25`), while the runner drops the excess and
lets the process run.

## 7. Not modelled

* Log output, HTTP routes, the stderr excerpt, `netdev`, the once-per-device warning,
  addresses, file names and the parsing of the list of excluded devices: no state
  that other components depend on.
* The info metrics, the duration gauge and metric descriptions; the bytes of labels and
  the numbers in a section, except where the decoder decides by them.
* The widths of a duration and of a count: intervals above 58 years, occurrences above
  2^53.
* The unit's hardening.
* A process stopped or a machine suspended between two of its steps.

## 8. Plan

Done: `Snapshots`, `SnapshotCache`, `Polling`, `Poller`, `Runner`, `Configuration` and `Exporter`,
`Decoder` and `Export`, `Scrape`, `Cadence` and `Discovery`, each with its proofs.

Next, in order:

1. `Runner` as the implementation of the poller's `QueryRejected`, `QueryFailed` and
   `QueryAnswered`.
2. Both collectors under one gather, reading two stores at two instants.
