# Verification of hedos

TLA+ models of hedos, checked with TLC, and proofs checked with TLAPS.  hedos
runs models on the machine it is installed on: it finds the models on disk,
picks a runtime for each, loads and unloads them within the machine's memory,
and serves them to its own command line, its terminal screen (the shelf) and an
HTTP gateway.

## The system

Four crates.  `kernel` holds data and rules without I/O beyond small files,
`runtime` everything that runs, `gateway` the HTTP server, `cli` the commands
and the shelf.  A request comes in through the gateway or a command; the facade
(`runtime/src/facade`) finds the record in the registry and the adapter that won
the auction; the adapter asks the memory governor for room, loads the model (a
sidecar process, a llama-server, a daemon's model) under the GPU gate, and
streams chunks back.  Images and audio go through the job scheduler first.
Pulls are downloads by detached worker processes that share nothing with their
clients but a directory.

| Part | State | Operations | What makes it hard |
|---|---|---|---|
| GPU gate (`runtime/src/governor/gate.rs`) | holder, holder count, waiter queue | acquire, drop of a guard, release loop | futures dropped at any await; a grant on its way to somebody who is gone |
| Memory governor (`governor/{memory,lease,residency}.rs`, `governed.rs`) | residents, leases, unloaders, idle timers, admission mutex, warm windows | admit, reserve, mark loaded and unloaded, begin and end generation, idle unload, evict, apply, quit | several locks in turn, awaits between them, cancellation, a timer that may be its own target |
| Job scheduler (`runtime/src/jobs`, `kernel/src/jobs`) | jobs, queue, executing slot, subscribers, bounded history | submit, cancel, events, execute, conclude | a cancel against every stage; record off the lock; late subscribers |
| Sidecar supervisor (`runtime/src/sidecar`) | entry per id: process, generation, buffered frames, waiter, exclusive flag, watchdogs | ensure running, request, job request, cancel, shutdown, kill, reader and writer tasks | stale tasks of an earlier process, kills decided under a lock and done outside it, hangs |
| Pull jobs (`kernel/src/install/pulls.rs`, `runtime/src/install/worker.rs`) | a directory: record, control file, locks, claims, slots | start or join, restart, resume all, stop, await answer, forget, and the worker | processes that die anywhere; files read before a lock and used after |
| Install service and providers (`runtime/src/install`) | flights, subscribers, cache files | begin, join, cancel, conclude; blobs, snapshots, refs | resumed downloads, crash between files |
| Engines and environments (`runtime/src/engines`, `environment.rs`) | install directories, staging, locks | install, remove, recover, provision | interrupted swaps, two processes |
| llama-server pool, whisper engine (`runtime/src/adapters`) | a server per model | ensure, health poll, reuse, teardown | as the governor, with a second owner of processes |
| Discovery, registry (`kernel/src/discovery`, `registry.rs`) | records on disk and in memory | scan, reconcile, migrate, retire | scans against edits, stores that fail |
| Auction (`runtime/src/resolution.rs`) | record's runtime, cache | identify, bid, rank | stale cache |
| Gateway (`gateway/src`) | in-flight count, responses, audit log | dispatch, stream, time out, rotate | clients that go away, errors after the first byte |
| Shelf (`cli/src/tui`) | the screen's state | reduce events to effects, perform them as tasks | answers that arrive late or out of order |
| Text machines (`stop_matcher`, `think_splitter`, `tool_scanner`, `frame_codec`) | held-back text | feed, finish | cuts anywhere |

`PROJECT.json` lists all of the parts with their files and how far each is
modelled, and the hazards at the line where each one bites.

## The modules

One module per component.  A critical section of a mutex and an operation on a
file are one action each; an await, a lock let go and taken again, and the gap
between two file operations are places where anybody else may move.  A `pc`
names the await or the gap somebody is at.  Small helpers with a one-line
"mistake" beside them mark the decisions the properties depend on.

**FairGate** is the promise of the gate: a queue of callers still waiting and
the set of owners; the head of the queue comes in with those right behind it
that want the same shareable producer.  **GpuGate** is the code: `holder`,
`holders` and `waiters` are the fields of `GateState`; `guard[r]` says where a
request's guard is (queued, granting, granted, held, dropped) and `listening[r]`
whether its future still exists.  `Acquire`, `Receive`, `Cancel`, `DropGuard`,
`Release` (one round of the release loop) and `Send` are its steps.
`ImplementsFairGate` is the refinement: owners are the requests that hold the
gate or are about to, and waiters who have gone are nobody.

**Governor** has requests (`Tasks`) and idle timers.  It uses FairGate as the
gate, so what is shown of it rests on the refinement above.  A task goes through
`warm_load_acquire` when its model is served by a sidecar and through
`governed_one_shot` otherwise; a job's task asks for admission first, without a
lease.  `residents` is a sequence in `loaded_at` order.  `CancelTask` drops a
request at an await with the guards it holds; `Faults` adds sidecars that fail
to start or die.

**JobScheduler** has jobs, callers who cancel and subscribers.  An execution is
`Begin`, the wait for admission, the runner with its progress and results, and
`Stamp`, `Record`, `Announce`, which are the three critical sections of
`conclude`.  The history keeps `Limit` jobs, the newest by submission.

**SidecarSupervisor** is the supervisor for one id, with sessions, a loader, a
stopper and the process, which may hang or die.  A kill decided under the lock
is put in `kills` and carried out later.  A frame is the process that wrote it,
the session it answers, and the event.

**PullJobs** is the pull directory with clients and workers as processes that
can be killed at every step.  `rec`, `ask`, `jobLock`, `refLock` and `slots` are
the files; a lock goes with its process.  `fresh` is a history variable: the
jobs that were asked to stop since their worker was put on them.  Bounds are the
records of `Budgets`: who the clients are and how many starts, stops, resumes,
forgets and mishaps there may be.

**MC\*** modules give the constants their values.

## The runs

| Run | Instance | Shows |
|---|---|---|
| `gate` | 3 callers, 2 producers, one shareable | exclusion, exact counting of guards, nobody stranded, refinement of FairGate, every waiter served, a caller who gave up never holds |
| `governor_warm` | 2 requests on one sidecar model, 1 timer, cancellation at every await, failed starts, crashes, quit | leases balanced, no load or unload beside a body, no timer after quit, a kept handle is a pending timer's |
| `governor_evictions` | 2 heavy models, 1 timer, both eviction policies | unloads of one model never overlap |
| `governor_crowded` | 3 requests on 2 heavy models | bodies run on accounted models, residents have unloaders, bodies start on live processes, residents are removed under the gate |
| `governor_jobs` | a request and a job, fair | as above, and both end |
| `governor_deadlock` | 2 one-shot requests for 2 heavy models, fair | *violated:* they wait for each other |
| `scheduler` | 2 jobs, 1 canceller, 1 subscriber, history of 1, fair | one at a time, no wedged queue, honest and ending streams, every job concludes |
| `sidecar_session` | 2 requests on 1 process, cooperative cancel, a death, fair | answers go to who asked, every session ends |
| `sidecar_restart` | 2 processes in turn, abandoned sessions, a shutdown, a mishap | no frame crosses over, no flag or waiter is left behind |
| `sidecar_stale_kill` | 2 requests | *violated:* a kill meant for a finished session |
| `pulls` | 2 clients, 2 workers, 2 jobs, 1 slot, eight plans, fair | one transfer per model and slot, stops are for fresh asks and are answered, no pull is shown as going for good |
| `pulls_cancelled` | 1 client, 1 worker | *violated:* a cancelled pull goes on downloading |

Three runs end in a counterexample, each against a line of the code's own
comments:

- `governor_deadlock`: `governed_one_shot` takes its lease before it waits for
  the admission mutex; the holder of the mutex waits for that lease to end.
- `sidecar_stale_kill`: `kill_if_owns` checks under the lock and kills after it,
  so a firing that is stale by then is not a no-op.
- `pulls_cancelled`: `stop` probes the lock, reads the record again and settles
  it without the lock; a worker that takes the job in between goes on.

**Bounds.**  The gate's cases need a holder, a waiter in line and one behind it:
three callers.  The governor's need two requests on one model and one on another,
and a timer.  The scheduler's need a job executing and one queued, and a history
that has to drop one.  The supervisor's need one session that holds and one that
waits, and a process with a successor.  Pulls need two workers for one job (one
late, one current) or for two jobs of one model, and two clients; the plans keep
each scenario small instead of allowing everything at once.  `MaxEvents` and
`Steps` bound a runner's events, `MaxGeneration` the processes, `Budgets` what
happens by itself.  Deadlock is not checked where a bounded scenario comes to its
end, or where everybody has gone home.

`governor_crowded` and `governor_jobs` drop requests only at the awaits that
have nothing half done behind them (`CleanAwaits`): at the others the code may
leave a live process outside the resident set or remove a resident outside the
gate.  The hazards list says where.

**Fairness.**  Tokio polls every task that is ready, so each task's steps are
weakly fair; the admission mutex is a tokio mutex, which is first come first
served, so taking it is strongly fair.  Timers fire.  A process told to stop
ends, because the supervisor kills it after its grace; beyond that a sidecar owes
nothing.  Processes of a pull that are alive run, and a transfer that neither
fails nor is stopped ends.  Nobody has to start, cancel, stop or resume anything,
and no fault has to happen.

## The proofs

`GpuGateProofs` proves of GpuGate, for any finite set of callers and any
producers:

- `TypeCorrect`, `CountsGuards` (`holders` is the number of guards in
  existence, all for `holder`), `MutualExclusion`, `ReleaseBalanced` (the
  `debug_assert` of `release` never fails) and `NobodyStranded`.

They follow from `GateInvariant`.  No one of the properties is inductive by
itself.  Exclusion needs the count, since a release sets the holder to `None`
when its count reaches zero.  The count needs to know that those in `waiters`
have no guard yet and are in there once, or a grant would count somebody twice.
That several guards are for a shareable producer needs to be carried along for
exclusion.  `GateInv` is the conjunction of these: types, the count, the queue's
shape, the shareable holder, no one stranded.  Assumed is only that the
set of callers is finite, that shareable producers are producers, and that
`NoProducer` is none of them.  `Release`
grants to a whole prefix of the queue at once, and the proof that the count is
right afterwards rests on the number of requests in an injective prefix.

Liveness (`WaiterServed`, `CancelledNeverHolds`) and the refinement of FairGate
are model-checked only, as is everything about the other modules.

## What the models leave out

Data: chunks, prompts, parameters, messages, sizes beyond the comparison of a
footprint with a threshold or budget.  Clocks: a timeout may fire whenever its
wait is on.

*Governor:* measured footprints; `acquire_loaded`; a `JobTasks` admission holds
no lease, as in the code.
*JobScheduler:* the history's file; a failing save is ignored by the code.
*SidecarSupervisor:* one id; stderr; the walk over the process tree.
*PullJobs:* records written by other builds; the momentary shared lock of a
liveness probe, which may refuse a claim; the worker's claim and its first record
are one step, as are the two clears of `honour`; progress records, the history
file, sweeping of old jobs and claims.

## Plan

1. *Installs:* InstallService (flights, subscribers, an abstract single-flight
   specification it implements), HFCache (blobs, snapshots, refs over crashes),
   EngineInstall (lock, staging, swap, recover), Environment.
2. *Serving:* LlamaPool with `acquire_loaded`, the whisper engine; the governor
   composed with the supervisor, so that the process of one is that of the other.
3. *Gateway:* Dispatch (in-flight cap, response parts, client gone, timeout),
   the block grammar of the streamed dialects, audit rotation.
4. *Shelf on disk:* Discovery over Registry, duplicates and removal, the
   auction with its cache, artifacts, settings.
5. *Screen:* the reducer with its tasks, strip, pull screen, chat pane, bench;
   answers tagged with generations.
6. *Functions:* frame codec, stop matcher, think splitter, tool scanner, context
   budget, file selection, each against a definition over the whole input.
7. *Proofs:* the supervisor's `FromThisProcess` and `BusyIsHeld`, the scheduler's
   `OneAtATime`, `OneTransfer` of the pulls, the governor's `LeasesBalanced`, and
   the refinement of FairGate step by step.

To make room, the governor's and the supervisor's runs are to be joined by
choosing the scenario in `Init`, as PullJobs does.
