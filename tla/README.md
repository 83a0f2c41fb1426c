# UFlow: TLA+ models, model checking and proofs

UFlow is a daemon (`uf-daemon`, Rust) that owns memory on behalf of model-serving clients: HBM blocks, DDR
mappings, SSD extents, memory of a simulated remote provider, and "external DDR", memfds that one client registers
and others map through a broker. It moves data between these with asynchronous transfers. This directory holds TLA+
modules translated from the source, the TLC configurations that check them on small instances, and proofs that TLAPS
checks for every instance.

Paths are relative to the repository; `D/` stands for `src/crates/uf-daemon/src/`.

## 1. Inventory

| Part | State | Operations | What makes it hard | Module |
|---|---|---|---|---|
| Object catalog (`D/catalog.rs`, `D/object_service.rs`) | objects, blocks, leases, handler threads | create with reuse, open, mark, close, release | memory is freed after the lock is dropped; exports and frees fail; cleanup at shutdown | `ObjectCatalog` |
| Control server (`D/main.rs`) | shutdown flag, handler threads | accept, request, shutdown, join, cleanup | handlers past the flag test, waits without bound | `ObjectCatalog`, `Transfers` |
| Transfers (`D/transfer_executor.rs`, `D/direct_transfer.rs`) | events, job queue, workers, outcomes | submit, finish, cancel, poll, wait | cancel races finish; the job runs on copied addresses; workers are never joined | `Transfers` |
| Pinned lanes (`D/transfer_channel.rs`) | lane table, budget, condition variable | acquire, release, reap | limits under concurrency, lost wakeups | `PinnedLanes` |
| Direct lanes (`D/direct_transfer.rs`) | lane table with time-to-live | acquire, release, reap | the same, with expiry | planned |
| Planner and router (`D/transfer_planner.rs`, `D/router.rs`) | none | classify, estimate, plan | case analysis | planned |
| External DDR broker (`D/external_ddr.rs`) | sessions, backings, views, authority | register, acquire, retain, release, revoke, commit, undo, refresh, stop | replies that may have been delivered, dying peers, quota, a strict journal | `ExternalDdrState`, `ExternalDdr` |
| Recovery audit (`D/ddr_recovery_audit.rs`) | replay of the journal | one event per kind | a rejected event poisons the broker for good | `RecoveryAudit` |
| Durable root (`D/ddr_managed_authority.rs`, `D/ddr_recovery_journal.rs`, `D/ddr_recovery_durable.rs`) | journal, head, state file, lock | initialize, open, append, state write, clean stop | crash or failure between any two file operations | `ManagedAuthority` |
| External DDR copies (`D/external_ddr_copy_admission.rs`, `D/external_ddr_transfer.rs`, `D/external_ddr_capability.rs`, `D/ddr_copy.rs`) | plans, receipts, works, workers, events | plan with a probe, submit, execute, poll, cancel, finish, publish, stop | cancel races publish, owners die half way, receipts go stale, nobody watches a worker | `CopyWork` |
| Simulated objects, mock provider (`D/sim_object_service.rs`, `D/providers/mock.rs`) | bindings, accesses, plans, provider tables | create, publish, import, checksum, revoke, release | the provider works while the catalog lock is free | `SimObjects` |
| Remote provider and agent (`D/providers/ub_sim.rs`, `uf_ub_sim_agent_obmm.c`) | sessions, request ids, streams, guest tables | one call at a time, agent request, reboot | late answers after a timeout, rebooted guests | `UbSimBridge` |
| Trust chain, witness, policy (`D/ddr_trust_*.rs`, `D/ddr_witness_*.rs`, `D/ddr_ready_gate.rs`) | trust file, state file, journal, evidence, lock | bind, seal, bound quarantine lifecycle, ordinary open | a process ends between any two writes; the lock passes from hand to hand | `TrustChain`, `TrustLifecycle` |
| Trace (`D/trace.rs`, `D/trace_api.rs`) | atomics, bounded buffer, artifacts | record, start, stop, clear, flush | atomics outside the mutex, artifacts written without it | `Trace` |
| DDR discovery (`src/crates/uf-core/src/topology/ddr.rs`) | snapshots, generations, evidence, pools | snapshot, guard, measure, verify | no lock covers what is read; clocks are set | `Discovery` |
| DDR and SSD backends, ACL wrappers, codec, cost table, stats, SDK, monitor, scripts | none or I/O | | foreign calls, parsing, formatting | not modelled, or a step that may fail |

`PROJECT.json` lists every part with the reason for what is left out, and every hazard with the line where it bites
and the property that covers it.

How the parts interact: a client talks to the control server, which serves each request under the catalog mutex. A
transfer is submitted to the worker queue, whose workers borrow lanes and come back to the catalog to finish the
event. The external broker has a socket of its own and uses the same mutex; what it promises to clients is recorded
in the journal first, and the state file says whether a root was left clean. Copies between external backings run in
threads of their own and are finished by whoever asks for them. Discovery only watches: it queries the broker and the
NUMA inventory and hands out snapshots that later requests are checked against. A deployment witness can bind a root
to one broker generation and seal it afterwards. At shutdown `main` joins the control
handlers, then the broker's handlers and copy workers, then frees the HBM blocks; transfer workers are never joined.

## 2. Modules

| Module | Models | Extends |
|---|---|---|
| `PinnedLanes` | lane manager | |
| `ObjectCatalog` | catalog, handlers, shutdown | |
| `Transfers` | transfers on top of the catalog | `ObjectCatalog` |
| `RecoveryAudit` | the events of the journal, as operators on a replay record | |
| `ExternalDdrState` | the broker's operations, as operators on its state record | `RecoveryAudit` |
| `ExternalDdr` | handlers, clients, shutdown | `ExternalDdrState` |
| `ManagedAuthority` | the files of the root, their initialization and a sequence of brokers | |
| `CopyWork` | copies, their workers and events, on top of the broker | `ExternalDdr` |
| `SimObjects` | simulated objects and the mock provider | |
| `UbSimBridge` | the remote provider, its streams and the agents in the guests | |
| `Trace` | the trace collector | |
| `Discovery` | snapshots, guards, evidence and pools | |
| `TrustLifecycle` | what the trust chain promises, without files and crashes | |
| `TrustChain` | trust transactions, brokers and witnesses; implements `TrustLifecycle` | |
| `MC*` | constants and scopes of the instances | |
| `PinnedLanesProofs` | theorems about the lanes | `PinnedLanes` |
| `ObjectCatalogProofs`, `TransfersProofs` | theorems about the catalog and transfers | `Transfers` |
| `ExternalDdrProofs` | theorems about the broker and its journal | `ExternalDdr` |
| `ManagedAuthorityLemmas`, `ManagedAuthorityProofs` | theorems about the durable root | `ManagedAuthority` |
| `SimObjectsProofs` | theorems about simulated objects | `SimObjects` |
| `DiscoveryProofs` | theorems about snapshots, guards and evidence | `Discovery` |

Definitions whose comment begins "A mutant" are deliberate bugs; `PROJECT.json` pairs each with the definition it
replaces and the property that must then fail. No specification uses them.

### PinnedLanes

A thread holds the manager's mutex through all iterations of the loop in `acquire`, so an iteration is a step of the
thread that owns `mutex`: `TakeIdle`, `ReapForDirection`, `WaitForDirection`, `Create`, `Refuse`, `ReapForBudget` and
`WaitForBudget` are the ways out of an iteration, in the order of the code's tests. `Release` is the end of
`with_lane`, `Stats` the reaping in `stats`, `SpuriousWakeup` what a condition variable may do. Time is left out: any
idle lanes may have expired.

### ObjectCatalog and Transfers

A request is one step of the handler thread of its connection, because it runs under the catalog lock. What comes
after the lock is dropped is a step of its own: `Free` after `release_data_object`, `Enqueue` or `EnqueueFails` after
`submit_transfer`, `HandlerRecords` and `WorkerRecords` for the trace after `finish_transfer_event`. `memory` is what
the backend has: a block names its allocation, a DDR or SSD object its mapping or file; `Freed` gives the outcomes of
a call that frees it. `wait_event` sleeps on the condition variable: `NotifyAll` is `cv.notify_all`, `WaitResumes` the
next turn of the loop. A worker that takes a job is "copying", or "refusing" when `ensure_transfer_bounds` turns the job
away before any memory is touched, because the source was not Ready when it was submitted (`Execution`). A worker that
could not be spawned is `None` from the start. After `cleanup_blocks` the process
may exit under its workers (`ProcessExits`).

### RecoveryAudit, ExternalDdrState, ExternalDdr

`RecoveryAudit` has one operator per event: its condition is the test in `AuditReplay::apply`, its result the new
replay; an event that is rejected or whose append fails poisons the writer. `ExternalDdrState` has one operator per
method of the broker, composed exactly as the methods call each other (`refresh` retires, closes and collects; every
failing request ends in `collect_retired` and `discard_uncommitted_session`). `ExternalDdr` turns them into actions:
one action per request of `handle`, then the steps of `serve` for a provisional reply (`Send`, `AckLost`, `Commit`,
`Confirm`, `Undo`), the death of a process and the shutdown. `lost` names the appends and state writes that fail in a
critical section. `exposed` is what the code cannot see: the views a client may really have mapped. A failed `Send`
may have delivered its descriptor.

A process stands for its birth record, so a reused PID is another process. Identities that are never reused
(leases, handoffs, generations) are left out; the epoch appears as `lag`, how far the broker is behind the replay.

### ManagedAuthority

The root does not exist at first. `bootstrap` follows `initialize_at_mode_inner` through its `BootstrapStage`s, from the
directory to the manifest, which gets its final name last; the initializer may end at any of them (`BootstrapEnds`). A
directory without a manifest is never opened or initialized again.

After that, one broker at a time holds the lock, and its file operations are a sequence `todo`; `stage` says how far it
is with the first one. The stages are the `WriteStage`s of `append_inner` and the `StateWriteStage`s of
`write_pinned_state_inner`. Each stage may fail (`FrameFails`, `StateFails`), and the process may end between any two
(`Ends`). `journal`, `head` and `state` are what the next process reads; `synced` is what is on the disk. `Open` is the
verdict of `verify_deployment_state`: live, quarantined or refused. `held` is again what the code cannot see: what
clients of each broker still have mapped, also after the broker is gone.

### CopyWork

A plan copies into a private probe first (`BeginProbe`, `JoinProbe`, `CloseProbe`), then issues a receipt for the exact
request (`IssueReceipt`, `SavePlan`); `SubmitCopy` uses the receipt, admits the work and starts a worker, and
`EnterEvent` makes it visible. There is one planner because the discovery mutex is held over a whole plan and a whole
submit. Nobody watches a worker: a poll, wait or cancel of its event (`TakeWorker`, `FinishCopy`), or `Broker::stop`
(`JoinWorker`), joins it when it has returned and then runs `finish_copy_wip`, whose critical section refreshes the
sessions twice; `Dying` gives the processes that may die between the two. A receipt is good for one epoch; only whether
the epoch has moved is kept.

### SimObjects and UbSimBridge

A handler of `sim_object_service.rs` reads the catalog, drops the mutex, calls the provider and takes the mutex again:
`call` is in step "submit" before the provider's operation and in "commit" after it. Catalog tables and provider tables
are apart, so a property can say when they agree. `UbSimBridge` is one level below: the provider's mutex is held over a
call, which writes one frame and reads one with a timeout; an answer that is late stays in the stream for the next
call. An agent that reboots has a new session and empty tables. `abandoned` is what the code cannot see: the calls that
ended without their own answer.

### Trace

`enabled`, `category_mask` and `dropped_events` are atomics, read and written without the mutex, so a `start`, `stop`
or `clear` is a chain of steps (`Start`, `StartDropped`, `StartMask`, `StartState`, ...) and a recorder tests twice
(`Check` without, `Lock` with the mutex). A flush takes its `Snapshot` under the mutex, loads the counter
(`CountDropped`) and writes the five artifacts one after the other, each of which may fail; `last_flush_error` is whether
the last flush that counted for the run did. A run is its id and its output directory, which is all that `same_run`
compares. Two variables are history: `given` counts what `record_event` accepted in the current run, and `past` has, for
the flush of each handler, whether a start or clear or another flush of the run overlapped it, and what was given
before it.

### Discovery

A snapshot is a chain of reads (`QueryFirst`, `ReadPhysicalA`, `ReadPhysicalB`, `QuerySecond`, `EndSnapshot`) while the
broker, the inventory and both clocks move. `same_projection`, `GuardHolds`, `EvidenceFits` and `Slices` are the
comparisons and the arithmetic of the code. `version` and the `whole` of a snapshot are ghosts: which state of broker
and inventory was really there. `observe_physical` reads the list of nodes and then a file for each; the model reads the
inventory in one step, so an inventory put together from two moments is not among its snapshots. That a guard's byte range lies inside its backing is not told apart.

### TrustChain and TrustLifecycle

`TrustLifecycle` says that generations are bound and sealed strictly in turn, that no witness and no name comes back,
that only a generation whose broker finished is sealed, and that a chain whose last write was interrupted never moves
again. `TrustChain` has the trust file, the state file with its pending mark, the journal with its head, the evidence of
each witness and the lock: binder, sealer, bound broker and ordinary brokers are processes that take the lock one after
the other and write in the stages of `commit_prepared_trust`. `Exits` ends the process that holds the lock between any
two writes. The refinement mapping reads the complete frames of the trust file as the chain, and the marks that an
interrupted write leaves as `lost`.

`D/main.rs` 466-477 disables the commands of these generations today. The witness is a deployment script
(`src/examples/ddr_v0/t3_deployment_witness.py`), from which its actions are translated: it records what it saw, starts
its helpers and releases the gate at any moment, and may die at any moment. A record, journal and head, is one step
with what it is about: a torn record is refused by every guard, and a child that was not recorded never leaves its
gate. Of the roster only the broker is kept.

## 3. What the runs show

| Run | Instance | Properties |
|---|---|---|
| `pinned_lanes` | 3 threads, 3 lane slots, 2 directions, chunks of 1, 2 and 4 units, budget 3, limit 2 on one direction | `BudgetRespected`, `LaneExclusive`, `WaiterWoken` |
| `ddr_broker` | 2 processes, 4 memfds of 1 to 3 units, 2 backings, 2 views, 3 units for each owner and 4 for all, every write succeeds | `ExposureAccounted`, `CleanMeansDrained`, `JournalMatchesCatalog`, `ReferencesResolve`, `QuotaHolds`, `NeverSelfPoisoned`, `ExposureStopsAdmission` |
| `ddr_root` | an initializer, then 3 brokers in a row, 2 objects, a journal of 13 frames | `NoFalseClean`, `EffectsDurable`, `CleanRootOpens` |
| `transfers` | 2 clients, 2 objects and blocks, a lease, 2 events, a worker | `CatalogConsistent`, `FreedOnce`, `OneOutcome`, `EventsEnd`, `WaitsEnd`, `ShutdownCompletes` |
| `transfer_memory` | the same | `CopiesLiveMemory` is violated, see below |
| `copy_faults` | 1 process, source, target and probe, any one record or thread start of a section fails, the process may die inside a finish | `CopiesRetained`, `CancelledNeverPublished`, `EventsTellTheTruth`, `ShutdownEnds` |
| `copy_dying` | 2 processes, one copies from the other, no failing record | `NeverSelfPoisoned` is violated, see below |
| `sim_objects` | 3 handlers, 1 object of 2 bytes, 2 accesses, 2 plans | `ReleasedIsStale`, `CatalogMatchesProvider`, `ValidationOrder` |
| `ub_sim_bridge` | 2 guests, each may reboot once, 2 ids, 5 requests | `HostMatchesGuest`, `RebootedStaysEmpty`, `TimeoutIsFinal` |
| `trace` | up to 2 recorders of up to 2 events, 1 handler of 3 requests or 2 handlers of 2, 2 runs with limits 1 and 2 | `NothingLost`, `FlushedIsWhole`, `StoppedStaysStopped` |
| `discovery` | 2 sessions, 3 owners with a backing each, 2 inventories, 3 instants, up to 4 changes and 3 snapshots | `NotTorn`, `GuardSeesNoChange`, `EvidenceIsOfThisState`, `SlicesShareBudget` |
| `trust_chain` | 3 witnesses, 2 names, 4 frames after DEPLOY, 2 ordinary lifecycles | `SealTellsTheTruth`, `OnlyBoundBrokerWrites`, `NoAdmissionOnceBound`, `ImplementsLifecycle` |

The comment above each property says what it states and which code it is about; in short:

- Memory: no staging lane is shared and the pinned budget holds; a block or mapping is freed once and by the
  release or shutdown that is due it; the catalog's objects, blocks and leases fit together; what a client may have
  mapped stays charged and recorded until it is known to be gone; both sides of a copy are kept until its worker
  has been joined; catalog and provider, host and guest agree up to calls whose answer is missing.
- Records: a transfer ends once with one outcome in catalog and trace; a copy's event tells what became of the
  target, and a cancelled one is never published; no accepted trace event vanishes uncounted, and a flush that counts leaves five
  artifacts of one rendering unless it failed or another one overlapped it; a snapshot is of one
  moment; a SEAL is true.
- Durable state: the root never looks clean while memory of an earlier broker may be mapped; no effect precedes its
  synced record; a clean stop can be reopened, and so can a new root from the moment its manifest exists; the broker
  records nothing its own replay rejects, as long as writes
  succeed; the trust file implements its lifecycle.
- Progress: waiters for a lane, a transfer or a shutdown are woken without their timeouts, and shutdowns end, also next
  to a device copy that never returns.

Why the bounds are enough: two actors of each kind are needed for a race and a third for a bystander that waits;
each instance is large enough that every action and every disjunct of its next-state relation occurs. In
`pinned_lanes` a request may exceed the whole budget, fit only after reaping, or fit at once. In `ddr_broker` every
limit is reachable and passable by one unit. In `ddr_root` two generations can end cleanly and the third runs into
the end of the journal; in `trust_chain` two generations can be sealed and a third finds names and frames used up.

Scopes: where one instance has to answer several questions, its MC module gives an action constraint `InScope`, a
disjunction of smaller instances (`TwoViews`, `OneView`, `NoViews` of `MCExternalDdr`; `Catalog`, `OneTransfer`,
`TwoTransfers` of `MCTransfers`; `OneHandler`, `TwoHandlers` of `MCTrace`; `Guarding`, `Sharing`, `Budgeting` of
`MCDiscovery`). A scope limits what is requested, never what the code does with it. Ids that are counters in the
code are given out in order (`InOrder`) instead of being symmetric, which keeps the liveness checks sound. Symmetry is
used for `sim_objects` and `trust_chain` alone, whose properties are safety properties, over sets whose members no
definition tells apart.

Deadlock is checked for `pinned_lanes`, where threads start over for ever. The other systems may really stop, or their
bounded instances run out of requests, so their runs do not check it.

Type invariants (`TypeOK`, `CopyTypeOK`) are stated in every module and none is among the properties of a run. The
inductive invariants of section 4 contain the ones of the lanes, the catalog and transfers, the broker, the root and
simulated objects.

### Fairness

- Lanes: a thread that holds the mutex runs (weak fairness of an iteration) and a transfer ends (strong fairness of
  `Release`, which competes for the mutex). Nothing is assumed about waking up by itself.
- Transfers: handlers that can take a step do, and `main` joins them and cleans up. No client has to send a request,
  no timeout has to expire, and a copy may hang in the device: `ShutdownCompletes` holds all the same. `EventsEnd` and
  `WaitsEnd` are stated under `WorkersRun`, that every copy returns.
- Copies and broker: socket timeouts of 5 s bound every wait of a handler, an executor returns, the planner goes on,
  and `Broker::stop` joins handlers and workers. Fairness is stated on single variables (`handoff`, `worker`, `planner`,
  `stopping`, `phase`): some step that moves them happens, whichever.
- The other modules assume none; their properties are safety properties.

### Findings

`transfer_memory`: `plan/uflow_framework_scope.md:32` asks that buffers be kept until the data is complete.
`release_data_object` does not look at transfers, so memory is freed or unmapped under a worker that copies; the
cleanup at shutdown does the same, because workers are not joined. The counterexample is two creates, a
mark that makes the source Ready, a submit, and a release or the cleanup of the shutdown before the worker has copied.
A job whose source is not Ready is refused before it touches memory and is no counterexample.

`copy_dying`: `D/external_ddr.rs:148-150` says that after an unresolved peer death "Cleanup may still be recorded".
`finish_copy_wip` takes the next epoch before its second refresh and assigns it after it
(`D/external_ddr_copy_admission.rs:561`, `:818`). A process that dies between the two refreshes moves the epoch in
the second one; the assignment steps back behind the journal, and the next close is rejected by the replay, which
poisons the writer. When the dead process owns the target, the revoke of a backing that is being published is
rejected at once.

### Observations

Met while modelling; no run is about them.

- `D/trace.rs:439` loads `dropped_events` after the mutex is released, and a start (`:346`) in between sets it to 0: the
  summary of a run that dropped events may then say it is complete, which
  `plan/PhaseE-06-perfetto-chrome-trace-writer.md:459` excludes.
- `same_run` (`D/trace.rs` 443-449) compares the id and the output directory alone: after a restart under the same id, a
  flush that began before it counts for the new run. Two flushes of one run that overlap, or a second one that fails
  half way, leave artifacts of different renderings side by side; the failure at least shows in `last_flush_error`.
- `RebootedStaysEmpty` is about the guest that rebooted. What nodeB has mapped of a resource of a rebooted nodeA stays
  usable in the model and in the code, while `plan/PhaseC-02-uflow-ub-sim-functional-integration.md:325` asks that the
  access goes stale when the session of either side restarts.
- `D/sim_object_service.rs:634` rebuilds the descriptor that an import is checked against with offset 0, although the
  publish stored the real offset (`:465`), against `plan/PhaseC-02-uflow-ub-sim-functional-integration.md:911`.
- A broker that disables its authority (`D/main.rs` 562-573) exits normally with its generation bound and dirty: it can
  never be sealed. So does a BIND that takes the last frame of the trust file.

## 4. What is proved

All theorems hold for every value of the constants that satisfies the named assumptions of the modules: finite lane
slots and positive chunk sizes (`ConfigAssumption`, `FiniteAssumption`); sizes and limits as
`ddr_deployment_policy.rs` demands and distinct identities (`DomainAssumption`, `RequestAssumption`); and that the marker
`None`, or `Torn`, is none of the values it stands beside (`RootAssumption`, `CatalogAssumption`, `TransferAssumption`,
`NoneAssumption`, `DiscoveryAssumption`). Each theorem is `Spec => []P` for an invariant `P`, or `Spec => A` for an action
property, and rests on an inductive invariant: it holds initially, one lemma per action shows that a step keeps it, and
it implies `P`.

| Module | Theorem | States |
|---|---|---|
| `PinnedLanesProofs` | `LanesAreExclusive`, `BudgetHolds` | `LaneExclusive`, `BudgetRespected` |
| | `WakeupsAreNotLost`, `LimitsHold`, `TypeCorrect` | `NoLostWakeup`, `LaneLimitRespected`, `TypeOK` |
| `TransfersProofs` | `Consistent`, `Frees`, `Outcome` | `CatalogConsistent`, `FreedOnce`, `OneOutcome` |
| `ExternalDdrProofs` | `ExposureIsAccounted`, `CleanIsDrained` | `ExposureAccounted`, `CleanMeansDrained` |
| | `ReferencesHold`, `ExposureStops`, `JournalMatches` | `ReferencesResolve`, `ExposureStopsAdmission`, `JournalMatchesCatalog` |
| | `TypeCorrect` | `TypeOK` |
| `ManagedAuthorityProofs` | `FalseCleanNever`, `Durable`, `CleanOpens` | `NoFalseClean`, `EffectsDurable`, `CleanRootOpens` |
| `SimObjectsProofs` | `Released`, `Matches`, `Validated` | `ReleasedIsStale`, `CatalogMatchesProvider`, `ValidationOrder` |
| `DiscoveryProofs` | `SnapshotsAreWhole`, `GuardsSeeNoChange`, `EvidenceFitsState` | `NotTorn`, `GuardSeesNoChange`, `EvidenceIsOfThisState` |

`Invariance` in each module (`LaneInv` in the first) is the inductive invariant itself.

### Lanes

`LaneInv` adds to the properties that the owner of the mutex is the thread in `acquire`, that a thread under way has a
request, and that only live lanes are in use. `NoLostWakeup` needs them: a thread goes to sleep only when every idle
lane is of the other direction (or there is none) and the lanes that exhaust the limit or the budget are therefore in
use, which gives a thread in a transfer that will notify. The budget's case rests on `EmptySum`: with no lane in use
and none idle nothing is pinned, so a request within the budget would fit.

`BudgetHolds` is about `pinned_total_bytes`, a sum over the set of live lanes. The sum is a fold that chooses its next
element, so a small theory comes first: a set of sizes that has 0 and is closed under the successor is all of `Nat`
(`SetInduction`, from the well-foundedness of `<`), hence every finite set has such a sum (`SumExists`), the order does
not matter (`OneLess`), a larger set has no smaller sum (`SumMono`), and one more lane adds its footprint
(`OneMorePinned`). Then a reap can only lower the sum, and `Create` adds what `FitsBudget` has just compared.

### Catalog and transfers

One invariant for both, since a release and a worker meet in the catalog. `NamesFit`: what a handler, a worker or the
queue names exists. `MemoryOwned`: a handler about to free memory is the only one to name it and nothing in the catalog
does; an allocation that is there has a block or such a handler; after the cleanup nobody is left. It is what makes
`FreedOnce` inductive, because the free happens after the lock is dropped. `OutcomeNamed` is `OneOutcome` with the
thread that still has to record the end named instead of counted; the count follows (`FiniteSetTheorems`).

### Broker

The invariant is a predicate `Good` on the broker's state record: charged backings are exactly those the replay holds,
open views are unresolved, an unresolved view names a held backing, and a clean state file means that the replay has
no obligation. Each operation has one lemma (`RefreshKeeps`, `CollectKeeps`, `DiscardKeeps`, ...) of the form
`Keeps(S, T)`: `T` is good, what was unresolved stays so, no view becomes active, dirty stays dirty; references that
resolved (`Refs`) still do, and after a possible exposure nothing starts (`Halts`). `release_view` and `commit` may change
one view (`KeepsOthers`). `Inv` adds that a view whose reply is about to be sent is unresolved and not active, so that its
descriptor goes out only while the journal accounts for it.

`JournalMatches` has a second round of lemmas, one per operation, for `Sound(S)`: good, and every backing and view
agrees with the replay (`Agree`) unless the writer is poisoned. Between its calls an operation does not agree: the event
is recorded, then the catalog follows. `Settles(S, T)` says that whatever differs between two states agrees in the
second; `Moved`, `Ended` and `Unmoved` say what an event did to the replay, and each lemma pairs them with what the
operation does to the catalog.

### Durable root

The journal is replayed by a recursive function, so the lemmas begin with it: the replay of a sequence with one more
frame is the replay of the sequence, extended (`ReplayAppend`), by induction on the length as above. `ReplayInv`: the
complete frames replay to exactly what the running broker believes. `TodoInv` and the stage of the first operation say
what the three files hold between any two file operations. `BootInv` does the same for the initializer, `HeldInv` says
that under a clean state file nobody holds anything, and that whatever clients hold has its intent in the journal and
its broker among those that started. So a root that opens live, which needs a clean state file, has no exposed
predecessor.

### Simulated objects

`CallInv` says what a handler may still rely on while it is away from the catalog, `Exclusive` that two of them are not
about to enter the same thing, `Agreement` that the tables agree up to what some call is about to enter, `Planned` that
the plan of an access has its import step.

### Discovery

`EpochsTell`: within one instance of the broker the epoch counts its changes, so of all versions somebody remembers (the
broker, the sessions, a snapshot after its last query) equal epochs mean equal versions. `GenerationsTell`: the same for
the generations that discovery gives out and the state they stand for. `SampleFits`: what a half-taken snapshot has read
of the inventory was there together with the broker of its first query, or the broker has moved on since, which the
second query then shows.

### Only model-checked

- Every liveness property (`WaiterWoken`, `EventsEnd`, `WaitsEnd`, `ShutdownCompletes`, `ShutdownEnds`): fairness and
  `ENABLED` are out of the prover's reach.
- `NeverSelfPoisoned`: it holds only while every write succeeds, an assumption on the instance that the broker's proofs
  do not make.
- `QuotaHolds` and `SlicesShareBudget`: sums over sets of backings and pools, as the budget of the lanes; the theory of
  `PinnedLanesProofs` would carry over, but has not been written for them.
- The properties of `UbSimBridge`, `CopyWork`, `Trace` and `TrustChain`, with the refinement of `TrustLifecycle`. Nothing
  about them is known to be unprovable; no proof has been written. What is proved of the broker holds for `ExternalDdr`
  with any failing appends and state writes; `CopyWork` adds actions to it and is not covered by those proofs.

## 5. Not modelled, and what could follow

Not modelled, on purpose:

- Parsing and encoding of requests, frames, birth records, sysfs and category masks; the layout of reports and of the
  trace's context fields; command-line and environment checks of the deployment policy.
- The bytes of a copy: the chunk loops of `D/transfer_executor.rs` and `D/ddr_copy.rs` and the device calls are one step
  that succeeds, fails or hangs.
- Paths of DDR objects: a transfer reopens an object by its path (`D/ddr_backend.rs`), and which file the path names by
  then is not followed; `Transfers` only tells whether the memory is still there.
- Read-only services (statistics, capabilities, describe, monitor, SDK helpers), the cost table, the topology files.
- Test fixtures, and the path of a fixture's recovery in the root.

Could follow, in this order:

1. `DirectLanes`, the lane manager of `D/direct_transfer.rs` (205-494), a sibling of `PinnedLanes`; the planner and the
   router as operators checked against a reference table.
2. Proofs: `QuotaHolds` and `SlicesShareBudget` with a theory of sums; the bridge, the trace, `NoAdmissionOnceBound` and
   the refinement of the trust chain; the broker's invariant under the actions of `CopyWork`.
