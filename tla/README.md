# A verification of Universal-Agent

TLA+ modules of the parts of Universal-Agent where order, time and failure
decide: the leased work queue with its workers, the distributed locks, the work
handlers that drive sessions from the queue, the life of one agent session (run
loop, actions, control calls, versioned store), and around it the file store, the
outbox, the event streams, the task graph, the task group, multi-agent
delegation, the world model, the daemon's profile bundles and the session that is
rebuilt from its journal. TLC checks small
instances; TLAPS proves the theorems listed below for every value of the
constants. Paths are relative to `src/src/universal_agent/` unless they start with
`src/`.

## 1. The system

| Component | State it keeps | Operations | Talks to |
|---|---|---|---|
| Work queue (`distributed/queue_*.py`) | items with status, attempts, lease; an id sequence; fencing counters | enqueue, lease, heartbeat, complete, fail, cancel, expire, prune | workers, coordinator; durable variants share a file or a database between processes |
| Lock registry (`distributed/locks.py`) | one lease per key, a sequence | acquire, heartbeat, release, expire | work handlers, coordinator |
| Worker and worker registry (`distributed/worker.py`, `worker_state.py`) | a record per worker id; the run in progress | run_once with heartbeats and reports; register, heartbeat, drain, mark offline, expire | queue, registry, handlers |
| Coordinator (`distributed/coordinator.py`) | none of its own | schedule, cancel, prune, drain, register, expire, health, snapshot | all of the above |
| Work handlers (`service/distributed_runtime.py`) | none | goal, session, task and action work under a session lock with a heartbeat | runtime, queue, locks |
| Agent runtime (`runtime/agent.py`, `transitions.py`, `emission.py`, `recovery_planning.py`) | the session in memory, `SessionControl` (lock, active task, pause and cancel requests) | run, resume, continue, pause, cancel; decide, drive, observe, recover | executor, store, models, evaluators |
| Action executor (`runtime/actions.py`) | idempotency records, remembered approvals | policy gate, confirmation, lock, invoke, reconcile | policies, resource locks, tools |
| Resource coordination (`coordination/locks.py`) | who holds which resource | acquire, release | executor |
| Session store (`state/store.py`, `persistence/*.py`) | versioned snapshots, event journal; for files a commit record | load, save, compare-and-commit with an event, append, recover | runtime |
| Recovery manager (`recovery/manager.py`) | attempts per rule and task | decide | runtime |
| Policy engine (`policy/engine.py`) | none | check | executor |
| Task graph (`tasks/manager.py`, `runtime/processing.py`) | tasks, dependencies, the current task, the goal's status | compile, expand, start next, complete, fail, pause, cancel, finish, continue | runtime |
| Task group (`coordination/concurrency.py`) | guarded tasks, a semaphore, `abort` | run with bounded concurrency, cancel siblings on error | multi-agent, tools |
| Outbox (`persistence/outbox.py`, `postgres.py`) | rows with status and lease | lease, read back, publish, mark, release, reclaim | broker |
| Event streams (`eventstream.py`, `runtime/event_stream.py`) | subscribers, signals, cursors | emit, watch, poll, wait | servers, journal |
| Evidence and world (`evidence/store.py`, `world/model.py`, `runtime/session.py`) | evidence, fact buckets, entities | record, apply, trim, snapshot, hydrate | runtime, evaluators |
| Multi-agent (`multi_agent/orchestrator.py`, `delegation.py`, `registry.py`) | delegations, instances, child counts, depths | delegate, delegate many, complete, fail, revoke, set status | executors of other agents |
| Agent daemon (`agentd/app.py`, `config_admin_routes.py`, `profile/store.py`) | cached bundles per profile, stored profiles | resolve, build, mutate behind a guard | service, sessions |
| Memory, context, models, tools, domains | records, adapters, configuration | retrieve, assemble, invoke | runtime |
| Hosts, clients, SDK, TUI, operations, security, ecosystem, evaluation | configuration | request handling, reports | runtime |

What is hard here:

* **Leases against clocks.** A handler may still run after its lease expired and
  was given away; its late answer, its heartbeat and the sweep race. The same
  for session locks and for the leases of the outbox.
* **Several processes over one file or database.** What is kept in memory beside
  it (fencing counters, the id sequence) is not shared, and any of them may die
  between two writes.
* **Cooperative concurrency.** Everything between two awaits is atomic, and every
  await is a place where a pause, a cancel call or a cancellation of the
  caller arrives. `active_task` decides whether a control call talks to the
  driver or settles the session itself, and it is set later and cleared later
  than one would think. Delegations and profile changes interleave the same way.
* **Version conflicts.** A driver and a control call each hold a snapshot; the
  store refuses the older one, and the loser raises.
* **Side effects.** A confirmation, a recovery, a restart, a resume and a second
  work item all lead back to an action that may already have been carried out.
* **Budgets.** Iterations, recovery steps, recovery attempts, item attempts and
  children at their limits, across pauses, restarts and continuations.
* **Order of arrival.** Signals may be lost or late, evidence arrives in any
  order, and what is derived from either must not depend on it.

What makes each component correct: queue — items stay well formed, one unfinished
item per key, an outcome is final, tokens rise, every item ends; locks — no theft,
unique leases, rising tokens; workers — one handler per item, truthful reports, a
lost lease stays lost, a withdrawn worker rests; work handlers — one driver per
session, no lock left behind, a confirmed action is carried out by one item; session
— one tool per resource, no tool without the consent the policies ask for, no second
success of a side effect on record, terminal states stay, a cancelled session lets
its lock go, runs end; stores — snapshot and event move together; outbox — at least
once and in the end; streams — in order, once each, nothing missed; tasks — one at a
time, dependencies first, settled ones stay; task group — its limit is kept, nothing
starts after the abort; delegation — one task per instance, dependencies first,
limits kept, every spec answered; world — trimming and order of arrival change no
meaning; bundles — a change of a profile takes effect and orphans no session.
`PROJECT.json` lists the hazards line by line with the properties that watch them.

## 2. The modules

    WorkLifecycle        abstract: what a queue of retried jobs promises
        ^ refined by
    WorkQueue            the queue              <- extended by QueueWorker
        ^ WorkQueueProofs                          (worker, registry, operators)
                                                   ^ WorkerProofs
    LockRegistry         the lock registry      <- extended by SessionWork
        ^ LockRegistryProofs                       (handlers, items, a user)
    AgentSession         runtime, executor, resource locks, store, recovery
        ^ AgentSessionProofs
    AtomicStore          abstract: snapshot and event in one step
        ^ refined by
    FileJournal          the file store                          <- StoreProofs
    Outbox  SessionRebuild  EventFeed                            <- StoreProofs
    TaskGraph  TaskGroup  Delegation                             <- PlanningProofs
    WorldProjection                                              <- WorldProofs
    ProfileBundles  SessionWork                                  <- ServiceProofs

`MC*` modules give constants to TLC. `MCComponents` puts the modules that share no
state side by side; see section 3. A definition whose comment begins with
`Variant` is a plausible mistake in the definition after it and is used by
no action; `PROJECT.json` says which property it breaks.

### WorkQueue, WorkLifecycle

`items` is the store: one record per number of `work-<n>`; `seq` is
`_sequence`; `fence` the `_fencing_sequences` of each process. `issued` is a
history of the tokens handed out. Time is relative: `lease.left` and `delay` are
what is left until `lease_expires_at` and `available_at`; `Tick` lets one unit
pass. An operation of a durable queue runs under a file lock or in one
`BEGIN IMMEDIATE` transaction, so it is one action. `Backend` selects what
differs: the durable queues recompute the id sequence from the items they load,
each process has fencing counters of its own that a `Restart` clears, and
SQLite leases without a token. Every call that sweeps expired leases on its way
(`lease`, a lost lease) does so in its action.

Abstracted: among equal priorities the code takes the item available first, here
any; `prune`'s cut-off date is any set of finished items; an enqueue that
finds its key pending returns that item and is no step; explicit work item ids
and a caller's clock that runs behind are left out.

`WorkLifecycle` knows only stages, owners and tries: a job is submitted, taken,
given back or finished, and forgotten. `WorkQueue!ImplementsLifecycle` is the
refinement.

### QueueWorker

Extends `WorkQueue` with `pc`, `job`, `told` (one record per call of `run_once`
in progress), `registry` and the history `drained`. Preparing, leasing, refusing
and reporting are separate steps, as they are separate calls on a durable
store. The controller takes the worker id from the request, so `IdOf` may give
two runs one id. `Beat`, `BeatLost` and `BeatUnregistered` are the three ends of
a heartbeat: renew lease and registration, find the lease lost, or find the
registration lapsed, give the item back and cancel the handler. `Abandon` is a
process that dies. `Punctual` is an assumption on time, used by one run: nothing
a run heartbeats for lapses first.

Abstracted: `_prepare_worker`'s several registry calls are one step.

### LockRegistry

`locks` and `grants` (the sequence). The durable registries persist both, so one
state stands for all three. `acquire`, `heartbeat`, `release` and `expire` sweep
first, as in the code. `LockTTL` bounds the lease, `MaxGrants` the sequence.

### SessionWork

The handlers of `service/distributed_runtime.py` over the lock registry. `work` is
the queue as `WorkLifecycle` shows it: a lease may lapse at any time, and an
attempt is named by its number. `sess` is the stored session: its status, the
action it asks to have confirmed (`pending`; `acts` counts them, so that an
action has a name), and its current task. `drv` is one record per run of a worker
and one for a `User`, who calls the runtime of another process and takes no
session lock. `drv[d].pc` follows the handler: `taken` (leased), `admitted` (the
first look at the session was in order), `locked`, `loaded` (`resume` has
loaded it), `driving` (its first commit stands), `releasing`, `ended`. `fresh`
says that what the driver loaded is still the stored version. `BeatLock` renews the
session lock or finds it lost, `LoseLease` is the worker's heartbeat that finds
the item gone. Either cancels the handler (`asked`) and awaits it with no further
heartbeat: it may still drive, because a tool may ignore the cancellation and a
commit may stand in a thread, until it gives up (`Unwind`). `Crash` is a process
that dies anywhere. `PunctualLocks` is the assumption that a lock is renewed before
it lapses.

Goal work takes no session lock (`HandleGoal`: `on.lock` is 0), as in the code.
`OneWorkerPerSession` counts every run at work on a session, those without a lock
and those being cancelled included, and names the two pairs the code lets through:
one of the two has no lock (`Unlocked`), or was cancelled and has outlived its lock
(`Overstays`). What holds without exception is its second half: no two drivers, the
user's among them, both hold the stored version of a session they drive.

Abstracted: what a driven session does is any outcome (`Outcomes`); `AgentSession`
has the detail. A control call of the user is one step, since one that is
overtaken conflicts and changes nothing.

### AgentSession

A driver is the task that runs a session. `drv[s].pc` is the await it stands
at; an action is the code from that await to the next:

| pc | where in the code | leaves by |
|---|---|---|
| `entering` | loaded, before the first commit of the call | `EnterLoop`, `EnterConfirmed`, `EnterRejected`, `EnterRefused` |
| `entered` | that commit is emitted, `active_task` not yet set | `Activate`, `LoopTop` |
| `top`, `deciding` | loop: before the iteration, model decides | `LoopTop`, `Decide` |
| `driving`, `checking` | `_drive`, then the executor's gate | `Drive`, `Refuse`, `Reconcile`, `AskConfirmation`, `StartTool` |
| `tool`, `reconciling` | the tool, or its reconciler, runs with the resource locked | `ToolSucceeds`, `ToolFails`, `Reconciled` |
| `announcing` | the tool has succeeded; its events are emitted, still inside the `try` and under the lock (`actions.py:426-450`) | `Announced` |
| `observing`, `planned` | evaluation; the recovery plan is committed | `Evaluate`, `PlanRecovery`, `Recover` |
| `tail`, `leaving` | the final event is emitted, with and without `active_task` | `Return` |

`store` is the stored snapshot; `drv[s].fresh` and `ctl[s].fresh` say that a
holder's version is still the stored one, so `Commit` writes or fails. `ctl` is a
pause or cancel call that found no active driver: it loads
(`LoadForControl`) and settles (`SettleControl`) in two steps. `req` is
`SessionControl`; `hit` is a cancellation delivered at the next await, which
`HandleCancel` settles or `DieCancelled` passes on, and which a tool may swallow.
`Threaded` says that the store commits in a worker thread (SQLite): a
cancellation in the commit leaves the commit standing and the driver with an old
version. `locks` is `ResourceLockRegistry`, `seen` the in-memory idempotency
store, `rule` what the policies say. `Restart` ends every driver and forgets what
is in memory. `consent`, `ran` and `cut` are histories. A cancellation at `announcing`
forgets the record of a tool that has succeeded (`Unwind`, `actions.py:384-386`);
`cut` has those successes, and `RunsOnce` is about the others (`Told`).

Abstracted: `Run` holds the control lock from the creation of the session, where the
code takes it after the first commit: whoever overtakes the run until then has
committed, so the run fails on its version and changes nothing, as if it had never
begun. What models, evaluators, recovery rules and users decide is
arbitrary; a proposal stands for its fingerprint; one recovery rule per session;
one current task per session. An action that is denied, unresolvable, outside
the sandbox or at a stale resource version is refused at any time (`Refuse`).
Left out: usage budgets, read-only sessions, snapshots that do not hydrate, the
event journal, and event sinks that raise (`except Exception` forgets the record as
the cancellation does). `Ids` are reused once nothing refers to them, which is how
unbounded action ids fit a finite model.

### AtomicStore, FileJournal

`AtomicStore` is what a `RuntimeStore` promises of one session: the version and the
readable events move together in one step, for a writer that has the stored
version. In SQLite and Postgres that is one transaction. `FileJournal` is
`FileRuntimeStore`: `snap` is the session's file, `lines` the readable lines of
the log, `record` the commit record, `op` the operation under the file lock.
A commit is four writes (record, snapshot, line, unlink) and `Die` comes between any
two; whoever comes next replays the record it finds. `DieTearing` dies inside
a line: `tail` then says that the log ends with a piece, or with a whole line
without newline, and the next line is glued to it (`Glue`, `lost`).
`ImplementsAtomicStore` is the refinement: the record decides what counts as
stored. JSON files are replaced atomically (`os.replace`).

### Outbox

`row` is the outbox table, `pub` one record per call of `publish_outbox_batch`:
leased in one transaction, read back in a second, sent one by one, marked and
released in two more. The first transaction locks its rows (`LockRows`) and commits
(`LeaseRows`); rows another one has locked meanwhile are skipped, so a batch may be
empty while rows are due. An event may be taken by the broker although the call
raised (`SendBad`). `LeaseLapses`, `PublisherDies` and `RetryIsDue` come at
any time; `PatientLeases` assumes that the lease of a publisher at work lasts. `sent`
is a history.

### EventFeed

`feed` is the journal, `watch` an asynchronous generator per watcher with its
cursor, the batch it hands out and its signal, `got` what its consumer received
over all its connections. `KindOf` selects the implementation: in memory (an
`asyncio.Event`), polled, or broker-backed with pages of `max_catchup_events`.
A signal of the broker may come late or never; `Drop` closes a generator where it
stands, and the consumer comes back after the last event it got. Heartbeats
are not events of the model: they only let the loop go round.

### TaskGraph

`task` and `deps` are the tasks in order of creation, `current`, `goal`, the latest
`verdict` and `cont` (`is_continuation`) the rest of the session state that moves
them. A step is a whole transition of `runtime/processing.py` or
`transitions.py`, with every call into the `TaskManager` it makes: expanding,
completing, starting the next. What expanders propose and evaluators say is
arbitrary; an expansion adds at most one task per observation. `reject_session`,
which fails a session that cannot be hydrated and replaces its tasks by the current
one alone, is left out, so `SettledTasksStay` says nothing of it.

### TaskGroup

`guard` is where each guarded coroutine is, `asked` who has a cancellation still to
meet, `queue` the waiters of the semaphore, `runner` the call of `run`. asyncio is
modelled as it is used: a cancellation is met at the next step, a task that has not
begun ends without its guard having run, `gather` raises when a child was
cancelled. A coroutine may ignore a cancellation or raise because of it.

### Delegation

`wave` is what each `delegate_many` waits for, `outcome` its results so far, `deleg`
the record of the `DelegationManager`, `holder` which instance carries out a
spec, `agent` the registry, `children` and `known` the counters behind the limits.
A delegation selects, reserves and marks its instance busy before it first
awaits, so `Delegate` is one step. `Respond`, `Fail` and `Revoke` are the ways it
ends. `CancelBatch` ends the wait of a batch; its executors `Unwind` one by one, and
each sets its instance READY only then. `SetStatus` is the owner of an instance, with
any status at any time: a READY given during a task lets a second task start on the
instance, a BUSY keeps an idle one out of reach, and `forced` has the instances where
that happened.
Left out: costs, fallbacks, conflict resolution.

### WorldProjection

Evidence is numbered in the order of (observed_at, id) and arrives in any other.
`facts` has the bucket of each claim, trimmed as it grows (`Trim`), `entity` and
`attr` the entity of the subject. `Save` and `Hydrate` are the snapshot and the
rebuild, which `Replay`s the evidence in its own order. One subject stands for
all; relations are left out.

### ProfileBundles

`config` is the stored profile (its version), `cached` the daemon's bundle,
`builtFrom` the version each bundle was built from, `sessions` whether its sessions
are active, `request` the coroutines: at the door, holding a bundle they
resolved, awaiting the list of sessions, or about to change the profile.
`patched` is a history: the version of the last write that passed the guard. A
session that begins while a change is under way is called `raced`; one that begins
on a bundle its request resolved before a finished change dropped it is called
`orphaned` (`handle` resolves at `:335` and awaits before it begins a session).

### SessionRebuild

`EventSourcedSessionStore` over an in-memory store, with the `FileEventStore` it
rebuilds from. `kept` is the stored record with its version, `held` the version each
holder (the driver, a control call) loaded, `index` the states the running process
knows of the journal, `written` those its file would give back, `ending` how the
file ends (as `tail` in `FileJournal`). States are numbered by `made`. `stored` and
`returned` are histories: what the store accepted, and whose commit came back. A
commit is one step, since neither store suspends; `DieInCommit`, `DieInReject` and
`DieInEvent` are the places in it where a process can die. A commit appends its
event before its state, so a torn piece at the end of the file spoils the event only
(`WrittenAfterEvent`). `Reject` (`reject_session`) appends its state with no event
before it, so there the piece spoils the state (`WrittenAfterState`); `SaveIteration`
(`AgentRuntime._save`, the counted iteration) appends nothing. `returned` therefore
has what came back to a caller with a readable line: all commits, and the rejections
whose line was not glued. Left out: several processes over one journal file, which
an in-memory store does not share; and `EventEmitter.save`, which nothing calls.

## 3. Runs

| Run | Instance | Shows |
|---|---|---|
| `queue_file` | 2 processes with a worker each, 2 items, 2 attempts, 1 key | one item per key and the refinement of `WorkLifecycle`, over restarts and prunings |
| `worker_punctual` | SQLite, 2 workers, 2 kinds (one without a handler), drains | with heartbeats in time, one handler per item |
| `worker_late` | memory, 2 items, 2 runs under one id, lapses at any time | truthful reports, lost leases stay lost, tokens rise, every item ends |
| `session_one` | 1 session, 1 side effect, threaded store, retries | budgets, one success per task and process while its record is kept, terminal states stay, every call returns |
| `session_gate` | 1 session, 2 proposals without side effects | consent for the very action |
| `session_two` | 2 sessions, 1 resource | one tool per resource |
| `session_work` | 1 session, 2 items (3 attempts in all), 2 runs, a user | one driver per session but for the pairs named above, no lock left behind, a settled action is not carried out again |
| `components` | ten components, each at its own bounds | the properties of `LockRegistry`, `FileJournal`, `Outbox`, `EventFeed`, `TaskGraph`, `TaskGroup`, `Delegation`, `WorldProjection`, `ProfileBundles`, `SessionRebuild` |
| `session_late_cancel` | 1 session | **violated**: a completed session is not cancelled |
| `session_lock_leak` | 1 session | **violated**: a waiting session that is cancelled lets its lock go |
| `outbox_leased` | 2 publishers, 2 rows | **violated**: a publisher sends only what it has on lease |
| `feed_in_memory` | 3 watchers, 2 events | **violated**: every event reaches a watcher in memory |

**Components side by side.** The ten share no variable and no action, so checking
each alone and checking all in one state graph asks the same question.
`MCComponents` chooses `part` initially, lets that component run and keeps
the others in one fixed state; the graph is the sum of the ten, not their
product. A property of one component holds trivially where another is at work:
`OutboxAtRest` and `DelegationAtRest` start those two in a state that has already
reached what their liveness asks for. Fairness is that of the part at work. Each
component has a specification of its own (`OutboxSpec` and so on), which is what
the theorems are about.

**Bounds and why they are enough.** *Queue and workers.* Two attempts per item let a
lease be lost and taken again, the case every stale report needs; two items let a
sweep that one call makes touch an item of another. TTLs of one and two ticks put
expiry on, before and after each call. `MaxToken` is not reached before an item's
attempts are used up, except by a pruned and reused number. *Locks.* Three owners
let a lock pass through a third before the first presents its old lease. *Sessions.*
One iteration with two recovery steps and one attempt reaches every action,
including a retry and its exhaustion; `continue_session` starts the budgets anew, so
runs are as long as callers want. Four `Ids` are one more than the driver, the
stored and loaded snapshots and a held lock can refer to. `session_two` cuts
(`Contending`) continuations, pauses and tasks found done, none of which touches a
lock that the rest does not, and uses symmetry of the two sessions, sound as it
checks an invariant only. `session_gate` cuts (`Approving`) pauses and the
evaluator's verdict. *Work handlers.* An action item with two attempts beside an
item of any other kind gives three owners for one lock, and three grants let each
have it; one action and one task are what a second item can be stale about. With one
action (`MaxActs`) the run does not reach a confirmation that meets another action
than the one its item names; `WorkSettledOnce` is proved for every number of
actions. Runs are interchangeable (symmetry; the temporal property is an action
property). The view identifies states that no guard and no property tells apart from
there on: the three ways a session or an item may have ended, what a driver
remembers of work it has left or will report in vain, and what an item on its last
attempt was for once it has been looked up. *Files.* Three events and two versions
let a torn line be followed by two others and a writer be overtaken. *Outbox.* Two
publishers with one death, two rows, batches of one: a batch is empty when the other
has leased both, which is the case of the finding, which needs no death.
`PatientLeases` holds in `components`, for the liveness checked there, so that a
lease lapses in the middle of a batch is covered by the theorem `OutboxAtLeastOnce`
and by no run. *Feed.* A watcher of each kind, pages of one event, two events, one
dropped connection. *Tasks.* Four tasks: a root, two steps and one more, added by an
expansion or by a continuation. *Group.* Four coroutines, two at a time: two inside
and two waiting. *Delegation.* A spec and two children that need it, beside a batch
that adds a third child under a higher limit. *World.* Six observations under a cap
of three: a bucket of one claim with five of them is trimmed twice. *Bundles.* Three
requests: one that changes the profile, one that changes it too, one that builds.
*Rebuild.* Two holders, four states and three deaths: a refused commit after a
rebuild, a commit's line or a rejection's that is glued to the last, and a second
and a third rebuild after that.

**Deadlock** is checked in every run except `session_work` and `components`, whose
systems really stop: all items are spent, all events emitted, all specs answered.

**Fairness.** `LiveWorkerSpec`: time passes, and every run goes on (its handler
returns, and a finished run is asked for again). That is what
`run_worker_until_idle` or a client polling the worker endpoint gives; nothing is
assumed of sweeps, heartbeats or operators, and a run may be abandoned at any time.
`LiveSpec`: a driver that can step does. The event loop runs every ready task, tools
run under `wait_for`, and models and stores are assumed to answer.
`OutboxFairness`: publishers are run again and again, time passes, and the broker
takes an event in the end that the publisher holding its row offers again and again (the
one strong fairness: a broker that refuses an event for ever publishes
nothing). `FeedFairness`: watchers and consumers run and timers fire; no
signal ever needs to come. `DelegationFairness`: waves start and executors end
(they run under a timeout); nothing is assumed of owners or of revocations.

## 4. Disagreements between code and text

With a run:

* **A completed session can become cancelled** (`runtime/agent.py:939`):
  `active_task` is still set while the last event is emitted, so `cancel` takes the
  active path.
* **Cancelling a waiting session leaks its resource lock**
  (`runtime/transitions.py:92`): the pending action is cleared before the release looks
  for it. The trace runs a session until it waits for a confirmation, lets its driver
  return, and settles a cancel call.
* **A publisher sends what another one has on lease** (`persistence/postgres.py:617`):
  when its lease comes back empty, it reads back with no ids, and no ids are no
  filter.
* **A watcher in memory sleeps through an event** (`eventstream.py:97`): it clears its
  signal after the consumer has handled the batch, also the signal of an event
  emitted meanwhile.

Met while modelling and followed by the models, without a run of its own:

* **Queue and workers.** Fencing tokens of a file queue repeat between processes
  (`distributed/queue_file.py:209`), the SQLite queue leases without any
  (`queue_sqlite.py:149`). Item numbers of a durable queue are reused after pruning
  (`queue_file.py:225`), so that a late report can name a live lease of another item:
  `LostStaysLost` fails for `Backend = "file"`. A drained worker stops sending
  heartbeats, lapses, becomes LOST, and a lost worker registers itself and leases
  (`worker.py:245`).
* **Work handlers.** A run that dies leaves its session RUNNING, and every later
  attempt finds it not resumable and is spent (`service/distributed_runtime.py:530`).
  Goal work that is retried runs the goal in a new session (`:543`). An action item
  may confirm another pending action than the one it names, when the session moved
  on between its look and its load (`:610`).
  A goal item drives with no session lock (`:538-547`): when a user pauses its session, a
  session item resumes it under the lock while the goal's driver, which will fail on its
  version, is still at work. A handler that is cancelled because its lock is lost is
  awaited, so a tool that ignores the cancellation, or a commit in a thread, goes on
  beside whoever has the lock by then.
* **Session.** A cancellation while a success is announced forgets its record
  (`runtime/actions.py:384`), and a resume runs the side effect again, although the
  comment at `:346-348` speaks of preconditions that never reached the tool. The
  lock of an action leaks also when its caller is cancelled while
  `ResourceLockAcquired` is emitted (`actions.py:750-758`), before the `try` that
  would release it. Recovery retries a timed-out side effect, since the record is
  forgotten for unknown outcomes too (`runtime/actions.py:372`). `execute` ignores
  `remember` (`actions.py:377`). A continuation completes on the model's word
  (`transitions.py:115`; `src/docs/RUNTIME_CONTRACT.md:41`). `continue_session`
  turns away only running and waiting sessions (`agent.py:405`), its comment asks
  for completed or failed ones. A cancel call during a threaded commit
  (`persistence/sqlite.py:549`) leaves the session stored as running with nobody
  driving it. A resumed session is no continuation any more
  (`state/session.py:120`). Event and state are journalled before the versioned save
  (`runtime/emission.py:117`).
* **Stores and streams.** A torn line of the event log spoils the next one too
  (`persistence/file.py:357`). Postgres event sequences are handed out at insert and
  become visible at commit, so a reader that remembers the highest may pass over a
  later commit.
* **Rebuilding a session.** With a store that is no `StateEventCommitter` the state is
  journalled before it is saved (`runtime/emission.py:116`), so a state that the store
  refused may be what a rebuild finds; the variant `RefuseRecorded` does that and
  breaks `RebuildsWhatWasCommitted`. `_load_session` (`runtime/agent.py:1151`) rebuilds
  for any store but does not create the record again: with a plain store the call
  that follows journals its state, and its save does not find the session. Versions
  start at 0 after a rebuild. A session that `reject_session` failed behind a torn line
  comes back alive, because nothing readable was written (`emission.py:219-221`); an
  iteration that `_save` stored has no line (`agent.py:1146`), although
  `state/event_store.py:34` speaks of "every committed state change".
* **Task group.** When `run` is cancelled, or a child ends cancelled, it raises, also
  when the other results are there (`coordination/concurrency.py:51`).
* **Delegation.** `update_instance_status` takes any status at any time
  (`multi_agent/registry.py:307`): an owner's READY during a task makes the instance
  eligible, and two tasks run on it. The end of a task sets its instance READY over
  the DRAINING its owner set (`multi_agent/orchestrator.py`, the `finally`). A
  cancelled batch leaves its delegations RUNNING. Child counts are never given back.
  `max_concurrency` of an instance is not looked at.
* **World.** An attribute an entity has already wins over newer evidence, so entity
  and current fact may differ (`world/model.py:272`).
* **Bundles.** A session may begin between the look at the sessions and the drop of the
  bundle (`agentd/app.py:303`), or later on a bundle resolved before the drop (`:335`),
  and binding a domain changes a profile behind the
  guard (`agentd/config_admin_routes.py:216`). The guard drops the bundle also when
  the write is refused afterwards.
* **Memory.** "Remove exact duplicates" (`memory/consolidator.py:107`) adds a merged copy
  and removes nothing, so every pass adds more records. `FileMemoryStore` rewrites its
  file in place.
* **Replay** (`runtime/replay.py:170`) exchanges the adapters of a runtime that other
  sessions may be using.

## 5. Proofs

Eight modules of theorems, checked by TLAPS for every value of the constants.
The only assumptions are the `ASSUME`s of the modules, which TLC evaluates in the
runs, and the premises a theorem states.

**`WorkQueueProofs`** (any number of items, workers, processes and keys, any
backend).

* Inductive invariant `IInv`: types, `ItemOK` of each item (a lease exactly while
  leased, numbered by the attempt it started; attempts within the item's own
  budget, and left over while it is queued), `OneItemPerKey`, and counters in
  `Nat`. `ItemsWellFormed` alone is not inductive: that a queued item has an attempt
  left is what lets the next lease stay within `max_attempts`.
* Argument: `StepMoves` shows that, whatever step the queue takes and however many
  leases it sweeps, each item stays, or is taken, returned, closed, aborted or
  dropped (`Advance`); `EnqueueMoves` shows that an enqueue submits one item, and
  only for a key without a pending one. The theorems are read off these moves.
* `QueueTypes`, `QueueItemsWellFormed`, `QueueOneItemPerKey`,
  `QueueOutcomeIsFinal`, and `QueueImplementsLifecycle`: the refinement of
  `WorkLifecycle` (its liveness is not part of it).
* `MemoryFencingIncreases`: fencing tokens of an item strictly rise, for the memory
  backend in one process. Both conditions are premises of the theorem; without them
  it is false (section 4). The strengthening is `CounterIsHighest`: the process's
  counter is the highest token ever handed out for the item.

**`WorkerProofs`** (any number of runs, workers, worker ids, items and processes).

* `WInv` is `IInv` of the queue beneath with the types of the workers and `JobsPlaced`
  (a run has a job exactly from the lease to its report). `WorkerImplementsQueue`:
  every step of a worker, the registry or an operator is a step of the queue or a
  stutter, so the theorems above hold of the queue that workers share;
  `WorkerFencingIncreases` is read off it.
* `NumbersUsedUp`, over the in-memory queue: the item and the lease a run works under
  have numbers the queue has used up, so no later item and no later lease is
  mistaken for them. `WorkerReportsAreTrue` and `WorkerLostStaysLost` rest on it and
  have `Backend = "memory"` as premise; with a durable queue, which numbers a new
  item like one it has forgotten, `LostStaysLost` is false (section 4).
* `OwnHand`: an item in the hands of a run is leased, with time left, to that run's
  worker under the run's own lease, and no other run of that worker id has it in hand.
  `OneHandlerPerItem` is not inductive without it: a stale report of a run that
  shares a worker id must be told from the report of the handler.
  `WorkerOneHandlerPerItem` has two premises. `Punctual`: without it a handler runs on
  after its lease was given away. `ToldApart`: the queue is in memory, or runs have
  worker ids of their own. TLC shows why: over a durable queue, a run whose item was
  cancelled, pruned and numbered anew reports RETRY for the later item of that
  number, under the lease of another run with the same worker id, and a third takes
  the item from under the handler that is in time with all its heartbeats.
  `worker_punctual` checks the other case, SQLite with two ids.
* `WorkerKeepsItsWord` has neither premise about the queue. Its premise `KeepsJobs` is
  that no step forgets an item a run still works for, which only a pruning could do,
  and the code prunes only when an operator asks for it (`prune-terminal`,
  `coordinator.py:492`). Under it all three promises hold over every queue,
  whatever ids the runs share. The invariant is `JobsRemembered`: the item a run works
  for is there, is the one it took, and has counted the run's attempt. So numbers
  that come back after pruning are the only cause of what is said above: finished
  items may be pruned at any time, except those a run that lost its lease still has in
  hand.

**`LockRegistryProofs`** (any number of keys, owners and grants).

* `LInv`: types, a lock without an owner is blank, and no two locks are held under
  one lease number. `LockMoves`: a step keeps, frees or grants each lock, and grants at
  most one, under a new number.
* `LockTypes`, `LockLeaseIdsUnique`, `LockNoTheft`, `LockTokensIncrease`. The handlers of
  `SessionWork` take only steps of this registry (below), so they inherit them.

**`AgentSessionProofs`** (any number of sessions, proposals and resources, any
budgets, either kind of store).

* `TInv`: the types, and two facts they need: a driver that works on an action has
  one in hand, and a confirmed call has an action pending (`HasAction`). Without
  them `_drive` could hand the executor no action at all. One lemma per handler, on
  lemmas for `Settle`, `Commit` and the calls. `SessionTypes` follows.
* `Footprint`: a step of one session leaves the other drivers alone, changes only
  locks that are free or its own, and does not touch the lock of the tool it is
  running while it stays in it. With it `ToolHoldsLock` (a tool or a reconciler
  that runs on a resource, and a driver that tells of its tool's success, hold its lock
  under their own session and action id)
  is inductive: `SessionToolHoldsLock`. `SessionOneToolPerResource` follows,
  since two holders would be the same session. `session_two` checks it for two
  sessions only.
* `Ledgers`: every side effect in `Told` (it succeeded and was not cut off) is on record in
  `seen`, and while a tool runs, its proposal is on record and not in `Told`. The second
  half is what the first needs: a tool that fails or is cancelled takes its proposal
  off the record, which is right only if the record was its own. `LedgerStep` says what a
  step does to the two sets, `CutsOff` being the cancellation of a driver that tells of its
  success, and `Footprint` that only `StartsTool` reaches a tool. `SessionLedger`,
  `SessionRunsOnce`. Without the exception both are false (section 4).
* `AllSound`, session by session: every approval in the stored snapshot, in what a
  control call loaded and in the driver's memory is in `consent`, and so is an action
  the driver takes for confirmed (`Backed`); a driver at work has a running session in
  memory (`Runs`); a driver that may still commit stands on a terminal session only as
  a continuation at its door (`MayCommit`, `Reopens`), and a control call that is still
  fresh never does. `SoundStep`: a step of one session leaves the others alone, keeps
  this and opens a terminal session only to continue it. One lemma for a commit
  that goes on, one for a settlement, one for moving on without a commit, then the
  handlers. `SessionSound`, and from it `SessionConsentGate` (a change of `rule` by a
  restart between the confirmation and the tool makes no difference, since consent
  outlives it) and `SessionTerminalStaysPut`.
* `SessionOutcomesChange` says how far the finding `session_late_cancel` goes. What a
  finished session has stored is written again by two steps only: `continue_session`
  enters and stores it as running, or a cancel call has found the session's driver at
  its last place, with the outcome committed, and that driver stores it as
  cancelled. No pause, no resume, no older snapshot and no restart does it. It
  follows from `AllSound` and two facts about who writes: `DriverWrites` and
  `CallerOverwrites`.

**`StoreProofs`**

* `OutboxInv`: types, and what a publisher counts as sent the broker has taken
  (`GoodWasSent`), without which `PublishedWasSent` is not inductive: marking relies
  on the list. `OutboxAtLeastOnce` for every number of rows, publishers, deaths and
  any batch size, with or without `PatientLeases`.
* `OutboxSendsItsBatch` (premise `PatientLeases`): a publisher that was given rows sends
  only rows it has on lease, however many publishers and deaths there are. The
  invariant is `BatchIsLeased`: as long as `Stands`, what is left of a batch is leased to
  its publisher. The finding `outbox_leased` is therefore confined to a batch that
  came back empty.
* `JInv`: `OpOK` (an operation is somebody's, and the event it is about to commit was
  never written), `RecordOK` (a record is never behind the snapshot), `Applied` (past
  the snapshot write, the snapshot has the record's version; past the line, the line
  is there or lost). `JournalImplementsAtomicStore`: initial states map to initial
  states, `WriteRecord` to the commit, and each of the other three writes, every death
  and every torn line to a stutter; a read that follows learns of it.

* `RebuildInv`: types, and `ReturnedIsWritten`: what has returned can be read back from the
  file, and is not the line without newline at its end, which the next append spoils.
  That is needed: the states a dying process left behind may be lost again, and so may
  those of glued rejections, which `returned` leaves out, and of saves without a line.
  `RebuildKeepsCommits` follows for any number of holders, states and deaths.
* `FeedInv`: types, `InOrderOnceEach`, and `NextWithoutGap`: an open watcher's cursor is
  the last event its consumer got, and the batch it hands out is the beginning of what
  comes after. Without the second a page could skip an event and the order still
  be right. `FeedInOrderOnceEach` for any number of watchers of every kind, any page
  size and any number of dropped connections.

**`PlanningProofs`**

* `GraphInv`: types, `OneActiveTask`, and `CurrentMayRun` (what the current task
  depends on is completed, also while it waits or after it failed): resuming and
  failing set the current task without looking at its dependencies again, so
  `DependenciesFirst` alone is not inductive. `GraphOneActiveTask`,
  `GraphDependenciesFirst`, `GraphSettledTasksStay`, for sessions of any length.
* `DelegationInv`: `Held` (whoever holds an instance has begun, and the instance is
  not ready unless its owner said so meanwhile), `WavesReady` (the specs of a wave
  have all their dependencies completed), `Counted` (`children` counts those begun)
  and the three properties; `OneTaskPerInstance` leaves out `forced`, where it is
  false. `DelegationOneTask`, `DelegationDependencies`, `DelegationChildren`, for
  any number of concurrent batches.
* `GroupInv`: types, `Lined` (nobody waits for the semaphore twice), that those inside are
  finitely many, and `AtMostLimit`. `GroupAtMostLimit` and
  `GroupNoStartAfterAbort` for any number of coroutines and any bound on how many run
  at a time.

**`WorldProofs`**

* `WorldInv`: each bucket contains `Keep` of all the world was told of the claim, and
  nothing else than that. That a bucket arbitrates like all the evidence
  (`TrimKeepsMeaning`) follows for every cap, any confidences and every order of
  arrival, because the winner of a set that contains the winner of a larger one is
  the same. Attributes come from values that were told. `WorldTrimKeepsMeaning`,
  `WorldEntityShows`.

**`ServiceProofs`**

* Bundles: `BundleInv` says what a change under way may rely on (`Guarded`): while a
  request awaits the session list, no bundle but the one it asks about has an active
  session, raced and orphaned ones apart, and once it has seen the list none has.
  `BundlePatchTakesEffect`, `BundleOfActiveSessionStays`, for any number of
  requests.
* Work handlers: `LocksInv` is `WorkShape` (types), `Queued` (an item that waits has
  an attempt left), `OnTheirWork` (a run works under an attempt the queue has
  counted, and its place says whether it has a lock), `Apart` (no two runs have the
  same attempt or the same grant), `LocksOwned` (a held lock was granted to a
  counted attempt, and if its run is still there it is the lock that run works
  under) and `Renewed` (with `PunctualLocks`, a lock outlasts the work under it).
  `WorkTyped` and `WorkNoLockLeftBehind` need no assumption on time.
  `WorkOneWorkerPerSession` has the premise `PunctualLocks` and is false without it:
  a run whose lock lapsed drives on until its next heartbeat.
* `DriveInv` is about who may commit, whether he has a lock or not: a driver that has
  committed and holds the stored version (`Writes`) drives a session that is stored as
  running, and no other driver of that session does. This is what carries the half of
  `OneWorkerPerSession` that concerns goal items and the user: a resume needs a waiting
  session, so somebody else has committed since, and the earlier driver's version is
  old. With `PunctualLocks`, a run that may commit under a lock leaves no other run
  at work on the session under one but a cancelled one that overstays. `DriveSteps`
  and `DriveOthers` say which steps make a driver one that may commit, and what
  they do to the others. `WorkInductive` is `LocksInv`, `ActsInv` and `DriveInv` together.
* `ActsInv`: a settled action was asked for and is no longer pending; a run works on an
  action the session asked for, under a lock, and, as long as it has not carried it
  out, on no settled one. `WorkSettledOnce` (premise `PunctualLocks`) follows from
  the three: nobody else can settle the action while the run that loaded it has the
  lock; a cancelled run that overstays its lock is left out.
* `WorkImplementsLocks`: every step of a handler is a step of `LockRegistry` under the
  presented lease, or a stutter. `WorkLocksFenced` reads `NoTheft` and
  `TokensIncrease` off it: a handler's lock is never taken while it has time left, and
  the token it passes on is higher than every earlier one of that session.
* `WorkQueueIsLifecycle`: each work item the handlers see lives the life that
  `WorkLifecycle` promises, with a budget of its own (`ItemLife(j)`). `SessionWork` has
  items of its own in place of the work queue, and the theorem says that they do nothing
  that the abstract item of `QueueImplementsLifecycle` may not do. It does not say the
  converse, that they may do whatever a queue does to an item: that is for a reader to
  compare. `ItemLife` takes the item as a parameter, which TLC does not evaluate as a property;
  it is proved only.

Two facts carry the arguments about orders (the next row in hand, the winner of
a bucket, the next instance): every non-empty set of naturals has a least element,
and every finite non-empty one a greatest by any total order. Induction theorems
that take an operator are out of the provers' reach, so both are derived from
the well-foundedness of strict inclusion on finite sets (`Least`, `Greatest`,
`OneWinner`, `NewestOfEach`).

**Only model-checked.** Liveness (`EveryItemEnds`, `RunEnds`,
`EverythingIsPublished`, `EveryEventArrives`, `EverySpecAnswered`), which TLAPS does
not reach. `PartsTypeOK` is the conjunction of the ten components' type invariants,
each of which is proved of that component's own specification, as a conjunct of its
inductive invariant or as a theorem (`LockTypes`, `DelegationTypes`); the
conjunction itself, over `MCComponents`, is left to TLC. Every other invariant and
action property of the passing runs is a theorem.

## 6. Not modelled, and what is left

* **Rest of the modelled components.** Usage budgets and read-only sessions of the
  runtime; precedence among policies (the answer is arbitrary in `AgentSession`);
  resource versions and the sandbox (a refusal that may come at any time);
  relations of the world model; costs, fallbacks and conflict resolution of
  delegations; replay of recorded runs; several rules of the recovery manager.
* **Left out as a whole.** Adapters to models and tools, domain plugins and their
  evaluators are I/O or configuration whose answers the models leave open. Memory
  ranking and context assembly are scoring and formatting. Hosts, clients, SDK, TUI and
  web are request handling and presentation; operations, security, ecosystem and
  evaluation are reports, redaction, catalogues and suites. Encodings, schemas and
  SQL are left out everywhere. These parts are most of the repository's lines:
  their behaviour is in the data they format, and they keep no state that a step
  of another actor could disturb.
* **Next.** Precedence of policies and conflict resolution as functions against a
  reference definition; memory consolidation with its growing archive; a refinement that puts
  `WorkQueue` itself under `SessionWork`, where now the two meet in `WorkLifecycle`; the two
  ways a resource lock leaks delimited by a theorem like the late cancel is.
