# TLA+ models of the AI Monitoring System

This directory specifies, model-checks and partly proves the core of the
Windows agent in `src/`: the **reversible action plane** (lower a resource
setting of another process, measure, give it back), the **online loop** that
drives it, the **episode store** that records the training data, the
**metrics pipeline** with the start and shutdown of the application and what
the monitor thread decides in a tick, the **cooperative tab discard** from the
application to the browser, the **actuator service** with its ledger of proofs,
and the **sampling decisions** of the monitor.

Contents: [1 The system](#1-the-system) · [2 Modules](#2-modules) ·
[3 Runs](#3-what-the-runs-check) · [4 Fairness](#4-fairness) ·
[5 Proofs](#5-what-is-proved) · [6 Disagreements](#6-where-code-and-documents-disagree) ·
[7 Not modelled](#7-what-is-not-modelled) · [8 Plan](#8-plan) · [9 Use](#9-how-to-run-it)

## 1 The system

One process. Its **window thread** starts everything (`main.cpp:2150-2180`),
draws the dashboard, counts clicks on Quick Restore in an atomic, and stops
everything in `WM_DESTROY` (`main.cpp:2064`). Its **monitor thread** runs the
loop: collect, predict, execute at most one action, expire and verify actions,
serve Quick Restore, store the episode input, hand the snapshot to the
pipeline, perhaps show a modal alert. The pipeline's **worker thread** writes
snapshots in batches. The browser bridge has a pipe thread of its own, which
talks to a **native host** process that a browser with the extension runs. A
separate **actuator service** process accepts requests about stored proofs.
SQLite and the extension's storage are the only durable state; any process may
be killed at any time, and the agent is started again at logon.

Some of this is not wired up at this commit: `main.cpp` never calls
`QueueDiscard`, nothing in `src/` but a test saves a proof, and the online
policy is disabled (`main.cpp:834`). The models take these interfaces as their
tests and documents use them and say what the code guarantees once they are
called.

| Component | State | Operations | Interaction | Hard behaviour | What makes it correct |
|---|---|---|---|---|---|
| ActionCoordinator, ActionJournal, WindowsProcessActionExecutor (`ResourceOrchestrator.cpp`) | journal rows; `active_`; settings of the targets | Begin, Rollback, Tick, RecoverUnfinished | called by the online loop; native calls on targets | crash between two writes; failing writes; targets that exit, pids that are reused; two callers | a change always has a row that can undo it; a process gets its own setting back; nothing is orphaned |
| SafeOnlinePolicyController, MeasuredActionSession | `active_`, budget, cooldowns, measurements before an action | Evaluate, Execute, Tick, EmergencyStop, Initialize | monitor thread; window thread's click; journal of the coordinator | expiry against verification; time between ticks; stop of what was forgotten; a start that cannot recover | expiry in time, budget kept, only effective actions learned, clicks served |
| EpisodeTelemetryStore | session, episode and summary rows; ids in memory | Open, Record, EnforceRetention, Close | monitor thread; shares `monitor.db` with other connections | statements that fail inside a transaction; memory against a rollback; crashes | an episode is the atomic, closed, single-context unit of the data set |
| MetricsPipeline, MetricsStorage | queue, batch, flags; metric tables | Start, Enqueue, WorkerLoop, Stop, LogBatch | monitor thread produces, worker writes, window thread stops | order of shutdown, joins | order, no loss inside, storage outlives its writers, shutdown ends |
| BrowserIntegrationBridge, native host, extension | pending commands, active tabs; transaction records in the extension's storage; audit rows | Start, Stop, QueueDiscard, QueueRestore(All), ProcessMessage; relay; discard, restore | monitor thread; named pipe, native messaging | commands and outcomes lost in a pipe being recreated; handlers with awaits; death of one side; Stop against the server | discarded once at most, always under a record that can restore it; the audit claims nothing false; Stop returns |
| CooperativeIntegrations (BITS, prefetch) | transactions, audit rows | pause, resume, lease | COM | jobs change on their own | resumed as it was |
| SecureActuation, ProofLedger, actuator service | ledger of proofs on disk; sequence numbers in memory | Accept, Load, ClaimForCanary, MarkLeaseState, Save | pipe, service control | requests sent again; restart forgets the sequence; crash between claim and mark | a proof is claimed at most once, on grounds; its row only moves forward |
| RuntimeOrchestrator, ThreadedRuntimeComponent, RuntimeStateStore | the one component (the monitor thread), its health | Start, Stop | main | the join of a thread that shows an alert | shutdown ends |
| ImpactLearning | model journal, policy versions | update, evaluate, promote | online loop | promotion against registration | only evaluated versions are promoted |
| AdaptiveSampling, ObserverEffectGovernor | time and foreground of the last measurement, burst, backoff, last costs, governor's verdict | Next, RecordCapture, Record, Observe, Decide | monitor thread, every tick | three deciders that each feed on what the others let through | severe pressure is always measured; an expensive collector is slowed, not stopped |
| Prediction and alert of a tick (`main.cpp`), inference client, native bundle | last prediction and its tick, source, streaks, alert | predict, alarm | HTTP service or a process; modal box | failed attempts, lifetime of a kept prediction, wavering risk | the thresholds only after a failure; alerts keep their distance |
| DatabaseMigrations | schema version, backup | upgrade | before the store opens | crash in a step | old or new, never half |
| Decisions, planners, collectors, dashboard, config, Python training | numbers of one snapshot | pure | -- | -- | data, not behaviour |

`PROJECT.json` lists the same components with their files and their status, and
the forty hazards that matter most, each at its line. Smaller ones met while
reading, which no property covers: the queue of the pipeline has no limit
(`MetricsPipeline.cpp:49`); an action that expires leaves its entry in the
verifier's map (`ActionVerification.cpp:355`); the path of a target is looked up
by another decision's pid (`main.cpp:1321`); seconds and milliseconds meet in the
episodes (`EpisodeTelemetryStore.cpp:155`); the sampling clock is the wall clock
(`AdaptiveSampling.cpp:35`); the emergency file leaves actions in effect alone
(`SafeOnlinePolicy.cpp:71`); a `Start` that throws leaves earlier components
running (`RuntimeOrchestrator.cpp:33`).

## 2 Modules

| Module | Role |
|---|---|
| `ReversibleAction` | Abstract promise: a change only under a durable record of how to undo it; the record goes only when nothing is left to undo or the failure to undo was noticed. |
| `ActionCoordinator` | The coordinator, its journal, its executor, the targets and crashes. Implements `ReversibleAction` (`KeepsPromise`). |
| `ActionCoordinatorProofs` | Theorems about it for any constants. |
| `SafeOnlinePolicy` | The online loop over the coordinator, whose calls are one step each here. |
| `SafeOnlinePolicyProofs` | Theorems about it for any constants. |
| `EpisodeTelemetryStore` | Sessions, episodes, summaries, transactions, crashes. |
| `EpisodeTelemetryStoreProofs` | Theorems about it for any constants. |
| `MetricsPipeline` | Producer, batch worker, start and shutdown. |
| `MetricsPipelineProofs` | Theorems about it for any constants. |
| `MonitorLoop` | `MetricsPipeline` with the prediction and the alert of a tick; implements it (`LoopImplementsPipeline`). |
| `MonitorLoopProofs` | Theorems about it for any constants. |
| `BrowserIntegration` | Bridge, relay and extension with the deaths of each. |
| `BrowserIntegrationProofs` | Theorems about it for any constants. |
| `ActuatorService` | The service, its replay protection, its ledger, its clients. |
| `ActuatorServiceProofs` | Theorems about it for any constants. |
| `ObserverSampling` | One tick's decision to measure. |
| `ObserverSamplingProofs` | Theorems about it for any constants. |
| `MC*` | Instances for TLC: symmetry and model values. Every constant is set in a `.cfg`. |

Definitions named `X_Something` that stand before `X` are plausible bugs of
`X` ("Fault: ..."). No specification uses them; replacing `X` by one must make a
property fail, which shows that the property looks at that code.

### ActionCoordinator

One action is one step between two points where another thread, the target or
a crash can intervene. A call is a sequence of program counters in `work[c]`:

| Code | Actions |
|---|---|
| `Begin` 548-579 (id, policy checks), the shield 328-397 and its refusal | `BeginRefused`, `BeginShielded` |
| `CaptureState` | `CaptureState`, `CaptureFails` |
| save PLANNED 597-604, before any change | `SavePlanned` |
| `Apply` 605-615 | `Apply`, `ApplyFails` |
| save EXECUTED 616, and the rollback when it fails | `SaveExecuted`, `UndoUnsaved` |
| `active_` under the lock | `Register` |
| `Rollback` 632-669: look up, restore, save outcome, forget | `RollbackCall`, `Lookup`, `Restore`, `RecordOutcome`, `Forget`, `Return` |
| `Tick` | `Tick` collects what is due, then rolls back one by one |
| `Initialize` / `RecoverUnfinished` | `Boot`, `BootUnrecovered`, then the rollback steps |

`proc` holds the targets with their incarnation (creation time plus path),
`native` what each was created with. `effect` and `gaveUp` are history: which
changes are present in a live target, and which had a rollback fail. `due`
abstracts the clock: a deadline may pass at any moment. Faults: capture, apply,
restore, saving a row, opening the journal, loading it. The twelve reasons of
the shield to refuse are one nondeterministic refusal. Rows of refused
transactions do not carry the captured identity.

### SafeOnlinePolicy

The program counter `pc` follows one iteration of the monitor thread: read the
click counter (`main.cpp:445`), `Admit`/`Refuse` (`Evaluate`: budget and
cooldown; the gates that read nothing the loop changes, such as the kill-switch
file, approval and the scores, are a nondeterministic refusal),
`Begin`/`BeginFails`, `Account` (budget, cooldown, `active_`), expiry
(`CollectExpired`, `Expire`), verification (`CollectDue`, `Verify`), and
`StopOne`/`StopDone` when a click was seen. In between any two of these the
clock may advance (by at most `MaxGap` since the last tick), the user may
click, a target may exit and its pid be given to another process, and the
application may end (`End`: by `WM_DESTROY` or a crash, which look the same to
the journal). While it is down time passes without bound.

`rows` are the unfinished transactions of the journal, `active` those the
coordinator of this start has in memory. They differ where the code lets them:
a rollback whose outcome cannot be saved leaves a row, and so does a `Begin`
whose EXECUTED save fails; when its immediate rollback fails too, the target
stays lowered (`ResourceOrchestrator.cpp:616-622`). The next start (`Boot`,
`Recover`) opens the journal or does not (`SafeOnlinePolicy.cpp:45`), reads all
rows, some, or none (`ResourceOrchestrator.cpp:500-511`), rolls back what it
read, and runs on whatever came of it, since `main.cpp:853` drops the result. A
start without its journal executes nothing. `unrestored` is history: the targets
whose rollback failed or whose row a start did not read; `executed` and
`learned` are history too.

### EpisodeTelemetryStore

`durable` is the disk, `db` what the connection sees, `inTxn` whether it is in a
transaction, `mem` the three members that must agree with the rows. `Record` is
split at its statements (session, BEGIN IMMEDIATE, close, start, summary,
COMMIT/ROLLBACK). `Second = 2` lets the model tell milliseconds from the whole
seconds that `time(nullptr) * 1000` yields. `EnforceRetention` is the script of
line 410: in the code every 300th tick, in the model any tick. Each of the two
UPDATEs of `Close` may fail by itself, and its error is ignored. Collector health
is written with the summary and is folded into it. The robust baselines are
numbers and left out.

### MetricsPipeline

`ui` is the window thread from `OpenStorage` to `CloseStorage`, `monitor` the
producer with its modal alert, `worker` the loop of `WorkerLoop`. A section
under `mutex_` is one step. `WorkerCheck` and `WorkerTake` are separate although
the code holds the lock over both: the model has more interleavings than the
code, so what holds of it holds of the code.

### MonitorLoop

The pipeline's `Enqueue` becomes the tick after it: `Evaluate` hands the snapshot
over, chooses the prediction (`Predict`, `main.cpp:1118-1224`), counts the
streaks (`Alarm`, 1392-1417) and shows the box exactly when a new alert begins
(1519-1539), where `MetricsPipeline` leaves that open. `g_tick` is the number of
snapshots before this one, so no second counter is needed. Whether an attempt to
predict is usable, and the level of the risk, are nondeterministic. A kept
prediction is counted by the snapshot it was made on; the code's initial
`lastModelTick` plays no part as long as no prediction was made.

### BrowserIntegration

Three processes. The application: `app` is its life up to the destructor of the
bridge, `running`/`server`/`handling` the pipe server, `pending`/`active` what
`mutex_` guards; a section under that mutex is one step. `planning` and
`restoring` are the rest of a call of the monitor thread: the PLANNED row after
the command was queued, and the ids `QueueRestoreAll` still has to queue. The
native host relays one message at a time and drops it when no pipe waits
(`HostRelay`). The extension: each handler is a record with its command and the
awaited call it is at, so two handlers interleave call by call; `stored` is
`chrome.storage.local` and survives, `tabs` says for which transaction a tab lies
discarded. A message carries an outcome for a transaction; texts and the JSON are
left out. `discards`, `reloaded`, `overlapped` and `lost` are history.

### ActuatorService

`sent` is every request a client has composed: a client may present any of them
any number of times, in any order, also to a restarted service. `HandleRequest`
is split where the process can die: `Accept` (validation and replay protection),
`Load` with the proof's validation, `Claim`, `Mark`, `Answer`. Each statement of
the ledger is a transaction of its own. A clock tick is what the expiry of a
request can see. `claims` and `interrupted` are history.

### ObserverSampling

One action is one tick of `main.cpp:928-989`, which asks three objects in turn.
`since` and `burst` count ticks and stop where no comparison tells them apart;
`samples` is the window of the last costs, of which only the 95th percentile is
used (`P95` states its rank instead of sorting). The verdict of the governor on
everything but the collector (processor, memory, storage, wakeups, inference) is
one nondeterministic input, `other`.

## 3 What the runs check

| Run | Question | Bounds |
|---|---|---|
| `coord_threads` | The class is guarded by a mutex: with two callers at once, every fault and a crash, is every change covered (`UndoRecordKept`), known (`NoOrphan`), given back as it was (`OriginalRestored`); is the abstract promise kept (`KeepsPromise`)? | 2 callers, 1 pid, 1 incarnation, 2 transactions, 1 crash |
| `coord_liveness` | The program's wiring (only the monitor thread calls), with a pid that is reused: is every change eventually undone or its failure recorded, and never on the new process; are settled rows final? | 1 caller, 2 incarnations, 2 transactions, 1 crash; rows that cannot be saved |
| `policy_loop` | Deadlines, budget, learning, restoration, stop, clicks, under time, pid reuse, failing begins and rollbacks, downtime, and starts that recover all, a part or nothing | 1 target, 2 incarnations, 2 transactions, 1 action in 4 units, cooldown 3 = duration 2 + gap 1, clock to 5, 1 end and next start |
| `policy_suspend` | *violation*: a gap longer than the cooldown leaves a target lowered | gap 6 |
| `policy_restore` | *violation*: Quick Restore leaves verified actions in effect | as `policy_loop`, no restart |
| `store_write` | Does a failing or refused statement or a crash ever break an episode on the disk? | 2 contexts, 5 ids, clock to 10 (5 seconds), retention 4, 1 crash |
| `store_retention` | *violation*: retention fails on a foreign key and leaves a transaction open | no fault but one crash |
| `store_end_reason` | *violation*: a failed Record loses the end of an episode | one kind of fault, no crash |
| `monitor_loop` | Order, no loss, lifetime of the storage, end of the shutdown; fallback only after a failure; distance of alerts | 6 snapshots, batches of 2, window 2, interval 3, configured lifetime 1, streaks of 2 |
| `browser` | Discard once, record kept, bridge still knows, audit true, outcomes accounted for; without assuming a browser, Stop returns unless it waits at a pipe no client ever opens | 1 transaction, 1 tab, 3 starts and restores together, 1 death of host or browser, application may die at any point |
| `actuator` | One claim, on grounds, concluded; ledger forward | 2 proofs, 1 session, 2 requests, 3 starts, clock to 3 |
| `sampling_starved` | *violation*: the collector is stopped where it should be slowed | 2 foregrounds, 2 durations, window of 3 |

Why the bounds are enough. Coordinator: the interesting conflicts involve one
setting of one process; two transactions are what it takes for one to capture
what another lowered, two incarnations for a reused pid, one crash for every
crash point, recovery of recovery being the same code. Two callers together with
a reused pid are beyond TLC's time; the theorems of section 5 cover both together.
Policy: two transactions are an action and the next one on the same target,
also across a restart; the clock is long enough for an action to begin, expire,
cool down and begin again, and for the application to be down past a deadline. Store: five ids suffice for two sessions and three episodes; retention
of two seconds lets an episode grow older than the cutoff while it is open.
Loop: six snapshots are three batches, so a partial batch, a failed one between
two good ones, and a drain at the stop all occur; six ticks are two scheduled
attempts to predict besides the unscheduled one at the end of the warm-up, and an
alert that is raised, cleared and raised again. Browser: the properties speak of
one transaction each, and what disturbs one is its own restore (two, so that the
second finds nothing), a death and a late outcome; two discards of one tab are
not explored. Actuator: two requests about one proof, or about two, each sent
again after up to two restarts.

Deadlock is checked everywhere but in `monitor_loop`, `browser` and `actuator`,
whose programs really end (and whose inputs are bounded), and in
`sampling_starved`.

Some properties deserve a word:

* `OriginalRestored` speaks of the *effective* setting (section 6 has the exact
  one). It excepts transactions planned while another
  had the setting lowered: that case is `NotLeftLowered` of the policy.
* `NotLeftLowered` needs a cooldown that outlasts an action plus the gap of two
  ticks: `Execute` runs before `Tick` in an iteration. `policy_loop` has it,
  `policy_suspend` has not. The shipped configuration (cooldown 600 s, action
  30 s) has it unless the loop stands still, as it does while the modal alert
  of `main.cpp:1539` is shown. `Configure` also accepts a cooldown of 10 s with
  an action of 300 s, which never has it. It excepts the targets in `unrestored`,
  for those the code gives up on: a rollback that failed is forgotten, and a start
  that cannot read a row leaves its target lowered and runs on.
* `DeadlineKept` has the same exceptions and speaks of a running application.
  While it is down nothing undoes an action, however long that lasts.
* `HourlyBudget` is per start of the application: budget and cooldown live in
  memory.
* `LearnedInForce` holds although verification and expiry race, because Verify
  looks the transaction up in the coordinator.
* `NothingLost` allows exactly one loss: a batch the database refused, whose
  result nobody looks at.
* `FallbackAfterFailure` holds because the lifetime is clamped to the interval
  (`main.cpp:866`) *and* the first, unscheduled attempt does not shift the
  schedule; `monitor_loop` configures a lifetime below the interval.
* `RecordKept` and `StillKnown` except a transaction whose restore began while its
  discard was still running (`overlapped`): such a restore may remove the record
  of a tab that is discarded a moment later. Quick Restore within the round trip
  of a discard makes it happen; no gate in the code prevents it.
* `OutcomeAccounted` names every place where the outcome of a discard that was
  made may be lost: the relay without a pipe, the server that is stopping, a
  death, and the PLANNED row written over it.
* `ClaimedOnce` does not rest on the replay protection, which a restart empties,
  but on the single conditional UPDATE of the ledger.
* `StopReturns` has one exception, the hang itself: `Stop` found no pipe to wake
  the server with, because the server was about to create one, and then no
  client connects to that pipe for ever. Nothing else can keep `Stop` from
  returning.
* `SlowedNotStopped` assumes that nothing but the collector is over budget in the
  end. Severe pressure is always measured (`SevereAlwaysMeasured`), and a tick
  with the old foreground in front ends the starvation.

## 4 Fairness

* `coord_liveness` (`FairSpec` of `ActionCoordinator`): a call that has begun is
  run to its end (nothing in it blocks on another caller for ever); deadlines
  pass; the monitor's tick comes again and again (its loop waits at most one
  interval: strong fairness, because the tick may be disabled while the
  application is down or busy); a crashed application is started again (logon
  task). Nothing is assumed of callers beginning actions, or of targets.
* `policy_loop`: weak fairness of the monitor thread's steps while it runs; none
  of the clock, of the user, of the environment, or of the next start.
* `monitor_loop`: weak fairness of the three threads and of the user dismissing an
  alert. The last is an assumption about a person, and needed: `WM_DESTROY`
  joins a thread that may sit in a message box. When the user closes the
  application is left to the user.
* `browser`: weak fairness of the bridge's server thread and of the thread that
  stops it. Nothing is assumed of a host, an extension or a browser: there may be
  none.
* `sampling_starved`: the monitor ticks (`main.cpp:915`). The counterexample is a
  violation under that fairness.
* `actuator` checks safety alone: that the service ends after a stop would need a
  client that keeps connecting, which nothing guarantees.

## 5 What is proved

For every value of the constants that satisfies the named assumptions:

| Theorem | Statement | Rests on |
|---|---|---|
| `TypeCorrect` | `Spec => []TypeOK` (ActionCoordinator) | `IInv` |
| `UndoRecordIsKept` | a change in a live target has an unfinished row for that very process, or a failed rollback | `IInv` |
| `NothingOrphaned` | while the application is up and recovered, every change is in memory or in somebody's hands | `IInv` |
| `PromiseIsKept` | `Spec => RA!Spec`: the coordinator implements `ReversibleAction` | `IInv`, one step at a time |
| `EveryChangeCovered` | the abstract `Covered` holds of the coordinator | refinement |
| `OriginalIsRestored` | a process with no action in effect has, in effect, the setting it was created with | `OriginalRestored` itself, relative to `IInv` |
| `RowsGoForward` | the plan of a row stays; settled rows stay settled, refusals as they are | `IInv`, `NotRefused` |
| `SettledOnce` | if the monitor is the only caller, a settled row is never rewritten | `IInv`, `Sole` |
| `TypeCorrect` (policy) | `Spec => []TypeOK` (SafeOnlinePolicy) | itself |
| `BudgetIsKept` | more than the budget of actions span more than the window | `BudgetOK` |
| `LearnsInForce` | a reward is learned from a transaction in force, and once | `LearnedOK` |
| `StopRestores` | after a stop nothing that is still to be observed is in force | `ObservedOK` |
| `DeadlineIsKept` | if `Cooldown >= MaxDuration + MaxGap`, what lowers a target of a running application is an action less than two gaps past its deadline, but for failed rollbacks and unread rows | `LInv` |
| `NeverLeftLowered` | under the same hypothesis a lowered target has, running or not, a transaction that will be rolled back to the original, with the same exceptions | `LInv` |
| `EpisodesIsolated` | a summary on the disk belongs to a stored episode, with its context and within its time | `IInv` of the store |
| `EpisodesFinal` | no step changes an ended episode or gives it a summary | `IInv` of the store |
| `StoreTypes` | `Spec => []TypeOK` (EpisodeTelemetryStore) | `IInv` of the store |
| `SnapshotsInOrder` | the storage receives the snapshots in order, none twice | `IInv` of the pipeline |
| `SnapshotsKept` | a snapshot handed to a running pipeline is written, on its way, or was in a refused batch | `IInv` of the pipeline |
| `ClosedLast` | the database is closed under nobody who still writes to it | `IInv` of the pipeline |
| `LoopImplementsPipeline` | `LoopSpec => Spec`: the three above hold of the loop too | step by step |
| `LoopTypes` | `LoopSpec => []LoopTypeOK` | the pipeline's types, streaks bounded by snapshots |
| `FallbackOnlyAfterFailure` | the thresholds replace the model only after a failed attempt | where the last attempt lies in the schedule |
| `AlertsAreSpaced` | two alerts are at least both streaks apart | the streaks bound what has passed since the alert |
| `TypeCorrect` (browser) | `Spec => []TypeOK` (BrowserIntegration) | `Control`, `Data` |
| `DiscardAtMostOnce` | a transaction discards at most one tab, once | where its discard is |
| `RecordIsKept`, `BridgeStillKnows` | for a discarded tab the extension has its record and the bridge its transaction, but for overlapping restores | the same, and the order of the queue |
| `AuditIsFaithful` | the audit claims only what happened | the outcomes on their way |
| `OutcomesAccounted` | the outcome of a discard is in the audit, on its way or lost at a named place | the same |
| `TypesKept`, `ClaimsHaveGrounds` | the actuator is well typed; what was claimed is stored, valid and asked for | one inductive invariant |
| `OneClaim`, `ClaimsEnd` | a proof is claimed once; a claim is concluded unless interrupted | the same |
| `LedgerOnlyForward` | no step takes a row back or exchanges a proof | the same |
| `SevereAlwaysMeasured`, `CapAlwaysHolds` | severe pressure is measured when due; nothing else above the cap is | the decision of one tick |
| `StarvationPersists` | a starving tick measures nothing and leaves the next one starving | the same, any constants |

**The inductive invariant of the coordinator** (`IInv`). The safety properties
say what is true of a change in effect, and a change is made by a caller that
holds its transaction in local variables; so the invariant must say what each
program counter has established: which row is already written, that the plan in
the caller's hand is the plan of the row, that a transaction before its
registration is in nobody else's hands (`BeginOK`), that what a rollback works
on has a row (`RollbackOK`, `QueueOK`), that an active transaction has its
unfinished row or has already been settled by a rollback whose memory is about
to be cleared (`ActiveOK`), that an id not handed out occurs nowhere
(`UnusedNowhere`) and that rows other than "NONE" carry plans. Init implies it,
every action preserves it (one step of the proof per action), it implies each
property.

What a process gets back (`OriginalRestored`) is inductive relative to `IInv`:
whoever writes back writes the plan of the row, and with `PlansStay` no step
replaces that plan, so a row that captured the original setting keeps saying so
until the pid is reused, when `native` starts anew. Every other step leaves the
setting and the actions on it alone (`Elsewhere`).

For the rows, `InHand` collects what is active, queued or being rolled back.
`EveryRowStep` says that a status changes in `Begin`, before anything is in hand, or at
the end of a rollback; `EveryTakenStep` that only unfinished rows are taken in
hand. `RowsGoForward` follows for any number of callers. That a settled row is never
rewritten at all holds only if nobody else rolls the same transaction back: two
callers may both copy an active transaction, and the slower one writes its
outcome over the other's. `SettledOnce` therefore assumes `Callers = {Monitor}`,
which is the wiring of `main.cpp` (the coordinator is a local of the monitor thread,
line 830), and its `Sole` says that what the monitor has in hand is unfinished but
for the one transaction it is about to forget.

**The policy.** `DInv` relates the clock, the last tick and the deadlines:
whatever is active after the last collection had a deadline after that tick.
`LInv` adds that a cooldown outlasts every action of its key (`CooldownOK`), so
that a target which has just been admitted has no action in effect (`Vacant`);
the assumption on `Cooldown` is used exactly there, and `policy_suspend` shows
it is needed. Hence the setting captured by an unfinished row was not lowered,
or its target is one of those the code has given up on (`OrigOK`). That
`NotLeftLowered` survives the end of the application is `active` being among the
unfinished rows; that it survives a start is that a row not read puts its target
into `unrestored`.

`HourlyBudget` speaks of all actions since the start, while the code compares
its budget with a list from which `PruneBudget` drops what is old. `BudgetOK` says
what the list is: the end of the history, and what was dropped is older than the
window. `PopAged` models the `pop_front` loop as the suffix from the first time that
is not old; that there is a first one is `LeastNat`, taken from the
well-foundedness of the naturals (the library's induction theorem has an operator as
a parameter and cannot be used here). `LearnedOK` says that what was learned from
is not among the transactions that can still be measured, which gives "once"; "in
force" is the lookup of `Verify`. `ObservedOK` relates the controller's list to the
coordinator's: what is in force is listed until it has been observed for as long as
it should, and a stop still has every listed one before it.

**The store.** `EpisodeIsolation` speaks of the disk, but what reaches the disk
is what the connection holds, and what the connection writes depends on what
the object remembers. So `IInv` asks of both databases (`DataOK`) that they be
isolated, that nothing in them be later than the input being recorded (`Past`),
and that the episode the object would extend, if it is stored, be open and in
the context it remembers; and that the connection's database differ from the
disk's only as a later one may (`Final`). The clock enters once: `PastGrows`
holds because two ticks are a second apart while a timestamp is truncated by
less than one (`TimestampBounds`). Each kind of statement has a lemma about any
database (`SoundAfterEnd`, `SoundAfterStart`, `SoundAfterSummary`,
`SoundAfterPruning`); `DataStep` applies them action by action. No theorem
assumes anything of `Faults`, so they hold for whichever statement fails.

**The pipeline.** `ControlOK` says what the threads know of each other, from
`running` and `attached` to where the window thread may be while a batch is in
the worker's hands; `StorageOutlivesWriters` is read off it. `Ordered` splits
`InOrder` into pairs (what is logged is earlier than the batch, which is earlier
than the queue), so that taking a batch off the queue and adding at its end are
local. `NothingLost` is inductive together with them.

**The monitor loop.** `LoopImplementsPipeline` needs no invariant: a step of the
loop is a step of the pipeline with more variables. For
`FallbackOnlyAfterFailure` the invariant says that, once the window is full and
the last attempt was usable, its prediction is younger than the interval or was
made on the unscheduled first attempt, and no multiple of the interval lies
between it and now; the facts about remainders are lemmas of their own.

**The browser.** `Control` says what the threads and processes know of each other:
which command the server may be writing, which one the relay and the extension have,
which program counters a command in a handler can be at. `Data` says where the discard of a
transaction is: in the queue, in the server's hands, in a handler of the extension,
or spent; it is in one place and is spent once the tab is discarded, which gives
`DiscardedOnce`. For `RecordKept` and `StillKnown` it adds that in the queue a
discard comes before every restore of its transaction, and that a restore past the
queue finds the discard spent unless the two overlapped; the restore that then
removes the record has reloaded the tab. The audit's claims are about outcomes
that are still on their way too, so `OutcomeOK` asks of every one of them what
`AuditFaithful` asks of the rows.

**The actuator.** The claim is the only step from PENDING, and no step leads back
there, so the number of claims is decided by the state of the row; that relation
between history and ledger, with what the program counter has established
(stored, valid, asked for), is the invariant.

**The sampling.** No invariant over time is needed: the two safety theorems follow
from one tick, and `StarvationPersists` is the induction step of the violation
run, for any budget, window and interval.

The named assumptions on constants are `CoordinatorAssumption` and its likes (ranges of
the parameters, as `Configure` clamps them or the code declares them) and the
`NoneAssumption` of each module: "no value" is none of the values. The only further
hypotheses are that of `NeverLeftLowered` and `DeadlineIsKept`, which the shipped
configuration meets (section 3), and that of `SettledOnce` above.

**Only model-checked:** all liveness (`EventuallyReleased`, `StopReturns` and the other
`~>` properties: fairness and ENABLED are out of the prover's reach), and the five
violations, which are counterexamples. Every invariant and every action property of
the passing runs is a theorem.

## 6 Where code and documents disagree

Shown by a run (a finding in `PROJECT.json`):

1. `policy_suspend` -- `Execute` (`main.cpp:1335`) precedes the expiry of the
   same iteration; after a long gap a second action captures the lowered state.
2. `policy_restore` -- Quick Restore works on the controller's list, from which
   `Tick` removes an action at the end of its observation, in effect or not.
3. `store_retention` -- an OPEN episode keeps `ended_at = started_at`; retention
   deletes it while newer summaries refer to it, the foreign key fails, the
   script stops inside its transaction and nobody rolls it back.
4. `store_end_reason` -- `CloseActiveEpisode` forgets the id, a later statement
   fails, ROLLBACK restores the row only: the episode stays OPEN for ever.
5. `sampling_starved` -- a changed foreground forces the focused tier, the
   governor caps it, and as nothing is measured neither the cost nor the last
   foreground changes (`main.cpp:932`, `ObserverEffectGovernor.cpp:67`), while
   `docs/OBSERVER_EFFECT_GOVERNOR.md:12` says the collection is slowed. In the same
   way a 95th percentile above 25 ms fails the scheduler's ratio in every calm
   tick (`insufficient_risk_reduction`), and an inference by a Python process
   alone keeps the governor over its 20 ms.

Visible in the models, kept as the code has it, and not given a run:

* An orderly exit (`main.cpp:2064`) leaves actions in effect until the next start
  undoes them, and a start that cannot open or read the journal does not
  (`SafeOnlinePolicy.cpp:45`, `main.cpp:853`), while
  `PROJECT_GOAL_AND_PROGRESS.md:19` asks every action to be time-bounded and
  restorable. `Stop` of `ActionCoordinator` and `End`, `Boot` of
  `SafeOnlinePolicy` have it so.
* `Stop` of the bridge may wait for ever for a client
  (`BrowserIntegrationBridge.cpp:95`), and the application then does not end;
  `README.md:311` says "Use the tray menu's `Exit` command to stop the agent".
* `Restore` on a reused pid ends in `ROLLBACK_FAILED`, where `THREAT_MODEL.md:32`
  says `TARGET_EXITED`. The new process is not touched.
* Rollback of EcoQoS writes `ControlMask = EXECUTION_SPEED` whatever was captured
  (`ResourceOrchestrator.cpp:309`): a process whose throttling Windows managed is
  left with it pinned off, where `PROJECT_GOAL_AND_PROGRESS.md:64` has the original
  state restored.
* A restore that overtakes its discard, and a tab id that names another tab after
  the browser restarted: `integrations/browser/README.md:5` has the exact tab
  reloaded.
* A restarted actuator service accepts a request a second time until it expires
  (`SecureActuation.cpp:51`), where `docs/PHASE3_STATUS.md:5` has replay rejection;
  the ledger refuses the second claim.
* `AI_ALERT_THRESHOLD` (`README.md:266`, `Help.txt:31`) only clamps the clear
  threshold (`main.cpp:862-863`); what raises the alert is the decision level.
* The kill-switch file blocks new actions and restores none
  (`SafeOnlinePolicy.cpp:71`; `PROJECT_GOAL_AND_PROGRESS.md:144`).
* `Verify` measures whatever process has the pid (`ActionVerification.cpp:326`;
  `THREAT_MODEL.md:16`).
* `Close` ends an episode at a whole second and may end it before it started
  (`EpisodeTelemetryStore.cpp:155`; `python/dataset_schema_v3.py:102`).

## 7 What is not modelled

* The user's own changes to a target's settings during an action.
* Certification: at this commit `main.cpp:834` passes `false` for a valid
  certificate, so the online policy stays disabled; the models describe the
  loop as it runs once enabled.
* VERIFIED statuses, which the coordinator never writes.
* A clock that jumps back (`system_clock` is assumed monotone).
* In `ActionCoordinator`, a partial read of the unfinished rows
  (`ResourceOrchestrator.cpp:505`): recovery reads all rows or fails there. `Boot`
  of `SafeOnlinePolicy` reads any part.
* The evaluation of `main.cpp:1334` before the one in `Execute`: both prune the same
  budget at nearly the same time, and the model has one.
* DeleteDeviceData and ExportTelemetryCsv of the store, which only its tests call.
* DrainResults of the bridge (its list is logged) and tab snapshots, which nobody
  requests; a second discard at the same time.
* ActionGuardian, CanaryController and ActionLeaseManager: called by tests alone.
* RecordCollectorFailure, which nobody calls, and its backoff.
* The text of predictions and how they are obtained (HTTP, process, signature).
* The health in RuntimeStateStore: `main.cpp` writes it and never reads it.
* The audit tables of MetricsStorage: one insert each under the same lock; the
  monitor's own logging is the condition that it is alive in
  `StorageOutlivesWriters`.
* Scores, statistics, linear algebra, formatting, drawing, HTTP and schema text.
* Components with status `not_modelled` in `PROJECT.json`.

The implementation that is counted includes the vendored SQLite (`sqlite/`,
`sqlite3.h`: about 57,000 of 75,000 lines). Of the rest, most is drawing, table
schemas, counters of Windows and arithmetic; the lines named in `PROJECT.json` are
those that change the state the properties are about.

## 8 Plan

Written, in this order: `ReversibleAction`, `ActionCoordinator`, `SafeOnlinePolicy`,
`EpisodeTelemetryStore`, `MetricsPipeline`, each with its proofs; then
`BrowserIntegration`, `ActuatorService` with its proofs, `ObserverSampling` with
its proofs, `MonitorLoop` with its proofs; then the proofs of `BrowserIntegration` and the rest of those of
`SafeOnlinePolicy` and `ActionCoordinator`.

Next, in this order:

1. Composition: the online loop over the coordinator call by call, so that the
   atomic calls of `SafeOnlinePolicy` are shown to be a sound abstraction.
2. `ImpactLearning` promotion, `DatabaseMigrations`, BITS transactions.

## 9 How to run it

```
tlc -workers 2 -config coord_threads.cfg    MCActionCoordinator
tlc -workers 2 -config policy_loop.cfg      MCSafeOnlinePolicy
tlc -workers 2 -config store_write.cfg      MCEpisodeTelemetryStore
tlc -workers 2 -config monitor_loop.cfg     MCMonitorLoop
tlc -workers 2 -config browser.cfg          MCBrowserIntegration
tlc -workers 2 -config actuator.cfg         MCActuatorService
tlc -workers 2 -config sampling_starved.cfg MCObserverSampling
tlapm ActionCoordinatorProofs.tla
```

`PROJECT.json` lists the other runs and the modules with proofs, and gives for
each definition the lines it models, for each property of a passing run a fault
it detects, and for each hazard the properties about it.
