# Distr: a TLA+ verification project

Distr is a Go hub with PostgreSQL behind it, agents on deployment targets (Docker and
Kubernetes), an OCI registry and an Angular front end. The fork under verification adds a
deployment pipeline: release bundles, deployment processes, plans, a durable task queue
with resource locks, leases for agents and hub workers, step events, callback-mode webhooks
("external executions") and the observed state of components. The modules here model that
pipeline from the configuration to the container, the migration of its timestamps, the
registry, and the API in front of everything. Paths are relative to the repository root.

## 1. Inventory

| Component | State | Operations | Hard behaviour | What makes it correct |
|---|---|---|---|---|
| Task queue and resource locks (`internal/db/task_queue.go`) | plan status, `Task`, `TaskResourceLock` | create tasks with four concurrency policies, start, finish, cancel older | two starts at once, policies that cancel and reject in one request, row locks and advisory guards taken in different orders | locks exclude and follow their task, policies keep their promise, transactions may be taken as atomic |
| Task leases (`internal/db/task_leases.go`) | `TaskLease` | poll, claim, reclaim, expire, heartbeat, release | stale candidate query, expiry under a working executor, head-of-line blocking | one active lease, the latest, of a running task; expired work is reclaimed |
| Ready steps (`readyTaskLeaseStepCandidates`) | none (pure) | sweeps over step runs | sort order against dependency order | the largest runnable batch, in dependency order, in finite time |
| Step events (`internal/db/step_events.go`) | `StepRun`, `StepRunEvent` | record, replay, complete step, task and batch | duplicated and reordered events, other attempts, operators | a settled step stays, a failed step fails the task |
| Step graph (`validateDeploymentProcessStepGraph`) | none (pure) | depth-first cycle search | map iteration order, shared sub-graphs | accepts exactly the acyclic graphs, terminates |
| External executions (`internal/db/external_executions.go`) | `ExternalExecution`, its events, `TargetComponentState`, observations | prepare, claim dispatch, callback, fail, time out, project state | callback, deadline and worker racing; a bounded history; stale plans | one dispatch, one end, no success lost or overwritten |
| Hub worker (`internal/hubexecutor/worker.go`) | one goroutine per lease, its copies of rows | execute steps, retry, wait for callbacks, heartbeat | every store call may fail before or after its commit; the hub stops anywhere | one attempt sends the request, success is never invented, sessions end |
| Channels, lifecycles, environments, Git authority | rows and the default flag | create, update, delete, change of authority | concurrent changes of the default under READ COMMITTED | one default per application, what Git manages stays |
| Release bundles | bundle, components, audit log, idempotency keys | draft, validate, publish, block, archive | parents and children change while one is published; repeated creation | a release contains releases only and never changes |
| Deployment plans and preflight | plans with frozen targets, steps, versions | resolve, insert, execute | many reads without a lock, changes between plan and execution | a ready plan is of the release; tasks are created on what was checked |
| Variables, snapshots, drift | variable sets, snapshots | replace, resolve, snapshot, compare | ties of scopes, torn reads, conversion to text | the most specific value wins; no drift means deployed |
| Processes, runbooks, step templates | revisions, snapshots | revise, snapshot, publish | a process moves to another application meanwhile | revisions can be run and refer to what exists |
| Rolling and blue-green strategies (`internal/deployments`) | windows, slots, checks | advance, report, shift, promote, roll back | late reports, thresholds that are not whole, repeated shifts | failures are contained; only promotion moves traffic for good |
| Docker agent (`cmd/agent/docker`) | host files, records, containers, reservations | task loop, poll loop, compose, webhook, OCI job, file render | crash at any point, lost answers, lost leases, foreign processes | what is reported was done; a job runs once; no half file |
| Kubernetes agent (`cmd/agent/kubernetes`) | tracking secret, Helm release | install, upgrade, uninstall, report | upgrades by hand, rollback on failure | others' changes are kept, healthy means running |
| Outbound webhooks (`internal/webhookaction`, `internal/policy`) | limiters, circuits, audit trail | admit, resolve, dial, retry | changing DNS answers, shared limits | only checked addresses are dialled |
| Timestamp migration (`internal/db/external_execution_timestamps.go`, migration 138) | manifests, cells, tombstones | expand, apply, verify, serve, contract | interruption, concurrent writers, retention | decisions are kept, ready stays ready |
| Migration runner and dirty recovery (`internal/migrations`) | marker, locks, plans, evidence files | migrate, plan, apply, verify | a process dies while its SQL goes on | a clean marker names the schema that is there |
| OCI registry (`internal/registry`, `internal/db/artifacts.go`) | versions, parts, blobs, entitlements | push, pull, delete, sync, clean up | racing pushes, clean-up between check and use | pushed is complete, pulled was granted |
| HTTP API (`internal/handlers`, `internal/routing`, `internal/middleware`) | all tables | every route | failure after any step, answers before commits | answers are true, roles hold |
| Notifications, mail, UI, SDK, scripts, traffic providers | see `PROJECT.json` | | | |

How they interact. A process revision, a variable snapshot and a bundle's components are
frozen by publication; a plan resolves a published bundle for an environment's targets and
freezes the versions of the components it will change. `CreateTasksForDeploymentPlan` turns
it into one task per target with lock rows. A claim starts a queued task (all its locks or
none) and inserts a lease in one transaction; the executor, the hub's worker or a target's
agent, reports step events under the lease's token, and the event that settles the last
step ends the task and releases locks and leases. A callback-mode webhook step creates an
external execution under the task's component lock; its successful callback moves the
component to its next state version. Independently of tasks, agents poll for the
deployments wanted on their target. All communication except webhooks, callbacks, the
registry and the agents' API goes through the database.

`PROJECT.json` lists every component with its status, and under `hazards` the places where
the code could go wrong in a way a test would hardly reach, each with the properties that
would catch it.

## 2. Modules

```
StepBatch ---+--> ReadySteps      StepGraph      RollingDeployment   BlueGreen
             |
TaskQueue ---+--> TaskLeases --+--> HubWorker    TimestampExpand ~~> TimestampLedger
   |  |      |                 +--> AgentWorker  MigrationRecovery
   |  |      +----> ExternalExecution --> HubWorker
   |  +-----------> TaskTransactions             Channels   ReleaseBundles   Variables
   |                                             Processes  Runbooks   DeploymentPlans
AgentDeployments  HelmDeployments  WebhookRun  OciJob  FileRender  Registry
ApiData --> ApiDelivery, ApiAccounts --> ApiPlatform                   Requests
```

`-->` is `EXTENDS`, `~~>` refinement. The proofs are apart from what they are about:
`Tasks_proofs` (TaskQueue, TaskLeases, TaskTransactions), `Scheduling_proofs` (StepGraph,
StepBatch, ReadySteps and the rollouts, as MCScheduling puts them together),
`HubWorker_proofs` (ExternalExecution, HubWorker), `Pipeline_proofs` (the pipeline modules and
MCPipeline), `Agent_proofs` (AgentWorker, OciJob, FileRender, WebhookRun), `Registry_proofs`,
`Platform_proofs` (the two poll loops, Requests, and MCPlatform, which takes the registry with
what is proved about it) and `Migration_proofs` (TimestampExpand, MigrationRecovery,
MCMigration).

The `MC` modules put several modules beside each other,
extended or instantiated: a variable `part` says which of them a behaviour runs, so that one
run asks the same question of several components and each keeps its own state space. Two
runs may share a module: `MCStores` serves `leases` and `execution`, `MCHubWorker` serves
`hub_worker` and `progress`, by the values of `Parts` and of the bounds in their `.cfg`. Definitions that end in `_Fault` (and a few similar suffixes)
are seeded faults: the definition after them as it would be with a plausible bug. Nothing
refers to them; they record what each property is able to detect.

### Execution core

**TaskQueue.** Tasks and locks. A task is a `<<plan, target>>` pair, as the unique index
says; `policy`, `acquired` and `released` are the lock rows. `CreateTasksForDeploymentPlan`
normalises the request, then applies REJECT_NEW and CANCEL_OLDER in the code's order of
resources: a REJECT_NEW lock does not see what a CANCEL_OLDER lock sorted before it has just
cancelled. A failed preflight commits its evidence and nothing else.

**TaskTransactions.** The same operations statement by statement: advisory guards in key
order, the rows of tasks, locks, targets and bundles, what each statement reads of the
committed state, commit and rollback. It extends TaskQueue, whose variables change at the
commit only. `LockingSound` says that every commit is a step of TaskQueue, which is what
allows the other modules to take transactions as atomic, and names the only two sources of
deadlocks. A statement that locks many rows takes them in any order, except for the guards,
which the code sorts. The row locks of external executions and component states are not in it.

**StepGraph, StepBatch, ReadySteps.** `visit` with its two sets as a machine with an explicit
stack, roots and dependencies in any order; `Batch` says what a claim should get and
ReadySteps is the code's sweeps in sort order.

**TaskLeases.** Claims, expiry, events. A lease is live, expired or released; time appears as
`LeaseExpires`. The candidate query evaluates its join with leases on a snapshot and locks
only the task row, so the model does not trust it: the partial unique index over unreleased
leases is what excludes. In `Spec` any candidate may be claimed, because concurrent polls
skip rows that others have locked; `PollForLease` is a poll that meets no locked row, which
takes the first candidate or nothing, and `PollSpec` is fair to it. Whoever has a token
may send any event in any order.

**ExternalExecution.** Prepare, dispatch claim, callback, failure and time-out;
`MaxEventCount` is the code's constant (256 there).

**HubWorker.** Composes leases and executions. A session is the goroutine of one lease; its
`pc` names the store call or request that comes next. With `Unreliable`, a call may fail
without an effect, or commit and lose its answer; `HeartbeatFails` cancels the context in
the middle of a step; `HubStops` ends a session anywhere.

**RollingDeployment, BlueGreen.** The two strategy libraries, one action per method. They
have no caller at this commit, so the order of calls is open and which reports callers make
is a parameter.

### Pipeline

**Channels** (default flag, lifecycles, authority of Git), **ReleaseBundles**,
**DeploymentPlans**, **Variables**, **Processes**, **Runbooks**. Requests are transactions at
READ COMMITTED: where the code locks a row first they are one step, elsewhere every
statement is a step and others act in between. Version ranges and patterns are the sets of
what they admit; checksums are equality of contents; a condition is the steps it refers to.

### Agents

**AgentWorker** (the task loop on top of TaskLeases), **AgentDeployments** and
**HelmDeployments** (the poll loops, with records that are torn by a crash and releases that
are upgraded by hand), **WebhookRun** (policy engine, resolver, dial, retries and audit trail
of several executions), **OciJob** (reservation, mutation lock and container of a job that
must run once), **FileRender** (inodes and names, so that a check of a path and its later
use are apart).

### Migration

**TimestampExpand** implements the abstract **TimestampLedger**; **MigrationRecovery** is the
runner, golang-migrate's marker and the recovery commands.

### Platform

**Registry** keeps reads and writes of concurrent requests apart. **ApiData** begins with
what a handler is made of (checks, reads, writes, transactions, calls, answers, and what a
failure of each does); **ApiDelivery**, **ApiData**, **ApiAccounts** and **ApiPlatform** are
the handlers and routes in these terms, and **Requests** runs any path of any route for any kind
of caller with a failure, a lost answer or a crash anywhere. What can be read off a path
without running it (`AnswersLast`, `FailsEarly`, `SendsOutside`, `RoutesGuarded`) is apart: it
is what `RoutesWritten` assumes of the tables of routes, and TLC evaluates it on all of them.

## 3. What is checked

| Run | Instance | Shows |
|---|---|---|
| `scheduling` | queue: 2 plans, 3 tasks, a shared target, a component, a custom resource, all policies; tx: the same with two sessions and default locks; all graphs over 3 steps and a dangling name; all acyclic graphs over 3 step runs with all statuses and locations; rolling: 4 targets and 108 configurations, with every end reported once, and with corrected reports for those without a percentage; blue-green: 2 checks, 2 shifts | exclusion, lock rows follow tasks, policies hold, transactions are atomic; the cycle search is right; the batch is complete and ordered; failures of a rollout are contained |
| `leases` | 2 plans on one target, a target step, a hub step, a skipped step, 3 attempts (2 while both plans have tasks), 2 events per step and attempt | one active lease of a running task, failures fail the task, settled work stays, refinement of TaskQueue |
| `execution` | 2 plans race for a component, one has a second; history of 3 | history explains status, every success is projected once and while its task runs, `NoPrepareAfterSuccess` |
| `hub_worker` | a target step and a callback step, 3 attempts, unreliable database | one sender; success only behind a success |
| `progress` | hub: target step, response-mode and callback-mode webhook, 2 tries, 2 attempts; sweeps over 2 step runs; OCI job with 2 attempts | sessions, sweeps and job attempts end |
| `pipeline` | channels: 2 requests, 3 channels, 2 applications; releases: 2 requests, 2 bundles, 1 key; plans: 1 request, 2 targets; variables: 4 contents, 5 deployments; processes: 2 requests, 2 revisions; runbooks: 2 revisions | one default, releases closed and accounted for, plans of the release, tasks on checked ground, most specific values, revisions that can be run, and what is frozen stays |
| `agent` | task: 3 steps, 2 attempts; webhook: 2 executions, 3 hosts, limits of one; job: 3 attempts with secrets, with and without a code of the CLI among the expected ones; file: 2 executions, 2 foreign changes | reported means done, requests are announced, only checked addresses, a job runs once, no half file |
| `migration` | expansion: 2 rows, 1 writer, 3 manifests, 6 readings of the clock; recovery: 2 processes | decisions kept, never stranded, a clean marker matches, ready stays ready, refinement of the ledger |
| `platform` | docker: 2 deployments, 2 revisions, a task's record; helm: 2 deployments under one name, 4 upgrades; registry: 2 clients, 2 tags, an image and an index, limit of 2; pull (uploads before artifacts) and sync alone; every route for every kind of caller | records and reports are true, others' changes kept, registry whole, answers true, roles hold |
| `expired_lease`, `lock_order`, `hub_worker_success` | 2 tasks with fair polls; part tx of `scheduling`; 1 attempt over a reliable database | found: section 6 |

Why the bounds are enough. Conflicts over a resource, a row or a tag are between two
requests, hence two sessions; the third task of `scheduling` gives a plan with two targets,
so that one creation can cancel, reject and duplicate on different resources. A lost race
over a lease needs the overtaken attempt and its successor; a third attempt reclaims again
while the first executor still reports. A history of 3 has ordinary slots and the reserved
one. Three keys are the smallest graphs with a shared node, a cycle off the first path and
a dangling name. Four targets with 40 percent is a threshold that is not whole. Two
manifests after the root are enough for one to be prepared from a superseded one. For the
API every path is short and independent of the others, so one request at a time is complete
for what a single request promises; races between requests are in the component modules.
What depends on size rather than shape is proved where section 5 says so.

Bounds that the code does not have: `MaxAttempts` (leases of a task), `MaxEvents` (events of a
step in an attempt; `WorkerAssumption` makes it large enough for a session), `MaxWindows`,
`MaxShifts`, `MaxClock`, `MaxManifests`, `MaxProgress`, `MaxSecond`, `MaxInodes`, `MaxSwaps`,
`MaxVersion`, `MaxEdits`, `MaxChunks`, `MaxID`. State constraints (`MCBound`): in `scheduling`
part tx follows one failed preflight but not two and ends tasks in success only, and
corrected reports are explored without thresholds in percent; in `leases`
three attempts are explored for the first plan alone; in `execution` the second component is
left aside while both plans exist.

Deadlock in TLC's sense is not checked: when all tasks have ended and all bounds are used up
the system may stop. Waiting in a circle is a property (`LockingSound`, `NoDeadlock`).

## 4. Fairness

* Sweeps: weak fairness of the next step of a sequential loop.
* Hub sessions: weak fairness of each session's own steps (a goroutine that can run is run,
  store calls and HTTP requests have time-outs) and of `DeadlinePasses`. None for the
  external executor, operators, agents, heartbeats or claims.
* OCI job: a live attempt goes on, the job's process exits, and the owner file of a dead
  owner ages. None for attempts that are suspended or die.
* `PollSpec` (for the finding `expired_lease`): every executor polls for ever and its polls
  meet unlocked rows. This is more than the code guarantees, so the counterexample does
  not come from an unlucky schedule.

## 5. What is proved

All theorems hold for every value of the constants that meets the named assumptions of the
modules. TLC evaluates the assumptions in every run whose module extends theirs:

* rows have numbers or orders as the tables have (`PlanAssumption`, `StepAssumption`,
  `NAssumption`, `VersionsCounted`), and steps name steps (`KeyAssumption`);
* guards and policies are sorted by keys that tell resources apart, a plan makes a task, and
  the sessions are finite in number (`TransactionAssumption`): without the last a wait could
  go on for ever without a circle;
* a session's bounds leave room for what one attempt records (`WorkerAssumption`), and a
  history for its last event (`WebhookAssumption`);
* a rollout's configurations are those that `Validate` accepts (`RolloutAssumption`);
* names that mean "nobody" or "nothing" are nobody's, kinds of names are apart, and what is
  referred to exists (`NamesDistinct`, `ApplicationsNamed`, `BundlesNamed`, `ChildrenNamed`,
  `TagsNumbered`, `PromptsNamed`, `StepChannelsNamed`, `ProcessesNamed`, `RecordsApart`,
  `NamesApart`);
* artifacts, tags and clients are finite in number, so that the tag limit counts
  (`TablesFinite`, and `RegistryAssumption`, which the theorems of Registry_proofs assume and
  Platform_proofs proves for each of its instances);
* old wall clocks are of a zone that keeps them apart from the readings of the clock after the
  expansion (`ClockAssumption`), a requested mode is a file mode (`RequestedModeIsMode`),
  all webhook limits are positive and the executions finite in number (`WebhookLimits`);
* the handlers that are not named in `Early`, `Mute`, `Partial` and `Ahead` do their steps in
  the order that their names deny, and the middlewares of routes that change something let
  nobody through but those listed (`RoutesWritten`).

**Tasks_proofs, the queue.** `QueueTypeCorrect`; `LockRowsFollowTasks`; `ResourceMutualExclusion`;
`PlansExecuteOnce`; `PoliciesHold`. `NoDuplicateActiveLock` alone is not inductive: a start
looks for *running* rivals, so one needs to know that every holder runs. `LocksFollowTask`
says so. The policies need three facts of the queue's order: it lists each task once, lists
exactly the tasks that exist, and a new task comes after all older ones; one creation then
changes nothing between two tasks that both existed before it.

**Scheduling_proofs, the steps.** `ValidationIsRight`, `RecursionIsBounded`, for graphs of any size. The
invariant: the stack is a path in the graph without repetition, `visiting` is its set of
keys, and `visited` is closed under dependencies and carries no cycle. Acyclicity is stated
without recursion (no non-empty set in which every element has a dependency inside), which
is what makes the proof first-order. `SweepsReturnBatch`, `BatchOrdered`: what has been
selected is always a subset of `Batch`, and a sweep that picks nothing leaves no eligible
step with satisfied dependencies; acyclicity then gives equality.

**Scheduling_proofs, the rollouts.** `RolloutsAreContained`. That the failures stay within a
window of the threshold is not inductive: one needs that the failures of earlier windows are
below it for ever, since a window is only started below it and ends are reported once
(`FailuresInv`). With late and corrected reports, `RollingInv` says that whatever is in progress
was started with the current window, which is no larger than the configuration allows, and
that windows are taken in the order of targets; `CanAdvance` then says that no rollout that
has not ended is stuck. Blue-green: a shift remembers the slot that serves (`BlueInv`).

**Tasks_proofs, the leases.** `LeasesImplementQueue`: every step of leases and events is a step of
`QueueSpec` or leaves the queue alone, so mutual exclusion carries over
(`LeasesKeepMutualExclusion`). `LeaseTypeCorrect`. `OneActiveLease`, which needs that an
active lease is the latest attempt of a running task and that attempts have no gaps.
`FailedStepsFailTasks`, which needs that a step outside the task's plan has no step run.
`WhatSettledStays` is an action property and is proved action by action from the type
invariant and the lock rows: resets touch `RUNNING` steps only and ended tasks take no
event.

**Tasks_proofs, the transactions.** `TransactionsAreAtomic`, for any number of sessions that
hold any mixture of locks. A transaction has read what others may since have changed, so the
invariant `TxInv` says what an open one may rely on: a task whose row it holds is in the state
it has read; the guards of its resources, once held, keep everybody from adding or starting
a task on them; and what the policies have decided so far (`Policies`) stays decided while the
remaining resources are looked at. `Respects` says in turn what a commit may do to the others:
with the lemma `Interference`, each of the operations is proved once against one commit, not
against every pair. The steps that commit are then steps of TaskQueue
(`CommitCreateIs`, `CommitStartIs`, `CommitFinishIs`, `PreflightFailsIs`). For the deadlocks
every wait is given a rank: for the row of its task, then for its bundle, then for a guard, by
the guard's key. Where no creation cancels and no bundle is shared, the rank rises along
every wait, so that in a finite set of sessions one waits for nobody.

**HubWorker_proofs, the executions.** `ExecutionsKeepQueue`; `HistoryIsSound`, `DispatchedAtMostOnce`
(a queued execution has not been dispatched); `NoSuccessLost`, `ProjectionFollowsTask`,
`NothingPreparedOnOwnSuccess`. The invariant adds to the queue's that the history has ended
exactly when the execution has, that a slot is left for the last event, and that
observations and state versions agree.

**HubWorker_proofs, the sessions.** `WorkerImplementsStores`: every store call of a session, lost answers
and stops included, is a step of TaskLeases, a step of ExternalExecution or neither, so all
their theorems hold of the hub. `OnlyTheClaimantSends` and `SuccessWasDeployed`. A session
acts on copies, and what it knows from them must survive what others do meanwhile: `HubInv`
says that a copy which shows an ended execution is right for ever, that a session about to
succeed holds such a copy of a success, and that the attempts which have sent a request or
are about to are at most one, the one whose claim dispatched the execution.

**Agent_proofs, the task loop.** `AgentImplementsLeases`, the refinement of TaskLeases.
`SuccessIsReal`: a crash forgets where the agent was, so the invariant `AgentInv` relates the
agent's place to the timelines: when the action has succeeded, the attempt is among those
that carried it out. `RequestsAreAnnounced`: before a request, the attempt's timeline holds
one progress event more than the requests it has sent, although an event may be recorded
and its answer lost.

**Agent_proofs, the actions.** `JobIsRunOnce`: the mutation lock is with whoever is inside a Docker
command, inside it is the owner of the reservation, and what the owner learnt from
`docker inspect` is still true when it starts or removes the container; without the fence a
suspended attempt could act on an old inspection. `JobInv` adds what the container remembers
(`ContainerRemembers`: it has run once if it has left "created") and what the daemon may still
make of a request whose CLI is gone (`DaemonHolds`), so that a late container meets the name
conflict and not a second run. `ResultsStand` carries the verdicts: an attempt that took a
container over, and every attempt when `expectedExitCodes` lists no code of the docker CLI,
succeeds only behind the exit of a job that ran. `RenderIsSafe`: paths name inodes,
a foreign process may swap them between any two calls; `FileInv` says what each call may
still rely on (the temporary name is ours or foreign but never a half-written file, copies
point at older inodes and are as private, the original is at the destination or in the
backup unless somebody else interfered). `WebhookIsSafe`: the slots equal the executions
under way, by the cardinality of that set; a trail is a chain of hashes in which no two
neighbours are alike, so taking out any event breaks the chain or its end, which is also
why only a completed trail verifies (`WebhookInv`, `IsTrail`, `TamperShows`).

**Pipeline_proofs, the channels.** `DefaultIsUnique` for overlapping transactions at READ COMMITTED. That
each write leaves one default depends on what others may do between its statements:
`ChannelsInv` says that row locks are disjoint, that a session writes a row which it has
locked or which does not exist, that what it cleared is locked and of its application, and
that a channel without the flag is written only while another default exists, which nobody
can take away without putting one of its own. `GitManagedIsKept`: the row of an update under
way is locked, so its authority cannot pass to Git before the write.

**Pipeline_proofs, the releases.** `ReleasesAreClosed`, `ReleasesAreFrozen`. A publication looks at
the children one by one and writes in the end; `BundlesKept` says that what it has found stays
found, because its own row is locked and a release stays a release. A cycle among releases
would need one that was published before its own child.

**Pipeline_proofs, the plans.** `PlansAreOfTheRelease`. A planner holds copies of the bundle, the
targets and their states; `PlanTxsKept` says which of them still hold: a bundle that was read
with its snapshot is the release for ever, and what an execution has read of targets and
states is locked until it commits. The other copies are free to be stale, and the plan says
so in its issues.

**Pipeline_proofs, processes, runbooks, variables.** `ProcessesAreSound`, `ProcessesAreFrozen`,
`RunbooksAreSound`: a writer of a revision is alone on its process, so what it has validated is
still valid when it inserts (`WritersKept`, `ReadersKept`). `VariablesAreSound` is about one
resolution over any sets and scopes: the specificity of scopes is a number, and what is
resolved has no better rival. The theorems of the components become those of the run
(`PipelineReleases`, `PipelinePlans`, `PipelineProcesses`, `PipelineVariables`,
`PipelineKeepsWhatIsFrozen`).

**Registry_proofs.** `RegistryKeepsItsPromises`, `PushedTagsStay`. `Whole` says that stored rows
are complete and name each other, and what a push, deletion, pull or sync that has begun may
still rely on when it writes. `BlobsSpared`: a blob that a pushed version lists is either
counted as referenced by the clean-up or too young for it, unless the push reused what the
clean-up had already given up (`exposed`; section 6). `TagsCounted`: the limit can be
exceeded by as many pushes as are between their count and their write, and by no more.

**Platform_proofs.** `RecordsTellTheTruth`: the Docker agent's record does not say ready while its
deployment is applied, unless the write that should have said so failed; for Helm, which
revision a record means is told by its number, and numbers grow (`TrustStays`).
`OthersAreRespected`. `RegistryIsWhole`, by the theorems about the registry. `AnswersAreTrue`:
`RequestInv` relates a request to its path, namely that the open transactions are those the
path has begun and not ended (`DepthAt`), that everything due so far is stored or pending, and
that what is stored is durable by the path (`Durable`); the order of steps that `RoutesWritten`
asks for then gives each answer its meaning. `RolesAreHeld`: only a request that all
middlewares have let through does anything, and whom they let through is in the tables.

**Migration_proofs.** `TimestampsImplementLedger`: every step is one of TimestampLedger on what
is remembered of a row, its cells or its tombstone. That the way back loses nothing needs
that no cell has an instant before the root manifest, because no hub serves until then.
`ReadinessLasts`: the gate is restated row by row (`Passes`), and each action changes one
row, or one manifest, and keeps that row passing. A transaction's stamp is never mistaken for
a historical wall clock (`ManifestsOK`), and never lies before the baseline however late it
commits, because it began after the root manifest (`Times`); a cell that a manifest has
promoted cannot be deleted as unresolved, because decisions are kept along the chain
(`ManifestsKeepDecisions`, `PromotedIsDecided`); and a promotion on record only comes after
the deletion. `RecoveryIsSafe`: a process that has sent SQL holds golang-migrate's lock and
has marked its goal as dirty; when it dies its SQL keeps that lock, so neither another
migration nor the recovery, which waits for it, declares a version clean before the SQL has
ended (`Holds`, `OrphanHolds`). `MigrationIsSafe` joins the parts. It assumes
`CleanupAnyTime = FALSE`, as its run does: the cleanup command is not run between the
expansion and the first manifest. Only `NeverStranded` needs it, and without it that property
does not hold (section 6); the other theorems do without.

Every invariant, action property and refinement that a passing run checks is thereby a
theorem.

Only model-checked: liveness (`SessionsEnd`, `SweepsEnd`, `EveryAttemptEnds`) and the
violations, which need fairness or ENABLED and are beyond the prover. That the tables of
routes meet `RoutesWritten` is evaluated by TLC: it is a fact about one finite table, which
the modules list in full. The same goes for the other assumptions in each instance.

## 6. Findings

1. **An expired lease that nobody reclaims** (`expired_lease`). A poll takes the first
   candidate in queue order (`internal/db/task_leases.go:347`, LIMIT 1) and returns nothing
   when that task's locks are held. If a second task runs before the first, because its poll
   skipped the first one's locked row, and its worker dies, every later poll meets the first
   task, fails on the second one's lock and gives up. `docs/fork/PR-023_AGENT_TASK_LEASES.md:80`
   says that a later claim releases the expired lease. With a poll that looks further the
   property holds on the same instance. The same blocking stalls a running task without a
   lease, and for hub workers the tasks of all organizations behind the head.
2. **A claim and a creation wait for each other** (`lock_order`). A claim locks its bundle
   (`task_leases.go:465`) before the guards; a creation takes the guards and locks the
   bundle in its preflight (`deployment_preflight.go:295`). PostgreSQL aborts one of them.
   `docs/adr/0021-task-locks-and-concurrency.md:34` says that such operations are serialised
   by resource-key ordering. Creations with CANCEL_OLDER can deadlock too, since they lock
   task rows after the guards; `DeadlockExplained` (part of `LockingSound`) says that there
   is no third way.
3. **A success recorded as a time-out** (`hub_worker_success`). A callback that succeeds
   between the worker's last read and its call of `TimeoutExternalExecution` makes that call
   return the successful execution; the worker ignores its status and fails the step
   (`internal/hubexecutor/worker.go:430`). For the same race with `FailExternalExecution` the
   code honours the success, and `worker_test.go:254` asks for it.

Behaviour worth knowing, met while modelling. A property in parentheses is stated in the
module of the component and does not hold; TLC finds its counterexample with the instance
of the component's run.

* Queue: CANCEL_OLDER releases lock rows of tasks that never started, which
  `deploy/server-docker-compose/deploy.sh:1845` counts as defects (`ReleasedWasAcquired`).
* Hub worker: a failed heartbeat cancels the context, `FailExternalExecution` is skipped, and
  the execution stays RUNNING behind a failed step unless a callback comes
  (`docs/fork/FORK_DIFF_INDEX.md:893`). When a progress event fails, its sequence number is
  spent and the failure event is refused.
* `NoPrepareAfterSuccess`: preflight at prepare time compares all components of the target,
  including those that an earlier step of the same task has just deployed; the second
  callback component of a task can be prepared only before the first has succeeded.
* Rolling: when the last report brings the failures to the threshold, all targets are terminal
  and the phase is PAUSED or ABORTED for ever; `docs/fork/PR-041*`:33 says COMPLETED
  (`CompletedWhenAllTerminal`). Blue-green: no call clears health checks or observations, so a
  shift can be planned after a rollback or a completion, and a promotion may rest on what was
  observed before the shift; `docs/fork/PR-043*`:33 and :37 say otherwise
  (`ShiftsOnlyAVerifiedSlot`, `PromotedOnFreshObservations`).
* Channels: making a channel the default clears the flag of channels under Git's authority
  (`internal/db/channels.go:391`, compare `docs/fork/PR-048*`:5); `FrozenStays` excepts the flag.
* Plans: lifecycle phases are not locked between preflight and commit.
* Variables: a publication reads variable sets several times without a lock, so a snapshot
  may mix two editions (`internal/db/variable_snapshots.go:132`); values scoped to tags or
  steps do not reach plans; a list in YAML is always reported as missing and JSON in an
  environment file always as drift.
* Migration: with `CleanupAnyTime`, retention between the expansion and the first manifest
  leaves a database that can never become ready (`NeverStranded`; `docs/fork/PR-054A*`:79); a
  recovery repeated with retained evidence may report success while the marker is dirty again
  (`ReusedResultMeansClean`; `docs/fork/PR-054A*`:147).
* Agents: the timeline that a webhook step looks at before it sends holds the events of its
  own lease only, so the attempt after an interrupted one sends again; `docs/adr/0031*` says
  that the agent fails closed (`FailsClosedOnPriorEvents`). After a failed Helm upgrade with
  rollback the tracking secret carries the failed revision, so the next polls report it as
  healthy (`HealthyExplained` excepts it).
* OCI jobs: an attempt that found no reservation may rename away the one that another has
  published since (`FreshReservationKept`; `docs/fork/PR-026*`:134); a time-out before the
  container exists leaves the staged secrets behind (`SecretsRemoved`; `docs/adr/0026*`:67); an
  attempt that is suspended after a failed run may delete the file that another's container
  mounts (`SecretsAtStart`; `docs/adr/0026*`:69). These three properties are stated in OciJob
  and no run checks them. A fresh run is judged by the exit code of the docker CLI
  (`oci_job_action.go`:428, 453), which is 125, 126 or 127 when the container was not made or
  the command could not be started; `expectedExitCodes` may be any of 0 to 255 (:221). With such
  a code listed, a job that never started is reported as succeeded. `JobRunsOnce` excepts
  exactly this (`lax` and nothing taken over in `SuccessMeansExecuted`). The documents do not
  deny it: they promise success when the exit code is expected (`docs/fork/PR-026*`:137) and
  no false success after a restart or a reclaim (`docs/adr/0026*`:69), and that holds.
* Registry: pushing an existing tag with identical content is refused; the tag limit stops
  one short; last-tag and deletion checks race at READ COMMITTED; a sync that skips existing
  tags never repairs an interrupted one, and a synced tag keeps parts of its old manifest;
  completing an upload session does not verify the digest; the clean-up may delete an old
  blob that a push has just reused.
* API: the handlers in `Early` answer inside their transaction, those in `Mute` drop the error
  of a commit, those in `Partial` can fail after a write, and one sends mail before its
  commit (`MCPlatform`); three routes check no role (`updateApplicationVersion`, `createFile`,
  `deleteFile`), and changes of alert configurations do not block super admins; limits are
  counted and then inserted without a lock; Stripe's webhooks are applied in arrival order.

## 7. Not modelled

Hashes, signatures, checksums, tokens and URLs are data; a replay with another payload is
refused and changes nothing, as one with the same payload does. Reads for display, metrics,
spans, logging, mapping between types and the text of manifests and mails change no state.
Parsing and validation of configuration documents, template rendering and JSON-schema checks
are pure functions of text, modelled as valid or not. Helm, Docker, S3, Stripe and DNS are
external and modelled by what the code expects of them. The catalog checks of the timestamp
migration, the other 137 migrations, the deletions by age of logs and metrics, the job
scheduler, self-updates, the traffic provider registry, the front end, the SDK and the
deployment scripts are left out; `PROJECT.json` gives a reason for each.

Within the modules, these are assumptions about the surroundings or details that are left out:

* OciJob: a container that the daemon is starting is inspected only when that has ended, and the
  docker CLI does not outlive the agent that called it. Containers that are created late, after
  their CLI is gone, are modelled, and so is the name conflict they cause.
* WebhookRun: every limit is positive (a limit of 0 switches its check off:
  `rate_limiter.go`:25, `webhook_policy_engine.go`:120) and the wall clock does not step back
  (the windows of the limiter are keyed by its second: `rate_limiter.go`:30).
* FileRender: a mode is the set of classes of readers it admits. The backup gets mode bits, not
  the owner and group of the original (`copyFileAtomic`), so "as private" is about these bits.
* Registry: a client that puts a manifest under a digest puts it under its own digest, which
  the registry does not compare; blobs and children may be missing. In part pull of `platform`
  blobs are uploaded only while there is no artifact.
* HelmDeployments: every tracking secret names its deployment. Secrets of older agents without an
  id, which are matched by release name (`cmd/agent/kubernetes/main.go`:525), are left out.

## 8. Plan

Next are the row locks of external executions and component states in TaskTransactions, with
the atomicity of callbacks as a part of `LockingSound`; a composition of DeploymentPlans with
ExternalExecution in which several components of one target change; and the catalog checks
of the timestamp migration.
