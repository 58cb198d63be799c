----------------------------- MODULE TaskLeases -----------------------------
(***************************************************************************)
(* Task leases and step events on top of the task queue                     *)
(* (internal/db/task_leases.go, internal/db/step_events.go).                *)
(*                                                                          *)
(* Executors, an agent per deployment target and any number of hub workers, *)
(* claim a task, run the steps of their location under the lease and report *)
(* step events with the lease's token; an expired lease may be replaced by  *)
(* another attempt.  Every action is one committed transaction.  Whoever    *)
(* has a token may send any event in any order, so the properties below do  *)
(* not depend on what an executor chooses to send.                          *)
(***************************************************************************)
EXTENDS TaskQueue, StepBatch

CONSTANTS
    Step,           \* step keys
    PlanSteps,      \* the steps of a plan
    Included,       \* the steps whose condition included them in the plan
    Location,       \* "target" or "hub" for each step
    Dependencies,   \* the steps a step depends on
    MaxAttempts,    \* bound on the leases a task may see
    MaxEvents       \* bound on the events of a step in one attempt

Attempt == 1..MaxAttempts

ASSUME StepAssumption ==
    /\ PlanSteps \in [Plan -> SUBSET Step]
    /\ Included \subseteq Step
    /\ Location \in [Step -> {"target", "hub"}]
    /\ Dependencies \in [Step -> SUBSET Step]
    /\ Acyclic(Step, Dependencies)   \* see StepGraph
    /\ MaxAttempts \in Nat
    /\ MaxEvents \in Nat

Executor == {"agent", "hub"}
ExecutionLocation(e) == IF e = "hub" THEN "hub" ELSE "target"

StepRunStatus == {"NONE", "PENDING", "RUNNING", "SUCCEEDED", "FAILED", "SKIPPED"}
Settled == {"SUCCEEDED", "FAILED", "SKIPPED"}
Satisfied == {"SUCCEEDED", "SKIPPED"}

(***************************************************************************)
(* A lease row: absent, unreleased and unexpired, unreleased with           *)
(* expires_at in the past, or with released_at set.                         *)
(***************************************************************************)
LeaseStatus == {"NONE", "LIVE", "EXPIRED", "RELEASED"}
Active == {"LIVE", "EXPIRED"}

(***************************************************************************)
(* PROGRESS stands for the three event types that leave the step running:   *)
(* PROGRESS, LOG and OUTPUT.                                                *)
(***************************************************************************)
EventType == {"STARTED", "PROGRESS", "SUCCEEDED", "FAILED"}

VARIABLES
    published,    \* the plan's release bundle is PUBLISHED
    stepStatus,   \* StepRun.status per task and step
    lease,        \* TaskLease rows per task and attempt
    executor,     \* TaskLease.executor_type per task and attempt
    events        \* StepRunEvent types per task, step and attempt, by sequence

leaseVars == <<published, stepStatus, lease, executor, events>>
vars == <<queueVars, leaseVars>>

LeaseTypeOK ==
    /\ QueueTypeOK
    /\ published \in [Plan -> BOOLEAN]
    /\ stepStatus \in [Task -> [Step -> StepRunStatus]]
    /\ lease \in [Task -> [Attempt -> LeaseStatus]]
    /\ executor \in [Task -> [Attempt -> Executor \cup {"NONE"}]]
    /\ events \in [Task -> [Step -> [Attempt -> Seq(EventType)]]]

Init ==
    /\ QueueInit
    /\ published = [p \in Plan |-> TRUE]
    /\ stepStatus = [t \in Task |-> [s \in Step |-> "NONE"]]
    /\ lease = [t \in Task |-> [a \in Attempt |-> "NONE"]]
    /\ executor = [t \in Task |-> [a \in Attempt |-> "NONE"]]
    /\ events = [t \in Task |-> [s \in Step |-> [a \in Attempt |-> <<>>]]]

-----------------------------------------------------------------------------
(* Which task an executor may claim, and which steps it then gets.          *)

DependenciesSatisfied(runs, s) == \A d \in Dependencies[s] : runs[d] \in Satisfied

(* The candidate query's test on steps: some included step of the location  *)
(* is unfinished and has all its dependencies.                              *)
HasWork(t, loc) ==
    \E s \in Included :
        /\ stepStatus[t][s] \in {"PENDING", "RUNNING"}
        /\ Location[s] = loc
        /\ DependenciesSatisfied(stepStatus[t], s)

(***************************************************************************)
(* The rest of the candidate query.  The statement evaluates the lease join *)
(* on its snapshot and locks only the task row, so what it saw of the lease *)
(* may be stale by the time the lease is inserted: see insertTaskLease.     *)
(***************************************************************************)
Candidate(t, e) ==
    /\ status[t] \in {"QUEUED", "RUNNING"}
    /\ published[t[1]]
    /\ HasWork(t, ExecutionLocation(e))

(***************************************************************************)
(* The steps of a claim.  Module ReadySteps shows that the sweeps of the    *)
(* code compute this set, in an order that respects the dependencies.       *)
(***************************************************************************)
readyTaskLeaseStepCandidates(runs, loc) ==
    Batch({s \in Included : runs[s] = "PENDING" /\ Location[s] = loc},
          {s \in Step : runs[s] \in Satisfied}, Dependencies)

(* One more than the highest attempt recorded for the task.                 *)
NextAttempt(t, a) ==
    /\ lease[t][a] = "NONE"
    /\ \A b \in Attempt : b < a => lease[t][b] # "NONE"

ExpiredLeases(t) == {a \in Attempt : lease[t][a] = "EXPIRED"}

(* The steps an expired executor left running go back to PENDING.           *)
resetInterruptedStepRuns(t) ==
    [s \in Step |->
       IF /\ stepStatus[t][s] = "RUNNING"
          /\ \E a \in ExpiredLeases(t) : Location[s] = ExecutionLocation(executor[t][a])
       THEN "PENDING" ELSE stepStatus[t][s]]

ReleaseExpired(t) ==
    [a \in Attempt |-> IF a \in ExpiredLeases(t) THEN "RELEASED" ELSE lease[t][a]]

ReleaseAll(t) ==
    [a \in Attempt |-> IF lease[t][a] \in Active THEN "RELEASED" ELSE lease[t][a]]

-----------------------------------------------------------------------------
(* Operations on the queue, with the rows this module adds.                 *)

insertStepRuns(t) ==
    [s \in Step |-> IF s \notin PlanSteps[t[1]] THEN "NONE"
                    ELSE IF s \in Included THEN "PENDING" ELSE "SKIPPED"]

CreatePlanTasks(p, request) ==
    /\ CreateTasksForDeploymentPlan(p, request)
    /\ stepStatus' = [t \in Task |->
                        IF t \in NewTasks(p) THEN insertStepRuns(t) ELSE stepStatus[t]]
    /\ UNCHANGED <<published, lease, executor, events>>

FailPlanPreflight(p) ==
    /\ CreateTasksPreflightFailed(p)
    /\ UNCHANGED leaseVars

(* POST /tasks/{id}/state: an operator starts a task by hand...             *)
StartTaskByHand(t) ==
    /\ StartTask(t)
    /\ UNCHANGED leaseVars

(* ... or ends it, whatever its steps are doing; its leases are released.   *)
FinishTaskByHand_Fault(t, s) ==
    /\ FinishTask(t, s)
    /\ UNCHANGED leaseVars
FinishTaskByHand(t, s) ==
    /\ FinishTask(t, s)
    /\ lease' = [lease EXCEPT ![t] = ReleaseAll(t)]
    /\ UNCHANGED <<published, stepStatus, executor, events>>

(* A release bundle is blocked or archived; it is never published again.    *)
BlockReleaseBundle(p) ==
    /\ published[p]
    /\ published' = [published EXCEPT ![p] = FALSE]
    /\ UNCHANGED <<queueVars, stepStatus, lease, executor, events>>

-----------------------------------------------------------------------------
(* Leases.                                                                  *)

(* The new lease row.  The partial unique index on unreleased leases makes  *)
(* the insert, and with it the whole claim, fail while the task has one.    *)
insertTaskLease(t, e, a) ==
    /\ \A b \in Attempt : ReleaseExpired(t)[b] \notin Active
    /\ lease' = [lease EXCEPT ![t] = [ReleaseExpired(t) EXCEPT ![a] = "LIVE"]]
    /\ executor' = [executor EXCEPT ![t][a] = e]

(* Claim of a queued task: its locks, its status and the lease commit       *)
(* together; a lock conflict leaves the task queued.                        *)
ClaimQueuedTask_Fault(t, e, a) ==
    /\ Candidate(t, e)
    /\ NextAttempt(t, a)
    /\ readyTaskLeaseStepCandidates(stepStatus[t], ExecutionLocation(e)) # {}
    /\ status[t] = "QUEUED"
    /\ status' = [status EXCEPT ![t] = "RUNNING"]
    /\ insertTaskLease(t, e, a)
    /\ UNCHANGED <<planStatus, preflight, queue, policy, acquired, released>>
    /\ UNCHANGED <<published, stepStatus, events>>
ClaimQueuedTask(t, e, a) ==
    /\ Candidate(t, e)
    /\ NextAttempt(t, a)
    /\ readyTaskLeaseStepCandidates(stepStatus[t], ExecutionLocation(e)) # {}
    /\ StartTask(t)
    /\ insertTaskLease(t, e, a)
    /\ UNCHANGED <<published, stepStatus, events>>

(* Claim of a running task without a live lease.                            *)
ReclaimRunningTask(t, e, a) ==
    /\ status[t] = "RUNNING"
    /\ Candidate(t, e)
    /\ NextAttempt(t, a)
    /\ stepStatus' = [stepStatus EXCEPT ![t] = resetInterruptedStepRuns(t)]
    /\ readyTaskLeaseStepCandidates(stepStatus'[t], ExecutionLocation(e)) # {}
    /\ insertTaskLease(t, e, a)
    /\ UNCHANGED <<queueVars, published, events>>

(* The same claim when no step of the claimant's location is pending: the   *)
(* expired lease is released and its steps are reset all the same.          *)
ReleaseExpiredLease(t, e) ==
    /\ status[t] = "RUNNING"
    /\ Candidate(t, e)
    /\ ExpiredLeases(t) # {}
    /\ stepStatus' = [stepStatus EXCEPT ![t] = resetInterruptedStepRuns(t)]
    /\ readyTaskLeaseStepCandidates(stepStatus'[t], ExecutionLocation(e)) = {}
    /\ lease' = [lease EXCEPT ![t] = ReleaseExpired(t)]
    /\ UNCHANGED <<queueVars, published, executor, events>>

LeaseTask(t, e) ==
    \/ \E a \in Attempt : ClaimQueuedTask(t, e, a) \/ ReclaimRunningTask(t, e, a)
    \/ ReleaseExpiredLease(t, e)

(* No heartbeat arrived for taskLeaseDuration.  Heartbeats themselves only  *)
(* keep a live lease live, and are refused once it has expired.             *)
LeaseExpires(t, a) ==
    /\ lease[t][a] = "LIVE"
    /\ lease' = [lease EXCEPT ![t][a] = "EXPIRED"]
    /\ UNCHANGED <<queueVars, published, stepStatus, executor, events>>

-----------------------------------------------------------------------------
(* Step events.                                                             *)

StepAfter(ty, current) ==
    CASE ty = "STARTED"   -> "RUNNING"
      [] ty = "PROGRESS"  -> current
      [] ty = "SUCCEEDED" -> "SUCCEEDED"
      [] ty = "FAILED"    -> "FAILED"

StepMayTake_Fault(ty, current) == current # "NONE" /\ (ty = "STARTED" => current = "PENDING")
StepMayTake(ty, current) == current = IF ty = "STARTED" THEN "PENDING" ELSE "RUNNING"

(* The status of the task once its steps have the statuses in runs.         *)
TaskAfter_Fault(t, runs) ==
    IF \A s \in PlanSteps[t[1]] : runs[s] \in Settled THEN "SUCCEEDED" ELSE "RUNNING"
TaskAfter(t, runs) ==
    IF \E s \in PlanSteps[t[1]] : runs[s] = "FAILED" THEN "FAILED"
    ELSE IF \A s \in PlanSteps[t[1]] : runs[s] \in Settled THEN "SUCCEEDED"
    ELSE "RUNNING"

(* The lease of a batch is released with its last unfinished step: when no  *)
(* included step of the executor's location is pending or running.          *)
BatchComplete(t, e, runs) ==
    \A s \in Included : Location[s] = ExecutionLocation(e)
                          => runs[s] \notin {"PENDING", "RUNNING"}

LeaseAccepts(t, a) == lease[t][a] = "LIVE"

(***************************************************************************)
(* A replayed sequence number changes nothing: it returns the stored event, *)
(* or a conflict when the payload differs.  Otherwise the lease must be     *)
(* live, the number the next one for this step and lease, the task running  *)
(* and the step in the status the event requires.                           *)
(***************************************************************************)
MayRecord(t, s, a, n, ty) ==
    /\ LeaseAccepts(t, a)
    /\ n = Len(events[t][s][a]) + 1
    /\ status[t] = "RUNNING"
    /\ StepMayTake(ty, stepStatus[t][s])

RecordStepRunEvent(t, s, a, n, ty) ==
    LET runs == [stepStatus[t] EXCEPT ![s] = StepAfter(ty, stepStatus[t][s])]
        after == IF ty \in {"SUCCEEDED", "FAILED"} THEN TaskAfter(t, runs) ELSE "RUNNING"
    IN  /\ MayRecord(t, s, a, n, ty)
        /\ stepStatus' = [stepStatus EXCEPT ![t] = runs]
        /\ events' = [events EXCEPT ![t][s][a] = Append(@, ty)]
        /\ IF after = "RUNNING" THEN UNCHANGED queueVars ELSE FinishTask(t, after)
        /\ lease' = [lease EXCEPT ![t] =
                       IF after # "RUNNING" THEN ReleaseAll(t)
                       ELSE IF ty = "SUCCEEDED" /\ BatchComplete(t, executor[t][a], runs)
                       THEN [lease[t] EXCEPT ![a] = "RELEASED"]
                       ELSE lease[t]]
        /\ UNCHANGED <<published, executor>>

-----------------------------------------------------------------------------
Next ==
    \/ \E p \in Plan, request \in Request : CreatePlanTasks(p, request)
    \/ \E p \in Plan : FailPlanPreflight(p) \/ BlockReleaseBundle(p)
    \/ \E t \in Task : StartTaskByHand(t)
    \/ \E t \in Task, s \in {"SUCCEEDED", "FAILED"} : FinishTaskByHand(t, s)
    \/ \E t \in Task, e \in Executor : LeaseTask(t, e)
    \/ \E t \in Task, a \in Attempt : LeaseExpires(t, a)
    \/ \E t \in Task, s \in Step, a \in Attempt, n \in 1..MaxEvents, ty \in EventType :
          RecordStepRunEvent(t, s, a, n, ty)

Spec == Init /\ [][Next]_vars

-----------------------------------------------------------------------------
(* Polling.                                                                 *)

(* The whole of the candidate query: an agent sees the tasks of its target, *)
(* a hub worker all of them, and a running task only without a live lease.  *)
CandidateOf(t, e, tgt) ==
    /\ Candidate(t, e)
    /\ e = "agent" => t[2] = tgt
    /\ status[t] = "RUNNING" => \A a \in Attempt : lease[t][a] # "LIVE"

(* ORDER BY queue_order LIMIT 1.  SKIP LOCKED passes over a task only while *)
(* another transaction has locked its row.                                  *)
getNextTaskLeaseCandidateForUpdate(t, e, tgt) ==
    \E i \in DOMAIN queue :
        /\ queue[i] = t
        /\ CandidateOf(t, e, tgt)
        /\ \A j \in 1..(i - 1) : ~CandidateOf(queue[j], e, tgt)

(* One poll while no row is locked: the first candidate is claimed or, when *)
(* its locks are taken, nothing is.                                         *)
PollForLease(e, tgt) ==
    \E t \in Task : getNextTaskLeaseCandidateForUpdate(t, e, tgt) /\ LeaseTask(t, e)

(* Agents and hub workers poll for ever, and meet unlocked rows.            *)
PollersPersist == \A e \in Executor, tgt \in Target : WF_vars(PollForLease(e, tgt))

PollSpec == Spec /\ PollersPersist

-----------------------------------------------------------------------------
(* Properties.                                                              *)

(***************************************************************************)
(* ADR-0023: "A Task has at most one active lease", across claims, manual   *)
(* starts, expiry and reclaim by either kind of executor.                   *)
(***************************************************************************)
AtMostOneActiveLease ==
    \A t \in Task : \A a, b \in Attempt :
        lease[t][a] \in Active /\ lease[t][b] \in Active => a = b

(***************************************************************************)
(* A lease is unreleased only while its task runs, and is the task's latest *)
(* attempt: nothing that ends a task (an event, an operator, a cancellation *)
(* by another plan) leaves a lease behind that heartbeats could keep alive. *)
(***************************************************************************)
ActiveLeaseIsLatestOfRunningTask ==
    \A t \in Task : \A a \in Attempt :
        lease[t][a] \in Active =>
            /\ status[t] = "RUNNING"
            /\ \A b \in Attempt : b > a => lease[t][b] = "NONE"

(***************************************************************************)
(* A failed step has failed its task: no order of events, operator calls    *)
(* and reclaims lets a task with a failed step run on or succeed.           *)
(***************************************************************************)
FailedStepFailsTask ==
    \A t \in Task : (\E s \in Step : stepStatus[t][s] = "FAILED") => status[t] = "FAILED"

(***************************************************************************)
(* A step succeeds at most once over all attempts, however often its task   *)
(* is reclaimed and its events are replayed.                                *)
(***************************************************************************)
SucceedsOnce ==
    \A t \in Task, s \in Step : \A a, b \in Attempt :
        /\ \E i \in DOMAIN events[t][s][a] : events[t][s][a][i] = "SUCCEEDED"
        /\ \E i \in DOMAIN events[t][s][b] : events[t][s][b][i] = "SUCCEEDED"
        => a = b

(***************************************************************************)
(* What has settled stays: a step that succeeded, failed or was skipped is  *)
(* never reset or rerun, and once a task has ended none of its step runs,   *)
(* events or leases changes, late executors included.                       *)
(***************************************************************************)
SettledStays ==
    [][\A t \in Task :
         /\ \A s \in Step : stepStatus[t][s] \in Settled => stepStatus'[t][s] = stepStatus[t][s]
         /\ status[t] \in Terminal =>
              /\ stepStatus'[t] = stepStatus[t]
              /\ events'[t] = events[t]
              /\ lease'[t] = lease[t]]_vars

(***************************************************************************)
(* The hub's view of the queue: what leases and step events do to tasks and *)
(* locks is something the task queue allows.                                *)
(***************************************************************************)
ImplementsTaskQueue == QueueSpec

(***************************************************************************)
(* docs/fork/PR-023_AGENT_TASK_LEASES.md, line 80: "If a Task is already    *)
(* RUNNING but its active lease is expired, a later lease claim releases    *)
(* the expired lease and creates a new lease for the same Task".  No task   *)
(* that has work stays with an expired lease although everybody polls (and  *)
(* the bound on attempts is not what prevents it).                          *)
(***************************************************************************)
AwaitsReclaim(t) ==
    /\ status[t] = "RUNNING" /\ published[t[1]]
    /\ ExpiredLeases(t) # {} /\ lease[t][MaxAttempts] = "NONE"
    /\ \E e \in Executor : HasWork(t, ExecutionLocation(e))

ExpiredIsReclaimed == \A t \in Task : AwaitsReclaim(t) ~> ~AwaitsReclaim(t)
=============================================================================
