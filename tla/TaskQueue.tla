------------------------------ MODULE TaskQueue ------------------------------
(***************************************************************************)
(* The durable task queue of the hub: deployment plans, the tasks created   *)
(* from them and the resource locks those tasks request, take and release   *)
(* (internal/db/task_queue.go).  Every action is one committed database     *)
(* transaction: the code takes a per-resource advisory guard before it      *)
(* reads or writes the locks of a resource, so transactions that touch the  *)
(* same resource are atomic with respect to each other.                     *)
(***************************************************************************)
EXTENDS Naturals, Sequences

CONSTANTS
    Plan,                 \* deployment plans
    Target,               \* deployment targets
    Component,            \* component keys of a plan's target components
    PlanTargets,          \* the targets of a plan, in sort order
    PlanComponents,       \* the <<target, component>> pairs of a plan
    AdditionalResource,   \* lock resources a caller may name in a request
    SortKey               \* position of a resource in (type, key) order

(***************************************************************************)
(* A task is identified by its plan and its target: the table has a unique  *)
(* index over the two.                                                      *)
(***************************************************************************)
NewTasks(p) == {<<p, PlanTargets[p][i]>> : i \in DOMAIN PlanTargets[p]}
TasksInOrder(p) == [i \in 1..Len(PlanTargets[p]) |-> <<p, PlanTargets[p][i]>>]
Task == UNION {NewTasks(p) : p \in Plan}

TargetLock(tgt) == <<"deployment_target", tgt>>
ComponentLock(tgt, c) == <<"target_component", tgt, c>>

Resource ==
    AdditionalResource
        \cup {TargetLock(tgt) : tgt \in Target}
        \cup {ComponentLock(tgt, c) : tgt \in Target, c \in Component}

ASSUME PlanAssumption ==
    /\ PlanTargets \in [Plan -> Seq(Target)]
    /\ \A p \in Plan : \A i, j \in DOMAIN PlanTargets[p] :
          PlanTargets[p][i] = PlanTargets[p][j] => i = j
    /\ PlanComponents \in [Plan -> SUBSET (Target \X Component)]
    /\ SortKey \in [Resource -> Nat]

Policy == {"QUEUE", "CANCEL_OLDER", "REJECT_NEW", "ALLOW_PARALLEL"}

(***************************************************************************)
(* Definitions whose names end in _Fault are seeded faults: what the        *)
(* definition that follows would be if the code had a plausible bug.  They  *)
(* are used only to show that the properties detect it.                     *)
(***************************************************************************)

(***************************************************************************)
(* "NONE" stands for the absence of a row: a task that was not created, a   *)
(* lock that was not requested.                                             *)
(***************************************************************************)
TaskStatus == {"NONE", "QUEUED", "RUNNING", "SUCCEEDED", "FAILED", "CANCELED"}
Terminal == {"SUCCEEDED", "FAILED", "CANCELED"}
PlanStatus == {"BLOCKED", "READY", "EXECUTED"}

(***************************************************************************)
(* A task creation request: the default policy and the policy of each       *)
(* additional resource it names; "" where the caller left the policy out.   *)
(***************************************************************************)
Request ==
    [default: Policy \cup {""}, additional: [AdditionalResource -> Policy \cup {"", "NONE"}]]

NormalRequest == [default: Policy, additional: [AdditionalResource -> Policy \cup {"NONE"}]]

VARIABLES
    planStatus,   \* DeploymentPlan.status
    preflight,    \* latest preflight run persisted by a task-creation request
    status,       \* Task.status
    queue,        \* created tasks in queue_order
    policy,       \* TaskResourceLock rows: policy per task and resource
    acquired,     \* resources whose lock row has acquired_at, per task
    released      \* resources whose lock row has released_at, per task

queueVars == <<planStatus, preflight, status, queue, policy, acquired, released>>

QueueTypeOK ==
    /\ planStatus \in [Plan -> PlanStatus]
    /\ preflight \in [Plan -> {"NONE", "FAILED", "PASSED"}]
    /\ status \in [Task -> TaskStatus]
    /\ queue \in Seq(Task)
    /\ policy \in [Task -> [Resource -> Policy \cup {"NONE"}]]
    /\ acquired \in [Task -> SUBSET Resource]
    /\ released \in [Task -> SUBSET Resource]

QueueInit ==
    /\ planStatus \in [Plan -> {"BLOCKED", "READY"}]
    /\ preflight = [p \in Plan |-> "NONE"]
    /\ status = [t \in Task |-> "NONE"]
    /\ queue = <<>>
    /\ policy = [t \in Task |-> [r \in Resource |-> "NONE"]]
    /\ acquired = [t \in Task |-> {}]
    /\ released = [t \in Task |-> {}]

-----------------------------------------------------------------------------
(* The lock rows of a task, and who conflicts over a resource.              *)

Locks(t) == {r \in Resource : policy[t][r] # "NONE"}

DefaultLocks(t) ==
    {TargetLock(t[2])}
        \cup {ComponentLock(t[2], pc[2]) : pc \in {x \in PlanComponents[t[1]] : x[1] = t[2]}}

(* An omitted default is QUEUE, an omitted resource policy the default.     *)
normalizeTaskLockResourceRequests(req) ==
    LET default == IF req.default = "" THEN "QUEUE" ELSE req.default
    IN  [default |-> default,
         additional |-> [r \in AdditionalResource |->
                           IF req.additional[r] = "" THEN default ELSE req.additional[r]]]

RequestedPolicy(req, t, r) ==
    IF r \in DefaultLocks(t) THEN req.default
    ELSE IF r \in AdditionalResource THEN req.additional[r]
    ELSE "NONE"

(* A caller named a resource that is already a default lock of some task:   *)
(* the unique index over (task, type, key) rejects the insert.              *)
HasDuplicateLock(p, req) ==
    \E t \in NewTasks(p) : \E r \in DefaultLocks(t) \cap AdditionalResource :
        req.additional[r] # "NONE"

hasActiveTaskResourceConflict_Fault(t, r) ==
    \E u \in Task \ {t} : r \in acquired[u] \ released[u] /\ status[u] = "QUEUED"
hasActiveTaskResourceConflict(t, r) ==
    \E u \in Task \ {t} :
        /\ r \in acquired[u] \ released[u]
        /\ status[u] = "RUNNING"

(* The policy the new tasks of p request for r.  Within one request no two  *)
(* tasks disagree: a resource named twice is a duplicate lock.              *)
Requests(p, req, r, pol) == \E t \in NewTasks(p) : RequestedPolicy(req, t, r) = pol

UnreleasedOn(r, statuses, p) ==
    {u \in Task \ NewTasks(p) : r \in Locks(u) \ released[u] /\ status[u] \in statuses}

(* The queued tasks that CANCEL_OLDER locks among rs cancel.                *)
CancelOlderQueuedTasks_Fault(p, req, rs) ==
    UNION {{u \in UnreleasedOn(r, {"QUEUED"}, p) : r \in acquired[u]} :
             r \in {x \in rs : Requests(p, req, x, "CANCEL_OLDER")}}
CancelOlderQueuedTasks(p, req, rs) ==
    UNION {UnreleasedOn(r, {"QUEUED"}, p) : r \in {x \in rs : Requests(p, req, x, "CANCEL_OLDER")}}

(* The locks are processed in (type, key) order, so a REJECT_NEW lock no    *)
(* longer sees the tasks that CANCEL_OLDER locks before it have canceled.   *)
hasNonTerminalTaskResourceConflict(p, req, r) ==
    UnreleasedOn(r, {"QUEUED", "RUNNING"}, p)
        \ CancelOlderQueuedTasks(p, req, {x \in Resource : SortKey[x] < SortKey[r]}) # {}

RejectsNew(p, req) ==
    \E r \in Resource :
        /\ Requests(p, req, r, "REJECT_NEW")
        /\ hasNonTerminalTaskResourceConflict(p, req, r)

-----------------------------------------------------------------------------
(* Operations.                                                              *)

(* Preflight failed: its evidence is committed, and nothing else.           *)
CreateTasksPreflightFailed(p) ==
    /\ planStatus[p] = "READY"
    /\ \A t \in NewTasks(p) : status[t] = "NONE"
    /\ preflight' = [preflight EXCEPT ![p] = "FAILED"]
    /\ UNCHANGED <<planStatus, status, queue, policy, acquired, released>>

(* Preflight passed: tasks, locks, policy side effects and the plan's       *)
(* status commit together.  A second request returns the existing tasks and *)
(* changes nothing; a rejected one rolls back.                              *)
CreateTasks(p, req) ==
    LET canceled == CancelOlderQueuedTasks(p, req, Resource)
    IN  /\ planStatus[p] = "READY"
        /\ \A t \in NewTasks(p) : status[t] = "NONE"
        /\ ~HasDuplicateLock(p, req)
        /\ ~RejectsNew(p, req)
        /\ planStatus' = [planStatus EXCEPT ![p] = "EXECUTED"]
        /\ preflight' = [preflight EXCEPT ![p] = "PASSED"]
        /\ status' = [t \in Task |->
                        IF t \in NewTasks(p) THEN "QUEUED"
                        ELSE IF t \in canceled THEN "CANCELED"
                        ELSE status[t]]
        /\ queue' = queue \o TasksInOrder(p)
        /\ policy' = [t \in Task |->
                        IF t \in NewTasks(p)
                        THEN [r \in Resource |-> RequestedPolicy(req, t, r)]
                        ELSE policy[t]]
        /\ released' = [t \in Task |->
                          IF t \in canceled THEN Locks(t) ELSE released[t]]
        /\ UNCHANGED acquired

CreateTasksForDeploymentPlan(p, request) ==
    CreateTasks(p, normalizeTaskLockResourceRequests(request))

(* QUEUED -> RUNNING takes every lock of the task or none.                  *)
StartTask(t) ==
    /\ status[t] = "QUEUED"
    /\ \A r \in Locks(t) :
          policy[t][r] # "ALLOW_PARALLEL" => ~hasActiveTaskResourceConflict(t, r)
    /\ acquired' = [acquired EXCEPT ![t] = @ \cup (Locks(t) \ released[t])]
    /\ status' = [status EXCEPT ![t] = "RUNNING"]
    /\ UNCHANGED <<planStatus, preflight, queue, policy, released>>

(* RUNNING -> s releases every lock of the task.                            *)
FinishTask_Fault(t, s) ==
    /\ status[t] = "RUNNING"
    /\ s \in {"SUCCEEDED", "FAILED"}
    /\ status' = [status EXCEPT ![t] = s]
    /\ released' = IF s = "FAILED" THEN released ELSE [released EXCEPT ![t] = Locks(t)]
    /\ UNCHANGED <<planStatus, preflight, queue, policy, acquired>>
FinishTask(t, s) ==
    /\ status[t] = "RUNNING"
    /\ s \in {"SUCCEEDED", "FAILED"}
    /\ status' = [status EXCEPT ![t] = s]
    /\ released' = [released EXCEPT ![t] = Locks(t)]
    /\ UNCHANGED <<planStatus, preflight, queue, policy, acquired>>

TransitionTaskState(t, s) ==
    \/ s = "RUNNING" /\ StartTask(t)
    \/ FinishTask(t, s)

QueueNext ==
    \/ \E p \in Plan : CreateTasksPreflightFailed(p)
    \/ \E p \in Plan, request \in Request : CreateTasksForDeploymentPlan(p, request)
    \/ \E t \in Task, s \in TaskStatus : TransitionTaskState(t, s)

QueueSpec == QueueInit /\ [][QueueNext]_queueVars

-----------------------------------------------------------------------------
(* Properties.                                                              *)

Exclusive(t, r) == policy[t][r] \in Policy \ {"ALLOW_PARALLEL"}
HeldBy(r) == {t \in Task : r \in acquired[t] \ released[t]}
OlderThan(t, u) ==
    \E i, j \in DOMAIN queue : i < j /\ queue[i] = t /\ queue[j] = u /\ t[1] # u[1]
Live(t, r) == status[t] \in {"QUEUED", "RUNNING"} /\ r \in Locks(t)

(***************************************************************************)
(* No resource has two lock rows that are acquired, unreleased and not      *)
(* ALLOW_PARALLEL: the first half of verify_task_lock_integrity in          *)
(* deploy/server-docker-compose/deploy.sh, and what acquireTaskResourceLocks*)
(* and the release in updateTaskStatus have to maintain together.           *)
(***************************************************************************)
NoDuplicateActiveLock ==
    \A r \in Resource : \A t, u \in HeldBy(r) :
        Exclusive(t, r) /\ Exclusive(u, r) => t = u

(***************************************************************************)
(* The lock rows tell the truth about the task: they are unreleased exactly *)
(* while the task is queued or running and held exactly while it runs, for  *)
(* every way a task ends (finishing, failing, or cancellation by the        *)
(* creation of another task).                                               *)
(***************************************************************************)
LocksFollowTask ==
    \A t \in Task :
        /\ acquired[t] \subseteq Locks(t)
        /\ released[t] = IF status[t] \in Terminal THEN Locks(t) ELSE {}
        /\ status[t] = "RUNNING" => acquired[t] = Locks(t)
        /\ status[t] \in {"NONE", "QUEUED", "CANCELED"} => acquired[t] = {}

(***************************************************************************)
(* A task that requested REJECT_NEW on a resource is never queued or        *)
(* running together with an older task of another plan on that resource,    *)
(* whatever the mix of policies in its request                              *)
(* (applyTaskConcurrencyPolicies).                                          *)
(***************************************************************************)
RejectNewHasNoOlderRival ==
    \A t, u \in Task, r \in Resource :
        policy[u][r] = "REJECT_NEW" /\ OlderThan(t, u) => ~(Live(t, r) /\ Live(u, r))

(***************************************************************************)
(* Once a task was created with CANCEL_OLDER on a resource, no older task   *)
(* of another plan waits for that resource: the ones that still live were   *)
(* already running (cancelOlderQueuedTasksForResource).                     *)
(***************************************************************************)
CancelOlderLeavesNoOlderWaiter ==
    \A t, u \in Task, r \in Resource :
        policy[u][r] = "CANCEL_OLDER" /\ OlderThan(t, u) /\ r \in Locks(t)
            => status[t] # "QUEUED"

(***************************************************************************)
(* Both at once: what a concurrency policy promises when a task is created  *)
(* holds for as long as the tasks live (applyTaskConcurrencyPolicies).      *)
(***************************************************************************)
ConcurrencyPoliciesHold == RejectNewHasNoOlderRival /\ CancelOlderLeavesNoOlderWaiter

(***************************************************************************)
(* Tasks exist exactly for the executed plans, one per target, and appear   *)
(* in the queue once: a plan is never executed twice or half              *)
(* (insertTasksForDeploymentPlan, markDeploymentPlanExecuted).              *)
(***************************************************************************)
PlanExecutedOnce ==
    /\ \A t \in Task : status[t] # "NONE" <=> planStatus[t[1]] = "EXECUTED"
    /\ \A i, j \in DOMAIN queue : queue[i] = queue[j] => i = j
    /\ \A t \in Task : status[t] # "NONE" <=> \E i \in DOMAIN queue : queue[i] = t

(***************************************************************************)
(* What deploy.sh's verify_task_lock_integrity also counts as a defect: a   *)
(* lock row that was released without ever having been acquired.            *)
(***************************************************************************)
ReleasedWasAcquired == \A t \in Task : released[t] \subseteq acquired[t]
=============================================================================
