-------------------------- MODULE ExternalExecution --------------------------
(***************************************************************************)
(* External executions and the component state they project, on top of the  *)
(* task queue (internal/db/external_executions.go, with the state checks of *)
(* internal/deploymentpreflight/evaluate.go).                               *)
(*                                                                          *)
(* A callback-mode webhook step hands a component's deployment to an        *)
(* external system, which reports back by sequenced callbacks until a       *)
(* deadline.  A successful callback moves the component's recorded state to *)
(* the next version, provided nobody else has since the plan was created.   *)
(* Every action is one committed transaction; a request the code answers    *)
(* with an error, and a replayed callback, change nothing.                  *)
(***************************************************************************)
EXTENDS TaskQueue

CONSTANTS
    Webhook,            \* callback-mode distr.webhook steps
    PlanWebhooks,       \* the ones in a plan's process
    WebhookComponent,   \* the component a webhook step names in its input
    MaxEventCount       \* bound on the event history of an execution

ASSUME WebhookAssumption ==
    /\ PlanWebhooks \in [Plan -> SUBSET Webhook]
    /\ WebhookComponent \in [Webhook -> Component]
    /\ MaxEventCount \in Nat \ {0}

TargetComponent == Target \X Component

(* An execution belongs to a step run, and exists only for a component of   *)
(* the plan on the task's target.                                           *)
Execution ==
    {e \in Task \X Webhook :
        /\ e[2] \in PlanWebhooks[e[1][1]]
        /\ <<e[1][2], WebhookComponent[e[2]]>> \in PlanComponents[e[1][1]]}
TaskOf(e) == e[1]
ComponentOf(e) == <<e[1][2], WebhookComponent[e[2]]>>

Open == {"QUEUED", "RUNNING"}
Ended == {"SUCCEEDED", "FAILED", "CANCELED", "TIMED_OUT"}
CallbackStatus == {"RUNNING", "SUCCEEDED", "FAILED", "CANCELED"}

VARIABLES
    planned,          \* plans that have been created
    expected,         \* DeploymentPlanTargetComponent.expected_state_version
    execution,        \* ExternalExecution.status, "NONE" before it is prepared
    dispatches,       \* how often the execution was claimed for dispatch
    overdue,          \* callback_deadline_at has passed
    callbacks,        \* ExternalExecutionEvent statuses, by sequence
    taskPreflight,    \* latest preflight run a prepare persisted for the task
    stateVersion,     \* TargetComponentState.state_version, 0 without a row
    observations      \* TargetComponentObservation rows: who wrote a version

execVars ==
    <<planned, expected, execution, dispatches, overdue, callbacks, taskPreflight,
      stateVersion, observations>>
execAllVars == <<queueVars, execVars>>

ExecTypeOK ==
    /\ planned \subseteq Plan
    /\ expected \in [Plan -> [TargetComponent -> Nat]]
    /\ execution \in [Execution -> Open \cup Ended \cup {"NONE"}]
    /\ dispatches \in [Execution -> Nat]
    /\ overdue \in [Execution -> BOOLEAN]
    /\ callbacks \in [Execution -> Seq(CallbackStatus \cup {"TIMED_OUT"})]
    /\ \A e \in Execution : Len(callbacks[e]) <= MaxEventCount
    /\ taskPreflight \in [Task -> {"NONE", "FAILED", "PASSED"}]
    /\ stateVersion \in [TargetComponent -> Nat]
    /\ observations \in [TargetComponent -> Seq(Execution)]

ExecInit ==
    /\ QueueInit
    /\ planned = {}
    /\ expected = [p \in Plan |-> [tc \in TargetComponent |-> 0]]
    /\ execution = [e \in Execution |-> "NONE"]
    /\ dispatches = [e \in Execution |-> 0]
    /\ overdue = [e \in Execution |-> FALSE]
    /\ callbacks = [e \in Execution |-> <<>>]
    /\ taskPreflight = [t \in Task |-> "NONE"]
    /\ stateVersion = [tc \in TargetComponent |-> 0]
    /\ observations = [tc \in TargetComponent |-> <<>>]

-----------------------------------------------------------------------------
(* Plans and tasks.                                                         *)

(* The plan freezes the state version of each of its target components.     *)
CreateDeploymentPlan(p) ==
    /\ p \notin planned
    /\ planned' = planned \cup {p}
    /\ expected' = [expected EXCEPT ![p] =
                      [tc \in TargetComponent |->
                         IF tc \in PlanComponents[p] THEN stateVersion[tc] ELSE 0]]
    /\ UNCHANGED <<queueVars, execution, dispatches, overdue, callbacks, taskPreflight,
                   stateVersion, observations>>

(***************************************************************************)
(* The preflight's state check over the components of p on the targets tgts *)
(* the evaluation is scoped to.  Its other checks, on targets and on the    *)
(* release, may fail at any time.                                           *)
(***************************************************************************)
StateMatches(p, tgts) ==
    \A tc \in PlanComponents[p] : tc[1] \in tgts => stateVersion[tc] = expected[p][tc]

ExecutePlan(p, request) ==
    /\ p \in planned
    /\ StateMatches(p, Target)
    /\ CreateTasksForDeploymentPlan(p, request)
    /\ UNCHANGED execVars

ExecutePlanPreflightFailed(p) ==
    /\ p \in planned
    /\ CreateTasksPreflightFailed(p)
    /\ UNCHANGED execVars

(* A claim or an operator starts the task; events or an operator end it.    *)
ChangeTask(t, s) ==
    /\ TransitionTaskState(t, s)
    /\ UNCHANGED execVars

-----------------------------------------------------------------------------
(* The hub's side of an execution.                                          *)

OwnsComponentLock_Fault(e) ==
    ComponentLock(ComponentOf(e)[1], ComponentOf(e)[2]) \in acquired[TaskOf(e)]
OwnsComponentLock(e) ==
    ComponentLock(ComponentOf(e)[1], ComponentOf(e)[2])
        \in acquired[TaskOf(e)] \ released[TaskOf(e)]

(* A second call for the same step run returns the execution it finds.      *)
MayPrepare(e) ==
    /\ execution[e] = "NONE"
    /\ status[TaskOf(e)] = "RUNNING"
    /\ OwnsComponentLock(e)

PrepareExternalExecution_Fault(e) ==
    /\ MayPrepare(e)
    /\ taskPreflight' = [taskPreflight EXCEPT ![TaskOf(e)] = "PASSED"]
    /\ execution' = [execution EXCEPT ![e] = "QUEUED"]
    /\ UNCHANGED <<queueVars, planned, expected, dispatches, overdue, callbacks,
                   stateVersion, observations>>
PrepareExternalExecution(e) ==
    /\ MayPrepare(e)
    /\ StateMatches(TaskOf(e)[1], {TaskOf(e)[2]})
    /\ taskPreflight' = [taskPreflight EXCEPT ![TaskOf(e)] = "PASSED"]
    /\ execution' = [execution EXCEPT ![e] = "QUEUED"]
    /\ UNCHANGED <<queueVars, planned, expected, dispatches, overdue, callbacks,
                   stateVersion, observations>>

(* A failed preflight commits its evidence and no execution.                *)
PreparePreflightFailed(e) ==
    /\ MayPrepare(e)
    /\ taskPreflight' = [taskPreflight EXCEPT ![TaskOf(e)] = "FAILED"]
    /\ UNCHANGED <<queueVars, planned, expected, execution, dispatches, overdue, callbacks,
                   stateVersion, observations>>

(* The worker claims the dispatch, then invokes the webhook.  Neither the   *)
(* deadline nor the lease is looked at.                                     *)
MarkExternalExecutionTriggered(e) ==
    /\ execution[e] = "QUEUED"
    /\ execution' = [execution EXCEPT ![e] = "RUNNING"]
    /\ dispatches' = [dispatches EXCEPT ![e] = @ + 1]
    /\ UNCHANGED <<queueVars, planned, expected, overdue, callbacks, taskPreflight,
                   stateVersion, observations>>

ValidateCallbackSequence(n, s) ==
    n <= MaxEventCount /\ (n = MaxEventCount => s \in Ended)

(* The next event of e, with the status it leaves the execution in.         *)
AppendEvent_Fault(e, s) ==
    /\ ValidateCallbackSequence(Len(callbacks[e]) + 1, s)
    /\ callbacks' = [callbacks EXCEPT ![e] = Append(@, s)]
    /\ execution' = [execution EXCEPT ![e] = IF s = "TIMED_OUT" THEN @ ELSE s]
AppendEvent(e, s) ==
    /\ ValidateCallbackSequence(Len(callbacks[e]) + 1, s)
    /\ callbacks' = [callbacks EXCEPT ![e] = Append(@, s)]
    /\ execution' = [execution EXCEPT ![e] = s]

EndExecution(e, s) ==
    /\ execution[e] \in Open
    /\ AppendEvent(e, s)
    /\ UNCHANGED <<queueVars, planned, expected, dispatches, overdue, taskPreflight,
                   stateVersion, observations>>

FailExternalExecution(e) == EndExecution(e, "FAILED")

(* By the worker, or by a callback that arrives too late: it is refused,    *)
(* whatever its sequence number, and the time-out is committed instead.     *)
TimeoutExternalExecution(e) == overdue[e] /\ EndExecution(e, "TIMED_OUT")

DeadlinePasses(e) ==
    /\ execution[e] # "NONE"
    /\ ~overdue[e]
    /\ overdue' = [overdue EXCEPT ![e] = TRUE]
    /\ UNCHANGED <<queueVars, planned, expected, execution, dispatches, callbacks,
                   taskPreflight, stateVersion, observations>>

-----------------------------------------------------------------------------
(* Callbacks.                                                               *)

CanCallbackTransition(from, to) == to \in CallbackStatus /\ from \in Open

(* The optimistic update: the version the plan has frozen must still be the *)
(* current one.  Without a row, it is the insert that fails if there is one.*)
upsertExternalExecutionObservedState_Fault(e) ==
    LET tc == ComponentOf(e) IN
    /\ OwnsComponentLock(e)
    /\ stateVersion' = [stateVersion EXCEPT ![tc] = expected[TaskOf(e)[1]][tc] + 1]
    /\ observations' = [observations EXCEPT ![tc] = Append(@, e)]
upsertExternalExecutionObservedState(e) ==
    LET tc == ComponentOf(e) IN
    /\ OwnsComponentLock(e)
    /\ stateVersion[tc] = expected[TaskOf(e)[1]][tc]
    /\ stateVersion' = [stateVersion EXCEPT ![tc] = expected[TaskOf(e)[1]][tc] + 1]
    /\ observations' = [observations EXCEPT ![tc] = Append(@, e)]

(***************************************************************************)
(* A callback with sequence number n.  observed says whether it carries an  *)
(* observed state, and whether that is the one frozen in the execution and  *)
(* healthy.  A number that is already recorded is a replay and changes      *)
(* nothing, also after the execution has ended.                             *)
(***************************************************************************)
RecordExternalExecutionCallback(e, n, s, observed) ==
    /\ n \notin DOMAIN callbacks[e]
    /\ ~overdue[e]
    /\ n = Len(callbacks[e]) + 1
    /\ CanCallbackTransition(execution[e], s)
    /\ observed = IF s = "SUCCEEDED" THEN "exact" ELSE "none"
    /\ IF s = "SUCCEEDED" THEN upsertExternalExecutionObservedState(e)
                          ELSE UNCHANGED <<stateVersion, observations>>
    /\ AppendEvent(e, s)
    /\ UNCHANGED <<queueVars, planned, expected, dispatches, overdue, taskPreflight>>

-----------------------------------------------------------------------------
ExecNext ==
    \/ \E p \in Plan : CreateDeploymentPlan(p) \/ ExecutePlanPreflightFailed(p)
    \/ \E p \in Plan, request \in Request : ExecutePlan(p, request)
    \/ \E t \in Task, s \in TaskStatus : ChangeTask(t, s)
    \/ \E e \in Execution :
          \/ PrepareExternalExecution(e)
          \/ PreparePreflightFailed(e)
          \/ MarkExternalExecutionTriggered(e)
          \/ FailExternalExecution(e)
          \/ TimeoutExternalExecution(e)
          \/ DeadlinePasses(e)
    \/ \E e \in Execution, n \in 1..MaxEventCount, s \in CallbackStatus,
          observed \in {"none", "exact", "other"} :
          RecordExternalExecutionCallback(e, n, s, observed)

ExecSpec == ExecInit /\ [][ExecNext]_execAllVars

-----------------------------------------------------------------------------
(* Properties.                                                              *)

(***************************************************************************)
(* ADR-0052: "the final slot reserved for a terminal event".  An execution  *)
(* that has not ended can always record one more event, so a full history   *)
(* never keeps a time-out or a failure from being committed.                *)
(***************************************************************************)
TerminalSlotReserved ==
    \A e \in Execution : execution[e] \in Open => Len(callbacks[e]) < MaxEventCount

(***************************************************************************)
(* The event history explains the status: an execution has ended exactly    *)
(* when its history has, with that status, and nothing follows a terminal   *)
(* event, whether it came from a callback, the worker or the deadline.      *)
(***************************************************************************)
HistoryExplainsStatus ==
    \A e \in Execution :
        /\ execution[e] \in Ended =>
              callbacks[e] # <<>> /\ callbacks[e][Len(callbacks[e])] = execution[e]
        /\ \A i \in DOMAIN callbacks[e] :
              callbacks[e][i] \in Ended => i = Len(callbacks[e]) /\ execution[e] = callbacks[e][i]

(***************************************************************************)
(* ADR-0051: "Stale plans cannot silently overwrite newer observed state".  *)
(* Every version of a component's state was written by one successful       *)
(* execution, planned when the version before it was current, and every     *)
(* successful execution has written one: no success is lost or overwritten, *)
(* even between tasks that hold the component lock in parallel.             *)
(***************************************************************************)
EverySuccessProjectedOnce ==
    /\ \A tc \in TargetComponent :
          /\ Len(observations[tc]) = stateVersion[tc]
          /\ \A i \in DOMAIN observations[tc] :
                LET e == observations[tc][i]
                IN  /\ ComponentOf(e) = tc
                    /\ execution[e] = "SUCCEEDED"
                    /\ expected[TaskOf(e)[1]][tc] = i - 1
    /\ \A e \in Execution : execution[e] = "SUCCEEDED" =>
          \E i \in DOMAIN observations[ComponentOf(e)] : observations[ComponentOf(e)][i] = e

(***************************************************************************)
(* ADR-0052: the dispatch boundary is "at-most-once".  Whatever workers,    *)
(* callbacks and deadlines do first, an execution is claimed for dispatch   *)
(* once.                                                                    *)
(***************************************************************************)
AtMostOneDispatch == \A e \in Execution : dispatches[e] <= 1

(***************************************************************************)
(* Component state changes only while the task that reports it is running:  *)
(* a callback that outlives its task cannot project anything, since the     *)
(* task's end has released the component lock.                              *)
(***************************************************************************)
ProjectsOnlyWhileTaskRuns ==
    [][\A e \in Execution :
         execution'[e] = "SUCCEEDED" /\ execution[e] # "SUCCEEDED"
            => status[TaskOf(e)] = "RUNNING"]_execAllVars

(***************************************************************************)
(* The prepare of a step checks the state of all components of the task's   *)
(* target against the plan, those its own earlier steps have deployed       *)
(* included: once one execution of a task has succeeded, no other execution *)
(* of that task can be prepared any more.                                   *)
(***************************************************************************)
NoPrepareAfterSuccess ==
    [][\A e, f \in Execution :
         execution[e] = "NONE" /\ execution'[e] # "NONE" /\ TaskOf(f) = TaskOf(e)
            => execution[f] # "SUCCEEDED"]_execAllVars
=============================================================================
