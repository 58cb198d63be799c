-------------------------- MODULE HubWorker_proofs --------------------------
(***************************************************************************)
(* Proofs about ExternalExecution for every set of plans, webhook steps and *)
(* components and every bound on the event history, and about HubWorker for *)
(* every set of plans, steps, webhooks and attempts, whether or not the     *)
(* database is reliable.  A session decides on copies of rows that others   *)
(* change; what makes that safe is that an ended execution stays as it is,  *)
(* and that the claim of a dispatch succeeds for one session only.          *)
(***************************************************************************)
EXTENDS HubWorker, Tasks_proofs

-----------------------------------------------------------------------------
(* External executions.                                                     *)


(* What the constants say about an execution.                               *)
LEMMA ExecutionFacts ==
  ASSUME NEW e \in Execution
  PROVE  /\ TaskOf(e) \in Task
         /\ ComponentOf(e) \in TargetComponent
         /\ TaskOf(e)[1] \in Plan
         /\ ComponentOf(e) \in PlanComponents[TaskOf(e)[1]]
         /\ ComponentOf(e)[1] = TaskOf(e)[2]
<1>1. e[1] \in Task /\ e[2] \in Webhook /\ ComponentOf(e) \in PlanComponents[e[1][1]]
  BY DEF Execution, ComponentOf
<1>2. PICK p \in Plan : e[1] \in NewTasks(p)
  BY <1>1 DEF Task
<1>3. e[1][1] = p
  BY <1>2 DEF NewTasks
<1>4. PlanComponents[p] \subseteq TargetComponent
  BY PlanAssumption DEF TargetComponent
<1> QED
  BY <1>1, <1>3, <1>4 DEF TaskOf, ComponentOf

LEMMA ComponentLockIsResource ==
  ASSUME NEW e \in Execution
  PROVE  ComponentLock(ComponentOf(e)[1], ComponentOf(e)[2]) \in Resource
  BY ExecutionFacts DEF TargetComponent, Resource

-----------------------------------------------------------------------------
(* Every step is a step of the task queue, or leaves it alone.              *)
LEMMA ExecNextIsQueueNext == [ExecNext]_execAllVars => [QueueNext]_queueVars
  BY DEF ExecNext, QueueNext, execAllVars, CreateDeploymentPlan, ExecutePlanPreflightFailed,
     ExecutePlan, ChangeTask, PrepareExternalExecution, PreparePreflightFailed,
     MarkExternalExecutionTriggered, FailExternalExecution, TimeoutExternalExecution,
     EndExecution, DeadlinePasses, RecordExternalExecutionCallback

(***************************************************************************)
(* External executions do nothing to tasks and locks that the task queue    *)
(* does not allow, so the queue's guarantees hold with them.                *)
(***************************************************************************)
THEOREM ExecutionsKeepQueue ==
  ExecSpec => QueueSpec /\ [](QueueTypeOK /\ LocksFollowTask)
<1>1. ExecInit => QueueInit
  BY DEF ExecInit
<1>2. ExecSpec => QueueSpec
  BY <1>1, ExecNextIsQueueNext, PTL DEF ExecSpec, QueueSpec
<1> QED
  BY <1>2, QueueTypeCorrect, LockRowsFollowTasks, PTL

(* The task of an execution that owns its component lock is running.        *)
LEMMA OwnerRuns ==
  ASSUME QueueTypeOK, LocksFollowTask, NEW e \in Execution, OwnsComponentLock(e)
  PROVE  status[TaskOf(e)] = "RUNNING"
<1> DEFINE r == ComponentLock(ComponentOf(e)[1], ComponentOf(e)[2])
<1>1. r \in Resource /\ TaskOf(e) \in HeldBy(r)
  BY ExecutionFacts, ComponentLockIsResource DEF OwnsComponentLock, HeldBy
<1> QED
  BY <1>1, HoldersRun

-----------------------------------------------------------------------------
(* The shape of the tables, and the history of an execution.                *)

(***************************************************************************)
(* An execution that was not prepared has no events, and one that is not    *)
(* beyond QUEUED was not dispatched.                                        *)
(***************************************************************************)
RowsFollowStatus ==
    \A e \in Execution :
        /\ dispatches[e] \in {0, 1}
        /\ execution[e] \in {"NONE", "QUEUED"} => dispatches[e] = 0
        /\ execution[e] = "NONE" => callbacks[e] = <<>>

HistoryInv ==
    ExecTypeOK /\ TerminalSlotReserved /\ HistoryExplainsStatus /\ RowsFollowStatus

LEMMA HistoryInit == ExecInit => HistoryInv
<1> SUFFICES ASSUME ExecInit PROVE HistoryInv
  OBVIOUS
<1>1. ExecTypeOK
  BY WebhookAssumption DEF ExecInit, ExecTypeOK
<1>2. TerminalSlotReserved /\ HistoryExplainsStatus /\ RowsFollowStatus
  BY WebhookAssumption
     DEF ExecInit, TerminalSlotReserved, HistoryExplainsStatus, RowsFollowStatus, Open, Ended
<1> QED
  BY <1>1, <1>2 DEF HistoryInv

(* Appending an event that the sequence check accepts.                      *)
LEMMA AppendKeepsHistory ==
  ASSUME HistoryInv, NEW e \in Execution, NEW s \in CallbackStatus \cup {"TIMED_OUT"},
         execution[e] \in Open, AppendEvent(e, s), dispatches' = dispatches
  PROVE  /\ execution' \in [Execution -> Open \cup Ended \cup {"NONE"}]
         /\ callbacks' \in [Execution -> Seq(CallbackStatus \cup {"TIMED_OUT"})]
         /\ \A x \in Execution : Len(callbacks'[x]) <= MaxEventCount
         /\ TerminalSlotReserved'
         /\ HistoryExplainsStatus'
         /\ RowsFollowStatus'
<1> DEFINE E == CallbackStatus \cup {"TIMED_OUT"}
           old == callbacks[e]
           new == Append(old, s)
<1>1. old \in Seq(E) /\ Len(old) \in Nat /\ MaxEventCount \in Nat
  BY WebhookAssumption DEF HistoryInv, ExecTypeOK
<1>2. new \in Seq(E) /\ Len(new) = Len(old) + 1 /\ new[Len(new)] = s
  BY <1>1, AppendProperties
<1>3. DOMAIN new = 1..Len(new) /\ \A i \in 1..Len(old) : new[i] = old[i]
  BY <1>1, <1>2, AppendProperties
<1>4. callbacks' = [callbacks EXCEPT ![e] = new] /\ execution' = [execution EXCEPT ![e] = s]
  BY DEF AppendEvent
<1>5. Len(new) <= MaxEventCount /\ (Len(new) = MaxEventCount => s \in Ended)
  BY <1>1, <1>2 DEF AppendEvent, ValidateCallbackSequence
<1>6. \A x \in Execution \ {e} : callbacks'[x] = callbacks[x] /\ execution'[x] = execution[x]
  BY <1>4 DEF HistoryInv, ExecTypeOK
<1>7. callbacks'[e] = new /\ execution'[e] = s
  BY <1>4 DEF HistoryInv, ExecTypeOK
<1>8. \A i \in 1..Len(old) : old[i] \notin Ended
  BY <1>1 DEF HistoryInv, HistoryExplainsStatus, Open, Ended
<1>9. execution' \in [Execution -> Open \cup Ended \cup {"NONE"}]
  BY <1>4 DEF HistoryInv, ExecTypeOK, CallbackStatus, Open, Ended
<1>10. callbacks' \in [Execution -> Seq(E)]
  BY <1>2, <1>4 DEF HistoryInv, ExecTypeOK
<1>11. \A x \in Execution : Len(callbacks'[x]) <= MaxEventCount
  BY <1>5, <1>6, <1>7 DEF HistoryInv, ExecTypeOK
<1>12. TerminalSlotReserved'
  <2>1. s \in Open => Len(new) < MaxEventCount
    BY <1>1, <1>2, <1>5 DEF Open, Ended
  <2> QED
    BY <1>6, <1>7, <2>1 DEF HistoryInv, TerminalSlotReserved
<1>13. HistoryExplainsStatus'
  <2>1. /\ execution'[e] \in Ended =>
              callbacks'[e] # <<>> /\ callbacks'[e][Len(callbacks'[e])] = execution'[e]
        /\ \A i \in DOMAIN callbacks'[e] :
              callbacks'[e][i] \in Ended => i = Len(callbacks'[e]) /\ execution'[e] = callbacks'[e][i]
    <3>1. new # <<>>
      BY <1>1, <1>2
    <3>2. \A i \in DOMAIN new : i # Len(new) => i \in 1..Len(old)
      BY <1>1, <1>2, <1>3
    <3> QED
      BY <1>2, <1>3, <1>7, <1>8, <3>1, <3>2
  <2>2. \A x \in Execution \ {e} :
           /\ execution'[x] \in Ended =>
                 callbacks'[x] # <<>> /\ callbacks'[x][Len(callbacks'[x])] = execution'[x]
           /\ \A i \in DOMAIN callbacks'[x] :
                 callbacks'[x][i] \in Ended => i = Len(callbacks'[x]) /\ execution'[x] = callbacks'[x][i]
    BY <1>6 DEF HistoryInv, HistoryExplainsStatus
  <2> QED
    BY <2>1, <2>2 DEF HistoryExplainsStatus
<1>14. RowsFollowStatus'
  BY <1>6, <1>7 DEF HistoryInv, RowsFollowStatus, CallbackStatus
<1> QED
  BY <1>9, <1>10, <1>11, <1>12, <1>13, <1>14

LEMMA HistoryNext == HistoryInv /\ [ExecNext]_execAllVars => HistoryInv'
<1> SUFFICES ASSUME HistoryInv, [ExecNext]_execAllVars PROVE HistoryInv'
  OBVIOUS
<1> USE DEF HistoryInv
<1>1. ASSUME UNCHANGED <<execution, dispatches, callbacks>>
      PROVE  TerminalSlotReserved' /\ HistoryExplainsStatus' /\ RowsFollowStatus'
  BY <1>1 DEF TerminalSlotReserved, HistoryExplainsStatus, RowsFollowStatus
<1>2. ASSUME NEW p \in Plan, CreateDeploymentPlan(p) PROVE HistoryInv'
  BY <1>1, <1>2 DEF CreateDeploymentPlan, ExecTypeOK
<1>3. ASSUME UNCHANGED execVars PROVE HistoryInv'
  BY <1>1, <1>3 DEF execVars, ExecTypeOK
<1>4. ASSUME NEW e \in Execution, PrepareExternalExecution(e) PROVE HistoryInv'
  <2>1. execution[e] = "NONE" /\ execution' = [execution EXCEPT ![e] = "QUEUED"]
    BY <1>4 DEF PrepareExternalExecution, MayPrepare
  <2>2. callbacks' = callbacks /\ dispatches' = dispatches
    BY <1>4 DEF PrepareExternalExecution
  <2>3. ExecTypeOK'
    BY <1>4 DEF PrepareExternalExecution, ExecTypeOK, Open, TaskOf, Execution
  <2>4. HistoryExplainsStatus' /\ RowsFollowStatus'
    BY <2>1, <2>2 DEF ExecTypeOK, HistoryExplainsStatus, RowsFollowStatus, Ended
  <2>5. TerminalSlotReserved'
    <3>1. Len(callbacks'[e]) < MaxEventCount
      BY <2>1, <2>2, WebhookAssumption DEF RowsFollowStatus
    <3> QED
      BY <2>1, <2>2, <3>1 DEF ExecTypeOK, TerminalSlotReserved
  <2> QED
    BY <2>3, <2>4, <2>5
<1>5. ASSUME NEW e \in Execution, PreparePreflightFailed(e) PROVE HistoryInv'
  BY <1>1, <1>5 DEF PreparePreflightFailed, ExecTypeOK, TaskOf, Execution
<1>6. ASSUME NEW e \in Execution, MarkExternalExecutionTriggered(e) PROVE HistoryInv'
  <2>1. execution[e] = "QUEUED" /\ execution' = [execution EXCEPT ![e] = "RUNNING"]
          /\ dispatches' = [dispatches EXCEPT ![e] = @ + 1] /\ callbacks' = callbacks
    BY <1>6 DEF MarkExternalExecutionTriggered
  <2>2. ExecTypeOK'
    BY <1>6 DEF MarkExternalExecutionTriggered, ExecTypeOK, Open
  <2>3. TerminalSlotReserved' /\ HistoryExplainsStatus'
    BY <2>1 DEF ExecTypeOK, HistoryExplainsStatus, TerminalSlotReserved, Open, Ended
  <2>4. RowsFollowStatus'
    BY <2>1 DEF ExecTypeOK, RowsFollowStatus
  <2> QED
    BY <2>2, <2>3, <2>4
<1>7. ASSUME NEW e \in Execution, NEW s \in {"FAILED", "TIMED_OUT"}, EndExecution(e, s)
      PROVE  HistoryInv'
  BY <1>7, AppendKeepsHistory DEF EndExecution, ExecTypeOK, CallbackStatus
<1>8. ASSUME NEW e \in Execution, DeadlinePasses(e) PROVE HistoryInv'
  <2>1. overdue' \in [Execution -> BOOLEAN]
    BY <1>8, Zenon DEF DeadlinePasses, ExecTypeOK
  <2> QED
    BY <1>1, <1>8, <2>1 DEF DeadlinePasses, ExecTypeOK
<1>9. ASSUME NEW e \in Execution, NEW n, NEW s \in CallbackStatus, NEW observed,
             RecordExternalExecutionCallback(e, n, s, observed)
      PROVE  HistoryInv'
  <2>1. execution[e] \in Open /\ AppendEvent(e, s) /\ dispatches' = dispatches
    BY <1>9 DEF RecordExternalExecutionCallback, CanCallbackTransition
  <2>2. stateVersion' \in [TargetComponent -> Nat] /\ observations' \in [TargetComponent -> Seq(Execution)]
    <3>1. CASE s = "SUCCEEDED"
      <4>1. upsertExternalExecutionObservedState(e)
        BY <1>9, <3>1 DEF RecordExternalExecutionCallback
      <4> DEFINE v == expected[TaskOf(e)[1]][ComponentOf(e)] + 1
      <4>2. v \in Nat /\ stateVersion' = [stateVersion EXCEPT ![ComponentOf(e)] = v]
        BY <4>1, ExecutionFacts DEF upsertExternalExecutionObservedState, ExecTypeOK
      <4> HIDE DEF v
      <4>3. stateVersion' \in [TargetComponent -> Nat]
        BY <4>2 DEF ExecTypeOK
      <4>4. Append(observations[ComponentOf(e)], e) \in Seq(Execution)
        BY ExecutionFacts, AppendProperties DEF ExecTypeOK
      <4>5. observations' \in [TargetComponent -> Seq(Execution)]
        BY <4>1, <4>4 DEF upsertExternalExecutionObservedState, ExecTypeOK
      <4> QED
        BY <4>3, <4>5
    <3>2. CASE s # "SUCCEEDED"
      BY <1>9, <3>2 DEF RecordExternalExecutionCallback, ExecTypeOK
    <3> QED
      BY <3>1, <3>2
  <2>3. UNCHANGED <<planned, expected, overdue, taskPreflight>>
    BY <1>9 DEF RecordExternalExecutionCallback
  <2> QED
    BY <2>1, <2>2, <2>3, AppendKeepsHistory DEF ExecTypeOK
<1> QED
  BY <1>2, <1>3, <1>4, <1>5, <1>6, <1>7, <1>8, <1>9
     DEF ExecNext, execAllVars, ExecutePlanPreflightFailed, ExecutePlan, ChangeTask,
         FailExternalExecution, TimeoutExternalExecution

(***************************************************************************)
(* An execution's event history always has room for the event that ends it, *)
(* nothing follows that event, and it explains the execution's status.      *)
(***************************************************************************)
THEOREM HistoryIsSound ==
  ExecSpec => [](ExecTypeOK /\ TerminalSlotReserved /\ HistoryExplainsStatus)
  BY HistoryInit, HistoryNext, PTL DEF ExecSpec, HistoryInv

(***************************************************************************)
(* An execution is claimed for dispatch at most once, for any number of     *)
(* workers and any order of callbacks and deadlines.                        *)
(***************************************************************************)
THEOREM DispatchedAtMostOnce == ExecSpec => []AtMostOneDispatch
<1>1. HistoryInv => AtMostOneDispatch
  BY DEF HistoryInv, RowsFollowStatus, AtMostOneDispatch
<1> QED
  BY <1>1, HistoryInit, HistoryNext, PTL DEF ExecSpec

-----------------------------------------------------------------------------
(* The projection of successes to component state.                          *)

(***************************************************************************)
(* What a plan has frozen does not change under its tasks and executions:   *)
(* neither exists before the plan does.                                     *)
(***************************************************************************)
PlannedFirst ==
    /\ \A t \in Task : status[t] # "NONE" => t[1] \in planned
    /\ \A e \in Execution : execution[e] # "NONE" => TaskOf(e)[1] \in planned

ProjectionInv == PlannedFirst /\ EverySuccessProjectedOnce

LEMMA ProjectionInit == ExecInit => ProjectionInv
<1> SUFFICES ASSUME ExecInit PROVE ProjectionInv
  OBVIOUS
<1>1. PlannedFirst
  BY DEF ExecInit, QueueInit, PlannedFirst
<1>2. EverySuccessProjectedOnce
  BY DEF ExecInit, EverySuccessProjectedOnce
<1> QED
  BY <1>1, <1>2 DEF ProjectionInv

(* A change of one execution to and from something else than success.       *)
LEMMA OtherStatusKeepsProjection ==
  ASSUME ExecTypeOK, ProjectionInv, NEW e \in Execution, NEW s, s # "SUCCEEDED",
         execution[e] # "SUCCEEDED", execution' = [execution EXCEPT ![e] = s],
         UNCHANGED <<expected, stateVersion, observations>>
  PROVE  EverySuccessProjectedOnce'
<1>1. \A x : x \in Execution /\ execution[x] = "SUCCEEDED" => execution'[x] = "SUCCEEDED"
  BY DEF ExecTypeOK
<1>2. \A x \in Execution : execution'[x] = "SUCCEEDED" => execution[x] = "SUCCEEDED"
  BY DEF ExecTypeOK
<1>3. \A tc \in TargetComponent : \A i \in DOMAIN observations[tc] : observations[tc][i] \in Execution
  BY DEF ExecTypeOK
<1> QED
  BY <1>1, <1>2, <1>3 DEF ProjectionInv, EverySuccessProjectedOnce

(* Tasks are created only for existing plans, and only created tasks run.   *)
LEMMA QueueKeepsPlannedFirst ==
  ASSUME QueueTypeOK, PlannedFirst, [ExecNext]_execAllVars, UNCHANGED execVars
  PROVE  PlannedFirst'
<1>1. UNCHANGED <<planned, execution>>
  BY DEF execVars
<1> SUFFICES ASSUME NEW t \in Task, status'[t] # "NONE" PROVE t[1] \in planned
  BY <1>1 DEF PlannedFirst
<1>2. ASSUME NEW p \in Plan, NEW request \in Request, ExecutePlan(p, request)
      PROVE  t[1] \in planned
  <2> DEFINE req == normalizeTaskLockResourceRequests(request)
  <2>1. p \in planned /\ CreateTasks(p, req)
    BY <1>2 DEF ExecutePlan, CreateTasksForDeploymentPlan
  <2> HIDE DEF req
  <2>2. CASE t \in NewTasks(p)
    BY <2>1, <2>2 DEF NewTasks
  <2>3. CASE t \notin NewTasks(p)
    <3>1. status[t] # "NONE"
      BY <2>1, <2>3, CanceledWereQueued DEF CreateTasks, QueueTypeOK
    <3> QED
      BY <3>1 DEF PlannedFirst
  <2> QED
    BY <2>2, <2>3
<1>3. ASSUME status' = status PROVE t[1] \in planned
  BY <1>3 DEF PlannedFirst
<1>4. ASSUME NEW u \in Task, NEW s \in TaskStatus, ChangeTask(u, s)
      PROVE  t[1] \in planned
  <2>1. status[t] # "NONE"
    BY <1>4 DEF ChangeTask, TransitionTaskState, StartTask, FinishTask, QueueTypeOK
  <2> QED
    BY <2>1 DEF PlannedFirst
<1> QED
  BY <1>2, <1>3, <1>4
     DEF ExecNext, execAllVars, queueVars, CreateDeploymentPlan, ExecutePlanPreflightFailed,
         CreateTasksPreflightFailed, PrepareExternalExecution, PreparePreflightFailed,
         MarkExternalExecutionTriggered, FailExternalExecution, TimeoutExternalExecution,
         EndExecution, DeadlinePasses, RecordExternalExecutionCallback

(* A success: the version it finds is the one its plan has frozen.          *)
LEMMA SuccessKeepsProjection ==
  ASSUME ExecTypeOK, ProjectionInv, NEW e \in Execution, execution[e] \in Open,
         upsertExternalExecutionObservedState(e), UNCHANGED expected,
         execution' = [execution EXCEPT ![e] = "SUCCEEDED"]
  PROVE  EverySuccessProjectedOnce'
<1> DEFINE tc == ComponentOf(e)
           old == observations[tc]
           new == Append(old, e)
           v == stateVersion[tc]
<1>1. tc \in TargetComponent /\ old \in Seq(Execution) /\ v \in Nat /\ Len(old) = v
  BY ExecutionFacts DEF ExecTypeOK, ProjectionInv, EverySuccessProjectedOnce
<1>2. expected[TaskOf(e)[1]][tc] = v
  BY DEF upsertExternalExecutionObservedState
<1>3. observations' = [observations EXCEPT ![tc] = new]
        /\ stateVersion' = [stateVersion EXCEPT ![tc] = v + 1]
  BY <1>2 DEF upsertExternalExecutionObservedState
<1>4. new \in Seq(Execution) /\ Len(new) = v + 1 /\ DOMAIN new = 1..(v + 1)
        /\ new[v + 1] = e /\ (\A i \in 1..v : new[i] = old[i]) /\ DOMAIN old = 1..v
  BY <1>1, AppendProperties
<1>5. observations'[tc] = new /\ stateVersion'[tc] = v + 1
  BY <1>1, <1>3 DEF ExecTypeOK
<1>6. \A x \in TargetComponent \ {tc} : observations'[x] = observations[x] /\ stateVersion'[x] = stateVersion[x]
  BY <1>3 DEF ExecTypeOK
<1>7. execution'[e] = "SUCCEEDED"
        /\ \A x \in Execution \ {e} : execution'[x] = execution[x]
  BY DEF ExecTypeOK
<1>8. \A x \in TargetComponent : \A i \in DOMAIN observations[x] :
         /\ observations[x][i] \in Execution
         /\ ComponentOf(observations[x][i]) = x
         /\ execution[observations[x][i]] = "SUCCEEDED"
         /\ expected[TaskOf(observations[x][i])[1]][x] = i - 1
  BY DEF ExecTypeOK, ProjectionInv, EverySuccessProjectedOnce
<1>9. \A x \in Execution : execution[x] = "SUCCEEDED" => execution'[x] = "SUCCEEDED"
  BY <1>7
<1>10. ASSUME NEW x \in TargetComponent
       PROVE  /\ Len(observations'[x]) = stateVersion'[x]
              /\ \A i \in DOMAIN observations'[x] :
                    /\ ComponentOf(observations'[x][i]) = x
                    /\ execution'[observations'[x][i]] = "SUCCEEDED"
                    /\ expected'[TaskOf(observations'[x][i])[1]][x] = i - 1
  <2>1. CASE x = tc
    <3>1. ASSUME NEW i \in 1..v
          PROVE  /\ ComponentOf(new[i]) = tc
                 /\ execution'[new[i]] = "SUCCEEDED"
                 /\ expected'[TaskOf(new[i])[1]][tc] = i - 1
      BY <1>1, <1>4, <1>8, <1>9
    <3>2. ComponentOf(new[v + 1]) = tc /\ execution'[new[v + 1]] = "SUCCEEDED"
            /\ expected'[TaskOf(new[v + 1])[1]][tc] = (v + 1) - 1
      BY <1>1, <1>2, <1>4, <1>7
    <3>3. \A i \in DOMAIN new : i \in 1..v \/ i = v + 1
      BY <1>1, <1>4
    <3> QED
      BY <1>4, <1>5, <2>1, <3>1, <3>2, <3>3
  <2>2. CASE x # tc
    BY <1>6, <1>8, <1>9, <2>2 DEF ProjectionInv, EverySuccessProjectedOnce
  <2> QED
    BY <2>1, <2>2
<1>11. ASSUME NEW x \in Execution, execution'[x] = "SUCCEEDED"
       PROVE  \E i \in DOMAIN observations'[ComponentOf(x)] : observations'[ComponentOf(x)][i] = x
  <2>1. CASE x = e
    BY <1>1, <1>4, <1>5, <2>1
  <2>2. CASE x # e
    <3>1. PICK i \in DOMAIN observations[ComponentOf(x)] : observations[ComponentOf(x)][i] = x
      BY <1>7, <1>11, <2>2 DEF ProjectionInv, EverySuccessProjectedOnce
    <3>2. CASE ComponentOf(x) = tc
      <4>1. i \in 1..v /\ i \in DOMAIN new /\ new[i] = x
        BY <1>1, <1>4, <3>1, <3>2
      <4> QED
        BY <1>5, <3>2, <4>1
    <3>3. CASE ComponentOf(x) # tc
      BY <1>6, <3>1, <3>3, ExecutionFacts
    <3> QED
      BY <3>2, <3>3
  <2> QED
    BY <2>1, <2>2
<1> QED
  BY <1>10, <1>11 DEF EverySuccessProjectedOnce

LEMMA ProjectionNext ==
  QueueTypeOK /\ HistoryInv /\ ProjectionInv /\ [ExecNext]_execAllVars => ProjectionInv'
<1> SUFFICES ASSUME QueueTypeOK, HistoryInv, ProjectionInv, [ExecNext]_execAllVars
             PROVE  ProjectionInv'
  OBVIOUS
<1>0. ExecTypeOK /\ PlannedFirst /\ EverySuccessProjectedOnce
  BY DEF HistoryInv, ProjectionInv
<1>1. ASSUME NEW p \in Plan, CreateDeploymentPlan(p) PROVE ProjectionInv'
  <2>1. \A q \in planned : expected'[q] = expected[q]
    BY <1>0, <1>1 DEF CreateDeploymentPlan, ExecTypeOK
  <2>2. UNCHANGED <<status, execution, stateVersion, observations>> /\ planned \subseteq planned'
    BY <1>1 DEF CreateDeploymentPlan, queueVars
  <2>3. \A tc \in TargetComponent : \A i \in DOMAIN observations[tc] :
           TaskOf(observations[tc][i])[1] \in planned
    BY <1>0 DEF ExecTypeOK, EverySuccessProjectedOnce, PlannedFirst
  <2>4. EverySuccessProjectedOnce'
    BY <1>0, <2>1, <2>2, <2>3 DEF EverySuccessProjectedOnce
  <2>5. PlannedFirst'
    BY <1>0, <2>2 DEF PlannedFirst
  <2> QED
    BY <2>4, <2>5 DEF ProjectionInv
<1>2. ASSUME UNCHANGED execVars PROVE ProjectionInv'
  <2>1. EverySuccessProjectedOnce'
    BY <1>0, <1>2 DEF execVars, EverySuccessProjectedOnce
  <2> QED
    BY <1>0, <1>2, <2>1, QueueKeepsPlannedFirst DEF ProjectionInv
<1>3. ASSUME NEW e \in Execution, NEW s, execution' = [execution EXCEPT ![e] = s],
             UNCHANGED <<status, planned>>, TaskOf(e)[1] \in planned
      PROVE  PlannedFirst'
  BY <1>0, <1>3 DEF PlannedFirst, ExecTypeOK
<1>4. ASSUME NEW e \in Execution, PrepareExternalExecution(e) PROVE ProjectionInv'
  <2>1. execution[e] = "NONE" /\ execution' = [execution EXCEPT ![e] = "QUEUED"]
          /\ UNCHANGED <<status, planned, expected, stateVersion, observations>>
    BY <1>4 DEF PrepareExternalExecution, MayPrepare, queueVars
  <2>2. TaskOf(e)[1] \in planned
    BY <1>0, <1>4, ExecutionFacts DEF PrepareExternalExecution, MayPrepare, PlannedFirst
  <2> QED
    BY <1>0, <1>3, <2>1, <2>2, OtherStatusKeepsProjection DEF ProjectionInv
<1>5. ASSUME NEW e \in Execution, MarkExternalExecutionTriggered(e) PROVE ProjectionInv'
  <2>1. execution[e] = "QUEUED" /\ execution' = [execution EXCEPT ![e] = "RUNNING"]
          /\ UNCHANGED <<status, planned, expected, stateVersion, observations>>
    BY <1>5 DEF MarkExternalExecutionTriggered, queueVars
  <2>2. TaskOf(e)[1] \in planned
    BY <1>0, <2>1 DEF PlannedFirst
  <2> QED
    BY <1>0, <1>3, <2>1, <2>2, OtherStatusKeepsProjection DEF ProjectionInv
<1>6. ASSUME NEW e \in Execution, NEW s, execution[e] \in Open, AppendEvent(e, s),
             UNCHANGED <<status, planned, expected>>,
             IF s = "SUCCEEDED" THEN upsertExternalExecutionObservedState(e)
                                ELSE UNCHANGED <<stateVersion, observations>>
      PROVE  ProjectionInv'
  <2>1. execution' = [execution EXCEPT ![e] = s] /\ execution[e] \notin {"NONE", "SUCCEEDED"}
    BY <1>6 DEF AppendEvent, Open
  <2>2. PlannedFirst'
    BY <1>0, <1>3, <1>6, <2>1 DEF PlannedFirst
  <2>3. EverySuccessProjectedOnce'
    BY <1>0, <1>6, <2>1, OtherStatusKeepsProjection, SuccessKeepsProjection
  <2> QED
    BY <2>2, <2>3 DEF ProjectionInv
<1>7. ASSUME NEW e \in Execution, NEW s \in {"FAILED", "TIMED_OUT"}, EndExecution(e, s)
      PROVE  ProjectionInv'
  BY <1>6, <1>7 DEF EndExecution, queueVars
<1>8. ASSUME NEW e \in Execution, NEW n, NEW s \in CallbackStatus, NEW observed,
             RecordExternalExecutionCallback(e, n, s, observed)
      PROVE  ProjectionInv'
  BY <1>6, <1>8 DEF RecordExternalExecutionCallback, CanCallbackTransition, queueVars
<1>9. ASSUME NEW e \in Execution, PreparePreflightFailed(e) \/ DeadlinePasses(e)
      PROVE  ProjectionInv'
  <2>1. UNCHANGED <<status, planned, execution, expected, stateVersion, observations>>
    BY <1>9 DEF PreparePreflightFailed, DeadlinePasses, queueVars
  <2> QED
    BY <1>0, <2>1 DEF ProjectionInv, PlannedFirst, EverySuccessProjectedOnce
<1> QED
  BY <1>1, <1>2, <1>4, <1>5, <1>7, <1>8, <1>9
     DEF ExecNext, execAllVars, ExecutePlanPreflightFailed, ExecutePlan, ChangeTask,
         FailExternalExecution, TimeoutExternalExecution

ExecInv == QueueTypeOK /\ LocksFollowTask /\ HistoryInv /\ ProjectionInv

LEMMA ExecInvariant == ExecSpec => []ExecInv
  BY ExecutionsKeepQueue, HistoryInit, HistoryNext, ProjectionInit, ProjectionNext, PTL
     DEF ExecSpec, ExecInv

(***************************************************************************)
(* No update of a component's state is lost: each version was written by    *)
(* one successful execution planned against the version before it, for any  *)
(* number of plans that race on the component, whatever their lock policy.  *)
(***************************************************************************)
THEOREM NoSuccessLost == ExecSpec => []EverySuccessProjectedOnce
  BY ExecInvariant, PTL DEF ExecInv, ProjectionInv

(* Where a success may come from, and what it rules out.                    *)
LEMMA ProjectionSteps ==
  ExecSpec => ProjectsOnlyWhileTaskRuns /\ NoPrepareAfterSuccess
<1>1. ASSUME ExecInv, [ExecNext]_execAllVars, NEW e \in Execution,
             execution'[e] = "SUCCEEDED", execution[e] # "SUCCEEDED"
      PROVE  status[TaskOf(e)] = "RUNNING"
  <2>0. execution \in [Execution -> Open \cup Ended \cup {"NONE"}] /\ QueueTypeOK /\ LocksFollowTask
    BY <1>1 DEF ExecInv, HistoryInv, ExecTypeOK
  <2>1. ASSUME NEW f \in Execution, NEW n, NEW s, NEW observed,
               RecordExternalExecutionCallback(f, n, s, observed)
        PROVE  OwnsComponentLock(e)
    BY <1>1, <2>0, <2>1
       DEF RecordExternalExecutionCallback, AppendEvent, upsertExternalExecutionObservedState
  <2>2. OwnsComponentLock(e)
    BY <1>1, <2>0, <2>1
       DEF ExecNext, execAllVars, execVars, CreateDeploymentPlan, ExecutePlanPreflightFailed,
           ExecutePlan, ChangeTask, PrepareExternalExecution, PreparePreflightFailed,
           MarkExternalExecutionTriggered, FailExternalExecution, TimeoutExternalExecution,
           EndExecution, AppendEvent, DeadlinePasses
  <2> QED
    BY <2>0, <2>2, OwnerRuns
<1>2. ASSUME ExecInv, [ExecNext]_execAllVars, NEW e \in Execution, NEW f \in Execution,
             execution[e] = "NONE", execution'[e] # "NONE", TaskOf(f) = TaskOf(e),
             execution[f] = "SUCCEEDED"
      PROVE  FALSE
  <2>0. ExecTypeOK /\ EverySuccessProjectedOnce
    BY <1>2 DEF ExecInv, HistoryInv, ProjectionInv
  <2>1. PrepareExternalExecution(e)
    BY <1>2, <2>0
       DEF ExecNext, execAllVars, execVars, CreateDeploymentPlan, ExecutePlanPreflightFailed,
           ExecutePlan, ChangeTask, PrepareExternalExecution, PreparePreflightFailed,
           MarkExternalExecutionTriggered, FailExternalExecution, TimeoutExternalExecution,
           EndExecution, AppendEvent, DeadlinePasses, RecordExternalExecutionCallback,
           CanCallbackTransition, Open, ExecTypeOK
  <2> DEFINE tc == ComponentOf(f)
  <2>2. tc \in TargetComponent /\ tc \in PlanComponents[TaskOf(e)[1]] /\ tc[1] \in {TaskOf(e)[2]}
    BY <1>2, ExecutionFacts
  <2>3. stateVersion[tc] = expected[TaskOf(e)[1]][tc]
    BY <2>1, <2>2 DEF PrepareExternalExecution, StateMatches
  <2>4. PICK i \in DOMAIN observations[tc] : observations[tc][i] = f
    BY <1>2, <2>0 DEF EverySuccessProjectedOnce
  <2>5. observations[tc] \in Seq(Execution) /\ Len(observations[tc]) = stateVersion[tc]
          /\ stateVersion[tc] \in Nat
    BY <2>0, <2>2 DEF ExecTypeOK, EverySuccessProjectedOnce
  <2>6. i \in 1..stateVersion[tc]
    BY <2>4, <2>5
  <2>7. expected[TaskOf(f)[1]][tc] = i - 1
    BY <2>0, <2>2, <2>4 DEF EverySuccessProjectedOnce
  <2> QED
    BY <1>2, <2>3, <2>5, <2>6, <2>7
<1>3. ExecInv /\ [ExecNext]_execAllVars =>
        /\ [\A e \in Execution :
               execution'[e] = "SUCCEEDED" /\ execution[e] # "SUCCEEDED"
                  => status[TaskOf(e)] = "RUNNING"]_execAllVars
        /\ [\A e, f \in Execution :
               execution[e] = "NONE" /\ execution'[e] # "NONE" /\ TaskOf(f) = TaskOf(e)
                  => execution[f] # "SUCCEEDED"]_execAllVars
  BY <1>1, <1>2
<1> QED
  BY <1>3, ExecInvariant, PTL DEF ExecSpec, ProjectsOnlyWhileTaskRuns, NoPrepareAfterSuccess

(***************************************************************************)
(* Only running tasks project component state: a callback that outlives its *)
(* task projects nothing.                                                   *)
(***************************************************************************)
THEOREM ProjectionFollowsTask == ExecSpec => ProjectsOnlyWhileTaskRuns
  BY ProjectionSteps, PTL

(***************************************************************************)
(* A task that has deployed a component prepares no further execution.      *)
(***************************************************************************)
THEOREM NothingPreparedOnOwnSuccess == ExecSpec => NoPrepareAfterSuccess
  BY ProjectionSteps, PTL

-----------------------------------------------------------------------------
(* The hub worker: the inductive invariant.                                 *)

(* A session there has, or is about to have, an execution of its own.       *)
ExternalPc == {"trigger", "reconcile", "announce", "await", "wait", "report", "deadline",
               "failext"}

(* A session there has claimed the dispatch and may send the request.       *)
ClaimPc == {"announce", "emit", "post"}

(***************************************************************************)
(* What a session s of task t knows, when the executions have the statuses  *)
(* ex: the execution of its step exists, a copy that says it has ended is   *)
(* right, and a webhook step about to succeed was deployed.                 *)
(***************************************************************************)
Sound(ex, t, s) ==
    /\ s.pc \in Busy => s.step \in Step
    /\ s.pc \in ExternalPc => <<t, s.step>> \in Execution
    /\ s.pc \in {"emit", "post", "succeed"} /\ s.step \in Webhook => <<t, s.step>> \in Execution
    /\ s.external # "NONE" => <<t, s.step>> \in Execution
    /\ s.external \in Ended => ex[<<t, s.step>>] = s.external
    /\ s.pc = "succeed" /\ s.step \in Webhook => ex[<<t, s.step>>] = "SUCCEEDED"

SessionsSound == \A t \in Task, a \in Attempt : Sound(execution, t, session[t][a])

(* The attempts that have sent the request of e, or still may.              *)
Claimants(e) ==
    senders[e] \cup {a \in Attempt : /\ session[e[1]][a].pc \in ClaimPc
                                     /\ session[e[1]][a].step = e[2]}

OneClaimant ==
    \A e \in Execution :
        /\ \A a, b \in Claimants(e) : a = b
        /\ Claimants(e) # {} => dispatches[e] = 1

SessionRows == WorkerTypeOK /\ SessionsSound /\ OneClaimant

HubInv == LeaseTypeOK /\ HistoryInv /\ SessionRows /\ SucceededStepWasDeployed

-----------------------------------------------------------------------------
(* Facts about the operators.                                               *)

LEMMA ExecutionIsPair ==
    ASSUME NEW e \in Execution
    PROVE  /\ e = <<e[1], e[2]>> /\ e[1] \in Task /\ e[2] \in Webhook /\ TaskOf(e) = e[1]
           /\ e[2] \in Step /\ Location[e[2]] = "hub"
<1>1. e \in Task \X Webhook
  BY DEF Execution
<1>. QED  BY <1>1, WorkerAssumption DEF TaskOf

(* Every step of a claim is an included step.                               *)
LEMMA BatchIsIncluded ==
    ASSUME NEW runs, NEW loc
    PROVE  readyTaskLeaseStepCandidates(runs, loc) \subseteq Step
<1>1. {s \in Included : runs[s] = "PENDING" /\ Location[s] = loc} \subseteq Step
  BY StepAssumption
<1>. QED  BY <1>1 DEF readyTaskLeaseStepCandidates, Batch

(* Records.                                                                 *)
LEMMA SessionFields ==
    ASSUME NEW s \in Session
    PROVE  /\ s.pc \in Busy \cup {"none", "done"} /\ s.step \in Step \cup {NoStep}
           /\ s.todo \subseteq Step /\ s.sequence \in Nat
           /\ s.external \in Open \cup Ended \cup {"NONE"} /\ s.seen \in Nat /\ s.tries \in Nat
  BY DEF Session

LEMMA SessionUpdate ==
    ASSUME NEW s \in Session, NEW p \in Busy \cup {"none", "done"}
    PROVE  /\ [s EXCEPT !.pc = p] \in Session
           /\ [s EXCEPT !.pc = p].pc = p
           /\ [s EXCEPT !.pc = p].step = s.step
           /\ [s EXCEPT !.pc = p].todo = s.todo
           /\ [s EXCEPT !.pc = p].sequence = s.sequence
           /\ [s EXCEPT !.pc = p].external = s.external
           /\ [s EXCEPT !.pc = p].seen = s.seen
           /\ [s EXCEPT !.pc = p].tries = s.tries
  BY DEF Session

LEMMA SessionAdvance ==
    ASSUME NEW s \in Session
    PROVE  /\ [s EXCEPT !.sequence = @ + 1] \in Session
           /\ [s EXCEPT !.sequence = @ + 1].pc = s.pc
           /\ [s EXCEPT !.sequence = @ + 1].step = s.step
           /\ [s EXCEPT !.sequence = @ + 1].external = s.external
           /\ [s EXCEPT !.tries = @ + 1] \in Session
           /\ [s EXCEPT !.tries = @ + 1].pc = s.pc
           /\ [s EXCEPT !.tries = @ + 1].step = s.step
           /\ [s EXCEPT !.tries = @ + 1].external = s.external
<1>1. s.sequence + 1 \in Nat /\ s.tries + 1 \in Nat
  BY DEF Session
<1>. QED  BY <1>1 DEF Session

LEMMA SessionCopy ==
    ASSUME NEW s \in Session, NEW x \in Open \cup Ended \cup {"NONE"}, NEW n \in Nat
    PROVE  /\ [s EXCEPT !.external = x, !.seen = n] \in Session
           /\ [s EXCEPT !.external = x, !.seen = n].pc = s.pc
           /\ [s EXCEPT !.external = x, !.seen = n].step = s.step
           /\ [s EXCEPT !.external = x, !.seen = n].external = x
           /\ [s EXCEPT !.external = x] \in Session
           /\ [s EXCEPT !.external = x].pc = s.pc
           /\ [s EXCEPT !.external = x].step = s.step
           /\ [s EXCEPT !.external = x].external = x
  BY DEF Session

LEMMA IdleAndBegin ==
    /\ \A p \in {"none", "done"} : Idle(p) \in Session /\ Idle(p).pc = p /\ Idle(p).external = "NONE"
    /\ \A S \in SUBSET Step, s \in Step :
          /\ BeginStep(S, s) \in Session
          /\ BeginStep(S, s).pc = "start" /\ BeginStep(S, s).step = s
          /\ BeginStep(S, s).external = "NONE"
  BY DEF Idle, BeginStep, Session, Busy

-----------------------------------------------------------------------------
(* Every step of the system is one the database allows.                     *)

(* A lease call, an operator or an agent, seen from the executions.         *)
LEMMA LeaseCallIsTaskChange ==
    ASSUME NEW t \in Task, UNCHANGED execVars,
           \/ StartTask(t)
           \/ \E s : FinishTask(t, s)
           \/ UNCHANGED queueVars
    PROVE  [ExecNext]_execAllVars
<1>1. CASE StartTask(t)
  BY <1>1 DEF ExecNext, ChangeTask, TransitionTaskState, TaskStatus
<1>2. ASSUME NEW s, FinishTask(t, s) PROVE ExecNext
  <2>1. s \in TaskStatus
    BY <1>2 DEF FinishTask, TaskStatus
  <2>. QED  BY <1>2, <2>1 DEF ExecNext, ChangeTask, TransitionTaskState
<1>3. CASE UNCHANGED queueVars
  BY <1>3 DEF execAllVars
<1>. QED  BY <1>1, <1>2, <1>3

LEMMA RecordIsTaskChange ==
    ASSUME NEW t \in Task, NEW s, NEW a, NEW n, NEW ty, RecordStepRunEvent(t, s, a, n, ty)
    PROVE  (\E x : FinishTask(t, x)) \/ UNCHANGED queueVars
  BY DEF RecordStepRunEvent

LEMMA LeaseTaskIsTaskChange ==
    ASSUME NEW t \in Task, NEW e, LeaseTask(t, e)
    PROVE  StartTask(t) \/ UNCHANGED queueVars
  BY DEF LeaseTask, ClaimQueuedTask, ReclaimRunningTask, ReleaseExpiredLease

(* A call of a session is an event of its step, or none.                    *)
LEMMA RecordAllowed ==
    ASSUME NEW t \in Task, NEW a \in Attempt, NEW n, NEW ty \in EventType, NEW ok, NEW err,
           StepOf(t, a) \in Step, Record(t, a, n, ty, ok, err)
    PROVE  [Next]_vars /\ [ExecNext]_execAllVars
<1>1. ASSUME Recorded(t, a, n, ty) PROVE [Next]_vars /\ [ExecNext]_execAllVars
  <2>1. RecordStepRunEvent(t, StepOf(t, a), a, n, ty) /\ n \in 1..MaxEvents /\ UNCHANGED execVars
    BY <1>1 DEF Recorded
  <2>2. Next
    BY <2>1 DEF Next
  <2>. QED  BY <2>1, <2>2, RecordIsTaskChange, LeaseCallIsTaskChange
<1>2. ASSUME NoCall PROVE [Next]_vars /\ [ExecNext]_execAllVars
  BY <1>2 DEF NoCall, vars, execAllVars
<1>. QED  BY <1>1, <1>2 DEF Record, RecordFails

(* A call on an execution is one of ExternalExecution's actions.            *)
LEMMA ExecCallAllowed ==
    ASSUME NEW e \in Execution, UNCHANGED leaseVars,
           \/ PrepareExternalExecution(e) \/ PreparePreflightFailed(e)
           \/ MarkExternalExecutionTriggered(e) \/ FailExternalExecution(e)
           \/ TimeoutExternalExecution(e) \/ DeadlinePasses(e)
           \/ \E n \in 1..MaxEventCount, s \in CallbackStatus,
                 observed \in {"none", "exact", "other"} :
                 RecordExternalExecutionCallback(e, n, s, observed)
    PROVE  [Next]_vars /\ [ExecNext]_execAllVars
<1>1. UNCHANGED queueVars
  BY DEF PrepareExternalExecution, PreparePreflightFailed, MarkExternalExecutionTriggered,
     FailExternalExecution, TimeoutExternalExecution, EndExecution, DeadlinePasses,
     RecordExternalExecutionCallback
<1>2. ExecNext
  BY DEF ExecNext
<1>. QED  BY <1>1, <1>2 DEF vars

LEMMA NoCallAllowed == NoCall => [Next]_vars /\ [ExecNext]_execAllVars
  BY DEF NoCall, vars, execAllVars

LEMMA SessionStepAllowed ==
    ASSUME HubInv, NEW t \in Task, NEW a \in Attempt, SessionStep(t, a)
    PROVE  [Next]_vars /\ [ExecNext]_execAllVars
<1>. DEFINE Allowed == [Next]_vars /\ [ExecNext]_execAllVars
            e == ExecutionOf(t, a)
<1>1. /\ session[t][a].pc \in Busy => StepOf(t, a) \in Step
      /\ session[t][a].pc \in ExternalPc => e \in Execution
  BY DEF HubInv, SessionRows, SessionsSound, Sound, StepOf, ExecutionOf
<1>2. ASSUME session[t][a].pc \in Busy, NEW n, NEW ty \in EventType, NEW ok, NEW err,
             Record(t, a, n, ty, ok, err)
      PROVE  Allowed
  BY <1>1, <1>2, RecordAllowed
<1>3. CASE Start(t, a)
  BY <1>2, <1>3 DEF Start, At, Busy, EventType
<1>4. CASE Prepare(t, a)
  BY <1>4, ExecCallAllowed, NoCallAllowed DEF Prepare
<1>5. CASE Trigger(t, a)
  BY <1>1, <1>5, ExecCallAllowed, NoCallAllowed DEF Trigger, At, ExternalPc
<1>6. CASE Reconcile(t, a)
  BY <1>6, NoCallAllowed DEF Reconcile
<1>7. CASE Announce(t, a)
  BY <1>2, <1>7 DEF Announce, At, Busy, EventType
<1>8. CASE Emit(t, a)
  BY <1>2, <1>8 DEF Emit, At, Busy, EventType
<1>9. CASE Post(t, a)
  BY <1>9, NoCallAllowed DEF Post
<1>10. CASE Await(t, a)
  BY <1>2, <1>10, NoCallAllowed DEF Await, At, Busy, EventType
<1>11. CASE Wait(t, a)
  BY <1>11, NoCallAllowed DEF Wait
<1>12. CASE Report(t, a)
  BY <1>2, <1>12 DEF Report, At, Busy, EventType
<1>13. CASE Deadline(t, a)
  BY <1>1, <1>13, ExecCallAllowed, NoCallAllowed DEF Deadline, At, ExternalPc
<1>14. CASE FailExecution(t, a)
  BY <1>1, <1>14, ExecCallAllowed, NoCallAllowed DEF FailExecution, At, ExternalPc
<1>15. CASE Fail(t, a)
  BY <1>2, <1>15 DEF Fail, At, Busy, EventType
<1>16. CASE Succeed(t, a)
  BY <1>2, <1>16 DEF Succeed, At, Busy, EventType
<1>. QED
  BY <1>3, <1>4, <1>5, <1>6, <1>7, <1>8, <1>9, <1>10, <1>11, <1>12, <1>13, <1>14, <1>15, <1>16
     DEF SessionStep

LEMMA HubNextAllowed == HubInv /\ [HubNext]_hubVars => [Next]_vars /\ [ExecNext]_execAllVars
<1>. SUFFICES ASSUME HubInv, [HubNext]_hubVars PROVE [Next]_vars /\ [ExecNext]_execAllVars
  OBVIOUS
<1>. DEFINE Allowed == [Next]_vars /\ [ExecNext]_execAllVars
<1>1. ASSUME NEW t \in Task, NEW a \in Attempt, HubLease(t, a) PROVE Allowed
  <2>1. LeaseTask(t, "hub") /\ UNCHANGED execVars
    BY <1>1 DEF HubLease, LeaseTask
  <2>2. Next
    BY <2>1 DEF Next, Executor
  <2>. QED  BY <2>1, <2>2, LeaseTaskIsTaskChange, LeaseCallIsTaskChange
<1>2. ASSUME NEW t \in Task, NEW a \in Attempt, HeartbeatFails(t, a) \/ HubStops(t, a)
      PROVE  Allowed
  BY <1>2, NoCallAllowed DEF HeartbeatFails, HubStops
<1>3. ASSUME NEW t \in Task, AgentStep(t) PROVE Allowed
  <2>0. UNCHANGED execVars
    BY <1>3 DEF AgentStep
  <2>1. CASE LeaseTask(t, "agent")
    <3>1. Next
      BY <2>1 DEF Next, Executor
    <3>. QED  BY <2>0, <2>1, <3>1, LeaseTaskIsTaskChange, LeaseCallIsTaskChange
  <2>2. ASSUME NEW s \in Step, NEW a \in Attempt, NEW n \in 1..MaxEvents, NEW ty \in EventType,
               RecordStepRunEvent(t, s, a, n, ty)
        PROVE  Allowed
    <3>1. Next
      BY <2>2 DEF Next
    <3>. QED  BY <2>0, <2>2, <3>1, RecordIsTaskChange, LeaseCallIsTaskChange
  <2>. QED  BY <1>3, <2>1, <2>2 DEF AgentStep
<1>4. ASSUME OperatorStep PROVE Allowed
  <2>0. UNCHANGED execVars /\ planned \subseteq Plan
    BY <1>4 DEF OperatorStep, HubInv, HistoryInv, ExecTypeOK
  <2>1. ASSUME NEW p \in planned, NEW request \in TaskRequest, StateMatches(p, Target),
               CreatePlanTasks(p, request)
        PROVE  Allowed
    <3>1. p \in Plan /\ request \in Request
      BY <2>0, WorkerAssumption
    <3>2. Next
      BY <2>1, <3>1 DEF Next
    <3>3. ExecutePlan(p, request)
      BY <2>0, <2>1 DEF ExecutePlan, CreatePlanTasks
    <3>4. ExecNext
      BY <3>1, <3>3 DEF ExecNext
    <3>. QED  BY <3>2, <3>4
  <2>2. ASSUME NEW p \in planned, FailPlanPreflight(p) PROVE Allowed
    <3>1. p \in Plan
      BY <2>0
    <3>2. Next
      BY <2>2, <3>1 DEF Next
    <3>3. ExecutePlanPreflightFailed(p)
      BY <2>0, <2>2 DEF ExecutePlanPreflightFailed, FailPlanPreflight
    <3>4. ExecNext
      BY <3>1, <3>3 DEF ExecNext
    <3>. QED  BY <3>2, <3>4
  <2>3. ASSUME NEW p \in Plan, BlockReleaseBundle(p) PROVE Allowed
    <3>1. Next
      BY <2>3 DEF Next
    <3>. QED  BY <2>0, <2>3, <3>1 DEF BlockReleaseBundle, execAllVars
  <2>4. ASSUME NEW t \in Task, StartTaskByHand(t) PROVE Allowed
    <3>1. Next
      BY <2>4 DEF Next
    <3>. QED  BY <2>0, <2>4, <3>1, LeaseCallIsTaskChange DEF StartTaskByHand
  <2>5. ASSUME NEW t \in Task, NEW s \in {"SUCCEEDED", "FAILED"}, FinishTaskByHand(t, s)
        PROVE  Allowed
    <3>1. Next
      BY <2>5 DEF Next
    <3>. QED  BY <2>0, <2>5, <3>1, LeaseCallIsTaskChange DEF FinishTaskByHand
  <2>. QED  BY <1>4, <2>1, <2>2, <2>3, <2>4, <2>5 DEF OperatorStep
<1>5. ASSUME CreatePlan PROVE Allowed
  <2>1. PICK p \in Plan : CreateDeploymentPlan(p)
    BY <1>5 DEF CreatePlan
  <2>2. ExecNext
    BY <2>1 DEF ExecNext
  <2>. QED  BY <1>5, <2>1, <2>2 DEF CreatePlan, CreateDeploymentPlan, vars
<1>6. ASSUME NEW e \in Execution, ExternalStep(e) PROVE Allowed
  BY <1>6, ExecCallAllowed DEF ExternalStep
<1>7. ASSUME ClockStep PROVE Allowed
  <2>1. ASSUME NEW e \in Execution, DeadlinePasses(e), UNCHANGED leaseVars PROVE Allowed
    BY <2>1, ExecCallAllowed
  <2>2. ASSUME NEW t \in Task, NEW a \in Attempt, LeaseExpires(t, a), UNCHANGED execVars
        PROVE  Allowed
    <3>1. Next
      BY <2>2 DEF Next
    <3>. QED  BY <2>2, <3>1 DEF LeaseExpires, execAllVars
  <2>. QED  BY <1>7, <2>1, <2>2 DEF ClockStep
<1>8. CASE UNCHANGED hubVars
  BY <1>8 DEF hubVars, vars, execAllVars
<1>. QED
  BY <1>1, <1>2, <1>3, <1>4, <1>5, <1>6, <1>7, <1>8, SessionStepAllowed DEF HubNext

-----------------------------------------------------------------------------
(* The sessions.                                                            *)

(* An execution that has ended stays as it is.                              *)
EndedStays == \A e \in Execution : execution[e] \in Ended => execution'[e] = execution[e]

LEMMA EndedNext == HistoryInv /\ [ExecNext]_execAllVars => EndedStays
<1>. SUFFICES ASSUME HistoryInv, [ExecNext]_execAllVars, NEW x \in Execution,
                     execution[x] \in Ended
              PROVE  execution'[x] = execution[x]
  BY DEF EndedStays
<1>0. execution \in [Execution -> Open \cup Ended \cup {"NONE"}]
  BY DEF HistoryInv, ExecTypeOK
<1>1. ASSUME NEW e \in Execution, NEW s, execution[e] \notin Ended,
             execution' = [execution EXCEPT ![e] = s]
      PROVE  execution'[x] = execution[x]
  BY <1>0, <1>1
<1>2. ASSUME execution' = execution PROVE execution'[x] = execution[x]
  BY <1>2
<1>3. ASSUME NEW e \in Execution,
             PrepareExternalExecution(e) \/ MarkExternalExecutionTriggered(e)
      PROVE  execution'[x] = execution[x]
  BY <1>1, <1>3 DEF PrepareExternalExecution, MayPrepare, MarkExternalExecutionTriggered, Ended
<1>4. ASSUME NEW e \in Execution, NEW s, execution[e] \in Open, AppendEvent(e, s)
      PROVE  execution'[x] = execution[x]
  BY <1>1, <1>4 DEF AppendEvent, Open, Ended
<1>. QED
  BY <1>2, <1>3, <1>4
     DEF ExecNext, execAllVars, execVars, CreateDeploymentPlan, ExecutePlanPreflightFailed,
         ExecutePlan, ChangeTask, PreparePreflightFailed, FailExternalExecution,
         TimeoutExternalExecution, EndExecution, DeadlinePasses,
         RecordExternalExecutionCallback, CanCallbackTransition

(* What a session knows stays true while others act.                        *)
LEMMA SoundStays ==
    ASSUME EndedStays, NEW t \in Task, NEW s, Sound(execution, t, s)
    PROVE  Sound(execution', t, s)
  BY DEF Sound, EndedStays, Ended

(* Nobody becomes a claimant.                                               *)
LEMMA ClaimStays ==
    ASSUME OneClaimant, dispatches' = dispatches,
           \A e \in Execution : Claimants(e)' \subseteq Claimants(e)
    PROVE  OneClaimant'
  BY DEF OneClaimant

LEMMA OthersMove ==
    ASSUME SessionRows, EndedStays, UNCHANGED <<session, senders, dispatches>>
    PROVE  SessionRows'
<1>1. WorkerTypeOK' /\ OneClaimant'
  BY ClaimStays DEF SessionRows, WorkerTypeOK, Claimants
<1>2. SessionsSound'
  BY SoundStays DEF SessionRows, SessionsSound
<1>. QED  BY <1>1, <1>2 DEF SessionRows

(* One session moves to new, with the executions as they are afterwards.    *)
Moves(t, a, new) ==
    /\ new \in Session
    /\ Sound(execution', t, new)
    /\ session' = [session EXCEPT ![t][a] = new]

LEMMA MoveKeepsSound ==
    ASSUME SessionRows, EndedStays, NEW t \in Task, NEW a \in Attempt, NEW new, Moves(t, a, new)
    PROVE  /\ session' \in [Task -> [Attempt -> Session]]
           /\ SessionsSound'
           /\ \A u \in Task, b \in Attempt :
                 session'[u][b] = IF u = t /\ b = a THEN new ELSE session[u][b]
<1>1. session \in [Task -> [Attempt -> Session]]
  BY DEF SessionRows, WorkerTypeOK
<1>2. \A u \in Task, b \in Attempt :
         session'[u][b] = IF u = t /\ b = a THEN new ELSE session[u][b]
  BY <1>1 DEF Moves
<1>3. session' \in [Task -> [Attempt -> Session]]
  <2>1. [session[t] EXCEPT ![a] = new] \in [Attempt -> Session]
    BY <1>1 DEF Moves
  <2>. QED  BY <1>1, <2>1 DEF Moves
<1>4. SessionsSound'
  <2>. SUFFICES ASSUME NEW u \in Task, NEW b \in Attempt
                PROVE  Sound(execution', u, session'[u][b])
    BY DEF SessionsSound, Sound
  <2>1. CASE u = t /\ b = a
    BY <1>2, <2>1 DEF Moves
  <2>2. CASE ~(u = t /\ b = a)
    BY <1>2, <2>2, SoundStays DEF SessionRows, SessionsSound
  <2>. QED  BY <2>1, <2>2
<1>. QED  BY <1>2, <1>3, <1>4

(* It does not become a claimant by that.                                   *)
NoClaim(t, a, new) ==
    new.pc \in ClaimPc /\ <<t, new.step>> \in Execution =>
        session[t][a].pc \in ClaimPc /\ session[t][a].step = new.step

LEMMA MoveKeepsRows ==
    ASSUME SessionRows, EndedStays, NEW t \in Task, NEW a \in Attempt, NEW new,
           Moves(t, a, new), NoClaim(t, a, new), UNCHANGED <<senders, dispatches>>
    PROVE  SessionRows'
<1>1. /\ session' \in [Task -> [Attempt -> Session]]
      /\ SessionsSound'
      /\ \A u \in Task, b \in Attempt :
            session'[u][b] = IF u = t /\ b = a THEN new ELSE session[u][b]
  BY MoveKeepsSound
<1>2. ASSUME NEW e \in Execution, NEW b \in Claimants(e)' PROVE b \in Claimants(e)
  <2>0. e = <<e[1], e[2]>> /\ e[1] \in Task
    BY ExecutionIsPair
  <2>1. CASE b \in senders[e]
    BY <2>1 DEF Claimants
  <2>2. CASE b \notin senders[e]
    <3>1. b \in Attempt /\ session'[e[1]][b].pc \in ClaimPc /\ session'[e[1]][b].step = e[2]
      BY <2>2 DEF Claimants
    <3>2. CASE e[1] = t /\ b = a
      <4>1. new.pc \in ClaimPc /\ new.step = e[2] /\ <<t, new.step>> \in Execution
        BY <1>1, <2>0, <3>1, <3>2
      <4>2. session[e[1]][b].pc \in ClaimPc /\ session[e[1]][b].step = e[2]
        BY <3>2, <4>1 DEF NoClaim
      <4>. QED  BY <3>1, <4>2 DEF Claimants
    <3>3. CASE ~(e[1] = t /\ b = a)
      BY <1>1, <2>0, <3>1, <3>3 DEF Claimants
    <3>. QED  BY <3>2, <3>3
  <2>. QED  BY <2>1, <2>2
<1>3. OneClaimant'
  BY <1>2, ClaimStays DEF SessionRows
<1>. QED  BY <1>1, <1>3 DEF SessionRows, WorkerTypeOK

(* The calls that record events leave the executions alone.                 *)
LEMMA RecordMoves ==
    ASSUME SessionRows, NEW t \in Task, NEW a \in Attempt, NEW n, NEW ty, NEW ok \in Session,
           NEW err \in Session, Record(t, a, n, ty, ok, err), UNCHANGED senders,
           Sound(execution, t, ok), Sound(execution, t, err),
           NoClaim(t, a, ok), NoClaim(t, a, err)
    PROVE  SessionRows'
<1>1. UNCHANGED <<execution, dispatches>>
  BY DEF Record, RecordFails, Recorded, NoCall, execVars
<1>2. EndedStays
  BY <1>1 DEF EndedStays
<1>3. Moves(t, a, ok) \/ Moves(t, a, err)
  BY <1>1 DEF Record, Become, Moves
<1>. QED  BY <1>1, <1>2, <1>3, MoveKeepsRows

(* The next states of a session.                                            *)
LEMMA Forms ==
    ASSUME HubInv, NEW t \in Task, NEW a \in Attempt, NEW pc \in Busy
    PROVE  /\ session[t][a] \in Session
           /\ Sound(execution, t, session[t][a])
           /\ With(t, a, pc) \in Session
           /\ With(t, a, pc).pc = pc
           /\ With(t, a, pc).step = StepOf(t, a)
           /\ With(t, a, pc).external = session[t][a].external
           /\ Advanced(t, a, pc) \in Session
           /\ Advanced(t, a, pc).pc = pc
           /\ Advanced(t, a, pc).step = StepOf(t, a)
           /\ Advanced(t, a, pc).external = session[t][a].external
           /\ ExecutionOf(t, a) \in Execution =>
                 /\ Copied(t, a, pc) \in Session
                 /\ Copied(t, a, pc).pc = pc
                 /\ Copied(t, a, pc).step = StepOf(t, a)
                 /\ Copied(t, a, pc).external = execution[ExecutionOf(t, a)]
           /\ \A x \in Open \cup Ended \cup {"NONE"} :
                 /\ [With(t, a, pc) EXCEPT !.external = x] \in Session
                 /\ [With(t, a, pc) EXCEPT !.external = x].pc = pc
                 /\ [With(t, a, pc) EXCEPT !.external = x].step = StepOf(t, a)
                 /\ [With(t, a, pc) EXCEPT !.external = x].external = x
<1>1. session[t][a] \in Session /\ Sound(execution, t, session[t][a])
  BY DEF HubInv, SessionRows, WorkerTypeOK, SessionsSound
<1>2. /\ With(t, a, pc) \in Session
      /\ With(t, a, pc).pc = pc
      /\ With(t, a, pc).step = StepOf(t, a)
      /\ With(t, a, pc).external = session[t][a].external
  BY <1>1, SessionUpdate DEF With, StepOf
<1>3. /\ Advanced(t, a, pc) \in Session
      /\ Advanced(t, a, pc).pc = pc
      /\ Advanced(t, a, pc).step = StepOf(t, a)
      /\ Advanced(t, a, pc).external = session[t][a].external
  BY <1>2, SessionAdvance DEF Advanced
<1>4. ASSUME ExecutionOf(t, a) \in Execution
      PROVE  /\ Copied(t, a, pc) \in Session
             /\ Copied(t, a, pc).pc = pc
             /\ Copied(t, a, pc).step = StepOf(t, a)
             /\ Copied(t, a, pc).external = execution[ExecutionOf(t, a)]
  <2>1. /\ execution[ExecutionOf(t, a)] \in Open \cup Ended \cup {"NONE"}
        /\ Len(callbacks[ExecutionOf(t, a)]) \in Nat
    BY <1>4 DEF HubInv, HistoryInv, ExecTypeOK
  <2>. DEFINE w == With(t, a, pc)
              x == execution[ExecutionOf(t, a)]
              n == Len(callbacks[ExecutionOf(t, a)])
  <2>2. w \in Session /\ w.pc = pc /\ w.step = StepOf(t, a)
    BY <1>2
  <2>3. Copied(t, a, pc) = [w EXCEPT !.external = x, !.seen = n]
    BY DEF Copied
  <2>. HIDE DEF w, x, n
  <2>4. x \in Open \cup Ended \cup {"NONE"} /\ n \in Nat
    BY <2>1 DEF x, n
  <2>5. /\ Copied(t, a, pc) \in Session /\ Copied(t, a, pc).pc = pc
        /\ Copied(t, a, pc).step = StepOf(t, a) /\ Copied(t, a, pc).external = x
    BY <2>2, <2>3, <2>4 DEF Session
  <2>. QED  BY <2>5 DEF x
<1>5. ASSUME NEW x \in Open \cup Ended \cup {"NONE"}
      PROVE  /\ [With(t, a, pc) EXCEPT !.external = x] \in Session
             /\ [With(t, a, pc) EXCEPT !.external = x].pc = pc
             /\ [With(t, a, pc) EXCEPT !.external = x].step = StepOf(t, a)
             /\ [With(t, a, pc) EXCEPT !.external = x].external = x
  <2>1. 0 \in Nat
    OBVIOUS
  <2>. QED  BY <1>2, <2>1, SessionCopy
<1>. QED  BY <1>1, <1>2, <1>3, <1>4, <1>5

(* A session that ends, or begins a step, knows nothing and claims nothing. *)
LEMMA FreshSound ==
    ASSUME NEW ex, NEW t \in Task, NEW a \in Attempt
    PROVE  /\ Idle("done") \in Session /\ Sound(ex, t, Idle("done")) /\ NoClaim(t, a, Idle("done"))
           /\ \A S \in SUBSET Step, s \in Step :
                 /\ BeginStep(S, s) \in Session
                 /\ Sound(ex, t, BeginStep(S, s)) /\ NoClaim(t, a, BeginStep(S, s))
<1>1. /\ Idle("done") \in Session /\ Idle("done").pc = "done" /\ Idle("done").external = "NONE"
      /\ \A S \in SUBSET Step, s \in Step :
            /\ BeginStep(S, s) \in Session
            /\ BeginStep(S, s).pc = "start" /\ BeginStep(S, s).step = s
            /\ BeginStep(S, s).external = "NONE"
  BY IdleAndBegin
<1>. QED  BY <1>1 DEF Sound, NoClaim, Busy, ExternalPc, ClaimPc, Ended

(* Moves that change only the place, and the sequence number, of a session. *)
LEMMA PlaceMoves ==
    ASSUME HubInv, NEW t \in Task, NEW a \in Attempt, NEW pc \in Busy, NEW new,
           new \in {With(t, a, pc), Advanced(t, a, pc)}, StepOf(t, a) \in Step,
           pc \in ExternalPc => ExecutionOf(t, a) \in Execution,
           pc \in {"emit", "post", "succeed"} /\ StepOf(t, a) \in Webhook
              => ExecutionOf(t, a) \in Execution,
           pc = "succeed" /\ StepOf(t, a) \in Webhook
              => execution[ExecutionOf(t, a)] = "SUCCEEDED"
    PROVE  new \in Session /\ Sound(execution, t, new)
<1>1. /\ new \in Session /\ new.pc = pc /\ new.step = StepOf(t, a)
      /\ new.external = session[t][a].external
      /\ Sound(execution, t, session[t][a])
  BY Forms
<1>. QED  BY <1>1 DEF Sound, StepOf, ExecutionOf

LEMMA PlaceClaims ==
    ASSUME HubInv, NEW t \in Task, NEW a \in Attempt, NEW pc \in Busy, NEW new,
           new \in {With(t, a, pc), Advanced(t, a, pc)},
           pc \in ClaimPc => \/ session[t][a].pc \in ClaimPc
                             \/ StepOf(t, a) \notin Webhook
    PROVE  NoClaim(t, a, new)
<1>1. new.pc = pc /\ new.step = StepOf(t, a)
  BY Forms
<1>2. <<t, StepOf(t, a)>> \in Execution => StepOf(t, a) \in Webhook
  BY DEF Execution
<1>. QED  BY <1>1, <1>2 DEF NoClaim, StepOf

(* The session that sends a request was a claimant before.                  *)
LEMMA PostRows ==
    ASSUME SessionRows, EndedStays, NEW t \in Task, NEW a \in Attempt, NEW new \in Session,
           session[t][a].pc = "post", new.step = StepOf(t, a), Sound(execution, t, new),
           StepOf(t, a) \in Webhook => ExecutionOf(t, a) \in Execution,
           Become(t, a, new), NoCall,
           senders' = IF Callback(t, a)
                      THEN [senders EXCEPT ![ExecutionOf(t, a)] = @ \cup {a}] ELSE senders
    PROVE  SessionRows'
<1>. DEFINE e == ExecutionOf(t, a)
<1>0. UNCHANGED <<execution, dispatches>>
  BY DEF NoCall, execVars
<1>1. /\ session' \in [Task -> [Attempt -> Session]]
      /\ SessionsSound'
      /\ \A u \in Task, b \in Attempt :
            session'[u][b] = IF u = t /\ b = a THEN new ELSE session[u][b]
  <2>1. Moves(t, a, new)
    BY <1>0 DEF Moves, Become
  <2>. QED  BY <2>1, MoveKeepsSound
<1>2. senders \in [Execution -> SUBSET Attempt] /\ (Callback(t, a) => e \in Execution)
  BY DEF SessionRows, WorkerTypeOK, Callback
<1>3. senders' \in [Execution -> SUBSET Attempt]
  BY <1>2
<1>4. ASSUME NEW x \in Execution, NEW b \in Claimants(x)' PROVE b \in Claimants(x)
  <2>0. x = <<x[1], x[2]>> /\ x[1] \in Task
    BY ExecutionIsPair
  <2>1. CASE b \in senders'[x]
    <3>1. CASE b \in senders[x]
      BY <3>1 DEF Claimants
    <3>2. CASE b \notin senders[x]
      <4>1. x = e /\ b = a
        BY <1>2, <2>1, <3>2
      <4>2. x[1] = t /\ x[2] = session[t][a].step
        BY <4>1 DEF ExecutionOf, StepOf
      <4>. QED  BY <4>1, <4>2 DEF Claimants, ClaimPc
    <3>. QED  BY <3>1, <3>2
  <2>2. CASE b \notin senders'[x]
    <3>1. b \in Attempt /\ session'[x[1]][b].pc \in ClaimPc /\ session'[x[1]][b].step = x[2]
      BY <2>2 DEF Claimants
    <3>2. CASE x[1] = t /\ b = a
      <4>1. session[x[1]][b].pc \in ClaimPc /\ session[x[1]][b].step = x[2]
        BY <1>1, <3>1, <3>2 DEF ClaimPc, StepOf
      <4>. QED  BY <3>1, <4>1 DEF Claimants
    <3>3. CASE ~(x[1] = t /\ b = a)
      BY <1>1, <2>0, <3>1, <3>3 DEF Claimants
    <3>. QED  BY <3>2, <3>3
  <2>. QED  BY <2>1, <2>2
<1>5. OneClaimant'
  BY <1>0, <1>4, ClaimStays DEF SessionRows
<1>. QED  BY <1>1, <1>3, <1>5 DEF SessionRows, WorkerTypeOK

(* The claim of a dispatch finds no claimant and makes one.                 *)
LEMMA TriggerRows ==
    ASSUME SessionRows, HistoryInv, HubInv, EndedStays, NEW t \in Task, NEW a \in Attempt,
           NEW pc, NEW new, NEW running, ExecutionOf(t, a) \in Execution, StepOf(t, a) \in Step,
           running = [With(t, a, "announce") EXCEPT !.external = "RUNNING"],
           MarkExternalExecutionTriggered(ExecutionOf(t, a)),
           \/ pc = "announce" /\ new = running
           \/ pc = "reconcile" /\ new = With(t, a, pc),
           Become(t, a, new), UNCHANGED senders
    PROVE  SessionRows'
<1>. DEFINE e == ExecutionOf(t, a)
<1>1. /\ execution[e] = "QUEUED" /\ dispatches' = [dispatches EXCEPT ![e] = @ + 1]
      /\ e \in Execution /\ e[1] = t /\ e[2] = StepOf(t, a) /\ e = <<t, StepOf(t, a)>>
  BY DEF MarkExternalExecutionTriggered, ExecutionOf
<1>2. dispatches \in [Execution -> Nat] /\ dispatches[e] = 0
  BY <1>1 DEF HistoryInv, RowsFollowStatus, ExecTypeOK
<1>3. /\ new \in Session /\ new.pc = pc /\ new.step = StepOf(t, a) /\ pc \in Busy
      /\ new.external = "RUNNING" \/ new.external = session[t][a].external
      /\ Sound(execution, t, session[t][a])
  <2>1. pc \in Busy /\ "RUNNING" \in Open \cup Ended \cup {"NONE"}
    BY DEF Busy, Open
  <2>2. CASE pc = "reconcile" /\ new = With(t, a, pc)
    BY <2>1, <2>2, Forms
  <2>3. CASE pc = "announce" /\ new = running
    BY <2>1, <2>3, Forms
  <2>. QED  BY <2>2, <2>3
<1>. HIDE DEF e
<1>4. Sound(execution, t, new)
  BY <1>1, <1>3 DEF Sound, Ended, StepOf
<1>5. /\ session' \in [Task -> [Attempt -> Session]]
      /\ SessionsSound'
      /\ \A u \in Task, b \in Attempt :
            session'[u][b] = IF u = t /\ b = a THEN new ELSE session[u][b]
  <2>1. Moves(t, a, new)
    BY <1>3, <1>4, SoundStays DEF Moves, Become
  <2>. QED  BY <2>1, MoveKeepsSound
<1>6. Claimants(e) = {}
  BY <1>1, <1>2 DEF SessionRows, OneClaimant
<1>7. ASSUME NEW x \in Execution, NEW b \in Claimants(x)'
      PROVE  b \in Claimants(x) \/ (x = e /\ b = a)
  <2>0. x = <<x[1], x[2]>> /\ x[1] \in Task
    BY ExecutionIsPair
  <2>1. CASE b \in senders[x]
    BY <2>1 DEF Claimants
  <2>2. CASE b \notin senders[x]
    <3>1. b \in Attempt /\ session'[x[1]][b].pc \in ClaimPc /\ session'[x[1]][b].step = x[2]
      BY <2>2 DEF Claimants
    <3>2. CASE x[1] = t /\ b = a
      BY <1>1, <1>3, <1>5, <2>0, <3>1, <3>2
    <3>3. CASE ~(x[1] = t /\ b = a)
      BY <1>5, <2>0, <3>1, <3>3 DEF Claimants
    <3>. QED  BY <3>2, <3>3
  <2>. QED  BY <2>1, <2>2
<1>8. OneClaimant'
  <2>. SUFFICES ASSUME NEW x \in Execution
                PROVE  /\ \A b, c \in Claimants(x)' : b = c
                       /\ Claimants(x)' # {} => dispatches'[x] = 1
    BY DEF OneClaimant
  <2>1. CASE x = e
    <3>1. \A b \in Claimants(x)' : b = a
      BY <1>6, <1>7, <2>1
    <3>2. dispatches'[x] = 1
      BY <1>1, <1>2, <2>1
    <3>. QED  BY <3>1, <3>2
  <2>2. CASE x # e
    <3>1. \A b \in Claimants(x)' : b \in Claimants(x)
      BY <1>7, <2>2
    <3>2. dispatches'[x] = dispatches[x]
      BY <1>1, <1>2, <2>2
    <3>. QED  BY <3>1, <3>2 DEF SessionRows, OneClaimant
  <2>. QED  BY <2>1, <2>2
<1>. QED  BY <1>5, <1>8 DEF SessionRows, WorkerTypeOK

LEMMA SessionStepRows ==
    ASSUME HubInv, EndedStays, NEW t \in Task, NEW a \in Attempt, SessionStep(t, a)
    PROVE  SessionRows'
<1>. DEFINE s == session[t][a]
            e == ExecutionOf(t, a)
<1>0. SessionRows /\ HistoryInv /\ SessionRows
  BY DEF HubInv
<1>1. s \in Session /\ Sound(execution, t, s)
  BY <1>0 DEF SessionRows, WorkerTypeOK, SessionsSound
<1>2. /\ s.pc \in Busy => StepOf(t, a) \in Step
      /\ s.pc \in ExternalPc => e \in Execution
      /\ s.pc \in {"emit", "post", "succeed"} /\ StepOf(t, a) \in Webhook => e \in Execution
      /\ s.external # "NONE" => e \in Execution
      /\ s.external \in Ended => execution[e] = s.external
      /\ s.pc = "succeed" /\ StepOf(t, a) \in Webhook => execution[e] = "SUCCEEDED"
  BY <1>1 DEF Sound, StepOf, ExecutionOf
<1>3. e \in Execution => execution[e] \in Open \cup Ended \cup {"NONE"}
  BY <1>0 DEF HistoryInv, ExecTypeOK
<1>. HIDE DEF s, e
(* Going somewhere without a call.                                          *)
<1>4. ASSUME NEW pc \in Busy, pc \notin ClaimPc, s.pc \in Busy, Goto(t, a, pc),
             UNCHANGED <<senders, dispatches>>,
             pc \in ExternalPc => e \in Execution,
             pc = "succeed" /\ StepOf(t, a) \in Webhook => e \in Execution /\ execution[e] = "SUCCEEDED"
      PROVE  SessionRows'
  <2>1. With(t, a, pc) \in Session /\ Sound(execution, t, With(t, a, pc))
    BY <1>2, <1>4, PlaceMoves DEF e, ClaimPc
  <2>2. NoClaim(t, a, With(t, a, pc))
    BY <1>4, PlaceClaims
  <2>3. session' = [session EXCEPT ![t][a] = With(t, a, pc)]
    BY <1>4 DEF Goto, Become, With
  <2>4. Moves(t, a, With(t, a, pc))
    BY <2>1, <2>3, SoundStays DEF Moves
  <2>. QED  BY <1>0, <1>4, <2>2, <2>4, MoveKeepsRows
(* Taking a copy of the execution.                                          *)
<1>5. ASSUME NEW pc \in Busy \ {"emit", "post", "announce"}, Become(t, a, Copied(t, a, pc)),
             UNCHANGED <<execution, senders, dispatches>>, s.pc \in Busy, e \in Execution,
             pc = "succeed" /\ StepOf(t, a) \in Webhook => execution[e] = "SUCCEEDED"
      PROVE  SessionRows'
  <2>1. /\ Copied(t, a, pc) \in Session /\ Copied(t, a, pc).pc = pc
        /\ Copied(t, a, pc).step = StepOf(t, a) /\ Copied(t, a, pc).external = execution[e]
    BY <1>5, Forms DEF e
  <2>2. Sound(execution, t, Copied(t, a, pc)) /\ NoClaim(t, a, Copied(t, a, pc))
    BY <1>2, <1>5, <2>1 DEF Sound, NoClaim, ClaimPc, e, ExecutionOf
  <2>3. Moves(t, a, Copied(t, a, pc))
    BY <1>5, <2>1, <2>2 DEF Moves, Become
  <2>. QED  BY <1>0, <1>5, <2>2, <2>3, MoveKeepsRows
(* Keeping what a call on the execution has returned.                       *)
<1>6. ASSUME NEW pc \in Busy \ {"emit", "post", "announce"}, NEW x \in Open \cup Ended \cup {"NONE"},
             Become(t, a, [With(t, a, pc) EXCEPT !.external = x]),
             UNCHANGED <<senders, dispatches>>, s.pc \in Busy, e \in Execution,
             x \in Ended => execution'[e] = x,
             pc = "succeed" /\ StepOf(t, a) \in Webhook => execution'[e] = "SUCCEEDED"
      PROVE  SessionRows'
  <2>. DEFINE new == [With(t, a, pc) EXCEPT !.external = x]
  <2>1. /\ new \in Session /\ new.pc = pc /\ new.step = StepOf(t, a) /\ new.external = x
        /\ session' = [session EXCEPT ![t][a] = new]
    BY <1>6, Forms DEF Become
  <2>. HIDE DEF new
  <2>2. Sound(execution', t, new) /\ NoClaim(t, a, new)
    BY <1>2, <1>6, <2>1 DEF Sound, NoClaim, ClaimPc, e, ExecutionOf
  <2>3. Moves(t, a, new)
    BY <2>1, <2>2 DEF Moves
  <2>. QED  BY <1>0, <1>6, <2>2, <2>3, MoveKeepsRows
<1>7. NoCall => UNCHANGED <<execution, dispatches>>
  BY DEF NoCall, execVars
<1>8. /\ Idle("done") \in Session /\ Sound(execution, t, Idle("done"))
      /\ NoClaim(t, a, Idle("done"))
  BY FreshSound
<1>9. CASE Start(t, a)
  <2>1. s.pc = "start" /\ UNCHANGED senders
    BY <1>9 DEF Start, At, s
  <2>2. PICK pc \in {IF Callback(t, a) THEN "prepare" ELSE "emit", "fail"} :
           Record(t, a, 1, "STARTED", Advanced(t, a, pc), Idle("done"))
    BY <1>9 DEF Start
  <2>3. /\ pc \in Busy /\ pc \notin ExternalPc /\ pc \notin {"post", "succeed"}
        /\ pc = "emit" => StepOf(t, a) \notin Webhook
    BY <2>2 DEF Callback, Busy, ExternalPc
  <2>4. StepOf(t, a) \in Step
    BY <1>2, <2>1 DEF Busy
  <2>5. /\ Advanced(t, a, pc) \in Session /\ Sound(execution, t, Advanced(t, a, pc))
        /\ NoClaim(t, a, Advanced(t, a, pc))
    BY <2>3, <2>4, PlaceMoves, PlaceClaims DEF ClaimPc, ExternalPc
  <2>. QED  BY <1>0, <1>8, <2>1, <2>2, <2>5, RecordMoves
(* An event of progress, after which the session is at pc, or at err.       *)
<1>. DEFINE Fits(p) ==
        /\ p \in ExternalPc => e \in Execution
        /\ p \in {"emit", "post", "succeed"} /\ StepOf(t, a) \in Webhook => e \in Execution
        /\ p = "succeed" /\ StepOf(t, a) \in Webhook => execution[e] = "SUCCEEDED"
        /\ p \in ClaimPc => s.pc \in ClaimPc
<1>10. ASSUME s.pc \in Busy, NEW n, NEW ty, NEW pc \in Busy, NEW err \in Busy, NEW ok, NEW bad,
              ok \in {With(t, a, pc), Advanced(t, a, pc)},
              bad \in {With(t, a, err), Advanced(t, a, err)},
              Record(t, a, n, ty, ok, bad), UNCHANGED senders, Fits(pc), Fits(err)
       PROVE  SessionRows'
  <2>1. StepOf(t, a) \in Step
    BY <1>2, <1>10
  <2>2. ok \in Session /\ Sound(execution, t, ok)
    BY <1>10, <2>1, PlaceMoves DEF e
  <2>3. bad \in Session /\ Sound(execution, t, bad)
    BY <1>10, <2>1, PlaceMoves DEF e
  <2>4. NoClaim(t, a, ok) /\ NoClaim(t, a, bad)
    BY <1>10, PlaceClaims DEF s
  <2>. QED  BY <1>0, <1>10, <2>2, <2>3, <2>4, RecordMoves
<1>11. CASE Announce(t, a)
  <2>1. /\ s.pc = "announce" /\ UNCHANGED senders
        /\ Record(t, a, s.sequence + 1, "PROGRESS", Advanced(t, a, "emit"), Advanced(t, a, "failext"))
    BY <1>11 DEF Announce, At, s
  <2>2. Fits("emit") /\ Fits("failext") /\ {s.pc, "emit", "failext"} \subseteq Busy
    BY <1>2, <2>1 DEF Busy, ExternalPc, ClaimPc
  <2>. HIDE DEF Fits
  <2>. QED  BY <1>10, <2>1, <2>2
<1>12. CASE Emit(t, a)
  <2>1. /\ s.pc = "emit" /\ UNCHANGED senders
        /\ Record(t, a, s.sequence + 1, "PROGRESS", Advanced(t, a, "post"), With(t, a, ErrorPc(s)))
    BY <1>12 DEF Emit, At, s
  <2>2. /\ ErrorPc(s) \in {"failext", "fail"}
        /\ ErrorPc(s) = "failext" => e \in Execution
    BY <1>2 DEF ErrorPc, Open
  <2>3. Fits("post") /\ Fits(ErrorPc(s)) /\ {s.pc, "post", ErrorPc(s)} \subseteq Busy
    BY <1>2, <2>1, <2>2 DEF Busy, ExternalPc, ClaimPc
  <2>. HIDE DEF Fits
  <2>. QED  BY <1>10, <2>1, <2>3
<1>13. CASE Report(t, a)
  <2>1. /\ s.pc = "report" /\ UNCHANGED senders
        /\ Record(t, a, s.sequence + 1, "PROGRESS", Advanced(t, a, AfterRead(s.external)),
                  Advanced(t, a, ErrorPc(s)))
    BY <1>13 DEF Report, At, s
  <2>2. /\ ErrorPc(s) \in {"failext", "fail"}
        /\ AfterRead(s.external) \in {"succeed", "fail", "deadline"}
        /\ AfterRead(s.external) = "succeed" => execution[e] = "SUCCEEDED"
    BY <1>2 DEF ErrorPc, AfterRead, Ended
  <2>3. /\ Fits(AfterRead(s.external)) /\ Fits(ErrorPc(s))
        /\ {s.pc, AfterRead(s.external), ErrorPc(s)} \subseteq Busy
    BY <1>2, <2>1, <2>2 DEF Busy, ExternalPc, ClaimPc
  <2>. HIDE DEF Fits
  <2>. QED  BY <1>10, <2>1, <2>3
<1>14. CASE Await(t, a)
  <2>1. s.pc = "await" /\ UNCHANGED senders
    BY <1>14 DEF Await, At, s
  <2>2. ASSUME NEW n, Record(t, a, n, "PROGRESS", Advanced(t, a, "wait"), Advanced(t, a, "failext"))
        PROVE  SessionRows'
    <3>1. Fits("wait") /\ Fits("failext") /\ {s.pc, "wait", "failext"} \subseteq Busy
      BY <1>2, <2>1 DEF Busy, ExternalPc, ClaimPc
    <3>. HIDE DEF Fits
    <3>. QED  BY <1>10, <2>1, <2>2, <3>1
  <2>3. ASSUME NEW n, s.external = "SUCCEEDED",
               Record(t, a, n, "PROGRESS", Advanced(t, a, "succeed"), Advanced(t, a, "fail"))
        PROVE  SessionRows'
    <3>1. Fits("succeed") /\ Fits("fail") /\ {s.pc, "succeed", "fail"} \subseteq Busy
      BY <1>2, <2>1, <2>3 DEF Busy, ExternalPc, ClaimPc, Ended
    <3>. HIDE DEF Fits
    <3>. QED  BY <1>10, <2>1, <2>3, <3>1
  <2>4. ASSUME Goto(t, a, "fail"), NoCall PROVE SessionRows'
    BY <1>4, <1>7, <2>1, <2>4 DEF Busy, ExternalPc, ClaimPc
  <2>. QED  BY <1>14, <2>2, <2>3, <2>4 DEF Await, s
<1>15. CASE Prepare(t, a)
  <2>1. s.pc = "prepare" /\ UNCHANGED senders
    BY <1>15 DEF Prepare, At, s
  <2>2. ASSUME e \in Execution, execution[e] # "NONE", NoCall,
               Become(t, a, Copied(t, a, IF execution[e] = "QUEUED" THEN "trigger" ELSE "await"))
        PROVE  SessionRows'
    BY <1>5, <1>7, <2>1, <2>2 DEF Busy
  <2>3. ASSUME e \in Execution, PrepareExternalExecution(e),
               Become(t, a, [With(t, a, "trigger") EXCEPT !.external = "QUEUED"])
        PROVE  SessionRows'
    <3>1. UNCHANGED dispatches
      BY <2>3 DEF PrepareExternalExecution
    <3>2. "trigger" \in Busy \ {"emit", "post", "announce"} /\ s.pc \in Busy
          /\ "QUEUED" \in Open \cup Ended \cup {"NONE"} /\ "QUEUED" \notin Ended
      BY <2>1 DEF Busy, Open, Ended
    <3>. QED  BY <1>6, <2>1, <2>3, <3>1, <3>2
  <2>4. ASSUME e \in Execution, PrepareExternalExecution(e) \/ PreparePreflightFailed(e),
               Goto(t, a, "fail")
        PROVE  SessionRows'
    <3>1. UNCHANGED dispatches
      BY <2>4 DEF PrepareExternalExecution, PreparePreflightFailed
    <3>. QED  BY <1>4, <2>1, <2>4, <3>1 DEF Busy, ExternalPc, ClaimPc
  <2>5. ASSUME NoCall, Goto(t, a, "fail") PROVE SessionRows'
    BY <1>4, <1>7, <2>1, <2>5 DEF Busy, ExternalPc, ClaimPc
  <2>. QED  BY <1>15, <2>2, <2>3, <2>4, <2>5 DEF Prepare, e
<1>16. CASE Trigger(t, a)
  <2>1. s.pc = "trigger" /\ UNCHANGED senders
    BY <1>16 DEF Trigger, At, s
  <2>2. ASSUME NoCall, Goto(t, a, "reconcile") PROVE SessionRows'
    BY <1>2, <1>4, <1>7, <2>1, <2>2 DEF Busy, ExternalPc, ClaimPc
  <2>. DEFINE running == [With(t, a, "announce") EXCEPT !.external = "RUNNING"]
  <2>3. e \in Execution /\ StepOf(t, a) \in Step
    BY <1>2, <2>1 DEF ExternalPc, Busy
  <2>4. ASSUME MarkExternalExecutionTriggered(e), NEW pc, NEW new, Become(t, a, new),
               \/ pc = "announce" /\ new = running
               \/ pc = "reconcile" /\ new = With(t, a, pc)
        PROVE  SessionRows'
    BY <1>0, <2>1, <2>3, <2>4, TriggerRows DEF e
  <2>5. Goto(t, a, "reconcile") => Become(t, a, With(t, a, "reconcile"))
    BY DEF Goto, With
  <2>6. \/ NoCall /\ Goto(t, a, "reconcile")
        \/ MarkExternalExecutionTriggered(e) /\ Become(t, a, running)
        \/ MarkExternalExecutionTriggered(e) /\ Goto(t, a, "reconcile")
    BY <1>16 DEF Trigger, e
  <2>. HIDE DEF running
  <2>. QED  BY <2>2, <2>4, <2>5, <2>6
<1>17. CASE Reconcile(t, a)
  <2>1. s.pc = "reconcile" /\ e \in Execution /\ UNCHANGED senders
    BY <1>2, <1>17 DEF Reconcile, At, s, ExternalPc
  <2>2. NoCall /\ UNCHANGED <<execution, dispatches>>
    BY <1>7, <1>17 DEF Reconcile
  <2>3. CASE Become(t, a, Copied(t, a, "await"))
    BY <1>5, <2>1, <2>2, <2>3 DEF Busy
  <2>4. CASE Goto(t, a, "failext")
    BY <1>4, <2>1, <2>2, <2>4 DEF Busy, ExternalPc, ClaimPc
  <2>5. Become(t, a, With(t, a, "failext")) => Goto(t, a, "failext")
    BY DEF Goto, With
  <2>. QED  BY <1>17, <2>3, <2>4, <2>5 DEF Reconcile
<1>18. CASE Post(t, a)
  <2>1. /\ s.pc = "post" /\ NoCall
        /\ senders' = IF Callback(t, a) THEN [senders EXCEPT ![e] = @ \cup {a}] ELSE senders
    BY <1>18 DEF Post, At, s, e
  <2>2. StepOf(t, a) \in Step /\ (StepOf(t, a) \in Webhook => e \in Execution)
    BY <1>2, <2>1 DEF Busy
  <2>3. /\ ErrorPc(s) \in {"failext", "fail"}
        /\ ErrorPc(s) = "failext" => e \in Execution
    BY <1>2 DEF ErrorPc, Open
  <2>4. ASSUME NEW pc \in {"await", "succeed", "failext", "fail"}, Goto(t, a, pc),
               pc \in ExternalPc => e \in Execution,
               pc = "succeed" => StepOf(t, a) \notin Webhook
        PROVE  SessionRows'
    <3>1. pc \in Busy /\ pc \notin {"emit", "post"}
      BY <2>4 DEF Busy
    <3>2. /\ With(t, a, pc) \in Session /\ Sound(execution, t, With(t, a, pc))
          /\ With(t, a, pc).step = StepOf(t, a)
      BY <2>2, <2>4, <3>1, PlaceMoves, Forms DEF e
    <3>3. Become(t, a, With(t, a, pc))
      BY <2>4 DEF Goto, With
    <3>. QED  BY <1>0, <2>1, <2>2, <3>2, <3>3, PostRows DEF s, e
  <2>5. ASSUME Become(t, a, [With(t, a, "emit") EXCEPT !.tries = @ + 1]) PROVE SessionRows'
    <3>. DEFINE w == With(t, a, "emit")
                new == [w EXCEPT !.tries = @ + 1]
    <3>1. /\ w \in Session /\ w.pc = "emit" /\ w.step = StepOf(t, a)
          /\ w.external = s.external
      BY Forms DEF Busy, s
    <3>. HIDE DEF w
    <3>2. /\ new \in Session /\ new.pc = "emit" /\ new.step = StepOf(t, a)
          /\ new.external = s.external
      BY <3>1, SessionAdvance
    <3>3. Become(t, a, new)
      BY <2>5 DEF w
    <3>. HIDE DEF new
    <3>4. Sound(execution, t, new)
      BY <1>2, <2>2, <3>2 DEF Sound, ExternalPc, e, ExecutionOf
    <3>. QED  BY <1>0, <2>1, <2>2, <3>2, <3>3, <3>4, PostRows DEF s, e
  <2>6. \/ \E pc \in {"await", "succeed", "failext", "fail"} :
               /\ Goto(t, a, pc)
               /\ pc \in ExternalPc => e \in Execution
               /\ pc = "succeed" => StepOf(t, a) \notin Webhook
        \/ Become(t, a, [With(t, a, "emit") EXCEPT !.tries = @ + 1])
    <3>1. CASE Goto(t, a, IF Callback(t, a) THEN "await" ELSE "succeed")
      BY <2>2, <3>1 DEF Callback, ExternalPc
    <3>2. CASE Goto(t, a, ErrorPc(s))
      BY <2>3, <3>2 DEF ExternalPc
    <3>. QED  BY <1>18, <3>1, <3>2 DEF Post, s
  <2>. QED  BY <2>4, <2>5, <2>6
<1>19. CASE Wait(t, a)
  <2>1. s.pc = "wait" /\ e \in Execution /\ UNCHANGED senders
    BY <1>2, <1>19 DEF Wait, At, s, ExternalPc
  <2>2. NoCall /\ UNCHANGED <<execution, dispatches>>
    BY <1>7, <1>19 DEF Wait
  <2>3. CASE Goto(t, a, "failext")
    BY <1>4, <2>1, <2>2, <2>3 DEF Busy, ExternalPc, ClaimPc
  <2>4. /\ AfterRead(execution[e]) \in {"succeed", "fail", "deadline"}
        /\ AfterRead(execution[e]) = "succeed" => execution[e] = "SUCCEEDED"
    BY DEF AfterRead
  <2>5. CASE \E pc \in {"report", AfterRead(execution[e])} : Become(t, a, Copied(t, a, pc))
    BY <1>5, <2>1, <2>2, <2>4, <2>5 DEF Busy
  <2>. QED  BY <1>19, <2>3, <2>5 DEF Wait, e
<1>20. CASE Deadline(t, a)
  <2>1. s.pc = "deadline" /\ e \in Execution /\ UNCHANGED senders
    BY <1>2, <1>20 DEF Deadline, At, s, ExternalPc
  <2>2. UNCHANGED dispatches
    BY <1>7, <1>20 DEF Deadline, TimeoutExternalExecution, EndExecution
  <2>3. ASSUME NEW pc \in {"wait", "failext"}, Goto(t, a, pc) PROVE SessionRows'
    BY <1>4, <2>1, <2>2, <2>3 DEF Busy, ExternalPc, ClaimPc
  <2>4. ASSUME Become(t, a, [With(t, a, "fail") EXCEPT !.external = execution'[e]]),
               execution'[e] \in Ended
        PROVE  SessionRows'
    BY <1>6, <2>1, <2>2, <2>4 DEF Busy
  <2>5. ASSUME TimeoutExternalExecution(e) \/ (execution[e] \in Ended /\ NoCall)
        PROVE  execution'[e] \in Ended
    BY <1>0, <1>7, <2>1, <2>5
       DEF TimeoutExternalExecution, EndExecution, AppendEvent, Ended, HistoryInv, ExecTypeOK
  <2>. QED  BY <1>20, <2>3, <2>4, <2>5 DEF Deadline, e
<1>21. CASE FailExecution(t, a)
  <2>1. s.pc = "failext" /\ e \in Execution /\ UNCHANGED senders
    BY <1>2, <1>21 DEF FailExecution, At, s, ExternalPc
  <2>2. UNCHANGED dispatches
    BY <1>7, <1>21 DEF FailExecution, FailExternalExecution, EndExecution
  <2>3. ASSUME Goto(t, a, "fail") PROVE SessionRows'
    BY <1>4, <2>1, <2>2, <2>3 DEF Busy, ExternalPc, ClaimPc
  <2>4. ASSUME Become(t, a, [With(t, a, IF execution'[e] = "SUCCEEDED" THEN "succeed" ELSE "fail")
                               EXCEPT !.external = execution'[e]]),
               execution'[e] \in Ended
        PROVE  SessionRows'
    BY <1>6, <2>1, <2>2, <2>4 DEF Busy
  <2>5. ASSUME FailExternalExecution(e) \/ (execution[e] \in Ended /\ NoCall)
        PROVE  execution'[e] \in Ended
    BY <1>0, <1>7, <2>1, <2>5
       DEF FailExternalExecution, EndExecution, AppendEvent, Ended, HistoryInv, ExecTypeOK
  <2>. QED  BY <1>21, <2>3, <2>4, <2>5 DEF FailExecution, e
<1>22. CASE Fail(t, a)
  <2>1. UNCHANGED senders /\ \E n : Record(t, a, n, "FAILED", Idle("done"), Idle("done"))
    BY <1>22 DEF Fail
  <2>. QED  BY <1>0, <1>8, <2>1, RecordMoves
<1>23. CASE Succeed(t, a)
  <2>1. /\ UNCHANGED senders
        /\ \/ \E n : Record(t, a, n, "SUCCEEDED", Idle("done"), Idle("done"))
           \/ \E x \in NextSteps(s.todo) : \E n :
                 Record(t, a, n, "SUCCEEDED", BeginStep(s.todo, x), Idle("done"))
    BY <1>23 DEF Succeed, s
  <2>2. CASE \E n : Record(t, a, n, "SUCCEEDED", Idle("done"), Idle("done"))
    BY <1>0, <1>8, <2>1, <2>2, RecordMoves
  <2>3. ASSUME NEW x \in NextSteps(s.todo), NEW n,
               Record(t, a, n, "SUCCEEDED", BeginStep(s.todo, x), Idle("done"))
        PROVE  SessionRows'
    <3>1. s.todo \in SUBSET Step /\ x \in Step
      BY <1>1, <2>3, SessionFields DEF NextSteps
    <3>2. /\ BeginStep(s.todo, x) \in Session /\ Sound(execution, t, BeginStep(s.todo, x))
          /\ NoClaim(t, a, BeginStep(s.todo, x))
      BY <3>1, FreshSound
    <3>. QED  BY <1>0, <1>8, <2>1, <2>3, <3>2, RecordMoves
  <2>. QED  BY <2>1, <2>2, <2>3
<1>. QED
  BY <1>9, <1>11, <1>12, <1>13, <1>14, <1>15, <1>16, <1>17, <1>18, <1>19, <1>20, <1>21, <1>22,
     <1>23
     DEF SessionStep

(* The sessions are sound after every step of the system.                   *)
LEMMA HubNextRows == HubInv /\ [HubNext]_hubVars => SessionRows'
<1>. SUFFICES ASSUME HubInv, [HubNext]_hubVars PROVE SessionRows'
  OBVIOUS
<1>0. SessionRows /\ EndedStays
  BY HubNextAllowed, EndedNext DEF HubInv
<1>1. ASSUME NEW t \in Task, NEW a \in Attempt, HubLease(t, a) PROVE SessionRows'
  <2>. DEFINE batch == readyTaskLeaseStepCandidates(stepStatus'[t], "hub")
  <2>1. PICK s \in NextSteps(batch) : Become(t, a, BeginStep(batch, s))
    BY <1>1 DEF HubLease
  <2>2. UNCHANGED <<senders, execution, dispatches>>
    BY <1>1 DEF HubLease, execVars
  <2>3. batch \in SUBSET Step
    BY BatchIsIncluded
  <2>. HIDE DEF batch
  <2>4. s \in Step
    BY <2>3 DEF NextSteps
  <2>5. /\ BeginStep(batch, s) \in Session /\ Sound(execution, t, BeginStep(batch, s))
        /\ NoClaim(t, a, BeginStep(batch, s))
    BY <2>3, <2>4, FreshSound
  <2>6. Moves(t, a, BeginStep(batch, s))
    BY <2>1, <2>2, <2>5 DEF Moves, Become
  <2>. QED  BY <1>0, <2>2, <2>5, <2>6, MoveKeepsRows
<1>2. ASSUME NEW t \in Task, NEW a \in Attempt, HeartbeatFails(t, a) PROVE SessionRows'
  <2>1. /\ session[t][a].pc \in Busy /\ Goto(t, a, "fail")
        /\ UNCHANGED <<senders, execution, dispatches>>
    BY <1>2 DEF HeartbeatFails, Heartbeating, NoCall, execVars
  <2>2. "fail" \in Busy /\ StepOf(t, a) \in Step
    BY <1>0, <2>1 DEF SessionRows, SessionsSound, Sound, StepOf, Busy
  <2>3. /\ With(t, a, "fail") \in Session /\ Sound(execution, t, With(t, a, "fail"))
        /\ NoClaim(t, a, With(t, a, "fail"))
    BY <2>2, PlaceMoves, PlaceClaims DEF ExternalPc, ClaimPc
  <2>4. Moves(t, a, With(t, a, "fail"))
    BY <2>1, <2>3 DEF Moves, Goto, Become, With
  <2>. QED  BY <1>0, <2>1, <2>3, <2>4, MoveKeepsRows
<1>3. ASSUME NEW t \in Task, NEW a \in Attempt, HubStops(t, a) PROVE SessionRows'
  <2>1. /\ Become(t, a, Idle("done")) /\ UNCHANGED <<senders, execution, dispatches>>
    BY <1>3 DEF HubStops, NoCall, execVars
  <2>2. /\ Idle("done") \in Session /\ Sound(execution, t, Idle("done"))
        /\ NoClaim(t, a, Idle("done"))
    BY FreshSound
  <2>3. Moves(t, a, Idle("done"))
    BY <2>1, <2>2 DEF Moves, Become
  <2>. QED  BY <1>0, <2>1, <2>2, <2>3, MoveKeepsRows
<1>4. ASSUME UNCHANGED <<session, senders, dispatches>> PROVE SessionRows'
  BY <1>0, <1>4, OthersMove
<1>5. CASE (\E t \in Task : AgentStep(t)) \/ OperatorStep
  BY <1>4, <1>5 DEF AgentStep, OperatorStep, execVars, workerVars
<1>6. CASE CreatePlan
  BY <1>4, <1>6 DEF CreatePlan, CreateDeploymentPlan, workerVars
<1>7. ASSUME NEW e \in Execution, ExternalStep(e) PROVE SessionRows'
  BY <1>4, <1>7 DEF ExternalStep, RecordExternalExecutionCallback, TimeoutExternalExecution,
     EndExecution, workerVars
<1>8. CASE ClockStep
  BY <1>4, <1>8 DEF ClockStep, DeadlinePasses, execVars, workerVars
<1>9. CASE UNCHANGED hubVars
  BY <1>4, <1>9 DEF hubVars, execVars, workerVars
<1>. QED
  BY <1>0, <1>1, <1>2, <1>3, <1>5, <1>6, <1>7, <1>8, <1>9, SessionStepRows DEF HubNext

-----------------------------------------------------------------------------
(* What succeeded was deployed.                                             *)

LEMMA DeployedStays ==
    ASSUME SucceededStepWasDeployed, EndedStays,
           \A e \in Execution : stepStatus'[TaskOf(e)][e[2]] = "SUCCEEDED" =>
              stepStatus[TaskOf(e)][e[2]] = "SUCCEEDED" \/ execution[e] = "SUCCEEDED"
    PROVE  SucceededStepWasDeployed'
  BY DEF SucceededStepWasDeployed, EndedStays, Ended, TaskOf

(* An event makes no other step than its own succeed, and only by its type. *)
LEMMA RecordDeployed ==
    ASSUME HubInv, EndedStays, NEW t \in Task, NEW s \in Step, NEW a, NEW n, NEW ty \in EventType,
           RecordStepRunEvent(t, s, a, n, ty),
           ty = "SUCCEEDED" /\ <<t, s>> \in Execution => execution[<<t, s>>] = "SUCCEEDED"
    PROVE  SucceededStepWasDeployed'
<1>1. SucceededStepWasDeployed /\ LeaseTypeOK
  BY DEF HubInv
<1>2. ASSUME NEW e \in Execution, stepStatus'[TaskOf(e)][e[2]] = "SUCCEEDED"
      PROVE  stepStatus[TaskOf(e)][e[2]] = "SUCCEEDED" \/ execution[e] = "SUCCEEDED"
  <2>0. e = <<e[1], e[2]>> /\ TaskOf(e) = e[1] /\ e[1] \in Task /\ e[2] \in Step
    BY ExecutionIsPair
  <2>1. CASE e[1] = t /\ e[2] = s
    <3>1. stepStatus'[t][s] = StepAfter(ty, stepStatus[t][s])
      BY <1>1 DEF RecordStepRunEvent, LeaseTypeOK
    <3>. QED  BY <1>2, <2>0, <2>1, <3>1 DEF StepAfter, EventType
  <2>2. CASE ~(e[1] = t /\ e[2] = s)
    BY <1>1, <1>2, <2>0, <2>2 DEF RecordStepRunEvent, LeaseTypeOK
  <2>. QED  BY <2>1, <2>2
<1>. QED  BY <1>1, <1>2, DeployedStays

LEMMA SessionStepDeployed ==
    ASSUME HubInv, EndedStays, NEW t \in Task, NEW a \in Attempt, SessionStep(t, a)
    PROVE  SucceededStepWasDeployed'
<1>0. SucceededStepWasDeployed /\ LeaseTypeOK
  BY DEF HubInv
<1>1. /\ session[t][a].pc \in Busy => StepOf(t, a) \in Step
      /\ session[t][a].pc = "succeed" /\ StepOf(t, a) \in Webhook
            => execution[<<t, StepOf(t, a)>>] = "SUCCEEDED"
  BY DEF HubInv, SessionRows, SessionsSound, Sound, StepOf
<1>2. ASSUME UNCHANGED stepStatus PROVE SucceededStepWasDeployed'
  BY <1>0, <1>2, DeployedStays
<1>3. ASSUME session[t][a].pc \in Busy, NEW n, NEW ty \in EventType, NEW ok, NEW err,
             Record(t, a, n, ty, ok, err),
             ty = "SUCCEEDED" => session[t][a].pc = "succeed"
      PROVE  SucceededStepWasDeployed'
  <2>1. CASE Recorded(t, a, n, ty)
    <3>1. <<t, StepOf(t, a)>> \in Execution => StepOf(t, a) \in Webhook
      BY DEF Execution
    <3>. QED  BY <1>1, <1>3, <2>1, <3>1, RecordDeployed DEF Recorded
  <2>2. CASE NoCall
    BY <1>2, <2>2 DEF NoCall, vars, leaseVars
  <2>. QED  BY <1>3, <2>1, <2>2 DEF Record, RecordFails
<1>4. CASE Start(t, a)
  BY <1>3, <1>4 DEF Start, At, Busy, EventType
<1>5. CASE Announce(t, a)
  BY <1>3, <1>5 DEF Announce, At, Busy, EventType
<1>6. CASE Emit(t, a)
  BY <1>3, <1>6 DEF Emit, At, Busy, EventType
<1>7. NoCall => UNCHANGED stepStatus
  BY DEF NoCall, vars, leaseVars
<1>8. CASE Await(t, a)
  BY <1>2, <1>3, <1>7, <1>8 DEF Await, At, Busy, EventType
<1>9. CASE Report(t, a)
  BY <1>3, <1>9 DEF Report, At, Busy, EventType
<1>10. CASE Fail(t, a)
  BY <1>3, <1>10 DEF Fail, At, Busy, EventType
<1>11. CASE Succeed(t, a)
  BY <1>3, <1>11 DEF Succeed, At, Busy, EventType
<1>12. CASE Prepare(t, a) \/ Trigger(t, a) \/ Deadline(t, a) \/ FailExecution(t, a)
  BY <1>2, <1>7, <1>12 DEF Prepare, Trigger, Deadline, FailExecution, leaseVars
<1>13. CASE Reconcile(t, a) \/ Post(t, a) \/ Wait(t, a)
  BY <1>2, <1>7, <1>13 DEF Reconcile, Post, Wait
<1>. QED
  BY <1>4, <1>5, <1>6, <1>8, <1>9, <1>10, <1>11, <1>12, <1>13 DEF SessionStep

LEMMA DeployedNext == HubInv /\ [HubNext]_hubVars => SucceededStepWasDeployed'
<1>. SUFFICES ASSUME HubInv, [HubNext]_hubVars PROVE SucceededStepWasDeployed'
  OBVIOUS
<1>0. SucceededStepWasDeployed /\ LeaseTypeOK /\ EndedStays
  BY HubNextAllowed, EndedNext DEF HubInv
<1>1. ASSUME UNCHANGED stepStatus PROVE SucceededStepWasDeployed'
  BY <1>0, <1>1, DeployedStays
<1>2. ASSUME NEW t \in Task,
             stepStatus' = [stepStatus EXCEPT ![t] = resetInterruptedStepRuns(t)]
      PROVE  SucceededStepWasDeployed'
  <2>1. \A u \in Task, s \in Step :
           stepStatus'[u][s] = "SUCCEEDED" => stepStatus[u][s] = "SUCCEEDED"
    BY <1>0, <1>2, ResetOnlyRunning
  <2>. QED  BY <1>0, <2>1, DeployedStays, ExecutionIsPair
<1>3. ASSUME NEW t \in Task, NEW e, LeaseTask(t, e) PROVE SucceededStepWasDeployed'
  BY <1>1, <1>2, <1>3 DEF LeaseTask, ClaimQueuedTask, ReclaimRunningTask, ReleaseExpiredLease
<1>4. ASSUME NEW t \in Task, NEW a \in Attempt, HubLease(t, a) PROVE SucceededStepWasDeployed'
  BY <1>3, <1>4 DEF HubLease, LeaseTask
<1>5. ASSUME NEW t \in Task, NEW a \in Attempt, HeartbeatFails(t, a) \/ HubStops(t, a)
      PROVE  SucceededStepWasDeployed'
  BY <1>1, <1>5 DEF HeartbeatFails, HubStops, NoCall, vars, leaseVars
<1>6. ASSUME NEW t \in Task, AgentStep(t) PROVE SucceededStepWasDeployed'
  <2>1. ASSUME NEW s \in Step, NEW a \in Attempt, NEW n, NEW ty \in EventType,
               Location[s] = "target", RecordStepRunEvent(t, s, a, n, ty)
        PROVE  SucceededStepWasDeployed'
    <3>1. <<t, s>> \notin Execution
      BY <2>1, ExecutionIsPair
    <3>. QED  BY <1>0, <2>1, <3>1, RecordDeployed
  <2>. QED  BY <1>3, <1>6, <2>1 DEF AgentStep
<1>7. ASSUME NEW p, NEW request, CreatePlanTasks(p, request) PROVE SucceededStepWasDeployed'
  <2>1. ASSUME NEW u \in Task, NEW s \in Step, stepStatus'[u][s] = "SUCCEEDED"
        PROVE  stepStatus[u][s] = "SUCCEEDED"
    <3>1. stepStatus'[u] = IF u \in NewTasks(p) THEN insertStepRuns(u) ELSE stepStatus[u]
      BY <1>7 DEF CreatePlanTasks
    <3>. QED  BY <2>1, <3>1 DEF insertStepRuns
  <2>. QED  BY <1>0, <2>1, DeployedStays, ExecutionIsPair
<1>8. CASE OperatorStep
  BY <1>1, <1>7, <1>8 DEF OperatorStep, FailPlanPreflight, BlockReleaseBundle, StartTaskByHand,
     FinishTaskByHand, leaseVars
<1>9. CASE CreatePlan \/ \E e \in Execution : ExternalStep(e)
  BY <1>1, <1>9 DEF CreatePlan, ExternalStep, leaseVars
<1>10. CASE ClockStep
  BY <1>1, <1>10 DEF ClockStep, LeaseExpires, leaseVars
<1>11. CASE UNCHANGED hubVars
  BY <1>1, <1>11 DEF hubVars, vars, leaseVars
<1>. QED
  BY <1>0, <1>4, <1>5, <1>6, <1>8, <1>9, <1>10, <1>11, SessionStepDeployed DEF HubNext

-----------------------------------------------------------------------------
(* The theorems.                                                            *)

LEMMA HubInvInit == HubInit => HubInv
<1>. SUFFICES ASSUME HubInit PROVE HubInv
  OBVIOUS
<1>1. LeaseTypeOK /\ HistoryInv
  BY LeaseTypeInit, HistoryInit DEF HubInit
<1>2. /\ session = [t \in Task |-> [a \in Attempt |-> Idle("none")]]
      /\ senders = [e \in Execution |-> {}]
      /\ stepStatus = [t \in Task |-> [s \in Step |-> "NONE"]]
  BY DEF HubInit, Init
<1>3. Idle("none") \in Session /\ Idle("none").pc = "none" /\ Idle("none").external = "NONE"
  BY IdleAndBegin
<1>4. WorkerTypeOK
  BY <1>2, <1>3 DEF WorkerTypeOK
<1>5. SessionsSound
  BY <1>2, <1>3 DEF SessionsSound, Sound, Busy, ExternalPc, Ended
<1>6. OneClaimant
  <2>1. ASSUME NEW e \in Execution PROVE Claimants(e) = {}
    BY <1>2, <1>3, ExecutionIsPair DEF Claimants, ClaimPc
  <2>. QED  BY <2>1 DEF OneClaimant
<1>7. SucceededStepWasDeployed
  BY <1>2, ExecutionIsPair DEF SucceededStepWasDeployed
<1>. QED  BY <1>1, <1>4, <1>5, <1>6, <1>7 DEF HubInv, SessionRows

LEMMA HubInvNext == HubInv /\ [HubNext]_hubVars => HubInv'
<1>. SUFFICES ASSUME HubInv, [HubNext]_hubVars PROVE HubInv'
  OBVIOUS
<1>1. LeaseTypeOK' /\ HistoryInv'
  BY HubNextAllowed, LeaseTypeNext, HistoryNext DEF HubInv
<1>. QED  BY <1>1, HubNextRows, DeployedNext DEF HubInv

LEMMA HubInvariant == HubSpec => []HubInv
  BY HubInvInit, HubInvNext, PTL DEF HubSpec

(***************************************************************************)
(* Whatever the hub's sessions do, on stale copies and over an unreliable   *)
(* database, they stay within what the lease table and the execution table  *)
(* allow: the results about those hold with the worker on top.              *)
(***************************************************************************)
THEOREM WorkerImplementsStores == HubSpec => Spec /\ ExecSpec
<1>1. HubInit => Init /\ ExecInit
  BY DEF HubInit
<1>. QED
  BY <1>1, HubInvariant, HubNextAllowed, PTL DEF HubSpec, Spec, ExecSpec

(***************************************************************************)
(* ADR-0052's "never invokes that execution again": one attempt at most     *)
(* sends the request of an execution, for any number of attempts, whether   *)
(* their leases expire or the answer to the claim is lost.                  *)
(***************************************************************************)
THEOREM OnlyTheClaimantSends == HubSpec => []SentByClaimantOnly
<1>1. HubInv => SentByClaimantOnly
  BY DEF HubInv, SessionRows, OneClaimant, Claimants, SentByClaimantOnly
<1>. QED  BY <1>1, HubInvariant, PTL

(***************************************************************************)
(* A callback-mode step recorded as succeeded was deployed, although its    *)
(* session decides on a copy that callbacks, deadlines and other sessions   *)
(* may have overtaken.                                                      *)
(***************************************************************************)
THEOREM SuccessWasDeployed == HubSpec => []SucceededStepWasDeployed
<1>1. HubInv => SucceededStepWasDeployed
  BY DEF HubInv
<1>. QED  BY <1>1, HubInvariant, PTL
=============================================================================
