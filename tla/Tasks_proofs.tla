---------------------------- MODULE Tasks_proofs ----------------------------
(***************************************************************************)
(* Proofs about TaskQueue, for every set of plans, targets, components and  *)
(* lock resources, and about TaskLeases, for every set of steps and         *)
(* attempts: resources are exclusive, what leases and step events do is     *)
(* something the task queue allows, and a task has at most one active       *)
(* lease, its latest.  About TaskTransactions, for any number of            *)
(* connections: what interleaved transactions commit is one step of the     *)
(* task queue, and what they can deadlock on.                               *)
(***************************************************************************)
EXTENDS TaskLeases, TaskTransactions, SequenceTheorems, FiniteSetTheorems,
        WellFoundedInduction, TLAPS

-----------------------------------------------------------------------------
(* The task queue.                                                          *)

(* The tasks of a plan are tasks.                                           *)
LEMMA NewTasksAreTasks == \A p \in Plan : NewTasks(p) \subseteq Task
  BY DEF Task

(* A normalised request gives every resource of a task a policy or none.    *)
LEMMA RequestedPolicyType ==
  ASSUME NEW req \in NormalRequest, NEW t, NEW r
  PROVE  RequestedPolicy(req, t, r) \in Policy \cup {"NONE"}
  BY DEF NormalRequest, RequestedPolicy

(* Normalisation leaves no policy empty.                                    *)
LEMMA NormalizedType ==
  ASSUME NEW request \in Request
  PROVE  normalizeTaskLockResourceRequests(request) \in NormalRequest
  BY DEF Request, NormalRequest, normalizeTaskLockResourceRequests, Policy

(* Only queued tasks of other plans are canceled by a creation.             *)
LEMMA CanceledWereQueued ==
  ASSUME NEW p, NEW req, NEW rs, NEW t \in CancelOlderQueuedTasks(p, req, rs)
  PROVE  t \in Task /\ t \notin NewTasks(p) /\ status[t] = "QUEUED"
  BY DEF CancelOlderQueuedTasks, UnreleasedOn

-----------------------------------------------------------------------------
(* What the creation of a plan's tasks appends to the queue.                *)
LEMMA TasksInOrderType ==
  ASSUME NEW p \in Plan
  PROVE  TasksInOrder(p) \in Seq(Task)
<1>1. PlanTargets[p] \in Seq(Target)
  BY PlanAssumption
<1>2. Len(PlanTargets[p]) \in Nat /\ DOMAIN PlanTargets[p] = 1..Len(PlanTargets[p])
  BY <1>1
<1>3. \A i \in 1..Len(PlanTargets[p]) : <<p, PlanTargets[p][i]>> \in Task
  BY <1>2, NewTasksAreTasks DEF NewTasks
<1>4. TasksInOrder(p) \in [1..Len(PlanTargets[p]) -> Task]
  BY <1>3 DEF TasksInOrder
<1> QED
  BY <1>2, <1>4, SeqDef

LEMMA QueueTypeInit == QueueInit => QueueTypeOK
  BY DEF QueueInit, QueueTypeOK, PlanStatus, TaskStatus

LEMMA QueueTypeNext == QueueTypeOK /\ [QueueNext]_queueVars => QueueTypeOK'
<1> SUFFICES ASSUME QueueTypeOK, [QueueNext]_queueVars
             PROVE  QueueTypeOK'
  OBVIOUS
<1>1. ASSUME NEW p \in Plan, CreateTasksPreflightFailed(p)
      PROVE  QueueTypeOK'
  BY <1>1 DEF CreateTasksPreflightFailed, QueueTypeOK
<1>2. ASSUME NEW p \in Plan, NEW req \in NormalRequest, CreateTasks(p, req)
      PROVE  QueueTypeOK'
  <2> DEFINE canceled == CancelOlderQueuedTasks(p, req, Resource)
  <2>1. planStatus' \in [Plan -> PlanStatus]
    BY <1>2 DEF CreateTasks, QueueTypeOK, PlanStatus
  <2>2. preflight' \in [Plan -> {"NONE", "FAILED", "PASSED"}]
    BY <1>2 DEF CreateTasks, QueueTypeOK
  <2>3. status' \in [Task -> TaskStatus]
    BY <1>2 DEF CreateTasks, QueueTypeOK, TaskStatus
  <2>4. queue' \in Seq(Task)
    BY <1>2, TasksInOrderType, ConcatProperties DEF CreateTasks, QueueTypeOK
  <2>5. policy' \in [Task -> [Resource -> Policy \cup {"NONE"}]]
    BY <1>2, RequestedPolicyType DEF CreateTasks, QueueTypeOK
  <2>6. released' \in [Task -> SUBSET Resource]
    BY <1>2 DEF CreateTasks, QueueTypeOK, Locks
  <2>7. acquired' \in [Task -> SUBSET Resource]
    BY <1>2 DEF CreateTasks, QueueTypeOK
  <2> QED
    BY <2>1, <2>2, <2>3, <2>4, <2>5, <2>6, <2>7 DEF QueueTypeOK
<1>3. ASSUME NEW t \in Task, StartTask(t)
      PROVE  QueueTypeOK'
  BY <1>3 DEF StartTask, QueueTypeOK, TaskStatus, Locks
<1>4. ASSUME NEW t \in Task, NEW s \in TaskStatus, FinishTask(t, s)
      PROVE  QueueTypeOK'
  BY <1>4 DEF FinishTask, QueueTypeOK, TaskStatus, Locks
<1>5. CASE UNCHANGED queueVars
  BY <1>5 DEF queueVars, QueueTypeOK
<1> QED
  BY <1>1, <1>2, <1>3, <1>4, <1>5, NormalizedType
     DEF QueueNext, TransitionTaskState, CreateTasksForDeploymentPlan

(***************************************************************************)
(* The tables of the task queue keep their shape under every sequence of    *)
(* creations, starts and completions.                                       *)
(***************************************************************************)
THEOREM QueueTypeCorrect == QueueSpec => []QueueTypeOK
  BY QueueTypeInit, QueueTypeNext, PTL DEF QueueSpec

-----------------------------------------------------------------------------
(* Lock rows follow the status of their task.                               *)
LEMMA LocksFollowInit == QueueInit => LocksFollowTask
  BY DEF QueueInit, LocksFollowTask, Terminal, Locks

LEMMA LocksFollowNext ==
  QueueTypeOK /\ LocksFollowTask /\ [QueueNext]_queueVars => LocksFollowTask'
<1> SUFFICES ASSUME QueueTypeOK, LocksFollowTask, [QueueNext]_queueVars
             PROVE  LocksFollowTask'
  OBVIOUS
<1>1. ASSUME NEW p \in Plan, CreateTasksPreflightFailed(p)
      PROVE  LocksFollowTask'
  BY <1>1 DEF CreateTasksPreflightFailed, LocksFollowTask, Locks
<1>2. ASSUME NEW p \in Plan, NEW req \in NormalRequest, CreateTasks(p, req)
      PROVE  LocksFollowTask'
  <2> DEFINE canceled == CancelOlderQueuedTasks(p, req, Resource)
  <2> SUFFICES ASSUME NEW t \in Task
               PROVE  /\ acquired'[t] \subseteq Locks(t)'
                      /\ released'[t] = IF status'[t] \in Terminal THEN Locks(t)' ELSE {}
                      /\ status'[t] = "RUNNING" => acquired'[t] = Locks(t)'
                      /\ status'[t] \in {"NONE", "QUEUED", "CANCELED"} => acquired'[t] = {}
    BY DEF LocksFollowTask
  <2>1. CASE t \in NewTasks(p)
    <3>1. status[t] = "NONE" /\ status'[t] = "QUEUED" /\ t \notin canceled
      BY <1>2, <2>1, CanceledWereQueued DEF CreateTasks, QueueTypeOK
    <3>2. acquired[t] = {} /\ released[t] = {}
      BY <3>1 DEF LocksFollowTask, Terminal
    <3>3. acquired'[t] = {} /\ released'[t] = {}
      BY <1>2, <3>1, <3>2 DEF CreateTasks, QueueTypeOK
    <3> QED
      BY <3>1, <3>3 DEF Terminal
  <2>2. CASE t \notin NewTasks(p) /\ t \in canceled
    <3>1. status[t] = "QUEUED" /\ status'[t] = "CANCELED"
      BY <1>2, <2>2, CanceledWereQueued DEF CreateTasks, QueueTypeOK
    <3>2. acquired'[t] = {}
      BY <1>2, <3>1 DEF CreateTasks, LocksFollowTask
    <3>3. released'[t] = Locks(t)'
      BY <1>2, <2>2 DEF CreateTasks, QueueTypeOK, Locks
    <3> QED
      BY <3>1, <3>2, <3>3 DEF Terminal
  <2>3. CASE t \notin NewTasks(p) /\ t \notin canceled
    <3>1. status'[t] = status[t] /\ acquired'[t] = acquired[t]
            /\ released'[t] = released[t] /\ Locks(t)' = Locks(t)
      BY <1>2, <2>3 DEF CreateTasks, QueueTypeOK, Locks
    <3> QED
      BY <3>1 DEF LocksFollowTask
  <2> QED
    BY <2>1, <2>2, <2>3
<1>3. ASSUME NEW t \in Task, StartTask(t)
      PROVE  LocksFollowTask'
  <2>1. \A u \in Task : Locks(u)' = Locks(u) /\ released'[u] = released[u]
    BY <1>3 DEF StartTask, Locks
  <2>2. acquired'[t] = Locks(t) /\ status'[t] = "RUNNING"
    BY <1>3 DEF StartTask, LocksFollowTask, QueueTypeOK, Terminal
  <2>3. \A u \in Task \ {t} : acquired'[u] = acquired[u] /\ status'[u] = status[u]
    BY <1>3 DEF StartTask, QueueTypeOK
  <2>4. released[t] = {}
    BY <1>3 DEF StartTask, LocksFollowTask, Terminal
  <2> QED
    BY <2>1, <2>2, <2>3, <2>4 DEF LocksFollowTask, Terminal
<1>4. ASSUME NEW t \in Task, NEW s \in TaskStatus, FinishTask(t, s)
      PROVE  LocksFollowTask'
  <2>1. \A u \in Task : Locks(u)' = Locks(u) /\ acquired'[u] = acquired[u]
    BY <1>4 DEF FinishTask, Locks
  <2>2. released'[t] = Locks(t) /\ status'[t] \in {"SUCCEEDED", "FAILED"}
    BY <1>4 DEF FinishTask, QueueTypeOK
  <2>3. \A u \in Task \ {t} : released'[u] = released[u] /\ status'[u] = status[u]
    BY <1>4 DEF FinishTask, QueueTypeOK
  <2> QED
    BY <2>1, <2>2, <2>3 DEF LocksFollowTask, Terminal
<1>5. CASE UNCHANGED queueVars
  BY <1>5 DEF queueVars, LocksFollowTask, Locks
<1> QED
  BY <1>1, <1>2, <1>3, <1>4, <1>5, NormalizedType
     DEF QueueNext, TransitionTaskState, CreateTasksForDeploymentPlan

(***************************************************************************)
(* However a task ends, its locks are unreleased exactly while it is queued *)
(* or running and held exactly while it runs.                               *)
(***************************************************************************)
THEOREM LockRowsFollowTasks == QueueSpec => []LocksFollowTask
  BY QueueTypeCorrect, LocksFollowInit, LocksFollowNext, PTL DEF QueueSpec

-----------------------------------------------------------------------------
(* Mutual exclusion over resources.                                         *)

(* Whoever holds a lock runs.                                               *)
LEMMA HoldersRun ==
  ASSUME QueueTypeOK, LocksFollowTask, NEW r \in Resource, NEW t \in HeldBy(r)
  PROVE  t \in Task /\ status[t] = "RUNNING"
<1>1. t \in Task /\ r \in acquired[t] /\ r \notin released[t]
  BY DEF HeldBy
<1>2. status[t] \in TaskStatus
  BY <1>1 DEF QueueTypeOK
<1> QED
  BY <1>1, <1>2 DEF LocksFollowTask, TaskStatus, Terminal

LEMMA NoDuplicateNext ==
  QueueTypeOK /\ LocksFollowTask /\ NoDuplicateActiveLock /\ [QueueNext]_queueVars
    => NoDuplicateActiveLock'
<1> SUFFICES ASSUME QueueTypeOK, LocksFollowTask, NoDuplicateActiveLock,
                    [QueueNext]_queueVars
             PROVE  NoDuplicateActiveLock'
  OBVIOUS
<1>1. ASSUME NEW p \in Plan, CreateTasksPreflightFailed(p)
      PROVE  NoDuplicateActiveLock'
  BY <1>1 DEF CreateTasksPreflightFailed, NoDuplicateActiveLock, HeldBy, Exclusive
<1>2. ASSUME NEW p \in Plan, NEW req \in NormalRequest, CreateTasks(p, req)
      PROVE  NoDuplicateActiveLock'
  <2> DEFINE canceled == CancelOlderQueuedTasks(p, req, Resource)
  <2>1. ASSUME NEW r \in Resource, NEW t \in HeldBy(r)'
        PROVE  t \in HeldBy(r) /\ policy'[t] = policy[t]
    <3>1. t \in Task /\ r \in acquired[t] /\ r \notin released'[t]
      BY <1>2, <2>1 DEF CreateTasks, HeldBy
    <3>2. t \notin NewTasks(p)
      BY <1>2, <3>1 DEF CreateTasks, LocksFollowTask
    <3>3. t \notin canceled
      BY <3>1, CanceledWereQueued DEF LocksFollowTask
    <3> QED
      BY <1>2, <3>1, <3>2, <3>3 DEF CreateTasks, QueueTypeOK, HeldBy
  <2> QED
    BY <2>1 DEF NoDuplicateActiveLock, Exclusive
<1>3. ASSUME NEW t \in Task, StartTask(t)
      PROVE  NoDuplicateActiveLock'
  <2>1. \A r \in Resource : HeldBy(r)' \subseteq HeldBy(r) \cup {t}
    BY <1>3 DEF StartTask, HeldBy, QueueTypeOK
  <2>2. \A r \in Resource : t \in HeldBy(r)' => r \in Locks(t)
    BY <1>3 DEF StartTask, HeldBy, QueueTypeOK, LocksFollowTask
  <2>3. ASSUME NEW r \in Resource, NEW u \in HeldBy(r), u # t, r \in Locks(t), Exclusive(t, r)
        PROVE  FALSE
    <3>1. u \in Task /\ status[u] = "RUNNING" /\ r \in acquired[u] \ released[u]
      BY <2>3, HoldersRun DEF HeldBy
    <3>2. hasActiveTaskResourceConflict(t, r)
      BY <2>3, <3>1 DEF hasActiveTaskResourceConflict
    <3>3. policy[t][r] # "ALLOW_PARALLEL"
      BY <2>3 DEF Exclusive
    <3> QED
      BY <1>3, <2>3, <3>2, <3>3 DEF StartTask
  <2>4. policy' = policy
    BY <1>3 DEF StartTask
  <2> QED
    BY <2>1, <2>2, <2>3, <2>4 DEF NoDuplicateActiveLock, Exclusive
<1>4. ASSUME NEW t \in Task, NEW s \in TaskStatus, FinishTask(t, s)
      PROVE  NoDuplicateActiveLock'
  <2>1. \A r \in Resource : HeldBy(r)' \subseteq HeldBy(r)
    BY <1>4 DEF FinishTask, HeldBy, QueueTypeOK, LocksFollowTask
  <2> QED
    BY <1>4, <2>1 DEF FinishTask, NoDuplicateActiveLock, Exclusive
<1>5. CASE UNCHANGED queueVars
  BY <1>5 DEF queueVars, NoDuplicateActiveLock, HeldBy, Exclusive
<1> QED
  BY <1>1, <1>2, <1>3, <1>4, <1>5, NormalizedType
     DEF QueueNext, TransitionTaskState, CreateTasksForDeploymentPlan

(***************************************************************************)
(* No resource ever has two exclusive holders, for any number of plans,     *)
(* tasks and resources and any mix of concurrency policies.                 *)
(***************************************************************************)
THEOREM ResourceMutualExclusion == QueueSpec => []NoDuplicateActiveLock
<1>1. QueueInit => NoDuplicateActiveLock
  BY DEF QueueInit, NoDuplicateActiveLock, HeldBy
<1> QED
  BY <1>1, QueueTypeCorrect, LockRowsFollowTasks, NoDuplicateNext, PTL DEF QueueSpec
-----------------------------------------------------------------------------
(* The queue table: one row per task of an executed plan.                   *)

(* A task belongs to the plan it names.                                     *)
LEMMA TaskOfItsPlan ==
  ASSUME NEW t \in Task
  PROVE  t[1] \in Plan /\ t \in NewTasks(t[1])
  BY DEF Task, NewTasks

LEMMA TaskOfOnePlan ==
  ASSUME NEW p \in Plan, NEW t \in NewTasks(p)
  PROVE  t[1] = p
  BY DEF NewTasks

(* The rows a creation appends: every new task once, in order.              *)
LEMMA AppendedRows ==
  ASSUME NEW p \in Plan
  PROVE  /\ TasksInOrder(p) \in Seq(Task)
         /\ Len(TasksInOrder(p)) \in Nat
         /\ DOMAIN TasksInOrder(p) = 1..Len(TasksInOrder(p))
         /\ \A i \in 1..Len(TasksInOrder(p)) : TasksInOrder(p)[i] \in NewTasks(p)
         /\ \A t \in NewTasks(p) : \E i \in 1..Len(TasksInOrder(p)) : TasksInOrder(p)[i] = t
         /\ \A i, j \in 1..Len(TasksInOrder(p)) :
               TasksInOrder(p)[i] = TasksInOrder(p)[j] => i = j
<1>1. PlanTargets[p] \in Seq(Target)
  BY PlanAssumption
<1>2. Len(PlanTargets[p]) \in Nat /\ DOMAIN PlanTargets[p] = 1..Len(PlanTargets[p])
  BY <1>1
<1>3. TasksInOrder(p) \in Seq(Task)
  BY TasksInOrderType
<1>4. Len(TasksInOrder(p)) = Len(PlanTargets[p])
  <2>1. DOMAIN TasksInOrder(p) = 1..Len(PlanTargets[p])
    BY DEF TasksInOrder
  <2>2. Len(TasksInOrder(p)) \in Nat /\ DOMAIN TasksInOrder(p) = 1..Len(TasksInOrder(p))
    BY <1>3
  <2> QED
    BY <1>2, <2>1, <2>2
<1>5. \A i \in 1..Len(PlanTargets[p]) : TasksInOrder(p)[i] = <<p, PlanTargets[p][i]>>
  BY DEF TasksInOrder
<1>6. \A i, j \in 1..Len(PlanTargets[p]) : PlanTargets[p][i] = PlanTargets[p][j] => i = j
  BY <1>2, PlanAssumption
<1>7. \A i \in 1..Len(PlanTargets[p]) : TasksInOrder(p)[i] \in NewTasks(p)
  BY <1>2, <1>5 DEF NewTasks
<1>8. \A t \in NewTasks(p) : \E i \in 1..Len(PlanTargets[p]) : TasksInOrder(p)[i] = t
  BY <1>2, <1>5 DEF NewTasks
<1>9. \A i, j \in 1..Len(PlanTargets[p]) : TasksInOrder(p)[i] = TasksInOrder(p)[j] => i = j
  BY <1>5, <1>6
<1>10. DOMAIN TasksInOrder(p) = 1..Len(PlanTargets[p])
  BY DEF TasksInOrder
<1> QED
  BY <1>2, <1>3, <1>4, <1>7, <1>8, <1>9, <1>10

(* Where a row of the longer queue comes from.                              *)
LEMMA LongerQueue ==
  ASSUME NEW p \in Plan, queue \in Seq(Task), queue' = queue \o TasksInOrder(p)
  PROVE  /\ Len(queue) \in Nat
         /\ DOMAIN queue = 1..Len(queue)
         /\ DOMAIN queue' = 1..(Len(queue) + Len(TasksInOrder(p)))
         /\ \A i \in DOMAIN queue' :
               IF i <= Len(queue) THEN i \in DOMAIN queue /\ queue'[i] = queue[i]
               ELSE /\ i - Len(queue) \in 1..Len(TasksInOrder(p))
                    /\ queue'[i] = TasksInOrder(p)[i - Len(queue)]
                    /\ queue'[i] \in NewTasks(p)
<1>1. /\ TasksInOrder(p) \in Seq(Task)
      /\ Len(TasksInOrder(p)) \in Nat
      /\ \A i \in 1..Len(TasksInOrder(p)) : TasksInOrder(p)[i] \in NewTasks(p)
  BY AppendedRows
<1>2. Len(queue) \in Nat /\ DOMAIN queue = 1..Len(queue)
  OBVIOUS
<1> DEFINE q2 == TasksInOrder(p)
<1> HIDE DEF q2
<1>3. /\ q2 \in Seq(Task) /\ Len(q2) \in Nat
      /\ \A i \in 1..Len(q2) : q2[i] \in NewTasks(p)
  BY <1>1 DEF q2
<1>4. /\ Len(queue \o q2) = Len(queue) + Len(q2)
      /\ DOMAIN (queue \o q2) = 1..(Len(queue) + Len(q2))
      /\ \A i \in 1..(Len(queue) + Len(q2)) :
            (queue \o q2)[i] = IF i <= Len(queue) THEN queue[i] ELSE q2[i - Len(queue)]
  BY <1>2, <1>3
<1>5. \A i \in 1..(Len(queue) + Len(q2)) :
        i > Len(queue) => i - Len(queue) \in 1..Len(q2)
  BY <1>2, <1>3
<1>6. queue' = queue \o q2
  BY DEF q2
<1>7. /\ DOMAIN queue' = 1..(Len(queue) + Len(q2))
      /\ \A i \in DOMAIN queue' :
            IF i <= Len(queue) THEN i \in DOMAIN queue /\ queue'[i] = queue[i]
            ELSE /\ i - Len(queue) \in 1..Len(q2)
                 /\ queue'[i] = q2[i - Len(queue)]
                 /\ queue'[i] \in NewTasks(p)
  BY <1>2, <1>3, <1>4, <1>5, <1>6
<1> QED
  BY <1>2, <1>7 DEF q2
LEMMA PlanExecutedInit == QueueInit => PlanExecutedOnce
  BY TaskOfItsPlan DEF QueueInit, PlanExecutedOnce

LEMMA PlanExecutedNext ==
  QueueTypeOK /\ PlanExecutedOnce /\ [QueueNext]_queueVars => PlanExecutedOnce'
<1> SUFFICES ASSUME QueueTypeOK, PlanExecutedOnce, [QueueNext]_queueVars
             PROVE  PlanExecutedOnce'
  OBVIOUS
<1>1. ASSUME NEW p \in Plan, CreateTasksPreflightFailed(p)
      PROVE  PlanExecutedOnce'
  BY <1>1 DEF CreateTasksPreflightFailed, PlanExecutedOnce
<1>2. ASSUME NEW p \in Plan, NEW req \in NormalRequest, CreateTasks(p, req)
      PROVE  PlanExecutedOnce'
  <2> DEFINE canceled == CancelOlderQueuedTasks(p, req, Resource)
             new == TasksInOrder(p)
  <2>1. \A t \in Task : status'[t] = "NONE" <=> (status[t] = "NONE" /\ t \notin NewTasks(p))
    BY <1>2, CanceledWereQueued DEF CreateTasks
  <2>2. \A t \in NewTasks(p) : t \in Task /\ status[t] = "NONE"
    BY <1>2, NewTasksAreTasks DEF CreateTasks
  <2>3. /\ Len(queue) \in Nat /\ DOMAIN queue = 1..Len(queue)
        /\ DOMAIN queue' = 1..(Len(queue) + Len(new))
        /\ \A i \in DOMAIN queue' :
              IF i <= Len(queue) THEN i \in DOMAIN queue /\ queue'[i] = queue[i]
              ELSE /\ i - Len(queue) \in 1..Len(new)
                   /\ queue'[i] = new[i - Len(queue)]
                   /\ queue'[i] \in NewTasks(p)
    BY <1>2, LongerQueue DEF CreateTasks, QueueTypeOK
  <2>4. /\ Len(new) \in Nat
        /\ \A t \in NewTasks(p) : \E i \in 1..Len(new) : new[i] = t
        /\ \A i, j \in 1..Len(new) : new[i] = new[j] => i = j
    BY AppendedRows
  <2> HIDE DEF new
  <2>5. ASSUME NEW i \in DOMAIN queue
        PROVE  queue[i] \in Task /\ queue[i] \notin NewTasks(p) /\ status[queue[i]] # "NONE"
    <3>1. queue[i] \in Task
      BY DEF QueueTypeOK
    <3> QED
      BY <3>1, <2>2 DEF PlanExecutedOnce
  <2>6. ASSUME NEW t \in Task
        PROVE  status'[t] # "NONE" <=> planStatus'[t[1]] = "EXECUTED"
    <3>1. CASE t[1] = p
      BY <1>2, <2>1, <3>1, TaskOfItsPlan DEF CreateTasks, QueueTypeOK
    <3>2. CASE t[1] # p
      <4>1. t \notin NewTasks(p)
        BY <3>2, TaskOfOnePlan
      <4>2. planStatus'[t[1]] = planStatus[t[1]]
        BY <1>2, <3>2, TaskOfItsPlan DEF CreateTasks, QueueTypeOK
      <4> QED
        BY <2>1, <4>1, <4>2 DEF PlanExecutedOnce
    <3> QED
      BY <3>1, <3>2
  <2>7. ASSUME NEW i \in DOMAIN queue', NEW j \in DOMAIN queue', queue'[i] = queue'[j]
        PROVE  i = j
    <3>1. CASE i <= Len(queue) /\ j <= Len(queue)
      BY <2>3, <2>7, <3>1 DEF PlanExecutedOnce
    <3>2. CASE ~(i <= Len(queue)) /\ ~(j <= Len(queue))
      <4>1. i - Len(queue) = j - Len(queue)
        BY <2>3, <2>4, <2>7, <3>2
      <4> QED
        BY <2>3, <2>4, <4>1
    <3>3. ASSUME NEW k \in DOMAIN queue', NEW l \in DOMAIN queue',
                 k <= Len(queue), ~(l <= Len(queue))
          PROVE  queue'[k] # queue'[l]
      BY <2>3, <2>5, <3>3
    <3> QED
      BY <2>7, <3>1, <3>2, <3>3
  <2>8. ASSUME NEW t \in Task
        PROVE  status'[t] # "NONE" <=> \E i \in DOMAIN queue' : queue'[i] = t
    <3>1. ASSUME t \in NewTasks(p)
          PROVE  \E i \in DOMAIN queue' : queue'[i] = t
      <4>1. PICK k \in 1..Len(new) : new[k] = t
        BY <2>4, <3>1
      <4>2. k + Len(queue) \in DOMAIN queue' /\ ~(k + Len(queue) <= Len(queue))
              /\ (k + Len(queue)) - Len(queue) = k
        BY <2>3, <2>4
      <4> QED
        BY <2>3, <4>1, <4>2
    <3>2. ASSUME t \notin NewTasks(p), status[t] # "NONE"
          PROVE  \E i \in DOMAIN queue' : queue'[i] = t
      <4>1. PICK i \in DOMAIN queue : queue[i] = t
        BY <3>2 DEF PlanExecutedOnce
      <4>2. i \in DOMAIN queue' /\ i <= Len(queue)
        BY <2>3, <2>4
      <4> QED
        BY <2>3, <4>1, <4>2
    <3>3. ASSUME NEW i \in DOMAIN queue', queue'[i] = t
          PROVE  t \in NewTasks(p) \/ status[t] # "NONE"
      BY <2>3, <2>5, <3>3
    <3> QED
      BY <2>1, <3>1, <3>2, <3>3
  <2> QED
    BY <2>6, <2>7, <2>8 DEF PlanExecutedOnce
<1>3. ASSUME NEW t \in Task, NEW s \in TaskStatus, StartTask(t) \/ FinishTask(t, s)
      PROVE  PlanExecutedOnce'
  <2>1. /\ planStatus' = planStatus /\ queue' = queue
        /\ \A u \in Task : status'[u] = "NONE" <=> status[u] = "NONE"
    BY <1>3 DEF StartTask, FinishTask, QueueTypeOK
  <2> QED
    BY <2>1 DEF PlanExecutedOnce
<1>4. CASE UNCHANGED queueVars
  BY <1>4 DEF queueVars, PlanExecutedOnce
<1> QED
  BY <1>1, <1>2, <1>3, <1>4, NormalizedType
     DEF QueueNext, TransitionTaskState, CreateTasksForDeploymentPlan

(***************************************************************************)
(* Tasks exist exactly for the executed plans, and every task has exactly   *)
(* one row of the queue: no interleaving of creations executes a plan twice *)
(* or in part (insertTasksForDeploymentPlan, markDeploymentPlanExecuted).   *)
(***************************************************************************)
THEOREM PlansExecuteOnce == QueueSpec => []PlanExecutedOnce
  BY QueueTypeCorrect, PlanExecutedInit, PlanExecutedNext, PTL DEF QueueSpec

-----------------------------------------------------------------------------
(* Concurrency policies.                                                    *)

(* How a creation changes the age order: a task of the old queue keeps its  *)
(* elders, and whoever is older than a new task was in the old queue.       *)
LEMMA EldersOfOld ==
  ASSUME QueueTypeOK, PlanExecutedOnce, NEW p \in Plan, NEW req \in NormalRequest,
         CreateTasks(p, req), NEW t \in Task, NEW u \in Task, OlderThan(t, u)'
  PROVE  /\ t \notin NewTasks(p)
         /\ u \notin NewTasks(p) => OlderThan(t, u)
<1> DEFINE new == TasksInOrder(p)
<1>1. /\ Len(queue) \in Nat /\ DOMAIN queue = 1..Len(queue)
      /\ DOMAIN queue' = 1..(Len(queue) + Len(new))
      /\ \A i \in DOMAIN queue' :
            IF i <= Len(queue) THEN i \in DOMAIN queue /\ queue'[i] = queue[i]
            ELSE /\ i - Len(queue) \in 1..Len(new)
                 /\ queue'[i] = new[i - Len(queue)]
                 /\ queue'[i] \in NewTasks(p)
  BY LongerQueue DEF CreateTasks, QueueTypeOK
<1>2. Len(new) \in Nat
  BY AppendedRows
<1> HIDE DEF new
<1>3. PICK i \in DOMAIN queue', j \in DOMAIN queue' :
         i < j /\ queue'[i] = t /\ queue'[j] = u /\ t[1] # u[1]
  BY DEF OlderThan
<1>4. ASSUME NEW k \in DOMAIN queue
      PROVE  queue[k] \notin NewTasks(p)
  <2>1. queue[k] \in Task /\ status[queue[k]] # "NONE"
    BY DEF QueueTypeOK, PlanExecutedOnce
  <2> QED
    BY <2>1 DEF CreateTasks
<1>5. i <= Len(queue)
  <2> SUFFICES ASSUME ~(i <= Len(queue)) PROVE FALSE
    OBVIOUS
  <2>1. ~(j <= Len(queue))
    BY <1>1, <1>2, <1>3
  <2>2. t \in NewTasks(p) /\ u \in NewTasks(p)
    BY <1>1, <1>3, <2>1
  <2> QED
    BY <1>3, <2>2, TaskOfOnePlan
<1>6. t \notin NewTasks(p)
  BY <1>1, <1>3, <1>4, <1>5
<1>7. ASSUME u \notin NewTasks(p)
      PROVE  OlderThan(t, u)
  <2>1. j <= Len(queue)
    BY <1>1, <1>3, <1>7
  <2>2. i \in DOMAIN queue /\ j \in DOMAIN queue /\ queue[i] = t /\ queue[j] = u
    BY <1>1, <1>3, <1>5, <2>1
  <2> QED
    BY <1>3, <2>2 DEF OlderThan
<1> QED
  BY <1>6, <1>7

(* A task of the old queue that is live after a creation was live before it *)
(* and was not canceled by it.                                              *)
LEMMA LiveWasLive ==
  ASSUME QueueTypeOK, NEW p \in Plan, NEW req \in NormalRequest, CreateTasks(p, req),
         NEW t \in Task, t \notin NewTasks(p)
  PROVE  /\ Locks(t)' = Locks(t) /\ policy'[t] = policy[t]
         /\ status'[t] \in {"QUEUED", "RUNNING"} =>
               /\ status[t] = status'[t]
               /\ t \notin CancelOlderQueuedTasks(p, req, Resource)
  BY DEF CreateTasks, QueueTypeOK, Locks

LEMMA PoliciesNext ==
  QueueTypeOK /\ LocksFollowTask /\ PlanExecutedOnce /\ ConcurrencyPoliciesHold
      /\ [QueueNext]_queueVars
    => ConcurrencyPoliciesHold'
<1> SUFFICES ASSUME QueueTypeOK, LocksFollowTask, PlanExecutedOnce,
                    ConcurrencyPoliciesHold, [QueueNext]_queueVars
             PROVE  ConcurrencyPoliciesHold'
  OBVIOUS
<1> USE DEF ConcurrencyPoliciesHold
<1>1. ASSUME NEW p \in Plan, CreateTasksPreflightFailed(p)
      PROVE  ConcurrencyPoliciesHold'
  BY <1>1 DEF CreateTasksPreflightFailed, RejectNewHasNoOlderRival,
              CancelOlderLeavesNoOlderWaiter, OlderThan, Live, Locks
<1>2. ASSUME NEW p \in Plan, NEW req \in NormalRequest, CreateTasks(p, req)
      PROVE  ConcurrencyPoliciesHold'
  <2>1. ASSUME NEW u \in NewTasks(p), NEW r \in Resource
        PROVE  policy'[u][r] = RequestedPolicy(req, u, r)
    BY <1>2, NewTasksAreTasks DEF CreateTasks
  <2>2. ASSUME NEW t \in Task, t \notin NewTasks(p), NEW r \in Locks(t),
               status[t] \in {"QUEUED", "RUNNING"}
        PROVE  t \in UnreleasedOn(r, {status[t]}, p)
                 /\ t \in UnreleasedOn(r, {"QUEUED", "RUNNING"}, p)
    <3>1. released[t] = {}
      BY <2>2 DEF LocksFollowTask, Terminal
    <3> QED
      BY <2>2, <3>1 DEF UnreleasedOn
  <2>3. ASSUME NEW t \in Task, NEW u \in Task, NEW r \in Resource,
               policy'[u][r] = "REJECT_NEW", OlderThan(t, u)', Live(t, r)', Live(u, r)'
        PROVE  FALSE
    <3>1. t \notin NewTasks(p) /\ (u \notin NewTasks(p) => OlderThan(t, u))
      BY <1>2, <2>3, EldersOfOld
    <3>2. /\ Locks(t)' = Locks(t)
          /\ status[t] \in {"QUEUED", "RUNNING"}
          /\ t \notin CancelOlderQueuedTasks(p, req, Resource)
      BY <1>2, <2>3, <3>1, LiveWasLive DEF Live
    <3>3. Live(t, r)
      BY <2>3, <3>2 DEF Live
    <3>4. CASE u \in NewTasks(p)
      <4>1. Requests(p, req, r, "REJECT_NEW")
        BY <2>1, <2>3, <3>4 DEF Requests
      <4>2. t \in UnreleasedOn(r, {"QUEUED", "RUNNING"}, p)
        BY <2>2, <3>1, <3>3 DEF Live
      <4>3. t \notin CancelOlderQueuedTasks(p, req, {x \in Resource : SortKey[x] < SortKey[r]})
        BY <3>2 DEF CancelOlderQueuedTasks
      <4>4. hasNonTerminalTaskResourceConflict(p, req, r)
        BY <4>2, <4>3 DEF hasNonTerminalTaskResourceConflict
      <4> QED
        BY <1>2, <4>1, <4>4 DEF CreateTasks, RejectsNew
    <3>5. CASE u \notin NewTasks(p)
      <4>1. policy[u][r] = "REJECT_NEW" /\ Live(u, r)
        BY <1>2, <2>3, <3>5, LiveWasLive DEF Live
      <4> QED
        BY <3>1, <3>3, <3>5, <4>1 DEF RejectNewHasNoOlderRival
    <3> QED
      BY <3>4, <3>5
  <2>4. ASSUME NEW t \in Task, NEW u \in Task, NEW r \in Resource,
               policy'[u][r] = "CANCEL_OLDER", OlderThan(t, u)', r \in Locks(t)',
               status'[t] = "QUEUED"
        PROVE  FALSE
    <3>1. t \notin NewTasks(p) /\ (u \notin NewTasks(p) => OlderThan(t, u))
      BY <1>2, <2>4, EldersOfOld
    <3>2. /\ r \in Locks(t)
          /\ status[t] = "QUEUED"
          /\ t \notin CancelOlderQueuedTasks(p, req, Resource)
      BY <1>2, <2>4, <3>1, LiveWasLive
    <3>3. CASE u \in NewTasks(p)
      <4>1. Requests(p, req, r, "CANCEL_OLDER")
        BY <2>1, <2>4, <3>3 DEF Requests
      <4>2. t \in UnreleasedOn(r, {"QUEUED"}, p)
        BY <2>2, <3>1, <3>2
      <4> QED
        BY <3>2, <4>1, <4>2 DEF CancelOlderQueuedTasks
    <3>4. CASE u \notin NewTasks(p)
      <4>1. policy[u][r] = "CANCEL_OLDER"
        BY <1>2, <2>4, <3>4, LiveWasLive
      <4> QED
        BY <3>1, <3>2, <3>4, <4>1 DEF CancelOlderLeavesNoOlderWaiter
    <3> QED
      BY <3>3, <3>4
  <2> QED
    BY <2>3, <2>4 DEF RejectNewHasNoOlderRival, CancelOlderLeavesNoOlderWaiter
<1>3. ASSUME NEW v \in Task, NEW s \in TaskStatus, StartTask(v) \/ FinishTask(v, s)
      PROVE  ConcurrencyPoliciesHold'
  <2>1. policy' = policy /\ queue' = queue
    BY <1>3 DEF StartTask, FinishTask
  <2>2. \A t \in Task : /\ status'[t] = "QUEUED" => status[t] = "QUEUED"
                        /\ status'[t] \in {"QUEUED", "RUNNING"}
                             => status[t] \in {"QUEUED", "RUNNING"}
    BY <1>3 DEF StartTask, FinishTask, QueueTypeOK
  <2> QED
    BY <2>1, <2>2 DEF RejectNewHasNoOlderRival, CancelOlderLeavesNoOlderWaiter,
                      OlderThan, Live, Locks
<1>4. CASE UNCHANGED queueVars
  BY <1>4 DEF queueVars, RejectNewHasNoOlderRival, CancelOlderLeavesNoOlderWaiter,
              OlderThan, Live, Locks
<1> QED
  BY <1>1, <1>2, <1>3, <1>4, NormalizedType
     DEF QueueNext, TransitionTaskState, CreateTasksForDeploymentPlan

(***************************************************************************)
(* Whatever mix of policies the requests carry, a REJECT_NEW task never     *)
(* lives beside an older rival and a CANCEL_OLDER task leaves no older      *)
(* waiter behind, for as long as the tasks live                             *)
(* (applyTaskConcurrencyPolicies, cancelOlderQueuedTasksForResource).       *)
(***************************************************************************)
THEOREM PoliciesHold == QueueSpec => []ConcurrencyPoliciesHold
<1>1. QueueInit => ConcurrencyPoliciesHold
  BY DEF QueueInit, ConcurrencyPoliciesHold, RejectNewHasNoOlderRival,
         CancelOlderLeavesNoOlderWaiter, OlderThan
<1> QED
  BY <1>1, QueueTypeCorrect, LockRowsFollowTasks, PlansExecuteOnce, PoliciesNext, PTL
     DEF QueueSpec

-----------------------------------------------------------------------------
(* Leases and step events implement the task queue.                         *)

LEMMA NextImplementsQueueNext == [Next]_vars => [QueueNext]_queueVars
<1>. SUFFICES ASSUME [Next]_vars PROVE [QueueNext]_queueVars
  OBVIOUS
<1>1. ASSUME NEW p \in Plan, NEW request \in Request, CreatePlanTasks(p, request)
      PROVE  QueueNext
  BY <1>1 DEF CreatePlanTasks, QueueNext
<1>2. ASSUME NEW p \in Plan, FailPlanPreflight(p) PROVE QueueNext
  BY <1>2 DEF FailPlanPreflight, QueueNext
<1>3. ASSUME NEW t \in Task, StartTask(t) PROVE QueueNext
  BY <1>3 DEF QueueNext, TransitionTaskState, TaskStatus
<1>4. ASSUME NEW t \in Task, NEW s, FinishTask(t, s) PROVE QueueNext
  <2>1. s \in TaskStatus
    BY <1>4 DEF FinishTask, TaskStatus
  <2>. QED  BY <1>4, <2>1 DEF QueueNext, TransitionTaskState
<1>5. ASSUME NEW p \in Plan, BlockReleaseBundle(p) PROVE UNCHANGED queueVars
  BY <1>5 DEF BlockReleaseBundle
<1>6. ASSUME NEW t \in Task, NEW e \in Executor, LeaseTask(t, e)
      PROVE  QueueNext \/ UNCHANGED queueVars
  <2>1. ASSUME NEW a \in Attempt, ClaimQueuedTask(t, e, a) PROVE QueueNext
    BY <1>3, <2>1 DEF ClaimQueuedTask
  <2>2. ASSUME NEW a \in Attempt, ReclaimRunningTask(t, e, a) PROVE UNCHANGED queueVars
    BY <2>2 DEF ReclaimRunningTask
  <2>3. ASSUME ReleaseExpiredLease(t, e) PROVE UNCHANGED queueVars
    BY <2>3 DEF ReleaseExpiredLease
  <2>. QED  BY <1>6, <2>1, <2>2, <2>3 DEF LeaseTask
<1>7. ASSUME NEW t \in Task, NEW a \in Attempt, LeaseExpires(t, a)
      PROVE  UNCHANGED queueVars
  BY <1>7 DEF LeaseExpires
<1>8. ASSUME NEW t \in Task, NEW s \in Step, NEW a \in Attempt, NEW n \in 1..MaxEvents,
             NEW ty \in EventType, RecordStepRunEvent(t, s, a, n, ty)
      PROVE  QueueNext \/ UNCHANGED queueVars
  BY <1>4, <1>8 DEF RecordStepRunEvent
<1>9. ASSUME NEW t \in Task, StartTaskByHand(t) PROVE QueueNext
  BY <1>3, <1>9 DEF StartTaskByHand
<1>10. ASSUME NEW t \in Task, NEW s \in {"SUCCEEDED", "FAILED"}, FinishTaskByHand(t, s)
       PROVE  QueueNext
  BY <1>4, <1>10 DEF FinishTaskByHand
<1>11. CASE UNCHANGED vars
  BY <1>11 DEF vars
<1>. QED
  BY <1>1, <1>2, <1>5, <1>6, <1>7, <1>8, <1>9, <1>10, <1>11 DEF Next

(***************************************************************************)
(* Every behaviour of leases, step events and operators is, for tasks and   *)
(* locks, a behaviour of the task queue.                                    *)
(***************************************************************************)
THEOREM LeasesImplementQueue == Spec => ImplementsTaskQueue
<1>1. Init => QueueInit
  BY DEF Init
<1>. QED
  BY <1>1, NextImplementsQueueNext, PTL DEF Spec, QueueSpec, ImplementsTaskQueue

(***************************************************************************)
(* So leases inherit the queue's guarantees: no resource has two exclusive  *)
(* holders, whoever starts and ends the tasks.                              *)
(***************************************************************************)
THEOREM LeasesKeepMutualExclusion == Spec => [](NoDuplicateActiveLock /\ LocksFollowTask)
  BY LeasesImplementQueue, ResourceMutualExclusion, LockRowsFollowTasks, PTL
     DEF ImplementsTaskQueue

-----------------------------------------------------------------------------
(* The shape of the tables.                                                 *)

LEMMA ReleasedTypes ==
    ASSUME LeaseTypeOK, NEW t \in Task
    PROVE  /\ ReleaseExpired(t) \in [Attempt -> LeaseStatus]
           /\ ReleaseAll(t) \in [Attempt -> LeaseStatus]
           /\ resetInterruptedStepRuns(t) \in [Step -> StepRunStatus]
  BY DEF LeaseTypeOK, ReleaseExpired, ReleaseAll, resetInterruptedStepRuns, LeaseStatus,
     StepRunStatus

LEMMA LeaseTypeNext == LeaseTypeOK /\ [Next]_vars => LeaseTypeOK'
<1>. SUFFICES ASSUME LeaseTypeOK, [Next]_vars PROVE LeaseTypeOK'
  OBVIOUS
<1>. DEFINE LeaseRowsTyped ==
               /\ published \in [Plan -> BOOLEAN]
               /\ stepStatus \in [Task -> [Step -> StepRunStatus]]
               /\ lease \in [Task -> [Attempt -> LeaseStatus]]
               /\ executor \in [Task -> [Attempt -> Executor \cup {"NONE"}]]
               /\ events \in [Task -> [Step -> [Attempt -> Seq(EventType)]]]
<1>0. QueueTypeOK' /\ LeaseRowsTyped
  BY NextImplementsQueueNext, QueueTypeNext DEF LeaseTypeOK
<1>. SUFFICES LeaseRowsTyped'
  BY <1>0 DEF LeaseTypeOK
<1>1. ASSUME NEW p \in Plan, NEW request \in Request, CreatePlanTasks(p, request)
      PROVE  LeaseRowsTyped'
  <2>1. \A t : insertStepRuns(t) \in [Step -> StepRunStatus]
    BY DEF insertStepRuns, StepRunStatus
  <2>. QED  BY <1>0, <1>1, <2>1 DEF CreatePlanTasks
<1>2. ASSUME UNCHANGED leaseVars PROVE LeaseRowsTyped'
  BY <1>0, <1>2 DEF leaseVars
<1>3. ASSUME NEW t \in Task, NEW s, FinishTaskByHand(t, s) PROVE LeaseRowsTyped'
  BY <1>0, <1>3, ReleasedTypes DEF FinishTaskByHand
<1>4. ASSUME NEW p \in Plan, BlockReleaseBundle(p) PROVE LeaseRowsTyped'
  <2>1. published' \in [Plan -> BOOLEAN]
    BY <1>0, <1>4, Zenon DEF BlockReleaseBundle
  <2>. QED  BY <1>0, <1>4, <2>1 DEF BlockReleaseBundle
<1>5. ASSUME NEW t \in Task, NEW e \in Executor, NEW a \in Attempt, insertTaskLease(t, e, a)
      PROVE  /\ lease' \in [Task -> [Attempt -> LeaseStatus]]
             /\ executor' \in [Task -> [Attempt -> Executor \cup {"NONE"}]]
  <2>1. [ReleaseExpired(t) EXCEPT ![a] = "LIVE"] \in [Attempt -> LeaseStatus]
    BY ReleasedTypes DEF LeaseStatus
  <2>2. [executor[t] EXCEPT ![a] = e] \in [Attempt -> Executor \cup {"NONE"}]
    BY <1>0
  <2>. QED  BY <1>0, <1>5, <2>1, <2>2 DEF insertTaskLease
<1>6. ASSUME NEW t \in Task, NEW e \in Executor, LeaseTask(t, e) PROVE LeaseRowsTyped'
  <2>1. ASSUME NEW a \in Attempt, ClaimQueuedTask(t, e, a) PROVE LeaseRowsTyped'
    BY <1>0, <1>5, <2>1 DEF ClaimQueuedTask
  <2>2. ASSUME NEW a \in Attempt, ReclaimRunningTask(t, e, a) PROVE LeaseRowsTyped'
    BY <1>0, <1>5, <2>2, ReleasedTypes DEF ReclaimRunningTask
  <2>3. ASSUME ReleaseExpiredLease(t, e) PROVE LeaseRowsTyped'
    BY <1>0, <2>3, ReleasedTypes DEF ReleaseExpiredLease
  <2>. QED  BY <1>6, <2>1, <2>2, <2>3 DEF LeaseTask
<1>7. ASSUME NEW t \in Task, NEW a \in Attempt, LeaseExpires(t, a) PROVE LeaseRowsTyped'
  <2>1. [lease[t] EXCEPT ![a] = "EXPIRED"] \in [Attempt -> LeaseStatus]
    BY <1>0 DEF LeaseStatus
  <2>. QED  BY <1>0, <1>7, <2>1 DEF LeaseExpires
<1>8. ASSUME NEW t \in Task, NEW s \in Step, NEW a \in Attempt, NEW n \in 1..MaxEvents,
             NEW ty \in EventType, RecordStepRunEvent(t, s, a, n, ty)
      PROVE  LeaseRowsTyped'
  <2>. DEFINE runs == [stepStatus[t] EXCEPT ![s] = StepAfter(ty, stepStatus[t][s])]
  <2>1. StepAfter(ty, stepStatus[t][s]) \in StepRunStatus
    BY <1>0 DEF StepAfter, EventType, StepRunStatus
  <2>2. runs \in [Step -> StepRunStatus]
    BY <1>0, <2>1
  <2>3. stepStatus' \in [Task -> [Step -> StepRunStatus]]
    BY <1>0, <1>8, <2>2 DEF RecordStepRunEvent
  <2>4. lease' \in [Task -> [Attempt -> LeaseStatus]]
    <3>1. [lease[t] EXCEPT ![a] = "RELEASED"] \in [Attempt -> LeaseStatus]
      BY <1>0 DEF LeaseStatus
    <3>. QED  BY <1>0, <1>8, <3>1, ReleasedTypes DEF RecordStepRunEvent
  <2>5. events' \in [Task -> [Step -> [Attempt -> Seq(EventType)]]]
    <3>1. events[t][s][a] \in Seq(EventType)
      BY <1>0
    <3>2. Append(events[t][s][a], ty) \in Seq(EventType)
      BY <3>1
    <3>3. [events[t][s] EXCEPT ![a] = Append(events[t][s][a], ty)]
            \in [Attempt -> Seq(EventType)]
      BY <1>0, <3>2
    <3>. QED  BY <1>0, <1>8, <3>3 DEF RecordStepRunEvent
  <2>. QED  BY <1>0, <1>8, <2>3, <2>4, <2>5 DEF RecordStepRunEvent
<1>9. CASE UNCHANGED vars
  BY <1>2, <1>9 DEF vars
<1>. QED
  BY <1>1, <1>2, <1>3, <1>4, <1>6, <1>7, <1>8, <1>9
     DEF Next, FailPlanPreflight, StartTaskByHand

LEMMA LeaseTypeInit == Init => LeaseTypeOK
<1>. SUFFICES ASSUME Init PROVE LeaseTypeOK
  OBVIOUS
<1>1. QueueTypeOK
  BY QueueTypeInit DEF Init
<1>2. published \in [Plan -> BOOLEAN]
  BY Zenon DEF Init
<1>3. /\ stepStatus \in [Task -> [Step -> StepRunStatus]]
      /\ lease \in [Task -> [Attempt -> LeaseStatus]]
      /\ executor \in [Task -> [Attempt -> Executor \cup {"NONE"}]]
  BY DEF Init, StepRunStatus, LeaseStatus
<1>4. events \in [Task -> [Step -> [Attempt -> Seq(EventType)]]]
  BY DEF Init
<1>. QED  BY <1>1, <1>2, <1>3, <1>4 DEF LeaseTypeOK

(***************************************************************************)
(* The tables of tasks, leases, step runs and events keep their shape.      *)
(***************************************************************************)
THEOREM LeaseTypeCorrect == Spec => []LeaseTypeOK
  BY LeaseTypeInit, LeaseTypeNext, PTL DEF Spec

-----------------------------------------------------------------------------
(* Leases.                                                                  *)

(* Attempts are numbered without gaps: the next one is the first unused.    *)
NoGaps ==
    \A t \in Task : \A a, b \in Attempt :
        a < b /\ lease[t][b] # "NONE" => lease[t][a] # "NONE"

LeaseInv == NoGaps /\ ActiveLeaseIsLatestOfRunningTask

(* Attempts are numbers.                                                    *)
LEMMA AttemptsAreNumbers == \A a \in Attempt : a \in Nat
  BY StepAssumption DEF Attempt

(* A step that adds no lease and leaves none active for a task that stops   *)
(* running keeps the invariant.                                             *)
LEMMA NoNewLease ==
    ASSUME LeaseInv,
           \A t \in Task : \A a \in Attempt :
              /\ lease'[t][a] = "NONE" <=> lease[t][a] = "NONE"
              /\ lease'[t][a] \in Active => lease[t][a] \in Active,
           \A t \in Task : status[t] = "RUNNING" /\ status'[t] # "RUNNING"
              => \A a \in Attempt : lease'[t][a] \notin Active
    PROVE  LeaseInv'
<1>1. NoGaps'
  BY DEF LeaseInv, NoGaps
<1>2. ActiveLeaseIsLatestOfRunningTask'
  BY DEF LeaseInv, ActiveLeaseIsLatestOfRunningTask
<1>. QED  BY <1>1, <1>2 DEF LeaseInv

LEMMA ReleaseKeepsRows ==
    ASSUME LeaseTypeOK, NEW t \in Task, NEW a \in Attempt
    PROVE  /\ ReleaseExpired(t)[a] = "NONE" <=> lease[t][a] = "NONE"
           /\ ReleaseExpired(t)[a] \in Active => lease[t][a] \in Active
           /\ ReleaseAll(t)[a] = "NONE" <=> lease[t][a] = "NONE"
           /\ ReleaseAll(t)[a] \notin Active
  BY DEF ReleaseExpired, ReleaseAll, ExpiredLeases, Active

(* A new lease is the only active one, and the latest.                      *)
LEMMA NewLease ==
    ASSUME LeaseTypeOK, LeaseInv, NEW t \in Task, NEW e, NEW a \in Attempt,
           NextAttempt(t, a), insertTaskLease(t, e, a), status'[t] = "RUNNING",
           \A u \in Task : status[u] = "RUNNING" => status'[u] = "RUNNING"
    PROVE  LeaseInv'
<1>. USE AttemptsAreNumbers
<1>1. /\ lease'[t][a] = "LIVE"
      /\ \A b \in Attempt \ {a} : lease'[t][b] = ReleaseExpired(t)[b]
      /\ \A u \in Task \ {t} : lease'[u] = lease[u]
  BY ReleasedTypes DEF insertTaskLease, LeaseTypeOK
<1>2. \A b \in Attempt \ {a} : lease'[t][b] \notin Active
  BY <1>1 DEF insertTaskLease
<1>3. /\ \A b \in Attempt : b < a => lease[t][b] # "NONE"
      /\ lease[t][a] = "NONE"
  BY DEF NextAttempt
<1>4. \A b \in Attempt : b > a => lease[t][b] = "NONE"
  BY <1>3 DEF LeaseInv, NoGaps
<1>5. \A b \in Attempt \ {a} : lease'[t][b] = "NONE" <=> lease[t][b] = "NONE"
  BY <1>1, ReleaseKeepsRows
<1>6. NoGaps'
  <2>. SUFFICES ASSUME NEW u \in Task, NEW b \in Attempt, NEW c \in Attempt,
                       b < c, lease'[u][c] # "NONE"
                PROVE  lease'[u][b] # "NONE"
    BY DEF NoGaps
  <2>1. CASE u # t
    BY <1>1, <2>1 DEF LeaseInv, NoGaps
  <2>2. CASE u = t /\ b = a
    BY <1>1, <2>2
  <2>3. CASE u = t /\ b # a /\ c = a
    BY <1>3, <1>5, <2>3
  <2>4. CASE u = t /\ b # a /\ c # a
    BY <1>5, <2>4 DEF LeaseInv, NoGaps
  <2>. QED  BY <2>1, <2>2, <2>3, <2>4
<1>7. ActiveLeaseIsLatestOfRunningTask'
  <2>. SUFFICES ASSUME NEW u \in Task, NEW b \in Attempt, lease'[u][b] \in Active
                PROVE  /\ status'[u] = "RUNNING"
                       /\ \A c \in Attempt : c > b => lease'[u][c] = "NONE"
    BY DEF ActiveLeaseIsLatestOfRunningTask
  <2>1. CASE u # t
    BY <1>1, <2>1 DEF LeaseInv, ActiveLeaseIsLatestOfRunningTask
  <2>2. CASE u = t
    <3>1. b = a
      BY <1>2, <2>2
    <3>. QED  BY <1>4, <1>5, <2>2, <3>1
  <2>. QED  BY <2>1, <2>2
<1>. QED  BY <1>6, <1>7 DEF LeaseInv

(* Tasks that run go on running unless they are finished.                   *)
LEMMA CreationSparesRunning ==
    ASSUME LeaseTypeOK, NEW p \in Plan, NEW request, CreateTasksForDeploymentPlan(p, request),
           NEW t \in Task, status[t] = "RUNNING"
    PROVE  status'[t] = "RUNNING"
<1>. DEFINE req == normalizeTaskLockResourceRequests(request)
<1>1. CreateTasks(p, req)
  BY DEF CreateTasksForDeploymentPlan
<1>2. t \notin NewTasks(p) /\ t \notin CancelOlderQueuedTasks(p, req, Resource)
  BY <1>1, CanceledWereQueued DEF CreateTasks
<1>. QED  BY <1>1, <1>2 DEF CreateTasks

LEMMA LeaseInvNext == LeaseTypeOK /\ LeaseInv /\ [Next]_vars => LeaseInv'
<1>. SUFFICES ASSUME LeaseTypeOK, LeaseInv, [Next]_vars PROVE LeaseInv'
  OBVIOUS
<1>0. \A t \in Task : lease[t] \in [Attempt -> LeaseStatus]
  BY DEF LeaseTypeOK
<1>1. ASSUME NEW p \in Plan, NEW request \in Request, CreatePlanTasks(p, request)
      PROVE  LeaseInv'
  BY <1>1, CreationSparesRunning, NoNewLease DEF CreatePlanTasks
<1>2. ASSUME UNCHANGED <<lease, status>> PROVE LeaseInv'
  BY <1>2, NoNewLease
<1>3. ASSUME NEW t \in Task, StartTask(t) PROVE \A u \in Task : status[u] = "RUNNING" => status'[u] = "RUNNING"
  BY <1>3 DEF StartTask, LeaseTypeOK, QueueTypeOK
<1>4. ASSUME NEW t \in Task, NEW s, FinishTask(t, s), lease' = [lease EXCEPT ![t] = ReleaseAll(t)]
      PROVE  LeaseInv'
  <2>1. \A u \in Task \ {t} : status'[u] = status[u] /\ lease'[u] = lease[u]
    BY <1>4 DEF FinishTask, LeaseTypeOK, QueueTypeOK
  <2>2. lease'[t] = ReleaseAll(t)
    BY <1>4 DEF LeaseTypeOK
  <2>. QED  BY <2>1, <2>2, ReleaseKeepsRows, NoNewLease
<1>5. ASSUME NEW t \in Task, NEW e \in Executor, LeaseTask(t, e) PROVE LeaseInv'
  <2>1. ASSUME NEW a \in Attempt, ClaimQueuedTask(t, e, a) PROVE LeaseInv'
    <3>1. StartTask(t) /\ NextAttempt(t, a) /\ insertTaskLease(t, e, a)
      BY <2>1 DEF ClaimQueuedTask
    <3>2. status'[t] = "RUNNING"
      BY <3>1 DEF StartTask, LeaseTypeOK, QueueTypeOK
    <3>. QED  BY <1>3, <3>1, <3>2, NewLease
  <2>2. ASSUME NEW a \in Attempt, ReclaimRunningTask(t, e, a) PROVE LeaseInv'
    <3>1. /\ NextAttempt(t, a) /\ insertTaskLease(t, e, a)
          /\ status[t] = "RUNNING" /\ status' = status
      BY <2>2 DEF ReclaimRunningTask, queueVars
    <3>. QED  BY <3>1, NewLease
  <2>3. ASSUME ReleaseExpiredLease(t, e) PROVE LeaseInv'
    <3>1. lease' = [lease EXCEPT ![t] = ReleaseExpired(t)] /\ status' = status
      BY <2>3 DEF ReleaseExpiredLease, queueVars
    <3>2. /\ lease'[t] = ReleaseExpired(t)
          /\ \A u \in Task \ {t} : lease'[u] = lease[u]
      BY <3>1 DEF LeaseTypeOK
    <3>. QED  BY <3>1, <3>2, ReleaseKeepsRows, NoNewLease
  <2>. QED  BY <1>5, <2>1, <2>2, <2>3 DEF LeaseTask
<1>6. ASSUME NEW t \in Task, NEW a \in Attempt, LeaseExpires(t, a) PROVE LeaseInv'
  <2>1. status' = status
    BY <1>6 DEF LeaseExpires, queueVars
  <2>2. \A u \in Task, b \in Attempt :
           lease'[u][b] = IF u = t /\ b = a THEN "EXPIRED" ELSE lease[u][b]
    BY <1>0, <1>6 DEF LeaseExpires, LeaseTypeOK
  <2>3. lease[t][a] = "LIVE"
    BY <1>6 DEF LeaseExpires
  <2>. QED  BY <2>1, <2>2, <2>3, NoNewLease DEF Active
<1>7. ASSUME NEW t \in Task, NEW s \in Step, NEW a \in Attempt, NEW n \in 1..MaxEvents,
             NEW ty \in EventType, RecordStepRunEvent(t, s, a, n, ty)
      PROVE  LeaseInv'
  <2>. DEFINE runs == [stepStatus[t] EXCEPT ![s] = StepAfter(ty, stepStatus[t][s])]
              after == IF ty \in {"SUCCEEDED", "FAILED"} THEN TaskAfter(t, runs) ELSE "RUNNING"
  <2>1. CASE after # "RUNNING"
    <3>1. FinishTask(t, after) /\ lease' = [lease EXCEPT ![t] = ReleaseAll(t)]
      BY <1>7, <2>1 DEF RecordStepRunEvent
    <3>. QED  BY <1>4, <3>1
  <2>2. CASE after = "RUNNING"
    <3>1. status' = status
      BY <1>7, <2>2 DEF RecordStepRunEvent, queueVars
    <3>2. lease[t][a] = "LIVE"
      BY <1>7 DEF RecordStepRunEvent, MayRecord, LeaseAccepts
    <3>3. \/ lease' = [lease EXCEPT ![t] = lease[t]]
          \/ lease' = [lease EXCEPT ![t] = [lease[t] EXCEPT ![a] = "RELEASED"]]
      BY <1>7, <2>2 DEF RecordStepRunEvent
    <3>4. \A u \in Task, b \in Attempt :
             \/ lease'[u][b] = lease[u][b]
             \/ u = t /\ b = a /\ lease'[u][b] = "RELEASED"
      BY <1>0, <3>3 DEF LeaseTypeOK
    <3>. QED  BY <3>1, <3>2, <3>4, NoNewLease DEF Active
  <2>. QED  BY <2>1, <2>2
<1>8. ASSUME NEW t \in Task, StartTaskByHand(t) PROVE LeaseInv'
  BY <1>3, <1>8, NoNewLease DEF StartTaskByHand, leaseVars
<1>9. ASSUME NEW t \in Task, NEW s, FinishTaskByHand(t, s) PROVE LeaseInv'
  BY <1>4, <1>9 DEF FinishTaskByHand
<1>10. ASSUME NEW p \in Plan, FailPlanPreflight(p) \/ BlockReleaseBundle(p) PROVE LeaseInv'
  BY <1>2, <1>10 DEF FailPlanPreflight, BlockReleaseBundle, CreateTasksPreflightFailed,
     leaseVars, queueVars
<1>11. CASE UNCHANGED vars
  BY <1>2, <1>11 DEF vars, leaseVars, queueVars
<1>. QED
  BY <1>1, <1>5, <1>6, <1>7, <1>8, <1>9, <1>10, <1>11 DEF Next

(***************************************************************************)
(* A lease is unreleased only while its task runs, and only if it is the    *)
(* latest; in particular a task never has two.                              *)
(***************************************************************************)
THEOREM OneActiveLease ==
    Spec => [](ActiveLeaseIsLatestOfRunningTask /\ AtMostOneActiveLease)
<1>1. Init => LeaseInv
  BY DEF Init, LeaseInv, NoGaps, ActiveLeaseIsLatestOfRunningTask, Active
<1>2. LeaseInv => AtMostOneActiveLease
  <2>. SUFFICES ASSUME LeaseInv, NEW t \in Task, NEW a \in Attempt, NEW b \in Attempt,
                       lease[t][a] \in Active, lease[t][b] \in Active
                PROVE  a = b
    BY DEF AtMostOneActiveLease
  <2>1. a \in Nat /\ b \in Nat
    BY AttemptsAreNumbers
  <2>2. ~(b > a) /\ ~(a > b)
    BY DEF LeaseInv, ActiveLeaseIsLatestOfRunningTask, Active
  <2>. QED  BY <2>1, <2>2
<1>3. LeaseInv => ActiveLeaseIsLatestOfRunningTask
  BY DEF LeaseInv
<1>. QED  BY <1>1, <1>2, <1>3, LeaseInvNext, LeaseTypeCorrect, PTL DEF Spec

-----------------------------------------------------------------------------
(* Failed steps.                                                            *)

(* A task has step runs for the steps of its plan only.                     *)
StepRunsOfPlan ==
    \A t \in Task : \A s \in Step \ PlanSteps[t[1]] : stepStatus[t][s] = "NONE"

FailInv == StepRunsOfPlan /\ FailedStepFailsTask

(* A step that adds no failed step run and moves no failed task.            *)
LEMMA NoNewFailure ==
    ASSUME FailInv,
           \A t \in Task, s \in Step :
              /\ stepStatus'[t][s] = "FAILED" => stepStatus[t][s] = "FAILED"
              /\ s \notin PlanSteps[t[1]] /\ stepStatus[t][s] = "NONE"
                    => stepStatus'[t][s] = "NONE",
           \A t \in Task : status[t] = "FAILED" => status'[t] = "FAILED"
    PROVE  FailInv'
<1>1. StepRunsOfPlan'
  BY DEF FailInv, StepRunsOfPlan
<1>2. FailedStepFailsTask'
  BY DEF FailInv, FailedStepFailsTask
<1>. QED  BY <1>1, <1>2 DEF FailInv

LEMMA FailInvNext == LeaseTypeOK /\ FailInv /\ [Next]_vars => FailInv'
<1>. SUFFICES ASSUME LeaseTypeOK, FailInv, [Next]_vars PROVE FailInv'
  OBVIOUS
<1>0. \A t \in Task : stepStatus[t] \in [Step -> StepRunStatus]
  BY DEF LeaseTypeOK
<1>1. ASSUME NEW p \in Plan, NEW request \in Request, CreatePlanTasks(p, request)
      PROVE  FailInv'
  <2>. DEFINE req == normalizeTaskLockResourceRequests(request)
  <2>1. CreateTasks(p, req)
    BY <1>1 DEF CreatePlanTasks, CreateTasksForDeploymentPlan
  <2>2. ASSUME NEW t \in Task, status[t] = "FAILED" PROVE status'[t] = "FAILED"
    <3>1. t \notin NewTasks(p) /\ t \notin CancelOlderQueuedTasks(p, req, Resource)
      BY <2>1, <2>2, CanceledWereQueued DEF CreateTasks
    <3>. QED  BY <2>1, <2>2, <3>1 DEF CreateTasks
  <2>3. ASSUME NEW t \in Task, NEW s \in Step
        PROVE  /\ stepStatus'[t][s] = "FAILED" => stepStatus[t][s] = "FAILED"
               /\ s \notin PlanSteps[t[1]] /\ stepStatus[t][s] = "NONE"
                     => stepStatus'[t][s] = "NONE"
    <3>1. stepStatus'[t] = IF t \in NewTasks(p) THEN insertStepRuns(t) ELSE stepStatus[t]
      BY <1>1 DEF CreatePlanTasks
    <3>. QED  BY <3>1 DEF insertStepRuns
  <2>. QED  BY <2>2, <2>3, NoNewFailure
<1>2. ASSUME UNCHANGED <<stepStatus, status>> PROVE FailInv'
  BY <1>2, NoNewFailure
<1>3. ASSUME NEW t \in Task, StartTask(t) \/ \E s : FinishTask(t, s)
      PROVE  \A u \in Task : status[u] = "FAILED" => status'[u] = "FAILED"
  BY <1>3 DEF StartTask, FinishTask, LeaseTypeOK, QueueTypeOK
<1>4. ASSUME NEW t \in Task, NEW e \in Executor, LeaseTask(t, e) PROVE FailInv'
  <2>1. ASSUME NEW a \in Attempt, ClaimQueuedTask(t, e, a) PROVE FailInv'
    BY <1>3, <2>1, NoNewFailure DEF ClaimQueuedTask
  <2>2. ASSUME stepStatus' = [stepStatus EXCEPT ![t] = resetInterruptedStepRuns(t)],
               status' = status
        PROVE  FailInv'
    <3>1. \A u \in Task \ {t} : stepStatus'[u] = stepStatus[u]
      BY <2>2 DEF LeaseTypeOK
    <3>2. \A s \in Step : stepStatus'[t][s] = stepStatus[t][s]
                            \/ (stepStatus[t][s] = "RUNNING" /\ stepStatus'[t][s] = "PENDING")
      BY <2>2 DEF LeaseTypeOK, resetInterruptedStepRuns
    <3>. QED  BY <2>2, <3>1, <3>2, NoNewFailure
  <2>3. ASSUME NEW a \in Attempt, ReclaimRunningTask(t, e, a) PROVE FailInv'
    BY <2>2, <2>3 DEF ReclaimRunningTask, queueVars
  <2>4. ASSUME ReleaseExpiredLease(t, e) PROVE FailInv'
    BY <2>2, <2>4 DEF ReleaseExpiredLease, queueVars
  <2>. QED  BY <1>4, <2>1, <2>3, <2>4 DEF LeaseTask
<1>5. ASSUME NEW t \in Task, NEW s \in Step, NEW a \in Attempt, NEW n \in 1..MaxEvents,
             NEW ty \in EventType, RecordStepRunEvent(t, s, a, n, ty)
      PROVE  FailInv'
  <2>. DEFINE runs == [stepStatus[t] EXCEPT ![s] = StepAfter(ty, stepStatus[t][s])]
              after == IF ty \in {"SUCCEEDED", "FAILED"} THEN TaskAfter(t, runs) ELSE "RUNNING"
  <2>1. /\ stepStatus' = [stepStatus EXCEPT ![t] = runs]
        /\ status[t] = "RUNNING"
        /\ StepMayTake(ty, stepStatus[t][s])
        /\ IF after = "RUNNING" THEN UNCHANGED queueVars ELSE FinishTask(t, after)
    BY <1>5 DEF RecordStepRunEvent, MayRecord
  <2>2. /\ s \in PlanSteps[t[1]]
        /\ \A r \in Step : stepStatus[t][r] # "FAILED"
    BY <2>1 DEF FailInv, StepRunsOfPlan, FailedStepFailsTask, StepMayTake
  <2>3. /\ \A u \in Task \ {t} : stepStatus'[u] = stepStatus[u]
        /\ stepStatus'[t] = runs
        /\ \A r \in Step \ {s} : runs[r] = stepStatus[t][r]
    BY <1>0, <2>1 DEF LeaseTypeOK
  <2>4. \A u \in Task : status[u] = "FAILED" => status'[u] = "FAILED"
    BY <1>3, <2>1 DEF queueVars
  <2>5. StepRunsOfPlan'
    <3>. SUFFICES ASSUME NEW u \in Task, NEW r \in Step \ PlanSteps[u[1]]
                  PROVE  stepStatus'[u][r] = "NONE"
      BY DEF StepRunsOfPlan
    <3>1. stepStatus[u][r] = "NONE"
      BY DEF FailInv, StepRunsOfPlan
    <3>2. CASE u = t
      <4>1. r \in Step \ {s}
        BY <2>2, <3>2
      <4>. QED  BY <2>3, <3>1, <3>2, <4>1
    <3>. QED  BY <2>3, <3>1, <3>2
  <2>6. runs[s] = "FAILED" => ty = "FAILED"
    <3>1. runs[s] = StepAfter(ty, stepStatus[t][s])
      BY <1>0
    <3>2. ty # "FAILED" => StepAfter(ty, stepStatus[t][s]) # "FAILED"
      BY <2>2 DEF StepAfter, EventType
    <3>. QED  BY <3>1, <3>2
  <2>7. ty = "FAILED" => status'[t] = "FAILED"
    <3>. SUFFICES ASSUME ty = "FAILED" PROVE status'[t] = "FAILED"
      OBVIOUS
    <3>1. runs[s] = "FAILED"
      BY <1>0 DEF StepAfter
    <3>2. after = "FAILED"
      BY <2>2, <3>1 DEF TaskAfter
    <3>. QED  BY <2>1, <3>2 DEF FinishTask, LeaseTypeOK, QueueTypeOK
  <2>8. FailedStepFailsTask'
    <3>. SUFFICES ASSUME NEW u \in Task, NEW r \in Step, stepStatus'[u][r] = "FAILED"
                  PROVE  status'[u] = "FAILED"
      BY DEF FailedStepFailsTask
    <3>1. CASE u # t
      BY <2>3, <2>4, <3>1 DEF FailInv, FailedStepFailsTask
    <3>2. CASE u = t
      BY <2>2, <2>3, <2>6, <2>7, <3>2
    <3>. QED  BY <3>1, <3>2
  <2>. QED  BY <2>5, <2>8 DEF FailInv
<1>6. ASSUME NEW t \in Task, StartTaskByHand(t) PROVE FailInv'
  BY <1>3, <1>6, NoNewFailure DEF StartTaskByHand, leaseVars
<1>7. ASSUME NEW t \in Task, NEW s, FinishTaskByHand(t, s) PROVE FailInv'
  BY <1>3, <1>7, NoNewFailure DEF FinishTaskByHand
<1>8. ASSUME NEW p \in Plan, FailPlanPreflight(p) \/ BlockReleaseBundle(p) PROVE FailInv'
  BY <1>2, <1>8 DEF FailPlanPreflight, BlockReleaseBundle, CreateTasksPreflightFailed,
     leaseVars, queueVars
<1>9. ASSUME NEW t \in Task, NEW a \in Attempt, LeaseExpires(t, a) PROVE FailInv'
  BY <1>2, <1>9 DEF LeaseExpires, queueVars
<1>10. CASE UNCHANGED vars
  BY <1>2, <1>10 DEF vars, leaseVars, queueVars
<1>. QED
  BY <1>1, <1>4, <1>5, <1>6, <1>7, <1>8, <1>9, <1>10 DEF Next

(***************************************************************************)
(* A task with a failed step has failed, whoever reports, reclaims or       *)
(* intervenes.                                                              *)
(***************************************************************************)
THEOREM FailedStepsFailTasks == Spec => []FailedStepFailsTask
<1>1. Init => FailInv
  BY DEF Init, FailInv, StepRunsOfPlan, FailedStepFailsTask
<1>2. FailInv => FailedStepFailsTask
  BY DEF FailInv
<1>. QED  BY <1>1, <1>2, FailInvNext, LeaseTypeCorrect, PTL DEF Spec
-----------------------------------------------------------------------------
(* Settled steps and ended tasks.                                           *)

(* A task that was not created has no step runs.                            *)
NoRunsBeforeCreation ==
    \A t \in Task : status[t] = "NONE" => \A s \in Step : stepStatus[t][s] = "NONE"

(* What a step of the system does to one task's rows, seen from outside.    *)
SettledKept(t) ==
    /\ \A s \in Step : stepStatus[t][s] \in Settled => stepStatus'[t][s] = stepStatus[t][s]
    /\ status[t] \in Terminal =>
         /\ stepStatus'[t] = stepStatus[t]
         /\ events'[t] = events[t]
         /\ lease'[t] = lease[t]

(* A reset returns running steps to pending and leaves the others alone.    *)
LEMMA ResetOnlyRunning ==
    ASSUME LeaseTypeOK, NEW t \in Task,
           stepStatus' = [stepStatus EXCEPT ![t] = resetInterruptedStepRuns(t)]
    PROVE  /\ \A u \in Task \ {t} : stepStatus'[u] = stepStatus[u]
           /\ \A s \in Step :
                 \/ stepStatus'[t][s] = stepStatus[t][s]
                 \/ stepStatus[t][s] = "RUNNING" /\ stepStatus'[t][s] = "PENDING"
  BY DEF LeaseTypeOK, resetInterruptedStepRuns

(* Rows of other tasks are not touched, and this task has not ended.        *)
LEMMA KeepsSettled ==
    ASSUME NEW t \in Task, status[t] \notin Terminal,
           \A u \in Task \ {t} : /\ stepStatus'[u] = stepStatus[u]
                                 /\ events'[u] = events[u]
                                 /\ lease'[u] = lease[u],
           \A s \in Step : stepStatus[t][s] \in Settled
                              => stepStatus'[t][s] = stepStatus[t][s]
    PROVE  \A u \in Task : SettledKept(u)
  BY DEF SettledKept

LEMMA SettledNext ==
    LeaseTypeOK /\ LeaseInv /\ NoRunsBeforeCreation /\ [Next]_vars
      => \A t \in Task : SettledKept(t)
<1>. SUFFICES ASSUME LeaseTypeOK, LeaseInv, NoRunsBeforeCreation, [Next]_vars
              PROVE  \A t \in Task : SettledKept(t)
  OBVIOUS
<1>1. ASSUME NEW p \in Plan, NEW request \in Request, CreatePlanTasks(p, request),
             NEW t \in Task
      PROVE  SettledKept(t)
  <2>1. /\ stepStatus'[t] = IF t \in NewTasks(p) THEN insertStepRuns(t) ELSE stepStatus[t]
        /\ events' = events /\ lease' = lease
        /\ t \in NewTasks(p) => status[t] = "NONE"
    BY <1>1 DEF CreatePlanTasks, CreateTasksForDeploymentPlan, CreateTasks
  <2>. QED  BY <2>1 DEF SettledKept, NoRunsBeforeCreation, Settled, Terminal
<1>2. ASSUME UNCHANGED <<stepStatus, events, lease>> PROVE \A t \in Task : SettledKept(t)
  BY <1>2 DEF SettledKept
<1>3. ASSUME NEW t \in Task, NEW s, FinishTaskByHand(t, s)
      PROVE  \A u \in Task : SettledKept(u)
  <2>1. status[t] = "RUNNING" /\ stepStatus' = stepStatus /\ events' = events
    BY <1>3 DEF FinishTaskByHand, FinishTask
  <2>2. \A u \in Task \ {t} : lease'[u] = lease[u]
    BY <1>3 DEF FinishTaskByHand, LeaseTypeOK
  <2>. QED  BY <2>1, <2>2, KeepsSettled DEF Terminal
<1>4. ASSUME NEW t \in Task, NEW e \in Executor, LeaseTask(t, e)
      PROVE  \A u \in Task : SettledKept(u)
  <2>1. ASSUME NEW a \in Attempt, insertTaskLease(t, e, a)
        PROVE  \A u \in Task \ {t} : lease'[u] = lease[u]
    BY <2>1 DEF insertTaskLease, LeaseTypeOK
  <2>2. ASSUME NEW a \in Attempt, ClaimQueuedTask(t, e, a)
        PROVE  \A u \in Task : SettledKept(u)
    BY <2>1, <2>2, KeepsSettled DEF ClaimQueuedTask, StartTask, Terminal
  <2>3. ASSUME NEW a \in Attempt, ReclaimRunningTask(t, e, a)
        PROVE  \A u \in Task : SettledKept(u)
    <3>1. /\ status[t] = "RUNNING" /\ events' = events /\ insertTaskLease(t, e, a)
          /\ stepStatus' = [stepStatus EXCEPT ![t] = resetInterruptedStepRuns(t)]
      BY <2>3 DEF ReclaimRunningTask
    <3>2. /\ \A u \in Task \ {t} : stepStatus'[u] = stepStatus[u]
          /\ \A s \in Step : stepStatus[t][s] \in Settled
                               => stepStatus'[t][s] = stepStatus[t][s]
      BY <3>1, ResetOnlyRunning DEF Settled
    <3>. QED  BY <2>1, <3>1, <3>2, KeepsSettled DEF Terminal
  <2>4. ASSUME ReleaseExpiredLease(t, e)
        PROVE  \A u \in Task : SettledKept(u)
    <3>1. /\ status[t] = "RUNNING" /\ events' = events
          /\ stepStatus' = [stepStatus EXCEPT ![t] = resetInterruptedStepRuns(t)]
          /\ lease' = [lease EXCEPT ![t] = ReleaseExpired(t)]
      BY <2>4 DEF ReleaseExpiredLease
    <3>2. \A u \in Task \ {t} : lease'[u] = lease[u]
      BY <3>1 DEF LeaseTypeOK
    <3>3. /\ \A u \in Task \ {t} : stepStatus'[u] = stepStatus[u]
          /\ \A s \in Step : stepStatus[t][s] \in Settled
                               => stepStatus'[t][s] = stepStatus[t][s]
      BY <3>1, ResetOnlyRunning DEF Settled
    <3>. QED  BY <3>1, <3>2, <3>3, KeepsSettled DEF Terminal
  <2>. QED  BY <1>4, <2>2, <2>3, <2>4 DEF LeaseTask
<1>5. ASSUME NEW t \in Task, NEW a \in Attempt, LeaseExpires(t, a)
      PROVE  \A u \in Task : SettledKept(u)
  <2>1. status[t] = "RUNNING"
    BY <1>5 DEF LeaseExpires, LeaseInv, ActiveLeaseIsLatestOfRunningTask, Active
  <2>2. /\ stepStatus' = stepStatus /\ events' = events
        /\ \A u \in Task \ {t} : lease'[u] = lease[u]
    BY <1>5 DEF LeaseExpires, LeaseTypeOK
  <2>. QED  BY <2>1, <2>2, KeepsSettled DEF Terminal
<1>6. ASSUME NEW t \in Task, NEW s \in Step, NEW a \in Attempt, NEW n \in 1..MaxEvents,
             NEW ty \in EventType, RecordStepRunEvent(t, s, a, n, ty)
      PROVE  \A u \in Task : SettledKept(u)
  <2>. DEFINE runs == [stepStatus[t] EXCEPT ![s] = StepAfter(ty, stepStatus[t][s])]
  <2>1. /\ stepStatus' = [stepStatus EXCEPT ![t] = runs]
        /\ status[t] = "RUNNING"
        /\ stepStatus[t][s] \notin Settled
    BY <1>6 DEF RecordStepRunEvent, MayRecord, StepMayTake, Settled
  <2>2. \A u \in Task \ {t} : stepStatus'[u] = stepStatus[u] /\ lease'[u] = lease[u]
    BY <1>6, <2>1 DEF RecordStepRunEvent, LeaseTypeOK
  <2>3. \A u \in Task \ {t} : events'[u] = events[u]
    BY <1>6 DEF RecordStepRunEvent, LeaseTypeOK
  <2>4. \A r \in Step \ {s} : stepStatus'[t][r] = stepStatus[t][r]
    BY <2>1 DEF LeaseTypeOK
  <2>. QED  BY <2>1, <2>2, <2>3, <2>4, KeepsSettled DEF Terminal
<1>7. CASE UNCHANGED vars
  BY <1>2, <1>7 DEF vars, leaseVars
<1>. QED
  BY <1>1, <1>2, <1>3, <1>4, <1>5, <1>6, <1>7
     DEF Next, FailPlanPreflight, BlockReleaseBundle, StartTaskByHand, leaseVars

LEMMA NoRunsBeforeCreationNext ==
    LeaseTypeOK /\ NoRunsBeforeCreation /\ [Next]_vars => NoRunsBeforeCreation'
<1>. SUFFICES ASSUME LeaseTypeOK, NoRunsBeforeCreation, [Next]_vars
              PROVE  NoRunsBeforeCreation'
  OBVIOUS
<1>1. ASSUME NEW p \in Plan, NEW request \in Request, CreatePlanTasks(p, request)
      PROVE  NoRunsBeforeCreation'
  <2>. DEFINE req == normalizeTaskLockResourceRequests(request)
  <2>1. CreateTasks(p, req)
    BY <1>1 DEF CreatePlanTasks, CreateTasksForDeploymentPlan
  <2>2. \A t \in Task : status'[t] = "NONE" => t \notin NewTasks(p) /\ status[t] = "NONE"
    BY <2>1 DEF CreateTasks
  <2>3. \A t \in Task : t \notin NewTasks(p) => stepStatus'[t] = stepStatus[t]
    BY <1>1 DEF CreatePlanTasks
  <2>. QED  BY <2>2, <2>3 DEF NoRunsBeforeCreation
<1>2. ASSUME NEW t \in Task, status[t] # "NONE",
             \A u \in Task \ {t} : stepStatus'[u] = stepStatus[u],
             \A u \in Task : status'[u] = "NONE" => status[u] = "NONE"
      PROVE  NoRunsBeforeCreation'
  BY <1>2 DEF NoRunsBeforeCreation
<1>3. ASSUME stepStatus' = stepStatus, \A u \in Task : status'[u] = "NONE" => status[u] = "NONE"
      PROVE  NoRunsBeforeCreation'
  BY <1>3 DEF NoRunsBeforeCreation
<1>4. ASSUME NEW t \in Task, StartTask(t) \/ \E s : FinishTask(t, s)
      PROVE  \A u \in Task : status'[u] = "NONE" => status[u] = "NONE"
  BY <1>4 DEF StartTask, FinishTask, LeaseTypeOK, QueueTypeOK
<1>5. ASSUME NEW t \in Task, NEW e \in Executor, LeaseTask(t, e) PROVE NoRunsBeforeCreation'
  <2>1. ASSUME NEW a \in Attempt, ClaimQueuedTask(t, e, a) PROVE NoRunsBeforeCreation'
    BY <1>3, <1>4, <2>1 DEF ClaimQueuedTask
  <2>2. ASSUME NEW a \in Attempt, ReclaimRunningTask(t, e, a) PROVE NoRunsBeforeCreation'
    BY <1>2, <2>2, ResetOnlyRunning DEF ReclaimRunningTask, queueVars
  <2>3. ASSUME ReleaseExpiredLease(t, e) PROVE NoRunsBeforeCreation'
    BY <1>2, <2>3, ResetOnlyRunning DEF ReleaseExpiredLease, queueVars
  <2>. QED  BY <1>5, <2>1, <2>2, <2>3 DEF LeaseTask
<1>6. ASSUME NEW t \in Task, NEW s \in Step, NEW a \in Attempt, NEW n \in 1..MaxEvents,
             NEW ty \in EventType, RecordStepRunEvent(t, s, a, n, ty)
      PROVE  NoRunsBeforeCreation'
  <2>. DEFINE runs == [stepStatus[t] EXCEPT ![s] = StepAfter(ty, stepStatus[t][s])]
              after == IF ty \in {"SUCCEEDED", "FAILED"} THEN TaskAfter(t, runs) ELSE "RUNNING"
  <2>1. /\ stepStatus' = [stepStatus EXCEPT ![t] = runs]
        /\ status[t] = "RUNNING"
        /\ IF after = "RUNNING" THEN UNCHANGED queueVars ELSE FinishTask(t, after)
    BY <1>6 DEF RecordStepRunEvent, MayRecord
  <2>2. \A u \in Task \ {t} : stepStatus'[u] = stepStatus[u]
    BY <2>1 DEF LeaseTypeOK
  <2>3. \A u \in Task : status'[u] = "NONE" => status[u] = "NONE"
    BY <1>4, <2>1 DEF queueVars
  <2>. QED  BY <1>2, <2>1, <2>2, <2>3
<1>7. ASSUME NEW t \in Task, StartTaskByHand(t) \/ \E s : FinishTaskByHand(t, s)
      PROVE  NoRunsBeforeCreation'
  BY <1>3, <1>4, <1>7 DEF StartTaskByHand, FinishTaskByHand, leaseVars
<1>8. ASSUME UNCHANGED <<status, stepStatus>> PROVE NoRunsBeforeCreation'
  BY <1>3, <1>8
<1>9. CASE UNCHANGED vars
  BY <1>8, <1>9 DEF vars, leaseVars, queueVars
<1>10. ASSUME NEW p \in Plan, FailPlanPreflight(p) \/ BlockReleaseBundle(p)
       PROVE  NoRunsBeforeCreation'
  BY <1>8, <1>10 DEF FailPlanPreflight, BlockReleaseBundle, CreateTasksPreflightFailed,
     leaseVars, queueVars
<1>11. ASSUME NEW t \in Task, NEW a \in Attempt, LeaseExpires(t, a) PROVE NoRunsBeforeCreation'
  BY <1>8, <1>11 DEF LeaseExpires, queueVars
<1>. QED
  BY <1>1, <1>5, <1>6, <1>7, <1>9, <1>10, <1>11 DEF Next

(***************************************************************************)
(* A step that settled is never reset or rerun, and nothing a late executor *)
(* or an expiring lease does changes the rows of a task that has ended.     *)
(***************************************************************************)
THEOREM WhatSettledStays == Spec => SettledStays
<1>1. Init => LeaseInv /\ NoRunsBeforeCreation
  BY DEF Init, LeaseInv, NoGaps, ActiveLeaseIsLatestOfRunningTask, Active, NoRunsBeforeCreation
<1>2. LeaseTypeOK /\ LeaseInv /\ NoRunsBeforeCreation /\ [Next]_vars
        => [\A t \in Task :
              /\ \A s \in Step : stepStatus[t][s] \in Settled
                                   => stepStatus'[t][s] = stepStatus[t][s]
              /\ status[t] \in Terminal =>
                   /\ stepStatus'[t] = stepStatus[t]
                   /\ events'[t] = events[t]
                   /\ lease'[t] = lease[t]]_vars
  BY SettledNext DEF SettledKept
<1>. QED
  BY <1>1, <1>2, LeaseInvNext, NoRunsBeforeCreationNext, LeaseTypeCorrect, PTL
     DEF Spec, SettledStays

-----------------------------------------------------------------------------
(* The transactions of the queue, statement by statement.                   *)

(* What an open transaction x may rely on, whatever other sessions do.      *)
GroupsOf(p, req) == getDeploymentPlanTaskResourceLockGroups(p, req)
Guarded(rs, ls) == \A r \in rs : Guard(r) \in ls
Cancels(p, req, r, t) == Requests(p, req, r, "CANCEL_OLDER") /\ r \in Locks(t)

(* The tasks that a creation has cancelled by the policies of done, and the *)
(* rivals that these have left it.                                          *)
CanceledOK(p, req, done, t, locks) ==
    /\ t \in Task \ NewTasks(p) /\ status[t] \in {"QUEUED", "CANCELED"}
    /\ TaskRow(t) \in locks
    /\ \E r \in done : Cancels(p, req, r, t)

NoWaiterLeft(p, req, r, canceled) ==
    Requests(p, req, r, "CANCEL_OLDER") => UnreleasedOn(r, {"QUEUED"}, p) \subseteq canceled

NoRivalLeft(p, req, done, r, canceled) ==
    Requests(p, req, r, "REJECT_NEW") =>
        \A t \in UnreleasedOn(r, {"QUEUED", "RUNNING"}, p) :
            t \in canceled /\ \E q \in done : SortKey[q] < SortKey[r] /\ Cancels(p, req, q, t)

Policies(p, req, left, canceled, locks) ==
    LET done == GroupsOf(p, req) \ left
    IN  /\ ~HasDuplicateLock(p, req)
        /\ left \subseteq GroupsOf(p, req)
        /\ \A r \in done, q \in left : SortKey[r] < SortKey[q]
        /\ \A t \in canceled : CanceledOK(p, req, done, t, locks)
        /\ \A r \in done :
              NoWaiterLeft(p, req, r, canceled) /\ NoRivalLeft(p, req, done, r, canceled)

CreateOK(x) ==
    /\ x.on \in Plan /\ x.req \in TxRequest
    /\ planStatus[x.on] \in {"READY", "EXECUTED"}
    /\ x.at \in {"guarded", "preflight", "policies"}
    /\ x.at = "guarded" => Guarded(GroupsOf(x.on, x.req), x.held \cup x.todo)
    /\ x.at # "guarded" =>
          Guarded(GroupsOf(x.on, x.req), x.held) /\ \A t \in NewTasks(x.on) : status[t] = "NONE"
    /\ x.at # "policies" => x.canceled = {}
    /\ x.at = "policies" => Policies(x.on, x.req, x.left, x.canceled, x.held \cup x.todo)

Before(op) == IF op = "finish" THEN "RUNNING" ELSE "QUEUED"
Reclaims(x) == x.op = "claim" /\ status[x.on] = "RUNNING"
MayRun(x) ==
    status[x.on] = "QUEUED" /\ Guarded(Locks(x.on), x.held) /\ ~HasConflict(x.on)

TaskOK(x) ==
    /\ x.on \in Task /\ status[x.on] # "NONE"
    /\ x.at \in {"locked", "guarded", "rows", "insert"}
    /\ TaskRow(x.on) \in x.held \cup x.todo
    /\ x.at # "locked" => TaskRow(x.on) \in x.held
    /\ x.at \in {"guarded", "rows"} => status[x.on] = Before(x.op)
    /\ x.at = "guarded" => Guarded(Locks(x.on), x.held \cup x.todo)
    /\ x.at = "rows" => Guarded(Locks(x.on), x.held)
    /\ x.at = "insert" => x.op # "finish" /\ (Reclaims(x) \/ MayRun(x))

TxOK(x) ==
    /\ x.op \in {"create", "start", "finish", "claim"}
    /\ x.op = "create" => CreateOK(x)
    /\ x.op # "create" => TaskOK(x)

(* Which locks an open transaction may hold or wait for.                    *)
AsksToCancel(req) ==
    "CANCEL_OLDER" \in {req.default} \cup {req.additional[r] : r \in AdditionalResource}
OlderRows(x) == x.op = "create" /\ AsksToCancel(x.req)
GuardIn(l) == l[1] = "guard" /\ l[2] \in Resource /\ l = Guard(l[2])

LockOK(x, l) ==
    \/ GuardIn(l) /\ (x.op = "create" \/ x.at # "locked")
    \/ l[1] = "task" /\ (OlderRows(x) \/ (x.op # "create" /\ l = TaskRow(x.on)))
    \/ l[1] = "lock" /\ (OlderRows(x) \/ Guard(l[3]) \in x.held)
    \/ l[1] = "target" /\ x.op = "create" /\ \E t \in NewTasks(x.on) : l = TargetRow(t[2])
    \/ l[1] = "target_key" /\ x.op = "claim" /\ x.at = "insert" /\ l = TargetKey(x.on[2])
    \/ l[1] = "bundle" /\ x.op = "create" /\ l = BundleRow(x.on)
    \/ l[1] = "bundle" /\ x.op = "claim" /\ l = BundleRow(x.on[1])

StageTags(x) ==
    CASE x.at = "guarded" -> {"guard"}
      [] x.at = "preflight" -> {"target", "bundle"}
      [] x.at = "policies" -> IF AsksToCancel(x.req) THEN {"task", "lock"} ELSE {"lock"}
      [] x.at = "locked" -> IF x.op = "claim" THEN {"bundle"} ELSE {"task"}
      [] x.at = "rows" -> {"lock"}
      [] OTHER -> {"target_key"}

LocksOK(x) ==
    /\ \A l \in x.held \cup x.todo : LockOK(x, l)
    /\ \A l \in x.todo : l[1] \in StageTags(x)
    /\ x.at = "guarded" =>
          /\ \A l \in x.held : x.op = "create" => l[1] = "guard"
          /\ \A l \in x.held, m \in x.todo : l[1] = "guard" => GuardKey[l[2]] < GuardKey[m[2]]
    /\ x.at \in {"preflight", "locked"} /\ (\E l \in x.held : l[1] = "bundle") => x.todo = {}
    /\ x.at = "locked" /\ x.op # "claim" /\ x.held # {} => x.todo = {}
    /\ (\E l \in x.held : l[1] = "target_key") => x.todo = {}

TxAlone ==
    \A s, u \in Connection : \A x, y :
        x = tx[s] /\ y = tx[u] /\ s # u /\ x # Nil /\ y # Nil =>
            \A l \in x.held \cap y.held : l[1] = "target_key"

IsTx(x) ==
    x = [op |-> x.op, on |-> x.on, req |-> x.req, at |-> x.at, todo |-> x.todo,
         held |-> x.held, left |-> x.left, canceled |-> x.canceled]

TxInv ==
    /\ QueueTypeOK /\ LocksFollowTask /\ PlanExecutedOnce
    /\ tx = [s \in Connection |-> tx[s]]
    /\ \A s \in Connection : \A x : x = tx[s] /\ x # Nil => IsTx(x) /\ TxOK(x) /\ LocksOK(x)
    /\ TxAlone

(* Connection s goes on to y.                                                  *)
TxGoes(s, y) ==
    /\ tx' = [tx EXCEPT ![s] = y]
    /\ y # Nil => IsTx(y) /\ TxOK(y)' /\ LocksOK(y)
    /\ y # Nil => \A u \in Connection \ {s} : \A z : z = tx[u] /\ z # Nil =>
                     \A l \in y.held \cap z.held : l[1] = "target_key"

LEMMA LockTags ==
  /\ \A r : Guard(r)[1] = "guard" /\ Guard(r)[2] = r
  /\ \A t : TaskRow(t)[1] = "task" /\ TaskRow(t)[2] = t
  /\ \A t, r : LockRow(t, r)[1] = "lock" /\ LockRow(t, r)[3] = r
  /\ \A tgt : TargetRow(tgt)[1] = "target" /\ TargetRow(tgt)[2] = tgt
  /\ \A tgt : TargetKey(tgt)[1] = "target_key" /\ TargetKey(tgt)[2] = tgt
  /\ \A p : BundleRow(p)[1] = "bundle"
  BY DEF Guard, TaskRow, LockRow, TargetRow, TargetKey, BundleRow

LEMMA GuardsOf ==
  ASSUME NEW rs, NEW l
  PROVE  l \in lockTaskResourceAdvisoryGroups(rs) <=> \E r \in rs : l = Guard(r)
  BY DEF lockTaskResourceAdvisoryGroups

LEMMA GuardInGuard ==
  ASSUME NEW r \in Resource
  PROVE  GuardIn(Guard(r))
  BY LockTags DEF GuardIn

LEMMA QueueFrame ==
  ASSUME NEW x, UNCHANGED queueVars, TxOK(x)
  PROVE  TxOK(x)'
<1>1. /\ status' = status /\ planStatus' = planStatus /\ policy' = policy
      /\ acquired' = acquired /\ released' = released
  BY DEF queueVars
<1>2. /\ \A t : Locks(t)' = Locks(t)
      /\ \A t : HasConflict(t)' = HasConflict(t)
      /\ \A r, ss, p : UnreleasedOn(r, ss, p)' = UnreleasedOn(r, ss, p)
  BY <1>1 DEF Locks, HasConflict, hasActiveTaskResourceConflict, UnreleasedOn
<1>3. \A p, req, left, canceled, locks :
         Policies(p, req, left, canceled, locks)' = Policies(p, req, left, canceled, locks)
  <2>1. \A p, req, r, t : Cancels(p, req, r, t)' = Cancels(p, req, r, t)
    BY <1>2 DEF Cancels
  <2>2. /\ \A p, req, done, t, locks :
              CanceledOK(p, req, done, t, locks)' = CanceledOK(p, req, done, t, locks)
        /\ \A p, req, r, canceled :
              NoWaiterLeft(p, req, r, canceled)' = NoWaiterLeft(p, req, r, canceled)
        /\ \A p, req, done, r, canceled :
              NoRivalLeft(p, req, done, r, canceled)' = NoRivalLeft(p, req, done, r, canceled)
    BY <1>1, <1>2, <2>1 DEF CanceledOK, NoWaiterLeft, NoRivalLeft
  <2>. QED  BY <2>2 DEF Policies
<1>4. CreateOK(x) <=> CreateOK(x)'
  BY <1>1, <1>2, <1>3 DEF CreateOK
<1>5. TaskOK(x) <=> TaskOK(x)'
  BY <1>1, <1>2 DEF TaskOK, Reclaims, MayRun
<1>. QED  BY <1>4, <1>5 DEF TxOK

LEMMA GoesNil ==
  ASSUME NEW s \in Connection, tx' = [tx EXCEPT ![s] = Nil]
  PROVE  TxGoes(s, Nil)
  BY DEF TxGoes

LEMMA GoesOn ==
  ASSUME TxInv, NEW s \in Connection, NEW x, x = tx[s], x # Nil,
         NEW y, IsTx(y), y.held \subseteq x.held, TxOK(y), LocksOK(y),
         UNCHANGED queueVars, tx' = [tx EXCEPT ![s] = y]
  PROVE  TxGoes(s, y)
<1>1. TxOK(y)'
  BY QueueFrame
<1>2. \A u \in Connection \ {s} : \A z : z = tx[u] /\ z # Nil =>
         \A l \in y.held \cap z.held : l[1] = "target_key"
  BY DEF TxInv, TxAlone
<1>. QED  BY <1>1, <1>2 DEF TxGoes

LEMMA Alone ==
  ASSUME TxInv, NEW s \in Connection, NEW x, x = tx[s], x # Nil,
         NEW u \in Connection, NEW z, z = tx[u], z # Nil, u # s, NEW l \in x.held, l \in z.held
  PROVE  l[1] = "target_key"
<1>1. TxAlone
  BY DEF TxInv
<1>2. l \in x.held \cap z.held
  OBVIOUS
<1>. QED  BY <1>1, <1>2 DEF TxAlone

LEMMA ExceptField ==
  ASSUME NEW x, IsTx(x), NEW a
  PROVE  /\ [x EXCEPT !.at = a]
               = [op |-> x.op, on |-> x.on, req |-> x.req, at |-> a, todo |-> x.todo,
                  held |-> x.held, left |-> x.left, canceled |-> x.canceled]
         /\ [x EXCEPT !.todo = a]
               = [op |-> x.op, on |-> x.on, req |-> x.req, at |-> x.at, todo |-> a,
                  held |-> x.held, left |-> x.left, canceled |-> x.canceled]
         /\ [x EXCEPT !.held = a]
               = [op |-> x.op, on |-> x.on, req |-> x.req, at |-> x.at, todo |-> x.todo,
                  held |-> a, left |-> x.left, canceled |-> x.canceled]
         /\ [x EXCEPT !.left = a]
               = [op |-> x.op, on |-> x.on, req |-> x.req, at |-> x.at, todo |-> x.todo,
                  held |-> x.held, left |-> a, canceled |-> x.canceled]
         /\ [x EXCEPT !.canceled = a]
               = [op |-> x.op, on |-> x.on, req |-> x.req, at |-> x.at, todo |-> x.todo,
                  held |-> x.held, left |-> x.left, canceled |-> a]
<1>1. ASSUME NEW y, y = [x EXCEPT !.at = a]
      PROVE  y = [op |-> x.op, on |-> x.on, req |-> x.req, at |-> a, todo |-> x.todo,
                  held |-> x.held, left |-> x.left, canceled |-> x.canceled]
  BY <1>1 DEF IsTx
<1>2. ASSUME NEW y, y = [x EXCEPT !.todo = a]
      PROVE  y = [op |-> x.op, on |-> x.on, req |-> x.req, at |-> x.at, todo |-> a,
                  held |-> x.held, left |-> x.left, canceled |-> x.canceled]
  BY <1>2 DEF IsTx
<1>3. ASSUME NEW y, y = [x EXCEPT !.held = a]
      PROVE  y = [op |-> x.op, on |-> x.on, req |-> x.req, at |-> x.at, todo |-> x.todo,
                  held |-> a, left |-> x.left, canceled |-> x.canceled]
  BY <1>3 DEF IsTx
<1>4. ASSUME NEW y, y = [x EXCEPT !.left = a]
      PROVE  y = [op |-> x.op, on |-> x.on, req |-> x.req, at |-> x.at, todo |-> x.todo,
                  held |-> x.held, left |-> a, canceled |-> x.canceled]
  BY <1>4 DEF IsTx
<1>5. ASSUME NEW y, y = [x EXCEPT !.canceled = a]
      PROVE  y = [op |-> x.op, on |-> x.on, req |-> x.req, at |-> x.at, todo |-> x.todo,
                  held |-> x.held, left |-> x.left, canceled |-> a]
  BY <1>5 DEF IsTx
<1>. QED  BY <1>1, <1>2, <1>3, <1>4, <1>5, Zenon

(* The record that GoTo leaves.                                             *)
LEMMA GoToIs ==
  ASSUME TxInv, NEW s \in Connection, NEW x, x = tx[s], x # Nil, NEW a, NEW T, GoTo(s, a, T)
  PROVE  tx' = [tx EXCEPT ![s] = [op |-> x.op, on |-> x.on, req |-> x.req, at |-> a, todo |-> T,
                                  held |-> x.held, left |-> x.left, canceled |-> x.canceled]]
<1>. DEFINE y == [op |-> x.op, on |-> x.on, req |-> x.req, at |-> a, todo |-> T,
                  held |-> x.held, left |-> x.left, canceled |-> x.canceled]
<1>1. IsTx(x) /\ tx = [u \in Connection |-> tx[u]]
  BY DEF TxInv
<1>2. PICK v : v = [x EXCEPT !.at = a]
  OBVIOUS
<1>3. IsTx(v) /\ [v EXCEPT !.todo = T] = y
  <2>1. v = [op |-> x.op, on |-> x.on, req |-> x.req, at |-> a, todo |-> x.todo,
             held |-> x.held, left |-> x.left, canceled |-> x.canceled]
    BY <1>1, <1>2, ExceptField, Zenon
  <2>2. IsTx(v) /\ v.op = x.op /\ v.on = x.on /\ v.req = x.req /\ v.at = a
        /\ v.held = x.held /\ v.left = x.left /\ v.canceled = x.canceled
    BY <2>1 DEF IsTx
  <2>3. [v EXCEPT !.todo = T] = [op |-> v.op, on |-> v.on, req |-> v.req, at |-> v.at, todo |-> T,
             held |-> v.held, left |-> v.left, canceled |-> v.canceled]
    BY <2>2, ExceptField, Zenon
  <2>. QED  BY <2>2, <2>3
<1>4. tx' = [tx EXCEPT ![s] = [v EXCEPT !.todo = T]]
  BY <1>1, <1>2 DEF GoTo
<1>. QED  BY <1>3, <1>4

LEMMA CurrentOK ==
  ASSUME TxInv, NEW s \in Connection, NEW x, x = tx[s], x # Nil
  PROVE  IsTx(x) /\ TxOK(x) /\ LocksOK(x)
  BY DEF TxInv

LEMMA Stages ==
  ASSUME NEW x, TxOK(x)
  PROVE  /\ x.op \in {"create", "start", "finish", "claim"}
         /\ x.op = "create" => x.at \in {"guarded", "preflight", "policies"}
         /\ x.op # "create" => x.at \in {"locked", "guarded", "rows", "insert"}
  BY DEF TxOK, CreateOK, TaskOK

(* What an open transaction still waits for is of its stage.                *)
LEMMA TodoTags ==
  ASSUME NEW x, TxOK(x), LocksOK(x), NEW l \in x.todo
  PROVE  /\ LockOK(x, l)
         /\ x.at = "guarded" => GuardIn(l)
         /\ x.at = "preflight" => l[1] = "target" \/ (l[1] = "bundle" /\ l = BundleRow(x.on))
         /\ x.at = "policies" /\ ~AsksToCancel(x.req) => l[1] = "lock"
         /\ x.at = "locked" /\ x.op = "claim" => l[1] = "bundle" /\ l = BundleRow(x.on[1])
         /\ x.at = "locked" /\ x.op # "claim" => l[1] = "task" /\ l = TaskRow(x.on)
         /\ x.at = "rows" => l[1] = "lock"
         /\ x.at = "insert" => l[1] = "target_key" /\ l = TargetKey(x.on[2]) /\ x.op = "claim"
<1>1. LockOK(x, l) /\ l[1] \in StageTags(x)
  BY DEF LocksOK
<1>. QED  BY <1>1, Stages DEF LockOK, StageTags, GuardIn, OlderRows

LEMMA KeysDiffer ==
  ASSUME NEW l, NEW m, GuardIn(l), GuardIn(m), l # m
  PROVE  /\ GuardKey[l[2]] \in Nat /\ GuardKey[m[2]] \in Nat
         /\ GuardKey[l[2]] # GuardKey[m[2]]
  BY TransactionAssumption DEF GuardIn

LEMMA TakeLockGoes ==
  ASSUME TxInv, NEW s \in Connection, TakeLock(s)
  PROVE  \E y : TxGoes(s, y)
<1>. PICK x : x = tx[s]
  OBVIOUS
<1>1. x # Nil /\ UNCHANGED queueVars
  BY DEF TakeLock
<1>2. PICK l \in x.todo :
        /\ \A m \in x.todo : ~Precedes(m, l)
        /\ \A u \in Connection \ {s} : ~Blocks(u, l)
        /\ tx' = [tx EXCEPT ![s].held = @ \cup {l}, ![s].todo = @ \ {l}]
  BY DEF TakeLock, Upcoming
<1>3. IsTx(x) /\ TxOK(x) /\ LocksOK(x) /\ tx = [u \in Connection |-> tx[u]]
  BY <1>1, CurrentOK DEF TxInv
<1>. PICK y : y = [op |-> x.op, on |-> x.on, req |-> x.req, at |-> x.at, todo |-> x.todo \ {l},
                   held |-> x.held \cup {l}, left |-> x.left, canceled |-> x.canceled]
  OBVIOUS
<1>4. tx' = [tx EXCEPT ![s] = y] /\ IsTx(y)
  <2>1. PICK v : v = [x EXCEPT !.held = x.held \cup {l}]
    OBVIOUS
  <2>2. v = [op |-> x.op, on |-> x.on, req |-> x.req, at |-> x.at, todo |-> x.todo,
             held |-> x.held \cup {l}, left |-> x.left, canceled |-> x.canceled]
    BY <1>3, <2>1, ExceptField, Zenon
  <2>3. IsTx(v) /\ v.op = x.op /\ v.on = x.on /\ v.req = x.req /\ v.at = x.at
        /\ v.held = x.held \cup {l} /\ v.left = x.left /\ v.canceled = x.canceled
        /\ v.todo = x.todo
    BY <2>2 DEF IsTx
  <2>4. [v EXCEPT !.todo = v.todo \ {l}]
           = [op |-> v.op, on |-> v.on, req |-> v.req, at |-> v.at, todo |-> v.todo \ {l},
              held |-> v.held, left |-> v.left, canceled |-> v.canceled]
    BY <2>3, ExceptField, Zenon
  <2>5. tx' = [tx EXCEPT ![s] = [v EXCEPT !.todo = v.todo \ {l}]]
    BY <1>2, <1>3, <2>1
  <2>6. [v EXCEPT !.todo = v.todo \ {l}] = y
    BY <2>3, <2>4
  <2>7. IsTx(y)
    BY DEF IsTx
  <2>. QED  BY <2>5, <2>6, <2>7
<1>5. /\ y.op = x.op /\ y.on = x.on /\ y.req = x.req /\ y.at = x.at /\ y.left = x.left
      /\ y.canceled = x.canceled /\ y.todo = x.todo \ {l} /\ y.held = x.held \cup {l}
      /\ y.held \cup y.todo = x.held \cup x.todo
  OBVIOUS
<1>6. TxOK(y)
  <2>1. \A rs : /\ Guarded(rs, x.held \cup x.todo) <=> Guarded(rs, y.held \cup y.todo)
               /\ Guarded(rs, x.held) => Guarded(rs, y.held)
    BY <1>5 DEF Guarded
  <2>2. Policies(x.on, x.req, x.left, x.canceled, x.held \cup x.todo)
           <=> Policies(y.on, y.req, y.left, y.canceled, y.held \cup y.todo)
    BY <1>5
  <2>4. CreateOK(x) => CreateOK(y)
    BY <1>5, <2>1, <2>2 DEF CreateOK
  <2>5. TaskOK(x) => TaskOK(y)
    BY <1>5, <2>1 DEF TaskOK, Reclaims, MayRun
  <2>. QED  BY <1>3, <1>5, <2>4, <2>5 DEF TxOK
<1>7. LocksOK(y)
  <2>1. ASSUME NEW k \in y.held \cup y.todo PROVE LockOK(y, k)
    <3>1. LockOK(x, k)
      BY <1>3, <1>5 DEF LocksOK
    <3>2. OlderRows(y) <=> OlderRows(x)
      BY <1>5 DEF OlderRows
    <3>. QED  BY <1>5, <3>1, <3>2 DEF LockOK
  <2>2. \A k \in y.todo : k[1] \in StageTags(y)
    <3>1. StageTags(y) = StageTags(x)
      BY <1>5 DEF StageTags
    <3>. QED  BY <1>3, <1>5, <3>1 DEF LocksOK
  <2>3. ASSUME y.at = "guarded"
        PROVE  /\ \A k \in y.held : y.op = "create" => k[1] = "guard"
               /\ \A k \in y.held, m \in y.todo : k[1] = "guard" => GuardKey[k[2]] < GuardKey[m[2]]
    <3>1. GuardIn(l) /\ \A m \in y.todo : GuardIn(m)
      BY <1>3, <1>5, <2>3, TodoTags
    <3>2. ASSUME NEW m \in y.todo PROVE GuardKey[l[2]] < GuardKey[m[2]]
      <4>1. ~Precedes(m, l) /\ m # l /\ GuardIn(m)
        BY <1>2, <1>5, <3>1
      <4>2. ~(GuardKey[m[2]] < GuardKey[l[2]])
        BY <3>1, <4>1 DEF Precedes, GuardIn
      <4>. QED  BY <3>1, <4>1, <4>2, KeysDiffer
    <3>. QED  BY <1>3, <1>5, <2>3, <3>1, <3>2 DEF LocksOK, GuardIn
  <2>4. ASSUME y.at \in {"preflight", "locked"}, NEW k \in y.held, k[1] = "bundle"
        PROVE  y.todo = {}
    <3>1. k = l
      BY <1>3, <1>5, <2>4 DEF LocksOK
    <3>2. ASSUME NEW m \in x.todo PROVE m = l
      <4>1. CASE x.at = "preflight"
        <5>1. l = BundleRow(x.on)
          BY <1>3, <2>4, <3>1, <4>1, TodoTags
        <5>2. m[1] # "target"
          BY <1>2, <2>4, <3>1 DEF Precedes
        <5>. QED  BY <1>3, <4>1, <5>1, <5>2, TodoTags
      <4>2. CASE x.at = "locked"
        <5>1. x.op = "claim"
          BY <1>3, <2>4, <3>1, <4>2, TodoTags
        <5>2. l = BundleRow(x.on[1]) /\ m = BundleRow(x.on[1])
          BY <1>3, <4>2, <5>1, TodoTags
        <5>. QED  BY <5>2
      <4>. QED  BY <1>5, <2>4, <4>1, <4>2
    <3>. QED  BY <1>5, <3>2
  <2>5. ASSUME y.at = "locked", y.op # "claim" PROVE y.todo = {}
    <3>1. \A m \in x.todo : m = TaskRow(x.on)
      BY <1>3, <1>5, <2>5, TodoTags
    <3>. QED  BY <1>5, <3>1
  <2>6. ASSUME NEW k \in y.held, k[1] = "target_key" PROVE y.todo = {}
    <3>1. k = l
      BY <1>3, <1>5, <2>6 DEF LocksOK
    <3>2. x.at = "insert"
      BY <1>3, <2>6, <3>1 DEF LocksOK, LockOK, GuardIn
    <3>3. \A m \in x.todo : m = l
      BY <1>3, <3>2, TodoTags
    <3>. QED  BY <1>5, <3>3
  <2>. QED  BY <2>1, <2>2, <2>3, <2>4, <2>5, <2>6 DEF LocksOK
<1>8. ASSUME NEW u \in Connection \ {s}, NEW z, z = tx[u], z # Nil, NEW k \in y.held \cap z.held
      PROVE  k[1] = "target_key"
  <2>1. CASE k \in x.held
    BY <1>1, <1>8, <2>1, Alone
  <2>2. CASE k = l
    <3>1. ~Conflicts(l, l)
      BY <1>2, <1>8, <2>2 DEF Blocks
    <3>. QED  BY <2>2, <3>1 DEF Conflicts
  <2>. QED  BY <1>5, <2>1, <2>2
<1>9. TxOK(y)'
  BY <1>1, <1>6, QueueFrame
<1>10. TxGoes(s, y)
  BY <1>4, <1>7, <1>8, <1>9 DEF TxGoes
<1>. QED  BY <1>10

(* The locks of one resource are guards, and plans ask for resources.       *)
LEMMA GroupsAreResources ==
  ASSUME NEW p, NEW req
  PROVE  GroupsOf(p, req) \subseteq Resource
  BY DEF GroupsOf, getDeploymentPlanTaskResourceLockGroups

LEMMA BeginCreateGoes ==
  ASSUME TxInv, NEW s \in Connection, NEW p \in Plan, NEW req \in TxRequest, BeginCreate(s, p, req)
  PROVE  UNCHANGED queueVars /\ \E y : TxGoes(s, y)
<1>. PICK T : T = lockTaskResourceAdvisoryGroups(GroupsOf(p, req))
  OBVIOUS
<1>. PICK y : y = [op |-> "create", on |-> p, req |-> req, at |-> "guarded", todo |-> T,
                   held |-> {}, left |-> {}, canceled |-> {}]
  OBVIOUS
<1>1. /\ UNCHANGED queueVars /\ planStatus[p] = "READY"
      /\ tx' = [tx EXCEPT ![s] = y]
  BY DEF BeginCreate, Begin, Transaction, GroupsOf
<1>2. \A l \in T : GuardIn(l) /\ l[1] = "guard"
  BY GroupsAreResources, GuardsOf, GuardInGuard, LockTags
<1>3. TxOK(y)
  <2>1. Guarded(GroupsOf(p, req), y.held \cup y.todo)
    BY GuardsOf DEF Guarded
  <2>. QED  BY <1>1, <2>1 DEF TxOK, CreateOK
<1>4. LocksOK(y)
  BY <1>2 DEF LocksOK, LockOK, StageTags
<1>5. IsTx(y)
  BY DEF IsTx
<1>6. TxGoes(s, y)
  BY <1>1, <1>3, <1>4, <1>5, QueueFrame DEF TxGoes
<1>. QED  BY <1>1, <1>6

LEMMA BeginTransitionGoes ==
  ASSUME TxInv, NEW s \in Connection, NEW t \in Task, NEW op \in {"start", "finish"},
         BeginTransition(s, t, op)
  PROVE  UNCHANGED queueVars /\ \E y : TxGoes(s, y)
<1>. PICK y : y = [op |-> op, on |-> t, req |-> Nil, at |-> "locked", todo |-> {TaskRow(t)},
                   held |-> {}, left |-> {}, canceled |-> {}]
  OBVIOUS
<1>1. /\ UNCHANGED queueVars /\ status[t] # "NONE"
      /\ tx' = [tx EXCEPT ![s] = y]
  BY DEF BeginTransition, Begin, Transaction
<1>2. TxOK(y)
  BY <1>1 DEF TxOK, TaskOK
<1>3. LocksOK(y)
  BY LockTags DEF LocksOK, LockOK, StageTags
<1>4. IsTx(y)
  BY DEF IsTx
<1>5. TxGoes(s, y)
  BY <1>1, <1>2, <1>3, <1>4, QueueFrame DEF TxGoes
<1>. QED  BY <1>1, <1>5

LEMMA BeginClaimGoes ==
  ASSUME TxInv, NEW s \in Connection, NEW t \in Task, BeginClaim(s, t)
  PROVE  UNCHANGED queueVars /\ \E y : TxGoes(s, y)
<1>. PICK y : y = [op |-> "claim", on |-> t, req |-> Nil, at |-> "locked",
                   todo |-> {BundleRow(t[1])}, held |-> {TaskRow(t)}, left |-> {}, canceled |-> {}]
  OBVIOUS
<1>1. /\ UNCHANGED queueVars /\ status[t] # "NONE"
      /\ \A u \in Connection : \A z : z = tx[u] /\ z # Nil => TaskRow(t) \notin z.held
      /\ tx' = [tx EXCEPT ![s] = y]
  BY DEF BeginClaim, Begin, Transaction
<1>2. TxOK(y)
  BY <1>1 DEF TxOK, TaskOK
<1>3. LocksOK(y)
  BY LockTags DEF LocksOK, LockOK, StageTags
<1>4. IsTx(y)
  BY DEF IsTx
<1>5. \A u \in Connection \ {s} : \A z : z = tx[u] /\ z # Nil =>
         \A l \in y.held \cap z.held : l[1] = "target_key"
  BY <1>1
<1>6. TxGoes(s, y)
  BY <1>1, <1>2, <1>3, <1>4, <1>5, QueueFrame DEF TxGoes
<1>. QED  BY <1>1, <1>6

LEMMA LockForPreflightGoes ==
  ASSUME TxInv, NEW s \in Connection, LockForPreflight(s)
  PROVE  UNCHANGED queueVars /\ \E y : TxGoes(s, y)
<1>. PICK x : x = tx[s]
  OBVIOUS
<1>1. /\ x # Nil /\ x.op = "create" /\ x.at = "guarded" /\ x.todo = {} /\ UNCHANGED queueVars
  BY DEF LockForPreflight, IsAt
<1>2. IsTx(x) /\ TxOK(x) /\ LocksOK(x)
  BY <1>1, CurrentOK
<1>3. CASE \E t \in NewTasks(x.on) : status[t] # "NONE"
  <2>1. tx' = [tx EXCEPT ![s] = Nil]
    BY <1>3 DEF LockForPreflight, End
  <2>. QED  BY <1>1, <2>1, GoesNil
<1>4. CASE \A t \in NewTasks(x.on) : status[t] = "NONE"
  <2>. PICK T : T = {TargetRow(t[2]) : t \in NewTasks(x.on)} \cup {BundleRow(x.on)}
    OBVIOUS
  <2>. PICK y : y = [op |-> x.op, on |-> x.on, req |-> x.req, at |-> "preflight", todo |-> T,
                     held |-> x.held, left |-> x.left, canceled |-> x.canceled]
    OBVIOUS
  <2>1. GoTo(s, "preflight", T)
    BY <1>4 DEF LockForPreflight
  <2>2. tx' = [tx EXCEPT ![s] = y] /\ IsTx(y)
    <3>1. tx' = [tx EXCEPT ![s] = [op |-> x.op, on |-> x.on, req |-> x.req, at |-> "preflight",
                 todo |-> T, held |-> x.held, left |-> x.left, canceled |-> x.canceled]]
      BY <1>1, <2>1, GoToIs
    <3>. QED  BY <3>1 DEF IsTx
  <2>3. TxOK(y)
    <3>1. CreateOK(x) /\ Guarded(GroupsOf(x.on, x.req), x.held \cup x.todo)
      BY <1>1, <1>2 DEF TxOK, CreateOK
    <3>2. Guarded(GroupsOf(x.on, x.req), x.held)
      BY <1>1, <3>1 DEF Guarded
    <3>. QED  BY <1>1, <1>4, <3>1, <3>2 DEF TxOK, CreateOK
  <2>4. LocksOK(y)
    <3>1. \A l \in x.held : l[1] = "guard" /\ LockOK(x, l)
      BY <1>1, <1>2 DEF LocksOK
    <3>2. \A l \in x.held : LockOK(y, l) /\ l[1] = "guard"
      BY <1>1, <3>1 DEF LockOK
    <3>3. \A l \in T : \/ l[1] = "target" /\ \E t \in NewTasks(x.on) : l = TargetRow(t[2])
                       \/ l[1] = "bundle" /\ l = BundleRow(x.on)
      BY LockTags
    <3>4. \A l \in T : LockOK(y, l)
      BY <1>1, <3>3 DEF LockOK
    <3>. QED  BY <1>1, <3>2, <3>3, <3>4 DEF LocksOK, StageTags
  <2>5. TxGoes(s, y)
    BY <1>1, <2>2, <2>3, <2>4, GoesOn
  <2>. QED  BY <1>1, <2>5
<1>. QED  BY <1>3, <1>4

(* The statements of a creation that change several fields, and the record  *)
(* that each leaves.                                                        *)
Inserts(s, a, left, T) == tx' = [tx EXCEPT ![s].at = a, ![s].left = left, ![s].todo = T]
Applies(s, left, can, T) ==
    tx' = [tx EXCEPT ![s].left = left, ![s].canceled = can, ![s].todo = T]

LEMMA InsertIs ==
  ASSUME TxInv, NEW s \in Connection, NEW x, x = tx[s], x # Nil, NEW a, NEW left, NEW T,
         Inserts(s, a, left, T)
  PROVE  tx' = [tx EXCEPT ![s] = [op |-> x.op, on |-> x.on, req |-> x.req, at |-> a, todo |-> T,
                                  held |-> x.held, left |-> left, canceled |-> x.canceled]]
<1>. DEFINE y == [op |-> x.op, on |-> x.on, req |-> x.req, at |-> a, todo |-> T,
                  held |-> x.held, left |-> left, canceled |-> x.canceled]
<1>1. IsTx(x) /\ tx = [u \in Connection |-> tx[u]]
  BY DEF TxInv
<1>2. PICK v : v = [x EXCEPT !.at = a]
  OBVIOUS
<1>3. PICK w : w = [v EXCEPT !.left = left]
  OBVIOUS
<1>4. [w EXCEPT !.todo = T] = y
  <2>1. v = [op |-> x.op, on |-> x.on, req |-> x.req, at |-> a, todo |-> x.todo,
             held |-> x.held, left |-> x.left, canceled |-> x.canceled]
    BY <1>1, <1>2, ExceptField, Zenon
  <2>2. IsTx(v) /\ v.op = x.op /\ v.on = x.on /\ v.req = x.req /\ v.at = a
        /\ v.held = x.held /\ v.canceled = x.canceled
    BY <2>1 DEF IsTx
  <2>3. w = [op |-> v.op, on |-> v.on, req |-> v.req, at |-> v.at, todo |-> v.todo,
             held |-> v.held, left |-> left, canceled |-> v.canceled]
    BY <1>3, <2>2, ExceptField, Zenon
  <2>4. IsTx(w) /\ w.op = x.op /\ w.on = x.on /\ w.req = x.req /\ w.at = a
        /\ w.held = x.held /\ w.left = left /\ w.canceled = x.canceled
    BY <2>2, <2>3 DEF IsTx
  <2>5. [w EXCEPT !.todo = T] = [op |-> w.op, on |-> w.on, req |-> w.req, at |-> w.at, todo |-> T,
             held |-> w.held, left |-> w.left, canceled |-> w.canceled]
    BY <2>4, ExceptField, Zenon
  <2>. QED  BY <2>4, <2>5
<1>5. tx' = [tx EXCEPT ![s] = [w EXCEPT !.todo = T]]
  BY <1>1, <1>2, <1>3 DEF Inserts
<1>. QED  BY <1>4, <1>5

LEMMA PolicyIs ==
  ASSUME TxInv, NEW s \in Connection, NEW x, x = tx[s], x # Nil, NEW left, NEW can, NEW T,
         Applies(s, left, can, T)
  PROVE  tx' = [tx EXCEPT ![s] = [op |-> x.op, on |-> x.on, req |-> x.req, at |-> x.at, todo |-> T,
                                  held |-> x.held, left |-> left, canceled |-> can]]
<1>. DEFINE y == [op |-> x.op, on |-> x.on, req |-> x.req, at |-> x.at, todo |-> T,
                  held |-> x.held, left |-> left, canceled |-> can]
<1>1. IsTx(x) /\ tx = [u \in Connection |-> tx[u]]
  BY DEF TxInv
<1>2. PICK v : v = [x EXCEPT !.left = left]
  OBVIOUS
<1>3. PICK w : w = [v EXCEPT !.canceled = can]
  OBVIOUS
<1>4. [w EXCEPT !.todo = T] = y
  <2>1. v = [op |-> x.op, on |-> x.on, req |-> x.req, at |-> x.at, todo |-> x.todo,
             held |-> x.held, left |-> left, canceled |-> x.canceled]
    BY <1>1, <1>2, ExceptField, Zenon
  <2>2. IsTx(v) /\ v.op = x.op /\ v.on = x.on /\ v.req = x.req /\ v.at = x.at
        /\ v.held = x.held /\ v.left = left
    BY <2>1 DEF IsTx
  <2>3. w = [op |-> v.op, on |-> v.on, req |-> v.req, at |-> v.at, todo |-> v.todo,
             held |-> v.held, left |-> v.left, canceled |-> can]
    BY <1>3, <2>2, ExceptField, Zenon
  <2>4. IsTx(w) /\ w.op = x.op /\ w.on = x.on /\ w.req = x.req /\ w.at = x.at
        /\ w.held = x.held /\ w.left = left /\ w.canceled = can
    BY <2>2, <2>3 DEF IsTx
  <2>5. [w EXCEPT !.todo = T] = [op |-> w.op, on |-> w.on, req |-> w.req, at |-> w.at, todo |-> T,
             held |-> w.held, left |-> w.left, canceled |-> w.canceled]
    BY <2>4, ExceptField, Zenon
  <2>. QED  BY <2>4, <2>5
<1>5. tx' = [tx EXCEPT ![s] = [w EXCEPT !.todo = T]]
  BY <1>1, <1>2, <1>3 DEF Applies
<1>. QED  BY <1>4, <1>5

LEMMA InsertTasksGoes ==
  ASSUME TxInv, NEW s \in Connection, InsertTasks(s)
  PROVE  UNCHANGED queueVars /\ \E y : TxGoes(s, y)
<1>. PICK x : x = tx[s]
  OBVIOUS
<1>1. /\ x # Nil /\ x.op = "create" /\ x.at = "preflight" /\ x.todo = {} /\ UNCHANGED queueVars
  BY DEF InsertTasks, IsAt
<1>2. IsTx(x) /\ TxOK(x) /\ LocksOK(x)
  BY <1>1, CurrentOK
<1>3. CASE HasDuplicateLock(x.on, x.req)
  <2>1. tx' = [tx EXCEPT ![s] = Nil]
    BY <1>3 DEF InsertTasks, End
  <2>. QED  BY <1>1, <2>1, GoesNil
<1>4. CASE ~HasDuplicateLock(x.on, x.req)
  <2>. PICK groups : groups = GroupsOf(x.on, x.req)
    OBVIOUS
  <2>. PICK T : T = lockTaskResourceGroups(groups)
    OBVIOUS
  <2>1. Inserts(s, "policies", groups, T)
    BY <1>4 DEF InsertTasks, GroupsOf, Inserts
  <2>7. tx' = [tx EXCEPT ![s] = [op |-> x.op, on |-> x.on, req |-> x.req, at |-> "policies",
                 todo |-> T, held |-> x.held, left |-> groups, canceled |-> x.canceled]]
    BY <1>1, <2>1, InsertIs
  <2>. PICK y : y = [op |-> x.op, on |-> x.on, req |-> x.req, at |-> "policies", todo |-> T,
                     held |-> x.held, left |-> groups, canceled |-> x.canceled]
    OBVIOUS
  <2>2. tx' = [tx EXCEPT ![s] = y] /\ IsTx(y)
    BY <2>7 DEF IsTx
  <2>3. CreateOK(x)
    BY <1>1, <1>2 DEF TxOK
  <2>4. TxOK(y)
    <3>1. Policies(x.on, x.req, groups, {}, x.held \cup T)
      BY <1>4 DEF Policies
    <3>2. x.canceled = {}
      BY <1>1, <2>3 DEF CreateOK
    <3>3. CreateOK(y)
      BY <1>1, <2>3, <3>1, <3>2 DEF CreateOK
    <3>. QED  BY <1>1, <3>3 DEF TxOK
  <2>5. LocksOK(y)
    <3>1. \A l \in x.held : LockOK(x, l)
      BY <1>2 DEF LocksOK
    <3>2. \A l \in x.held : LockOK(y, l)
      BY <1>1, <3>1 DEF LockOK, OlderRows
    <3>3. \A l \in T : l[1] = "lock" /\ l[3] \in groups
      BY LockTags DEF lockTaskResourceGroups, lockTaskResourceGroup
    <3>4. \A r \in groups : Guard(r) \in x.held
      BY <1>1, <2>3 DEF CreateOK, Guarded
    <3>5. \A l \in T : LockOK(y, l)
      BY <3>3, <3>4 DEF LockOK
    <3>6. \A l \in x.held : l[1] # "target_key"
      BY <1>1, <3>1, LockTags DEF LockOK, GuardIn
    <3>. QED  BY <1>1, <3>2, <3>3, <3>5, <3>6 DEF LocksOK, StageTags
  <2>6. TxGoes(s, y)
    BY <1>1, <2>2, <2>4, <2>5, GoesOn
  <2>. QED  BY <1>1, <2>6
<1>. QED  BY <1>3, <1>4

(* The policy of the next resource keeps what those before it have left.    *)
LEMMA PolicyApplied ==
  ASSUME NEW p, NEW req, NEW left, NEW can, NEW held, NEW T, NEW older, NEW r \in left,
         Policies(p, req, left, can, held),
         \A q \in left : SortKey[r] <= SortKey[q],
         older = IF Requests(p, req, r, "CANCEL_OLDER")
                 THEN UnreleasedOn(r, {"QUEUED"}, p) \ can ELSE {},
         Requests(p, req, r, "REJECT_NEW") =>
            UnreleasedOn(r, {"QUEUED", "RUNNING"}, p) \subseteq can,
         \A t \in older : TaskRow(t) \in T
  PROVE  Policies(p, req, left \ {r}, can \cup older, held \cup T)
<1>. DEFINE done == GroupsOf(p, req) \ left
            done2 == GroupsOf(p, req) \ (left \ {r})
<1>1. /\ ~HasDuplicateLock(p, req) /\ left \subseteq GroupsOf(p, req)
      /\ \A a \in done, q \in left : SortKey[a] < SortKey[q]
      /\ \A t \in can : CanceledOK(p, req, done, t, held)
      /\ \A a \in done :
            NoWaiterLeft(p, req, a, can) /\ NoRivalLeft(p, req, done, a, can)
  BY DEF Policies
<1>2. done2 = done \cup {r} /\ r \in Resource /\ left \subseteq Resource
  BY <1>1, GroupsAreResources
<1>3. \A a \in done2, q \in left \ {r} : SortKey[a] < SortKey[q]
  <2>1. \A q \in left \ {r} : SortKey[r] < SortKey[q]
    <3>. TAKE q \in left \ {r}
    <3>1. SortKey[r] <= SortKey[q] /\ SortKey[r] # SortKey[q]
      BY <1>2, TransactionAssumption
    <3>2. SortKey[r] \in Nat /\ SortKey[q] \in Nat
      BY <1>2, PlanAssumption
    <3>. QED  BY <3>1, <3>2
  <2>. QED  BY <1>1, <1>2, <2>1
<1>4. ASSUME NEW t \in can \cup older
      PROVE  CanceledOK(p, req, done2, t, held \cup T)
  <2>1. CASE t \in can
    BY <1>1, <1>2, <2>1 DEF CanceledOK
  <2>2. CASE t \in older
    <3>1. Requests(p, req, r, "CANCEL_OLDER") /\ t \in UnreleasedOn(r, {"QUEUED"}, p)
      BY <2>2
    <3>2. t \in Task \ NewTasks(p) /\ r \in Locks(t) /\ status[t] = "QUEUED"
      BY <3>1 DEF UnreleasedOn
    <3>. QED  BY <1>2, <2>2, <3>1, <3>2 DEF CanceledOK, Cancels
  <2>. QED  BY <2>1, <2>2
<1>5. ASSUME NEW a \in done2 PROVE NoWaiterLeft(p, req, a, can \cup older)
  BY <1>1, <1>2 DEF NoWaiterLeft
<1>6. ASSUME NEW a \in done2 PROVE NoRivalLeft(p, req, done2, a, can \cup older)
  <2>1. CASE a \in done
    BY <1>1, <1>2, <2>1 DEF NoRivalLeft
  <2>2. CASE a = r
    <3>1. ASSUME Requests(p, req, r, "REJECT_NEW"),
                 NEW t \in UnreleasedOn(r, {"QUEUED", "RUNNING"}, p)
          PROVE  t \in can \cup older
                 /\ \E q \in done2 : SortKey[q] < SortKey[r] /\ Cancels(p, req, q, t)
      <4>1. t \in can
        BY <3>1
      <4>2. CanceledOK(p, req, done, t, held)
        BY <1>1, <4>1
      <4>3. PICK q \in done : Cancels(p, req, q, t)
        BY <4>2 DEF CanceledOK
      <4>. QED  BY <1>1, <1>2, <4>1, <4>3
    <3>. QED  BY <2>2, <3>1 DEF NoRivalLeft
  <2>. QED  BY <1>2, <2>1, <2>2
<1>7. left \ {r} \subseteq GroupsOf(p, req)
  BY <1>1
<1>. QED  BY <1>1, <1>3, <1>4, <1>5, <1>6, <1>7 DEF Policies

LEMMA ApplyPolicyGoes ==
  ASSUME TxInv, NEW s \in Connection, ApplyPolicy(s)
  PROVE  UNCHANGED queueVars /\ \E y : TxGoes(s, y)
<1>. PICK x : x = tx[s]
  OBVIOUS
<1>1. /\ x # Nil /\ x.op = "create" /\ x.at = "policies" /\ x.todo = {} /\ UNCHANGED queueVars
  BY DEF ApplyPolicy, IsAt
<1>2. IsTx(x) /\ TxOK(x) /\ LocksOK(x)
  BY <1>1, CurrentOK
<1>3. PICK r \in x.left :
        /\ \A q \in x.left : SortKey[r] <= SortKey[q]
        /\ \A older : older = (IF Requests(x.on, x.req, r, "CANCEL_OLDER")
                               THEN UnreleasedOn(r, {"QUEUED"}, x.on) \ x.canceled ELSE {}) =>
             IF /\ Requests(x.on, x.req, r, "REJECT_NEW")
                /\ UnreleasedOn(r, {"QUEUED", "RUNNING"}, x.on) \ x.canceled # {}
             THEN End(s)
             ELSE Applies(s, x.left \ {r}, x.canceled \cup older,
                          {TaskRow(t) : t \in older} \cup LockRowsOf(older))
  <2>1. tx = [u \in Connection |-> tx[u]]
    BY DEF TxInv
  <2>. QED  BY <2>1 DEF ApplyPolicy, Applies
<1>6. PICK older : older = IF Requests(x.on, x.req, r, "CANCEL_OLDER")
                           THEN UnreleasedOn(r, {"QUEUED"}, x.on) \ x.canceled ELSE {}
  OBVIOUS
<1>4. CASE /\ Requests(x.on, x.req, r, "REJECT_NEW")
           /\ UnreleasedOn(r, {"QUEUED", "RUNNING"}, x.on) \ x.canceled # {}
  <2>1. tx' = [tx EXCEPT ![s] = Nil]
    BY <1>3, <1>4 DEF End
  <2>. QED  BY <1>1, <2>1, GoesNil
<1>5. CASE ~(/\ Requests(x.on, x.req, r, "REJECT_NEW")
             /\ UnreleasedOn(r, {"QUEUED", "RUNNING"}, x.on) \ x.canceled # {})
  <2>8. PICK T : T = {TaskRow(t) : t \in older} \cup LockRowsOf(older)
    OBVIOUS
  <2>9. PICK left : left = x.left \ {r}
    OBVIOUS
  <2>10. PICK can : can = x.canceled \cup older
    OBVIOUS
  <2>1. Applies(s, left, can, T)
    BY <1>3, <1>5, <1>6, <2>8, <2>9, <2>10
  <2>7. tx' = [tx EXCEPT ![s] = [op |-> x.op, on |-> x.on, req |-> x.req, at |-> x.at,
                 todo |-> T, held |-> x.held, left |-> left, canceled |-> can]]
    BY <1>1, <2>1, PolicyIs
  <2>. PICK y : y = [op |-> x.op, on |-> x.on, req |-> x.req, at |-> x.at, todo |-> T,
                     held |-> x.held, left |-> left, canceled |-> can]
    OBVIOUS
  <2>2. tx' = [tx EXCEPT ![s] = y] /\ IsTx(y)
    BY <2>7 DEF IsTx
  <2>3. CreateOK(x)
    BY <1>1, <1>2 DEF TxOK
  <2>4. TxOK(y)
    <3>1. Policies(x.on, x.req, x.left, x.canceled, x.held)
      <4>1. x.held \cup x.todo = x.held
        BY <1>1
      <4>. QED  BY <1>1, <2>3, <4>1 DEF CreateOK
    <3>4. \A t \in older : TaskRow(t) \in T
      BY <2>8
    <3>5. Policies(x.on, x.req, x.left \ {r}, x.canceled \cup older, x.held \cup T)
      BY <1>3, <1>5, <1>6, <3>1, <3>4, PolicyApplied
    <3>2. Policies(x.on, x.req, left, can, x.held \cup T)
      BY <2>9, <2>10, <3>5
    <3>3. CreateOK(y)
      BY <1>1, <2>3, <3>2 DEF CreateOK
    <3>. QED  BY <1>1, <3>3 DEF TxOK
  <2>5. LocksOK(y)
    <3>1. \A l \in x.held : LockOK(x, l)
      BY <1>2 DEF LocksOK
    <3>2. \A l \in x.held : LockOK(y, l)
      BY <1>1, <3>1 DEF LockOK, OlderRows
    <3>3. T # {} => AsksToCancel(x.req)
      <4>1. T # {} => Requests(x.on, x.req, r, "CANCEL_OLDER")
        BY <1>6, <2>8 DEF LockRowsOf
      <4>. QED  BY <4>1 DEF Requests, RequestedPolicy, AsksToCancel
    <3>4. \A l \in T : l[1] \in {"task", "lock"}
      BY <2>8, LockTags DEF LockRowsOf
    <3>5. \A l \in T : LockOK(y, l)
      BY <1>1, <3>3, <3>4 DEF LockOK, OlderRows
    <3>6. \A l \in x.held : l[1] # "target_key"
      BY <1>1, <3>1, LockTags DEF LockOK, GuardIn
    <3>. QED  BY <1>1, <3>2, <3>3, <3>4, <3>5, <3>6 DEF LocksOK, StageTags
  <2>6. TxGoes(s, y)
    BY <1>1, <2>2, <2>4, <2>5, GoesOn
  <2>. QED  BY <1>1, <2>6
<1>. QED  BY <1>4, <1>5

(* A transaction on a task goes on: its locks stay of the kinds it may hold.*)
LEMMA TaskGoesOn ==
  ASSUME TxInv, NEW s \in Connection, NEW x, x = tx[s], x # Nil, x.op # "create", x.todo = {},
         UNCHANGED queueVars, NEW a \in {"guarded", "rows", "insert"}, NEW T, GoTo(s, a, T),
         x.at # "insert",
         NEW y, y = [op |-> x.op, on |-> x.on, req |-> x.req, at |-> a, todo |-> T,
                     held |-> x.held, left |-> x.left, canceled |-> x.canceled],
         TaskOK(y), \A l \in T : LockOK(y, l) /\ l[1] \in StageTags(y),
         a = "guarded" => x.at = "locked"
  PROVE  TxGoes(s, y)
<1>1. IsTx(x) /\ TxOK(x) /\ LocksOK(x)
  BY CurrentOK
<1>2. tx' = [tx EXCEPT ![s] = [op |-> x.op, on |-> x.on, req |-> x.req, at |-> a,
                 todo |-> T, held |-> x.held, left |-> x.left, canceled |-> x.canceled]]
  BY GoToIs
<1>3. IsTx(y) /\ TxOK(y) /\ tx' = [tx EXCEPT ![s] = y]
  BY <1>1, <1>2 DEF IsTx, TxOK
<1>4. LocksOK(y)
  <2>1. \A l \in x.held : LockOK(x, l)
    BY <1>1 DEF LocksOK
  <2>2. \A l \in x.held : LockOK(y, l) /\ l[1] # "target_key"
    BY <2>1, LockTags DEF LockOK, OlderRows, GuardIn
  <2>3. x.at = "locked" => \A l \in x.held : l[1] # "guard"
    BY <2>1, LockTags DEF LockOK, GuardIn
  <2>. QED  BY <2>2, <2>3 DEF LocksOK
<1>. QED  BY <1>3, <1>4, GoesOn

LEMMA LockGuardsGoes ==
  ASSUME TxInv, NEW s \in Connection, LockGuards(s)
  PROVE  UNCHANGED queueVars /\ \E y : TxGoes(s, y)
<1>. PICK x : x = tx[s]
  OBVIOUS
<1>1. /\ x # Nil /\ x.op \in {"start", "finish", "claim"} /\ x.at = "locked" /\ x.todo = {}
      /\ UNCHANGED queueVars
  BY DEF LockGuards, IsAt
<1>2. TaskOK(x) /\ IsTx(x)
  BY <1>1, CurrentOK DEF TxOK
<1>3. TaskRow(x.on) \in x.held
  BY <1>1, <1>2 DEF TaskOK
<1>4. CASE status[x.on] = Before(x.op)
           /\ GoTo(s, "guarded", lockTaskResourceAdvisoryGroups(Locks(x.on)))
  <2>1. PICK T : T = lockTaskResourceAdvisoryGroups(Locks(x.on))
    OBVIOUS
  <2>2. PICK y : y = [op |-> x.op, on |-> x.on, req |-> x.req, at |-> "guarded", todo |-> T,
                      held |-> x.held, left |-> x.left, canceled |-> x.canceled]
    OBVIOUS
  <2>3. TaskOK(y)
    <3>1. Guarded(Locks(x.on), T)
      BY <2>1, GuardsOf DEF Guarded
    <3>2. Guarded(Locks(y.on), y.held \cup y.todo)
      BY <2>2, <3>1 DEF Guarded
    <3>3. /\ y.op = x.op /\ y.on = x.on /\ y.at = "guarded" /\ y.todo = T /\ y.held = x.held
      BY <2>2
    <3>. QED  BY <1>1, <1>2, <1>3, <1>4, <3>2, <3>3 DEF TaskOK
  <2>4. \A l \in T : LockOK(y, l) /\ l[1] \in StageTags(y)
    <3>1. Locks(x.on) \subseteq Resource
      BY DEF Locks
    <3>2. \A l \in T : GuardIn(l) /\ l[1] = "guard"
      BY <2>1, <3>1, GuardsOf, GuardInGuard, LockTags
    <3>3. y.at = "guarded"
      BY <2>2
    <3>. QED  BY <3>2, <3>3 DEF LockOK, StageTags
  <2>5. TxGoes(s, y)
    BY <1>1, <1>4, <2>1, <2>2, <2>3, <2>4, TaskGoesOn
  <2>. QED  BY <1>1, <2>5
<1>5. CASE Reclaims(x) /\ GoTo(s, "insert", {TargetKey(x.on[2])})
  <2>1. PICK T : T = {TargetKey(x.on[2])}
    OBVIOUS
  <2>2. PICK y : y = [op |-> x.op, on |-> x.on, req |-> x.req, at |-> "insert", todo |-> T,
                      held |-> x.held, left |-> x.left, canceled |-> x.canceled]
    OBVIOUS
  <2>3. /\ y.op = x.op /\ y.on = x.on /\ y.at = "insert" /\ y.todo = T /\ y.held = x.held
        /\ x.op = "claim"
    BY <1>5, <2>2 DEF Reclaims
  <2>4. TaskOK(y)
    BY <1>1, <1>2, <1>3, <1>5, <2>3 DEF TaskOK, Reclaims
  <2>5. \A l \in T : LockOK(y, l) /\ l[1] \in StageTags(y)
    BY <2>1, <2>3, LockTags DEF LockOK, StageTags
  <2>6. TxGoes(s, y)
    BY <1>1, <1>5, <2>1, <2>2, <2>4, <2>5, TaskGoesOn
  <2>. QED  BY <1>1, <2>6
<1>6. CASE End(s)
  <2>1. tx' = [tx EXCEPT ![s] = Nil]
    BY <1>6 DEF End
  <2>. QED  BY <1>1, <2>1, GoesNil
<1>7. \/ status[x.on] = Before(x.op)
         /\ GoTo(s, "guarded", lockTaskResourceAdvisoryGroups(Locks(x.on)))
      \/ Reclaims(x) /\ GoTo(s, "insert", {TargetKey(x.on[2])})
      \/ End(s)
  BY DEF LockGuards, Before, Reclaims
<1>. QED  BY <1>4, <1>5, <1>6, <1>7

LEMMA LockRowsGoes ==
  ASSUME TxInv, NEW s \in Connection, LockRows(s)
  PROVE  UNCHANGED queueVars /\ \E y : TxGoes(s, y)
<1>. PICK x : x = tx[s]
  OBVIOUS
<1>1. /\ x # Nil /\ x.op \in {"start", "finish", "claim"} /\ x.at = "guarded" /\ x.todo = {}
      /\ UNCHANGED queueVars
  BY DEF LockRows, IsAt
<1>2. TaskOK(x) /\ IsTx(x)
  BY <1>1, CurrentOK DEF TxOK
<1>3. PICK T : T = IF x.op = "finish" THEN LockRowsOf({x.on})
                   ELSE lockTaskResourceGroups(Locks(x.on))
  OBVIOUS
<1>4. PICK y : y = [op |-> x.op, on |-> x.on, req |-> x.req, at |-> "rows", todo |-> T,
                    held |-> x.held, left |-> x.left, canceled |-> x.canceled]
  OBVIOUS
<1>5. /\ y.op = x.op /\ y.on = x.on /\ y.at = "rows" /\ y.todo = T /\ y.held = x.held
  BY <1>4
<1>6. Guarded(Locks(x.on), x.held)
  <2>1. x.held \cup x.todo = x.held
    BY <1>1
  <2>. QED  BY <1>1, <1>2, <2>1 DEF TaskOK
<1>7. TaskOK(y)
  BY <1>1, <1>2, <1>5, <1>6 DEF TaskOK
<1>8. \A l \in T : LockOK(y, l) /\ l[1] \in StageTags(y)
  <2>1. \A l \in T : l[1] = "lock" /\ l[3] \in Locks(x.on)
    BY <1>3, LockTags DEF LockRowsOf, lockTaskResourceGroups, lockTaskResourceGroup
  <2>. QED  BY <1>5, <1>6, <2>1 DEF LockOK, StageTags, Guarded
<1>9. GoTo(s, "rows", T)
  BY <1>3 DEF LockRows
<1>10. TxGoes(s, y)
  BY <1>1, <1>4, <1>7, <1>8, <1>9, TaskGoesOn
<1>. QED  BY <1>1, <1>10

LEMMA CheckConflictsGoes ==
  ASSUME TxInv, NEW s \in Connection, CheckConflicts(s)
  PROVE  UNCHANGED queueVars /\ \E y : TxGoes(s, y)
<1>. PICK x : x = tx[s]
  OBVIOUS
<1>1. /\ x # Nil /\ x.op \in {"start", "claim"} /\ x.at = "rows" /\ x.todo = {}
      /\ UNCHANGED queueVars
  BY DEF CheckConflicts, IsAt
<1>2. TaskOK(x) /\ IsTx(x)
  BY <1>1, CurrentOK DEF TxOK
<1>3. CASE HasConflict(x.on)
  <2>1. tx' = [tx EXCEPT ![s] = Nil]
    BY <1>3 DEF CheckConflicts, End
  <2>. QED  BY <1>1, <2>1, GoesNil
<1>4. CASE ~HasConflict(x.on)
  <2>1. PICK T : T = IF x.op = "claim" THEN {TargetKey(x.on[2])} ELSE {}
    OBVIOUS
  <2>2. PICK y : y = [op |-> x.op, on |-> x.on, req |-> x.req, at |-> "insert", todo |-> T,
                      held |-> x.held, left |-> x.left, canceled |-> x.canceled]
    OBVIOUS
  <2>3. /\ y.op = x.op /\ y.on = x.on /\ y.at = "insert" /\ y.todo = T /\ y.held = x.held
    BY <2>2
  <2>4. TaskOK(y)
    BY <1>1, <1>2, <1>4, <2>3 DEF TaskOK, MayRun, Before
  <2>5. \A l \in T : LockOK(y, l) /\ l[1] \in StageTags(y)
    BY <1>1, <2>1, <2>3, LockTags DEF LockOK, StageTags
  <2>6. GoTo(s, "insert", T)
    BY <1>4, <2>1 DEF CheckConflicts
  <2>7. TxGoes(s, y)
    BY <1>1, <2>2, <2>4, <2>5, <2>6, TaskGoesOn
  <2>. QED  BY <1>1, <2>7
<1>. QED  BY <1>3, <1>4

(***************************************************************************)
(* What a commit may do to the others: a transaction that holds ls changes  *)
(* nothing that a lock outside ls protects.  The row of a task protects its *)
(* status; the guard of a resource, who waits for it and who has it, and so *)
(* also that a task waiting for it stays one; and the guards of the targets *)
(* of a plan, that it has no tasks.                                         *)
(***************************************************************************)
Respects(ls) ==
    /\ \A p \in Plan : planStatus[p] \in {"READY", "EXECUTED"} =>
          planStatus'[p] \in {"READY", "EXECUTED"}
    /\ \A t \in Task :
          /\ status[t] = "NONE" /\ status'[t] # "NONE" => Guard(TargetLock(t[2])) \in ls
          /\ status[t] # "NONE" => status'[t] # "NONE" /\ policy'[t] = policy[t]
          /\ status[t] # "NONE" /\ status'[t] # status[t] => TaskRow(t) \in ls
          /\ status[t] \in {"QUEUED", "CANCELED"} =>
                status'[t] \in {"QUEUED", "CANCELED"} \/ Guarded(Locks(t), ls)
          /\ \A r \in Resource :
                /\ r \in Locks(t)' \ released'[t] /\ Guard(r) \notin ls =>
                      /\ r \in Locks(t) \ released[t]
                      /\ status'[t] = "QUEUED" => status[t] = "QUEUED"
                      /\ status'[t] \in {"QUEUED", "RUNNING"} => status[t] \in {"QUEUED", "RUNNING"}
                /\ r \in acquired'[t] \ released'[t] /\ status'[t] = "RUNNING" /\ Guard(r) \notin ls =>
                      r \in acquired[t] \ released[t] /\ status[t] = "RUNNING"

LEMMA TargetGuard ==
  ASSUME NEW p \in Plan, NEW req \in TxRequest, NEW t \in NewTasks(p)
  PROVE  TargetLock(t[2]) \in GroupsOf(p, req)
<1>1. t[2] \in Target
  BY PlanAssumption DEF NewTasks
<1>2. TargetLock(t[2]) \in Resource /\ TargetLock(t[2]) \in DefaultLocks(t)
  BY <1>1 DEF Resource, DefaultLocks
<1>3. req.default \in Policy
  BY TransactionAssumption DEF NormalRequest
<1>4. RequestedPolicy(req, t, TargetLock(t[2])) # "NONE"
  BY <1>2, <1>3 DEF RequestedPolicy, Policy
<1>. QED  BY <1>2, <1>4 DEF GroupsOf, getDeploymentPlanTaskResourceLockGroups

LEMMA PoliciesKept ==
  ASSUME NEW ls, Respects(ls), NEW held, NEW p \in Plan, NEW req, NEW left, NEW can, NEW locks,
         Guarded(GroupsOf(p, req), held), \A r : Guard(r) \in held => Guard(r) \notin ls,
         Policies(p, req, left, can, locks)
  PROVE  Policies(p, req, left, can, locks)'
<1>. DEFINE done == GroupsOf(p, req) \ left
<1>1. /\ ~HasDuplicateLock(p, req) /\ left \subseteq GroupsOf(p, req)
      /\ \A a \in done, q \in left : SortKey[a] < SortKey[q]
      /\ \A t \in can : CanceledOK(p, req, done, t, locks)
      /\ \A a \in done :
            NoWaiterLeft(p, req, a, can) /\ NoRivalLeft(p, req, done, a, can)
  BY DEF Policies
<1>2. /\ \A r \in GroupsOf(p, req) : Guard(r) \notin ls /\ r \in Resource
      /\ done \subseteq GroupsOf(p, req)
  BY GroupsAreResources DEF Guarded
<1>3. \A t \in can : CanceledOK(p, req, done, t, locks)'
  <2>. TAKE t \in can
  <2>1. /\ t \in Task \ NewTasks(p) /\ status[t] \in {"QUEUED", "CANCELED"}
        /\ TaskRow(t) \in locks
    BY <1>1 DEF CanceledOK
  <2>2. PICK r \in done : Cancels(p, req, r, t)
    BY <1>1 DEF CanceledOK
  <2>3. policy'[t] = policy[t]
    BY <2>1 DEF Respects
  <2>4. Locks(t)' = Locks(t)
    BY <2>3 DEF Locks
  <2>5. ~Guarded(Locks(t), ls)
    BY <1>2, <2>2 DEF Cancels, Guarded
  <2>6. status'[t] \in {"QUEUED", "CANCELED"}
    BY <2>1, <2>5 DEF Respects
  <2>7. Cancels(p, req, r, t)'
    BY <2>2, <2>4 DEF Cancels
  <2>. QED  BY <2>1, <2>6, <2>7 DEF CanceledOK
<1>4. ASSUME NEW r \in done
      PROVE  /\ UnreleasedOn(r, {"QUEUED"}, p)' \subseteq UnreleasedOn(r, {"QUEUED"}, p)
             /\ UnreleasedOn(r, {"QUEUED", "RUNNING"}, p)'
                   \subseteq UnreleasedOn(r, {"QUEUED", "RUNNING"}, p)
  <2>1. Guard(r) \notin ls /\ r \in Resource
    BY <1>2
  <2>. QED  BY <2>1 DEF UnreleasedOn, Respects
<1>5. \A r \in done : NoWaiterLeft(p, req, r, can)'
  BY <1>1, <1>4 DEF NoWaiterLeft
<1>6. ASSUME NEW r \in done, Requests(p, req, r, "REJECT_NEW"),
             NEW t \in UnreleasedOn(r, {"QUEUED", "RUNNING"}, p)'
      PROVE  t \in can /\ \E q \in done : SortKey[q] < SortKey[r] /\ Cancels(p, req, q, t)'
  <2>1. t \in UnreleasedOn(r, {"QUEUED", "RUNNING"}, p)
    BY <1>4, <1>6
  <2>2. PICK q \in done : t \in can /\ SortKey[q] < SortKey[r] /\ Cancels(p, req, q, t)
    BY <1>1, <1>6, <2>1 DEF NoRivalLeft
  <2>3. t \in Task /\ status[t] # "NONE"
    BY <2>1 DEF UnreleasedOn
  <2>4. policy'[t] = policy[t]
    BY <2>3 DEF Respects
  <2>5. Locks(t)' = Locks(t)
    BY <2>4 DEF Locks
  <2>. QED  BY <2>2, <2>5 DEF Cancels
<1>7. \A r \in done : NoRivalLeft(p, req, done, r, can)'
  BY <1>6 DEF NoRivalLeft
<1>. QED  BY <1>1, <1>3, <1>5, <1>7 DEF Policies

(* What an open transaction relies on survives the commits of others.       *)
LEMMA Interference ==
  ASSUME NEW ls, Respects(ls), NEW y, TxOK(y), \A l \in ls : l \in y.held => l[1] = "target_key"
  PROVE  TxOK(y)'
<1>1. /\ \A r : Guard(r) \in y.held => Guard(r) \notin ls
      /\ \A t : TaskRow(t) \in y.held => TaskRow(t) \notin ls
  BY LockTags
<1>2. ASSUME CreateOK(y) PROVE CreateOK(y)'
  <2>1. y.on \in Plan /\ y.req \in TxRequest
    BY <1>2 DEF CreateOK
  <2>2. planStatus'[y.on] \in {"READY", "EXECUTED"}
    BY <1>2, <2>1 DEF CreateOK, Respects
  <2>3. ASSUME y.at # "guarded", NEW t \in NewTasks(y.on) PROVE status'[t] = "NONE"
    <3>1. Guard(TargetLock(t[2])) \in y.held
      BY <1>2, <2>1, <2>3, TargetGuard DEF CreateOK, Guarded
    <3>2. status[t] = "NONE" /\ t \in Task
      BY <1>2, <2>1, <2>3, NewTasksAreTasks DEF CreateOK
    <3>. QED  BY <1>1, <3>1, <3>2 DEF Respects
  <2>4. ASSUME y.at = "policies"
        PROVE  Policies(y.on, y.req, y.left, y.canceled, y.held \cup y.todo)'
    <3>1. Guarded(GroupsOf(y.on, y.req), y.held)
          /\ Policies(y.on, y.req, y.left, y.canceled, y.held \cup y.todo)
      BY <1>2, <2>4 DEF CreateOK
    <3>. QED  BY <1>1, <2>1, <3>1, PoliciesKept
  <2>. QED  BY <1>2, <2>2, <2>3, <2>4 DEF CreateOK
<1>3. ASSUME TaskOK(y) PROVE TaskOK(y)'
  <2>1. y.on \in Task /\ status[y.on] # "NONE"
    BY <1>3 DEF TaskOK
  <2>2. status'[y.on] # "NONE" /\ policy'[y.on] = policy[y.on]
    BY <2>1 DEF Respects
  <2>3. Locks(y.on)' = Locks(y.on)
    BY <2>2 DEF Locks
  <2>4. y.at # "locked" => status'[y.on] = status[y.on]
    BY <1>1, <1>3, <2>1 DEF TaskOK, Respects
  <2>5. ASSUME MayRun(y), y.at = "insert" PROVE MayRun(y)'
    <3>1. status'[y.on] = "QUEUED" /\ Guarded(Locks(y.on)', y.held)
      BY <2>3, <2>4, <2>5 DEF MayRun
    <3>2. ~HasConflict(y.on)'
      <4>1. SUFFICES ASSUME NEW r \in Locks(y.on), policy[y.on][r] # "ALLOW_PARALLEL",
                            NEW v \in Task \ {y.on}, r \in acquired'[v] \ released'[v],
                            status'[v] = "RUNNING"
                     PROVE  FALSE
        BY <2>2, <2>3 DEF HasConflict, hasActiveTaskResourceConflict
      <4>2. Guard(r) \notin ls /\ r \in Resource
        BY <1>1, <2>5 DEF MayRun, Guarded, Locks
      <4>3. r \in acquired[v] \ released[v] /\ status[v] = "RUNNING"
        BY <4>1, <4>2 DEF Respects
      <4>. QED  BY <2>5, <4>1, <4>3 DEF MayRun, HasConflict, hasActiveTaskResourceConflict
    <3>. QED  BY <3>1, <3>2 DEF MayRun, Guarded
  <2>6. Reclaims(y) /\ y.at = "insert" => Reclaims(y)'
    BY <2>4 DEF Reclaims
  <2>. QED  BY <1>3, <2>1, <2>2, <2>3, <2>4, <2>5, <2>6 DEF TaskOK, Guarded
<1>. QED  BY <1>2, <1>3 DEF TxOK

(***************************************************************************)
(* What a session commits is one step of the task queue.                    *)
(***************************************************************************)
LEMMA CommitCreateIs ==
  ASSUME TxInv, NEW s \in Connection, CommitCreate(s), NEW x, x = tx[s]
  PROVE  /\ x # Nil /\ x.on \in Plan /\ x.req \in TxRequest
         /\ CreateTasks(x.on, x.req) /\ Respects(x.held) /\ tx' = [tx EXCEPT ![s] = Nil]
<1>. PICK p : p = x.on
  OBVIOUS
<1>. PICK req : req = x.req
  OBVIOUS
<1>. PICK can : can = x.canceled
  OBVIOUS
<1>1. /\ x # Nil /\ x.op = "create" /\ x.at = "policies" /\ x.todo = {} /\ x.left = {}
      /\ planStatus[p] = "READY"
      /\ planStatus' = [planStatus EXCEPT ![p] = "EXECUTED"]
      /\ preflight' = [preflight EXCEPT ![p] = "PASSED"]
      /\ status' = [t \in Task |-> IF t \in NewTasks(p) THEN "QUEUED"
                                   ELSE IF t \in can THEN "CANCELED" ELSE status[t]]
      /\ queue' = queue \o TasksInOrder(p)
      /\ policy' = [t \in Task |->
                      IF t \in NewTasks(p)
                      THEN [r \in Resource |-> RequestedPolicy(req, t, r)] ELSE policy[t]]
      /\ released' = [t \in Task |-> IF t \in can THEN Locks(t) ELSE released[t]]
      /\ tx' = [tx EXCEPT ![s] = Nil]
      /\ acquired' = acquired
  BY DEF CommitCreate, IsAt, End
<1>2. /\ p \in Plan /\ req \in TxRequest
      /\ Guarded(GroupsOf(p, req), x.held)
      /\ \A t \in NewTasks(p) : status[t] = "NONE"
      /\ Policies(p, req, {}, can, x.held)
  <2>1. CreateOK(x)
    BY <1>1, CurrentOK DEF TxOK
  <2>2. x.held \cup x.todo = x.held
    BY <1>1
  <2>. QED  BY <1>1, <2>1, <2>2 DEF CreateOK
<1>3. /\ ~HasDuplicateLock(p, req)
      /\ \A t \in can : CanceledOK(p, req, GroupsOf(p, req), t, x.held)
      /\ \A r \in GroupsOf(p, req) :
            NoWaiterLeft(p, req, r, can) /\ NoRivalLeft(p, req, GroupsOf(p, req), r, can)
  <2>1. GroupsOf(p, req) \ {} = GroupsOf(p, req)
    OBVIOUS
  <2>. QED  BY <1>2, <2>1 DEF Policies
<1>4. /\ QueueTypeOK /\ LocksFollowTask
      /\ \A t \in Task : status[t] = "CANCELED" => released[t] = Locks(t)
      /\ \A t \in Task : status[t] \in {"QUEUED", "RUNNING"} => released[t] = {}
      /\ \A r \in Resource, pol \in {"CANCEL_OLDER", "REJECT_NEW"} :
            Requests(p, req, r, pol) => r \in GroupsOf(p, req)
  BY DEF TxInv, LocksFollowTask, Terminal, Requests, GroupsOf,
     getDeploymentPlanTaskResourceLockGroups
<1>5. \A t \in can : /\ t \in Task \ NewTasks(p) /\ status[t] \in {"QUEUED", "CANCELED"}
                    /\ TaskRow(t) \in x.held
                    /\ \E r \in GroupsOf(p, req) : Cancels(p, req, r, t)
  BY <1>3 DEF CanceledOK
<1>6. \A t \in can, r \in Resource :
         status[t] = "QUEUED" /\ r \in Locks(t) => t \in UnreleasedOn(r, {"QUEUED"}, p)
  BY <1>4, <1>5 DEF UnreleasedOn
<1>7. CancelOlderQueuedTasks(p, req, Resource) \subseteq can
  BY <1>3, <1>4 DEF CancelOlderQueuedTasks, NoWaiterLeft
<1>8. \A t \in can : t \in CancelOlderQueuedTasks(p, req, Resource) \/ status[t] = "CANCELED"
  BY <1>5, <1>6, GroupsAreResources DEF CancelOlderQueuedTasks, Cancels
<1>9. ~RejectsNew(p, req)
  <2>1. SUFFICES ASSUME NEW r \in Resource, Requests(p, req, r, "REJECT_NEW"),
                        NEW t \in UnreleasedOn(r, {"QUEUED", "RUNNING"}, p),
                        t \notin CancelOlderQueuedTasks(p, req,
                                    {q \in Resource : SortKey[q] < SortKey[r]})
                 PROVE  FALSE
    BY DEF RejectsNew, hasNonTerminalTaskResourceConflict
  <2>2. r \in GroupsOf(p, req)
    BY <1>4, <2>1
  <2>3. PICK q \in GroupsOf(p, req) :
          t \in can /\ SortKey[q] < SortKey[r] /\ Cancels(p, req, q, t)
    BY <1>3, <2>1, <2>2 DEF NoRivalLeft
  <2>4. status[t] = "QUEUED"
    BY <1>5, <2>1, <2>3 DEF UnreleasedOn
  <2>5. q \in Resource /\ t \in UnreleasedOn(q, {"QUEUED"}, p)
    BY <1>6, <2>3, <2>4, GroupsAreResources DEF Cancels
  <2>. QED  BY <2>1, <2>3, <2>5 DEF CancelOlderQueuedTasks, Cancels
<1>10. CreateTasks(p, req)
  <2>. PICK older : older = CancelOlderQueuedTasks(p, req, Resource)
    OBVIOUS
  <2>1. status' = [t \in Task |-> IF t \in NewTasks(p) THEN "QUEUED"
                                 ELSE IF t \in older THEN "CANCELED" ELSE status[t]]
    BY <1>1, <1>7, <1>8
  <2>2. released' = [t \in Task |-> IF t \in older THEN Locks(t) ELSE released[t]]
    BY <1>1, <1>4, <1>5, <1>7, <1>8
  <2>. QED  BY <1>1, <1>2, <1>3, <1>9, <2>1, <2>2 DEF CreateTasks
<1>11. Respects(x.held)
  <2>1. ASSUME NEW q \in Plan, planStatus[q] \in {"READY", "EXECUTED"}
        PROVE  planStatus'[q] \in {"READY", "EXECUTED"}
    BY <1>1, <1>2, <1>4, <2>1 DEF QueueTypeOK
  <2>2. ASSUME NEW t \in NewTasks(p)
        PROVE  /\ t \in Task /\ status[t] = "NONE" /\ status'[t] = "QUEUED"
               /\ Guard(TargetLock(t[2])) \in x.held
               /\ \A r \in Locks(t)' : Guard(r) \in x.held
    <3>1. t \in Task /\ t \notin can /\ TargetLock(t[2]) \in GroupsOf(p, req)
      BY <1>2, <1>5, NewTasksAreTasks, TargetGuard
    <3>2. Locks(t)' \subseteq GroupsOf(p, req)
      BY <1>1, <3>1 DEF Locks, GroupsOf, getDeploymentPlanTaskResourceLockGroups
    <3>. QED  BY <1>1, <1>2, <3>1, <3>2 DEF Guarded
  <2>3. ASSUME NEW t \in can
        PROVE  /\ t \in Task /\ status[t] # "NONE" /\ status'[t] = "CANCELED"
               /\ policy'[t] = policy[t] /\ Locks(t)' \ released'[t] = {}
               /\ TaskRow(t) \in x.held
    <3>1. policy'[t] = policy[t] /\ released'[t] = Locks(t) /\ status'[t] = "CANCELED"
      BY <1>1, <1>5
    <3>. QED  BY <1>5, <3>1 DEF Locks
  <2>4. ASSUME NEW t \in Task \ (NewTasks(p) \cup can)
        PROVE  /\ status'[t] = status[t] /\ policy'[t] = policy[t]
               /\ released'[t] = released[t] /\ acquired'[t] = acquired[t]
               /\ Locks(t)' = Locks(t)
    BY <1>1 DEF Locks
  <2>5. ASSUME NEW t \in Task
        PROVE  /\ status[t] = "NONE" /\ status'[t] # "NONE" => Guard(TargetLock(t[2])) \in x.held
               /\ status[t] # "NONE" => status'[t] # "NONE" /\ policy'[t] = policy[t]
               /\ status[t] # "NONE" /\ status'[t] # status[t] => TaskRow(t) \in x.held
               /\ status[t] \in {"QUEUED", "CANCELED"} => status'[t] \in {"QUEUED", "CANCELED"}
    BY <2>2, <2>3, <2>4
  <2>6. ASSUME NEW t \in Task, NEW r \in Resource, r \in Locks(t)' \ released'[t],
               Guard(r) \notin x.held
        PROVE  r \in Locks(t) \ released[t] /\ status'[t] = status[t]
    BY <2>2, <2>3, <2>4, <2>6
  <2>7. ASSUME NEW t \in Task, NEW r \in Resource, r \in acquired'[t] \ released'[t],
               status'[t] = "RUNNING"
        PROVE  r \in acquired[t] \ released[t] /\ status[t] = "RUNNING"
    BY <2>2, <2>3, <2>4, <2>7
  <2>. QED  BY <2>1, <2>5, <2>6, <2>7 DEF Respects
<1>. QED  BY <1>1, <1>2, <1>10, <1>11

(* A claim of a running task finds its locks as they are.                   *)
LEMMA CommitStartIs ==
  ASSUME TxInv, NEW s \in Connection, CommitStart(s), NEW x, x = tx[s]
  PROVE  /\ x # Nil /\ x.on \in Task /\ tx' = [tx EXCEPT ![s] = Nil]
         /\ UNCHANGED queueVars \/ (StartTask(x.on) /\ Respects(x.held))
<1>. PICK t : t = x.on
  OBVIOUS
<1>1. /\ x # Nil /\ x.op \in {"start", "claim"} /\ x.at = "insert" /\ x.todo = {}
      /\ acquired' = [acquired EXCEPT ![t] = @ \cup (Locks(t) \ released[t])]
      /\ status' = [status EXCEPT ![t] = "RUNNING"]
      /\ tx' = [tx EXCEPT ![s] = Nil]
      /\ UNCHANGED <<planStatus, preflight, queue, policy, released>>
  BY DEF CommitStart, IsAt, End
<1>2. t \in Task /\ TaskRow(t) \in x.held /\ (Reclaims(x) \/ MayRun(x))
  BY <1>1, CurrentOK DEF TxOK, TaskOK
<1>3. QueueTypeOK /\ LocksFollowTask
  BY DEF TxInv
<1>4. CASE Reclaims(x)
  <2>1. status[t] = "RUNNING"
    BY <1>4 DEF Reclaims
  <2>2. acquired[t] = Locks(t)
    BY <1>2, <1>3, <2>1 DEF LocksFollowTask
  <2>3. status' = status /\ acquired' = acquired
    BY <1>1, <1>2, <1>3, <2>1, <2>2 DEF QueueTypeOK
  <2>. QED  BY <1>1, <1>2, <2>3 DEF queueVars
<1>5. CASE MayRun(x)
  <2>1. status[t] = "QUEUED" /\ Guarded(Locks(t), x.held) /\ ~HasConflict(t)
    BY <1>5 DEF MayRun
  <2>2. StartTask(t)
    BY <1>1, <2>1 DEF StartTask, HasConflict
  <2>3. /\ planStatus' = planStatus /\ policy' = policy /\ released' = released
        /\ \A u \in Task \ {t} : status'[u] = status[u] /\ acquired'[u] = acquired[u]
        /\ status'[t] = "RUNNING" /\ \A u : Locks(u)' = Locks(u)
        /\ acquired'[t] \subseteq Locks(t)
    <3>1. acquired[t] = {}
      BY <1>2, <1>3, <2>1 DEF LocksFollowTask
    <3>. QED  BY <1>1, <1>2, <1>3, <3>1 DEF QueueTypeOK, Locks
  <2>4. Respects(x.held)
    <3>1. ASSUME NEW u \in Task, NEW r \in Resource, r \in Locks(u)' \ released'[u],
                 Guard(r) \notin x.held
          PROVE  r \in Locks(u) \ released[u] /\ status'[u] = status[u]
      BY <2>1, <2>3, <3>1 DEF Guarded
    <3>2. ASSUME NEW u \in Task, NEW r \in Resource, r \in acquired'[u] \ released'[u],
                 status'[u] = "RUNNING", Guard(r) \notin x.held
          PROVE  r \in acquired[u] \ released[u] /\ status[u] = "RUNNING"
      BY <2>1, <2>3, <3>2 DEF Guarded
    <3>3. ASSUME NEW u \in Task
          PROVE  /\ status[u] = "NONE" /\ status'[u] # "NONE" => Guard(TargetLock(u[2])) \in x.held
                 /\ status[u] # "NONE" => status'[u] # "NONE" /\ policy'[u] = policy[u]
                 /\ status[u] # "NONE" /\ status'[u] # status[u] => TaskRow(u) \in x.held
                 /\ status[u] \in {"QUEUED", "CANCELED"} =>
                      status'[u] \in {"QUEUED", "CANCELED"} \/ Guarded(Locks(u), x.held)
      BY <1>2, <2>1, <2>3
    <3>. QED  BY <2>3, <3>1, <3>2, <3>3 DEF Respects
  <2>. QED  BY <1>1, <1>2, <2>2, <2>4
<1>. QED  BY <1>2, <1>4, <1>5

LEMMA CommitFinishIs ==
  ASSUME TxInv, NEW s \in Connection, NEW end \in {"SUCCEEDED", "FAILED"}, CommitFinish(s, end),
         NEW x, x = tx[s]
  PROVE  /\ x # Nil /\ x.on \in Task /\ tx' = [tx EXCEPT ![s] = Nil]
         /\ FinishTask(x.on, end) /\ Respects(x.held)
<1>. PICK t : t = x.on
  OBVIOUS
<1>1. /\ x # Nil /\ x.op = "finish" /\ x.at = "rows" /\ x.todo = {}
      /\ status' = [status EXCEPT ![t] = end]
      /\ released' = [released EXCEPT ![t] = Locks(t)]
      /\ tx' = [tx EXCEPT ![s] = Nil]
      /\ UNCHANGED <<planStatus, preflight, queue, policy, acquired>>
  BY DEF CommitFinish, IsAt, End
<1>2. t \in Task /\ TaskRow(t) \in x.held /\ status[t] = "RUNNING"
  BY <1>1, CurrentOK DEF TxOK, TaskOK, Before
<1>3. QueueTypeOK /\ LocksFollowTask
  BY DEF TxInv
<1>4. FinishTask(t, end)
  BY <1>1, <1>2 DEF FinishTask
<1>5. /\ planStatus' = planStatus /\ policy' = policy /\ acquired' = acquired
      /\ \A u \in Task \ {t} : status'[u] = status[u] /\ released'[u] = released[u]
      /\ status'[t] = end /\ released'[t] = Locks(t) /\ \A u : Locks(u)' = Locks(u)
  BY <1>1, <1>2, <1>3 DEF QueueTypeOK, Locks
<1>6. Respects(x.held)
  <2>1. ASSUME NEW u \in Task, NEW r \in Resource, r \in Locks(u)' \ released'[u]
        PROVE  r \in Locks(u) \ released[u] /\ status'[u] = status[u]
    BY <1>5, <2>1
  <2>2. ASSUME NEW u \in Task, NEW r \in Resource, r \in acquired'[u] \ released'[u],
               status'[u] = "RUNNING"
        PROVE  r \in acquired[u] \ released[u] /\ status[u] = "RUNNING"
    BY <1>5, <2>2
  <2>3. ASSUME NEW u \in Task
        PROVE  /\ status[u] = "NONE" => status'[u] = "NONE"
               /\ status[u] # "NONE" => status'[u] # "NONE" /\ policy'[u] = policy[u]
               /\ status[u] # "NONE" /\ status'[u] # status[u] => TaskRow(u) \in x.held
               /\ status[u] \in {"QUEUED", "CANCELED"} => status'[u] \in {"QUEUED", "CANCELED"}
    BY <1>2, <1>5
  <2>. QED  BY <1>5, <2>1, <2>2, <2>3 DEF Respects
<1>. QED  BY <1>1, <1>2, <1>4, <1>6

(* Preflight fails for a plan that nobody has executed since it was read.   *)
LEMMA PreflightFailsIs ==
  ASSUME TxInv, NEW s \in Connection, PreflightFails(s), NEW x, x = tx[s]
  PROVE  /\ x # Nil /\ x.on \in Plan /\ tx' = [tx EXCEPT ![s] = Nil]
         /\ CreateTasksPreflightFailed(x.on) /\ Respects(x.held)
<1>. PICK p : p = x.on
  OBVIOUS
<1>1. /\ x # Nil /\ x.op = "create" /\ x.at = "preflight"
      /\ preflight' = [preflight EXCEPT ![p] = "FAILED"]
      /\ tx' = [tx EXCEPT ![s] = Nil]
      /\ UNCHANGED <<planStatus, status, queue, policy, acquired, released>>
  BY DEF PreflightFails, IsAt, End
<1>2. /\ p \in Plan /\ planStatus[p] \in {"READY", "EXECUTED"}
      /\ \A t \in NewTasks(p) : status[t] = "NONE"
  BY <1>1, CurrentOK DEF TxOK, CreateOK
<1>3. planStatus[p] = "READY"
  <2>1. PICK t \in NewTasks(p) : t \in Task /\ t[1] = p
    BY <1>2, NewTasksAreTasks, TaskOfOnePlan, TransactionAssumption
  <2>. QED  BY <1>2, <2>1 DEF TxInv, PlanExecutedOnce
<1>4. CreateTasksPreflightFailed(p)
  BY <1>1, <1>2, <1>3 DEF CreateTasksPreflightFailed
<1>5. Respects(x.held)
  BY <1>1 DEF Respects, Locks
<1>. QED  BY <1>1, <1>2, <1>4, <1>5

(* The requests that are made are normalized already.                       *)
LEMMA AtomicIsNext == AtomicStep => QueueNext
<1>1. ASSUME NEW req \in NormalRequest
      PROVE  req \in Request /\ normalizeTaskLockResourceRequests(req) = req
  BY DEF NormalRequest, Request, normalizeTaskLockResourceRequests, Policy
<1>2. \A p \in Plan, req \in TxRequest :
         CreateTasks(p, req) => \E r \in Request : CreateTasksForDeploymentPlan(p, r)
  BY <1>1, TransactionAssumption DEF CreateTasksForDeploymentPlan
<1>. QED  BY <1>2 DEF AtomicStep, QueueNext

Commits(s) ==
    /\ tx[s] # Nil /\ tx' = [tx EXCEPT ![s] = Nil]
    /\ AtomicStep /\ Respects(tx[s].held)

LEMMA TxCases ==
  ASSUME TxInv, TxNext
  PROVE  \E s \in Connection : (UNCHANGED queueVars /\ \E y : TxGoes(s, y)) \/ Commits(s)
<1>. PICK s \in Connection :
        \/ TakeLock(s) \/ Rollback(s)
        \/ \E p \in Plan, req \in TxRequest : BeginCreate(s, p, req)
        \/ LockForPreflight(s) \/ PreflightFails(s) \/ InsertTasks(s)
        \/ ApplyPolicy(s) \/ CommitCreate(s)
        \/ \E t \in Task : BeginClaim(s, t)
        \/ \E t \in Task, op \in {"start", "finish"} : BeginTransition(s, t, op)
        \/ LockGuards(s) \/ LockRows(s) \/ CheckConflicts(s) \/ CommitStart(s)
        \/ \E end \in {"SUCCEEDED", "FAILED"} : CommitFinish(s, end)
  BY DEF TxNext
<1>. DEFINE Quiet == UNCHANGED queueVars /\ \E y : TxGoes(s, y)
<1>1. CASE TakeLock(s)
  <2>1. UNCHANGED queueVars
    BY <1>1 DEF TakeLock
  <2>. QED  BY <1>1, <2>1, TakeLockGoes
<1>2. CASE Rollback(s)
  <2>1. UNCHANGED queueVars /\ tx' = [tx EXCEPT ![s] = Nil]
    BY <1>2 DEF Rollback, End
  <2>. QED  BY <2>1, GoesNil
<1>3. ASSUME NEW p \in Plan, NEW req \in TxRequest, BeginCreate(s, p, req) PROVE Quiet
  BY <1>3, BeginCreateGoes
<1>4. CASE LockForPreflight(s)
  BY <1>4, LockForPreflightGoes
<1>5. CASE PreflightFails(s)
  <2>1. Commits(s)
    BY <1>5, PreflightFailsIs DEF Commits, AtomicStep
  <2>. QED  BY <2>1
<1>6. CASE InsertTasks(s)
  BY <1>6, InsertTasksGoes
<1>7. CASE ApplyPolicy(s)
  BY <1>7, ApplyPolicyGoes
<1>8. CASE CommitCreate(s)
  <2>1. Commits(s)
    BY <1>8, CommitCreateIs DEF Commits, AtomicStep
  <2>. QED  BY <2>1
<1>9. ASSUME NEW t \in Task, BeginClaim(s, t) PROVE Quiet
  BY <1>9, BeginClaimGoes
<1>10. ASSUME NEW t \in Task, NEW op \in {"start", "finish"}, BeginTransition(s, t, op)
       PROVE  Quiet
  BY <1>10, BeginTransitionGoes
<1>11. CASE LockGuards(s)
  BY <1>11, LockGuardsGoes
<1>12. CASE LockRows(s)
  BY <1>12, LockRowsGoes
<1>13. CASE CheckConflicts(s)
  BY <1>13, CheckConflictsGoes
<1>14. CASE CommitStart(s)
  <2>. PICK x : x = tx[s]
    OBVIOUS
  <2>1. CASE UNCHANGED queueVars
    BY <1>14, <2>1, CommitStartIs, GoesNil
  <2>2. CASE StartTask(x.on) /\ Respects(x.held)
    <3>1. TransitionTaskState(x.on, "RUNNING") /\ x.on \in Task /\ "RUNNING" \in TaskStatus
      BY <1>14, <2>2, CommitStartIs DEF TransitionTaskState, TaskStatus
    <3>2. Commits(s)
      BY <1>14, <2>2, <3>1, CommitStartIs DEF Commits, AtomicStep
    <3>. QED  BY <3>2
  <2>. QED  BY <1>14, <2>1, <2>2, CommitStartIs
<1>15. ASSUME NEW end \in {"SUCCEEDED", "FAILED"}, CommitFinish(s, end) PROVE Commits(s)
  <2>. PICK x : x = tx[s]
    OBVIOUS
  <2>1. TransitionTaskState(x.on, end) /\ x.on \in Task /\ end \in TaskStatus
    BY <1>15, CommitFinishIs DEF TransitionTaskState, TaskStatus
  <2>. QED  BY <1>15, <2>1, CommitFinishIs DEF Commits, AtomicStep
<1>. QED
  BY <1>1, <1>2, <1>3, <1>4, <1>5, <1>6, <1>7, <1>8, <1>9, <1>10, <1>11, <1>12, <1>13, <1>14, <1>15

LEMMA TxQuietKeeps ==
  ASSUME TxInv, NEW s \in Connection, NEW y, TxGoes(s, y), UNCHANGED queueVars
  PROVE  TxInv'
<1>1. tx' = [tx EXCEPT ![s] = y] /\ tx = [u \in Connection |-> tx[u]]
  BY DEF TxGoes, TxInv
<1>2. tx' = [u \in Connection |-> tx'[u]] /\ tx'[s] = y /\ \A u \in Connection \ {s} : tx'[u] = tx[u]
  BY <1>1
<1>3. QueueTypeOK' /\ LocksFollowTask' /\ PlanExecutedOnce'
  BY DEF TxInv, queueVars, QueueTypeOK, LocksFollowTask, PlanExecutedOnce, Locks
<1>4. ASSUME NEW u \in Connection, NEW x, x = tx'[u], x # Nil
      PROVE  IsTx(x) /\ TxOK(x)' /\ LocksOK(x)
  <2>1. CASE u = s
    BY <1>2, <1>4, <2>1 DEF TxGoes
  <2>2. CASE u # s
    BY <1>2, <1>4, <2>2, QueueFrame, CurrentOK
  <2>. QED  BY <2>1, <2>2
<1>5. TxAlone'
  <2>1. SUFFICES ASSUME NEW u \in Connection, NEW v \in Connection, NEW x, NEW z, x = tx'[u], z = tx'[v],
                        u # v, x # Nil, z # Nil, NEW l \in x.held \cap z.held
                 PROVE  l[1] = "target_key"
    BY DEF TxAlone
  <2>2. CASE u # s /\ v # s
    BY <1>2, <2>1, <2>2, Alone
  <2>3. CASE u = s
    BY <1>2, <2>1, <2>3 DEF TxGoes
  <2>4. CASE v = s
    BY <1>2, <2>1, <2>4 DEF TxGoes
  <2>. QED  BY <2>2, <2>3, <2>4
<1>. QED  BY <1>2, <1>3, <1>4, <1>5 DEF TxInv

LEMMA CommitKeeps ==
  ASSUME TxInv, NEW s \in Connection, Commits(s)
  PROVE  TxInv'
<1>. PICK x : x = tx[s]
  OBVIOUS
<1>1. /\ x # Nil /\ tx' = [tx EXCEPT ![s] = Nil] /\ tx = [u \in Connection |-> tx[u]]
      /\ AtomicStep /\ Respects(x.held)
  BY DEF Commits, TxInv
<1>2. tx' = [u \in Connection |-> tx'[u]] /\ tx'[s] = Nil /\ \A u \in Connection \ {s} : tx'[u] = tx[u]
  BY <1>1
<1>3. QueueTypeOK' /\ LocksFollowTask' /\ PlanExecutedOnce'
  BY <1>1, AtomicIsNext, QueueTypeNext, LocksFollowNext, PlanExecutedNext DEF TxInv
<1>4. ASSUME NEW u \in Connection, NEW y, y = tx'[u], y # Nil
      PROVE  IsTx(y) /\ TxOK(y)' /\ LocksOK(y)
  <2>1. u # s /\ y = tx[u]
    BY <1>2, <1>4
  <2>2. IsTx(y) /\ TxOK(y) /\ LocksOK(y)
    BY <1>4, <2>1, CurrentOK
  <2>3. \A l \in x.held : l \in y.held => l[1] = "target_key"
    BY <1>1, <1>4, <2>1, Alone
  <2>. QED  BY <1>1, <2>2, <2>3, Interference
<1>5. TxAlone'
  <2>1. SUFFICES ASSUME NEW u \in Connection, NEW v \in Connection, NEW y, NEW z, y = tx'[u], z = tx'[v],
                        u # v, y # Nil, z # Nil, NEW l \in y.held \cap z.held
                 PROVE  l[1] = "target_key"
    BY DEF TxAlone
  <2>. QED  BY <1>2, <2>1, Alone
<1>. QED  BY <1>2, <1>3, <1>4, <1>5 DEF TxInv

LEMMA TxInvInit == TxInit => TxInv
<1>. SUFFICES ASSUME TxInit PROVE TxInv
  OBVIOUS
<1>1. QueueTypeOK /\ LocksFollowTask /\ PlanExecutedOnce
  BY QueueTypeInit, LocksFollowInit, PlanExecutedInit DEF TxInit
<1>2. tx = [s \in Connection |-> tx[s]] /\ \A s \in Connection : tx[s] = Nil
  BY DEF TxInit
<1>. QED  BY <1>1, <1>2 DEF TxInv, TxAlone

LEMMA TxInvNext == TxInv /\ [TxNext]_txVars => TxInv'
<1>. SUFFICES ASSUME TxInv, [TxNext]_txVars PROVE TxInv'
  OBVIOUS
<1>1. CASE TxNext
  BY <1>1, TxCases, TxQuietKeeps, CommitKeeps
<1>2. CASE UNCHANGED txVars
  <2>1. tx' = tx /\ UNCHANGED queueVars
    BY <1>2 DEF txVars
  <2>2. QueueTypeOK' /\ LocksFollowTask' /\ PlanExecutedOnce'
    BY <2>1 DEF TxInv, queueVars, QueueTypeOK, LocksFollowTask, PlanExecutedOnce, Locks
  <2>3. \A s \in Connection : \A x : x = tx'[s] /\ x # Nil => IsTx(x) /\ TxOK(x)' /\ LocksOK(x)
    BY <2>1, CurrentOK, QueueFrame
  <2>. QED  BY <2>1, <2>2, <2>3 DEF TxInv, TxAlone
<1>. QED  BY <1>1, <1>2

(***************************************************************************)
(* Deadlocks.  A set of sessions in a deadlock that is not one of the       *)
(* explained ones cannot exist: nobody in it waits for lock rows, targets   *)
(* or bundles out of order, and along the waits that remain the stage or    *)
(* the key of the awaited guard rises.                                      *)
(***************************************************************************)
Unexplained(ss) ==
    /\ ss \subseteq Connection /\ Deadlocked(ss)
    /\ ~\E s \in ss : CancelsOlder(s)
    /\ ~\E s, u \in ss : ShareBundle(s, u)

LEMMA Stuck ==
  ASSUME TxInv, NEW ss, Unexplained(ss), NEW s \in ss, NEW x, x = tx[s]
  PROVE  /\ s \in Connection /\ x # Nil /\ IsTx(x) /\ TxOK(x) /\ LocksOK(x)
         /\ x.todo # {} /\ ~OlderRows(x)
         /\ \A m \in x.held : /\ m[1] = "bundle" => x.at \notin {"preflight", "locked"}
                             /\ m[1] # "target_key"
<1>1. s \in Connection /\ x # Nil /\ x.todo # {}
  BY DEF Unexplained, Deadlocked, WaitsFor, Upcoming
<1>2. IsTx(x) /\ TxOK(x) /\ LocksOK(x)
  BY <1>1, CurrentOK
<1>3. ~OlderRows(x)
  BY <1>1 DEF Unexplained, CancelsOlder, OlderRows, AsksToCancel
<1>4. \A m \in x.held : /\ m[1] = "bundle" => x.at \notin {"preflight", "locked"}
                       /\ m[1] # "target_key"
  BY <1>1, <1>2 DEF LocksOK
<1>. QED  BY <1>1, <1>2, <1>3, <1>4

(* What s waits for and u holds.                                            *)
LEMMA Awaited ==
  ASSUME TxInv, NEW ss, Unexplained(ss), NEW s \in ss, NEW u \in ss, WaitsFor(s, u),
         NEW x, x = tx[s], NEW y, y = tx[u]
  PROVE  /\ s # u
         /\ \E l \in x.todo : \E m \in y.held :
              /\ l \in Upcoming(s) /\ LockOK(x, l) /\ LockOK(y, m)
              /\ \/ l = m
                 \/ l[1] = "target_key" /\ m[1] = "target" /\ m[2] = l[2]
<1>1. PICK l \in x.todo : \E m \in y.held : Conflicts(l, m) /\ l \in Upcoming(s) /\ s # u
  BY DEF WaitsFor, Upcoming, Blocks
<1>2. PICK m \in y.held : Conflicts(l, m)
  BY <1>1
<1>3. LockOK(x, l) /\ LockOK(y, m) /\ m[1] # "target_key"
  BY Stuck DEF LocksOK
<1>4. l = m \/ (l[1] = "target_key" /\ m[1] = "target" /\ m[2] = l[2])
  <2>1. CASE {l[1], m[1]} = {"target", "target_key"}
    <3>1. l[2] = m[2]
      BY <1>2, <2>1 DEF Conflicts
    <3>. QED  BY <1>3, <2>1, <3>1
  <2>. QED  BY <1>2, <2>1 DEF Conflicts
<1>. QED  BY <1>1, <1>3, <1>4

(* The guards of a target's resource keep creations off the target.         *)
LEMMA HoldsTarget ==
  ASSUME NEW y, TxOK(y), LocksOK(y), NEW m \in y.held, m[1] = "target"
  PROVE  y.op = "create" /\ y.at # "guarded" /\ Guard(TargetLock(m[2])) \in y.held
<1>1. y.op = "create" /\ \E t \in NewTasks(y.on) : m = TargetRow(t[2])
  BY LockTags DEF LocksOK, LockOK, GuardIn
<1>2. y.at # "guarded"
  BY <1>1 DEF LocksOK
<1>3. CreateOK(y)
  BY <1>1 DEF TxOK
<1>4. PICK t \in NewTasks(y.on) : m = TargetRow(t[2])
  BY <1>1
<1>5. TargetLock(t[2]) \in GroupsOf(y.on, y.req) /\ m[2] = t[2]
  BY <1>3, <1>4, TargetGuard, LockTags DEF CreateOK
<1>. QED  BY <1>1, <1>2, <1>3, <1>5 DEF CreateOK, Guarded

LEMMA NobodyAtRows ==
  ASSUME TxInv, NEW ss, Unexplained(ss), NEW s \in ss, NEW x, x = tx[s]
  PROVE  x.at \notin {"rows", "policies"}
<1>. SUFFICES ASSUME x.at \in {"rows", "policies"} PROVE FALSE
  OBVIOUS
<1>1. PICK u \in ss : WaitsFor(s, u)
  BY DEF Unexplained, Deadlocked
<1>. PICK y : y = tx[u]
  OBVIOUS
<1>2. x # Nil /\ TxOK(x) /\ LocksOK(x) /\ ~OlderRows(x) /\ y # Nil /\ ~OlderRows(y)
      /\ s \in Connection /\ u \in Connection
  BY Stuck
<1>3. \A l \in x.todo : l[1] = "lock"
  BY <1>2, TodoTags, Stages DEF OlderRows, TxOK, TaskOK
<1>4. PICK l \in x.todo : l \in y.held /\ LockOK(x, l) /\ LockOK(y, l) /\ s # u
  BY <1>1, <1>3, Awaited
<1>5. Guard(l[3]) \in x.held /\ Guard(l[3]) \in y.held
  BY <1>2, <1>3, <1>4 DEF LockOK, GuardIn
<1>. QED  BY <1>2, <1>4, <1>5, Alone, LockTags

LEMMA NobodyAtPreflight ==
  ASSUME TxInv, NEW ss, Unexplained(ss), NEW s \in ss, NEW x, x = tx[s]
  PROVE  x.at # "preflight"
<1>. SUFFICES ASSUME x.at = "preflight" PROVE FALSE
  OBVIOUS
<1>1. PICK u \in ss : WaitsFor(s, u)
  BY DEF Unexplained, Deadlocked
<1>. PICK y : y = tx[u]
  OBVIOUS
<1>2. x # Nil /\ TxOK(x) /\ LocksOK(x) /\ y # Nil /\ TxOK(y) /\ LocksOK(y)
      /\ s \in Connection /\ u \in Connection /\ x.op = "create"
  BY Stuck, Stages
<1>3. PICK l \in x.todo : l \in y.held /\ LockOK(x, l) /\ LockOK(y, l) /\ s # u
                         /\ (l[1] = "target" \/ (l[1] = "bundle" /\ l = BundleRow(x.on)))
  BY <1>1, <1>2, Awaited, TodoTags
<1>4. CASE l[1] = "target"
  <2>1. Guard(TargetLock(l[2])) \in y.held
    BY <1>2, <1>3, <1>4, HoldsTarget
  <2>2. Guard(TargetLock(l[2])) \in x.held
    <3>1. CreateOK(x)
      BY <1>2 DEF TxOK
    <3>2. PICK t \in NewTasks(x.on) : l = TargetRow(t[2])
      BY <1>3, <1>4, LockTags DEF LockOK, GuardIn
    <3>3. TargetLock(t[2]) \in GroupsOf(x.on, x.req) /\ l[2] = t[2]
      BY <3>1, <3>2, TargetGuard, LockTags DEF CreateOK
    <3>. QED  BY <3>1, <3>3 DEF CreateOK, Guarded
  <2>. QED  BY <1>2, <1>3, <2>1, <2>2, Alone, LockTags
<1>5. CASE l[1] = "bundle" /\ l = BundleRow(x.on)
  <2>1. CASE y.op = "create"
    <3>1. y.at \in {"guarded", "preflight"}
      BY <1>2, <2>1, NobodyAtRows, Stages
    <3>2. y.at # "guarded"
      BY <1>2, <1>3, <1>5, <2>1 DEF LocksOK
    <3>. QED  BY <1>3, <1>5, <3>1, <3>2, Stuck
  <2>2. CASE y.op = "claim"
    <3>1. l = BundleRow(y.on[1])
      BY <1>3, <1>5, <2>2, LockTags DEF LockOK, GuardIn
    <3>2. ShareBundle(u, s)
      BY <1>2, <1>5, <2>2, <3>1 DEF ShareBundle
    <3>. QED  BY <3>2 DEF Unexplained
  <2>3. y.op \in {"create", "claim"}
    BY <1>3, <1>5 DEF LockOK, GuardIn
  <2>. QED  BY <2>1, <2>2, <2>3
<1>. QED  BY <1>3, <1>4, <1>5

(* So a creation still waits for its guards, and has no target yet.         *)
LEMMA NobodyAtInsert ==
  ASSUME TxInv, NEW ss, Unexplained(ss), NEW s \in ss, NEW x, x = tx[s]
  PROVE  x.at # "insert"
<1>. SUFFICES ASSUME x.at = "insert" PROVE FALSE
  OBVIOUS
<1>1. PICK u \in ss : WaitsFor(s, u)
  BY DEF Unexplained, Deadlocked
<1>. PICK y : y = tx[u]
  OBVIOUS
<1>2. TxOK(x) /\ LocksOK(x) /\ TxOK(y) /\ LocksOK(y)
  BY Stuck
<1>3. PICK m \in y.held : m[1] \in {"target", "target_key"}
  BY <1>1, <1>2, Awaited, TodoTags
<1>4. m[1] = "target"
  BY <1>3, Stuck
<1>5. y.op = "create" /\ y.at # "guarded"
  BY <1>2, <1>4, HoldsTarget
<1>. QED  BY <1>2, <1>5, NobodyAtRows, NobodyAtPreflight, Stages

(* How far a waiting transaction is: before the row of its task, before the *)
(* bundle of its task, or at the guard that it waits for.                   *)
AwaitedGuard(s) == CHOOSE l \in tx[s].todo : l \in Upcoming(s)
Rank(s) ==
    IF tx[s].at = "locked" THEN IF tx[s].op = "claim" THEN 1 ELSE 0
    ELSE 2 + GuardKey[AwaitedGuard(s)[2]]

LEMMA RankOf ==
  ASSUME TxInv, NEW ss, Unexplained(ss), NEW s \in ss, NEW x, x = tx[s]
  PROVE  /\ x.at \in {"locked", "guarded"} /\ Rank(s) \in Nat
         /\ x.at = "locked" => x.op # "create" /\ Rank(s) = IF x.op = "claim" THEN 1 ELSE 0
         /\ x.at = "guarded" => \A l \in x.todo :
                l \in Upcoming(s) => Rank(s) = 2 + GuardKey[l[2]] /\ GuardIn(l)
         /\ x.at = "guarded" => \E l \in x.todo :
                GuardIn(l) /\ GuardKey[l[2]] \in Nat /\ Rank(s) = 2 + GuardKey[l[2]]
<1>1. TxOK(x) /\ LocksOK(x) /\ x # Nil
  BY Stuck
<1>2. x.at \in {"locked", "guarded"} /\ (x.at = "locked" => x.op # "create")
  BY <1>1, Stages, NobodyAtRows, NobodyAtPreflight, NobodyAtInsert
<1>3. CASE x.at = "locked"
  BY <1>2, <1>3 DEF Rank
<1>4. CASE x.at = "guarded"
  <2>1. \A l \in x.todo : GuardIn(l) /\ GuardKey[l[2]] \in Nat
    BY <1>1, <1>4, TodoTags, TransactionAssumption DEF GuardIn
  <2>2. \E l \in x.todo : l \in Upcoming(s)
    BY DEF Unexplained, Deadlocked, WaitsFor, Upcoming
  <2>3. AwaitedGuard(s) \in x.todo /\ AwaitedGuard(s) \in Upcoming(s)
    BY <2>2 DEF AwaitedGuard
  <2>4. ASSUME NEW l \in x.todo, l \in Upcoming(s) PROVE l = AwaitedGuard(s)
    <3>. PICK k \in x.todo : k = AwaitedGuard(s)
      BY <2>3
    <3>1. ~Precedes(k, l) /\ ~Precedes(l, k)
      BY <2>3, <2>4 DEF Upcoming
    <3>2. GuardIn(k) /\ GuardIn(l)
      BY <2>1
    <3>3. ~(GuardKey[k[2]] < GuardKey[l[2]]) /\ ~(GuardKey[l[2]] < GuardKey[k[2]])
      BY <3>1, <3>2 DEF Precedes, GuardIn
    <3>. QED  BY <3>2, <3>3, KeysDiffer
  <2>5. Rank(s) = 2 + GuardKey[AwaitedGuard(s)[2]]
    BY <1>4 DEF Rank
  <2>6. Rank(s) \in Nat
    BY <2>1, <2>3, <2>5
  <2>. QED  BY <1>2, <1>4, <2>1, <2>3, <2>4, <2>5, <2>6
<1>. QED  BY <1>2, <1>3, <1>4

LEMMA RankRises ==
  ASSUME TxInv, NEW ss, Unexplained(ss), NEW s \in ss, NEW u \in ss, WaitsFor(s, u)
  PROVE  Rank(s) < Rank(u)
<1>. PICK x : x = tx[s]
  OBVIOUS
<1>. PICK y : y = tx[u]
  OBVIOUS
<1>1. /\ x # Nil /\ TxOK(x) /\ LocksOK(x) /\ ~OlderRows(x)
      /\ y # Nil /\ TxOK(y) /\ LocksOK(y) /\ ~OlderRows(y) /\ y.todo # {}
      /\ \A m \in y.held : m[1] = "bundle" => y.at # "locked"
  BY Stuck
<1>2. /\ x.at \in {"locked", "guarded"} /\ y.at \in {"locked", "guarded"}
      /\ Rank(s) \in Nat /\ Rank(u) \in Nat
  BY RankOf
<1>3. PICK l \in x.todo : l \in y.held /\ l \in Upcoming(s) /\ LockOK(x, l) /\ LockOK(y, l)
  BY <1>1, <1>2, Awaited, TodoTags, LockTags DEF GuardIn
<1>4. CASE x.at = "guarded"
  <2>1. GuardIn(l) /\ Rank(s) = 2 + GuardKey[l[2]]
    BY <1>3, <1>4, RankOf
  <2>2. y.at = "guarded"
    <3>1. y.op = "create" \/ y.at # "locked"
      BY <1>3, <2>1 DEF LockOK, GuardIn
    <3>. QED  BY <1>2, <3>1, RankOf
  <2>3. PICK k \in y.todo : GuardIn(k) /\ GuardKey[k[2]] \in Nat /\ Rank(u) = 2 + GuardKey[k[2]]
    BY <2>2, RankOf
  <2>4. GuardKey[l[2]] < GuardKey[k[2]]
    BY <1>1, <1>3, <2>1, <2>2 DEF LocksOK, GuardIn
  <2>5. GuardKey[l[2]] \in Nat
    BY <2>1, TransactionAssumption DEF GuardIn
  <2>. QED  BY <2>1, <2>3, <2>4, <2>5
<1>5. CASE x.at = "locked" /\ x.op = "claim"
  <2>1. l[1] = "bundle" /\ Rank(s) = 1
    BY <1>1, <1>5, TodoTags, RankOf
  <2>2. y.at = "guarded"
    BY <1>1, <1>2, <1>3, <2>1
  <2>. QED  BY <2>1, <2>2, RankOf
<1>6. CASE x.at = "locked" /\ x.op # "claim"
  <2>1. l[1] = "task" /\ Rank(s) = 0
    BY <1>1, <1>6, TodoTags, RankOf
  <2>2. y.at = "guarded" \/ y.op = "claim"
    BY <1>1, <1>2, <1>3, <2>1 DEF LocksOK
  <2>3. CASE y.at = "guarded"
    BY <2>1, <2>3, RankOf
  <2>4. CASE y.at = "locked" /\ y.op = "claim"
    <3>1. Rank(u) = 1
      BY <2>4, RankOf
    <3>. QED  BY <2>1, <3>1
  <2>. QED  BY <1>2, <2>2, <2>3, <2>4
<1>. QED  BY <1>2, <1>4, <1>5, <1>6

(* Nothing rises forever in a finite set.                                   *)
LEMMA SomethingIsHighest ==
  ASSUME NEW S, IsFiniteSet(S), S # {}, NEW F, \A x \in S : F[x] \in Nat
  PROVE  \E x \in S : \A y \in S : ~(F[x] < F[y])
<1>. DEFINE Above(x) == {y \in S : F[x] < F[y]}
            AllAbove == {Above(x) : x \in S}
<1>1. IsWellFoundedOn(StrictSubsetOrdering(S), SUBSET S)
  BY FS_StrictSubsetOrderingWellFounded, FS_FiniteSubsetsOfFinite
<1>2. AllAbove \subseteq SUBSET S /\ AllAbove # {}
  OBVIOUS
<1>3. PICK a \in AllAbove : \A b \in AllAbove : <<b, a>> \notin StrictSubsetOrdering(S)
  <2>. HIDE DEF AllAbove
  <2>. QED  BY <1>1, <1>2, WFMin
<1>4. PICK x \in S : a = Above(x)
  OBVIOUS
<1>5. ASSUME NEW y \in S, F[x] < F[y] PROVE FALSE
  <2>1. F[x] \in Nat /\ F[y] \in Nat /\ y \in Above(x) /\ y \notin Above(y)
    BY <1>5
  <2>2. Above(y) \subseteq Above(x)
    BY <2>1, <1>5
  <2>3. <<Above(y), Above(x)>> \in StrictSubsetOrdering(S)
    BY <2>1, <2>2 DEF StrictSubsetOrdering
  <2>. QED  BY <1>3, <1>4, <2>3
<1>. QED  BY <1>5

LEMMA DeadlocksExplained == TxInv => DeadlockExplained
<1>. SUFFICES ASSUME TxInv, NEW ss \in SUBSET Connection, Unexplained(ss) PROVE FALSE
  BY DEF DeadlockExplained, Unexplained
<1>1. IsFiniteSet(ss) /\ ss # {}
  BY TransactionAssumption, FS_Subset DEF Unexplained, Deadlocked
<1>2. PICK F : F = [s \in ss |-> Rank(s)]
  OBVIOUS
<1>3. \A s \in ss : F[s] = Rank(s) /\ F[s] \in Nat
  BY <1>2, RankOf
<1>4. PICK s \in ss : \A u \in ss : ~(F[s] < F[u])
  BY <1>1, <1>3, SomethingIsHighest
<1>5. PICK u \in ss : WaitsFor(s, u)
  BY DEF Unexplained, Deadlocked
<1>. QED  BY <1>3, <1>4, <1>5, RankRises

(***************************************************************************)
(* Whatever the statements of concurrent transactions see between them and  *)
(* in which order they get their locks, what a session commits is one step  *)
(* of the task queue; and a deadlock has a creation that cancels older      *)
(* tasks, or a claim and a creation for one release bundle.                 *)
(***************************************************************************)
THEOREM TransactionsAreAtomic == TxSpec => LockingSound
<1>1. TxInv /\ [TxNext]_txVars => [tx' = tx \/ UNCHANGED queueVars \/ AtomicStep]_txVars
  <2>1. ASSUME TxInv, TxNext PROVE UNCHANGED queueVars \/ AtomicStep
    BY <2>1, TxCases DEF Commits
  <2>. QED  BY <2>1
<1>. QED  BY <1>1, TxInvInit, TxInvNext, DeadlocksExplained, PTL DEF TxSpec, LockingSound
=============================================================================
