------------------------------ MODULE HubWorker ------------------------------
(***************************************************************************)
(* The hub's task worker (internal/hubexecutor/worker.go, with the retry    *)
(* loop of internal/webhookaction/runtime.go), on top of the leases and the *)
(* external executions of the database.                                     *)
(*                                                                          *)
(* A session is the goroutine that executes one lease.  It runs its steps   *)
(* one store call at a time and decides on the copies those calls returned; *)
(* other sessions of the same task, callbacks, deadlines, operators, agents *)
(* and its own heartbeat act in between.                                    *)
(***************************************************************************)
EXTENDS TaskLeases, ExternalExecution

CONSTANTS
    MaxTries,     \* retry.maxAttempts of a webhook
    Unreliable,   \* database calls may fail, before or after they commit
    NoStep,       \* what a session without a step is at
    TaskRequest   \* the task-creation requests operators make

ASSUME WorkerAssumption ==
    /\ Webhook \subseteq {s \in Step : Location[s] = "hub"}
    /\ PlanWebhooks = [p \in Plan |-> PlanSteps[p] \cap Webhook]
    /\ MaxTries \in Nat \ {0}
    /\ Unreliable \in BOOLEAN
    /\ NoStep \notin Step
    /\ TaskRequest \subseteq Request
    /\ MaxEvents >= MaxTries + MaxEventCount + 4   \* what one attempt may record

(***************************************************************************)
(* Where a session is: the store call, or the HTTP request, that comes next.*)
(***************************************************************************)
Busy == {"start", "prepare", "trigger", "reconcile", "announce", "emit", "post", "await",
         "wait", "report", "deadline", "failext", "fail", "succeed"}

(* The calls made while the heartbeat goroutine of the step is running.     *)
Heartbeating == Busy \ {"start", "fail"}

Session ==
    [pc: Busy \cup {"none", "done"},
     step: Step \cup {NoStep},       \* the step being executed
     todo: SUBSET Step,              \* the rest of the lease's steps
     sequence: Nat,                  \* last sequence number the session has used
     external: Open \cup Ended \cup {"NONE"},   \* its copy of the execution's status
     seen: Nat,                      \* lastCallbackSequence
     tries: Nat]                     \* webhook attempts so far

VARIABLES
    session,    \* per task and attempt
    senders     \* per execution, the attempts that have sent its webhook request

workerVars == <<session, senders>>
hubVars == <<vars, execVars, workerVars>>

WorkerTypeOK ==
    /\ session \in [Task -> [Attempt -> Session]]
    /\ senders \in [Execution -> SUBSET Attempt]

(* A session that has not begun, or has returned.                           *)
Idle(pc) ==
    [pc |-> pc, step |-> NoStep, todo |-> {}, sequence |-> 0, external |-> "NONE",
     seen |-> 0, tries |-> 0]

HubInit ==
    /\ Init
    /\ ExecInit
    /\ session = [t \in Task |-> [a \in Attempt |-> Idle("none")]]
    /\ senders = [e \in Execution |-> {}]

-----------------------------------------------------------------------------
(* Helpers.                                                                 *)

At(t, a, pc) == session[t][a].pc = pc
StepOf(t, a) == session[t][a].step
ExecutionOf(t, a) == <<t, StepOf(t, a)>>
Callback(t, a) == StepOf(t, a) \in Webhook

Become(t, a, s) == session' = [session EXCEPT ![t][a] = s]
Goto(t, a, pc) == Become(t, a, [session[t][a] EXCEPT !.pc = pc])

NoCall == UNCHANGED <<vars, execVars>>

(* An event recorded under the session's lease.  The call fails when the    *)
(* store refuses it; if the database is unreliable it may also fail without *)
(* an effect, or after the event was committed.                             *)
Recorded(t, a, n, ty) ==
    /\ n \in 1..MaxEvents
    /\ RecordStepRunEvent(t, StepOf(t, a), a, n, ty)
    /\ UNCHANGED execVars

RecordFails(t, a, n, ty) ==
    \/ Unreliable /\ Recorded(t, a, n, ty)
    \/ (Unreliable \/ ~MayRecord(t, StepOf(t, a), a, n, ty)) /\ NoCall

(* record: on to the state ok, or with an error to the state err.           *)
Record(t, a, n, ty, ok, err) ==
    \/ Recorded(t, a, n, ty) /\ Become(t, a, ok)
    \/ RecordFails(t, a, n, ty) /\ Become(t, a, err)

With(t, a, pc) == [session[t][a] EXCEPT !.pc = pc]

(* sequence++ before the call, so that it is spent also if the call fails.  *)
Advanced(t, a, pc) == [With(t, a, pc) EXCEPT !.sequence = @ + 1]

(* The session's copy of the execution as it is in the database.            *)
Copied(t, a, pc) ==
    [With(t, a, pc) EXCEPT !.external = execution[ExecutionOf(t, a)],
                           !.seen = Len(callbacks[ExecutionOf(t, a)])]

(* Where an error leads: the execution is failed first if there is one that *)
(* the session takes for unfinished.                                        *)
ErrorPc(s) == IF s.external \in Open THEN "failext" ELSE "fail"

-----------------------------------------------------------------------------
(* One step.                                                                *)

(* The steps of the lease are in dependency order (see ReadySteps).         *)
NextSteps(S) == {s \in S : Dependencies[s] \cap S = {}}

BeginStep(S, s) ==
    [pc |-> "start", step |-> s, todo |-> S \ {s}, sequence |-> 0, external |-> "NONE",
     seen |-> 0, tries |-> 0]

(* STARTED.  An action or an input the hub cannot execute fails the step.   *)
Start(t, a) ==
    /\ At(t, a, "start")
    /\ \E pc \in {IF Callback(t, a) THEN "prepare" ELSE "emit", "fail"} :
          Record(t, a, 1, "STARTED", Advanced(t, a, pc), Idle("done"))
    /\ UNCHANGED senders

Prepare(t, a) ==
    LET e == ExecutionOf(t, a)
        queued == [With(t, a, "trigger") EXCEPT !.external = "QUEUED"]
    IN  /\ At(t, a, "prepare")
        /\ \/ /\ e \in Execution /\ execution[e] # "NONE"
              /\ Become(t, a, Copied(t, a, IF execution[e] = "QUEUED" THEN "trigger" ELSE "await"))
              /\ NoCall
           \/ /\ e \in Execution
              /\ PrepareExternalExecution(e)
              /\ Become(t, a, queued) \/ (Unreliable /\ Goto(t, a, "fail"))
              /\ UNCHANGED leaseVars
           \/ /\ e \in Execution
              /\ PreparePreflightFailed(e)
              /\ Goto(t, a, "fail")
              /\ UNCHANGED leaseVars
           \/ /\ Unreliable \/ ~(e \in Execution /\ (execution[e] # "NONE" \/ MayPrepare(e)))
              /\ NoCall
              /\ Goto(t, a, "fail")
        /\ UNCHANGED senders

(* The claim of the dispatch.  Only the session whose call returned without *)
(* an error goes on to send the request.                                    *)
Trigger(t, a) ==
    LET e == ExecutionOf(t, a)
        running == [With(t, a, "announce") EXCEPT !.external = "RUNNING"]
    IN  /\ At(t, a, "trigger")
        /\ \/ /\ MarkExternalExecutionTriggered(e)
              /\ Become(t, a, running) \/ (Unreliable /\ Goto(t, a, "reconcile"))
              /\ UNCHANGED leaseVars
           \/ /\ Unreliable \/ execution[e] # "QUEUED"
              /\ NoCall
              /\ Goto(t, a, "reconcile")
        /\ UNCHANGED senders

(* The claim failed: somebody else, or this call after all, made it.        *)
Reconcile_Fault(t, a) ==
    /\ At(t, a, "reconcile")
    /\ \/ Become(t, a, Copied(t, a, IF execution[ExecutionOf(t, a)] = "QUEUED"
                                    THEN "failext" ELSE "announce"))
       \/ Unreliable /\ Goto(t, a, "failext")
    /\ NoCall
    /\ UNCHANGED senders
Reconcile(t, a) ==
    /\ At(t, a, "reconcile")
    /\ \/ Become(t, a, IF execution[ExecutionOf(t, a)] = "QUEUED" THEN With(t, a, "failext")
                       ELSE Copied(t, a, "await"))
       \/ Unreliable /\ Goto(t, a, "failext")
    /\ NoCall
    /\ UNCHANGED senders

Announce(t, a) ==
    /\ At(t, a, "announce")
    /\ Record(t, a, session[t][a].sequence + 1, "PROGRESS",
              Advanced(t, a, "emit"), Advanced(t, a, "failext"))
    /\ UNCHANGED senders

-----------------------------------------------------------------------------
(* webhookaction.Run: a progress event before every attempt.                *)

Emit(t, a) ==
    /\ At(t, a, "emit")
    /\ Record(t, a, session[t][a].sequence + 1, "PROGRESS",
              Advanced(t, a, "post"), With(t, a, ErrorPc(session[t][a])))
    /\ UNCHANGED senders

(* The request is sent; its answer, if any, is accepted, retried or an      *)
(* error.                                                                   *)
Post(t, a) ==
    /\ At(t, a, "post")
    /\ \/ Goto(t, a, IF Callback(t, a) THEN "await" ELSE "succeed")
       \/ Goto(t, a, ErrorPc(session[t][a]))
       \/ /\ session[t][a].tries + 1 < MaxTries
          /\ Become(t, a, [With(t, a, "emit") EXCEPT !.tries = @ + 1])
    /\ senders' = IF Callback(t, a)
                  THEN [senders EXCEPT ![ExecutionOf(t, a)] = @ \cup {a}] ELSE senders
    /\ NoCall

-----------------------------------------------------------------------------
(* Waiting for the external executor.                                       *)

Await(t, a) ==
    LET s == session[t][a] IN
    /\ At(t, a, "await")
    /\ \/ /\ s.external = "RUNNING"
          /\ Record(t, a, s.sequence + 1, "PROGRESS",
                    Advanced(t, a, "wait"), Advanced(t, a, "failext"))
       \/ /\ s.external = "SUCCEEDED"
          /\ Record(t, a, s.sequence + 1, "PROGRESS",
                    Advanced(t, a, "succeed"), Advanced(t, a, "fail"))
       \/ /\ s.external \in Ended \ {"SUCCEEDED"}
          /\ Goto(t, a, "fail")
          /\ NoCall
    /\ UNCHANGED senders

(* What the copy of the execution that was read last asks for.              *)
AfterRead_Fault(external) == IF external \in Ended THEN "succeed" ELSE "deadline"
AfterRead(external) ==
    CASE external = "SUCCEEDED" -> "succeed"
      [] external \in Ended \ {"SUCCEEDED"} -> "fail"
      [] OTHER -> "deadline"

Wait(t, a) ==
    LET e == ExecutionOf(t, a)
        new == Len(callbacks[e]) > session[t][a].seen
    IN  /\ At(t, a, "wait")
        /\ \/ Become(t, a, Copied(t, a, IF new THEN "report" ELSE AfterRead(execution[e])))
           \/ Unreliable /\ Goto(t, a, "failext")
        /\ NoCall
        /\ UNCHANGED senders

Report(t, a) ==
    LET s == session[t][a] IN
    /\ At(t, a, "report")
    /\ Record(t, a, s.sequence + 1, "PROGRESS",
              Advanced(t, a, AfterRead(s.external)), Advanced(t, a, ErrorPc(s)))
    /\ UNCHANGED senders

(* The copy is of an unfinished execution.  Before its deadline the session *)
(* reads again; after it, it times the execution out, and fails the step    *)
(* whatever the time-out returns.                                           *)
Deadline_Fault(t, a) ==
    /\ At(t, a, "deadline")
    /\ Goto(t, a, "wait")
    /\ NoCall
    /\ UNCHANGED senders
Deadline(t, a) ==
    LET e == ExecutionOf(t, a) IN
    /\ At(t, a, "deadline")
    /\ \/ ~overdue[e] /\ Goto(t, a, "wait") /\ NoCall
       \/ /\ overdue[e]
          /\ \/ TimeoutExternalExecution(e) /\ UNCHANGED leaseVars
             \/ execution[e] \in Ended /\ NoCall
          /\ \/ Become(t, a, [With(t, a, "fail") EXCEPT !.external = execution'[e]])
             \/ Unreliable /\ Goto(t, a, "failext")
       \/ overdue[e] /\ Unreliable /\ Goto(t, a, "failext") /\ NoCall
    /\ UNCHANGED senders

(* The execution is failed, unless it has ended, perhaps well, meanwhile.   *)
FailExecution(t, a) ==
    LET e == ExecutionOf(t, a) IN
    /\ At(t, a, "failext")
    /\ \/ /\ \/ FailExternalExecution(e) /\ UNCHANGED leaseVars
             \/ execution[e] \in Ended /\ NoCall
          /\ \/ Become(t, a, [With(t, a, IF execution'[e] = "SUCCEEDED" THEN "succeed" ELSE "fail")
                                EXCEPT !.external = execution'[e]])
             \/ Unreliable /\ Goto(t, a, "fail")
       \/ Unreliable /\ Goto(t, a, "fail") /\ NoCall
    /\ UNCHANGED senders

-----------------------------------------------------------------------------
(* The end of a step.                                                       *)

(* recordFailure; executeLease returns with the error.                      *)
Fail(t, a) ==
    /\ At(t, a, "fail")
    /\ Record(t, a, session[t][a].sequence + 1, "FAILED",
              Idle("done"), Idle("done"))
    /\ UNCHANGED senders

Succeed(t, a) ==
    LET s == session[t][a] IN
    /\ At(t, a, "succeed")
    /\ \/ s.todo = {} /\ Record(t, a, s.sequence + 1, "SUCCEEDED",
                                Idle("done"), Idle("done"))
       \/ \E x \in NextSteps(s.todo) :
             Record(t, a, s.sequence + 1, "SUCCEEDED",
                    BeginStep(s.todo, x), Idle("done"))
    /\ UNCHANGED senders

-----------------------------------------------------------------------------
(* What happens to a session.                                               *)

(* A heartbeat failed: the call in progress is canceled, the execution is   *)
(* left alone, and the step is failed, whatever it had come to.             *)
HeartbeatFails(t, a) ==
    /\ session[t][a].pc \in Heartbeating
    /\ Unreliable \/ lease[t][a] # "LIVE" \/ status[t] # "RUNNING"
    /\ Goto(t, a, "fail")
    /\ NoCall
    /\ UNCHANGED senders

(* The hub process stops, or shuts down and cancels its calls.              *)
HubStops(t, a) ==
    /\ session[t][a].pc \in Busy
    /\ Become(t, a, Idle("done"))
    /\ NoCall
    /\ UNCHANGED senders

(* A hub worker leases a task and starts a session.  A claim that finds no  *)
(* pending step cannot occur here: steps are left running only under a      *)
(* lease of their own location, whose expiry resets them.                   *)
HubLease(t, a) ==
    LET batch == readyTaskLeaseStepCandidates(stepStatus'[t], "hub") IN
    /\ ClaimQueuedTask(t, "hub", a) \/ ReclaimRunningTask(t, "hub", a)
    /\ \E s \in NextSteps(batch) : Become(t, a, BeginStep(batch, s))
    /\ UNCHANGED <<execVars, senders>>

SessionStep(t, a) ==
    \/ Start(t, a) \/ Prepare(t, a) \/ Trigger(t, a) \/ Reconcile(t, a) \/ Announce(t, a)
    \/ Emit(t, a) \/ Post(t, a)
    \/ Await(t, a) \/ Wait(t, a) \/ Report(t, a) \/ Deadline(t, a) \/ FailExecution(t, a)
    \/ Fail(t, a) \/ Succeed(t, a)

-----------------------------------------------------------------------------
(* Everybody else.                                                          *)

(* The progress an agent reports changes only its own event history, and is *)
(* left to TaskLeases.                                                      *)
AgentStep(t) ==
    /\ \/ LeaseTask(t, "agent")
       \/ \E s \in Step, a \in Attempt, n \in 1..MaxEvents, ty \in EventType \ {"PROGRESS"} :
             /\ Location[s] = "target" /\ executor[t][a] = "agent"
             /\ RecordStepRunEvent(t, s, a, n, ty)
    /\ UNCHANGED <<execVars, workerVars>>

OperatorStep ==
    /\ \/ \E p \in planned, request \in TaskRequest :
             StateMatches(p, Target) /\ CreatePlanTasks(p, request)
       \/ \E p \in planned : FailPlanPreflight(p)
       \/ \E p \in Plan : BlockReleaseBundle(p)
       \/ \E t \in Task : StartTaskByHand(t)
       \/ \E t \in Task, s \in {"SUCCEEDED", "FAILED"} : FinishTaskByHand(t, s)
    /\ UNCHANGED <<execVars, workerVars>>

CreatePlan ==
    /\ \E p \in Plan : CreateDeploymentPlan(p)
    /\ UNCHANGED <<leaseVars, workerVars>>

(* The external executor learns of the execution from the request; a        *)
(* callback after the deadline times the execution out.                     *)
ExternalStep(e) ==
    /\ senders[e] # {}
    /\ \/ \E n \in 1..MaxEventCount, s \in CallbackStatus, observed \in {"none", "exact", "other"} :
             RecordExternalExecutionCallback(e, n, s, observed)
       \/ TimeoutExternalExecution(e)
    /\ UNCHANGED <<leaseVars, workerVars>>

ClockStep ==
    \/ \E e \in Execution : DeadlinePasses(e) /\ UNCHANGED <<leaseVars, workerVars>>
    \/ \E t \in Task, a \in Attempt : LeaseExpires(t, a) /\ UNCHANGED <<execVars, workerVars>>

HubNext ==
    \/ \E t \in Task, a \in Attempt :
          HubLease(t, a) \/ SessionStep(t, a) \/ HeartbeatFails(t, a) \/ HubStops(t, a)
    \/ \E t \in Task : AgentStep(t)
    \/ OperatorStep
    \/ CreatePlan
    \/ \E e \in Execution : ExternalStep(e)
    \/ ClockStep

HubSpec == HubInit /\ [][HubNext]_hubVars

(***************************************************************************)
(* Goroutines run, calls return and time passes.                            *)
(***************************************************************************)
FairHubSpec ==
    /\ HubSpec
    /\ \A t \in Task, a \in Attempt : WF_hubVars(SessionStep(t, a))
    /\ \A e \in Execution :
          WF_hubVars(DeadlinePasses(e) /\ UNCHANGED <<leaseVars, workerVars>>)

-----------------------------------------------------------------------------
(* Properties.                                                              *)

(***************************************************************************)
(* ADR-0052: after a restart the hub "never invokes that execution again".  *)
(* The webhook request of an execution is sent by the one attempt that      *)
(* claimed the dispatch, however many workers hold, lose and reclaim the    *)
(* lease, and also when the answer to the claim was lost.                   *)
(***************************************************************************)
SentByClaimantOnly ==
    \A e \in Execution :
        /\ \A a, b \in senders[e] : a = b
        /\ senders[e] # {} => dispatches[e] = 1

(***************************************************************************)
(* A callback-mode step that the worker recorded as succeeded has a         *)
(* successful execution behind it, although the worker decides on a copy of *)
(* the execution that callbacks and the deadline may have overtaken.        *)
(***************************************************************************)
SucceededStepWasDeployed ==
    \A e \in Execution :
        stepStatus[TaskOf(e)][e[2]] = "SUCCEEDED" => execution[e] = "SUCCEEDED"

(***************************************************************************)
(* Every session ends, and returns its slot of the worker's capacity: none  *)
(* waits for a callback for ever.                                           *)
(***************************************************************************)
SessionsEnd ==
    \A t \in Task, a \in Attempt :
        session[t][a].pc \in Busy ~> session[t][a].pc = "done"

(***************************************************************************)
(* What worker_test.go asks for ("successful callback was overwritten by    *)
(* transport error"): the step of an execution that succeeded is not        *)
(* recorded as failed.                                                      *)
(***************************************************************************)
SuccessfulCallbackHonored ==
    \A e \in Execution :
        execution[e] = "SUCCEEDED" => stepStatus[TaskOf(e)][e[2]] # "FAILED"

(***************************************************************************)
(* What FORK_DIFF_INDEX.md says of callback mode: the step remains running  *)
(* "until an authenticated external executor reports a terminal result", so *)
(* a dispatched execution that has not ended has no failed step.            *)
(***************************************************************************)
RunningUntilTerminalResult ==
    \A e \in Execution :
        execution[e] = "RUNNING" => stepStatus[TaskOf(e)][e[2]] # "FAILED"
=============================================================================
