----------------------------- MODULE AgentWorker -----------------------------
(***************************************************************************)
(* How the Docker agent of one deployment target executes leased tasks:     *)
(* the main loop's poll and executeTaskLease with the steps of each action  *)
(* (cmd/agent/docker/main.go, compose_action.go, webhook_action.go), on top *)
(* of the hub's leases and step events.                                     *)
(*                                                                          *)
(* The agent is one sequential process.  It may die at any point and starts *)
(* again without memory; the client makes every call once, and a call may   *)
(* fail before or after its effect on the hub.                              *)
(***************************************************************************)
EXTENDS TaskLeases, FiniteSets

CONSTANTS
    ActionType,    \* of each step: "compose", "webhook" or "other"
    MaxProgress,   \* bound on the status updates of a compose deployment
    MaxTries,      \* retry.maxAttempts of a webhook
    NoStep, NoTask

VARIABLES
    work,      \* what the agent process is at
    sent,      \* webhook requests sent, per task, step and attempt
    applied    \* attempts at a step whose deployment was applied in full

agentVars == <<vars, work, sent, applied>>

Polling == [pc |-> "poll", task |-> NoTask, attempt |-> 0, todo |-> {}, step |-> NoStep,
            sequence |-> 0, tries |-> 0]

AgentInit ==
    /\ Init
    /\ work = Polling
    /\ sent = [t \in Task |-> [s \in Step |-> [a \in Attempt |-> 0]]]
    /\ applied = [t \in Task |-> [s \in Step |-> {}]]

At(pc) == work.pc = pc
T == work.task
S == work.step
A == work.attempt
With(pc) == [work EXCEPT !.pc = pc]
Spent(pc) == [With(pc) EXCEPT !.sequence = @ + 1]   \* sequence++ before the call

NoEffect == UNCHANGED <<sent, applied>>
NoCall == UNCHANGED vars

-----------------------------------------------------------------------------
(* client.LeaseTask: the answer, with the steps of the batch in the order of *)
(* their dependencies, may be lost.                                          *)
Begins(t) ==
    \E a \in Attempt :
        /\ lease[t][a] = "NONE" /\ lease'[t][a] = "LIVE"
        /\ work' = [Polling EXCEPT !.pc = "next", !.task = t, !.attempt = a,
                      !.todo = readyTaskLeaseStepCandidates(stepStatus'[t], "target")]

Poll(t) ==
    /\ At("poll")
    /\ LeaseTask(t, "agent")
    /\ Begins(t) \/ UNCHANGED work
    /\ NoEffect

(* executeTaskLease: a heartbeat before each step.                          *)
NextSteps(U) == {s \in U : Dependencies[s] \cap U = {}}

HeartbeatTaskLease(s) ==
    /\ At("next") /\ s \in NextSteps(work.todo)
    /\ \/ /\ LeaseAccepts(T, A)
          /\ work' = [work EXCEPT !.pc = IF ActionType[s] = "webhook" THEN "replay" ELSE "start",
                                  !.step = s, !.todo = @ \ {s}, !.sequence = 0, !.tries = 0]
       \/ work' = Polling
    /\ NoCall /\ NoEffect

LeaseExecuted ==
    /\ At("next") /\ work.todo = {}
    /\ work' = Polling
    /\ NoCall /\ NoEffect

(* webhookReplayResult: the hub's timeline of the step under this lease      *)
(* (GetTaskTimelineForLease).  Success is not repeated, anything else that   *)
(* was recorded is refused without an event.                                 *)
GetTaskTimelineForLease == events[T][S][A]

Has(timeline, ty) == \E i \in DOMAIN timeline : timeline[i] = ty

webhookReplayResult ==
    /\ At("replay")
    /\ \/ GetTaskTimelineForLease = <<>> /\ work' = With("start")
       \/ Has(GetTaskTimelineForLease, "SUCCEEDED") /\ work' = With("next")
       \/ work' = Polling   \* the call failed, or something else was recorded
    /\ NoCall /\ NoEffect

-----------------------------------------------------------------------------
(* recordStepEvent: on to ok, or with an error to err.                       *)
recordStepEvent(n, ty, ok, err) ==
    \/ /\ n \in 1..MaxEvents /\ RecordStepRunEvent(T, S, A, n, ty)
       /\ work' \in {ok, err}
    \/ NoCall /\ work' = err

(* STARTED.  Inputs that cannot be executed, and an action the agent does   *)
(* not know, fail the step.                                                 *)
StartStep ==
    /\ At("start")
    /\ \E pc \in IF ActionType[S] = "other" THEN {"fail"} ELSE {"run", "fail"} :
          recordStepEvent(1, "STARTED", Spent(pc), Polling)
    /\ NoEffect

(* Compose: the deployment reports its status while it is applied.  If the   *)
(* hub cannot be told, the apply is canceled and the step is left running.   *)
updateStatus ==
    /\ At("run") /\ ActionType[S] = "compose"
    /\ work.sequence <= MaxProgress
    /\ recordStepEvent(work.sequence + 1, "PROGRESS", Spent("run"), Polling)
    /\ NoEffect

apply_Fault ==
    /\ At("run") /\ ActionType[S] = "compose"
    /\ \/ work' = With("succeed") /\ UNCHANGED applied
       \/ work' = With("fail") /\ UNCHANGED applied
    /\ NoCall /\ UNCHANGED sent
apply ==
    /\ At("run") /\ ActionType[S] = "compose"
    /\ \/ /\ applied' = [applied EXCEPT ![T][S] = @ \cup {A}]
          /\ work' = With("succeed")
       \/ work' = With("fail") /\ UNCHANGED applied
    /\ NoCall /\ UNCHANGED sent

(* webhookaction.Run: a progress event before every request.                 *)
emitProgress_Fault ==
    /\ At("run") /\ ActionType[S] = "webhook"
    /\ recordStepEvent(work.sequence + 1, "PROGRESS", Spent("post"), Spent("post"))
    /\ NoEffect
emitProgress ==
    /\ At("run") /\ ActionType[S] = "webhook"
    /\ recordStepEvent(work.sequence + 1, "PROGRESS", Spent("post"), Spent("fail"))
    /\ NoEffect

(* The request is sent; its answer, if there is one, is accepted, retried    *)
(* or an error.                                                              *)
PostWebhook ==
    /\ At("post")
    /\ sent' = [sent EXCEPT ![T][S][A] = @ + 1]
    /\ \/ /\ applied' = [applied EXCEPT ![T][S] = @ \cup {A}]
          /\ work' = With("succeed")
       \/ work' = [With("run") EXCEPT !.tries = @ + 1] /\ work.tries + 1 < MaxTries
          /\ UNCHANGED applied
       \/ work' = With("fail") /\ UNCHANGED applied
    /\ NoCall

(* The heartbeat goroutine of the step found the lease lost, or could not    *)
(* reach the hub; the work is canceled and reported as failed, also when it  *)
(* has just ended.                                                           *)
startTaskLeaseHeartbeat ==
    /\ work.pc \in {"run", "post", "succeed"}
    /\ work' = With("fail")
    /\ NoCall /\ NoEffect

recordFailure ==
    /\ At("fail")
    /\ recordStepEvent(work.sequence + 1, "FAILED", Polling, Polling)
    /\ NoEffect

RecordSuccess ==
    /\ At("succeed")
    /\ recordStepEvent(work.sequence + 1, "SUCCEEDED", With("next"), Polling)
    /\ NoEffect

Crash ==
    /\ ~At("poll")
    /\ work' = Polling
    /\ NoCall /\ NoEffect

AgentStep ==
    \/ \E t \in Task : Poll(t)
    \/ \E s \in Step : HeartbeatTaskLease(s)
    \/ LeaseExecuted \/ webhookReplayResult \/ StartStep
    \/ updateStatus \/ apply \/ emitProgress \/ PostWebhook
    \/ startTaskLeaseHeartbeat \/ recordFailure \/ RecordSuccess

(* What the hub and its operators do in between.                             *)
HubStep ==
    /\ \/ \E p \in Plan, request \in Request : CreatePlanTasks(p, request)
       \/ \E t \in Task : StartTaskByHand(t)
       \/ \E t \in Task, s \in {"SUCCEEDED", "FAILED"} : FinishTaskByHand(t, s)
       \/ \E t \in Task, a \in Attempt : LeaseExpires(t, a)
    /\ UNCHANGED <<work, sent, applied>>

AgentNext == AgentStep \/ Crash \/ HubStep

AgentSpec == AgentInit /\ [][AgentNext]_agentVars

-----------------------------------------------------------------------------
(* Properties.                                                              *)

AgentTypeOK ==
    /\ LeaseTypeOK
    /\ work.pc \in {"poll", "next", "replay", "start", "run", "post", "fail", "succeed"}
    /\ work.todo \subseteq Step /\ work.sequence \in 0..MaxEvents
    /\ sent \in [Task -> [Step -> [Attempt -> Nat]]]
    /\ applied \in [Task -> [Step -> SUBSET Attempt]]

(***************************************************************************)
(* A target step that the hub shows as succeeded was carried out by the     *)
(* attempt that reported it, across lost answers, lost leases, crashes and  *)
(* further attempts.                                                        *)
(***************************************************************************)
SuccessWasCarriedOut ==
    \A t \in Task, s \in Step, a \in Attempt :
        Has(events[t][s][a], "SUCCEEDED") => a \in applied[t][s]

(* The progress events of a timeline.                                       *)
Announced(timeline) == Cardinality({i \in DOMAIN timeline : timeline[i] = "PROGRESS"})

(***************************************************************************)
(* The hub's history accounts for every webhook request: an attempt has     *)
(* sent no more of them than progress events of it are recorded, so no      *)
(* request leaves the agent that the timeline does not show, also when the  *)
(* lease is lost or the hub cannot be reached.                              *)
(***************************************************************************)
RequestsAnnounced ==
    \A t \in Task, s \in Step, a \in Attempt : sent[t][s][a] <= Announced(events[t][s][a])

(***************************************************************************)
(* docs/adr/0031-webhook-idempotent-replay.md: if there are prior           *)
(* non-terminal webhook events for the step run but no SUCCEEDED event, the *)
(* agent fails closed instead of re-sending the external request.           *)
(***************************************************************************)
FailsClosedOnPriorEvents ==
    \A t \in Task, s \in Step : \A a, b \in Attempt :
        sent[t][s][a] > 0 /\ sent[t][s][b] > 0 => a = b
=============================================================================
