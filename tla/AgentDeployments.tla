--------------------------- MODULE AgentDeployments ---------------------------
(***************************************************************************)
(* The deployments that the hub wants on a Docker target and the agent's    *)
(* poll loop that brings them about (cmd/agent/docker/main.go,              *)
(* docker_actions.go, agent_deployment.go), with the records the agent      *)
(* keeps in files.  A record is truncated before it is written; the write   *)
(* may fail and the agent may die in between.  The daemon keeps what was    *)
(* last brought up under a project name.                                    *)
(***************************************************************************)
EXTENDS Naturals, FiniteSets

CONSTANTS
    Deployment,   \* deployments of the hub, each with its own project name
    TaskRecord,   \* records that the compose action of a task has left
    Revision,
    NoRevision

Record == Deployment \cup TaskRecord
NoRecord == [state |-> "none", rev |-> NoRevision]
Torn == [state |-> "torn", rev |-> NoRevision]

VARIABLES
    desired,   \* the hub's resource: a revision per deployment, or NoRevision
    record,    \* the record file of each deployment
    running,   \* the revision that runs; "mixed" after a failed or interrupted apply,
               \* "partial" when an uninstall has removed some of its containers
    seen,      \* what the poll under way read: the records, or "error"
    want,      \* the resource of the poll under way
    todo, pc, cur,
    unsaved    \* deployments whose record could not be set to progressing

vars == <<desired, record, running, seen, want, todo, pc, cur, unsaved>>

Init ==
    /\ desired = [d \in Deployment |-> NoRevision]
    /\ record = [d \in Record |-> IF d \in TaskRecord
                                   THEN [state |-> "ready", rev |-> NoRevision] ELSE NoRecord]
    /\ running = [d \in Record |-> IF d \in TaskRecord THEN "task" ELSE NoRevision]
    /\ seen = {} /\ want = desired /\ todo = {} /\ pc = "poll" /\ cur = NoRevision
    /\ unsaved = {}

Idle == pc = "poll"

(* The hub's side: a deployment is created, moved to a revision or deleted.  *)
SetResource(d, r) ==
    /\ desired' = [desired EXCEPT ![d] = r] /\ desired' # desired
    /\ UNCHANGED <<record, running, seen, want, todo, pc, cur, unsaved>>

(* client.Resource, then GetExistingDeployments: one torn file makes the     *)
(* whole read fail, nothing is cleaned up and no record is known.            *)
GetExistingDeployments ==
    IF \E d \in Record : record[d].state = "torn" THEN {}
    ELSE {d \in Record : record[d].state # "none"}

shouldCleanupDeployment(d) == d \in Deployment /\ desired[d] = NoRevision

Poll ==
    /\ Idle
    /\ want' = desired /\ seen' = GetExistingDeployments
    /\ todo' = {d \in GetExistingDeployments : shouldCleanupDeployment(d)}
    /\ pc' = "cleanup"
    /\ UNCHANGED <<desired, record, running, cur, unsaved>>

(* cleanupOldDeployments: the record goes also when the containers could not *)
(* be removed, or only some of them; its own removal may fail.               *)
Uninstalled(v) == {v, NoRevision} \cup IF v \in Revision THEN {"partial"} ELSE {}

cleanupOldDeployments(d) ==
    /\ pc = "cleanup" /\ d \in todo
    /\ todo' = todo \ {d}
    /\ \E v \in Uninstalled(running[d]) : running' = [running EXCEPT ![d] = v]
    /\ record' \in {record, [record EXCEPT ![d] = NoRecord]}
    /\ UNCHANGED <<desired, seen, want, pc, cur, unsaved>>

CleanedUp ==
    /\ pc = "cleanup" /\ todo = {}
    /\ todo' = {d \in Deployment : want[d] # NoRevision} /\ pc' = "deploy"
    /\ UNCHANGED <<desired, record, running, seen, want, cur, unsaved>>

(* A deployment is applied unless its record is that of the wanted revision  *)
(* and ready; then its containers are only looked at.  Without registry      *)
(* access it is left alone in this poll.                                     *)
Outdated_Fault(r, rev) == r.rev # rev \/ r.state = "failed"
Outdated(r, rev) == r.rev # rev \/ r.state \in {"failed", "progressing"}
NeedsApply(d) == d \notin seen \/ Outdated(record[d], want[d])

CheckStatus(d) ==
    /\ pc = "deploy" /\ d \in todo
    /\ todo' = todo \ {d}
    /\ UNCHANGED <<desired, record, running, seen, want, pc, cur, unsaved>>

(* SaveDeployment: written, not even opened, or torn.                        *)
SaveDeployment(d, s) ==
    \E r \in {record[d], Torn, [state |-> s, rev |-> want[d]]} :
        /\ record' = [record EXCEPT ![d] = r]
        /\ unsaved' = IF s = "progressing" /\ r = record[d] THEN unsaved \cup {d}
                      ELSE IF r # record[d] THEN unsaved \ {d} ELSE unsaved

DockerEngineApply(d) ==
    /\ pc = "deploy" /\ d \in todo /\ NeedsApply(d)
    /\ SaveDeployment(d, "progressing")
    /\ cur' = d /\ pc' = "apply" /\ todo' = todo \ {d}
    /\ UNCHANGED <<desired, running, seen, want>>

ApplyComposeFile(ok) ==
    /\ pc = "apply"
    /\ running' = [running EXCEPT ![cur] = IF ok THEN want[cur] ELSE "mixed"]
    /\ pc' = IF ok THEN "applied" ELSE "failed"
    /\ UNCHANGED <<desired, record, seen, want, todo, cur, unsaved>>

SaveResult ==
    /\ pc \in {"applied", "failed"}
    /\ SaveDeployment(cur, IF pc = "applied" THEN "ready" ELSE "failed")
    /\ pc' = "deploy" /\ cur' = NoRevision
    /\ UNCHANGED <<desired, running, seen, want, todo>>

PollEnds ==
    /\ pc = "deploy" /\ todo = {}
    /\ pc' = "poll" /\ seen' = {}
    /\ UNCHANGED <<desired, record, running, want, todo, cur, unsaved>>

(* The agent dies, in the middle of an apply or of a write too.              *)
Crash ==
    /\ ~Idle
    /\ pc' = "poll" /\ todo' = {} /\ seen' = {} /\ cur' = NoRevision
    /\ \/ pc = "apply" /\ running' = [running EXCEPT ![cur] = "mixed"]
       \/ UNCHANGED running
    /\ \/ pc \in {"applied", "failed"} /\ record' = [record EXCEPT ![cur] = Torn]
          /\ unsaved' = unsaved \ {cur}
       \/ UNCHANGED <<record, unsaved>>
    /\ UNCHANGED <<desired, want>>

Next ==
    \/ \E d \in Deployment, r \in Revision \cup {NoRevision} : SetResource(d, r)
    \/ Poll \/ CleanedUp \/ SaveResult \/ PollEnds \/ Crash
    \/ \E d \in Record : cleanupOldDeployments(d)
    \/ \E d \in Deployment : CheckStatus(d) \/ DockerEngineApply(d)
    \/ \E ok \in BOOLEAN : ApplyComposeFile(ok)

Spec == Init /\ [][Next]_vars

-----------------------------------------------------------------------------
(***************************************************************************)
(* A record that makes the agent leave a deployment alone tells the truth:  *)
(* its containers run the recorded revision in full, wherever the agent     *)
(* died and whichever write failed, unless the write that should have       *)
(* marked the apply as progressing left the old record in place.  (Less or  *)
(* nothing may run, after an uninstall whose record could not be removed.)  *)
(***************************************************************************)
LeftAloneMeansRunning ==
    \A d \in Deployment, r \in Revision :
        record[d].state \notin {"none", "torn"} /\ ~Outdated(record[d], r) /\ d \notin unsaved
          => running[d] \in {r, "partial", NoRevision}

(***************************************************************************)
(* The poll loop neither uninstalls nor forgets what a task has deployed.   *)
(***************************************************************************)
TaskDeploymentsKept ==
    \A d \in TaskRecord : running[d] = "task" /\ record[d].state = "ready"
=============================================================================
