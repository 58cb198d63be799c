------------------------------ MODULE MCAgent ------------------------------
(***************************************************************************)
(* What the Docker agent does for a task, each part on its own: part says   *)
(* which of them a behaviour runs.                                          *)
(*   "task":    one task of three steps, a compose deployment, a webhook    *)
(*              and an action the agent does not know, in two attempts;     *)
(*   "webhook": two executions against an allowed host whose circuit is     *)
(*              half open, an allowed host trusted with private addresses   *)
(*              and one that is not allowed, with limits of one;            *)
(*   "job":     three attempts at an OCI job with secrets;                  *)
(*   "file":    a file render with a backup over no file, a private or a    *)
(*              public one, executed twice, with a foreign process that     *)
(*              changes two paths meanwhile.                                *)
(***************************************************************************)
EXTENDS AgentWorker, WebhookRun, OciJob, FileRender, TLC

CONSTANTS p1, t1, sa, sb, sc, r1, r2, h, g, x, pub, loop, a, b, c

VARIABLE part

MCPlanTargets == [p \in Plan |-> <<t1>>]
MCPlanComponents == [p \in Plan |-> {}]
MCSortKey == (<<"deployment_target", t1>> :> 1)
MCPlanSteps == [p \in Plan |-> Step]
MCLocation == [s \in Step |-> "target"]
MCDependencies == (sa :> {}) @@ (sb :> {sa}) @@ (sc :> {sa, sb})
MCActionType == (sa :> "compose") @@ (sb :> "webhook") @@ (sc :> "other")

(* The attempts at a job are alike.                                         *)
MCSymmetry == Permutations(Proc)

(* A part that does not run stays in one of its initial states.              *)
MCInit ==
    /\ part \in {"task", "webhook", "job", "file"}
    /\ AgentInit /\ WebhookInit /\ JobInit /\ RenderInit
    /\ part # "task" => \A p \in Plan : published[p] /\ planStatus[p] = "READY"
    /\ part # "webhook" => \A r \in Run : host[r] = h
    /\ part # "job" => ctr = "absent" /\ code /\ ~lax /\ creating = NoProc
    /\ part # "file" => inode = <<>>
    /\ inode # <<>> => inode[1].mode \in {{"owner"}, {"owner", "group", "other"}}

MCNext ==
    /\ UNCHANGED part
    /\ \/ part = "task" /\ AgentNext /\ UNCHANGED <<webhookVars, jobVars, renderVars>>
       \/ part = "webhook" /\ WebhookNext /\ UNCHANGED <<agentVars, jobVars, renderVars>>
       \/ part = "job" /\ JobNext /\ UNCHANGED <<agentVars, webhookVars, renderVars>>
       \/ part = "file" /\ RenderNext /\ UNCHANGED <<agentVars, webhookVars, jobVars>>

MCSpec == MCInit /\ [][MCNext]_<<part, agentVars, webhookVars, jobVars, renderVars>>
=============================================================================
