------------------------------ MODULE MCStores ------------------------------
(***************************************************************************)
(* Small instances of the two stores behind the hub and the agents.         *)
(*                                                                          *)
(* Of TaskLeases: the first plan has a target step sa, a hub step sb and a  *)
(* skipped step sx; sb depends on the skipped step only, so that agent and  *)
(* hub may both have work at the same time.  The second plan is for the     *)
(* same target and its only step is skipped, so that only an operator       *)
(* starts and ends it.  LeaseBound: three attempts are explored for the     *)
(* first plan alone, two with the second plan beside it.                    *)
(*                                                                          *)
(* Of ExternalExecution: plan p1 deploys two components of target t1 by two *)
(* webhook steps; plan p2 competes for the first.  ExecBound keeps the two  *)
(* apart: a history is explored in full for one plan, and while both plans  *)
(* exist for their race on the first component.                             *)
(***************************************************************************)
EXTENDS TaskLeases, ExternalExecution, TLC

CONSTANTS p1, p2, t1, c1, c2, sa, sb, sx, w1, w2

MCPlanTargets == [p \in Plan |-> <<t1>>]
MCPlanComponents ==
    [p \in Plan |-> {tc \in TargetComponent : p = p1 \/ tc[2] = c1}]
MCSortKey ==
    [r \in Resource |->
       IF r = TargetLock(t1) THEN 1 ELSE IF r = ComponentLock(t1, c1) THEN 2 ELSE 3]

MCPlanSteps == [p \in Plan |-> IF p = p1 THEN Step ELSE {sx} \cap Step]
MCLocation == [s \in Step |-> IF s = sa THEN "target" ELSE "hub"]
MCDependencies == [s \in Step |-> IF s = sb THEN {sx} \cap Step ELSE {}]

(* For the polls: both plans have the same step.                            *)
MCSamePlanSteps == [p \in Plan |-> Step]

MCPlanWebhooks == [p \in Plan |-> IF p = p1 THEN Webhook ELSE {w1} \cap Webhook]
MCWebhookComponent == [w \in Webhook |-> IF w = w1 THEN c1 ELSE c2]

-----------------------------------------------------------------------------
(* Each store on its own: the other one stays as it was.                    *)

StoresInit == Init /\ ExecInit
LeaseStep == Next /\ UNCHANGED execVars
ExecStep == ExecNext /\ UNCHANGED leaseVars

LeaseRun == StoresInit /\ [][LeaseStep]_<<vars, execVars>>
PollRun == LeaseRun /\ PollersPersist
ExecRun == StoresInit /\ [][ExecStep]_<<vars, execVars>>

LeaseBound ==
    /\ published[p2] /\ planStatus[p2] = "READY"
    /\ preflight[p2] # "NONE" => lease[<<p1, t1>>][3] = "NONE"

ExecBound ==
    p2 \in planned =>
      \A e \in Execution : /\ e[2] = w2 => execution[e] = "NONE"
                           /\ Len(callbacks[e]) <= 1
=============================================================================
