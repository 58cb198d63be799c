--------------------------- MODULE DeploymentPlans ---------------------------
(***************************************************************************)
(* Deployment plans: what a release would do to some targets, frozen when   *)
(* the plan is made, and checked again before tasks are created             *)
(* (internal/db/deployment_plans.go, deployment_preflight.go,               *)
(* internal/deploymentpreflight, internal/lifecycle).                       *)
(*                                                                          *)
(* One release bundle, one environment, one component.  Making a plan reads *)
(* in several statements under READ COMMITTED; executing it locks what it   *)
(* looks at, in the order targets, component states, release bundle.        *)
(*                                                                          *)
(* A content is [contract, steps, values]: the contract (or Nil) is         *)
(* [platform, version, provides, requires]; a step is [key, action,         *)
(* location, channels, environments, valid, refs]; values gives each target *)
(* what its required variables resolve to.                                  *)
(***************************************************************************)
EXTENDS Naturals, FiniteSets

CONSTANTS
    Target, Plan, Session, Nil,
    Contents,       \* contents of the bundle
    PhaseLists,     \* phases of the lifecycle: sequences of [envs, optional, approval]
    Attributes,     \* [type, platform, customer] a target may have
    Reports,        \* sets of actions an agent may report, or Nil
    Registry,       \* action types of the registry
    Channel, Environment, \* the bundle's channel and the plan's environment
    MaxVersion      \* versions of the component's state

VARIABLES
    bundle,    \* [status, content, snapshot]
    phases,    \* phases of the channel's lifecycle
    target,    \* attributes of each target
    state,     \* version of the component's state on each target, 0 for none
    report,    \* the agent's capability report for each target
    plan,      \* plans, or Nil
    failed,    \* plans with a failed preflight run
    tx         \* transaction of each session

vars == <<bundle, phases, target, state, report, plan, failed, tx>>

Idle == [op |-> "idle"]
Ends(s) == tx' = [tx EXCEPT ![s] = Idle]
Goes(s, t) == tx' = [tx EXCEPT ![s] = t]
World == <<bundle, phases, target, state, report>>

Init ==
    /\ \E c \in Contents : bundle = [status |-> "DRAFT", content |-> c, snapshot |-> Nil]
    /\ phases \in PhaseLists
    /\ target \in [Target -> Attributes] /\ state = [t \in Target |-> 0]
    /\ report \in [Target -> Reports]
    /\ plan = [p \in Plan |-> Nil] /\ failed = {}
    /\ tx = [s \in Session |-> Idle]

-----------------------------------------------------------------------------
(* Promotion eligibility.  No record of earlier deployments counts: a phase  *)
(* that is not optional blocks the ones after it, and an approval policy     *)
(* blocks its phase.                                                         *)

TargetPhase == {i \in DOMAIN phases : Environment \in phases[i].envs}
FirstPhase == CHOOSE i \in TargetPhase : \A j \in TargetPhase : i <= j

Explain ==
    (IF bundle.status = "PUBLISHED" THEN {} ELSE {"release_not_published"})
    \cup IF TargetPhase = {} THEN {"environment_not_in_lifecycle"}
         ELSE (IF \A i \in 1..(FirstPhase - 1) : phases[i].optional
               THEN {} ELSE {"required_prior_phase_incomplete"})
              \cup (IF phases[FirstPhase].approval THEN {"approval_required"} ELSE {})

-----------------------------------------------------------------------------
(* Making a plan.                                                            *)

Blocker(condition, code) == IF condition THEN {code} ELSE {}

deploymentPlanStepExcludedReason(x) ==
    \/ x.channels # {} /\ Channel \notin x.channels
    \/ x.environments # {} /\ Environment \notin x.environments
Included(c) == {x \in c.steps : ~deploymentPlanStepExcludedReason(x)}

validateDeploymentPlanStepCondition(x, keys) == x.refs \subseteq keys

addDeploymentPlanSteps(c) ==
    Blocker(\E x \in c.steps : x.action \notin Registry, "unknown_action_type")
    \cup Blocker(\E x \in c.steps : x.action \in Registry /\ ~x.valid, "invalid_action_input")
    \cup Blocker(\E x \in c.steps : ~validateDeploymentPlanStepCondition(x, {y.key : y \in c.steps}),
                 "invalid_step_condition")
    \cup Blocker(c.steps # {} /\ Included(c) = {}, "no_applicable_steps")

addDeploymentPlanTargetResolvedVariables(c, ts) ==
    IF \E t, u \in ts : c.values[t] # c.values[u]
    THEN {"target_scoped_variables_require_separate_plans"}
    ELSE Blocker(\E t \in ts : c.values[t] = "unresolved", "required_variable_unresolved")

addDeploymentPlanSnapshotData_Fault(c, snapshot, ts) ==
    addDeploymentPlanSteps(c) \cup addDeploymentPlanTargetResolvedVariables(c, ts)
addDeploymentPlanSnapshotData(c, snapshot, ts) ==
    addDeploymentPlanSteps(c)
    \cup IF snapshot = Nil THEN {"missing_variable_snapshot"}
         ELSE addDeploymentPlanTargetResolvedVariables(c, ts)

addDeploymentPlanReleaseContractIssues(c) ==
    Blocker(c.contract = Nil /\ \E x \in Included(c) : x.location = "hub" /\ x.action = "distr.webhook",
            "missing_release_contract")

addDeploymentPlanTargetPlatformIssues(c, attrs) ==
    Blocker(c.contract # Nil /\ \E t \in DOMAIN attrs : attrs[t].platform # c.contract.platform,
            "target_platform_mismatch")

deploymentPlanStepRunsOnTarget(x) == x.location = "target"

(* A target without a report is not held against the plan.                   *)
addDeploymentPlanAgentCapabilityIssues(c, ts) ==
    Blocker(\E t \in ts, x \in Included(c) :
                deploymentPlanStepRunsOnTarget(x) /\ report[t] # Nil /\ x.action \notin report[t],
            "agent_action_unsupported")

deploymentPlanHasBlockers(issues) == issues # {}

(* The bundle is read first, and targets and states after it.                *)
resolveDeploymentPlan(s, p, ts) ==
    /\ tx[s] = Idle /\ plan[p] = Nil /\ ts # {}
    /\ \A o \in Session : tx[o] # Idle => tx[o].plan # p
    /\ Goes(s, [op |-> "targets", plan |-> p, asked |-> ts, bundle |-> bundle])
    /\ UNCHANGED <<World, plan, failed>>

resolveDeploymentPlanTargets(s) ==
    /\ tx[s].op = "targets"
    /\ Goes(s, [op |-> "components", plan |-> tx[s].plan, bundle |-> tx[s].bundle,
                targets |-> [t \in tx[s].asked |-> target[t]], expected |-> [t \in {} |-> 0]])
    /\ UNCHANGED <<World, plan, failed>>

(* One state after the other, for a contract only.                           *)
resolveDeploymentPlanTargetComponents(s) ==
    LET left == DOMAIN tx[s].targets \ DOMAIN tx[s].expected IN
    /\ tx[s].op = "components"
    /\ IF tx[s].bundle.content.contract = Nil \/ left = {}
       THEN Goes(s, [tx[s] EXCEPT !.op = "eligibility"])
       ELSE \E t \in left : Goes(s, [tx[s] EXCEPT !.expected =
                [u \in DOMAIN @ \cup {t} |-> IF u = t THEN state[t] ELSE @[u]]])
    /\ UNCHANGED <<World, plan, failed>>

(* What is stored of the steps and the variables: which steps apply, and the *)
(* values the targets agree on.                                              *)
insertDeploymentPlanSteps(c) == [x \in c.steps |-> x \in Included(c)]
insertDeploymentPlanVariables(c, snapshot, ts) ==
    IF snapshot = Nil THEN {} ELSE LET V == {c.values[t] : t \in ts} IN IF Cardinality(V) = 1 THEN V ELSE {}

(* The bundle is read again: the issues are about this reading.              *)
addDeploymentPlanEligibilityBlockers(s) ==
    /\ tx[s].op = "eligibility"
    /\ Goes(s, [op |-> "insert", plan |-> tx[s].plan, bundle |-> tx[s].bundle,
                targets |-> tx[s].targets, expected |-> tx[s].expected, issues |-> Explain])
    /\ UNCHANGED <<World, plan, failed>>

canonicalizeDeploymentPlan(x) == [x EXCEPT !.status = Nil, !.payload = Nil]

insertDeploymentPlan(s) ==
    LET b == tx[s].bundle
        ts == DOMAIN tx[s].targets
        issues == tx[s].issues \cup addDeploymentPlanSnapshotData(b.content, b.snapshot, ts)
                  \cup addDeploymentPlanReleaseContractIssues(b.content)
                  \cup addDeploymentPlanTargetPlatformIssues(b.content, tx[s].targets)
                  \cup addDeploymentPlanAgentCapabilityIssues(b.content, ts)
        new == [status |-> IF deploymentPlanHasBlockers(issues) THEN "BLOCKED" ELSE "READY",
                payload |-> Nil, content |-> b.content, snapshot |-> b.snapshot,
                targets |-> tx[s].targets, expected |-> tx[s].expected,
                steps |-> insertDeploymentPlanSteps(b.content), issues |-> issues,
                variables |-> insertDeploymentPlanVariables(b.content, b.snapshot, ts)]
    IN /\ tx[s].op = "insert"
       /\ plan' = [plan EXCEPT ![tx[s].plan] = [new EXCEPT !.payload = canonicalizeDeploymentPlan(new)]]
       /\ Ends(s) /\ UNCHANGED <<World, failed>>

-----------------------------------------------------------------------------
(* Executing a plan: the preflight and, if it passes, the tasks.             *)

getDeploymentPlan(o) == plan[tx[o].plan]
getDeploymentPlanTargets(o) == DOMAIN getDeploymentPlan(o).targets

LocksTargets(o) == IF tx[o].op \in {"states", "release", "tasks"} THEN getDeploymentPlanTargets(o) ELSE {}
LocksStates(o) == IF tx[o].op \in {"release", "tasks"}
                  THEN {t \in getDeploymentPlanTargets(o) : tx[o].states[t] # 0} ELSE {}
LocksBundle(o) == tx[o].op = "tasks"

ExecuteDeploymentPlan(s, p) ==
    /\ tx[s] = Idle /\ plan[p] # Nil /\ plan[p].status = "READY"
    /\ \A o \in Session : tx[o] # Idle => tx[o].plan # p
    /\ \A o \in Session : LocksTargets(o) \cap DOMAIN plan[p].targets = {}
    /\ Goes(s, [op |-> "states", plan |-> p, live |-> [t \in DOMAIN plan[p].targets |-> target[t]]])
    /\ UNCHANGED <<World, plan, failed>>

getDeploymentPreflightStates(s) ==
    /\ tx[s].op = "states"
    /\ Goes(s, [op |-> "release", plan |-> tx[s].plan, live |-> tx[s].live,
                states |-> [t \in DOMAIN tx[s].live |-> state[t]]])
    /\ UNCHANGED <<World, plan, failed>>

deploymentPlanCanonicalStateValid(x) == x.payload = canonicalizeDeploymentPlan(x)
versionAtLeast(v, minimum) == v >= minimum

(* What a requirement finds: the candidate of this plan, or what is observed *)
(* on the target.  Here a state's version is the release it was made by.     *)
requirementCheck(x, q, observed) ==
    IF q.candidate THEN versionAtLeast(x.content.contract.version, q.minimum) /\ q.contract \in x.content.contract.provides
    ELSE observed # 0 /\ versionAtLeast(observed, q.minimum)

componentCheck(x, t, live, observed) ==
    /\ live.platform = x.targets[t].platform /\ live.platform = x.content.contract.platform
    /\ observed = x.expected[t]

targetCheck(x, t, live) == live.type = x.targets[t].type /\ live.customer = x.targets[t].customer

Evaluate(x, eligible, contractValid, live, states) ==
    /\ deploymentPlanCanonicalStateValid(x) /\ eligible
    /\ \A t \in DOMAIN x.targets : targetCheck(x, t, live[t])
    /\ x.content.contract # Nil =>
          /\ contractValid
          /\ \A t \in DOMAIN x.targets :
                /\ componentCheck(x, t, live[t], states[t])
                /\ \A q \in x.content.contract.requires : requirementCheck(x, q, states[t])

(* The bundle is locked, its eligibility read, and the checks evaluated.  A  *)
(* failed run is kept and nothing else happens.                              *)
getDeploymentPreflightReleaseFacts(s) ==
    LET x == getDeploymentPlan(s) IN
    /\ tx[s].op = "release"
    /\ \A o \in Session \ {s} : ~LocksBundle(o)
    /\ IF Evaluate(x, Explain = {}, x.content.contract = bundle.content.contract,
                   tx[s].live, tx[s].states)
       THEN Goes(s, [tx[s] EXCEPT !.op = "tasks"]) /\ UNCHANGED failed
       ELSE Ends(s) /\ failed' = failed \cup {tx[s].plan}
    /\ UNCHANGED <<World, plan>>

attachDeploymentPreflightTasks(s) ==
    /\ tx[s].op = "tasks"
    /\ plan' = [plan EXCEPT ![tx[s].plan].status = "EXECUTED"]
    /\ Ends(s) /\ UNCHANGED <<World, failed>>

Rollback(s) == tx[s] # Idle /\ Ends(s) /\ UNCHANGED <<World, plan, failed>>

-----------------------------------------------------------------------------
(* What others do meanwhile.                                                 *)

BundleFree == \A o \in Session : ~LocksBundle(o)

UpdateReleaseBundle(c) ==
    /\ BundleFree /\ bundle.status = "DRAFT"
    /\ bundle' = [bundle EXCEPT !.content = c]
    /\ UNCHANGED <<phases, target, state, report, plan, failed, tx>>

PublishReleaseBundle ==
    /\ BundleFree /\ bundle.status = "DRAFT"
    /\ bundle' = [bundle EXCEPT !.status = "PUBLISHED", !.snapshot = bundle.content.values]
    /\ UNCHANGED <<phases, target, state, report, plan, failed, tx>>

BlockReleaseBundle ==
    /\ BundleFree /\ bundle.status = "PUBLISHED"
    /\ bundle' = [bundle EXCEPT !.status = "BLOCKED"]
    /\ UNCHANGED <<phases, target, state, report, plan, failed, tx>>

ReplaceLifecyclePhases(ps) ==
    phases' = ps /\ UNCHANGED <<bundle, target, state, report, plan, failed, tx>>

UpdateDeploymentTarget(t, a) ==
    /\ \A o \in Session : t \notin LocksTargets(o)
    /\ target' = [target EXCEPT ![t] = a]
    /\ UNCHANGED <<bundle, phases, state, report, plan, failed, tx>>

(* A deployment of the component by another plan: a new state refers to its  *)
(* target and waits for the target's lock, a later one for the state's.      *)
upsertTargetComponentState_Fault(t) ==
    /\ state[t] < MaxVersion
    /\ \A o \in Session : t \notin LocksStates(o)
    /\ state' = [state EXCEPT ![t] = @ + 1]
    /\ UNCHANGED <<bundle, phases, target, report, plan, failed, tx>>
upsertTargetComponentState(t) ==
    /\ state[t] < MaxVersion
    /\ \A o \in Session : t \notin IF state[t] = 0 THEN LocksTargets(o) ELSE LocksStates(o)
    /\ state' = [state EXCEPT ![t] = @ + 1]
    /\ UNCHANGED <<bundle, phases, target, report, plan, failed, tx>>

UpsertAgentCapabilityReport(t, r) ==
    /\ report' = [report EXCEPT ![t] = r]
    /\ UNCHANGED <<bundle, phases, target, state, plan, failed, tx>>

Next ==
    \/ \E s \in Session :
          \/ \E p \in Plan, ts \in SUBSET Target : resolveDeploymentPlan(s, p, ts)
          \/ resolveDeploymentPlanTargets(s) \/ resolveDeploymentPlanTargetComponents(s)
          \/ addDeploymentPlanEligibilityBlockers(s) \/ insertDeploymentPlan(s)
          \/ \E p \in Plan : ExecuteDeploymentPlan(s, p)
          \/ getDeploymentPreflightStates(s) \/ getDeploymentPreflightReleaseFacts(s)
          \/ attachDeploymentPreflightTasks(s) \/ Rollback(s)
    \/ \E c \in Contents : UpdateReleaseBundle(c)
    \/ PublishReleaseBundle \/ BlockReleaseBundle
    \/ \E ps \in PhaseLists : ReplaceLifecyclePhases(ps)
    \/ \E t \in Target :
          \/ \E a \in Attributes : UpdateDeploymentTarget(t, a)
          \/ upsertTargetComponentState(t)
          \/ \E r \in Reports : UpsertAgentCapabilityReport(t, r)

Spec == Init /\ [][Next]_vars

-----------------------------------------------------------------------------
(***************************************************************************)
(* A plan that is ready, or was, is a plan for what has been published: the *)
(* bundle it was made from is released and has the plan's contents and      *)
(* variables, although the bundle is read twice and may have been updated   *)
(* and published in between.                                                *)
(***************************************************************************)
ReadyPlansAreOfTheRelease ==
    \A p \in Plan : (plan[p] # Nil /\ plan[p].status \in {"READY", "EXECUTED"}) =>
        /\ bundle.status # "DRAFT"
        /\ plan[p].content = bundle.content /\ plan[p].snapshot = bundle.snapshot

(***************************************************************************)
(* When tasks are created the release is published, the targets are those   *)
(* the plan has frozen, and the component is where the plan saw it: nothing *)
(* that was checked can change before the tasks are there.                  *)
(***************************************************************************)
TasksOnCheckedGround ==
    [][\A p \in Plan :
         (plan[p] # Nil /\ plan[p].status = "READY" /\ plan'[p].status = "EXECUTED") =>
            /\ bundle.status = "PUBLISHED"
            /\ \A t \in DOMAIN plan[p].targets : targetCheck(plan[p], t, target[t])
            /\ plan[p].content.contract # Nil =>
                  \A t \in DOMAIN plan[p].targets : componentCheck(plan[p], t, target[t], state[t])]_vars
=============================================================================
