----------------------------- MODULE MCPipeline -----------------------------
(***************************************************************************)
(* The way from what an organization configures to a task, one component    *)
(* at a time: part says which of them a behaviour runs.                     *)
(*   "channels":  two requests on three channels of two applications;       *)
(*   "releases":  two requests on two bundles, one of which may contain     *)
(*                the other, with an idempotency key;                       *)
(*   "plans":     one request to plan and execute, two targets, and all     *)
(*                that others change in the meantime;                       *)
(*   "variables": four contents of a variable set, five deployments;        *)
(*   "processes": two requests on a process with two revisions, and what    *)
(*                its steps refer to;                                       *)
(*   "runbooks":  a runbook with two revisions.                             *)
(***************************************************************************)
EXTENDS Channels, TLC

CONSTANTS
    Parts, Nil, e1, e2, c1, c2, c3, a1, a2, l1, s1, s2, b1, b2, k1, t1, t2, p1, av1, av2,
    Bundle, Key, BundleContents, VersionName, RuleSets, MaxEdits,
    Target, Plan, Planner, ReleaseContents, Lifecycles, Attributes, Reports, MaxVersion,
    VariableSets, Deployments, Secret, At, Publication, MaxEdition,
    ProcessChannel, ProcessEnvironment, StepSets, RunbookStepSets, Versions, Registry, MaxRevisions

ASSUME BundlesNamed == Nil \notin Bundle

VARIABLES
    part,
    bundle, key, accepted, rules, edition, bundleTx,
    release, lifecycle, target, state, report, plan, failed, planTx,
    set, history, setByGit, secrets, deployed, snapshotTx, snapshot,
    process, revisions, snapshots, processByGit, templates, channelApp, stepEnvironments, processTx,
    runbook, runbookRevisions, runbookSnapshots, runbookByGit

releaseVars == <<bundle, key, accepted, rules, edition, bundleTx>>
planVars == <<release, lifecycle, target, state, report, plan, failed, planTx>>
variableVars == <<set, history, setByGit, secrets, deployed, snapshotTx, snapshot>>
processVars == <<process, revisions, snapshots, processByGit, templates, channelApp, stepEnvironments, processTx>>
runbookVars == <<runbook, runbookRevisions, runbookSnapshots, runbookByGit>>

Phase(envs, optional, approval) == [envs |-> envs, optional |-> optional, approval |-> approval]

ChanPhases == {<<>>, <<Phase({e1}, TRUE, FALSE), Phase({e1, e2}, FALSE, FALSE)>>}

(* Bundles.                                                                  *)
Version(n, pre) == [name |-> n, prerelease |-> pre, semver |-> TRUE]
One == Version("1.0.0", Nil)
Two == Version("2.0.0-rc.1", "rc.1")
App(v, ref) == [key |-> "app", type |-> "application_version", version |-> v, ref |-> ref, digest |-> Nil]
Image == [key |-> "image", type |-> "oci_image", version |-> One, ref |-> "registry/image", digest |-> "sha256"]
Child(b) == [key |-> "child", type |-> "child_release_bundle", version |-> One, ref |-> b, digest |-> Nil]
ImageContract ==
    [images |-> {[name |-> "image", ref |-> "registry/image", digest |-> "sha256", version |-> One]},
     affected |-> {"image"}, requires |-> {}]
Content(number, comps, branch, contract) ==
    [number |-> number, comps |-> comps, branch |-> branch, tag |-> Nil, contract |-> contract]
Rules(ranges, prereleases, branches) ==
    [ranges |-> ranges, prereleases |-> prereleases, branches |-> branches, tags |-> {}]

RelContents ==
    {Content("1", <<App(One, av1), Image>>, "main", ImageContract),
     Content("2", <<Child(b1)>>, "main", Nil), Content("1", <<Child(b2)>>, "main", Nil)}
RelVersions == av1 :> One @@ av2 :> Two
RelRules == {Rules({{"1.0.0"}}, {}, {{"main"}}), Rules({{"2.0.0"}}, {{"beta"}}, {})}

Rel == INSTANCE ReleaseBundles
    WITH Contents <- BundleContents, row <- bundle, variables <- edition, tx <- bundleTx

ASSUME ChildrenNamed == \A c \in BundleContents : Rel!Children(c) \subseteq Bundle

(* Plans.                                                                    *)
Step(name, action, location, envs, refs) ==
    [key |-> name, action |-> action, location |-> location, channels |-> {},
     environments |-> envs, valid |-> TRUE, refs |-> refs]
PlanContract ==
    [platform |-> "amd64", version |-> 2, provides |-> {"api"},
     requires |-> {[candidate |-> TRUE, minimum |-> 1, contract |-> "api"]}]
PlanContents ==
    {[contract |-> PlanContract, steps |-> {Step("a", "distr.webhook", "hub", {}, {})},
      values |-> [t \in {t1, t2} |-> "x"]],
     [contract |-> Nil, steps |-> {Step("b", "distr.compose", "target", {"prod"}, {"b"})},
      values |-> (t1 :> "x" @@ t2 :> "y")]}
Docker(platform) == [type |-> "docker", platform |-> platform, customer |-> "acme"]

PlanPhases == {<<Phase({"prod"}, FALSE, FALSE)>>, <<Phase({"dev"}, FALSE, FALSE), Phase({"prod"}, FALSE, FALSE)>>}
PlanAttributes == {Docker("amd64"), Docker("arm64")}
PlanReports == {Nil, {}}

Plans == INSTANCE DeploymentPlans
    WITH Session <- Planner, Contents <- ReleaseContents, PhaseLists <- Lifecycles,
         Channel <- "stable", Environment <- "prod", bundle <- release, phases <- lifecycle, tx <- planTx

(* Variables.                                                                *)
Var(name, type, required, default, ref, scoped) ==
    [key |-> name, type |-> type, required |-> required, default |-> default, ref |-> ref, scoped |-> scoped]
Val(kind, v) == [kind |-> kind, v |-> v]
Scoped(scope, order, value, ref) == [scope |-> scope, order |-> order, value |-> value, ref |-> ref]
Prod == [environment |-> "prod"]
Tenant == Prod @@ [tenant |-> "acme"]
VarSets ==
    {{Var("a", "number", FALSE, Val("number", "1"), Nil,
          {Scoped(Prod, 0, Val("number", "2"), Nil), Scoped(Tenant, 0, Val("number", "3"), Nil),
           Scoped(Tenant @@ [channel |-> "stable"], 1, Val("number", "1"), Nil)})},
     {Var("a", "string", TRUE, Nil, Nil,
          {Scoped(Prod @@ [tag |-> 1], 1, Val("string", "1"), Nil),
           Scoped(Prod @@ [tag |-> 2], 0, Val("string", "x"), Nil), Scoped(Prod, 0, Val("string", "y"), Nil)}),
      Var("b", "account", FALSE, Nil, [id |-> "u", name |-> "v"], {})},
     {Var("a", "secret", FALSE, Nil, [id |-> "s", name |-> "S"],
          {Scoped([channel |-> "stable"], 0, Nil, [id |-> "r", name |-> "R"])}),
      Var("b", "json", TRUE, Nil, Nil,
          {Scoped([application |-> "app"], 0, Val("map", [c |-> Val("string", "1")]), Nil)})},
     {Var("a", "boolean", FALSE, Val("number", "1"), Nil, {})}}
Empty == [x \in {} |-> Nil]
Deployment(yaml, env) == [yaml |-> yaml, env |-> env]
VarDeployments ==
    {Deployment(Empty, [a |-> "1"]), Deployment([a |-> Val("number", "3"), z |-> Val("list", Empty)], Empty),
     Deployment([a |-> Val("string", "y"), b |-> Val("string", "v")], [a |-> "x"]),
     Deployment([b |-> Val("map", [c |-> Val("string", "1")])], [a |-> "s"]),
     Deployment([b |-> Val("list", [x |-> Val("string", "1")])], Empty)}
Published == [application |-> "app", channel |-> "stable"]

VarAt == {Published, Published @@ Prod, Published @@ Tenant,
          Published @@ Prod @@ [tag |-> {1, 2}], Published @@ Tenant @@ [target |-> "t"]}

Vars == INSTANCE Variables
    WITH git <- setByGit, tx <- snapshotTx

ASSUME TagsNumbered ==
    \A c \in VariableSets : \A v \in c : \A x \in v.scoped : "tag" \in DOMAIN x.scope => x.scope["tag"] \in Nat
ASSUME PromptsNamed == \A c \in VariableSets : \A v \in c : [value |-> v.default, ref |-> v.ref] # Nil

(* Processes and runbooks: a condition that refers back, and a cycle through *)
(* a condition.                                                              *)
ProcessStep(name, order, channels, envs, deps, refs) ==
    [key |-> name, order |-> order, action |-> "distr.compose", valid |-> TRUE,
     channels |-> channels, environments |-> envs, deps |-> deps, refs |-> refs]
ProcessSteps ==
    {{ProcessStep("a", 0, {c1}, {}, {}, {}), ProcessStep("b", 1, {}, {e1}, {}, {"a"})},
     {ProcessStep("a", 0, {}, {}, {"b"}, {}), ProcessStep("b", 1, {}, {}, {}, {"a"})},
     {ProcessStep("b", 1, {c1, c2}, {}, {}, {})}, {ProcessStep("b", 1, {}, {}, {}, Nil)}}
TemplateVersions ==
    {[version |-> "1", action |-> "distr.compose", input |-> i] : i \in 1..2}

Proc == INSTANCE Processes
    WITH Channel <- ProcessChannel, Environment <- ProcessEnvironment,
         git <- processByGit, environments <- stepEnvironments, tx <- processTx

ASSUME StepChannelsNamed == \A steps \in StepSets : \A x \in steps : x.channels \subseteq ProcessChannel

RunbookStep(name, order, deps, refs) ==
    [key |-> name, order |-> order, action |-> "distr.compose", valid |-> TRUE,
     permissions |-> <<"deploy">>, deps |-> deps, refs |-> refs]
RunbookSteps ==
    {{RunbookStep("a", 1, {}, {}), RunbookStep("b", 0, {"a"}, {"a"})},
     {RunbookStep("a", 1, {}, {"b"}), RunbookStep("b", 0, {"a"}, {})},
     {RunbookStep("a", 0, {}, {}), RunbookStep("b", 0, {}, {})}}

Run == INSTANCE Runbooks
    WITH StepSets <- RunbookStepSets, revisions <- runbookRevisions, snapshots <- runbookSnapshots,
         git <- runbookByGit

-----------------------------------------------------------------------------
MCInit ==
    /\ part \in Parts
    /\ Init /\ Rel!Init /\ Plans!Init /\ Vars!Init /\ Proc!Init /\ Run!Init
    /\ part = "releases" \/ rules.branches # {}
    /\ target[t2] = Docker("amd64") /\ report[t2] = Nil
    /\ part = "plans" \/ (/\ release.content.contract = Nil /\ Len(lifecycle) = 1
                          /\ target[t1] = Docker("amd64") /\ report[t1] = Nil)
    /\ part = "variables" \/ deployed.env = [a |-> "1"]
    /\ part = "processes" \/ channelApp = [c \in ProcessChannel |-> a1]

MCNext ==
    /\ UNCHANGED part
    /\ \/ /\ part = "channels" /\ Next
          /\ UNCHANGED <<releaseVars, planVars, variableVars, processVars, runbookVars>>
       \/ /\ part = "releases" /\ Rel!Next
          /\ UNCHANGED <<vars, planVars, variableVars, processVars, runbookVars>>
       \/ /\ part = "plans" /\ Plans!Next /\ UNCHANGED <<target[t2], report[t2]>>
          /\ UNCHANGED <<vars, releaseVars, variableVars, processVars, runbookVars>>
       \/ /\ part = "variables" /\ Vars!Next
          /\ UNCHANGED <<vars, releaseVars, planVars, processVars, runbookVars>>
       \/ /\ part = "processes" /\ Proc!Next
          /\ UNCHANGED <<vars, releaseVars, planVars, variableVars, runbookVars>>
       \/ /\ part = "runbooks" /\ Run!Next
          /\ UNCHANGED <<vars, releaseVars, planVars, variableVars, processVars>>

mcVars == <<part, vars, releaseVars, planVars, variableVars, processVars, runbookVars>>
MCSpec == MCInit /\ [][MCNext]_mcVars

-----------------------------------------------------------------------------
(***************************************************************************)
(* What is released contains released bundles only, and the audit log and   *)
(* the idempotency keys account for it (see ReleaseBundles).                *)
(***************************************************************************)
ReleasesSound == Rel!ReleasesClosed /\ Rel!ReleasesAccountedFor

(***************************************************************************)
(* Nothing changes a release, a revision or a snapshot, nor, but for the    *)
(* default flag, what is under Git's authority (see ReleaseBundles,         *)
(* Processes and Channels).                                                 *)
(***************************************************************************)
FrozenStays == Rel!ReleasesFrozen /\ Proc!ProcessesFrozen /\ GitManagedKept

(***************************************************************************)
(* Revisions refer to what exists and can be run, and snapshots are of      *)
(* their revisions (see Processes and Runbooks).                            *)
(***************************************************************************)
ProcessesSound == Proc!ProcessesSound /\ Run!RunbooksSound

(***************************************************************************)
(* A plan is of what was published, and tasks are made only on the ground   *)
(* that was checked (see DeploymentPlans).                                  *)
(***************************************************************************)
ReadyPlansAreOfTheRelease == Plans!ReadyPlansAreOfTheRelease
TasksOnCheckedGround == Plans!TasksOnCheckedGround

(***************************************************************************)
(* The most specific value wins, but for a prompted one, and a report       *)
(* without drift means that this is what is deployed (see Variables).       *)
(***************************************************************************)
VariablesSound ==
    part = "variables" => Vars!MostSpecificWins /\ Vars!PromptedWins /\ Vars!NoDriftMeansDeployed
=============================================================================
