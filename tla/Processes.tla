------------------------------ MODULE Processes ------------------------------
(***************************************************************************)
(* Deployment processes: their revisions, the snapshots that releases refer *)
(* to, and the channels and environments that steps name                    *)
(* (internal/db/deployment_processes.go, process_snapshots.go,              *)
(* step_templates.go, internal/processsnapshots, api/deployment_process.go).*)
(*                                                                          *)
(* One process.  A step is [key, order, action, valid, channels,            *)
(* environments, deps, refs]: valid says that its input fits the action's   *)
(* schema, refs are the steps its condition refers to, or Nil when the      *)
(* condition cannot be parsed.  The writers of a process lock its row, so   *)
(* that only the making of a revision and of a snapshot take several steps. *)
(***************************************************************************)
EXTENDS Naturals, Sequences, FiniteSets

CONSTANTS
    Application, Channel, Environment, Session, Nil,
    StepSets,        \* steps that requests may bring
    Registry,        \* action types
    Versions,        \* versions of a step template that may be imported
    MaxRevisions

VARIABLES
    process,       \* the process: [app], or Nil
    revisions,     \* its revisions, by number
    snapshots,     \* snapshots, by number of their revision: [app, steps]
    git,           \* whether Git has authority over the process
    templates,     \* versions of the template, and what they contain
    channelApp,    \* application of each channel, or Nil
    environments,
    tx             \* transaction of each session

vars == <<process, revisions, snapshots, git, templates, channelApp, environments, tx>>
Idle == [op |-> "idle"]
Ends(s) == tx' = [tx EXCEPT ![s] = Idle]
Goes(s, t) == tx' = [tx EXCEPT ![s] = t]
World == <<git, templates, channelApp, environments>>

Init ==
    /\ process = Nil /\ revisions = <<>> /\ snapshots = [n \in {} |-> Nil]
    /\ git = FALSE /\ templates = [v \in {} |-> Nil]
    /\ channelApp \in [Channel -> Application] /\ environments = Environment
    /\ tx = [s \in Session |-> Idle]

-----------------------------------------------------------------------------
(* The request.                                                              *)

KeysOf(steps) == {x.key : x \in steps}
Unique(steps) == \A x, y \in steps : (x.key = y.key \/ x.order = y.order) => x = y
Acyclic(steps, Edges(_)) ==
    ~\E S \in (SUBSET steps) \ {{}} : \A x \in S : Edges(x) \cap KeysOf(S) # {}

(* Conditions count as dependencies for the API, but not for the database    *)
(* layer.                                                                    *)
validateDeploymentProcessStepDependencies(steps) ==
    /\ \A x \in steps : x.refs # Nil
    /\ \A x \in steps : x.deps \cup x.refs \subseteq KeysOf(steps) /\ x.key \notin x.deps
    /\ Acyclic(steps, LAMBDA x : x.deps \cup x.refs)

Validate(steps) == steps # {} /\ Unique(steps) /\ validateDeploymentProcessStepDependencies(steps)

ValidateSteps(steps) == \A x \in steps : x.action \in Registry /\ x.valid

validateDeploymentProcessStepGraph(steps) ==
    /\ \A x \in steps : x.deps \subseteq KeysOf(steps) /\ x.key \notin x.deps
    /\ Acyclic(steps, LAMBDA x : x.deps)

normalizeDeploymentProcessRevision(steps) ==
    /\ steps # {} /\ Unique(steps)
    /\ ValidateSteps(steps) /\ validateDeploymentProcessStepGraph(steps)

-----------------------------------------------------------------------------
(* The process.                                                              *)

Writing(o) == tx[o].op = "revision"
Reading(o) == tx[o].op = "snapshot"
LockedForUpdate == \E o \in Session : Writing(o)
getDeploymentProcess(s) == process # Nil /\ \A o \in Session \ {s} : ~Writing(o) /\ ~Reading(o)
deploymentProcessHasRevisions == revisions # <<>>

CreateDeploymentProcess(a) ==
    /\ process = Nil /\ process' = [app |-> a]
    /\ UNCHANGED <<revisions, snapshots, tx, World>>

UpdateDeploymentProcess_Fault(s, a) ==
    /\ tx[s] = Idle /\ getDeploymentProcess(s) /\ ~git
    /\ process' = [process EXCEPT !.app = a]
    /\ UNCHANGED <<revisions, snapshots, tx, World>>
UpdateDeploymentProcess(s, a) ==
    /\ tx[s] = Idle /\ getDeploymentProcess(s) /\ ~git
    /\ process.app # a => ~deploymentProcessHasRevisions
    /\ process' = [process EXCEPT !.app = a]
    /\ UNCHANGED <<revisions, snapshots, tx, World>>

(* Revisions and steps go with the process; snapshots keep it.               *)
DeleteDeploymentProcessWithID(s) ==
    /\ tx[s] = Idle /\ getDeploymentProcess(s) /\ ~git
    /\ DOMAIN snapshots = {}
    /\ process' = Nil /\ revisions' = <<>>
    /\ UNCHANGED <<snapshots, tx, World>>

-----------------------------------------------------------------------------
(* Revisions.                                                                *)

ensureDeploymentProcessStepChannel(app, c) == channelApp[c] = app
ensureDeploymentProcessStepEnvironment(e) == e \in environments
ensureDeploymentProcessStepReferences(app, steps) ==
    \A x \in steps : /\ \A c \in x.channels : ensureDeploymentProcessStepChannel(app, c)
                     /\ \A e \in x.environments : ensureDeploymentProcessStepEnvironment(e)
nextDeploymentProcessRevisionNumber == Len(revisions) + 1

CreateDeploymentProcessRevision(s, steps) ==
    /\ tx[s] = Idle /\ Validate(steps) /\ normalizeDeploymentProcessRevision(steps)
    /\ nextDeploymentProcessRevisionNumber <= MaxRevisions
    /\ getDeploymentProcess(s) /\ ~git
    /\ ensureDeploymentProcessStepReferences(process.app, steps)
    /\ Goes(s, [op |-> "revision", steps |-> steps, app |-> process.app])
    /\ UNCHANGED <<process, revisions, snapshots, World>>

(* The foreign keys of the rows: a channel with this application, and        *)
(* environments that exist.                                                  *)
insertDeploymentProcessStepChannels(app, x) == \A c \in x.channels : channelApp[c] = app
insertDeploymentProcessStepEnvironments(x) == x.environments \subseteq environments
insertDeploymentProcessSteps(s) ==
    /\ tx[s].op = "revision"
    /\ \A x \in tx[s].steps : /\ insertDeploymentProcessStepChannels(tx[s].app, x)
                              /\ insertDeploymentProcessStepEnvironments(x)
    /\ revisions' = Append(revisions, tx[s].steps)
    /\ Ends(s) /\ UNCHANGED <<process, snapshots, World>>

-----------------------------------------------------------------------------
(* Snapshots.  The payload lists the steps in their order.                   *)

Canonicalize(app, steps) ==
    [app |-> app,
     steps |-> [o \in {x.order : x \in steps} |-> CHOOSE x \in steps : x.order = o]]
DecodeRevision(payload) == {payload.steps[o] : o \in DOMAIN payload.steps}

(* For a release of application a; the process and its revision are locked   *)
(* against deletion.                                                         *)
getDeploymentProcessRevisionForSnapshot(s, a, n) ==
    /\ tx[s] = Idle /\ process # Nil /\ ~LockedForUpdate
    /\ n \in DOMAIN revisions /\ process.app = a
    /\ Goes(s, [op |-> "snapshot", number |-> n, payload |-> Canonicalize(process.app, revisions[n])])
    /\ UNCHANGED <<process, revisions, snapshots, World>>

(* A revision has one snapshot: the second request gets the first one's.     *)
ensureProcessSnapshotForRevision(s) ==
    LET n == tx[s].number IN
    /\ tx[s].op = "snapshot"
    /\ snapshots' = IF n \in DOMAIN snapshots THEN snapshots
                    ELSE [m \in DOMAIN snapshots \cup {n} |->
                            IF m = n THEN tx[s].payload ELSE snapshots[m]]
    /\ Ends(s) /\ UNCHANGED <<process, revisions, World>>

Rollback(s) == tx[s] # Idle /\ Ends(s) /\ UNCHANGED <<process, revisions, snapshots, World>>

-----------------------------------------------------------------------------
(* Step templates: a version is imported once.                               *)

normalizeStepTemplateImport(v) == v.action \in Registry
insertStepTemplateVersion(v) ==
    /\ v.version \notin DOMAIN templates
    /\ templates' = [w \in DOMAIN templates \cup {v.version} |-> IF w = v.version THEN v ELSE templates[w]]
ImportStepTemplate(v) ==
    /\ normalizeStepTemplateImport(v) /\ insertStepTemplateVersion(v)
    /\ UNCHANGED <<process, revisions, snapshots, git, channelApp, environments, tx>>

-----------------------------------------------------------------------------
(* What others do: channels move and go, environments go, and Git takes or   *)
(* gives back its authority.  Rows that refer to them stand in the way.      *)

Referenced(c) == \E n \in DOMAIN revisions : \E x \in revisions[n] : c \in x.channels
UpdateChannel(c, a) ==
    /\ channelApp[c] # Nil /\ ~Referenced(c)
    /\ channelApp' = [channelApp EXCEPT ![c] = a]
    /\ UNCHANGED <<process, revisions, snapshots, git, templates, environments, tx>>
DeleteEnvironmentWithID(e) ==
    /\ \A n \in DOMAIN revisions : \A x \in revisions[n] : e \notin x.environments
    /\ environments' = environments \ {e}
    /\ UNCHANGED <<process, revisions, snapshots, git, templates, channelApp, tx>>
UpsertConfigAsCodeAuthority(g) ==
    /\ process # Nil /\ \A o \in Session : ~Writing(o) /\ ~Reading(o)
    /\ git' = g
    /\ UNCHANGED <<process, revisions, snapshots, templates, channelApp, environments, tx>>

Next ==
    \/ \E a \in Application : CreateDeploymentProcess(a)
    \/ \E s \in Session :
          \/ \E a \in Application : UpdateDeploymentProcess(s, a)
          \/ DeleteDeploymentProcessWithID(s)
          \/ \E steps \in StepSets : CreateDeploymentProcessRevision(s, steps)
          \/ insertDeploymentProcessSteps(s)
          \/ \E a \in Application, n \in DOMAIN revisions : getDeploymentProcessRevisionForSnapshot(s, a, n)
          \/ ensureProcessSnapshotForRevision(s) \/ Rollback(s)
    \/ \E v \in Versions : ImportStepTemplate(v)
    \/ \E c \in Channel, a \in Application \cup {Nil} : UpdateChannel(c, a)
    \/ \E e \in Environment : DeleteEnvironmentWithID(e)
    \/ \E g \in BOOLEAN : UpsertConfigAsCodeAuthority(g)

Spec == Init /\ [][Next]_vars

-----------------------------------------------------------------------------
(***************************************************************************)
(* A revision's steps name channels of the process's own application and    *)
(* environments that exist, however processes, channels and environments    *)
(* change around it; some order of its steps respects dependencies and      *)
(* conditions; and a snapshot is of its revision and of the process's       *)
(* application.                                                             *)
(***************************************************************************)
ProcessesSound ==
    /\ \A n \in DOMAIN revisions : \A x \in revisions[n] :
          /\ \A c \in x.channels : channelApp[c] = process.app
          /\ x.environments \subseteq environments
    /\ \A n \in DOMAIN revisions : Acyclic(revisions[n], LAMBDA x : x.deps \cup x.refs)
    /\ \A n \in DOMAIN snapshots : /\ DecodeRevision(snapshots[n]) = revisions[n]
                                   /\ snapshots[n].app = process.app

(***************************************************************************)
(* Revisions, snapshots and imported versions never change; a snapshot      *)
(* never goes; and under Git's authority nothing of the process changes.    *)
(***************************************************************************)
ProcessesFrozen ==
    [][/\ process # Nil /\ process' # Nil => \A n \in DOMAIN revisions : revisions'[n] = revisions[n]
       /\ \A n \in DOMAIN snapshots : n \in DOMAIN snapshots' /\ snapshots'[n] = snapshots[n]
       /\ \A v \in DOMAIN templates : templates'[v] = templates[v]
       /\ git /\ git' => process' = process /\ revisions' = revisions]_vars
=============================================================================
