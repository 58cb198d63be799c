--------------------------- MODULE HelmDeployments ---------------------------
(***************************************************************************)
(* The Kubernetes agent's poll loop (cmd/agent/kubernetes/main.go,          *)
(* helm_actions.go, agent_deployment.go) for one release name: the hub's    *)
(* deployment, the tracking secret, and the Helm release, which others may  *)
(* upgrade by hand.  Calls to the cluster may fail and the agent may die    *)
(* between any two of them.  Every secret carries the id of its deployment: *)
(* those of old agents, without one, which isSameDeployment matches by the  *)
(* release name, are not modelled.                                          *)
(***************************************************************************)
EXTENDS Naturals

CONSTANTS Revision, MaxID, MaxVersion, IgnoreSkew

None == [id |-> 0]
NoHelm == 0      \* HelmRevision is nil

VARIABLES
    desired,   \* the hub's deployment: [id, rev], or None
    record,    \* the tracking secret: [id, rev, helm, state], or None
    release,   \* the Helm release: [id (its version), rev, by], or None
    pc, want, known,
    tried,     \* revisions whose upgrade failed
    made,      \* the version that the agent's own upgrade has made
    raced,     \* somebody changed the release between a check and its use
    healthy    \* the revision last reported as healthy, with what ran then

vars == <<desired, record, release, pc, want, known, tried, made, raced, healthy>>

Init ==
    /\ desired = None /\ record = None /\ release = None
    /\ pc = "poll" /\ want = None /\ known = None
    /\ tried = {} /\ made = 0 /\ raced = FALSE /\ healthy = None

Goto(l) == pc' = l
Keep == UNCHANGED <<desired, want, known, healthy>>

SetResource(id, r) ==
    /\ id >= desired.id /\ desired' = [id |-> id, rev |-> r] /\ desired' # desired
    /\ UNCHANGED <<record, release, pc, want, known, tried, made, raced, healthy>>

(* The resource and the existing deployments; a failed read ends the poll.   *)
isSameDeployment == known'.id = want'.id
Poll ==
    /\ pc = "poll" /\ desired # None
    /\ want' = desired /\ known' = record
    /\ Goto(IF record # None /\ ~isSameDeployment THEN "orphan" ELSE "verify")
    /\ UNCHANGED <<desired, record, release, tried, made, raced, healthy>>

(* An orphan is uninstalled, and forgotten only if that succeeded.           *)
RunHelmUninstall ==
    /\ pc = "orphan"
    /\ \/ /\ release' = None
          /\ record' \in {record, None}
       \/ UNCHANGED <<release, record>>
    /\ known' = None /\ Goto("verify")
    /\ UNCHANGED <<desired, want, tried, made, raced, healthy>>

verifyLatestHelmRelease ==
    \/ release = None
    \/ known # None /\ (known.helm \in {NoHelm, release.id} \/ IgnoreSkew)

NextAction ==
    CASE known = None -> "install"
      [] known # None /\ known.helm = NoHelm -> "install"
      [] known # None /\ known.helm # NoHelm /\ known.rev # want.rev -> "upgrade"
      [] OTHER -> "check"

Verify ==
    /\ pc = "verify"
    /\ Goto(IF verifyLatestHelmRelease THEN NextAction ELSE "poll")
    /\ UNCHANGED <<desired, record, release, want, known, tried, made, raced, healthy>>

(* SaveDeployment: the secret is applied, or the call fails and is logged.   *)
SaveDeployment(helm, state) ==
    record' \in {record, [id |-> want.id, rev |-> want.rev, helm |-> helm, state |-> state]}

(* RunHelmInstall: progressing, Helm's install, which refuses a name in use  *)
(* and may leave a failed release behind, and the outcome.                   *)
InstallBegins ==
    /\ pc = "install"
    /\ \/ SaveDeployment(NoHelm, "progressing") /\ Goto("installing")
       \/ Goto("poll") /\ UNCHANGED record          \* the preflight failed
    /\ Keep /\ UNCHANGED <<release, tried, made, raced>>

RunHelmInstall ==
    /\ pc = "installing"
    /\ \/ /\ release = None
          /\ release' = [id |-> 1, rev |-> want.rev, by |-> "agent"] /\ Goto("installed")
       \/ /\ release' = release /\ Goto("installFailed")
    /\ Keep /\ UNCHANGED <<record, tried, made, raced>>

InstallSaved ==
    /\ pc \in {"installed", "installFailed"}
    /\ IF pc = "installed" THEN SaveDeployment(1, "ready") ELSE SaveDeployment(NoHelm, "failed")
    /\ Goto("poll")
    /\ Keep /\ UNCHANGED <<release, tried, made, raced>>

(* RunHelmUpgrade; a failed one is rolled back by Helm as a further version. *)
RunHelmUpgrade ==
    /\ pc = "upgrade" /\ release # None /\ release.id + 2 <= MaxVersion
    /\ \/ /\ release' = [id |-> release.id + 1, rev |-> want.rev, by |-> "agent"]
          /\ tried' = tried /\ made' = release.id + 1 /\ Goto("upgraded")
       \/ /\ release' = [release EXCEPT !.id = @ + 2, !.by = "agent"]
          /\ tried' = tried \cup {want.rev} /\ made' = made /\ Goto("rolledBack")
    /\ Keep /\ UNCHANGED <<record, raced>>

UpgradeRefused ==      \* before Helm changed anything
    /\ pc = "upgrade" /\ tried' = tried \cup {want.rev}
    /\ Goto(IF release = None THEN "poll" ELSE "rolledBack")
    /\ Keep /\ UNCHANGED <<record, release, made, raced>>

UpgradeSaved ==
    /\ pc = "upgraded"
    /\ SaveDeployment(made, "ready") /\ Goto("poll")
    /\ Keep /\ UNCHANGED <<release, tried, made, raced>>

(* The tracking secret follows the rollback, so that the next poll does not  *)
(* see a skew; it then carries the revision whose upgrade failed.            *)
SyncAfterRollback ==
    /\ pc = "rolledBack"
    /\ IF release.id = known.helm THEN UNCHANGED record ELSE SaveDeployment(release.id, "failed")
    /\ Goto("poll")
    /\ Keep /\ UNCHANGED <<release, tried, made, raced>>

CheckStatus ==
    /\ pc = "check"
    /\ healthy' \in {healthy} \cup
         (IF release = None THEN {} ELSE {[id |-> want.id, rev |-> want.rev, runs |-> release.rev]})
    /\ Goto("poll")
    /\ UNCHANGED <<desired, record, release, want, known, tried, made, raced>>

Crash ==
    /\ pc # "poll"
    /\ Goto("poll")
    /\ UNCHANGED <<desired, record, release, want, known, tried, made, raced, healthy>>

(* Somebody uses Helm by hand.                                               *)
ForeignUpgrade ==
    /\ release.id < MaxVersion
    /\ release' = [id |-> release.id + 1, rev |-> "foreign", by |-> "foreign"]
    /\ raced' = (raced \/ pc \in {"install", "installing", "upgrade", "rolledBack", "check"})
    /\ UNCHANGED <<desired, record, pc, want, known, tried, made, healthy>>

Next ==
    \/ \E id \in 1..MaxID, r \in Revision : SetResource(id, r)
    \/ Poll \/ RunHelmUninstall \/ Verify
    \/ InstallBegins \/ RunHelmInstall \/ InstallSaved
    \/ RunHelmUpgrade \/ UpgradeRefused \/ UpgradeSaved \/ SyncAfterRollback
    \/ CheckStatus \/ Crash \/ ForeignUpgrade

Spec == Init /\ [][Next]_vars

-----------------------------------------------------------------------------
(***************************************************************************)
(* Unless skew is to be ignored, the agent does not upgrade or install over *)
(* a release that somebody else has changed last, as long as no such change *)
(* came between one of its checks and the use of it.                        *)
(***************************************************************************)
ForeignChangesKept ==
    [][release # None /\ release' # None /\ ~IgnoreSkew
        => ~(release.by = "foreign" /\ release'.by = "agent" /\ ~raced)]_vars

(***************************************************************************)
(* A revision is reported as healthy only if it is what runs, or if its     *)
(* upgrade has failed before and what runs is what Helm went back to.       *)
(***************************************************************************)
HealthyExplained ==
    healthy # None => \/ healthy.runs = healthy.rev
                      \/ healthy.rev \in tried \/ raced \/ IgnoreSkew
=============================================================================
