----------------------------- MODULE MCPlatform -----------------------------
(***************************************************************************)
(* What the platform does for its users and targets, each part on its own:  *)
(* part says which of them a behaviour runs.                                *)
(*   "docker":   deployments, of which some stay at one revision, and the   *)
(*               records of tasks;                                          *)
(*   "helm":     deployments that use one release name, and a release that  *)
(*               is upgraded by hand too;                                   *)
(*   "push":     clients that push and delete, and the clean-up;            *)
(*   "pull":     customers and entitlements; blobs are uploaded while there *)
(*               is no artifact;                                            *)
(*   "sync":     artifacts of an upstream registry;                         *)
(*   "requests": every route of the API, for every kind of caller.          *)
(* The registry is taken with what is proved about it (Registry_proofs).    *)
(***************************************************************************)
EXTENDS ApiPlatform, Naturals, FiniteSets, TLC

CONSTANTS
    Deployment, Steady, TaskRecord, Revision, FirstRevision, NoRevision,
    MaxID, MaxVersion, IgnoreSkew,
    Artifact, Tag, SyncedTag, Image, Index, Layer, Customer, Entitlement, Pusher, Puller,
    TagLimit, MaxChunks, Nil, All

ASSUME RecordsApart == Deployment \cap TaskRecord = {}
ASSUME VersionsCounted == MaxID \in Nat /\ MaxVersion \in Nat /\ IgnoreSkew \in BOOLEAN
ASSUME NamesApart ==
    /\ Tag \cap (Image \cup Index) = {} /\ SyncedTag \subseteq Tag
    /\ Nil \notin Image \cup Index \cup {"pushed", "never", "synced", "failed"}
ASSUME TablesFinite ==
    IsFiniteSet(Artifact) /\ IsFiniteSet(Tag) /\ IsFiniteSet(Pusher) /\ IsFiniteSet(Puller) /\ TagLimit \in Nat

VARIABLES part, desired, record, running, seen, want, todo, pc, cur, unsaved,
          hDesired, hRecord, release, hpc, hWant, known, tried, made, raced, healthy,
          artifact, version, parts, entitlement, remote, store, upload, tx, sweep, exposed, pulled,
          route, caller, path, rpc, depth, pending, stored, sent, answer, unsure, state

Docker == INSTANCE AgentDeployments
Helm == INSTANCE HelmDeployments
            WITH desired <- hDesired, record <- hRecord, pc <- hpc, want <- hWant

(* Images with their layers, and indexes that list them.                    *)
Listed == [m \in Image \cup Index |-> IF m \in Image THEN Layer ELSE Image]
RegPush == INSTANCE Registry_proofs
            WITH PullThrough <- {}, Manifest <- Image \cup Index, Blob <- Layer, Content <- Listed,
                 Customer <- {}, Entitlement <- {}, Session <- Pusher, Limit <- TagLimit, Mutable <- FALSE
RegPull == INSTANCE Registry_proofs
            WITH PullThrough <- {}, Manifest <- Image \cup Index, Blob <- Layer, Content <- Listed,
                 Session <- Puller, Limit <- 9, Mutable <- TRUE
RegSync == INSTANCE Registry_proofs
            WITH PullThrough <- Artifact, Tag <- SyncedTag, Manifest <- Image \cup Index, Blob <- Layer,
                 Content <- Listed, Session <- Puller, Limit <- 9, Mutable <- TRUE

Api == INSTANCE Requests
            WITH Routes <- DeliveryRoutes \cup AccountRoutes \cup PlatformRoutes, pc <- rpc

dockerVars == <<desired, record, running, seen, want, todo, pc, cur, unsaved>>
helmVars == <<hDesired, hRecord, release, hpc, hWant, known, tried, made, raced, healthy>>
registryVars == <<artifact, version, parts, entitlement, remote, store, upload, tx, sweep, exposed, pulled>>
requestVars == <<route, caller, path, rpc, depth, pending, stored, sent, answer, unsure, state>>

NoRequest ==
    /\ route = Nil /\ caller = Nil /\ path = Nil /\ rpc = Nil /\ depth = Nil /\ pending = Nil
    /\ stored = Nil /\ sent = Nil /\ answer = Nil /\ unsure = Nil /\ state = Nil

MCInit ==
    /\ part \in {"docker", "helm", "push", "pull", "sync", "requests"}
    /\ Docker!Init /\ Helm!Init
    /\ CASE part = "pull" -> RegPull!Init [] part = "sync" -> RegSync!Init [] OTHER -> RegPush!Init
    /\ IF part = "requests" THEN Api!Init ELSE NoRequest

MCNext ==
    /\ UNCHANGED part
    /\ \/ /\ part = "docker" /\ Docker!Next
          /\ \A d \in Steady : desired'[d] \in {FirstRevision, NoRevision}
          /\ UNCHANGED <<helmVars, registryVars, requestVars>>
       \/ /\ part = "helm" /\ Helm!Next
          /\ UNCHANGED <<dockerVars, registryVars, requestVars>>
       \/ /\ UNCHANGED <<dockerVars, helmVars, requestVars>>
          /\ \/ part = "push" /\ (RegPush!Push \/ RegPush!Removal \/ RegPush!CleanUp)
             \/ /\ part = "pull" /\ (RegPull!Push \/ RegPull!Entitling \/ RegPull!Pull \/ RegPull!Removal)
                /\ upload' # upload => \A a \in Artifact : artifact[a] = Nil
                /\ artifact' # artifact => \A s \in Puller : upload[s] = Nil
             \/ part = "sync" /\ (RegSync!Sync \/ RegSync!Entitling \/ RegSync!Pull \/ RegSync!Removal)
       \/ /\ part = "requests" /\ Api!Next
          /\ UNCHANGED <<dockerVars, helmVars, registryVars>>

mcVars == <<part, dockerVars, helmVars, registryVars, requestVars>>
MCSpec == MCInit /\ [][MCNext]_mcVars

-----------------------------------------------------------------------------
(***************************************************************************)
(* What the Docker agent's records promise, with what tasks have deployed   *)
(* left alone (see AgentDeployments), and what the Kubernetes agent reports *)
(* about a release that others upgrade too (see HelmDeployments).           *)
(***************************************************************************)
LeftAloneMeansRunning ==
    Docker!LeftAloneMeansRunning /\ Docker!TaskDeploymentsKept /\ Helm!HealthyExplained

(***************************************************************************)
(* What others have put in place is not replaced: a change of a release by  *)
(* somebody else (see HelmDeployments), a tag that was pushed (see          *)
(* Registry).                                                               *)
(***************************************************************************)
ForeignChangesKept ==
    Helm!ForeignChangesKept /\ [][part = "push" => RegPush!PushedTagKept]_registryVars

(***************************************************************************)
(* Pushes, deletions, entitlements, pulls, syncs and clean-ups keep the     *)
(* registry whole (see Registry).                                           *)
(***************************************************************************)
RegistrySafe ==
    /\ part = "push" => RegPush!RegistrySafe
    /\ part = "pull" => RegPull!RegistrySafe
    /\ part = "sync" => RegSync!RegistrySafe

-----------------------------------------------------------------------------
(* The handlers that are different, by what is different about them.        *)

(* They answer inside the transaction, before it is committed,              *)
Early ==
    {"deleteUserAccountHandler", "authLoginHandler", "authLoginOidcCallbackHandler", "putDeployment",
     "createApplicationEntitlement", "updateApplicationEntitlement", "createArtifactEntitlement",
     "updateArtifactEntitlement", "saveTutorialProgress"}
(* or do not answer a transaction that does not begin or commit.            *)
Mute ==
    {"createUserAccountHandler", "UpdateSubscriptionHandler", "authRegisterHandler", "patchApplicationHandler",
     "deleteDeploymentHandler"}
(* They read, call or write after what is already stored or sent, and       *)
(* answer the failure of that.                                              *)
Partial ==
    {"importStepTemplateHandler", "patchUserAccountHandler", "mfaSetupHandler", "assignCustomerToPartnerHandler",
     "authLoginOidcCallbackHandler", "authLoginOidcHandler", "UpdateSubscriptionHandler", "updateDeploymentTarget",
     "createAccessForDeploymentTarget", "createArtifactHandler", "syncArtifactHandler",
     "patchArtifactUpstreamHandler", "createSupportBundleHandler",
     "createOrUpdateSupportBundleConfigurationHandler", "agentPostMetricsHander"}
(* The mail goes out before the commit.                                     *)
Ahead == {"createUserAccountHandler"}

(* A user's own account, and three routes that no check of a role guards.   *)
Own ==
    {"createOrganization", "authSwitchContextHandler", "mfaSetupHandler", "userSettingsUpdateHandler",
     "mfaRegenerateRecoveryCodesHandler", "mfaEnableHandler", "mfaDisableHandler", "deleteAccessTokenHandler",
     "createAccessTokenHandler", "authVerifyConfirmHandler", "userSettingsUpdateEmailHandler",
     "authVerifyRequestHandler"}
    \cup {"createFileHandler", "deleteFileHandler", "updateApplicationVersion"}
(* A super admin's own account, the removal of an expired organization, and *)
(* routes that do not block super admins.                                   *)
Supers ==
    {"authSwitchContextHandler", "mfaSetupHandler", "userSettingsUpdateHandler", "mfaRegenerateRecoveryCodesHandler",
     "mfaEnableHandler", "mfaDisableHandler", "authVerifyConfirmHandler", "userSettingsUpdateEmailHandler",
     "deleteOrganizationHandler"}
    \cup {"createFileHandler", "deleteFileHandler", "createAlertConfigurationHandler",
          "updateAlertConfigurationHandler", "deleteAlertConfigurationHandler"}
(* What customers have of their own: users, targets, deployments, secrets,  *)
(* alerts and support bundles.                                              *)
Theirs ==
    (Own \ {"updateApplicationVersion"})
    \cup {"createUserAccountHandler", "patchUserAccountHandler", "patchImageUserAccount",
          "resendUserInviteHandler", "deleteUserAccountHandler",
          "createDeploymentTarget", "updateDeploymentTarget", "deleteDeploymentTarget",
          "createAccessForDeploymentTarget", "putDeploymentTargetNotesHandler", "putDeployment",
          "deleteDeploymentHandler", "createSecretHandler", "updateSecretHandler", "deleteSecretHandler",
          "createAlertConfigurationHandler", "updateAlertConfigurationHandler", "deleteAlertConfigurationHandler",
          "createSupportBundleHandler", "updateSupportBundleStatusHandler", "createSupportBundleCommentHandler"}

(* The tables of routes are written so (internal/routing, internal/handlers)*)
ASSUME RoutesWritten ==
    Api!RoutesOrdered(Early, Mute, Partial, Ahead) /\ Api!RoutesGuarded(Own, Supers, Theirs)

(***************************************************************************)
(* What the API answers is true for every route but the ones named above:   *)
(* success means stored, an error means unchanged, and what was sent to     *)
(* others is stored (see Requests).                                         *)
(***************************************************************************)
AnswersTrue ==
    part = "requests" =>
        Api!OkMeansStored(Early, Mute) /\ Api!ErrorMeansUnchanged(Partial) /\ Api!SentIsStored(Ahead)

(***************************************************************************)
(* Viewers, super admins and customers change what is listed above, and     *)
(* nothing else (see Requests).                                             *)
(***************************************************************************)
RolesHold == part = "requests" => Api!RolesHold(Own, Supers, Theirs)
=============================================================================
