------------------------------ MODULE ApiData ------------------------------
(***************************************************************************)
(* What the handlers of the HTTP API (internal/handlers) are made of.       *)
(*                                                                          *)
(* A handler is the set of its control paths: sequences of steps in the     *)
(* order of the code, which an early return, a failing call or a crash cuts *)
(* short.  A step names the table it writes or the party it calls; the      *)
(* values that travel are left out.  Every step says what the handler does  *)
(* when it fails:                                                           *)
(*   "told"    an error is answered and the handler returns;                *)
(*   "mute"    the handler returns without an answer, which net/http sends  *)
(*             as 200;                                                      *)
(*   "logged"  the handler goes on.                                         *)
(* A route is a handler with the middlewares in front of it.                *)
(*                                                                          *)
(* The last part has the operations of internal/db that the handlers call,  *)
(* as the tables they read and write: one statement each, or one            *)
(* transaction.                                                             *)
(***************************************************************************)
EXTENDS Naturals, Sequences

P ** Q == {p \o q : p \in P, q \in Q}      \* one after the other
Either(P, Q) == P \cup Q
Opt(P) == P \cup {<<>>}                     \* under a condition of the code

Step(do, on, fail) == {<<[do |-> do, on |-> on, fail |-> fail]>>}

Check == Step("check", "", "told")          \* a condition on the request, or on what was read
Read(on) == Step("read", on, "told")
Write(on) == Step("write", on, "told")
Send(to) == Step("send", to, "told")        \* what no rollback takes back: mail, Stripe, S3
Ok == Step("ok", "", "told")                \* the success answer
Refuse == Step("refuse", "", "told")        \* an error answer that does not undo what was stored

Logged(P) == {[i \in DOMAIN p |-> [p[i] EXCEPT !.fail = "logged"]] : p \in P}
LoggedRead(on) == Logged(Read(on))
LoggedWrite(on) == Logged(Write(on))
LoggedSend(to) == Logged(Send(to))

-----------------------------------------------------------------------------
(* db/tx.go, handlers/util.go.                                              *)

TxWith(beginFails, P, commitFails) ==
    Step("begin", "", beginFails) ** P ** Step("commit", "", commitFails)

RunTx(P) == TxWith("told", P, "told")

(* _ = db.RunTx(...): whoever wrote it has the errors of the steps answered *)
(* inside, and drops the ones of Begin and Commit.                          *)
IgnoredTx(P) == TxWith("mute", P, "mute")

JsonBody == Check
PathValue == Check                          \* uuid.Parse of a path parameter
QueryParam == Check
RespondJSON == Ok

-----------------------------------------------------------------------------
(* Who calls.  A super admin needs no role; plan is the subscription of the *)
(* organization, "ended" one with all features that is not active any more. *)

Plan == {"starter", "pro", "ended"}
Role == {"read_only", "read_write", "admin"}
Kind == {"vendor", "partner", "customer"}
User == [as : {"user"}, kind : Kind, role : Role, plan : Plan]
SuperAdmin == [as : {"super"}, kind : {"vendor"}, role : {"none"}, plan : Plan]
(* A user who has not chosen an organization, an agent of a deployment      *)
(* target, a support bundle that is being collected, and nobody in          *)
(* particular.                                                              *)
Other == [as : {"orgless", "agent", "bundle", "anonymous"}, kind : {"none"},
          role : {"none"}, plan : {"none"}]
Caller == User \cup SuperAdmin \cup Other

isSuperAdmin(c) == c.as = "super"

readOnlyPermissions == {"ReleaseView", "ProcessView", "VariableView", "RunbookView", "AuditView"}
mutationPermissions ==
    {"ReleaseCreate", "ReleasePublish", "ReleaseBlock", "ProcessEdit", "VariableEdit",
     "SecretReferenceManage", "DeploymentPlan", "DeploymentExecute", "DeploymentApprove",
     "DeploymentGuideFailure", "RunbookEdit", "RunbookExecute", "EnvironmentManage",
     "TargetManage", "FreezeManage", "TemplateManage"}
allPermissions == readOnlyPermissions \cup mutationPermissions
PermissionsForRole(role) ==
    CASE role = "read_only" -> readOnlyPermissions
      [] role \in {"read_write", "admin"} -> allPermissions
      [] OTHER -> {}

-----------------------------------------------------------------------------
(* The middlewares, by the name under which routes list them.               *)

Authentication(c) == c.as \in {"user", "super", "orgless"}
RequireOrgAndRole(c) == c.as \in {"user", "super"}
RequireAnyUserRole(c, roles) == isSuperAdmin(c) \/ c.role \in roles
RequireAnyScopedPermission(c, permissions) ==
    isSuperAdmin(c) \/ PermissionsForRole(c.role) \cap permissions # {}
RequireVendor(c) == isSuperAdmin(c) \/ c.kind \notin {"partner", "customer"}
RequireVendorOrPartner(c) == isSuperAdmin(c) \/ c.kind # "customer"
BlockSuperAdmin(c) == ~isSuperAdmin(c)
BlockSuperAdminUnlessOrganizationExpired(c) == isSuperAdmin(c) => c.plan = "ended"
ProFeature(c) == c.plan \in {"pro", "ended"}

Admits(m, c) ==
    CASE m = "Authentication" -> Authentication(c)
      [] m = "RequireOrgAndRole" -> RequireOrgAndRole(c)
      [] m = "RequireReadWriteOrAdmin" -> RequireAnyScopedPermission(c, mutationPermissions)
      [] m = "RequireAdmin" -> RequireAnyUserRole(c, {"admin"})
      [] m = "RequireVendor" -> RequireVendor(c)
      [] m = "RequireVendorOrPartner" -> RequireVendorOrPartner(c)
      [] m = "BlockSuperAdmin" -> BlockSuperAdmin(c)
      [] m = "BlockSuperAdminUnlessOrganizationExpired" -> BlockSuperAdminUnlessOrganizationExpired(c)
      [] m = "ProFeature" -> ProFeature(c)
      [] m = "RequireTokenScope" -> c.as = "orgless"     \* an invitation or a password reset
      [] m = "AgentAuthentication" -> c.as = "agent"
      [] m = "SupportBundleAuthentication" -> c.as = "bundle"

(* Feature flags of the server or of an organization are switched on.       *)

Handler(name, run) == [handler |-> name, needs |-> {}, run |-> run]
With(needs, routes) == {[r EXCEPT !.needs = @ \cup needs] : r \in routes}
(* A middleware that loads what the path names.                             *)
After(load, routes) == {[r EXCEPT !.run = load ** @] : r \in routes}

Mutating == {"RequireReadWriteOrAdmin", "BlockSuperAdmin"}

-----------------------------------------------------------------------------
(* Organizations, customers, partners and licenses.                          *)

CreateOrganization == Write("Organization")
UpdateOrganization == Write("Organization")
SetOrganizationStripeWebhookSecret == Write("Organization")
SetOrganizationDeletedAtNow == Write("Organization")
GetOrganizationsForUser == Read("Organization")
GetAllOrganizationsForSuperAdmin == Read("Organization")
ExistsVendorOrganizationWithUserID == Read("Organization")
CountAllOrganizations == Read("Organization")
GetOrganizationByID == Read("Organization")
GetOrganizationWithBranding == Read("Organization")
GetOrganizationBranding == Read("OrganizationBranding")
CreateOrganizationBranding == Write("OrganizationBranding")
UpdateOrganizationBranding == Write("OrganizationBranding")
ValidateCustomerOrgBelongsToOrg == Read("CustomerOrganization")
ValidateCustomerOrgBelongsToPartnerOrg == Read("CustomerOrganization")
GetCustomerOrganizationByID == Read("CustomerOrganization")
GetCustomerOrganizationsByOrganizationID == Read("CustomerOrganization")
GetCustomerOrganizationsByPartnerOrgID == Read("CustomerOrganization")
CountCustomerOrganizationsByOrganizationID == Read("CustomerOrganization")
CreateCustomerOrganization == Write("CustomerOrganization")
UpdateCustomerOrganization == Write("CustomerOrganization")
SetCustomerOrganizationPartner == Write("CustomerOrganization")
DeleteCustomerOrganizationWithID == RunTx(Write("CustomerOrganization"))
ValidatePartnerOrgBelongsToOrg == Read("PartnerOrganization")
GetPartnerOrganizationByID == Read("PartnerOrganization")
GetPartnerOrganizationsByOrganizationID == Read("PartnerOrganization")
CreatePartnerOrganization == Write("PartnerOrganization")
UpdatePartnerOrganization == Write("PartnerOrganization")
DeletePartnerOrganizationWithID == Write("PartnerOrganization")
GetSidebarLinks == Read("SidebarLink")
CreateSidebarLink == Write("SidebarLink")
UpdateSidebarLink == Write("SidebarLink")
DeleteSidebarLink == Write("SidebarLink")
GetLicenseKeys == Read("LicenseKey")
GetLicenseKeysByCustomerOrgID == Read("LicenseKey")
GetLicenseKeysByPartnerOrgID == Read("LicenseKey")
GetLicenseKeyByID == Read("LicenseKey")
GetLicenseKeyRevisions == Read("LicenseKeyRevision")
CreateLicenseKeyRevision == Write("LicenseKeyRevision")
CreateLicenseKey == RunTx(Write("LicenseKey") ** Opt(CreateLicenseKeyRevision) ** GetLicenseKeyByID)
UpdateLicenseKeyMetadata == Write("LicenseKey")
DeleteLicenseKeyWithID == Write("LicenseKey")
GetLicenseTemplates == Read("LicenseTemplate")
GetLicenseTemplateByID == Read("LicenseTemplate")
CreateLicenseTemplate == Write("LicenseTemplate")
UpdateLicenseTemplate == Write("LicenseTemplate")
DeleteLicenseTemplateByID == Write("LicenseTemplate")

-----------------------------------------------------------------------------
(* Applications, artifacts, deployments and what goes with them.            *)

GetApplicationsByOrgID == Read("Application")
GetApplicationsWithEntitlementOwnerID == Read("Application")
GetApplication == Read("Application")
GetApplicationWithEntitlementOwnerID == Read("Application")
GetApplicationForApplicationVersionID == Read("Application")
CreateApplication == Write("Application")
UpdateApplication == Write("Application")
UpdateApplicationImage == Write("Application")
DeleteApplicationWithID == Write("Application")
GetApplicationVersion == Read("ApplicationVersion")
CreateApplicationVersion == Write("ApplicationVersion")
UpdateApplicationVersion == Write("ApplicationVersion")
GetApplicationVersionResources == Read("ApplicationVersionResource")
GetApplicationVersionResourcesVisibleToCustomers == Read("ApplicationVersionResource")
CreateApplicationVersionResources == Write("ApplicationVersionResource")
GetApplicationEntitlementsWithCustomerOrganizationID == Read("ApplicationEntitlement")
GetApplicationEntitlementsByPartnerOrgID == Read("ApplicationEntitlement")
GetApplicationEntitlementByID == Read("ApplicationEntitlement")
CreateApplicationEntitlement == Write("ApplicationEntitlement")
UpdateApplicationEntitlement == Write("ApplicationEntitlement")
DeleteApplicationEntitlementWithID == Write("ApplicationEntitlement")
AddVersionToApplicationEntitlement == Write("ApplicationEntitlement_ApplicationVersion")
SetApplicationEntitlementVersions ==
    Write("ApplicationEntitlement_ApplicationVersion") ** Write("ApplicationEntitlement_ApplicationVersion")
GetDeploymentsUsingVersionsNotInList == Read("DeploymentRevision")

GetArtifactsByOrgID == Read("Artifact")
GetArtifactsByEntitlementOwnerID == Read("Artifact")
GetArtifactByID == Read("Artifact")
CreateArtifact == Write("Artifact")
UpdateArtifactImage == Write("Artifact")
UpdateArtifactUpstream == Write("Artifact")
DeleteArtifactWithID == Write("Artifact")
ArtifactIsReferencedInEntitlements == Read("ArtifactEntitlement_Artifact")
CheckArtifactVersionDeletionForEntitlements == Read("ArtifactEntitlement_Artifact") ** Check
GetArtifactVersionByName == Read("ArtifactVersion")
GetArtifactVersionsByDigest == Read("ArtifactVersion")
GetVersionsForArtifact == Read("ArtifactVersion")
IsLastTagOfArtifact == Read("ArtifactVersion")
DeleteArtifactVersion == Write("ArtifactVersion")
GetArtifactEntitlementsByPartnerOrgID == Read("ArtifactEntitlement")
GetArtifactEntitlementByID == Read("ArtifactEntitlement")
CreateArtifactEntitlement == Write("ArtifactEntitlement")
UpdateArtifactEntitlement == Write("ArtifactEntitlement")
DeleteArtifactEntitlementWithID == Write("ArtifactEntitlement")
RemoveAllArtifactsFromEntitlement == Write("ArtifactEntitlement_Artifact")
AddArtifactToArtifactEntitlement == Write("ArtifactEntitlement_Artifact")
GetArtifactVersionPulls == Read("ArtifactVersionPull")
GetArtifactVersionPullFilterOptions == Read("ArtifactVersionPull")
GetArtifactVersionPullVersionOptions == Read("ArtifactVersionPull")
GetLatestPullOfArtifactByCustomerOrganization == Read("ArtifactVersionPull")

GetDeploymentsForDeploymentTarget == Read("Deployment")
GetDeploymentTargets == Read("DeploymentTarget")
GetDeploymentTargetForDeploymentID == Read("DeploymentTarget")
CreateDeploymentTarget == Write("DeploymentTarget") ** GetDeploymentsForDeploymentTarget
UpdateDeploymentTarget == Write("DeploymentTarget") ** GetDeploymentsForDeploymentTarget
UpdateDeploymentTargetAccess == Write("DeploymentTarget")
UpdateDeploymentTargetReportedAgentVersionID == Write("DeploymentTarget.reported_agent_version_id")
DeleteDeploymentTargetWithID == Write("DeploymentTarget")
GetDeploymentTargetNotes == Read("DeploymentTargetNotes")
CreateOrUpdateDeploymentTargetNotes == Write("DeploymentTargetNotes")
GetDeployment == Read("Deployment")
CreateDeployment == Write("Deployment")
UpdateDeploymentEntitlement == Write("Deployment")
DeleteDeploymentWithID == Write("Deployment")
GetDeploymentIDForRevisionID == Read("DeploymentRevision")
GetDeploymentRevisionStatus == Read("DeploymentRevisionStatus")
GetLatestDeploymentRevisionStatus == Read("DeploymentRevisionStatus")
CreateDeploymentRevisionStatus == Write("DeploymentRevisionStatus")
GetDeploymentLogRecords == Read("DeploymentLogRecord")
GetDeploymentLogRecordResources == Read("DeploymentLogRecord")
ValidateDeploymentLogRecords == Read("DeploymentRevision") ** Check
SaveDeploymentLogRecords == Write("DeploymentLogRecord")
GetDeploymentTargetLogRecords == Read("DeploymentTargetLogRecord")
GetDeploymentTargetLogRecordsSeq == Read("DeploymentTargetLogRecord")
SaveDeploymentTargetLogRecords == Write("DeploymentTargetLogRecord")
GetLatestDeploymentTargetMetrics == Read("DeploymentTargetMetrics")
GetLatestDeploymentTargetMetricsForID == Read("DeploymentTargetMetrics")
CreateDeploymentTargetMetrics == Write("DeploymentTargetMetrics") ** Opt(Write("DeploymentTargetDiskMetrics"))
GetAgentVersions == Read("AgentVersion")
GetCurrentAgentVersion == Read("AgentVersion")
GetAgentVersionWithName == Read("AgentVersion")

GetSecrets == Read("Secret")
GetSecretByID == Read("Secret")
CreateSecret == Write("Secret")
UpdateSecret == Write("Secret")
DeleteSecret == Write("Secret")
GetAlertConfigurations == Read("AlertConfiguration")
updateAlertConfigUserAccountIDs == Write("AlertConfiguration_UserAccount") ** Write("AlertConfiguration_UserAccount")
updateAlertConfigDeploymentTargetIDs ==
    Write("AlertConfiguration_DeploymentTarget") ** Write("AlertConfiguration_DeploymentTarget")
CreateAlertConfiguration ==
    RunTx(Write("AlertConfiguration") ** updateAlertConfigUserAccountIDs ** updateAlertConfigDeploymentTargetIDs
          ** GetAlertConfigurations)
UpdateAlertConfiguration == CreateAlertConfiguration
DeleteAlertConfiguration == Write("AlertConfiguration")
GetNotificationRecords == Read("NotificationRecord")
GetTutorialProgresses == Read("UserAccount_TutorialProgress")
GetTutorialProgress == Read("UserAccount_TutorialProgress")
SaveTutorialProgress == Write("UserAccount_TutorialProgress")
CreateFile == Write("File")
GetFileWithID == Read("File")
DeleteFileWithID == Write("File")
GetSupportBundleConfigurationEnvVars == Read("SupportBundleConfigurationEnvVar")
SaveSupportBundleConfigurationEnvVars ==
    RunTx(Write("SupportBundleConfigurationEnvVar") ** Opt(Write("SupportBundleConfigurationEnvVar")))
GetSupportBundles == Read("SupportBundle")
GetSupportBundleByID == Read("SupportBundle")
CreateSupportBundle == Write("SupportBundle")
UpdateSupportBundleStatus == Write("SupportBundle")
ClearSupportBundleBundleSecret == Write("SupportBundle")
GetSupportBundleResources == Read("SupportBundleResource")
CreateSupportBundleResource == Write("SupportBundleResource")
GetSupportBundleComments == Read("SupportBundleComment")
CreateSupportBundleComment == Write("SupportBundleComment")
=============================================================================
