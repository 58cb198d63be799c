---------------------------- MODULE ApiPlatform ----------------------------
(***************************************************************************)
(* The API of the platform below the delivery side: applications, artifacts *)
(* and what customers are entitled to, deployment targets and deployments,  *)
(* secrets, alerts, files, support bundles, and what agents report.         *)
(***************************************************************************)
EXTENDS ApiAccounts, ApiDelivery

Vendor == {"RequireVendor"}
VendorOrPartner == {"RequireVendorOrPartner"}
(* A row that is gone by now is answered like one that was updated.         *)
patchImageHandler(update) == JsonBody ** Check ** Opt(update) ** RespondJSON
(* An export that breaks off has begun its answer.                          *)
Streamed(on) == Step("read", on, "mute")

-----------------------------------------------------------------------------
(* Applications and who may use them.                                       *)

applicationMiddleware == PathValue ** GetApplication
getApplications ==
    Handler("getApplications",
        Either(GetApplicationsByOrgID,
               GetApplicationEntitlementsWithOrganizationID
               ** Either(GetApplicationsWithEntitlementOwnerID, GetApplicationsByOrgID)) ** RespondJSON)
getApplication ==
    Handler("getApplication",
        Opt(GetApplicationEntitlementsWithOrganizationID ** Opt(GetApplicationWithEntitlementOwnerID)) ** RespondJSON)
createApplication == Handler("createApplication", JsonBody ** Check ** CreateApplication ** RespondJSON)
updateApplication == Handler("updateApplication", JsonBody ** Check ** UpdateApplication ** RespondJSON)
(* Of the failures of the transaction itself only one kind is answered.     *)
patchApplicationHandler ==
    Handler("patchApplicationHandler",
        JsonBody ** TxWith("mute", Opt(UpdateApplication) ** Opt(Check ** UpdateApplicationVersion), "mute") ** RespondJSON)
patchImageApplication == Handler("patchImageApplication", patchImageHandler(UpdateApplicationImage))
deleteApplication == Handler("deleteApplication", Check ** DeleteApplicationWithID ** Ok)
getApplicationVersion == Handler("getApplicationVersion", PathValue ** GetApplicationVersion ** RespondJSON)
createApplicationVersion ==
    Handler("createApplicationVersion",
        JsonBody ** Check ** RunTx(CreateApplicationVersion ** CreateApplicationVersionResources) ** RespondJSON)
(* Mounted without a check of the role.                                     *)
updateApplicationVersion ==
    Handler("updateApplicationVersion", JsonBody ** Check ** UpdateApplicationVersion ** RespondJSON)
getApplicationVersionFileHandler ==
    Handler("getApplicationVersionFileHandler", PathValue ** GetApplicationVersion ** Ok)
getApplicationVersionResources ==
    Handler("getApplicationVersionResources",
        PathValue ** Either(GetApplicationVersionResourcesVisibleToCustomers, GetApplicationVersionResources) ** RespondJSON)
ApplicationsRouter ==
    With(InOrg,
        {getApplications, getApplicationVersion, getApplicationVersionFileHandler, getApplicationVersionResources}
        \cup With(Mutating \cup Vendor, {createApplication})
        \cup After(applicationMiddleware,
                {getApplication}
                \cup With(Mutating \cup Vendor, {deleteApplication, updateApplication, patchApplicationHandler,
                                                 patchImageApplication, createApplicationVersion})
                \cup With(Vendor \cup {"BlockSuperAdmin"}, {updateApplicationVersion})))

canSeeEntitlement == Check
applicationEntitlementMiddleware == PathValue ** GetApplicationEntitlementByID ** canSeeEntitlement
getApplicationEntitlements ==
    Handler("getApplicationEntitlements",
        QueryParam ** OfScope(GetApplicationEntitlementsWithOrganizationID, GetApplicationEntitlementsByPartnerOrgID,
                              GetApplicationEntitlementsWithCustomerOrganizationID) ** RespondJSON)
getApplicationEntitlement == Handler("getApplicationEntitlement", RespondJSON)
createApplicationEntitlement ==
    Handler("createApplicationEntitlement",
        JsonBody ** Check ** ownCustomer
        ** IgnoredTx(CreateApplicationEntitlement ** Opt(AddVersionToApplicationEntitlement)
                     ** GetApplicationEntitlementByID ** RespondJSON))
(* Versions that deployments still use are not taken away.                  *)
updateApplicationEntitlement ==
    Handler("updateApplicationEntitlement",
        JsonBody ** Check
        ** IgnoredTx(UpdateApplicationEntitlement ** Opt(GetDeploymentsUsingVersionsNotInList ** Check)
                     ** SetApplicationEntitlementVersions ** GetApplicationEntitlementByID ** RespondJSON))
deleteApplicationEntitlement ==
    Handler("deleteApplicationEntitlement", Check ** DeleteApplicationEntitlementWithID ** Ok)
ApplicationEntitlementsRouter ==
    With(InOrg,
        {getApplicationEntitlements} \cup With(Mutating \cup VendorOrPartner, {createApplicationEntitlement})
        \cup After(applicationEntitlementMiddleware,
                {getApplicationEntitlement}
                \cup With(Mutating \cup VendorOrPartner, {deleteApplicationEntitlement, updateApplicationEntitlement})))

-----------------------------------------------------------------------------
(* Artifacts of the registry (see Registry for what their checks protect).  *)

artifactMiddleware == PathValue ** GetArtifactByID
checkUpstreamCredentials == Read("upstream registry")
SyncArtifactTags == Read("upstream registry") ** Opt(Write("ArtifactVersion")) ** Write("Artifact.last_sync")
getArtifacts ==
    Handler("getArtifacts",
        Either(GetArtifactsByOrgID, GetArtifactEntitlements ** Either(GetArtifactsByEntitlementOwnerID, GetArtifactsByOrgID))
        ** RespondJSON)
getArtifact == Handler("getArtifact", RespondJSON)
createArtifactHandler ==
    Handler("createArtifactHandler",
        JsonBody ** Check ** checkUpstreamCredentials ** CreateArtifact ** GetArtifactByID ** RespondJSON)
syncArtifactHandler == Handler("syncArtifactHandler", Check ** SyncArtifactTags ** GetArtifactByID ** RespondJSON)
patchImageArtifactHandler == Handler("patchImageArtifactHandler", patchImageHandler(UpdateArtifactImage))
deleteArtifactHandler ==
    Handler("deleteArtifactHandler", RunTx(ArtifactIsReferencedInEntitlements ** Check ** DeleteArtifactWithID) ** Ok)
deleteArtifactTagHandler ==
    Handler("deleteArtifactTagHandler",
        Check ** RunTx(GetArtifactVersionByName ** GetArtifactVersionsByDigest
                       ** CheckArtifactVersionDeletionForEntitlements ** IsLastTagOfArtifact ** Check
                       ** DeleteArtifactVersion) ** Ok)
patchArtifactUpstreamHandler ==
    Handler("patchArtifactUpstreamHandler",
        JsonBody ** Check ** Opt(checkUpstreamCredentials) ** UpdateArtifactUpstream ** GetArtifactByID ** RespondJSON)
ArtifactsRouter ==
    With(InOrg,
        {getArtifacts} \cup With(Mutating \cup Vendor, {createArtifactHandler})
        \cup After(artifactMiddleware,
                {getArtifact}
                \cup With(Mutating \cup Vendor, {syncArtifactHandler, patchImageArtifactHandler, deleteArtifactHandler,
                                                 deleteArtifactTagHandler, patchArtifactUpstreamHandler})))

artifactEntitlementMiddleware == PathValue ** GetArtifactEntitlementByID ** Check ** ownCustomer
validateEntitlementSelections == Check
addArtifacts == Opt(AddArtifactToArtifactEntitlement)
getArtifactEntitlements ==
    Handler("getArtifactEntitlements", Either(GetArtifactEntitlementsByPartnerOrgID, GetArtifactEntitlements) ** RespondJSON)
createArtifactEntitlement ==
    Handler("createArtifactEntitlement",
        JsonBody ** validateEntitlementSelections ** ownCustomer
        ** IgnoredTx(CreateArtifactEntitlement ** addArtifacts ** RespondJSON))
updateArtifactEntitlement ==
    Handler("updateArtifactEntitlement",
        JsonBody ** validateEntitlementSelections
        ** IgnoredTx(UpdateArtifactEntitlement ** RemoveAllArtifactsFromEntitlement ** addArtifacts ** RespondJSON))
deleteArtifactEntitlement == Handler("deleteArtifactEntitlement", DeleteArtifactEntitlementWithID ** Ok)
ArtifactEntitlementsRouter ==
    With(InOrg \cup VendorOrPartner,
        {getArtifactEntitlements}
        \cup With(Mutating, {createArtifactEntitlement}
            \cup After(artifactEntitlementMiddleware, {updateArtifactEntitlement, deleteArtifactEntitlement})))

parseArtifactPullFilters == QueryParam
getArtifactPullsHandler == Handler("getArtifactPullsHandler", parseArtifactPullFilters ** GetArtifactVersionPulls ** RespondJSON)
getArtifactPullFilterOptionsHandler ==
    Handler("getArtifactPullFilterOptionsHandler", GetArtifactVersionPullFilterOptions ** RespondJSON)
getArtifactPullVersionOptionsHandler ==
    Handler("getArtifactPullVersionOptionsHandler", QueryParam ** GetArtifactVersionPullVersionOptions ** RespondJSON)
exportArtifactPullsHandler == Handler("exportArtifactPullsHandler", parseArtifactPullFilters ** GetArtifactVersionPulls ** Ok)
getArtifactsByCustomer ==
    Handler("getArtifactsByCustomer",
        Either(GetCustomerOrganizationsByPartnerOrgID, GetCustomerOrganizationsByOrganizationID) ** GetArtifactsByOrgID
        ** Opt(Logged(GetLatestPullOfArtifactByCustomerOrganization) ** GetVersionsForArtifact) ** RespondJSON)
ArtifactPullsRouter ==
    With(InOrg \cup VendorOrPartner,
        {getArtifactPullsHandler, getArtifactPullFilterOptionsHandler, getArtifactPullVersionOptionsHandler,
         exportArtifactPullsHandler})
DashboardRouter == With(InOrg \cup VendorOrPartner, {getArtifactsByCustomer})

-----------------------------------------------------------------------------
(* Deployment targets.                                                      *)

isDeploymentTargetVisible == Check
deploymentTargetMiddleware == PathValue ** GetDeploymentTarget ** isDeploymentTargetVisible
(* The limit is counted and not locked: two requests at once may pass it.   *)
IsDeploymentTargetLimitReached == Read("DeploymentTarget") ** Check
getDeploymentTargets == Handler("getDeploymentTargets", GetDeploymentTargets ** RespondJSON)
getDeploymentTarget == Handler("getDeploymentTarget", RespondJSON)
createDeploymentTarget ==
    Handler("createDeploymentTarget",
        JsonBody ** Check ** GetCurrentAgentVersion ** Check
        ** RunTx(Opt(ValidateCustomerOrgBelongsToOrg ** Opt(GetCustomerOrganizationByID ** Check))
                 ** IsDeploymentTargetLimitReached ** CreateDeploymentTarget) ** RespondJSON)
updateDeploymentTarget ==
    Handler("updateDeploymentTarget", JsonBody ** Check ** UpdateDeploymentTarget ** RespondJSON)
deleteDeploymentTarget ==
    Handler("deleteDeploymentTarget", Check ** isDeploymentTargetVisible ** DeleteDeploymentTargetWithID ** Ok)
BuildConnectURL == Check
GenerateConnectCommand == Check
createAccessForDeploymentTarget ==
    Handler("createAccessForDeploymentTarget",
        Check ** UpdateDeploymentTargetAccess ** BuildConnectURL ** GenerateConnectCommand ** RespondJSON)
getDeploymentTargetNotesHandler ==
    Handler("getDeploymentTargetNotesHandler", GetDeploymentTargetNotes ** RespondJSON)
putDeploymentTargetNotesHandler ==
    Handler("putDeploymentTargetNotesHandler", JsonBody ** CreateOrUpdateDeploymentTargetNotes ** RespondJSON)
getDeploymentTargetLogRecordsHandler ==
    Handler("getDeploymentTargetLogRecordsHandler", QueryParam ** GetDeploymentTargetLogRecords ** RespondJSON)
exportDeploymentTargetLogRecordsHandler ==
    Handler("exportDeploymentTargetLogRecordsHandler", GetDeploymentTargetLogRecordsSeq ** Ok)
DeploymentTargetsRouter ==
    With(InOrg,
        {getDeploymentTargets} \cup With(Mutating, {createDeploymentTarget})
        \cup After(deploymentTargetMiddleware,
                {getDeploymentTarget, getDeploymentTargetNotesHandler, getDeploymentTargetLogRecordsHandler,
                 exportDeploymentTargetLogRecordsHandler}
                \cup With(Mutating, {updateDeploymentTarget, deleteDeploymentTarget, createAccessForDeploymentTarget,
                                     putDeploymentTargetNotesHandler})))

getLatestDeploymentTargetMetrics ==
    Handler("getLatestDeploymentTargetMetrics", GetLatestDeploymentTargetMetrics ** RespondJSON)
DeploymentTargetMetricsRouter == With(InOrg, {getLatestDeploymentTargetMetrics})
getAgentVersionsHandler == Handler("getAgentVersionsHandler", GetAgentVersions ** RespondJSON)
AgentVersionsRouter == With({"Authentication"}, {getAgentVersionsHandler})
getExperimentalFeatureFlagsHandler == Handler("getExperimentalFeatureFlagsHandler", RespondJSON)
ExperimentalFeatureFlagsRouter == With(InOrg \cup {"RequireAdmin"}, {getExperimentalFeatureFlagsHandler})

-----------------------------------------------------------------------------
(* Deployments.                                                             *)

deploymentMiddleware == PathValue ** GetDeployment
resolveDeploymentEntitlement ==
    Check ** Opt(Either(GetApplicationEntitlementByID, GetApplicationEntitlementsWithOrganizationID ** Check))
validateDeploymentRequestEntitlement == Check
validateDeploymentRequestDeploymentType == Check
validateDeploymentRequestDeploymentTarget == isDeploymentTargetVisible
validateDeploymentRequestValues == Check
validateDeploymentRequest ==
    GetApplicationForApplicationVersionID ** GetApplicationVersion ** GetDeploymentTarget
    ** GetSecretsForDeploymentTarget ** GetLicenseKeysForDeploymentTarget
    ** resolveDeploymentEntitlement ** validateDeploymentRequestEntitlement
    ** validateDeploymentRequestDeploymentType ** validateDeploymentRequestDeploymentTarget
    ** validateDeploymentRequestValues
setDeploymentRequestValuesHash == Check
putDeployment ==
    Handler("putDeployment",
        JsonBody ** IgnoredTx(validateDeploymentRequest ** setDeploymentRequestValuesHash
            ** Either(CreateDeployment, GetDeployment ** Opt(UpdateDeploymentEntitlement))
            ** CreateDeploymentRevision ** Ok))
(* Success is not answered at all, a failing commit neither.                *)
deleteDeploymentHandler ==
    Handler("deleteDeploymentHandler",
        IgnoredTx(GetDeploymentTargetForDeploymentID ** isDeploymentTargetVisible ** DeleteDeploymentWithID))
getDeploymentStatus == Handler("getDeploymentStatus", QueryParam ** GetDeploymentRevisionStatus ** RespondJSON)
exportDeploymentStatusHandler ==
    Handler("exportDeploymentStatusHandler", Streamed("DeploymentRevisionStatus") ** Ok)
getDeploymentLogsResourcesHandler ==
    Handler("getDeploymentLogsResourcesHandler", GetDeploymentLogRecordResources ** RespondJSON)
getDeploymentLogsHandler ==
    Handler("getDeploymentLogsHandler",
        QueryParam ** GetDeploymentTargetForDeploymentID ** GetSecretsForDeploymentTarget ** GetDeploymentLogRecords
        ** RespondJSON)
exportDeploymentLogsHandler ==
    Handler("exportDeploymentLogsHandler",
        QueryParam ** GetDeploymentTargetForDeploymentID ** GetSecretsForDeploymentTarget
        ** Streamed("DeploymentLogRecord") ** Ok)
DeploymentsRouter ==
    With(InOrg,
        With(Mutating, {putDeployment})
        \cup After(deploymentMiddleware,
                {getDeploymentStatus, exportDeploymentStatusHandler, getDeploymentLogsHandler,
                 getDeploymentLogsResourcesHandler, exportDeploymentLogsHandler, getDeploymentConfigurationDriftHandler}
                \cup With(Mutating, {deleteDeploymentHandler})))

-----------------------------------------------------------------------------
(* Secrets, alerts, tutorials and files.                                    *)

getSecretsHandler == Handler("getSecretsHandler", GetSecrets ** RespondJSON)
createSecretHandler ==
    Handler("createSecretHandler",
        JsonBody ** Check ** Opt(ValidateCustomerOrgBelongsToPartnerOrg) ** CreateSecret ** RespondJSON)
updateSecretHandler ==
    Handler("updateSecretHandler",
        PathValue ** JsonBody ** GetSecretByID ** findAffectedDeployments ** Check
        ** RunTx(UpdateSecret ** triggerAffectedDeployments) ** RespondJSON)
deleteSecretHandler ==
    Handler("deleteSecretHandler", PathValue ** GetSecretByID ** findReferencingDeployments ** Check ** DeleteSecret ** Ok)
SecretsRouter ==
    With(InOrg, {getSecretsHandler} \cup With(Mutating, {createSecretHandler, updateSecretHandler, deleteSecretHandler}))

getAlertConfigurationsHandler == Handler("getAlertConfigurationsHandler", GetAlertConfigurations ** RespondJSON)
createAlertConfigurationHandler ==
    Handler("createAlertConfigurationHandler", JsonBody ** CreateAlertConfiguration ** RespondJSON)
updateAlertConfigurationHandler ==
    Handler("updateAlertConfigurationHandler", PathValue ** JsonBody ** UpdateAlertConfiguration ** RespondJSON)
deleteAlertConfigurationHandler ==
    Handler("deleteAlertConfigurationHandler", PathValue ** DeleteAlertConfiguration)
AlertConfigurationsRouter ==
    With({"Authentication", "ProFeature"},
        {getAlertConfigurationsHandler}
        \cup With({"RequireReadWriteOrAdmin"},
                {createAlertConfigurationHandler, updateAlertConfigurationHandler, deleteAlertConfigurationHandler}))
getNotificationRecordsHandler == Handler("getNotificationRecordsHandler", GetNotificationRecords ** RespondJSON)
NotificationRecordsRouter == With({"Authentication", "ProFeature"}, {getNotificationRecordsHandler})

createHelloDistrApp == CreateApplication ** CreateApplicationVersion
createHelloDistrDeploymentTarget == GetCurrentAgentVersion ** CreateDeploymentTarget
createHelloDistrDeploymentAndRevision == CreateDeployment ** Check ** CreateDeploymentRevision
createSampleAppAndDeployment ==
    createHelloDistrApp ** createHelloDistrDeploymentTarget ** createHelloDistrDeploymentAndRevision
getTutorialProgresses == Handler("getTutorialProgresses", GetTutorialProgresses ** RespondJSON)
getTutorialProgress == Handler("getTutorialProgress", GetTutorialProgress ** RespondJSON)
saveTutorialProgress ==
    Handler("saveTutorialProgress",
        JsonBody ** IgnoredTx(Opt(createSampleAppAndDeployment) ** SaveTutorialProgress ** RespondJSON))
TutorialsRouter ==
    With(InOrg \cup {"RequireVendor", "RequireAdmin"},
        {getTutorialProgresses, getTutorialProgress} \cup With({"BlockSuperAdmin"}, {saveTutorialProgress}))

fileMiddleware == PathValue ** GetFileWithID ** Check
getFileFromRequest == Check
getFileHandler == Handler("getFileHandler", Ok)
createFileHandler == Handler("createFileHandler", getFileFromRequest ** CreateFile ** RespondJSON)
deleteFileHandler == Handler("deleteFileHandler", Opt(DeleteFileWithID) ** Ok)     \* nothing when it is gone
FileRouter ==
    With(InOrg, {createFileHandler} \cup After(fileMiddleware, {getFileHandler, deleteFileHandler}))

-----------------------------------------------------------------------------
(* Support bundles: a customer asks for one, a script on his machine        *)
(* collects it with the secret of the bundle.                               *)

requireSupportBundle ==
    PathValue ** GetSupportBundleByID ** Check ** Opt(ValidateCustomerOrgBelongsToPartnerOrg)
CloseSupportBundle == RunTx(UpdateSupportBundleStatus ** ClearSupportBundleBundleSecret)
getSupportBundleConfigurationHandler ==
    Handler("getSupportBundleConfigurationHandler", GetSupportBundleConfigurationEnvVars ** RespondJSON)
createOrUpdateSupportBundleConfigurationHandler ==
    Handler("createOrUpdateSupportBundleConfigurationHandler",
        JsonBody ** Check ** SaveSupportBundleConfigurationEnvVars ** GetSupportBundleConfigurationEnvVars ** RespondJSON)
getSupportBundlesHandler == Handler("getSupportBundlesHandler", GetSupportBundles ** RespondJSON)
createSupportBundleHandler ==
    Handler("createSupportBundleHandler",
        Check ** JsonBody ** Check ** GetOrganizationByID ** CreateSupportBundle ** GetSupportBundleByID ** RespondJSON)
getSupportBundleDetailHandler ==
    Handler("getSupportBundleDetailHandler",
        requireSupportBundle ** GetSupportBundleResources ** GetSupportBundleComments ** Opt(GetOrganizationByID)
        ** RespondJSON)
updateSupportBundleStatusHandler ==
    Handler("updateSupportBundleStatusHandler",
        JsonBody ** Check ** requireSupportBundle ** Check ** Either(CloseSupportBundle, UpdateSupportBundleStatus) ** Ok)
createSupportBundleCommentHandler ==
    Handler("createSupportBundleCommentHandler",
        requireSupportBundle ** JsonBody ** Check ** CreateSupportBundleComment ** RespondJSON)
SupportBundlesRouter ==
    With(InOrg \cup {"ProFeature"},
        {getSupportBundlesHandler, getSupportBundleDetailHandler}
        \cup With(Vendor, {getSupportBundleConfigurationHandler}
                \cup With(Mutating, {createOrUpdateSupportBundleConfigurationHandler}))
        \cup With(Mutating, {createSupportBundleHandler, updateSupportBundleStatusHandler,
                             createSupportBundleCommentHandler}))

getCollectScriptHandler ==
    Handler("getCollectScriptHandler", GetOrganizationByID ** GetSupportBundleConfigurationEnvVars ** Check ** Ok)
uploadSupportBundleResourceHandler ==
    Handler("uploadSupportBundleResourceHandler", Check ** CreateSupportBundleResource ** RespondJSON)
finalizeSupportBundleHandler == Handler("finalizeSupportBundleHandler", Check ** CloseSupportBundle ** Ok)
SupportBundleScriptRouter ==
    With({"SupportBundleAuthentication"},
        {getCollectScriptHandler, uploadSupportBundleResourceHandler, finalizeSupportBundleHandler})

-----------------------------------------------------------------------------
(* What agents call.  A notification is sent by a goroutine of its own: it  *)
(* never decides the answer.                                                *)

getVerifiedDeploymentTarget == GetDeploymentTarget ** Check
queryAuthDeploymentTargetCtxMiddleware == QueryParam ** getVerifiedDeploymentTarget
agentAuthDeploymentTargetCtxMiddleware ==
    GetDeploymentTarget
    ** Opt(Logged(GetAgentVersionWithName) ** Opt(Logged(UpdateDeploymentTargetReportedAgentVersionID)))
GetManifest == Check                        \* agentmanifest.Get
connectHandler == Handler("connectHandler", GetOrganizationByID ** GetManifest ** Ok)
preConnectHandler == Handler("preConnectHandler", GetOrganizationByID ** Check ** Ok)
agentLoginHandler == Handler("agentLoginHandler", Check ** getVerifiedDeploymentTarget ** Check ** RespondJSON)
agentManifestHandler == Handler("agentManifestHandler", GetOrganizationByID ** GetManifest ** Ok)
agentResourcesHandler ==
    Handler("agentResourcesHandler",
        GetDeploymentsForDeploymentTarget
        ** Opt(GetApplicationVersion ** Opt(GetApplicationEntitlementByID) ** GetSecretsForDeploymentTarget
               ** GetLicenseKeysForDeploymentTarget ** Check) ** RespondJSON)
agentPostStatusHandler ==
    Handler("agentPostStatusHandler",
        JsonBody ** GetDeploymentIDForRevisionID ** Check ** GetLatestDeploymentRevisionStatus
        ** CreateDeploymentRevisionStatus ** LoggedSend("SendDeploymentStatusNotifications") ** Ok)
agentPostMetricsHander ==
    Handler("agentPostMetricsHander",
        JsonBody ** GetLatestDeploymentTargetMetricsForID ** CreateDeploymentTargetMetrics
        ** LoggedSend("SendDeploymentTargetMetricsNotifications") ** Ok)
agentPutDeploymentLogsHandler ==
    Handler("agentPutDeploymentLogsHandler", JsonBody ** ValidateDeploymentLogRecords ** SaveDeploymentLogRecords ** Ok)
agentPutDeploymentTargetLogsHandler ==
    Handler("agentPutDeploymentTargetLogsHandler", JsonBody ** SaveDeploymentTargetLogRecords ** Ok)
ensureDeploymentTargetForCapabilityReport == Read("DeploymentTarget") ** Check
upsertAgentCapabilityReport == Write("AgentCapabilityReport")
replaceAgentActionCapabilities == Write("AgentActionCapability") ** Opt(Write("AgentActionCapability"))
GetAgentCapabilityReportForDeploymentTarget == Read("AgentCapabilityReport")
UpsertAgentCapabilityReport ==
    RunTx(ensureDeploymentTargetForCapabilityReport ** upsertAgentCapabilityReport ** replaceAgentActionCapabilities
          ** GetAgentCapabilityReportForDeploymentTarget)
postAgentCapabilitiesHandler ==
    Handler("postAgentCapabilitiesHandler", PathValue ** JsonBody ** Check ** UpsertAgentCapabilityReport ** RespondJSON)
(* The tasks of an agent: see TaskLeases for what the calls do.             *)
postAgentLeaseHandler ==
    Handler("postAgentLeaseHandler",
        PathValue ** Check ** RunTx(Opt(Write("TaskLease") ** Write("Task"))) ** RespondJSON)
postAgentTaskHeartbeatHandler ==
    Handler("postAgentTaskHeartbeatHandler", PathValue ** JsonBody ** Check ** RunTx(Write("TaskLease")) ** RespondJSON)
getAgentTaskTimelineHandler ==
    Handler("getAgentTaskTimelineHandler", PathValue ** Read("Task") ** Check ** Read("StepRun") ** RespondJSON)
postAgentStepRunEventHandler ==
    Handler("postAgentStepRunEventHandler",
        PathValue ** JsonBody ** Check ** RunTx(Check ** Opt(Write("StepRunEvent") ** Write("StepRun"))) ** RespondJSON)
AgentRouter ==
    After(queryAuthDeploymentTargetCtxMiddleware, {preConnectHandler, connectHandler})
    \cup {agentLoginHandler}
    \cup With({"AgentAuthentication"}, After(agentAuthDeploymentTargetCtxMiddleware,
            {agentManifestHandler, agentResourcesHandler, agentPostStatusHandler, agentPostMetricsHander,
             agentPutDeploymentLogsHandler, agentPutDeploymentTargetLogsHandler, postAgentCapabilitiesHandler,
             postAgentLeaseHandler, postAgentTaskHeartbeatHandler, getAgentTaskTimelineHandler,
             postAgentStepRunEventHandler}))

PlatformRoutes ==
    ApplicationsRouter \cup ApplicationEntitlementsRouter \cup ArtifactsRouter \cup ArtifactEntitlementsRouter
    \cup ArtifactPullsRouter \cup DashboardRouter \cup DeploymentTargetsRouter \cup DeploymentTargetMetricsRouter
    \cup AgentVersionsRouter \cup ExperimentalFeatureFlagsRouter \cup DeploymentsRouter \cup SecretsRouter
    \cup AlertConfigurationsRouter \cup NotificationRecordsRouter \cup TutorialsRouter \cup FileRouter
    \cup SupportBundlesRouter \cup SupportBundleScriptRouter \cup AgentRouter
=============================================================================
