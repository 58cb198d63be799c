---------------------------- MODULE ApiDelivery ----------------------------
(***************************************************************************)
(* The API of the delivery side: channels, lifecycles, environments,        *)
(* processes, runbooks, variables, releases, plans, tasks and executions.   *)
(* Every handler parses its request, makes one call into internal/db, and   *)
(* answers; the calls that write more than one table run in a transaction   *)
(* of their own (see the modules of the components for what they do).       *)
(***************************************************************************)
EXTENDS ApiData

Vendors == {"Authentication", "RequireVendor", "RequireOrgAndRole"}

Lists(x) == Read(x) ** RespondJSON
Gets(x) == PathValue ** Read(x) ** RespondJSON
Creates(op) == JsonBody ** Check ** op ** RespondJSON
Updates(op) == PathValue ** JsonBody ** Check ** op ** RespondJSON
Deletes(op) == PathValue ** op ** Ok
Transitions(op) == PathValue ** op ** RespondJSON

(* EnsureConfigAsCodeDatabaseManagedForUpdate, and what a deletion takes    *)
(* with it.                                                                 *)
databaseManaged == Read("ConfigAsCodeAuthority") ** Check
DeletesManaged(x) == databaseManaged ** Write("ConfigAsCodeAuthority") ** Write(x)

-----------------------------------------------------------------------------
(* Channels.                                                                *)

getChannelsHandler == Handler("getChannelsHandler", Lists("Channel"))
getChannelHandler == Handler("getChannelHandler", Gets("Channel"))
validateChannelVersionHandler ==
    Handler("validateChannelVersionHandler", PathValue ** JsonBody ** Check ** Read("Channel") ** Check ** RespondJSON)
createChannelHandler ==
    Handler("createChannelHandler", Creates(RunTx(Check ** Opt(Write("Channel.is_default")) ** Write("Channel"))))
updateChannelHandler ==
    Handler("updateChannelHandler", Updates(RunTx(Read("Channel") ** databaseManaged ** Check ** Opt(Write("Channel.is_default")) ** Write("Channel"))))
deleteChannelHandler ==
    Handler("deleteChannelHandler", Deletes(RunTx(Read("Channel") ** Check ** DeletesManaged("Channel"))))
ChannelsRouter ==
    With(Vendors, {getChannelsHandler, getChannelHandler, validateChannelVersionHandler}
        \cup With(Mutating, {createChannelHandler, updateChannelHandler, deleteChannelHandler}))

(* Lifecycles and environments.                                             *)

getLifecyclesHandler == Handler("getLifecyclesHandler", Lists("Lifecycle"))
getLifecycleHandler == Handler("getLifecycleHandler", Gets("Lifecycle"))
getLifecyclePhasesHandler == Handler("getLifecyclePhasesHandler", Gets("LifecyclePhase"))
createLifecycleHandler ==
    Handler("createLifecycleHandler", Creates(RunTx(Write("Lifecycle") ** Write("LifecyclePhase"))))
updateLifecycleHandler ==
    Handler("updateLifecycleHandler", Updates(RunTx(databaseManaged ** Write("Lifecycle") ** Write("LifecyclePhase"))))
replaceLifecyclePhasesHandler ==
    Handler("replaceLifecyclePhasesHandler", Updates(RunTx(databaseManaged ** Write("LifecyclePhase"))))
deleteLifecycleHandler ==
    Handler("deleteLifecycleHandler", Deletes(RunTx(DeletesManaged("Lifecycle"))))
LifecyclesRouter ==
    With(Vendors, {getLifecyclesHandler, getLifecycleHandler, getLifecyclePhasesHandler}
        \cup With(Mutating, {createLifecycleHandler, updateLifecycleHandler, replaceLifecyclePhasesHandler,
                             deleteLifecycleHandler}))

getEnvironmentsHandler == Handler("getEnvironmentsHandler", Lists("Environment"))
getEnvironmentHandler == Handler("getEnvironmentHandler", Gets("Environment"))
createEnvironmentHandler == Handler("createEnvironmentHandler", Creates(Write("Environment")))
updateEnvironmentHandler == Handler("updateEnvironmentHandler", Updates(Write("Environment")))
deleteEnvironmentHandler == Handler("deleteEnvironmentHandler", Deletes(Write("Environment")))
EnvironmentsRouter ==
    With(Vendors, {getEnvironmentsHandler, getEnvironmentHandler}
        \cup With(Mutating, {createEnvironmentHandler, updateEnvironmentHandler, deleteEnvironmentHandler}))

-----------------------------------------------------------------------------
(* Deployment processes, runbooks and step templates.                       *)

getDeploymentProcessesHandler == Handler("getDeploymentProcessesHandler", Lists("DeploymentProcess"))
getDeploymentProcessHandler == Handler("getDeploymentProcessHandler", Gets("DeploymentProcess"))
getDeploymentProcessRevisionsHandler ==
    Handler("getDeploymentProcessRevisionsHandler", Gets("DeploymentProcessRevision"))
getDeploymentProcessRevisionHandler ==
    Handler("getDeploymentProcessRevisionHandler", PathValue ** Gets("DeploymentProcessRevision"))
createDeploymentProcessHandler ==
    Handler("createDeploymentProcessHandler", Creates(Write("DeploymentProcess")))
updateDeploymentProcessHandler ==
    Handler("updateDeploymentProcessHandler", Updates(RunTx(Read("DeploymentProcess") ** databaseManaged ** Check ** Write("DeploymentProcess"))))
deleteDeploymentProcessHandler ==
    Handler("deleteDeploymentProcessHandler", Deletes(RunTx(DeletesManaged("DeploymentProcess"))))
createDeploymentProcessRevisionHandler ==
    Handler("createDeploymentProcessRevisionHandler",
        Updates(RunTx(Read("DeploymentProcess") ** databaseManaged ** Check ** Write("DeploymentProcessRevision")
                      ** Write("DeploymentProcessStep") ** Read("DeploymentProcessRevision"))))
DeploymentProcessesRouter ==
    With(Vendors, {getDeploymentProcessesHandler, getDeploymentProcessHandler,
                   getDeploymentProcessRevisionsHandler, getDeploymentProcessRevisionHandler}
        \cup With(Mutating, {createDeploymentProcessHandler, updateDeploymentProcessHandler,
                             deleteDeploymentProcessHandler, createDeploymentProcessRevisionHandler}))

getRunbooksHandler == Handler("getRunbooksHandler", Lists("Runbook"))
getRunbookHandler == Handler("getRunbookHandler", Gets("Runbook"))
getRunbookRevisionsHandler == Handler("getRunbookRevisionsHandler", Gets("RunbookRevision"))
getRunbookRevisionHandler == Handler("getRunbookRevisionHandler", PathValue ** Gets("RunbookRevision"))
createRunbookHandler == Handler("createRunbookHandler", Creates(Write("Runbook")))
updateRunbookHandler ==
    Handler("updateRunbookHandler", Updates(RunTx(Read("Runbook") ** databaseManaged ** Check ** Write("Runbook"))))
deleteRunbookHandler ==
    Handler("deleteRunbookHandler", Deletes(RunTx(DeletesManaged("Runbook"))))
createRunbookRevisionHandler ==
    Handler("createRunbookRevisionHandler",
        Updates(RunTx(Read("Runbook") ** databaseManaged ** Check ** Write("RunbookRevision") ** Write("RunbookStep")
                      ** Read("RunbookRevision"))))
publishRunbookRevisionHandler ==
    Handler("publishRunbookRevisionHandler",
        PathValue ** Transitions(RunTx(databaseManaged ** Read("RunbookRevision") ** Check ** Write("RunbookSnapshot")
                                       ** Opt(Read("RunbookSnapshot")))))
RunbooksRouter ==
    With(Vendors, {getRunbooksHandler, getRunbookHandler, getRunbookRevisionsHandler, getRunbookRevisionHandler}
        \cup With(Mutating, {createRunbookHandler, updateRunbookHandler, deleteRunbookHandler,
                             createRunbookRevisionHandler, publishRunbookRevisionHandler}))

getStepTemplatesHandler == Handler("getStepTemplatesHandler", Lists("StepTemplate"))
getStepTemplateHandler == Handler("getStepTemplateHandler", Gets("StepTemplate"))
importStepTemplateHandler ==
    Handler("importStepTemplateHandler",
        Creates(RunTx(Read("StepTemplate") ** Either(Write("StepTemplate"), databaseManaged) ** Write("StepTemplateVersion"))
                ** Read("StepTemplate")))
StepTemplatesRouter ==
    With(Vendors, {getStepTemplatesHandler, getStepTemplateHandler} \cup With(Mutating, {importStepTemplateHandler}))

getActionDefinitionsHandler == Handler("getActionDefinitionsHandler", RespondJSON)
ActionDefinitionsRouter == With(Vendors, {getActionDefinitionsHandler})

-----------------------------------------------------------------------------
(* Variables.                                                               *)

getVariableSetsHandler == Handler("getVariableSetsHandler", Lists("VariableSet"))
getVariableSetHandler == Handler("getVariableSetHandler", Gets("VariableSet"))
createVariableSetHandler ==
    Handler("createVariableSetHandler", Creates(RunTx(Check ** Write("VariableSet") ** Write("Variable"))))
updateVariableSetHandler ==
    Handler("updateVariableSetHandler",
        Updates(RunTx(Read("VariableSet") ** databaseManaged ** Check ** Write("VariableSet") ** Write("Variable"))))
deleteVariableSetHandler ==
    Handler("deleteVariableSetHandler", Deletes(RunTx(DeletesManaged("VariableSet"))))
resolveVariablesPreviewHandler ==
    Handler("resolveVariablesPreviewHandler", JsonBody ** Check ** Read("Variable") ** Check ** RespondJSON)
VariableSetsRouter ==
    With(Vendors, {getVariableSetsHandler, getVariableSetHandler}
        \cup With(Mutating, {createVariableSetHandler, updateVariableSetHandler, deleteVariableSetHandler}))
VariablesRouter == With(Vendors, {resolveVariablesPreviewHandler})

getVariableSnapshotHandler == Handler("getVariableSnapshotHandler", Gets("VariableSnapshot"))
getDeploymentConfigurationDriftHandler ==
    Handler("getDeploymentConfigurationDriftHandler", Gets("Deployment"))
VariableSnapshotsRouter == With(Vendors, {getVariableSnapshotHandler})

-----------------------------------------------------------------------------
(* Release bundles.                                                         *)

getReleaseBundlesHandler == Handler("getReleaseBundlesHandler", Lists("ReleaseBundle"))
getReleaseBundleHandler == Handler("getReleaseBundleHandler", Gets("ReleaseBundle"))
getReleaseBundleEligibilityHandler ==
    Handler("getReleaseBundleEligibilityHandler", PathValue ** QueryParam ** Read("ReleaseBundle") ** RespondJSON)
validateReleaseBundleHandler == Handler("validateReleaseBundleHandler", Gets("ReleaseBundle"))
getReleaseBundleProcessSnapshotHandler ==
    Handler("getReleaseBundleProcessSnapshotHandler", Gets("ProcessSnapshot"))
insertReleaseBundle == Write("ReleaseBundle") ** Write("ReleaseBundleComponent")
createReleaseBundleHandler ==
    Handler("createReleaseBundleHandler",
        Creates(RunTx(Check ** Either(
            insertReleaseBundle,
            Read("ReleaseBundleIdempotencyKey")
              ** Either(Read("ReleaseBundle"), insertReleaseBundle ** Write("ReleaseBundleIdempotencyKey"))))))
updateReleaseBundleHandler ==
    Handler("updateReleaseBundleHandler",
        Updates(RunTx(Read("ReleaseBundle") ** Check ** Write("ReleaseBundle") ** Write("ReleaseBundleComponent")
                      ** Read("ReleaseBundle"))))
deleteReleaseBundleHandler ==
    Handler("deleteReleaseBundleHandler", Deletes(RunTx(Read("ReleaseBundle") ** Check ** Write("ReleaseBundle"))))
(* An attempt the bundle does not allow is written to its audit trail, and  *)
(* refused.                                                                 *)
refusedTransition == RunTx(Read("ReleaseBundle") ** Write("ReleaseBundleAuditEvent")) ** Refuse
publishReleaseBundleHandler ==
    Handler("publishReleaseBundleHandler", PathValue ** Either(refusedTransition,
        RunTx(Read("ReleaseBundle") ** Check ** Write("VariableSnapshot") ** Write("ReleaseBundle")
              ** Write("ReleaseBundleAuditEvent")) ** RespondJSON))
releaseBundleTransitionHandler ==
    PathValue ** Either(refusedTransition,
        RunTx(Read("ReleaseBundle") ** Write("ReleaseBundle") ** Write("ReleaseBundleAuditEvent")) ** RespondJSON)
blockReleaseBundleHandler == Handler("blockReleaseBundleHandler", releaseBundleTransitionHandler)
archiveReleaseBundleHandler == Handler("archiveReleaseBundleHandler", releaseBundleTransitionHandler)
ReleaseBundlesRouter ==
    With(Vendors, {getReleaseBundlesHandler, getReleaseBundleHandler, getReleaseBundleEligibilityHandler,
                   validateReleaseBundleHandler, getReleaseBundleProcessSnapshotHandler}
        \cup With(Mutating, {createReleaseBundleHandler, updateReleaseBundleHandler, deleteReleaseBundleHandler,
                             publishReleaseBundleHandler, blockReleaseBundleHandler, archiveReleaseBundleHandler}))

-----------------------------------------------------------------------------
(* Deployment plans, tasks, executions.                                     *)

CreateDeploymentPlan ==
    Check ** RunTx(Read("ReleaseBundle") ** Check ** Write("DeploymentPlan") ** Write("DeploymentPlanTarget")
          ** Write("DeploymentPlanTargetComponent") ** Write("DeploymentPlanStep") ** Write("DeploymentPlanVariable")
          ** Write("DeploymentPlanIssue") ** Read("DeploymentPlan"))

getDeploymentPlansHandler == Handler("getDeploymentPlansHandler", Lists("DeploymentPlan"))
getDeploymentPlanHandler == Handler("getDeploymentPlanHandler", Gets("DeploymentPlan"))
createDeploymentPlanHandler == Handler("createDeploymentPlanHandler", Creates(CreateDeploymentPlan))
createTasksForDeploymentPlanHandler ==
    Handler("createTasksForDeploymentPlanHandler",
        PathValue ** Opt(JsonBody ** Check) ** Either(
            RunTx(Read("DeploymentPlan") ** Check ** Write("DeploymentPreflight")) ** Refuse,
            RunTx(Read("DeploymentPlan") ** Check
                  ** Opt(Write("DeploymentPreflight") ** Write("Task") ** Write("TaskResourceLock") ** Write("StepRun")
                         ** Write("DeploymentPreflightTask") ** Write("DeploymentPlan") ** Read("Task")))
            ** RespondJSON))
DeploymentPlansRouter ==
    With(Vendors, {getDeploymentPlansHandler, getDeploymentPlanHandler}
        \cup With(Mutating, {createDeploymentPlanHandler, createTasksForDeploymentPlanHandler}))

getTasksHandler == Handler("getTasksHandler", Lists("Task"))
getTaskHandler == Handler("getTaskHandler", Gets("Task"))
getTaskTimelineHandler == Handler("getTaskTimelineHandler", Gets("StepRunEvent"))
getTaskLogsHandler == Handler("getTaskLogsHandler", Gets("StepRunEvent"))
transitionTaskStateHandler ==
    Handler("transitionTaskStateHandler",
        Updates(RunTx(Read("Task") ** Check ** Opt(Write("TaskResourceLock")) ** Write("Task")
                      ** Opt(Write("TaskLease") ** Write("TaskResourceLock")) ** Read("Task"))))
TasksRouter ==
    With(Vendors, {getTasksHandler, getTaskHandler, getTaskTimelineHandler, getTaskLogsHandler}
        \cup With(Mutating, {transitionTaskStateHandler}))

getExternalExecutionHandler ==
    Handler("getExternalExecutionHandler", PathValue ** Read("ExternalExecution") ** Read("ExternalExecutionEvent") ** RespondJSON)
recordExternalExecutionCallbackHandler ==
    Handler("recordExternalExecutionCallbackHandler",
        Updates(RunTx(Read("ExternalExecution") ** Check
                      ** Opt(Write("ExternalExecutionEvent") ** Write("ExternalExecution") ** Opt(Write("TargetComponentState"))))))
ExternalExecutionsRouter ==
    With(Vendors, {getExternalExecutionHandler} \cup With(Mutating, {recordExternalExecutionCallbackHandler}))

-----------------------------------------------------------------------------
(* The timeline: tasks and deployments of before, compared and repeated.    *)

GetDeploymentTimeline ==
    Check ** Read("Task") ** Read("ReleaseBundleComponent") ** Opt(Read("DeploymentRevision"))
CompareDeploymentTimelineTasks ==
    Check ** Opt(GetDeploymentTimeline) ** Opt(Read("DeploymentRevision")) ** Check ** Opt(Read("DeploymentPlan"))

getDeploymentTimelineHandler ==
    Handler("getDeploymentTimelineHandler", QueryParam ** GetDeploymentTimeline ** RespondJSON)
compareDeploymentTimelineHandler ==
    Handler("compareDeploymentTimelineHandler", QueryParam ** CompareDeploymentTimelineTasks ** RespondJSON)
redeployDeploymentTimelineTaskHandler ==
    Handler("redeployDeploymentTimelineTaskHandler",
        Transitions(Check ** Read("Task") ** Check ** CreateDeploymentPlan))
DeploymentTimelineRouter ==
    With(Vendors, {getDeploymentTimelineHandler, compareDeploymentTimelineHandler}
        \cup With(Mutating, {redeployDeploymentTimelineTaskHandler}))

-----------------------------------------------------------------------------
(* Configuration as code, retention, dashboards.                            *)

UpsertConfigAsCodeAuthority ==
    Check ** RunTx(Read("resource") ** Read("ConfigAsCodeAuthority") ** Write("ConfigAsCodeAuthority")
                   ** Opt(Write("ConfigAsCodeAuthorityAuditEvent")))

validateConfigAsCodeHandler == Handler("validateConfigAsCodeHandler", JsonBody ** RespondJSON)
getConfigAsCodeAuthoritiesHandler == Handler("getConfigAsCodeAuthoritiesHandler", Lists("ConfigAsCodeAuthority"))
getConfigAsCodeAuthorityHandler == Handler("getConfigAsCodeAuthorityHandler", Gets("ConfigAsCodeAuthority"))
putConfigAsCodeAuthorityHandler ==
    Handler("putConfigAsCodeAuthorityHandler", PathValue ** JsonBody ** UpsertConfigAsCodeAuthority ** RespondJSON)
ConfigAsCodeRouter ==
    With(Vendors, {validateConfigAsCodeHandler, getConfigAsCodeAuthoritiesHandler, getConfigAsCodeAuthorityHandler}
        \cup With(Mutating, {putConfigAsCodeAuthorityHandler}))

(* What a policy would remove; only dry runs are accepted.                  *)
PreviewRetentionCleanup ==
    Check ** Read("RetentionPolicy") ** Read("ReleaseBundle") ** Read("Task") ** Read("StepRunLogChunk")
CreateRetentionCleanupJob == Check ** RunTx(PreviewRetentionCleanup ** Write("RetentionCleanupJob"))

getRetentionPoliciesHandler == Handler("getRetentionPoliciesHandler", Lists("RetentionPolicy"))
getRetentionPolicyHandler == Handler("getRetentionPolicyHandler", Gets("RetentionPolicy"))
createRetentionPolicyHandler == Handler("createRetentionPolicyHandler", Creates(Check ** Write("RetentionPolicy")))
previewRetentionCleanupHandler ==
    Handler("previewRetentionCleanupHandler", PathValue ** PreviewRetentionCleanup ** RespondJSON)
createRetentionCleanupJobHandler ==
    Handler("createRetentionCleanupJobHandler", Updates(CreateRetentionCleanupJob))
RetentionPoliciesRouter ==
    With(Vendors, {getRetentionPoliciesHandler, getRetentionPolicyHandler, previewRetentionCleanupHandler}
        \cup With(Mutating, {createRetentionPolicyHandler, createRetentionCleanupJobHandler}))

getObservabilityDashboardsHandler == Handler("getObservabilityDashboardsHandler", RespondJSON)
ObservabilityRouter == With(Vendors, {getObservabilityDashboardsHandler})

DeliveryRoutes ==
    ChannelsRouter \cup LifecyclesRouter \cup EnvironmentsRouter \cup DeploymentProcessesRouter
    \cup RunbooksRouter \cup StepTemplatesRouter \cup ActionDefinitionsRouter \cup VariableSetsRouter
    \cup VariablesRouter \cup VariableSnapshotsRouter \cup ReleaseBundlesRouter \cup DeploymentPlansRouter
    \cup TasksRouter \cup ExternalExecutionsRouter \cup DeploymentTimelineRouter \cup ConfigAsCodeRouter
    \cup RetentionPoliciesRouter \cup ObservabilityRouter
=============================================================================
