SPECIFICATION ExecRun
CONSTANTS
    sa = sa
    sb = sb
    sx = sx
    Step = {}
    PlanSteps <- MCPlanSteps
    Included = {}
    Location <- MCLocation
    Dependencies <- MCDependencies
    MaxAttempts = 0
    MaxEvents = 0
    t1 = t1
    p1 = p1
    p2 = p2
    c1 = c1
    c2 = c2
    w1 = w1
    w2 = w2
    Plan = {p1, p2}
    Component = {c1, c2}
    Webhook = {w1, w2}
    MaxEventCount = 3
    Target = {t1}
    PlanTargets <- MCPlanTargets
    PlanComponents <- MCPlanComponents
    AdditionalResource = {}
    SortKey <- MCSortKey
    PlanWebhooks <- MCPlanWebhooks
    WebhookComponent <- MCWebhookComponent
CONSTRAINT ExecBound
INVARIANTS
    HistoryExplainsStatus
    EverySuccessProjectedOnce
PROPERTIES
    ProjectsOnlyWhileTaskRuns
    NoPrepareAfterSuccess
CHECK_DEADLOCK FALSE
