SPECIFICATION MCSafety
CONSTANTS
    p1 = p1
    t1 = t1
    c1 = c1
    sa = sa
    r1 = r1
    w1 = w1
    Plan = {p1}
    Target = {t1}
    Component = {c1}
    PlanTargets <- MCPlanTargets
    PlanComponents <- MCPlanComponents
    AdditionalResource = {}
    SortKey <- MCSortKey
    Step = {w1}
    PlanSteps <- MCPlanSteps
    Included = {w1}
    Location <- MCLocation
    Dependencies <- MCDependencies
    MaxAttempts = 1
    MaxEvents = 8
    Webhook = {w1}
    PlanWebhooks <- MCPlanWebhooks
    WebhookComponent <- MCWebhookComponent
    MaxEventCount = 2
    MaxTries = 1
    NoStep = NoStep
    TaskRequest <- MCTaskRequest
    Unreliable = FALSE
    Parts = {"hub"}
    N = 0
    Proc = {a}
    NoProc = NoProc
INVARIANTS
    SuccessfulCallbackHonored
CHECK_DEADLOCK FALSE
