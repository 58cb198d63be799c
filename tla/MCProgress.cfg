SPECIFICATION MCSpec
CONSTANTS
    p1 = p1
    t1 = t1
    c1 = c1
    sa = sa
    r1 = r1
    w1 = w1
    Plan = {p1}
    Target = {t1}
    Component = {c1}
    PlanTargets <- MCPlanTargets
    PlanComponents <- MCPlanComponents
    AdditionalResource = {}
    SortKey <- MCSortKey
    Step = {sa, r1, w1}
    PlanSteps <- MCPlanSteps
    Included = {sa, r1, w1}
    Location <- MCLocation
    Dependencies <- MCDependencies
    MaxAttempts = 2
    MaxEvents = 8
    Webhook = {w1}
    PlanWebhooks <- MCPlanWebhooks
    WebhookComponent <- MCWebhookComponent
    MaxEventCount = 2
    MaxTries = 2
    NoStep = NoStep
    TaskRequest <- MCTaskRequest
    Unreliable = TRUE
    Parts = {"hub", "sweep", "job"}
    N = 2
    Proc = {a, b}
    NoProc = NoProc
PROPERTIES
    SessionsEnd
    SweepsEnd
    EveryAttemptEnds
CHECK_DEADLOCK FALSE
