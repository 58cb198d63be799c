SPECIFICATION PollRun
CONSTANTS
    c1 = c1
    c2 = c2
    w1 = w1
    w2 = w2
    Webhook = {}
    PlanWebhooks <- MCPlanWebhooks
    WebhookComponent <- MCWebhookComponent
    MaxEventCount = 1
    p1 = p1
    p2 = p2
    t1 = t1
    sa = sa
    sb = sb
    sx = sx
    Plan = {p1, p2}
    Target = {t1}
    Component = {}
    PlanTargets <- MCPlanTargets
    PlanComponents <- MCPlanComponents
    AdditionalResource = {}
    SortKey <- MCSortKey
    Step = {sb}
    PlanSteps <- MCSamePlanSteps
    Included = {sb}
    Location <- MCLocation
    Dependencies <- MCDependencies
    MaxAttempts = 2
    MaxEvents = 2
PROPERTIES
    ExpiredIsReclaimed
CHECK_DEADLOCK FALSE
