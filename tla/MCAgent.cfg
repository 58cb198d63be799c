SPECIFICATION MCSpec
CONSTANTS
    p1 = p1
    t1 = t1
    sa = sa
    sb = sb
    sc = sc
    r1 = r1
    r2 = r2
    h = h
    g = g
    x = x
    pub = pub
    loop = loop
    a = a
    b = b
    c = c
    NoProc = NoProc
    Proc = {a, b, c}
    HasSecrets = TRUE
    Backup = TRUE
    RequestedMode = {"owner", "group"}
    MaxInodes = 6
    MaxRenders = 2
    MaxSwaps = 2
    Run = {r1, r2}
    Host = {h, g, x}
    Allowed = {h, g}
    Private = {g}
    HalfOpen = {h}
    Addr = {pub, loop}
    Unsafe = {loop}
    PerSecond = 1
    Concurrent = 1
    ProbeLimit = 1
    FailureLimit = 1
    MaxRequests = 2
    MaxSecond = 2
    Plan = {p1}
    Target = {t1}
    Component = {}
    PlanTargets <- MCPlanTargets
    PlanComponents <- MCPlanComponents
    AdditionalResource = {}
    SortKey <- MCSortKey
    Step = {sa, sb, sc}
    PlanSteps <- MCPlanSteps
    Included = {sa, sb, sc}
    Location <- MCLocation
    Dependencies <- MCDependencies
    MaxAttempts = 2
    MaxEvents = 5
    ActionType <- MCActionType
    MaxProgress = 2
    MaxTries = 2
    NoStep = NoStep
    NoTask = NoTask
INVARIANTS
    SuccessWasCarriedOut
    RequestsAnnounced
    WebhookSafe
    JobRunsOnce
    FileRenderSafe
SYMMETRY MCSymmetry
CHECK_DEADLOCK FALSE
