SPECIFICATION MCSpec
CONSTANTS
    Parts = {"channels", "releases", "plans", "variables", "processes", "runbooks"}
    Nil = Nil
    Channel = {c1, c2, c3}
    Application = {a1, a2}
    Lifecycle = {l1}
    Environment = {e1, e2}
    Session = {s1, s2}
    PhaseLists <- ChanPhases
    Bundle = {b1, b2}
    Key = {k1}
    BundleContents <- RelContents
    VersionName <- RelVersions
    RuleSets <- RelRules
    MaxEdits = 1
    Target = {t1, t2}
    Plan = {p1}
    Planner = {planner}
    ReleaseContents <- PlanContents
    Lifecycles <- PlanPhases
    Attributes <- PlanAttributes
    Reports <- PlanReports
    MaxVersion = 2
    VariableSets <- VarSets
    Deployments <- VarDeployments
    Secret = {"s", "r"}
    At <- VarAt
    Publication <- Published
    MaxEdition = 3
    ProcessChannel = {c1, c2}
    ProcessEnvironment = {e1}
    StepSets <- ProcessSteps
    RunbookStepSets <- RunbookSteps
    Versions <- TemplateVersions
    Registry = {"distr.compose", "distr.webhook"}
    MaxRevisions = 2
    e1 = e1
    e2 = e2
    c1 = c1
    c2 = c2
    c3 = c3
    a1 = a1
    a2 = a2
    l1 = l1
    s1 = s1
    s2 = s2
    b1 = b1
    b2 = b2
    k1 = k1
    t1 = t1
    t2 = t2
    p1 = p1
    av1 = av1
    av2 = av2
INVARIANTS
    ExactlyOneDefault
    ReleasesSound
    ReadyPlansAreOfTheRelease
    VariablesSound
    ProcessesSound
PROPERTIES
    FrozenStays
    TasksOnCheckedGround
CHECK_DEADLOCK FALSE
