SPECIFICATION MCSpec
CONSTANTS
    Parts = {"tx"}
    p1 = p1
    p2 = p2
    db = db
    t1 = t1
    t2 = t2
    c1 = c1
    Plan = {p1, p2}
    Target = {t1, t2}
    Component = {c1}
    PlanTargets <- MCPlanTargets
    PlanComponents <- MCPlanComponents
    AdditionalResource <- MCAdditionalResource
    SortKey <- MCSortKey
    Connection = {s1, s2}
    Nil = Nil
    BundleOf <- MCBundleOf
    GuardKey <- MCGuardKey
    TxRequest <- MCTxRequest
    Key = {k1, k2, k3}
    Name = {k1, k2, k3, x}
    N = 3
    RolloutSize = 4
    RolloutConfigs <- MCConfigs
    RolloutWindows = 4
    Check = {"http", "disk"}
    MaxShifts = 2
INVARIANTS
    NoDeadlock
CHECK_DEADLOCK FALSE
SYMMETRY MCSymmetry
CONSTRAINT MCBound
