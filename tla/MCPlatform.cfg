SPECIFICATION MCSpec
CONSTANTS
    Deployment = {d, e}
    Steady = {e}
    TaskRecord = {t}
    Revision = {r1, r2}
    FirstRevision = r1
    NoRevision = NoRevision
    MaxID = 2
    MaxVersion = 5
    IgnoreSkew = FALSE
    Artifact = {x}
    Tag = {v1, v2}
    SyncedTag = {v1}
    Image = {m1}
    Index = {i1}
    Layer = {b1}
    Customer = {c1}
    Entitlement = {g1}
    Pusher = {s1, s2}
    Puller = {s1}
    TagLimit = 2
    MaxChunks = 1
    Nil = Nil
    All = All
INVARIANTS
    RegistrySafe
    LeftAloneMeansRunning
    AnswersTrue
    RolesHold
PROPERTIES
    ForeignChangesKept
CHECK_DEADLOCK FALSE
