SPECIFICATION Spec
CONSTANTS
    Account = {a1}
    Personas = {a1}
    Secret = {s1, s2}
    NoSecret = NoSecret
    NoAccount = NoAccount
    Token = {t1}
    Worker = {w1, w2}
    Operator = {o1}
    MaxWrites = 2
    Owner = {u1, u2}
    Ref = {r1}
    Server = {v1, v2}
    Term = 1
    Capacity = 1
    MaxNow = 2
    Export = {e1, e2}
    MaxRows = 2
    LimitCeiling = 2
    NoLimit = NoLimit
    LedgerCapacity = 1
    MaxFixRetries = 2
    MaxIterations = 2
    VoteSamples = 3
    MaxClarified = 1
    TokenBudget = 2
    CallTokens = {0, 1}
    StagedJob = {j1}
    Text = {x1}
    NoText = NoText
    Terminal = {m1, m2}
    MaxReloads = 1
    Entity = {n1}
    EntityState = {p1, p2}
    SnapshotJob = {w1, w2}
    Retention = 1
    MaxDay = 2
    MaxVersions = 3
    f1 = f1
    f2 = f2
    c1 = c1
    c2 = c2
    Folder = {f1, f2}
    Code = {c1, c2}
    NoCode = NoCode
    CodeOf <- SmallCodeOf
    PlatformCodes <- SmallPlatforms
    App = {b1, b2}
    MaxRestated = 2
    Target = {g1, g2}
    Fix = {y1, y2}
    NoFix = NoFix
    Applier = {h1, h2}
    MaxChangeSets = 3
    MaxLosses = 1
INVARIANTS
    ComponentsTypeOK
    StampMatchesStore
    RefLivesItsTerm
    ServedWhileGood
    CapacityHolds
    ManifestTellsTheWholeStream
    CallsAreBounded
    OverrunIsOneRound
    AnswerFromRowsIfAny
    StampMeansWhole
    VerdictsMatchRows
    OneOpenVersion
    CurrentStateStays
PROPERTIES
    WithdrawnAccountIsRefused
    LoginNeedsCurrentSecret
    OnlyClearOwnersAreWritten
    ChangeSetIsWhole
    AskedQuestionEnds
CHECK_DEADLOCK FALSE
