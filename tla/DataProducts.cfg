SPECIFICATION FairSpec
CONSTANTS
    Models = {"m1", "m2", "m3", "seed"}
    Sources = {"s1", "s2"}
    Products = {"c360", "crm", "gone"}
    Names = {"raw", "src", "fct", "crm"}
    TopicId <- MCTopicId
    StatementName <- MCStatementName
    Pools = {"lf1", "lf2"}
    DefaultPool = "lf1"
    None = None
    Manifests <- MCManifests
    Phases = {"RUNNING", "FAILED", "COMPLETED"}
    KnownPhases = {"RUNNING", "FAILED"}
    Pages <- MCPages
    PageOf <- MCPageOf
    Cyclic <- MCCyclic
    MaxPages = 3
    Bills <- MCBills
    Clouds <- MCClouds
    Changes <- MCChanges
    Modes = {"mock", "mock-lag", "live"}
    Fixtures = {"src"}
    LaggingNode = "src"
    MaxChanges = 1
INVARIANTS
    TypeOK
    GraphsComplete
    PoolsChargedToOwner
    StatusFaithful
    MetricsIsolated
    CostOfWholePages
PROPERTY
    RequestsAnswered
