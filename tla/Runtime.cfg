SPECIFICATION RuntimeSpec
CONSTANTS
    Thread = {"t1", "t2"}
    Milli = 2
    Reservation = 2
    MaxWall = 2
    MaxReading = 3
    MaxStarts = 2
    Nobody = "nobody"
    Task = {"t1", "t2"}
    InTransaction = {"t2"}
    Waiter = {"w1"}
    TaskLimit = 2
    CacheTarget = 1
    MaxCrash = 1
    NoTask = NoTask
    Node = {"A", "B", "C", "D"}
    Up <- MCUp
    Top = "root"
    State = {"x", "y"}
    Wants <- MCWants
    MaxIds = 5
    Call = {"r", "w", "k"}
    Kind <- MCKind
    RequiresConstructor = FALSE
    Recovered = "recovered"
    NoCall = "nocall"
    Value = {"a", "b"}
    NoValue = "none"
    LastIteration = 1
    MaxCrashes = 2
    MaxFailures = 1
    Branch = {"c1", "c2"}
    CallSite = {"w", "i", "k1", "k2", "n", "v"}
    How <- MCHow
    Target <- MCTarget
    LastLoop = 2
    MaxCalls = 3
    NoCallSite = "nosite"
    Flow = {"f1", "f2", "f3"}
    FlowKind <- MCFlowKind
    User = {"u", "v"}
    NoUser = "nouser"
    NoFlow = "noflow"
    MaxFlows = 2
    MaxSignouts = 1
    Counts = {1, 2}
    Base = 2
    NumShards = 4
    HashLength = 3
    MaxPlans = 4
    MaxStops = 1
    MaxStartFailures = 1
    MaxBreaks = 1
    MaxKey = 4
    MapValue = {"a", "b"}
    Degrees = {2, 3}
    DEFAULT_DEGREE = 3
CHECK_DEADLOCK FALSE
INVARIANTS RuntimeTypeOK TasksKept SiblingsResolved AckedKept
    MapSound
PROPERTIES NeverBackwards BlocksMemoized ManagerSound SignInSound PlacementSound
