SPECIFICATION ProgressSpec
CONSTANTS
    Server = {"s1", "s2"}
    Txn = {"t1", "t2"}
    HomeServer <- MCHomeServer
    MaxClock = 2
    MaxRestarts = 2
    Call = {"r", "w"}
    Kind <- MCKind
    RequiresConstructor = FALSE
    Recovered = "recovered"
    NoCall = "nocall"
    Task = {"t1"}
    InTransaction = {}
    Waiter = {"w1"}
    TaskLimit = 1
    CacheTarget = 1
    MaxCrash = 1
    NoTask = NoTask
    Item = {"i1", "i2", "i3", "i4"}
    MaxLimit = 3
    InitialLimit = 2
    MinLimit = 1
    MinWindowSamples = 1
    Scale = 4
    ReturnExceptions = FALSE
    Key = {"k1", "k2", "k3"}
    OfA = {"k1", "k2"}
    MaxBreaks = 1
    Value = {"a", "b"}
    NoValue = "none"
    LastIteration = 1
    MaxCrashes = 1
    MaxFailures = 1
    LastStream = 3
    LastConfig = 3
    Subscriber = {"q1", "q2"}
    Taker = {"d1", "d2"}
    TakesFrom <- MCTakesFrom
    Bulk <- MCBulk
    MaxMessages = 2
    MaxOutages = 1
    Nonce = {"n1", "n2"}
    MaxPresenceCrashes = 1
CHECK_DEADLOCK FALSE
INVARIANTS ProgressTypeOK GeneratorSound MessagesKept PresenceSound
PROPERTIES NothingMissed ForgottenStaysOut RetriesAccepted WorkEnds ClientsCatchUp ConfigDelivered
