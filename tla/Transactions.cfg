SPECIFICATION TransactionsSpec
CONSTANTS
    w1 = w1
    w2 = w2
    r1 = r1
    m1 = m1
    s1 = s1
    s2 = s2
    s3 = s3
    Writer = {w1, w2}
    Reader = {r1}
    SortedMap = {}
    Server = {s1, s2, s3}
    Home <- HomeApart
    Coordinator = w1
    MaxCrashes = 2
    Tx = {"a", "b", "c"}
    Resource = {"x", "y"}
    Demands <- MCDemands
    MaxAge = 5
    Caller = {"p", "q", "w"}
    Plain = "plain"
    MutationOf <- MCMutationOf
    ByTransaction = {"p", "q"}
    Expiring = {"e"}
    NoFuture0 = NoFuture0
CHECK_DEADLOCK FALSE
INVARIANTS DecisionStands WritesApplied ReadsProtected ParticipantsTracked DeadlockResolved
    MutationsRemembered
PROPERTIES CommitmentSpec
