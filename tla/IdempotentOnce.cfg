SPECIFICATION IdempotentSpec
CONSTANTS
    Caller = {"p", "q"}
    Plain = "plain"
    MutationOf <- MCMutationOf
    ByTransaction = {}
    Expiring = {}
    NoFuture0 = NoFuture0
CHECK_DEADLOCK FALSE
INVARIANTS AppliedOnce
