SPECIFICATION LoadingSpec
CONSTANTS
    Call = {"r", "w"}
    Kind <- MCKind
    RequiresConstructor = FALSE
    Recovered = "recovered"
    NoCall = "nocall"
CHECK_DEADLOCK FALSE
INVARIANTS RecoveredStateCached
