SPECIFICATION FairSpec
CONSTANTS
    a = a
    b = b
    c = c
    Root = Root
    Nested = {a, b, c}
    Parent <- ParentDeep
    Here = {Root, b}
    MaxCalls = 1
    Concurrent = TRUE
CHECK_DEADLOCK FALSE
INVARIANTS SnapshotsExact EffectsExact LoadsExact MethodsAlone
PROPERTIES OwnershipReturns
