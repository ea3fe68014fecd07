SPECIFICATION Spec
CONSTANTS
    a = a
    b = b
    c = c
    Root = Root
    Nested = {a, b}
    Parent <- ParentDeep
    Here = {}
    MaxCalls = 1
    Concurrent = FALSE
CHECK_DEADLOCK FALSE
INVARIANTS AbortedUndone
