SPECIFICATION OrderedMapSpec
CONSTANTS
    MaxKey = 4
    MapValue = {"a", "b"}
    Degrees = {2, 3}
    DEFAULT_DEGREE = 3
CHECK_DEADLOCK FALSE
INVARIANT ReverseRangesComplete
