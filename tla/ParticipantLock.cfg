SPECIFICATION SpecWithAbort
CONSTANTS
    Client = {t1, t2, t3, r1}
    Transaction = {t1, t2, t3}
    None = None
INVARIANTS HoldsAccounted
