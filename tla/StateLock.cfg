SPECIFICATION FairSpec
CONSTANTS
    Client = {t1, t2, t3, r1, r2}
    Transaction = {t1, t2, t3}
    None = None
INVARIANTS TypeOK MutualExclusion HoldsAccounted HoldersExact NoLostWakeup
PROPERTIES QueueFIFO WriterServed
