SPECIFICATION FairSpec
CONSTANTS
    Tasks = {t1, t2}
    r1 = r1
    r2 = r2
    r3 = r3
    a1 = a1
    a2 = a2
    Receipts <- MCReceipts
    Actions <- MCActions
    ActionOf <- MCActionOf
    Backends <- MemoryOnly
    MaxCalls = 3
    MaxFaults = 0
    MaxCrashes = 0
PROPERTY EveryCallReturns
CHECK_DEADLOCK FALSE
