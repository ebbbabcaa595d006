SPECIFICATION FairSpec
CONSTANTS
    k1 = k1
    Threads = {t1, t2}
    Keys = {k1}
    NoKey = NoKey
    Name <- MCName
    Requests <- AllRequests
INVARIANT RateBound
PROPERTY NeverWedged
