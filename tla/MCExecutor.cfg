SPECIFICATION FairSpec
CONSTANTS
    k1 = k1
    Runs = {r1, r2}
    Keys = {k1}
    NoKey = NoKey
    Calls <- AllCalls
    MaxRetries = 2
    VerifyBeforeRetry = TRUE
INVARIANTS
    ClaimExclusive
    VerdictAgreement
    LifecycleAgrees
    VerifiedHasEffect
    AtMostOnceEffect
    LookBeforeRedispatch
PROPERTIES
    EveryCallReturns
    ImplementsIdempotency
