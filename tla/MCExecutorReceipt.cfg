SPECIFICATION Spec
CONSTANTS
    k1 = k1
    Runs = {r1, r2}
    Keys = {k1}
    NoKey = NoKey
    Calls <- RetryCalls
    MaxRetries = 2
    VerifyBeforeRetry = TRUE
INVARIANT ReceiptDetailsFresh
