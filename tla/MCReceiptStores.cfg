SPECIFICATION Spec
CONSTANTS
    Tasks = {t1, t2}
    r1 = r1
    r2 = r2
    r3 = r3
    a1 = a1
    a2 = a2
    Receipts <- MCReceipts
    Actions <- MCActions
    ActionOf <- MCActionOf
    Backends <- AllBackends
    MaxCalls = 3
    MaxFaults = 1
    MaxCrashes = 1
INVARIANTS AckedAreHeld SerialStoresListed StaleOnlyByRace ReplacedOnlyByRace NoFalseAbsence
CHECK_DEADLOCK FALSE
