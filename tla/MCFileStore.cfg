SPECIFICATION Spec
CONSTANTS
    p1 = p1
    c1 = c1
    c2 = c2
    c3 = c3
    k1 = k1
    Procs = {p1}
    Calls = {c1, c2, c3}
    Keys = {k1}
    proc <- OneProcess
    key <- OneKey
    MaxCrashes = 2
INVARIANTS
    ClaimExclusive
    GrantedOnce
    VerdictDurable
    InFlightExplained
