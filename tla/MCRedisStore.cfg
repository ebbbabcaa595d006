SPECIFICATION StoreSpec
CONSTANTS
    c1 = c1
    c2 = c2
    c3 = c3
    k1 = k1
    t1 = t1
    t2 = t2
    Calls = {c1, c2, c3}
    Keys = {k1}
    Tabs = {t1, t2}
    key <- KeyOfCall
INVARIANT
    ClaimsExclude
PROPERTIES
    VerdictStable
    EntriesExpire
