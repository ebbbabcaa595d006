SPECIFICATION FairSpec
CONSTANTS
    Threads = {t1, t2, t3}
    failure_threshold = 2
    success_threshold = 2
INVARIANTS
    CountersSettled
PROPERTY OpenRecovers
