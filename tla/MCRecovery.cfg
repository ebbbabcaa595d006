SPECIFICATION Spec
CONSTANTS
    Strategies <- AllStrategies
    Executors <- AllExecutors
    MaxMillis = 40000
    MaxI32 = 3
INVARIANTS
    RunsBounded
    SuccessEnds
PROPERTY BackoffGrows
