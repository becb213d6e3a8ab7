SPECIFICATION PoolSpec
CONSTANTS
    TaskCount = 3
    Worker = {w1, w2}
    Pump = {p1}
    QueueDepth = 1
    MaxDeaths = 2
INVARIANT OneAnswerEach
INVARIANT NothingIsForgotten
PROPERTY PassEnds
CHECK_DEADLOCK FALSE
