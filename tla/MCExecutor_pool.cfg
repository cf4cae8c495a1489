SPECIFICATION FairSpec
CONSTANTS
    q1 = q1
    q2 = q2
    t1 = t1
    t2 = t2
    t3 = t3
    None = None
    Call = {t1, t2, t3}
    Query = {q1, q2}
    QueryOf <- TwiceAndOnce
    Returning = {q1}
    Cancellable = {q1}
    PoolSize = 2
    MaxLost = 1
CHECK_DEADLOCK FALSE
INVARIANTS
    TypeOK
    PoolConserved
    ActiveIsHeld
    ResultMatchesOutcome
PROPERTIES
    EveryCallEnds
    ImplementsPool
