SPECIFICATION Spec
CONSTANTS
    q1 = q1
    q2 = q2
    t1 = t1
    t2 = t2
    t3 = t3
    None = None
    Call = {t1, t2}
    Query = {q1, q2}
    QueryOf <- OnceEach
    Returning = {q1, q2}
    Cancellable = {q1}
    PoolSize = 1
    MaxLost = 0
CHECK_DEADLOCK FALSE
INVARIANTS
    CancelOnlyAsked
