SPECIFICATION FairHubSpec
CONSTANTS
    None = None
    QueryId = {1}
    Worker = {w1}
    w1 = w1
    Handler = {h1, h2}
    h1 = h1
    h2 = h2
    Page = {p1, p2}
    p1 = p1
    p2 = p2
    Faults = {"coordinator", "listener", "connection"}
    MaxFaults = 1
    MaxNotices = 2
CHECK_DEADLOCK FALSE
INVARIANTS
    HubTypeOK
    ShownIsFinal
PROPERTIES
    
    PageLearnsOrMissed
