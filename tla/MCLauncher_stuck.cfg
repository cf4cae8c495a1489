SPECIFICATION FairSpec
CONSTANTS
    MaxQueries = 2
    w1 = w1
    sched = sched
    c1 = c1
    Worker = {w1}
    Claimer = {sched, c1}
    Scheduler = sched
    Resource = {}
    NoLimit = NoLimit
    None = None
    Capacities <- NoCapacities
    Need <- NoNeed
    MaxConcurrent <- TwoSlots
    Cancellable = {}
    Faults = {}
    MaxFaults = 0
PROPERTIES
    AllFinish
