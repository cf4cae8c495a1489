SPECIFICATION FairSpec
CONSTANTS
    MaxQueries = 2
    w1 = w1
    sched = sched
    Worker = {w1}
    Claimer = {sched}
    Scheduler = sched
    Resource = {}
    NoLimit = NoLimit
    None = None
    Capacities <- NoCapacities
    Need <- NoNeed
    MaxConcurrent <- OneSlot
    Cancellable = {}
    Faults = {"stop", "crash", "coordinator", "timeout", "loss", "delay", "late"}
    MaxFaults = 3
PROPERTIES
    
    WorkersReturn
