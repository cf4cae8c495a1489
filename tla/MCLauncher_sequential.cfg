SPECIFICATION LauncherSpec
CONSTANTS
    MaxQueries = 3
    w1 = w1
    sched = sched
    Worker = {w1}
    Claimer = {sched}
    Scheduler = sched
    Resource = {}
    NoLimit = NoLimit
    None = None
    Capacities <- NoCapacities
    Need <- NoNeed
    MaxConcurrent <- TwoSlots
    Cancellable = {1}
    Faults = {"stop", "crash", "loss", "coordinator", "late"}
    MaxFaults = 2
INVARIANTS
    ParallelLimit
    
    
PROPERTIES
    CancelSettles
