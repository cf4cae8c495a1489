SPECIFICATION LauncherSpec
CONSTANTS
    MaxQueries = 2
    w1 = w1
    sched = sched
    c1 = c1
    Worker = {w1}
    Claimer = {sched, c1}
    Scheduler = sched
    Resource = {}
    NoLimit = NoLimit
    None = None
    Capacities <- NoCapacities
    Need <- NoNeed
    MaxConcurrent <- OneSlot
    Cancellable = {}
    Faults = {"stop", "crash", "coordinator", "timeout", "loss", "delay", "late"}
    MaxFaults = 2
INVARIANTS
    LauncherTypeOK
PROPERTIES
    
    ImplementsStore
