SPECIFICATION Spec
CONSTANTS
    MaxQueries = 4
    w1 = w1
    cpus = cpus
    c1 = c1
    c2 = c2
    Worker = {w1}
    Claimer = {c1, c2}
    Resource = {cpus}
    NoLimit = NoLimit
    None = None
    Capacities <- OneOrTwoCpus
    Need <- MixedNeed
    MaxConcurrent <- TwoSlots
SYMMETRY Symmetry
INVARIANTS
    TypeOK
    ClaimHoldsPendingRow
    ColumnsFitStatus
    OvercommitBound
    
    ResourceBound
PROPERTIES
    TerminalIsFinal
    ImplementsLifecycle
