SPECIFICATION Spec
CONSTANTS
    precip = precip
    u10 = u10
    v10 = v10
    d = d
    e = e
    Scope <- OperatorScope
    Committed <- OlderCycles
    MaxLead = 2
    MaxNow = 2
    Variables <- WindPair
    Interval = {}
    Companions = {}
    Precipitation = precip
    Wind <- WindPair
    BatchSize = 3
    Workers = {d, e}
    Daemon = d
    MayRequeue = FALSE
    FaultKinds = {"gate", "storage"}
    MaxFaults = 1
    MaxRewrites = 1
INVARIANTS
    SelectedIsPresent
    GoneIsFenced
PROPERTIES
    LastCopyKept
CHECK_DEADLOCK FALSE
