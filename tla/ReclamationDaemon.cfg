SPECIFICATION Spec
CONSTANTS
    precip = precip
    u10 = u10
    v10 = v10
    d = d
    e = e
    Scope <- DaemonScope
    Committed <- ResetMissing
    MaxLead = 2
    MaxNow = 5
    Variables = {precip}
    Interval = {precip}
    Companions = {}
    Precipitation = precip
    Wind = {}
    BatchSize = 2
    Workers = {d}
    Daemon = d
    MayRequeue = TRUE
    FaultKinds = {"crash", "gate", "manifest"}
    MaxFaults = 1
    MaxRewrites = 0
INVARIANTS
    TypeOK
    PredecessorKept
PROPERTIES
    LastCopyKept
    TombstoneIsTrue
    Retires
CHECK_DEADLOCK FALSE
