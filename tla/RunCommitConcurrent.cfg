SPECIFICATION Spec
CONSTANTS
    Waves <- TwoWaves
    Streams <- Det
    Leads <- TwoLeads
    FirstLead = 1
    Targets <- ReingestLead
    Faulty <- TwoWaves
    MaxFaults = 1
    MaxLost = 1
    SingleLeader = FALSE
    MayFence = TRUE
INVARIANTS
    CompleteIsTruthful
PROPERTIES
    MarkerProtocol
    FenceHolds
