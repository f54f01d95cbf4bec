SPECIFICATION Spec
CONSTANTS
    Waves <- FourWaves
    Streams <- MeanAndMember
    Leads <- TwoLeads
    FirstLead = 1
    Targets <- ReingestRepairAll
    Faulty <- ThreeWaves
    MaxFaults = 1
    MaxLost = 0
    SingleLeader = TRUE
    MayFence = FALSE
INVARIANTS
    TypeOK
    ReadyIsWhole
    CommittedTogether
PROPERTIES
    InitializedConverges
