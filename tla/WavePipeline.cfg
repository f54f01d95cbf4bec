SPECIFICATION WaveSpec
CONSTANTS
    Streams = {0}
    WaveLeads = {6, 9, 12, 15, 18}
    DownloadSlots = 1
    DecodeSlots = 1
    WriteSlots = 1
    NoItem = NoItem
    MayCancel = TRUE
INVARIANTS
    WaveTypeOK
    DeaccumulatesFromMemory
    FinalizesAfterDrain
PROPERTIES
    KeepsContract
    DrainEnds
CHECK_DEADLOCK FALSE
