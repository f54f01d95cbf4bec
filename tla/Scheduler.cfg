SPECIFICATION FairSpec
CONSTANTS
  Horizon <- TwoLeads
  Members = {1}
  MaxLeads = 2
  Cycles <- TwoCycles
  Adopted <- OldCycles
  Upstream <- GefsLags
  MaxWait = 1
  Intervals <- Ticks
  ActiveBackoff <- ShortBackoff
  BacklogBackoff <- ShortBackoff
  QuarantineAfter = 1
  QuarantineTicks = 2
  RefreshEmpty = 1
  RefreshFull = 1
  LongestWave = 2
  HorizonCycles = 2
  MaxFaults = 2
  MaxLosses = 1
INVARIANTS PlansAreSound
PROPERTIES PlansOnlyAsLeader Progresses
CHECK_DEADLOCK FALSE
