SPECIFICATION Spec
CONSTANTS
  w1 = w1  w2 = w2  x1 = x1  i1 = i1  d1 = d1
  s1 = s1  s2 = s2  s3 = s3
  r1 = r1  r2 = r2
  Procs = {w1, w2, x1, i1, d1}
  Sessions = {s1, s2, s3}
  NoSession = NoSession
  Regions = {r1, r2}
  Role <- RoleOf
  PoolOf <- Pools
  RegionsOf <- Overlap
  MaxRounds = 1
  MaxFaults = 1
INVARIANTS
  TypeOK
  RegionsDisjoint
  ExclusiveWorksAlone
  PoolKeepsNoGate
  LockSetBacked
PROPERTIES
  TurnstileClosed
  Drains
CHECK_DEADLOCK FALSE
