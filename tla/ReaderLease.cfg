SPECIFICATION Spec
CONSTANTS
 Readers = {r1, r2}
 Leases = {l1, l2, l3}
 NoLease = none
 Life = 1
 MaxReads = 2
 PoolSize = 1
 MaxFaults = 1
INVARIANTS LeasesAreSound
PROPERTIES LeasesProgress
CHECK_DEADLOCK FALSE
