SPECIFICATION Spec
CONSTANTS
 Artifacts = {1, 2, 3}
 Means = {1}
 Lead <- MCLead
 Horizon = {3}
 Late = {1, 2}
 Ranges = 2
 Attempts = 2
 PageSize = 3
 MaxPages = 2
 MaxHits = 4
INVARIANTS FetchingIsSound
PROPERTIES FetchingKeepsPromises
CHECK_DEADLOCK FALSE
