\* One server: a publication and its countersignature, a lifecycle change, a recovery
\* point, a collection, two faults.  The registry may stop when its clients do, so
\* deadlock is no error.
CONSTANTS
    p1 = p1  p2 = p2  v1 = v1  v2 = v2  r1 = r1  r2 = r2  b1 = b1  b2 = b2
    s1 = s1  s2 = s2  k1 = k1
    NoEntry = NoEntry
    Processes <- OneProcess
    Requests <- FirstAndCountersign
    Releases <- OneRelease
    Orphans <- FirstArchive
    Keys <- OneKey
    MaxLog = 3
    MaxTime = 1
    MaxCalls = 4
    MaxFaults = 2
SPECIFICATION FairSpec
CHECK_DEADLOCK FALSE
INVARIANTS  IndexFaithful
PROPERTIES RestartDistributes
