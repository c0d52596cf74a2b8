\* The typed channel, the component loader or the task scheduler; see MCServices.  No
\* symmetry, some of the properties are temporal.
CONSTANTS
    c1 = c1  c2 = c2  c3 = c3  v1 = v1  v2 = v2  v3 = v3
    o1 = o1  o2 = o2  h1 = h1  h2 = h2
    t1 = t1  t2 = t2  e1 = e1  w1 = w1  x1 = x1
    NoTask = NoTask  NoExecutor = NoExecutor  NoThread = NoThread
    Callers <- Callers3
    Values <- Values3
    Capacity = 2
SPECIFICATION SpecAll
INVARIANTS Accounting NoUseAfterFree NoLostWakeup SingleOwner UnloadSafety
PROPERTIES CloseTerminates BlockedReturns CloseCompletes
    WokenIsResumed CancelledEnds ReleaseReturns
