\* A host that drops its executor handle as soon as scope_release has returned:
\* one task, one worker, one client.
CONSTANTS
    t1 = t1  w1 = w1  c1 = c1
    NoTask = NoTask
    Tasks <- Tasks1
    Workers <- Workers1
    Clients <- Clients1
    HostKeepsExecutor = FALSE
SPECIFICATION Spec
CHECK_DEADLOCK FALSE
INVARIANTS NoSelfDispose
