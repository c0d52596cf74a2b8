\* The same with a second executor the task may be rebound to.
CONSTANTS
    t1 = t1  t2 = t2  t3 = t3  e1 = e1  e2 = e2  w1 = w1  w2 = w2
    x1 = x1  x2 = x2  d1 = d1
    NoTask = NoTask  NoExecutor = NoExecutor  NoThread = NoThread
    Tasks <- OneTask
    Executors <- TwoExecutors
    Workers <- TwoWorkers
    Clients <- OneClient
    Home <- OneEach
    ScopeExecutor = e1
    Deadlines <- OneDeadline
    Steps <- SwitchSteps
    Cooperative = FALSE
SPECIFICATION Spec
CHECK_DEADLOCK FALSE
SYMMETRY Symm
INVARIANTS DeadlinesRetired
