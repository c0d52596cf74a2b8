\* A tree of three generations: three tasks, one worker that creates them and one client
\* that cancels tasks and the scope.  The system may stop (idle tasks, a released client),
\* so deadlock is no error.
CONSTANTS
    t1 = t1  t2 = t2  t3 = t3  e1 = e1  e2 = e2  w1 = w1  w2 = w2
    x1 = x1  x2 = x2  d1 = d1
    NoTask = NoTask  NoExecutor = NoExecutor  NoThread = NoThread
    Tasks <- Tasks3
    Executors <- OneExecutor
    Workers <- OneWorker
    Clients <- OneClient
    Home <- AllOnFirst
    ScopeExecutor = e1
    Deadlines <- NoDeadlines
    Steps <- TreeSteps
    Cooperative = FALSE
SPECIFICATION Spec
CHECK_DEADLOCK FALSE
SYMMETRY Symm
INVARIANTS CancellationExact
