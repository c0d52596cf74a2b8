\* Wakes, requeues, joins and a deadline on one executor: two tasks, two workers, one client,
\* every step a frame can return, frames that may ignore the cancellation flag.
\* The system may stop (idle tasks, a released client), so deadlock is no error.
CONSTANTS
    t1 = t1  t2 = t2  t3 = t3  e1 = e1  e2 = e2  w1 = w1  w2 = w2
    x1 = x1  x2 = x2  d1 = d1
    NoTask = NoTask  NoExecutor = NoExecutor  NoThread = NoThread
    Tasks <- Tasks2
    Executors <- OneExecutor
    Workers <- TwoWorkers
    Clients <- OneClient
    Home <- AllOnFirst
    ScopeExecutor = e1
    Deadlines <- OneDeadline
    Steps <- AllSteps
    Cooperative = FALSE
SPECIFICATION Spec
CHECK_DEADLOCK FALSE
SYMMETRY SymmThreads
INVARIANTS SchedulingExact
PROPERTIES CommitIsFinal
