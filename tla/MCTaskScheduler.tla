--------------------------- MODULE MCTaskScheduler --------------------------
(* Small instances of TaskScheduler for TLC. *)
EXTENDS TaskScheduler, TLC

CONSTANTS t1, t2, t3, e1, e2, w1, w2, x1, x2, d1

Tasks2 == {t1, t2}
Tasks3 == {t1, t2, t3}
OneTask == {t1}
OneExecutor == {e1}
TwoExecutors == {e1, e2}
TwoWorkers == {w1, w2}
OneWorker == {w1}
OneClient == {x1}
TwoClients == {x1, x2}
OneDeadline == {d1}
NoDeadlines == {}
AllOnFirst == [w \in Workers |-> e1]
OneEach == [w \in Workers |-> IF w = w1 THEN e1 ELSE e2]

AllSteps == {"Suspended", "Reschedule", "Unknown", "Cancelled", "Completed", "Failed"}
TreeSteps == {"Suspended", "Completed"}
SwitchSteps == {"Suspended", "Reschedule", "Completed"}

Symm == Permutations(Tasks)
SymmThreads == Permutations(Tasks) \cup Permutations(Workers) \cup Permutations(Clients)
=============================================================================
