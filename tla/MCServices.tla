----------------------------- MODULE MCServices -----------------------------
(***************************************************************************)
(* Small instances, for one TLC run, of three services of the runtime that *)
(* threads share: the typed channel, the component loader with its         *)
(* resource lease, and the task scheduler.  They do not interact.  `part'  *)
(* is chosen at the start: that service takes its steps and the others     *)
(* stay in their initial states, where their temporal properties ask for   *)
(* nothing.                                                                *)
(***************************************************************************)
EXTENDS TypedChannel, TLC

CONSTANTS
    c1, c2, c3, v1, v2, v3, o1, o2, h1, h2, t1, t2, e1, w1, x1,
    NoTask, NoExecutor, NoThread

VARIABLES
    part,
    lease, active, operation, running, lost, held, closing, closeRunning, unloaded, closer,
    state, cancelled, cause, rerun, published, executor, ancestors, deadline, inScope,
    scopeCancelled, scopeMutex, runQueue, thread, current, step, op, woken, requested

loaderVars == <<lease, active, operation, running, lost, held, closing, closeRunning,
                unloaded, closer>>
taskVars == <<state, cancelled, cause, rerun, published, executor, ancestors, deadline,
              inScope, scopeCancelled, scopeMutex, runQueue, thread, current, step, op,
              woken, requested>>

\* Three callers of a channel; three values for the typed one.
Callers3 == {c1, c2, c3}
Values3 == {v1, v2, v3}

\* Two operations, two threads that close, two holders, a shared lease.
Loader == INSTANCE ComponentLoader WITH
    Operations <- {o1, o2}, Closers <- {c1, c2}, Holders <- {h1, h2}, Policy <- 2,
    closed <- unloaded, pc <- closer

\* Two tasks, one worker and one client; frames that end at their checkpoints.
Scheduler == INSTANCE TaskScheduler WITH
    Tasks <- {t1, t2}, Executors <- {e1}, Workers <- {w1}, Clients <- {x1},
    Home <- (w1 :> e1), ScopeExecutor <- e1, Deadlines <- {},
    Steps <- {"Suspended", "Reschedule", "Completed"}, Cooperative <- TRUE,
    queue <- runQueue, pc <- thread, running <- current

InitAll == part \in {"values", "loader", "tasks"} /\ Init /\ Loader!Init /\ Scheduler!Init

NextAll ==
    \/ part = "values" /\ Next /\ UNCHANGED <<part, loaderVars, taskVars>>
    \/ part = "loader" /\ Loader!Next /\ UNCHANGED <<part, vars, taskVars>>
    \/ part = "tasks" /\ Scheduler!Next /\ UNCHANGED <<part, vars, loaderVars>>
    \* Idle tasks and a released client may be all there is.
    \/ part = "tasks" /\ UNCHANGED <<part, vars, loaderVars, taskVars>>

\* Each service's own fairness, which binds while it is the one that runs.
Loading(A) == part = "loader" /\ A
LoaderFairness ==
    /\ \A o \in {o1, o2} :
         /\ WF_loaderVars(Loading(Loader!InvokeReturn(o) \/ Loader!InvokeFail(o)))
         /\ WF_loaderVars(Loading(Loader!ProviderLeave(o)))
         /\ WF_loaderVars(Loading(Loader!Complete(o)))
    /\ \A h \in {h1, h2} : WF_loaderVars(Loading(Loader!ReleaseOwner(h)))
    /\ \A c \in {c1, c2} :
         /\ WF_loaderVars(Loading(Loader!CloseBegin(c)))
         /\ SF_loaderVars(Loading(Loader!ProviderClose(c)))
         /\ WF_loaderVars(Loading(Loader!CloseFinish(c)))

SchedulerFairness ==
    /\ \A x \in {w1, x1} : WF_taskVars(part = "tasks" /\ Scheduler!Inside(x))
    /\ WF_taskVars(part = "tasks" /\ Scheduler!Work(w1))

SpecAll ==
    /\ InitAll /\ [][NextAll]_<<part, vars, loaderVars, taskVars>>
    /\ Fairness /\ LoaderFairness /\ SchedulerFairness

-----------------------------------------------------------------------------
(* The properties of the three modules; those of the typed channel are its *)
(* own Accounting, NoUseAfterFree, NoLostWakeup, SingleOwner,              *)
(* CloseTerminates and BlockedReturns.                                     *)

\* The component's code is unloaded only when none of it can run again, and no operation
\* is left to release its token into a lease that is gone (close_v2 against
\* invoke_payload, retain, release_owner, complete and provider_leave).
UnloadSafety == part = "loader" => Loader!UnloadSafety

\* A module whose close has begun is unloaded in the end (close_v2, retried as its
\* header asks).
CloseCompletes == Loader!CloseCompletes

\* A woken task is resumed (task_wake, next_task_worker, next_task_run).
WokenIsResumed == Scheduler!WokenIsResumed

\* With frames that end at their checkpoints, a cancelled task is published
\* (request_cancel_tree, next_task_run, publish_terminal).
CancelledEnds == Scheduler!CancelledEnds

\* scope_release returns: it cancels and joins every child of the scope.
ReleaseReturns == Scheduler!ReleaseReturns
=============================================================================
