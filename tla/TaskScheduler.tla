---------------------------- MODULE TaskScheduler ---------------------------
(***************************************************************************)
(* Scheduling and structured cancellation of the task runtime              *)
(* (runtime/src/Task/next_task_v1.c): executors with their worker threads  *)
(* and run queues, the tasks of one scope, wake, cancellation of a task    *)
(* tree and of the scope, executor rebinding and terminal publication.     *)
(*                                                                         *)
(* A step is one critical section of the code, in the lock order scope,    *)
(* task, executor.  The scope mutex is the only one held over several      *)
(* steps (a cancellation walk locks and unlocks each task under it), so it *)
(* is a variable.  A thread is a worker or a client; a worker is also a    *)
(* caller of the interface while the frame it resumes is running.          *)
(*                                                                         *)
(* Time is left open: an armed deadline may expire at any moment.  Not in  *)
(* this module: reference counts (a task object is never reused),          *)
(* completions, groups, the results tasks carry and shutdown; a failed     *)
(* allocation leaves everything as it was and is not a step.               *)
(***************************************************************************)
EXTENDS Naturals, Sequences, FiniteSets

CONSTANTS
    Tasks,              \* the tasks that may be created in the scope
    Executors,          \* the executors; each has its own queue and mutex
    Workers,            \* worker threads
    Clients,            \* threads of the host program that call the interface
    Home,               \* Home[w]: the executor whose worker w is
    ScopeExecutor,      \* scope->executor, where root tasks run
    Deadlines,          \* the deadlines that may be armed
    Steps,              \* the steps resume may return; "Unknown" is any number
                        \* the interface does not define
    Cooperative,        \* compiled frames end when they see the cancellation flag
    NoTask, NoExecutor, NoThread

ASSUME SchedulerAssumption ==
    /\ Home \in [Workers -> Executors]
    /\ ScopeExecutor \in Executors
    /\ Workers \cap Clients = {}
    /\ NoTask \notin Tasks /\ NoExecutor \notin Executors
    /\ NoThread \notin Workers \cup Clients
    /\ Cooperative \in BOOLEAN
    /\ Steps \subseteq {"Suspended", "Reschedule", "Unknown",
                        "Cancelled", "Completed", "Failed"}

Threads == Workers \cup Clients

VARIABLES
    state,        \* task->scheduler_state ("None" before creation)
    cancelled,    \* task->cancellation_requested
    cause,        \* task->cancellation_cause
    rerun,        \* task->rerun_requested
    published,    \* task->published_terminal
    executor,     \* task->executor
    ancestors,    \* the tasks whose cancellation nodes are above the task's
    deadline,     \* the deadlines: their state, task and executor
    inScope,      \* the tasks linked into scope->tasks; scope->task_count is its size
    scopeCancelled,   \* scope->cancellation_requested
    scopeMutex,   \* the thread that holds scope->mutex over several steps
    queue,        \* queue[e]: executor->queue_head .. queue_tail
    pc,           \* where each thread is in its own loop
    running,      \* the task a worker has dequeued
    step,         \* what the frame's resume returned to the worker
    op,           \* the call a thread is in the middle of, with its locals
    woken,        \* history: a wake of the task has not been answered by a resume
    requested     \* history: the tasks whose own cancellation was asked for

taskVars == <<state, cancelled, cause, rerun, published, executor, ancestors>>
scopeVars == <<inScope, scopeCancelled, scopeMutex>>
threadVars == <<pc, running, step, op>>
vars == <<taskVars, deadline, scopeVars, queue, threadVars, woken, requested>>

Terminal == {"Cancelled", "Completed", "Failed"}
State == {"None", "Idle", "Queued", "Running"} \cup Terminal
Cause == {"None", "OwnerRequest", "DeadlineExpired"}

NoOp == [kind |-> "none"]

\* A cancellation walk: its stage, the task it started from (NoTask for the
\* scope), tasks still to visit, the task marked last, and whether the caller
\* joins the scope afterwards (scope_release).
Walk(stage, root, why, todo, join) ==
    [kind |-> "walk", stage |-> stage, root |-> root, cause |-> why,
     todo |-> todo, last |-> root, join |-> join]
\* A child creation between its two critical sections.
Child(parent, exec, t) ==
    [kind |-> "child", parent |-> parent, exec |-> exec, task |-> t]
\* task_join of t, or scope_join for NoTask; asleep on the condition or not.
Join(t, asleep) == [kind |-> "join", task |-> t, asleep |-> asleep]
\* publish_terminal's local: the executor the task was bound to.
Retiring(exec) == [kind |-> "retire", exec |-> exec]

\* A deadline that is not armed; its task and executor are not read.
Unarmed(s) == [state |-> s, task |-> NoTask, exec |-> NoExecutor]
NoDeadline == Unarmed("None")

Init ==
    /\ state = [t \in Tasks |-> "None"]
    /\ cancelled = [t \in Tasks |-> FALSE]
    /\ cause = [t \in Tasks |-> "None"]
    /\ rerun = [t \in Tasks |-> FALSE]
    /\ published = [t \in Tasks |-> FALSE]
    /\ executor = [t \in Tasks |-> NoExecutor]
    /\ ancestors = [t \in Tasks |-> {}]
    /\ deadline = [d \in Deadlines |-> NoDeadline]
    /\ inScope = {}
    /\ scopeCancelled = FALSE
    /\ scopeMutex = NoThread
    /\ queue = [e \in Executors |-> <<>>]
    /\ pc = [x \in Threads |-> IF x \in Workers THEN "loop" ELSE "client"]
    /\ running = [w \in Workers |-> NoTask]
    /\ step = [w \in Workers |-> "Suspended"]
    /\ op = [x \in Threads |-> NoOp]
    /\ woken = [t \in Tasks |-> FALSE]
    /\ requested = {}

\* A thread that may enter the interface: a client, or a worker inside resume.
Free(x) == op[x] = NoOp /\ pc[x] \in {"client", "resume", "rebound"}

SetOp(x, o) == op' = [op EXCEPT ![x] = o]

-----------------------------------------------------------------------------
(* Queues and wakes. *)

\* next_task_enqueue_locked: append, mark queued and wake the sleeping workers.
Enqueue(e, t) ==
    /\ queue' = [queue EXCEPT ![e] = Append(@, t)]
    /\ state' = [state EXCEPT ![t] = "Queued"]

\* next_task_notify_all on the executor's condition: its sleepers run again.
\* Mutant: the notification is missing.
NotifyWorkersNobody(e, pcs) == pcs
NotifyWorkers(e, pcs) ==
    [x \in Threads |->
        IF x \in Workers /\ pcs[x] = "asleep" /\ Home[x] = e THEN "loop" ELSE pcs[x]]

\* task_wake queues an idle task.
\* Mutant: an idle task is left alone.
WakeQueuesNever(t) == FALSE
WakeQueues(t) == state[t] = "Idle"

\* task_wake.
WakeTask(t) ==
    IF published[t] THEN UNCHANGED <<state, rerun, queue, pc, woken>>
    ELSE /\ woken' = [woken EXCEPT ![t] = state[t] \notin Terminal]
         /\ \/ /\ WakeQueues(t)
               /\ Enqueue(executor[t], t)
               /\ pc' = NotifyWorkers(executor[t], pc)
               /\ UNCHANGED rerun
            \/ /\ state[t] = "Running"
               /\ rerun' = [rerun EXCEPT ![t] = TRUE]
               /\ UNCHANGED <<state, queue, pc>>
            \/ /\ ~WakeQueues(t) /\ state[t] # "Running"
               /\ UNCHANGED <<state, rerun, queue, pc>>

\* A call of task_wake by a client or a frame, or by a completion callback,
\* which publish_terminal runs after publication.
Wake(x, t) ==
    /\ Free(x) \/ pc[x] = "retire"
    /\ state[t] # "None"
    /\ WakeTask(t)
    /\ UNCHANGED <<cancelled, cause, published, executor, ancestors, deadline, scopeVars,
                   running, step, op, requested>>

-----------------------------------------------------------------------------
(* Creation. *)

\* A new task starts cancelled when its scope or its parent is.
\* Mutant: only the scope's request is inherited.
InheritsFromScope(parent) == scopeCancelled
Inherits(parent) == scopeCancelled \/ (parent # NoTask /\ cancelled[parent])

InheritedCause(parent) ==
    IF scopeCancelled \/ parent = NoTask \/ cause[parent] = "None"
    THEN "OwnerRequest" ELSE cause[parent]

\* The insertion shared by task_create and task_create_child: inherit a
\* requested cancellation, link into the scope and queue.
Insert(t, e, parent) ==
    /\ executor' = [executor EXCEPT ![t] = e]
    /\ ancestors' = [ancestors EXCEPT ![t] =
                        IF parent = NoTask THEN {} ELSE ancestors[parent] \cup {parent}]
    /\ IF Inherits(parent)
       THEN /\ cause' = [cause EXCEPT ![t] = InheritedCause(parent)]
            /\ cancelled' = [cancelled EXCEPT ![t] = TRUE]
       ELSE UNCHANGED <<cause, cancelled>>
    /\ inScope' = inScope \cup {t}
    /\ Enqueue(e, t)
    /\ pc' = NotifyWorkers(e, pc)
    /\ woken' = [woken EXCEPT ![t] = TRUE]

\* A task object no creation in progress has allocated.
Fresh(t) ==
    /\ state[t] = "None"
    /\ \A y \in Threads : op[y].kind = "child" => op[y].task # t

\* task_create.
Create(x, t) ==
    /\ Free(x)
    /\ Fresh(t)
    /\ scopeMutex = NoThread
    /\ Insert(t, ScopeExecutor, NoTask)
    /\ UNCHANGED <<rerun, published, deadline, scopeCancelled, scopeMutex, running,
                   step, op, requested>>

\* task_create_child reads the parent's scope and executor under the parent's
\* mutex and gives the mutex up ...
CreateChild(x, p, t) ==
    /\ Free(x)
    /\ Fresh(t)
    /\ state[p] = "Running" /\ p \in inScope
    /\ SetOp(x, Child(p, executor[p], t))
    /\ UNCHANGED <<taskVars, deadline, scopeVars, queue, pc, running, step, woken,
                   requested>>

\* ... and next_task_create_on checks the parent again under the scope mutex.
CreateChildInsert(x) ==
    /\ op[x].kind = "child"
    /\ scopeMutex = NoThread
    /\ LET p == op[x].parent
           parentRunning == state[p] = "Running" /\ ~published[p] /\ p \in inScope
       IN \/ /\ parentRunning
             /\ Insert(op[x].task, op[x].exec, p)
             /\ UNCHANGED <<rerun, published, scopeCancelled, scopeMutex>>
          \/ /\ ~parentRunning
             /\ UNCHANGED <<taskVars, scopeVars, queue, pc, woken>>
    /\ SetOp(x, NoOp)
    /\ UNCHANGED <<deadline, running, step, requested>>

-----------------------------------------------------------------------------
(* Cancellation. *)

\* A task that has not committed a terminal state can be marked.
Markable(t) == ~published[t] /\ state[t] \notin Terminal /\ state[t] # "None"

\* next_task_mark_cancelled's critical section: the first cause wins.
\* Mutant: the last cause wins.
MarkLast(t, why) ==
    /\ cause' = [cause EXCEPT ![t] = why]
    /\ cancelled' = [cancelled EXCEPT ![t] = TRUE]
Mark(t, why) ==
    /\ cause' = [cause EXCEPT ![t] = IF @ = "None" THEN why ELSE @]
    /\ cancelled' = [cancelled EXCEPT ![t] = TRUE]

\* The critical section of a tree cancellation that marks the root; a root that
\* is already terminal ends the call before any descendant is visited.
CancelRoot(x, t, why) ==
    IF Markable(t)
    THEN /\ Mark(t, why)
         /\ requested' = requested \cup {t}
         /\ SetOp(x, Walk("wake", t, why, {}, FALSE))
    ELSE /\ SetOp(x, NoOp)
         /\ UNCHANGED <<cause, cancelled, requested>>

\* task_request_cancel.  Asking again for what was asked for changes nothing
\* but costs another walk, so each task is asked for once.
RequestCancel(x, t) ==
    /\ Free(x)
    /\ Markable(t) /\ t \notin requested
    /\ CancelRoot(x, t, "OwnerRequest")
    /\ UNCHANGED <<state, rerun, published, executor, ancestors, deadline, scopeVars,
                   queue, pc, running, step, woken>>

\* The wake that follows a mark, outside the marked task's critical section.
WalkWake(x) ==
    /\ op[x].kind = "walk" /\ op[x].stage \in {"wake", "walkWake"}
    /\ WakeTask(op[x].last)
    /\ SetOp(x, [op[x] EXCEPT !.stage = IF @ = "wake" THEN "scope" ELSE "walk",
                              !.last = op[x].root])     \* the local is dead
    /\ UNCHANGED <<cancelled, cause, published, executor, ancestors, deadline, scopeVars,
                   running, step, requested>>

\* request_cancel_tree reads the root's scope under the root's mutex.
WalkScope(x) ==
    /\ op[x].kind = "walk" /\ op[x].stage = "scope"
    /\ LET root == op[x].root
       IN  IF ~published[root] /\ root \in inScope
           THEN SetOp(x, [op[x] EXCEPT !.stage = "lock"])
           ELSE SetOp(x, NoOp)
    /\ UNCHANGED <<taskVars, deadline, scopeVars, queue, pc, running, step, woken,
                   requested>>

\* next_task_cancellation_node_descends_from.
Descends(t, root) == root \in ancestors[t]

\* With the scope mutex held it visits every linked descendant of the root.
WalkLock(x) ==
    /\ op[x].kind = "walk" /\ op[x].stage = "lock"
    /\ scopeMutex = NoThread
    /\ scopeMutex' = x
    /\ SetOp(x, [op[x] EXCEPT !.stage = "walk",
                              !.todo = {t \in inScope : Descends(t, op[x].root)}])
    /\ UNCHANGED <<taskVars, deadline, inScope, scopeCancelled, queue, pc, running, step,
                   woken, requested>>

\* One task of the walk: marked if it can be, passed over otherwise.  The
\* order of the list is left open.
WalkMark(x, t) ==
    /\ op[x].kind = "walk" /\ op[x].stage = "walk"
    /\ t \in op[x].todo
    /\ IF Markable(t)
       THEN /\ Mark(t, op[x].cause)
            /\ SetOp(x, [op[x] EXCEPT !.stage = "walkWake", !.todo = @ \ {t}, !.last = t])
       ELSE /\ SetOp(x, [op[x] EXCEPT !.todo = @ \ {t}])
            /\ UNCHANGED <<cause, cancelled>>
    /\ UNCHANGED <<state, rerun, published, executor, ancestors, deadline, scopeVars,
                   queue, pc, running, step, woken, requested>>

WalkUnlock(x) ==
    /\ op[x].kind = "walk" /\ op[x].stage = "walk"
    /\ op[x].todo = {}
    /\ scopeMutex' = NoThread
    /\ SetOp(x, IF op[x].join THEN Join(NoTask, FALSE) ELSE NoOp)
    /\ UNCHANGED <<taskVars, deadline, inScope, scopeCancelled, queue, pc, running, step,
                   woken, requested>>

\* scope_request_cancel marks every linked task under the scope mutex; called
\* by itself it is taken once, as a repetition changes nothing.  scope_release
\* is the same followed by scope_join; a client gives up its handle with it.
ScopeRequestCancel(x, release) ==
    /\ Free(x)
    /\ scopeMutex = NoThread
    /\ scopeMutex' = x
    /\ scopeCancelled' = TRUE
    /\ SetOp(x, Walk("walk", NoTask, "OwnerRequest", inScope, release))
    /\ \/ release /\ x \in Clients /\ pc' = [pc EXCEPT ![x] = "released"]
       \/ ~release /\ ~scopeCancelled /\ UNCHANGED pc
    /\ UNCHANGED <<taskVars, deadline, inScope, queue, running, step, woken, requested>>

-----------------------------------------------------------------------------
(* Joins. *)

\* Only a client may block: task_join is refused to no one, but a frame that
\* joins holds up the worker it runs on.
TaskJoin(x, t) ==
    /\ x \in Clients /\ Free(x)
    /\ state[t] # "None"
    /\ SetOp(x, Join(t, FALSE))
    /\ UNCHANGED <<taskVars, deadline, scopeVars, queue, pc, running, step, woken,
                   requested>>

Joined(t) == IF t = NoTask THEN inScope = {} ELSE published[t]

\* One pass of the wait loop of task_join or scope_join.
JoinWait(x) ==
    /\ op[x].kind = "join" /\ ~op[x].asleep
    /\ op[x].task = NoTask => scopeMutex = NoThread
    /\ SetOp(x, IF Joined(op[x].task) THEN NoOp ELSE Join(op[x].task, TRUE))
    /\ UNCHANGED <<taskVars, deadline, scopeVars, queue, pc, running, step, woken,
                   requested>>

\* next_task_notify_all on the condition of task t, or of the scope (NoTask).
\* Mutant: the notification is missing.
NotifyJoinersNobody(t, ops) == ops
NotifyJoiners(t, ops) ==
    [x \in Threads |-> IF ops[x].kind = "join" /\ ops[x].task = t
                       THEN Join(t, FALSE) ELSE ops[x]]

-----------------------------------------------------------------------------
(* Deadlines. *)

\* task_deadline_after, called by the running continuation: arm on the
\* executor the task is bound to and wake its workers.
DeadlineAfter(w, d) ==
    /\ pc[w] \in {"resume", "rebound"} /\ op[w] = NoOp
    /\ deadline[d].state = "None"
    /\ LET t == running[w]
       IN  /\ deadline' = [deadline EXCEPT ![d] =
                              [state |-> "Armed", task |-> t, exec |-> executor[t]]]
           /\ pc' = NotifyWorkers(executor[t], pc)
    /\ UNCHANGED <<taskVars, scopeVars, queue, running, step, op, woken, requested>>

\* deadline_release of a deadline the timer has not selected.
DeadlineRelease(x, d) ==
    /\ Free(x)
    /\ deadline[d].state = "Armed"
    /\ deadline' = [deadline EXCEPT ![d] = Unarmed("Released")]
    /\ pc' = NotifyWorkers(deadline[d].exec, pc)
    /\ UNCHANGED <<taskVars, scopeVars, queue, running, step, op, woken, requested>>

\* A worker, between tasks or in its timed wait, selects an expired deadline
\* under its executor's mutex ...
DeadlineSelect(w, d) ==
    /\ pc[w] \in {"loop", "asleep"} /\ op[w] = NoOp
    /\ deadline[d].state = "Armed" /\ deadline[d].exec = Home[w]
    /\ deadline' = [deadline EXCEPT ![d] = Unarmed("Selected")]
    /\ pc' = [pc EXCEPT ![w] = "loop"]
    /\ SetOp(w, Walk("mark", deadline[d].task, "DeadlineExpired", {}, FALSE))
    /\ UNCHANGED <<taskVars, scopeVars, queue, running, step, woken, requested>>

\* ... and requests the tree cancellation outside it.
DeadlineExpire(w) ==
    /\ op[w].kind = "walk" /\ op[w].stage = "mark"
    /\ CancelRoot(w, op[w].root, "DeadlineExpired")
    /\ UNCHANGED <<state, rerun, published, executor, ancestors, deadline, scopeVars,
                   queue, pc, running, step, woken>>

-----------------------------------------------------------------------------
(* Rebinding. *)

\* task_rebind_executor, called by the running continuation, which then has to
\* return Reschedule (next_task_v1.h:140-141): wakes go to the new executor.
Rebind(w, e) ==
    /\ pc[w] = "resume" /\ op[w] = NoOp
    /\ executor[running[w]] # e
    /\ executor' = [executor EXCEPT ![running[w]] = e]
    /\ pc' = [pc EXCEPT ![w] = "rebound"]
    /\ UNCHANGED <<state, cancelled, cause, rerun, published, ancestors, deadline,
                   scopeVars, queue, running, step, op, woken, requested>>

-----------------------------------------------------------------------------
(* The worker loop. *)

\* The head of the queue becomes the running task.
Dequeue(w) ==
    /\ pc[w] = "loop" /\ op[w] = NoOp
    /\ LET e == Home[w]
       IN  /\ queue[e] # <<>>
           /\ running' = [running EXCEPT ![w] = Head(queue[e])]
           /\ queue' = [queue EXCEPT ![e] = Tail(@)]
           /\ state' = [state EXCEPT ![Head(queue[e])] = "Running"]
           /\ woken' = [woken EXCEPT ![Head(queue[e])] = FALSE]
    /\ pc' = [pc EXCEPT ![w] = "resume"]
    /\ UNCHANGED <<cancelled, cause, rerun, published, executor, ancestors, deadline,
                   scopeVars, step, op, requested>>

\* next_task_wait on the executor's condition.
Sleep(w) ==
    /\ pc[w] = "loop" /\ op[w] = NoOp
    /\ queue[Home[w]] = <<>>
    /\ pc' = [pc EXCEPT ![w] = "asleep"]
    /\ UNCHANGED <<taskVars, deadline, scopeVars, queue, running, step, op, woken,
                   requested>>

\* The frame returns a step.  A cooperative frame that sees the flag ends.
Return(w, s) ==
    /\ op[w] = NoOp
    /\ \/ /\ pc[w] = "resume"
          /\ (Cooperative /\ cancelled[running[w]]) => s \in Terminal
       \/ pc[w] = "rebound" /\ s = "Reschedule"
    /\ step' = [step EXCEPT ![w] = s]
    /\ pc' = [pc EXCEPT ![w] = "finish"]
    /\ UNCHANGED <<taskVars, deadline, scopeVars, queue, running, op, woken, requested>>

\* What next_task_run makes of the step, under the task's mutex: an unknown
\* step ends the task, and a result of a cancelled task is discarded.
FinalStep(w) ==
    IF \/ step[w] = "Unknown"
       \/ step[w] \in {"Completed", "Failed"} /\ cancelled[running[w]]
    THEN "Cancelled" ELSE step[w]

\* A task that has not ended is queued again if it asked for it, if it was woken
\* while it ran or if it is cancelled.
\* Mutant: the rerun debt is forgotten.
RunAgainForgetsWake(w) == step[w] = "Reschedule" \/ cancelled[running[w]]
RunAgain(w) ==
    step[w] = "Reschedule" \/ rerun[running[w]] \/ cancelled[running[w]]

\* The executor an unfinished task goes back to: the one it is bound to now.
\* Mutant: the executor of the worker.
NextExecutorOld(w) == Home[w]
NextExecutor(w) == executor[running[w]]

\* next_task_run after resume has returned.
Finish(w) ==
    /\ pc[w] = "finish"
    /\ LET t == running[w]
           s == FinalStep(w)
           notified(to) == NotifyWorkers(Home[w], [pc EXCEPT ![w] = to])
       IN \/ /\ s \in Terminal
             /\ state' = [state EXCEPT ![t] = s]
             /\ woken' = [woken EXCEPT ![t] = FALSE]
             /\ rerun' = [rerun EXCEPT ![t] = FALSE]
             /\ pc' = notified("publish")
             /\ op' = IF s = "Cancelled"
                      THEN [op EXCEPT ![w] =
                              Walk("scope", t, IF cause[t] = "None" THEN "OwnerRequest"
                                                                    ELSE cause[t],
                                   {}, FALSE)]
                      ELSE op
             /\ UNCHANGED <<queue, running>>
          \/ /\ s \notin Terminal /\ RunAgain(w)
             /\ rerun' = [rerun EXCEPT ![t] = FALSE]
             /\ Enqueue(NextExecutor(w), t)
             /\ pc' = NotifyWorkers(NextExecutor(w), notified("loop"))
             /\ running' = [running EXCEPT ![w] = NoTask]
             /\ UNCHANGED <<op, woken>>
          \/ /\ s \notin Terminal /\ ~RunAgain(w)
             /\ state' = [state EXCEPT ![t] = "Idle"]
             /\ pc' = NotifyWorkers(NextExecutor(w), notified("loop"))
             /\ running' = [running EXCEPT ![w] = NoTask]
             /\ UNCHANGED <<rerun, queue, op, woken>>
    /\ step' = [step EXCEPT ![w] = "Suspended"]     \* the local is dead
    /\ UNCHANGED <<cancelled, cause, published, executor, ancestors, deadline, scopeVars,
                   requested>>

\* next_task_publish_terminal, after the walk of a cancelled task: publication.
Publish(w) ==
    /\ pc[w] = "publish" /\ op[w] = NoOp
    /\ published' = [published EXCEPT ![running[w]] = TRUE]
    /\ executor' = [executor EXCEPT ![running[w]] = NoExecutor]
    /\ op' = NotifyJoiners(running[w],
                           [op EXCEPT ![w] = Retiring(executor[running[w]])])
    /\ pc' = [pc EXCEPT ![w] = "retire"]
    /\ UNCHANGED <<state, cancelled, cause, rerun, ancestors, deadline, scopeVars, queue,
                   running, step, woken, requested>>

\* The deadlines of the task in the heap of the executor it was bound to, all of
\* them, as with fewer than six in the heap (DeadlineHeap).
Retired(w) ==
    {d \in Deadlines : /\ deadline[d].state = "Armed"
                       /\ deadline[d].task = running[w] /\ deadline[d].exec = op[w].exec}

\* publish_terminal then takes them out of the heap.
Retire(w) ==
    /\ pc[w] = "retire"
    /\ deadline' = [d \in Deadlines |-> IF d \in Retired(w)
                                       THEN Unarmed("Released")
                                       ELSE deadline[d]]
    /\ pc' = NotifyWorkers(op[w].exec, [pc EXCEPT ![w] = "detach"])
    /\ SetOp(w, NoOp)
    /\ UNCHANGED <<taskVars, scopeVars, queue, running, step, woken, requested>>

\* next_task_remove_from_scope: unlink and wake scope_join.
Detach(w) ==
    /\ pc[w] = "detach"
    /\ scopeMutex = NoThread
    /\ inScope' = inScope \ {running[w]}
    /\ op' = NotifyJoiners(NoTask, op)
    /\ pc' = [pc EXCEPT ![w] = "loop"]
    /\ running' = [running EXCEPT ![w] = NoTask]
    /\ UNCHANGED <<taskVars, deadline, scopeCancelled, scopeMutex, queue, step, woken,
                   requested>>

-----------------------------------------------------------------------------
\* Progress of a call that has been entered.
Inside(x) ==
    \/ WalkWake(x) \/ WalkScope(x) \/ WalkLock(x) \/ WalkUnlock(x) \/ JoinWait(x)
    \/ CreateChildInsert(x) \/ DeadlineExpire(x)
    \/ \E t \in Tasks : WalkMark(x, t)

\* A worker's own loop; the frame it resumes returns.
Work(w) ==
    Dequeue(w) \/ Sleep(w) \/ Finish(w) \/ Publish(w) \/ Retire(w) \/ Detach(w)
      \/ \E s \in Steps : Return(w, s)

\* Calls that a thread is free to make.
Call(x) ==
    \/ \E release \in BOOLEAN : ScopeRequestCancel(x, release)
    \/ \E t \in Tasks :
         \/ Wake(x, t) \/ Create(x, t) \/ RequestCancel(x, t) \/ TaskJoin(x, t)
         \/ \E p \in Tasks : CreateChild(x, p, t)
    \/ \E d \in Deadlines : DeadlineRelease(x, d)

\* What only a continuation may do, and the timer.
Extra(w) ==
    \/ \E e \in Executors : Rebind(w, e)
    \/ \E d \in Deadlines : DeadlineAfter(w, d) \/ DeadlineSelect(w, d)

Next ==
    \/ \E x \in Threads : Inside(x) \/ Call(x)
    \/ \E w \in Workers : Work(w) \/ Extra(w)

Spec == Init /\ [][Next]_vars

(***************************************************************************)
(* Threads inside the runtime run, and a resumed frame returns: a frame    *)
(* never blocks (Sleep is the only wait of a worker).  Nobody is obliged   *)
(* to call, and an armed deadline is not obliged to expire.  Weak fairness *)
(* is enough for the scope mutex because only finitely many walks hold it. *)
(***************************************************************************)
Fairness ==
    /\ \A x \in Threads : WF_vars(Inside(x))
    /\ \A w \in Workers : WF_vars(Work(w))

FairSpec == Spec /\ Fairness

-----------------------------------------------------------------------------
(* Properties. *)

Live(t) == state[t] \notin Terminal \cup {"None"}

\* Every variable keeps its type: a task's state is one the interface defines
\* whatever number the frame returned.
TypeOK ==
    /\ state \in [Tasks -> State]
    /\ cancelled \in [Tasks -> BOOLEAN]
    /\ cause \in [Tasks -> Cause]
    /\ rerun \in [Tasks -> BOOLEAN]
    /\ published \in [Tasks -> BOOLEAN]
    /\ executor \in [Tasks -> Executors \cup {NoExecutor}]
    /\ ancestors \in [Tasks -> SUBSET Tasks]
    /\ deadline \in [Deadlines -> [state : {"None", "Armed", "Selected", "Released"},
                                  task : Tasks \cup {NoTask},
                                  exec : Executors \cup {NoExecutor}]]
    /\ inScope \subseteq Tasks
    /\ scopeCancelled \in BOOLEAN
    /\ scopeMutex \in Threads \cup {NoThread}
    /\ queue \in [Executors -> Seq(Tasks)]
    /\ running \in [Workers -> Tasks \cup {NoTask}]
    /\ \A x \in Threads :
         /\ op[x].kind \in {"none", "walk", "child", "join", "retire"}
         /\ op[x].kind \in {"child", "retire"} => op[x].exec \in Executors
         /\ op[x].kind = "walk" => op[x].todo \subseteq Tasks /\ op[x].cause \in Cause
    /\ step \in [Workers -> Steps \cup {"Suspended"}]
    /\ woken \in [Tasks -> BOOLEAN]
    /\ requested \subseteq Tasks

\* A queued task is in exactly one queue, that of the executor it is bound to,
\* exactly once; a running task is held by exactly one worker; nothing else is
\* queued or run.  Wakes, rebinding and requeueing all move tasks here.
ScheduledOnce ==
    \A t \in Tasks :
        LET places == UNION {{<<e, i>> : i \in {j \in DOMAIN queue[e] : queue[e][j] = t}}
                               : e \in Executors}
            runners == {w \in Workers : running[w] = t /\ pc[w] \in {"resume", "rebound", "finish"}}
        IN  /\ Cardinality(places) = IF state[t] = "Queued" THEN 1 ELSE 0
            /\ \A p \in places : p[1] = executor[t]
            /\ Cardinality(runners) = IF state[t] = "Running" THEN 1 ELSE 0

\* A wake is never lost: until the frame is resumed after it, the task is
\* queued, or runs with the rerun debt recorded ("Queued wakes coalesce. A wake
\* while running records one rerun debt", next-task-frame-runtime-abi.md:37).
NoLostWake ==
    \A t \in Tasks : woken[t] => state[t] = "Queued" \/ (state[t] = "Running" /\ rerun[t])

\* An idle task is not cancelled, except between the mark and the wake that
\* follows it: a suspended task always reaches its cancellation checkpoint.
CancelledIsWoken ==
    \A t \in Tasks :
        cancelled[t] /\ state[t] = "Idle" =>
            \E x \in Threads : /\ op[x].kind = "walk" /\ op[x].last = t
                               /\ op[x].stage \in {"wake", "walkWake"}

\* Whoever sleeps has a reason: a worker's queue is empty, a joined task is not
\* published, the joined scope has tasks.
SleepersHaveReason ==
    /\ \A w \in Workers : pc[w] = "asleep" => queue[Home[w]] = <<>>
    /\ \A x \in Threads : op[x].kind = "join" /\ op[x].asleep => ~Joined(op[x].task)

\* Thread x still has to visit the descendants of a (or the whole scope, NoTask).
Visiting(x, a) ==
    /\ op[x].kind = "walk" /\ op[x].root = a
    /\ op[x].stage # "mark"

\* Cancellation is closed downwards: below a cancelled task, or in a cancelled
\* scope, every live task is cancelled unless the walk that will reach it is
\* still under way.  "A child attached concurrently either participates in that
\* propagation or inherits the already-requested state" (next_task_v1.h:135-136).
CancelClosed ==
    \A t \in inScope : Live(t) /\ ~cancelled[t] =>
        /\ scopeCancelled => \E x \in Threads : Visiting(x, NoTask)
        /\ \A a \in ancestors[t] :
             (cancelled[a] \/ (published[a] /\ state[a] = "Cancelled"))
                => \E x \in Threads, b \in ancestors[t] \cup {NoTask} : Visiting(x, b)

\* Cancellation goes only downwards: a cancelled task was asked for itself, or
\* its scope or one of its ancestors was, or an ancestor ended cancelled ("child
\* cancellation does not affect its parent or siblings", next_task_v1.h:126).
DownwardOnly ==
    \A t \in Tasks : cancelled[t] =>
        \/ scopeCancelled
        \/ t \in requested
        \/ \E a \in ancestors[t] : a \in requested \/ state[a] = "Cancelled"

\* "Cancellation observed before a terminal commit wins": no task ends with a
\* result while it is cancelled, whoever raced with its last resume.
CancellationWins ==
    \A t \in Tasks : state[t] \in {"Completed", "Failed"} => ~cancelled[t]

\* "Committed success or failure cannot later be replaced by cancellation", the
\* first cause wins, and publication is final.
Committed(t) ==
    /\ state[t] \in Terminal => /\ state'[t] = state[t]
                               /\ cancelled'[t] = cancelled[t]
    /\ cancelled[t] => cancelled'[t]
    /\ cause[t] # "None" => cause'[t] = cause[t]
    /\ published[t] => published'[t]
CommitIsFinal == [][\A t \in Tasks : Committed(t)]_vars

\* "Retire all deadlines owned by this task before the frame can be destroyed"
\* (next_task_v1.c:773-774): once a task has left the scope no deadline of it is
\* armed, so nothing but its owners' handles keeps the task alive.
DeadlinesRetired ==
    \A d \in Deadlines : deadline[d].state = "Armed" => deadline[d].task \in inScope

\* Scheduling is exact: types, a task in one queue or with one worker, no wake, wake of a
\* cancellation or notification of a sleeper lost, and no deadline of a published task
\* left (task_wake, next_task_run, next_task_worker, publish_terminal).
SchedulingExact ==
    /\ TypeOK /\ ScheduledOnce /\ NoLostWake
    /\ CancelledIsWoken /\ SleepersHaveReason /\ DeadlinesRetired

\* Cancellation is exact: it reaches all descendants, born before it or after, nobody
\* else, and is never overwritten by a result (request_cancel_tree, scope_cancel,
\* task_create against next_task_run).
CancellationExact == CancelClosed /\ DownwardOnly /\ CancellationWins

\* A woken task is resumed.
WokenIsResumed == \A t \in Tasks : woken[t] ~> ~woken[t]

\* With frames that end at their checkpoints, a cancelled task is published.
CancelledEnds == \A t \in Tasks : cancelled[t] ~> published[t]

\* scope_release returns: "Releasing a public scope handle first requests
\* cancellation and joins all children" (next_task_v1.h:110-111).
ReleaseReturns ==
    \A x \in Clients : pc[x] = "released" ~> (pc[x] = "released" /\ op[x] = NoOp)
=============================================================================
