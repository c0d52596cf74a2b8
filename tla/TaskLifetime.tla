---------------------------- MODULE TaskLifetime ----------------------------
(***************************************************************************)
(* Reference counts of the task runtime (runtime/src/Task/next_task_v1.c): *)
(* who keeps an executor, a scope and its tasks alive, and on which thread *)
(* the last reference is dropped.                                          *)
(*                                                                         *)
(* One executor with its workers, one scope on it, the tasks of the scope, *)
(* and clients that hold handles.  The critical sections of the scope, the *)
(* task and the executor are single steps.  What a thread still has to     *)
(* release is a sequence of pending operations, so every release, and the  *)
(* disposal it may trigger, is a step of its own.  Scheduling is reduced   *)
(* to what moves references (TaskScheduler has the rest); rebinding, child *)
(* creation, deadlines, completions and groups are not in this module.     *)
(***************************************************************************)
EXTENDS Naturals, Sequences, FiniteSets

CONSTANTS
    Tasks, Workers, Clients,
    NoTask,
    HostKeepsExecutor    \* clients keep their executor handles until all scope
                         \* handles are released and the workers are idle

ASSUME LifetimeAssumption ==
    /\ Workers \cap Clients = {}
    /\ Tasks \cap {"exec", "scope", "walk", "unlink", "disposeScope", "disposeExec", NoTask} = {}
    /\ HostKeepsExecutor \in BOOLEAN

Threads == Workers \cup Clients
Objects == {"exec", "scope"} \cup Tasks

VARIABLES
    refs,        \* references of each object
    freed,       \* the objects whose memory has been freed
    phase,       \* the task's scheduler state, as far as references depend on it
    published,   \* the tasks with published_terminal set; their executor is NULL
    linked,      \* the tasks linked into scope->tasks, with task->scope set
    queue,       \* the executor's run queue; every entry holds a reference
    shutdown,    \* executor->shutdown
    holds,       \* the handles each client owns
    job,         \* the task a worker runs, with the reference of its queue entry
    pc,          \* "free", "join" inside scope_release, "exited" for a worker
    todo         \* what each thread still has to do before it is free again

vars == <<refs, freed, phase, published, linked, queue, shutdown, holds, job, pc, todo>>

Init ==
    /\ refs = [o \in Objects |->
                 IF o = "exec" THEN Cardinality(Clients) + 1
                 ELSE IF o = "scope" THEN Cardinality(Clients) ELSE 0]
    /\ freed = {}
    /\ phase = [t \in Tasks |-> "none"]
    /\ published = {} /\ linked = {}
    /\ queue = <<>>
    /\ shutdown = FALSE
    /\ holds = [c \in Clients |-> {"exec", "scope"}]
    /\ job = [w \in Workers |-> NoTask]
    /\ pc = [x \in Threads |-> "free"]
    /\ todo = [x \in Threads |-> <<>>]

\* A client between calls.
Idle(c) == pc[c] = "free" /\ todo[c] = <<>>

\* A worker between tasks.
Ready(w) == pc[w] = "free" /\ todo[w] = <<>> /\ job[w] = NoTask

\* Every client has released its scope handle and no thread has work in hand.
Settled ==
    /\ \A d \in Clients : "scope" \notin holds[d] /\ Idle(d)
    /\ \A w \in Workers : Ready(w)

Do(x, ops) == todo' = [todo EXCEPT ![x] = ops]

\* next_task_enqueue_locked of a set of tasks, in some order: each entry
\* retains its task.
Enqueue(ts) ==
    /\ \E s \in [1..Cardinality(ts) -> ts] :
         /\ \A t \in ts : \E i \in DOMAIN s : s[i] = t
         /\ queue' = queue \o s
    /\ phase' = [t \in Tasks |-> IF t \in ts THEN "queued" ELSE phase[t]]

-----------------------------------------------------------------------------
(* Calls of the clients. *)

\* task_create: references for the caller, the scope's list and the queue; the
\* task retains its scope and its executor.
Create(c, t) ==
    /\ Idle(c) /\ "scope" \in holds[c]
    /\ phase[t] = "none"
    /\ Enqueue({t})
    /\ linked' = linked \cup {t}
    /\ refs' = [refs EXCEPT ![t] = 3, !["scope"] = @ + 1, !["exec"] = @ + 1]
    /\ holds' = [holds EXCEPT ![c] = @ \cup {t}]
    /\ UNCHANGED <<freed, published, shutdown, job, pc, todo>>

\* A retain of an owned task handle, on behalf of another client.
Retain(c, d, t) ==
    /\ Idle(c) /\ Idle(d)
    /\ t \in holds[c] /\ t \notin holds[d]
    /\ refs' = [refs EXCEPT ![t] = @ + 1]
    /\ holds' = [holds EXCEPT ![d] = @ \cup {t}]
    /\ UNCHANGED <<freed, phase, published, linked, queue, shutdown, job, pc, todo>>

\* task_wake of an idle task; a published task is left alone.
Wake(c, t) ==
    /\ Idle(c) /\ t \in holds[c]
    /\ t \notin published /\ phase[t] = "idle"
    /\ Enqueue({t})
    /\ refs' = [refs EXCEPT ![t] = @ + 1]
    /\ UNCHANGED <<freed, published, linked, shutdown, holds, job, pc, todo>>

\* request_cancel_tree retains the scope under the task's mutex, walks the
\* scope's list, and drops the scope again.
\* Mutant: the scope is borrowed, not retained.
CancelTreeBorrows(c, t) ==
    /\ Idle(c) /\ t \in holds[c]
    /\ t \notin published /\ t \in linked
    /\ Do(c, <<"walk">>)
    /\ UNCHANGED <<refs, freed, phase, published, linked, queue, shutdown, holds, job, pc>>
CancelTree(c, t) ==
    /\ Idle(c) /\ t \in holds[c]
    /\ t \notin published /\ t \in linked
    /\ refs' = [refs EXCEPT !["scope"] = @ + 1]
    /\ Do(c, <<"walk", "scope">>)
    /\ UNCHANGED <<freed, phase, published, linked, queue, shutdown, holds, job, pc>>

\* The walk wakes the idle tasks it marks.
CancelWalk(c) ==
    /\ todo[c] # <<>> /\ Head(todo[c]) = "walk"
    /\ \E ts \in SUBSET {t \in linked : phase[t] = "idle"} :
         /\ Enqueue(ts)
         /\ refs' = [o \in Objects |-> IF o \in ts THEN refs[o] + 1 ELSE refs[o]]
    /\ Do(c, Tail(todo[c]))
    /\ UNCHANGED <<freed, published, linked, shutdown, holds, job, pc>>

\* task_release and executor_release of an owned handle.
ReleaseHandle(c, o) ==
    /\ Idle(c) /\ o \in holds[c] \ {"scope"}
    /\ (o = "exec" /\ HostKeepsExecutor) => Settled
    /\ holds' = [holds EXCEPT ![c] = @ \ {o}]
    /\ Do(c, <<o>>)
    /\ UNCHANGED <<refs, freed, phase, published, linked, queue, shutdown, job, pc>>

\* scope_release: cancel every task of the scope, join, drop the reference.
ScopeRelease(c) ==
    /\ Idle(c) /\ "scope" \in holds[c]
    /\ holds' = [holds EXCEPT ![c] = @ \ {"scope"}]
    /\ LET idle == {t \in linked : phase[t] = "idle"}
       IN  /\ Enqueue(idle)
           /\ refs' = [o \in Objects |-> IF o \in idle THEN refs[o] + 1 ELSE refs[o]]
    /\ pc' = [pc EXCEPT ![c] = "join"]
    /\ UNCHANGED <<freed, published, linked, shutdown, job, todo>>

ScopeJoin(c) ==
    /\ pc[c] = "join" /\ linked = {}
    /\ pc' = [pc EXCEPT ![c] = "free"]
    /\ Do(c, <<"scope">>)
    /\ UNCHANGED <<refs, freed, phase, published, linked, queue, shutdown, holds, job>>

-----------------------------------------------------------------------------
(* Releases and the disposal the last one triggers, on any thread. *)

\* What the disposal of an object has the same thread do next.
Disposal(o) ==
    CASE o = "exec"  -> <<"disposeExec">>
      [] o = "scope" -> <<"disposeScope">>
      [] OTHER       -> IF o \in published THEN <<>> ELSE <<"exec">>

\* atomic_fetch_sub of one reference; the one that takes the last disposes.
Release(x) ==
    /\ todo[x] # <<>> /\ Head(todo[x]) \in Objects
    /\ LET o == Head(todo[x])
       IN  /\ refs' = [refs EXCEPT ![o] = @ - 1]
           /\ freed' = IF refs[o] = 1 /\ o \in Tasks THEN freed \cup {o} ELSE freed
           /\ Do(x, IF refs[o] = 1 THEN Disposal(o) \o Tail(todo[x]) ELSE Tail(todo[x]))
    /\ UNCHANGED <<phase, published, linked, queue, shutdown, holds, job, pc>>

\* next_task_scope_dispose: its join finds no task; the scope gives up its
\* executor.
DisposeScope(x) ==
    /\ todo[x] # <<>> /\ Head(todo[x]) = "disposeScope"
    /\ linked = {}
    /\ freed' = freed \cup {"scope"}
    /\ Do(x, <<"exec">> \o Tail(todo[x]))
    /\ UNCHANGED <<refs, phase, published, linked, queue, shutdown, holds, job, pc>>

\* next_task_executor_dispose: shut down, join the workers, free.
DisposeExec(x) ==
    /\ todo[x] # <<>> /\ Head(todo[x]) = "disposeExec"
    /\ shutdown' = TRUE
    /\ \/ /\ \A w \in Workers : pc[w] = "exited"
          /\ freed' = freed \cup {"exec"}
          /\ Do(x, Tail(todo[x]))
       \/ /\ ~shutdown
          /\ UNCHANGED <<freed, todo>>
    /\ UNCHANGED <<refs, phase, published, linked, queue, holds, job, pc>>

-----------------------------------------------------------------------------
(* The workers. *)

Dequeue(w) ==
    /\ Ready(w) /\ queue # <<>>
    /\ job' = [job EXCEPT ![w] = Head(queue)]
    /\ phase' = [phase EXCEPT ![Head(queue)] = "running"]
    /\ queue' = Tail(queue)
    /\ UNCHANGED <<refs, freed, published, linked, shutdown, holds, pc, todo>>

Exit(w) ==
    /\ Ready(w) /\ queue = <<>> /\ shutdown
    /\ pc' = [pc EXCEPT ![w] = "exited"]
    /\ UNCHANGED <<refs, freed, phase, published, linked, queue, shutdown, holds, job, todo>>

\* The frame suspends, or is queued again with a reference of its own; the
\* worker then releases the reference of the entry it took.
Suspend(w, again) ==
    /\ job[w] # NoTask /\ todo[w] = <<>>
    /\ LET t == job[w]
       IN  /\ IF again THEN /\ Enqueue({t})
                            /\ refs' = [refs EXCEPT ![t] = @ + 1]
                       ELSE /\ phase' = [phase EXCEPT ![t] = "idle"]
                            /\ UNCHANGED <<refs, queue>>
           /\ Do(w, <<t>>)
    /\ job' = [job EXCEPT ![w] = NoTask]
    /\ UNCHANGED <<freed, published, linked, shutdown, holds, pc>>

\* What publish_terminal and the worker do after publication: release the
\* task's executor, unlink it, release the list's reference, drop the task's
\* scope, release the queue entry's reference.
AfterPublication(t) == <<"exec", "unlink", t, "scope", t>>

Publish(w) ==
    /\ job[w] # NoTask /\ todo[w] = <<>>
    /\ published' = published \cup {job[w]}
    /\ phase' = [phase EXCEPT ![job[w]] = "ended"]
    /\ Do(w, AfterPublication(job[w]))
    /\ UNCHANGED <<refs, freed, linked, queue, shutdown, holds, job, pc>>

\* next_task_remove_from_scope's critical section.
Unlink(w) ==
    /\ todo[w] # <<>> /\ Head(todo[w]) = "unlink"
    /\ linked' = linked \ {job[w]}
    /\ job' = [job EXCEPT ![w] = NoTask]
    /\ Do(w, Tail(todo[w]))
    /\ UNCHANGED <<refs, freed, phase, published, queue, shutdown, holds, pc>>

-----------------------------------------------------------------------------
ClientStep(c) ==
    \/ ScopeRelease(c) \/ ScopeJoin(c) \/ CancelWalk(c)
    \/ \E o \in Objects : ReleaseHandle(c, o)
    \/ \E t \in Tasks : \/ Create(c, t) \/ Wake(c, t) \/ CancelTree(c, t)
                        \/ \E d \in Clients : Retain(c, d, t)

WorkerStep(w) ==
    \/ Dequeue(w) \/ Exit(w) \/ Publish(w) \/ Unlink(w)
    \/ \E again \in BOOLEAN : Suspend(w, again)

Next ==
    \/ \E c \in Clients : ClientStep(c)
    \/ \E w \in Workers : WorkerStep(w)
    \/ \E x \in Threads : Release(x) \/ DisposeScope(x) \/ DisposeExec(x)

Spec == Init /\ [][Next]_vars

-----------------------------------------------------------------------------
(* Properties. *)

\* Every variable keeps its type; no count goes below zero.
TypeOK ==
    /\ refs \in [Objects -> Nat]
    /\ freed \subseteq Objects
    /\ phase \in [Tasks -> {"none", "queued", "running", "idle", "ended"}]
    /\ published \subseteq Tasks /\ linked \subseteq Tasks
    /\ queue \in Seq(Tasks)
    /\ shutdown \in BOOLEAN
    /\ holds \in [Clients -> SUBSET Objects]
    /\ job \in [Workers -> Tasks \cup {NoTask}]
    /\ pc \in [Threads -> {"free", "join", "exited"}]
    /\ todo \in [Threads -> Seq(Objects \cup {"walk", "unlink", "disposeScope", "disposeExec"})]

\* The objects a thread dereferences in its next step.
Touches(x) ==
    IF todo[x] # <<>>
    THEN CASE Head(todo[x]) \in Objects      -> {Head(todo[x])}
           [] Head(todo[x]) = "walk"         -> {"scope"}
           [] Head(todo[x]) = "unlink"       -> {"scope", job[x]}
           [] Head(todo[x]) = "disposeScope" -> {"scope", "exec"}
           [] OTHER                          -> {"exec"}
    ELSE IF x \in Clients
         THEN holds[x] \cup (IF pc[x] = "join" THEN {"scope"} ELSE {})
         ELSE (IF pc[x] = "exited" THEN {} ELSE {"exec"}) \cup ({job[x]} \ {NoTask})

\* No thread uses freed memory: not the object a release is about, not the scope
\* or the executor a worker or a walk is in, not a handle a client owns, and not
\* a task that is queued or linked.
NoUseAfterFree ==
    /\ \A x \in Threads : Touches(x) \cap freed = {}
    /\ \A t \in linked : {t, "scope"} \cap freed = {}
    /\ \A i \in DOMAIN queue : {queue[i], "exec"} \cap freed = {}

\* The pending releases of o by thread x.
Pending(x, o) == {i \in DOMAIN todo[x] : todo[x][i] = o}

\* The count of a task is the number of its owners: handles, the scope's list,
\* queue entries, the worker that runs it and pending releases.  The reference
\* of the list and that of the entry are among the pending releases from
\* publication on.
RefsExact ==
    \A t \in Tasks :
        refs[t] = Cardinality({c \in Clients : t \in holds[c]})
                  + Cardinality({t} \cap (linked \ published))
                  + Cardinality({i \in DOMAIN queue : queue[i] = t})
                  + Cardinality({w \in Workers : job[w] = t /\ t \notin published})
                  + Cardinality({p \in Threads \X (1..6) : p[2] \in Pending(p[1], t)})

\* "dropping a detached task and its executor handles cannot make a worker
\* destroy its own executor" (next-task-frame-runtime-abi.md:55-57): a worker
\* never runs executor_dispose, which joins that very worker.
NoSelfDispose ==
    \A w \in Workers : todo[w] # <<>> => Head(todo[w]) # "disposeExec"

\* Nothing leaks: when no thread has anything to do, no client owns a handle
\* and no task is suspended, every object that was created has been freed.
NoLeak ==
    (/\ \A x \in Threads : todo[x] = <<>> /\ pc[x] # "join"
     /\ \A c \in Clients : holds[c] = {}
     /\ \A t \in Tasks : phase[t] \in {"none", "ended"})
    => freed = {"exec", "scope"} \cup {t \in Tasks : phase[t] # "none"}

\* Reference counting of tasks, scope and executor: types, no use of what is freed, counts
\* equal to the references there are, nothing left when nobody holds anything, and no worker
\* that joins itself as long as the host keeps the executor (retain, release,
\* publish_terminal, request_cancel_tree).
ReferencesBalance ==
    /\ TypeOK /\ NoUseAfterFree /\ RefsExact /\ NoLeak
    /\ HostKeepsExecutor => NoSelfDispose
=============================================================================
