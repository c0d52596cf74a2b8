------------------------ MODULE ArtifactLoadExecutor ------------------------
(***************************************************************************)
(* The compiler's artifact load executor                                   *)
(* (lib/Driver/Compiler/CompilerArtifactLoadExecutor.cpp): a bounded queue *)
(* of loads, a pool of workers, and the pipeline that owns both.           *)
(*                                                                         *)
(* A consumer is a compilation thread that submits the loads of one        *)
(* request in turn and then waits for their futures.  A consumer of a      *)
(* specialization submits one load, under specialization_mutex, unless     *)
(* somebody already has.  The owner is the pipeline: it drains the         *)
(* executor when the consumers are done, or cancels what is pending and    *)
(* drains after a failure, and then destroys it.                           *)
(*                                                                         *)
(* A request for no more objects than there are workers, and an executor   *)
(* without workers, load on the calling thread and are not modelled.       *)
(*                                                                         *)
(* Every critical section of the mutex is one action and every notify,     *)
(* which the code makes after unlocking, is a step of its own (those that  *)
(* follow one another directly are one step).                              *)
(***************************************************************************)
EXTENDS Naturals, Sequences, FiniteSets

CONSTANTS
    Consumers,      \* compilation threads
    Workers,        \* the executor's workers
    QueueLimit,     \* queue_limit: max(1, 4 * workers) in the code
    Batch,          \* number of loads of each consumer
    Key,            \* specialization each consumer asks for, or NoKey
    NoKey

VARIABLES
    tasks,          \* the queue of submitted loads
    active,         \* number of loads that workers have taken
    accepting,      \* FALSE once the destructor runs
    requested,      \* cancellation_requested
    outside,        \* what the is_cancelled callback returns
    completed,      \* loads whose future is set, with their value or as cancelled
    future,         \* specializations: the load whose future each key has
    specLock,       \* the consumer that holds specialization_mutex
    cpc, next,      \* where each consumer is, and the load it submits next
    wpc, taken,     \* where each worker is, and the load it has
    opc, pending    \* where the owner is, and the loads it is cancelling

queueVars == <<tasks, active, accepting>>
cancelVars == <<requested, outside>>
consumerVars == <<cpc, next, future, specLock>>
workerVars == <<wpc, taken>>
ownerVars == <<opc, pending>>
vars == <<queueVars, cancelVars, completed, consumerVars, workerVars, ownerVars>>

Loads == {l \in Consumers \X Nat : l[2] \in 1..Batch[l[1]]}
Keys == {Key[c] : c \in Consumers} \ {NoKey}
NoLoad == <<>>

Init ==
    /\ tasks = <<>> /\ active = 0 /\ accepting = TRUE
    /\ requested = FALSE /\ outside = FALSE
    /\ completed = {}
    /\ future = [k \in Keys |-> NoLoad]
    /\ specLock = NoLoad
    /\ cpc = [c \in Consumers |-> "idle"]
    /\ next = [c \in Consumers |-> 1]
    /\ wpc = [w \in Workers |-> "awake"]
    /\ taken = [w \in Workers |-> NoLoad]
    /\ opc = "compiling"
    /\ pending = <<>>

cancelled == requested \/ outside

\* The outside callback starts to answer TRUE; nobody is notified.
CancelOutside ==
    /\ ~outside
    /\ outside' = TRUE
    /\ UNCHANGED <<queueVars, requested, completed, consumerVars, workerVars, ownerVars>>

\* complete: the promise is set once.
Completed(l) == completed \cup {l}

-----------------------------------------------------------------------------
(* Consumers *)

\* A specialization that somebody has asked for is only awaited.
Start(c) ==
    /\ cpc[c] = "idle"
    /\ Key[c] # NoKey => specLock = NoLoad
    /\ IF Key[c] # NoKey /\ future[Key[c]] # NoLoad
       THEN cpc' = [cpc EXCEPT ![c] = "await"] /\ UNCHANGED specLock
       ELSE /\ cpc' = [cpc EXCEPT ![c] = "submit"]
            /\ specLock' = IF Key[c] # NoKey THEN <<c, 1>> ELSE specLock
    /\ UNCHANGED <<queueVars, cancelVars, completed, next, future, workerVars, ownerVars>>

\* The submission of load next[c] is over; the future of a specialization is
\* published and the mutex released.
Submitted(c) ==
    /\ next' = [next EXCEPT ![c] = @ + 1]
    /\ cpc' = [cpc EXCEPT ![c] = IF next[c] = Batch[c] THEN "await" ELSE "submit"]
    /\ IF Key[c] = NoKey THEN UNCHANGED <<future, specLock>>
       ELSE future' = [future EXCEPT ![Key[c]] = <<c, 1>>] /\ specLock' = NoLoad

Submitting(c) == cpc[c] \in {"submit", "woken"}

SubmitSleep(c) ==
    /\ Submitting(c)
    /\ accepting /\ ~cancelled /\ Len(tasks) >= QueueLimit
    /\ cpc' = [cpc EXCEPT ![c] = "asleep"]
    /\ UNCHANGED <<queueVars, cancelVars, completed, next, future, specLock, workerVars, ownerVars>>

SubmitCancelled(c) ==
    /\ Submitting(c)
    /\ ~accepting \/ cancelled
    /\ completed' = Completed(<<c, next[c]>>)
    /\ Submitted(c)
    /\ UNCHANGED <<queueVars, cancelVars, workerVars, ownerVars>>

\* Mutant: the cancellation is not looked at again after the wait.
SubmitPushLate(c) ==
    /\ Submitting(c)
    /\ Len(tasks) < QueueLimit
    /\ tasks' = Append(tasks, <<c, next[c]>>)
    /\ cpc' = [cpc EXCEPT ![c] = "pushed"]
    /\ UNCHANGED <<active, accepting, cancelVars, completed, next, future, specLock,
                   workerVars, ownerVars>>
SubmitPush(c) ==
    /\ Submitting(c)
    /\ accepting /\ ~cancelled /\ Len(tasks) < QueueLimit
    /\ tasks' = Append(tasks, <<c, next[c]>>)
    /\ cpc' = [cpc EXCEPT ![c] = "pushed"]
    /\ UNCHANGED <<active, accepting, cancelVars, completed, next, future, specLock,
                   workerVars, ownerVars>>

\* changed.notify_one
SubmitNotify(c) ==
    /\ cpc[c] = "pushed"
    /\ IF \E w \in Workers : wpc[w] = "asleep"
       THEN \E w \in Workers : wpc[w] = "asleep" /\ wpc' = [wpc EXCEPT ![w] = "awake"]
       ELSE UNCHANGED wpc
    /\ Submitted(c)
    /\ UNCHANGED <<queueVars, cancelVars, completed, taken, ownerVars>>

\* future.get: of its own loads, or of the one its specialization has.
Await(c) ==
    /\ cpc[c] = "await"
    /\ IF Key[c] = NoKey THEN \A i \in 1..Batch[c] : <<c, i>> \in completed
       ELSE future[Key[c]] \in completed
    /\ cpc' = [cpc EXCEPT ![c] = "done"]
    /\ UNCHANGED <<queueVars, cancelVars, completed, next, future, specLock, workerVars, ownerVars>>

-----------------------------------------------------------------------------
(* Workers *)

WorkerSleep(w) ==
    /\ wpc[w] = "awake"
    /\ accepting /\ tasks = <<>>
    /\ wpc' = [wpc EXCEPT ![w] = "asleep"]
    /\ UNCHANGED <<queueVars, cancelVars, completed, consumerVars, taken, ownerVars>>

WorkerExit(w) ==
    /\ wpc[w] = "awake"
    /\ ~accepting /\ tasks = <<>>
    /\ wpc' = [wpc EXCEPT ![w] = "exited"]
    /\ UNCHANGED <<queueVars, cancelVars, completed, consumerVars, taken, ownerVars>>

WorkerPop(w) ==
    /\ wpc[w] = "awake"
    /\ tasks # <<>>
    /\ taken' = [taken EXCEPT ![w] = Head(tasks)]
    /\ tasks' = Tail(tasks)
    /\ active' = active + 1
    /\ wpc' = [wpc EXCEPT ![w] = "popped"]
    /\ UNCHANGED <<accepting, cancelVars, completed, consumerVars, ownerVars>>

\* space.notify_all
\* Mutant: the sleeping submitters are not notified.
WorkerSpaceSilent(w) ==
    /\ wpc[w] = "popped"
    /\ wpc' = [wpc EXCEPT ![w] = "run"]
    /\ UNCHANGED <<queueVars, cancelVars, completed, consumerVars, taken, ownerVars>>
WakeSpace == [c \in Consumers |-> IF cpc[c] = "asleep" THEN "woken" ELSE cpc[c]]
WorkerSpace(w) ==
    /\ wpc[w] = "popped"
    /\ wpc' = [wpc EXCEPT ![w] = "run"]
    /\ cpc' = WakeSpace
    /\ UNCHANGED <<queueVars, cancelVars, completed, next, future, specLock, taken, ownerVars>>

\* The load runs, unless it is cancelled before; a load that throws, or that
\* is cancelled meanwhile, completes its future as cancelled.
WorkerRun(w) ==
    /\ wpc[w] = "run"
    /\ completed' = Completed(taken[w])
    /\ wpc' = [wpc EXCEPT ![w] = "ran"]
    /\ UNCHANGED <<queueVars, cancelVars, consumerVars, taken, ownerVars>>

WorkerFinish(w) ==
    /\ wpc[w] = "ran"
    /\ active' = active - 1
    /\ taken' = [taken EXCEPT ![w] = NoLoad]
    /\ wpc' = [wpc EXCEPT ![w] = "finished"]
    /\ UNCHANGED <<tasks, accepting, cancelVars, completed, consumerVars, ownerVars>>

\* drained.notify_all
WorkerDrained(w) ==
    /\ wpc[w] = "finished"
    /\ wpc' = [wpc EXCEPT ![w] = "awake"]
    /\ opc' = IF opc = "asleep" THEN "drain" ELSE opc
    /\ UNCHANGED <<queueVars, cancelVars, completed, consumerVars, taken, pending>>

-----------------------------------------------------------------------------
(* The owner: cancelPending, drain, the destructor *)

CancelRequest ==
    /\ opc = "compiling"
    /\ requested' = TRUE
    /\ opc' = "requested"
    /\ UNCHANGED <<queueVars, outside, completed, consumerVars, workerVars, pending>>

CancelSwap ==
    /\ opc = "requested"
    /\ pending' = tasks
    /\ tasks' = <<>>
    /\ opc' = "cancelling"
    /\ UNCHANGED <<active, accepting, cancelVars, completed, consumerVars, workerVars>>

CancelOne ==
    /\ opc = "cancelling"
    /\ pending # <<>>
    /\ completed' = Completed(Head(pending))
    /\ pending' = Tail(pending)
    /\ UNCHANGED <<queueVars, cancelVars, consumerVars, workerVars, opc>>

\* changed, space and drained .notify_all
CancelNotify ==
    /\ opc = "cancelling"
    /\ pending = <<>>
    /\ wpc' = [w \in Workers |-> IF wpc[w] = "asleep" THEN "awake" ELSE wpc[w]]
    /\ cpc' = WakeSpace
    /\ opc' = "drain"
    /\ UNCHANGED <<queueVars, cancelVars, completed, next, future, specLock, taken, pending>>

\* Without a failure the owner drains when the consumers are done.
DrainBegin ==
    /\ opc = "compiling"
    /\ \A c \in Consumers : cpc[c] = "done"
    /\ opc' = "drain"
    /\ UNCHANGED <<queueVars, cancelVars, completed, consumerVars, workerVars, pending>>

Drain ==
    /\ opc = "drain"
    /\ opc' = IF tasks = <<>> /\ active = 0 THEN "drained" ELSE "asleep"
    /\ UNCHANGED <<queueVars, cancelVars, completed, consumerVars, workerVars, pending>>

\* The executor is destroyed when nobody can call it any more.
Destroy ==
    /\ opc = "drained"
    /\ \A c \in Consumers : cpc[c] = "done"
    /\ accepting' = FALSE
    /\ opc' = "stopping"
    /\ UNCHANGED <<tasks, active, cancelVars, completed, consumerVars, workerVars, pending>>

\* changed and space .notify_all
DestroyNotify ==
    /\ opc = "stopping"
    /\ wpc' = [w \in Workers |-> IF wpc[w] = "asleep" THEN "awake" ELSE wpc[w]]
    /\ cpc' = WakeSpace
    /\ opc' = "joining"
    /\ UNCHANGED <<queueVars, cancelVars, completed, next, future, specLock, taken, pending>>

Join ==
    /\ opc = "joining"
    /\ \A w \in Workers : wpc[w] = "exited"
    /\ opc' = "destroyed"
    /\ UNCHANGED <<queueVars, cancelVars, completed, consumerVars, workerVars, pending>>

Done == opc = "destroyed" /\ UNCHANGED vars

-----------------------------------------------------------------------------
ConsumerStep(c) ==
    Start(c) \/ SubmitSleep(c) \/ SubmitCancelled(c) \/ SubmitPush(c)
      \/ SubmitNotify(c) \/ Await(c)
WorkerStep(w) ==
    WorkerSleep(w) \/ WorkerExit(w) \/ WorkerPop(w) \/ WorkerSpace(w) \/ WorkerRun(w)
      \/ WorkerFinish(w) \/ WorkerDrained(w)
OwnerStep ==
    CancelSwap \/ CancelOne \/ CancelNotify \/ DrainBegin \/ Drain \/ Destroy
      \/ DestroyNotify \/ Join

Next ==
    \/ \E c \in Consumers : ConsumerStep(c)
    \/ \E w \in Workers : WorkerStep(w)
    \/ OwnerStep \/ CancelRequest \/ CancelOutside \/ Done

Spec == Init /\ [][Next]_vars

\* Threads that are awake run and loads return.  Nothing makes anybody cancel.
Fairness ==
    /\ \A c \in Consumers : WF_vars(ConsumerStep(c))
    /\ \A w \in Workers : WF_vars(WorkerStep(w))
    /\ WF_vars(OwnerStep)

FairSpec == Spec /\ Fairness

-----------------------------------------------------------------------------
(* Properties *)

\* Types; the queue never exceeds its limit.
TypeOK ==
    /\ Len(tasks) <= QueueLimit /\ \A i \in 1..Len(tasks) : tasks[i] \in Loads
    /\ active \in 0..Cardinality(Workers)
    /\ completed \subseteq Loads
    /\ \A c \in Consumers :
         cpc[c] \in {"idle", "submit", "asleep", "woken", "pushed", "await", "done"}
    /\ \A w \in Workers :
         wpc[w] \in {"awake", "asleep", "popped", "run", "ran", "finished", "exited"}

\* When drain has returned no load is queued or running, and none will be:
\* the pipeline then reads the metrics and frees what the loads refer to.
DrainedIsQuiet ==
    opc \in {"drained", "stopping", "joining", "destroyed"} =>
      tasks = <<>> /\ \A w \in Workers : taken[w] = NoLoad

\* A specialization is loaded at most once, whoever asks for it and however
\* long its submission waits for space.
LoadedOnce ==
    \A c, d \in Consumers :
      Key[c] # NoKey /\ Key[c] = Key[d] /\ c # d =>
        ~(next[c] > 1 /\ cpc[d] \in {"asleep", "woken", "submit", "pushed"})

\* The executor between its consumers and its owner: types, silence once drain has
\* returned, one load for each specialization (submit, work, drain, loadSpecialization).
LoadSafety == TypeOK /\ DrainedIsQuiet /\ LoadedOnce

\* The compilation ends: every consumer gets all its results, through a full
\* queue, through a cancellation from either side and behind another's
\* specialization; then drain returns and the workers are joined.
Finishes == <>(opc = "destroyed")
=============================================================================
