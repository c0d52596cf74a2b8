------------------------ MODULE TaskSchedulerProofs -------------------------
(***************************************************************************)
(* The task scheduler, proved for any tasks, executors, threads, deadlines *)
(* and steps.  The theorems are at the end:                                *)
(*                                                                         *)
(*   Invariant         Spec => []IInv                                      *)
(*   CancelExact       Spec => []CancellationExact                         *)
(*   Scheduled         ScheduledOnce, NoLostWake, CancelledIsWoken and     *)
(*                     SleepersHaveReason                                  *)
(*   Committing        Spec => CommitIsFinal                               *)
(*   OneExecutorExact  Spec => []SchedulingExact, with one executor        *)
(*                                                                         *)
(* IInv has one named part per concern, and a lemma XInductive shows that  *)
(* every step keeps part X, given all of IInv before the step.  Most of    *)
(* these lemmas go by TaskSteps, which sorts the actions by what they do   *)
(* to the tasks.                                                           *)
(***************************************************************************)
EXTENDS TaskScheduler, FiniteSetTheorems, SequenceTheorems, TLAPS

-----------------------------------------------------------------------------
(* How often a value is in a queue. *)

\* v is not in s; v is in s at exactly one position.
NotIn(s, v) == \A i \in DOMAIN s : s[i] # v
OnceIn(s, v) == \E i \in DOMAIN s : s[i] = v /\ \A j \in DOMAIN s : s[j] = v => j = i

\* What Append does to the two predicates.
LEMMA Appended ==
    ASSUME NEW S, NEW s \in Seq(S), NEW u \in S, NEW v \in S
    PROVE  /\ v # u /\ NotIn(s, v) => NotIn(Append(s, u), v)
           /\ v # u /\ OnceIn(s, v) => OnceIn(Append(s, u), v)
           /\ NotIn(s, u) => OnceIn(Append(s, u), u)
<1> DEFINE t == Append(s, u)
<1>1. /\ Len(s) \in Nat /\ DOMAIN s = 1..Len(s) /\ DOMAIN t = 1..(Len(s) + 1)
      /\ \A i \in 1..Len(s) : t[i] = s[i]
      /\ t[Len(s) + 1] = u
  BY LenProperties, AppendProperties
<1> HIDE DEF t
<1>2. NotIn(s, u) => OnceIn(t, u)
  BY <1>1 DEF NotIn, OnceIn
<1> QED
  BY <1>1, <1>2 DEF NotIn, OnceIn, t

\* What taking the head off a sequence does to them.
LEMMA Taken ==
    ASSUME NEW S, NEW s \in Seq(S), s # <<>>, NEW v \in S
    PROVE  /\ Head(s) \in S /\ ~NotIn(s, Head(s))
           /\ NotIn(s, v) => NotIn(Tail(s), v)
           /\ v # Head(s) /\ OnceIn(s, v) => OnceIn(Tail(s), v)
           /\ OnceIn(s, Head(s)) => NotIn(Tail(s), Head(s))
<1> DEFINE t == Tail(s)
           h == Head(s)
<1>1. /\ Len(s) \in Nat \ {0} /\ DOMAIN s = 1..Len(s) /\ s[1] = h /\ h \in S
      /\ DOMAIN t = 1..(Len(s) - 1) /\ \A i \in 1..(Len(s) - 1) : t[i] = s[i + 1]
  BY LenProperties, EmptySeq, HeadTailProperties
<1> HIDE DEF t, h
<1>2. \A i \in DOMAIN t : i + 1 \in DOMAIN s /\ t[i] = s[i + 1]
  BY <1>1
<1>3. \A i \in DOMAIN s : i = 1 \/ (i - 1 \in DOMAIN t /\ s[i] = t[i - 1])
  BY <1>1
<1>4. ASSUME v # h, OnceIn(s, v) PROVE OnceIn(t, v)
  <2>1. PICK i \in DOMAIN s : s[i] = v /\ \A j \in DOMAIN s : s[j] = v => j = i
    BY <1>4 DEF OnceIn
  <2>2. i - 1 \in DOMAIN t /\ t[i - 1] = v /\ \A j \in DOMAIN t : t[j] = v => j = i - 1
    BY <1>1, <1>2, <1>3, <1>4, <2>1
  <2> QED
    BY <2>2 DEF OnceIn
<1>5. OnceIn(s, h) => NotIn(t, h)
  BY <1>1, <1>2 DEF NotIn, OnceIn
<1> QED
  BY <1>1, <1>2, <1>4, <1>5 DEF NotIn, t, h

\* Nothing is in a sequence both once and not at all.
LEMMA NotBoth ==
    ASSUME NEW s, NEW v
    PROVE  /\ ~(NotIn(s, v) /\ OnceIn(s, v))
           /\ NotIn(<<>>, v)
  BY DEF NotIn, OnceIn

\* A set with no element, and a set with one.
LEMMA Sizes ==
    /\ \A S : (\A x \in S : FALSE) => Cardinality(S) = 0
    /\ \A S, x : S = {x} => Cardinality(S) = 1
  BY FS_EmptySet, FS_Singleton

-----------------------------------------------------------------------------
(* The invariant. *)

\* Where a thread may be; a worker that executes or ends a task holds it.
Executing == {"resume", "rebound", "finish"}
Ending == {"publish", "retire", "detach"}
WorkerPlace == {"loop", "asleep"} \cup Executing \cup Ending
Place == WorkerPlace \cup {"client", "released"}

\* The calls a thread may be in the middle of, with their locals.
Stage == {"mark", "wake", "scope", "lock", "walk", "walkWake"}
WalkOp == [kind : {"walk"}, stage : Stage, root : Tasks \cup {NoTask}, cause : Cause,
           todo : SUBSET Tasks, last : Tasks \cup {NoTask}, join : BOOLEAN]
ChildOp == [kind : {"child"}, parent : Tasks, exec : Executors, task : Tasks]
JoinOp == [kind : {"join"}, task : Tasks \cup {NoTask}, asleep : BOOLEAN]
RetireOp == [kind : {"retire"}, exec : Executors]
Op == {NoOp} \cup WalkOp \cup ChildOp \cup JoinOp \cup RetireOp

\* TypeOK leaves open what the places and the fields of the calls are.
Typed ==
    /\ TypeOK
    /\ pc \in [Threads -> Place]
    /\ op \in [Threads -> Op]

\* A walk over the linked tasks holds the scope mutex; a walk wakes what it marked.
Walking(x) == op[x].kind = "walk" /\ op[x].stage \in {"walk", "walkWake"}
Waking(x) == op[x].kind = "walk" /\ op[x].stage \in {"wake", "walkWake"}

\* A task that does not exist has left no trace, one that exists is linked and bound until
\* it is published, and ancestry is transitive.
Lifecycle ==
    /\ \A t \in Tasks : state[t] = "None" =>
         /\ ~cancelled[t] /\ cause[t] = "None" /\ ~published[t] /\ ~woken[t]
         /\ t \notin inScope /\ ancestors[t] = {}
         /\ \A u \in Tasks : t \notin ancestors[u]
    /\ \A t \in Tasks : state[t] # "None" /\ ~published[t] =>
         t \in inScope /\ executor[t] \in Executors
    /\ \A t \in Tasks : published[t] => state[t] \in Terminal
    /\ \A t \in Tasks : \A a \in ancestors[t] : ancestors[a] \subseteq ancestors[t]

\* A queued task is once in the queue of the executor it is bound to, and no task is
\* anywhere else.
Queues ==
    \A t \in Tasks, e \in Executors :
        IF state[t] = "Queued" /\ executor[t] = e
        THEN OnceIn(queue[e], t) ELSE NotIn(queue[e], t)

\* Who holds which task: a worker at a place of Executing a running one, a worker at a place
\* of Ending one that is terminal and still linked, and never two workers the same.
Crew ==
    /\ \A x \in Threads : pc[x] \in WorkerPlace <=> x \in Workers
    /\ \A w \in Workers : pc[w] \in Executing =>
         running[w] \in Tasks /\ state[running[w]] = "Running"
    /\ \A w \in Workers : pc[w] \in Ending =>
         running[w] \in Tasks /\ state[running[w]] \in Terminal /\ running[w] \in inScope
    /\ \A w \in Workers : pc[w] = "publish" => ~published[running[w]]
    /\ \A w \in Workers : pc[w] \in {"retire", "detach"} => published[running[w]]
    /\ \A v, w \in Workers :
         /\ pc[v] \in Executing \cup Ending /\ pc[w] \in Executing \cup Ending
         /\ running[v] = running[w]
         => v = w
    /\ \A t \in Tasks : state[t] = "Running" =>
         \E w \in Workers : running[w] = t /\ pc[w] \in Executing
    /\ \A t \in Tasks : state[t] \in Terminal /\ t \in inScope =>
         \E w \in Workers : running[w] = t /\ pc[w] \in Ending

\* The call thread x is in fits the place x is at, the scope mutex and the tasks.
CallOK(x) ==
    /\ pc[x] \in {"finish", "detach", "asleep"} => op[x] = NoOp
    /\ pc[x] = "retire" <=> op[x].kind = "retire"
    /\ pc[x] = "publish" => op[x] = NoOp \/ op[x].kind = "walk"
    /\ op[x].kind = "join" => x \in Clients
    /\ op[x].kind = "walk" /\ op[x].join => x \in Clients
    /\ Walking(x) => scopeMutex = x
    /\ Waking(x) => op[x].last \in Tasks /\ state[op[x].last] # "None"
    /\ op[x].kind = "walk" /\ op[x].stage \in {"mark", "wake", "scope", "lock"} =>
         op[x].root \in Tasks /\ state[op[x].root] # "None"
    /\ op[x].kind = "child" =>
         state[op[x].task] = "None" /\ state[op[x].parent] # "None"

\* All calls do, no two creations have allocated the same task object, and an armed
\* deadline is one of a task that exists.
Calls ==
    /\ \A x \in Threads : CallOK(x)
    /\ \A x, y \in Threads :
         op[x].kind = "child" /\ op[y].kind = "child" /\ op[x].task = op[y].task => x = y
    /\ \A d \in Deadlines : deadline[d].state = "Armed" =>
         deadline[d].task \in Tasks /\ state[deadline[d].task] # "None"

\* t is below the root of a walk; the root of a walk over the scope is NoTask.
Below(t, root) == root = NoTask \/ root \in ancestors[t]

\* A linked task that runs on, uncancelled.
Uncancelled(t) == t \in inScope /\ Live(t) /\ ~cancelled[t]

\* The walk of x has a reason, visits only tasks below its root, and while it holds the
\* scope mutex no uncancelled task below the root is missing from its list.
WalkSound(x) ==
    op[x].kind = "walk" /\ op[x].stage # "mark" =>
      /\ op[x].root = NoTask => scopeCancelled
      /\ op[x].root \in Tasks =>
           /\ op[x].root \in requested \/ state[op[x].root] = "Cancelled"
           /\ cancelled[op[x].root] \/ state[op[x].root] = "Cancelled"
      /\ \A t \in op[x].todo : Below(t, op[x].root)
      /\ Walking(x) => \A t \in Tasks :
           Uncancelled(t) /\ Below(t, op[x].root) => t \in op[x].todo

Walks == \A x \in Threads : WalkSound(x)

\* CancelClosed, made inductive.  An ancestor that ended cancelled by itself is still
\* with its worker, which has its tree to visit before it publishes: this is what lets a
\* descendant be created until then.
Reached ==
    /\ \A t \in Tasks : Uncancelled(t) /\ scopeCancelled =>
          \E x \in Threads : Visiting(x, NoTask)
    /\ \A t \in Tasks : Uncancelled(t) => \A a \in ancestors[t] : cancelled[a] =>
          \E x \in Threads, b \in ancestors[t] \cup {NoTask} : Visiting(x, b)
    /\ \A t \in Tasks : Uncancelled(t) => \A a \in ancestors[t] : state[a] = "Cancelled" =>
          \E w \in Workers : Visiting(w, a) /\ running[w] = a /\ pc[w] = "publish"

\* No wake and no notification is lost.
Wakes == NoLostWake /\ CancelledIsWoken /\ SleepersHaveReason

\* The inductive invariant.
IInv ==
    /\ Typed /\ Lifecycle /\ Queues /\ Crew /\ Calls
    /\ CancellationWins /\ DownwardOnly /\ Walks /\ Reached /\ Wakes

-----------------------------------------------------------------------------
(* The calls in progress, and notifications. *)

\* What a call is can be told from its kind.
LEMMA OpKinds ==
    ASSUME op \in [Threads -> Op], NEW x \in Threads
    PROVE  /\ op[x].kind = "none" <=> op[x] = NoOp
           /\ op[x].kind = "walk" <=> op[x] \in WalkOp
           /\ op[x].kind = "child" <=> op[x] \in ChildOp
           /\ op[x].kind = "join" <=> op[x] \in JoinOp
           /\ op[x].kind = "retire" <=> op[x] \in RetireOp
<1>1. op[x] \in Op
  OBVIOUS
<1>2. NoOp.kind = "none"
  BY DEF NoOp
<1>3. /\ \A o \in WalkOp : o.kind = "walk"
      /\ \A o \in ChildOp : o.kind = "child"
      /\ \A o \in JoinOp : o.kind = "join"
      /\ \A o \in RetireOp : o.kind = "retire"
  BY DEF WalkOp, ChildOp, JoinOp, RetireOp
<1> QED
  BY <1>1, <1>2, <1>3 DEF Op

\* The records the model makes for a call are calls, with the fields they were given.
LEMMA OpMade ==
    /\ NoOp \in Op /\ NoOp.kind = "none"
    /\ \A stage \in Stage, root \in Tasks \cup {NoTask}, why \in Cause,
          todo \in SUBSET Tasks, join \in BOOLEAN :
         LET o == Walk(stage, root, why, todo, join)
         IN  /\ o \in WalkOp /\ o.kind = "walk" /\ o.stage = stage /\ o.root = root
             /\ o.todo = todo /\ o.last = root
    /\ \A parent \in Tasks, e \in Executors, t \in Tasks :
         LET o == Child(parent, e, t)
         IN  o \in ChildOp /\ o.kind = "child" /\ o.parent = parent /\ o.task = t
    /\ \A t \in Tasks \cup {NoTask}, b \in BOOLEAN :
         LET o == Join(t, b)
         IN  o \in JoinOp /\ o.kind = "join" /\ o.task = t /\ o.asleep = b
    /\ \A e \in Executors :
         LET o == Retiring(e)
         IN  o \in RetireOp /\ o.kind = "retire" /\ o.exec = e
  BY DEF NoOp, Op, Walk, WalkOp, Stage, Child, ChildOp, Join, JoinOp, Retiring, RetireOp

\* A walk whose stage, list or last task changes is a walk with the same root.
LEMMA WalkChanged ==
    ASSUME NEW o \in WalkOp, NEW stage \in Stage, NEW last \in Tasks \cup {NoTask},
           NEW todo \in SUBSET Tasks
    PROVE  /\ [o EXCEPT !.stage = stage] = [o EXCEPT !.stage = stage, !.last = o.last]
           /\ [o EXCEPT !.todo = todo] = [o EXCEPT !.todo = todo, !.stage = o.stage]
           /\ LET q == [o EXCEPT !.stage = stage, !.todo = todo, !.last = last]
              IN  /\ q \in WalkOp /\ q.kind = "walk" /\ q.stage = stage /\ q.todo = todo
                  /\ q.last = last /\ q.root = o.root
  BY DEF WalkOp, Stage

\* NotifyWorkers moves sleepers of e to the top of their loop and nobody else.
LEMMA Notified ==
    ASSUME NEW e, NEW p \in [Threads -> Place]
    PROVE  /\ NotifyWorkers(e, p) \in [Threads -> Place]
           /\ \A x \in Threads :
                \/ NotifyWorkers(e, p)[x] = p[x]
                \/ x \in Workers /\ p[x] = "asleep" /\ NotifyWorkers(e, p)[x] = "loop"
           /\ \A w \in Workers : NotifyWorkers(e, p)[w] = "asleep" => Home[w] # e
  BY DEF NotifyWorkers, Place, WorkerPlace, Threads

\* NotifyJoiners wakes the joiners of t and touches no other call.
LEMMA JoinersNotified ==
    ASSUME NEW t \in Tasks \cup {NoTask}, NEW o \in [Threads -> Op]
    PROVE  /\ NotifyJoiners(t, o) \in [Threads -> Op]
           /\ \A x \in Threads :
                \/ NotifyJoiners(t, o)[x] = o[x] /\ ~(o[x].kind = "join" /\ o[x].task = t)
                \/ /\ o[x].kind = "join" /\ o[x].task = t
                   /\ NotifyJoiners(t, o)[x] = Join(t, FALSE)
  BY OpMade DEF NotifyJoiners, Op

\* A call that is one of Op has the fields TypeOK asks for.
LEMMA OpClause ==
    ASSUME NEW o \in [Threads -> Op], NEW x \in Threads
    PROVE  /\ o[x].kind \in {"none", "walk", "child", "join", "retire"}
           /\ o[x].kind \in {"child", "retire"} => o[x].exec \in Executors
           /\ o[x].kind = "walk" => o[x].todo \subseteq Tasks /\ o[x].cause \in Cause
<1>1. o[x] \in Op
  OBVIOUS
<1> QED
  BY <1>1 DEF Op, NoOp, WalkOp, ChildOp, JoinOp, RetireOp

\* The three outcomes of next_task_run: the task ends, is queued again or goes idle.
Ends(w) ==
    LET t == running[w]
    IN  /\ FinalStep(w) \in Terminal
        /\ state' = [state EXCEPT ![t] = FinalStep(w)]
        /\ woken' = [woken EXCEPT ![t] = FALSE]
        /\ rerun' = [rerun EXCEPT ![t] = FALSE]
        /\ pc' = NotifyWorkers(Home[w], [pc EXCEPT ![w] = "publish"])
        /\ op' = IF FinalStep(w) = "Cancelled"
                 THEN [op EXCEPT ![w] =
                         Walk("scope", t, IF cause[t] = "None" THEN "OwnerRequest"
                                                               ELSE cause[t], {}, FALSE)]
                 ELSE op
        /\ UNCHANGED <<queue, running>>
Requeues(w) ==
    LET t == running[w]
    IN  /\ FinalStep(w) \notin Terminal /\ RunAgain(w)
        /\ rerun' = [rerun EXCEPT ![t] = FALSE]
        /\ queue' = [queue EXCEPT ![executor[t]] = Append(@, t)]
        /\ state' = [state EXCEPT ![t] = "Queued"]
        /\ pc' = NotifyWorkers(executor[t],
                               NotifyWorkers(Home[w], [pc EXCEPT ![w] = "loop"]))
        /\ running' = [running EXCEPT ![w] = NoTask]
        /\ UNCHANGED <<op, woken>>
Idles(w) ==
    LET t == running[w]
    IN  /\ FinalStep(w) \notin Terminal /\ ~RunAgain(w)
        /\ state' = [state EXCEPT ![t] = "Idle"]
        /\ pc' = NotifyWorkers(executor[t],
                               NotifyWorkers(Home[w], [pc EXCEPT ![w] = "loop"]))
        /\ running' = [running EXCEPT ![w] = NoTask]
        /\ UNCHANGED <<rerun, queue, op, woken>>

\* next_task_run is one of them.
LEMMA FinishCases ==
    ASSUME NEW w \in Workers, Finish(w)
    PROVE  /\ Ends(w) \/ Requeues(w) \/ Idles(w)
           /\ pc[w] = "finish" /\ step' = [step EXCEPT ![w] = "Suspended"]
           /\ UNCHANGED <<cancelled, cause, published, executor, ancestors, deadline,
                         scopeVars, requested>>
  BY DEF Finish, Ends, Requeues, Idles, Enqueue, NextExecutor

\* Every step keeps the types, of the calls in progress too.
LEMMA TypedInductive ==
    ASSUME IInv, [Next]_vars
    PROVE  Typed'
<1> USE SchedulerAssumption
<1>0. Typed /\ TypeOK /\ pc \in [Threads -> Place] /\ op \in [Threads -> Op]
  BY DEF IInv, Typed
<1>k. \A x \in Threads : /\ op[x].kind = "walk" => op[x] \in WalkOp
                         /\ op[x].kind = "child" => op[x] \in ChildOp
                         /\ op[x].kind = "join" => op[x] \in JoinOp
                         /\ op[x].kind = "retire" => op[x] \in RetireOp
  BY <1>0, OpKinds
<1>t. ASSUME op' \in [Threads -> Op], pc' \in [Threads -> Place],
             /\ state' \in [Tasks -> State] /\ cancelled' \in [Tasks -> BOOLEAN]
             /\ cause' \in [Tasks -> Cause] /\ rerun' \in [Tasks -> BOOLEAN]
             /\ published' \in [Tasks -> BOOLEAN]
             /\ executor' \in [Tasks -> Executors \cup {NoExecutor}]
             /\ ancestors' \in [Tasks -> SUBSET Tasks],
             deadline' \in [Deadlines -> [state : {"None", "Armed", "Selected", "Released"},
                                          task : Tasks \cup {NoTask},
                                          exec : Executors \cup {NoExecutor}]],
             /\ inScope' \subseteq Tasks /\ scopeCancelled' \in BOOLEAN
             /\ scopeMutex' \in Threads \cup {NoThread}
             /\ queue' \in [Executors -> Seq(Tasks)]
             /\ running' \in [Workers -> Tasks \cup {NoTask}]
             /\ step' \in [Workers -> Steps \cup {"Suspended"}]
             /\ woken' \in [Tasks -> BOOLEAN] /\ requested' \subseteq Tasks
      PROVE  Typed'
  <2>1. \A x \in Threads :
          /\ op'[x].kind \in {"none", "walk", "child", "join", "retire"}
          /\ op'[x].kind \in {"child", "retire"} => op'[x].exec \in Executors
          /\ op'[x].kind = "walk" => op'[x].todo \subseteq Tasks /\ op'[x].cause \in Cause
    BY <1>t, OpClause
  <2> QED
    BY <1>t, <2>1 DEF Typed, TypeOK
<1>a. ASSUME NEW e \in Executors, NEW t \in Tasks,
             queue' = [queue EXCEPT ![e] = Append(@, t)]
      PROVE  queue' \in [Executors -> Seq(Tasks)]
  <2>1. queue[e] \in Seq(Tasks) /\ queue \in [Executors -> Seq(Tasks)]
    BY <1>0 DEF TypeOK
  <2>2. Append(queue[e], t) \in Seq(Tasks)
    BY <2>1, AppendProperties
  <2> QED
    BY <1>a, <2>1, <2>2
<1>w. ASSUME NEW t \in Tasks, WakeTask(t)
      PROVE  /\ state' \in [Tasks -> State] /\ rerun' \in [Tasks -> BOOLEAN]
             /\ queue' \in [Executors -> Seq(Tasks)] /\ woken' \in [Tasks -> BOOLEAN]
             /\ pc' \in [Threads -> Place]
  <2>1. CASE /\ ~published[t] /\ WakeQueues(t) /\ UNCHANGED rerun
             /\ woken' = [woken EXCEPT ![t] = state[t] \notin Terminal]
             /\ Enqueue(executor[t], t) /\ pc' = NotifyWorkers(executor[t], pc)
    <3>1. executor[t] \in Executors
      BY <2>1 DEF IInv, Lifecycle, WakeQueues
    <3>2. queue' \in [Executors -> Seq(Tasks)]
      BY <1>a, <2>1, <3>1 DEF Enqueue
    <3>3. pc' \in [Threads -> Place]
      BY <1>0, <2>1, Notified
    <3> QED
      BY <1>0, <2>1, <3>2, <3>3 DEF Enqueue, TypeOK, State
  <2>2. CASE UNCHANGED <<queue, pc>>
    BY <1>0, <1>w, <2>2 DEF WakeTask, Enqueue, TypeOK, State
  <2> QED
    BY <1>w, <2>1, <2>2 DEF WakeTask
<1>i. ASSUME NEW t \in Tasks, NEW e \in Executors, NEW q \in Tasks \cup {NoTask},
             Insert(t, e, q)
      PROVE  /\ state' \in [Tasks -> State] /\ cancelled' \in [Tasks -> BOOLEAN]
             /\ cause' \in [Tasks -> Cause]
             /\ executor' \in [Tasks -> Executors \cup {NoExecutor}]
             /\ ancestors' \in [Tasks -> SUBSET Tasks] /\ inScope' \subseteq Tasks
             /\ queue' \in [Executors -> Seq(Tasks)] /\ woken' \in [Tasks -> BOOLEAN]
             /\ pc' \in [Threads -> Place]
  <2>1. InheritedCause(q) \in Cause
    BY <1>0 DEF InheritedCause, Cause, TypeOK
  <2> QED
    <3>1. queue' \in [Executors -> Seq(Tasks)]
      BY <1>a, <1>i DEF Insert, Enqueue
    <3>2. pc' \in [Threads -> Place]
      BY <1>0, <1>i, Notified DEF Insert
    <3>3. ancestors' \in [Tasks -> SUBSET Tasks]
      BY <1>0, <1>i DEF Insert, TypeOK
    <3>4. cause' \in [Tasks -> Cause] /\ cancelled' \in [Tasks -> BOOLEAN]
      <4>1. CASE Inherits(q)
        <5>1. cause' = [cause EXCEPT ![t] = InheritedCause(q)]
              /\ cancelled' = [cancelled EXCEPT ![t] = TRUE]
          BY <1>i, <4>1 DEF Insert
        <5> QED
          BY <1>0, <2>1, <5>1 DEF TypeOK
      <4>2. CASE ~Inherits(q)
        <5>1. UNCHANGED <<cause, cancelled>>
          BY <1>i, <4>2 DEF Insert
        <5> QED
          BY <1>0, <5>1 DEF TypeOK
      <4> QED
        BY <4>1, <4>2
    <3> QED
      BY <1>0, <1>i, <3>1, <3>2, <3>3, <3>4 DEF Insert, Enqueue, TypeOK, State
<1>m. ASSUME NEW t \in Tasks, NEW why \in Cause, Mark(t, why)
      PROVE  cause' \in [Tasks -> Cause] /\ cancelled' \in [Tasks -> BOOLEAN]
  BY <1>0, <1>m DEF Mark, TypeOK
<1>1. ASSUME NEW x \in Threads, NEW t \in Tasks, Wake(x, t)
      PROVE  Typed'
  BY <1>0, <1>1, <1>t, <1>w DEF Wake, scopeVars, TypeOK
<1>2. ASSUME NEW x \in Threads, NEW t \in Tasks, Create(x, t)
      PROVE  Typed'
  BY <1>0, <1>2, <1>t, <1>i DEF Create, TypeOK
<1>3. ASSUME NEW x \in Threads, NEW q \in Tasks, NEW t \in Tasks, CreateChild(x, q, t)
      PROVE  Typed'
  <2>1. executor[q] \in Executors
    BY <1>3 DEF CreateChild, IInv, Lifecycle, Terminal
  <2>2. op' \in [Threads -> Op]
    BY <1>0, <1>3, <2>1, OpMade DEF CreateChild, SetOp, Op
  <2> QED
    BY <1>0, <1>3, <1>t, <2>2 DEF CreateChild, taskVars, scopeVars, TypeOK
<1>4. ASSUME NEW x \in Threads, CreateChildInsert(x)
      PROVE  Typed'
  <2>1. op' \in [Threads -> Op]
    BY <1>0, <1>4, OpMade DEF CreateChildInsert, SetOp
  <2>2. op[x].parent \in Tasks /\ op[x].exec \in Executors /\ op[x].task \in Tasks
    BY <1>k, <1>4 DEF CreateChildInsert, ChildOp
  <2>3. CASE Insert(op[x].task, op[x].exec, op[x].parent)
              /\ UNCHANGED <<rerun, published, scopeCancelled, scopeMutex>>
    BY <1>0, <1>4, <1>t, <1>i, <2>1, <2>2, <2>3 DEF CreateChildInsert, TypeOK
  <2>4. CASE UNCHANGED <<taskVars, scopeVars, queue, pc, woken>>
    BY <1>0, <1>4, <1>t, <2>1, <2>4 DEF CreateChildInsert, taskVars, scopeVars, TypeOK
  <2> QED
    BY <1>4, <2>3, <2>4 DEF CreateChildInsert
<1>c. ASSUME NEW x \in Threads, NEW t \in Tasks, NEW why \in Cause, CancelRoot(x, t, why)
      PROVE  /\ cause' \in [Tasks -> Cause] /\ cancelled' \in [Tasks -> BOOLEAN]
             /\ requested' \subseteq Tasks /\ op' \in [Threads -> Op]
  <2>1. Walk("wake", t, why, {}, FALSE) \in Op /\ NoOp \in Op
    BY OpMade DEF Op, Stage
  <2> QED
    <3>1. CASE Markable(t)
      <4>1. /\ Mark(t, why) /\ requested' = requested \cup {t}
            /\ op' = [op EXCEPT ![x] = Walk("wake", t, why, {}, FALSE)]
        BY <1>c, <3>1 DEF CancelRoot, SetOp
      <4>2. op' \in [Threads -> Op] /\ requested' \subseteq Tasks
        BY <1>0, <2>1, <4>1 DEF TypeOK
      <4> QED
        BY <1>m, <4>1, <4>2
    <3>2. CASE ~Markable(t)
      <4>1. UNCHANGED <<cause, cancelled, requested>> /\ op' = [op EXCEPT ![x] = NoOp]
        BY <1>c, <3>2 DEF CancelRoot, SetOp
      <4> QED
        BY <1>0, <2>1, <4>1 DEF TypeOK
    <3> QED
      BY <3>1, <3>2
<1>5. ASSUME NEW x \in Threads, NEW t \in Tasks, RequestCancel(x, t)
      PROVE  Typed'
  <2>1. "OwnerRequest" \in Cause
    BY DEF Cause
  <2> QED
    BY <1>0, <1>5, <1>t, <1>c, <2>1 DEF RequestCancel, scopeVars, TypeOK
<1>6. ASSUME NEW x \in Threads, WalkWake(x)
      PROVE  Typed'
  <2>1. op[x] \in WalkOp /\ op[x].last \in Tasks
    BY <1>k, <1>6 DEF WalkWake, IInv, Calls, CallOK, Waking
  <2>2. op' \in [Threads -> Op]
    BY <1>0, <1>6, <2>1 DEF WalkWake, SetOp, Op, WalkOp, Stage
  <2> QED
    BY <1>0, <1>6, <1>t, <1>w, <2>1, <2>2 DEF WalkWake, scopeVars, TypeOK
<1>7. ASSUME NEW x \in Threads, WalkScope(x)
      PROVE  Typed'
  <2>1. op' \in [Threads -> Op]
    BY <1>0, <1>7, <1>k, OpMade DEF WalkScope, SetOp, Op, WalkOp, Stage
  <2> QED
    BY <1>0, <1>7, <1>t, <2>1 DEF WalkScope, taskVars, scopeVars, TypeOK
<1>8. ASSUME NEW x \in Threads, WalkLock(x)
      PROVE  Typed'
  <2>1. {t \in inScope : Descends(t, op[x].root)} \in SUBSET Tasks
    BY <1>0 DEF TypeOK
  <2>2. op' \in [Threads -> Op]
    <3> DEFINE o == [op[x] EXCEPT !.stage = "walk",
                                  !.todo = {t \in inScope : Descends(t, op[x].root)}]
    <3>1. op[x] \in WalkOp
      BY <1>8, <1>k DEF WalkLock
    <3>2. o \in WalkOp
      BY <2>1, <3>1 DEF WalkOp, Stage
    <3>3. op' = [op EXCEPT ![x] = o]
      BY <1>8 DEF WalkLock, SetOp
    <3> QED
      BY <1>0, <3>2, <3>3 DEF Op
  <2> QED
    BY <1>0, <1>8, <1>t, <2>2 DEF WalkLock, taskVars, scopeVars, TypeOK
<1>9. ASSUME NEW x \in Threads, NEW t \in Tasks, WalkMark(x, t)
      PROVE  Typed'
  <2>1. op[x] \in WalkOp /\ op[x].cause \in Cause
    BY <1>k, <1>9 DEF WalkMark, WalkOp
  <2>2. op' \in [Threads -> Op]
    <3>1. \E o \in WalkOp : op' = [op EXCEPT ![x] = o]
      <4>1. /\ [op[x] EXCEPT !.stage = "walkWake", !.todo = @ \ {t}, !.last = t] \in WalkOp
            /\ [op[x] EXCEPT !.todo = @ \ {t}] \in WalkOp
        BY <2>1 DEF WalkOp, Stage
      <4> QED
        BY <1>9, <4>1 DEF WalkMark, SetOp
    <3> QED
      BY <1>0, <3>1 DEF Op
  <2> QED
    BY <1>0, <1>9, <1>t, <1>m, <2>1, <2>2 DEF WalkMark, scopeVars, TypeOK
<1>10. ASSUME NEW x \in Threads, WalkUnlock(x)
       PROVE  Typed'
  <2>1. op' \in [Threads -> Op]
    BY <1>0, <1>10, OpMade DEF WalkUnlock, SetOp, Op
  <2> QED
    BY <1>0, <1>10, <1>t, <2>1 DEF WalkUnlock, taskVars, scopeVars, TypeOK
<1>11. ASSUME NEW x \in Threads, NEW release \in BOOLEAN, ScopeRequestCancel(x, release)
       PROVE  Typed'
  <2>1. Walk("walk", NoTask, "OwnerRequest", inScope, release) \in Op
    BY <1>0, OpMade DEF Op, Stage, Cause, TypeOK
  <2>2. op' \in [Threads -> Op]
    BY <1>0, <1>11, <2>1 DEF ScopeRequestCancel, SetOp
  <2>3. pc' \in [Threads -> Place]
    BY <1>0, <1>11 DEF ScopeRequestCancel, Place
  <2> QED
    BY <1>0, <1>11, <1>t, <2>2, <2>3 DEF ScopeRequestCancel, taskVars, TypeOK
<1>12. ASSUME NEW x \in Threads, NEW t \in Tasks, TaskJoin(x, t)
       PROVE  Typed'
  <2>1. op' \in [Threads -> Op]
    BY <1>0, <1>12, OpMade DEF TaskJoin, SetOp, Op
  <2> QED
    BY <1>0, <1>12, <1>t, <2>1 DEF TaskJoin, taskVars, scopeVars, TypeOK
<1>13. ASSUME NEW x \in Threads, JoinWait(x)
       PROVE  Typed'
  <2>1. op[x].task \in Tasks \cup {NoTask}
    BY <1>k, <1>13 DEF JoinWait, JoinOp
  <2>2. op' \in [Threads -> Op]
    BY <1>0, <1>13, <2>1, OpMade DEF JoinWait, SetOp, Op
  <2> QED
    BY <1>0, <1>13, <1>t, <2>2 DEF JoinWait, taskVars, scopeVars, TypeOK
<1>d. ASSUME NEW d \in Deadlines, NEW t \in Tasks \cup {NoTask},
             NEW e \in Executors \cup {NoExecutor},
             NEW st \in {"None", "Armed", "Selected", "Released"},
             deadline' = [deadline EXCEPT ![d] = [state |-> st, task |-> t, exec |-> e]]
      PROVE  deadline' \in [Deadlines -> [state : {"None", "Armed", "Selected", "Released"},
                                          task : Tasks \cup {NoTask},
                                          exec : Executors \cup {NoExecutor}]]
  BY <1>0, <1>d DEF TypeOK
<1>14. ASSUME NEW w \in Workers, NEW d \in Deadlines, DeadlineAfter(w, d)
       PROVE  Typed'
  <2>1. running[w] \in Tasks
    BY <1>14 DEF DeadlineAfter, IInv, Crew, Executing
  <2>2. executor[running[w]] \in Executors \cup {NoExecutor}
    BY <1>0, <2>1 DEF TypeOK
  <2>3. deadline' \in [Deadlines -> [state : {"None", "Armed", "Selected", "Released"},
                                     task : Tasks \cup {NoTask},
                                     exec : Executors \cup {NoExecutor}]]
    BY <1>14, <1>d, <2>1, <2>2 DEF DeadlineAfter
  <2> QED
    <3>1. pc' \in [Threads -> Place]
      BY <1>0, <1>14, Notified DEF DeadlineAfter
    <3> QED
      BY <1>0, <1>14, <1>t, <2>3, <3>1 DEF DeadlineAfter, taskVars, scopeVars, TypeOK
<1>15. ASSUME NEW x \in Threads, NEW d \in Deadlines, DeadlineRelease(x, d)
       PROVE  Typed'
  <2>1. deadline' \in [Deadlines -> [state : {"None", "Armed", "Selected", "Released"},
                                     task : Tasks \cup {NoTask},
                                     exec : Executors \cup {NoExecutor}]]
    BY <1>15, <1>d DEF DeadlineRelease, Unarmed
  <2> QED
    BY <1>0, <1>15, <1>t, <2>1, Notified DEF DeadlineRelease, taskVars, scopeVars, TypeOK
<1>16. ASSUME NEW w \in Workers, NEW d \in Deadlines, DeadlineSelect(w, d)
       PROVE  Typed'
  <2>1. deadline' \in [Deadlines -> [state : {"None", "Armed", "Selected", "Released"},
                                     task : Tasks \cup {NoTask},
                                     exec : Executors \cup {NoExecutor}]]
    BY <1>16, <1>d DEF DeadlineSelect, Unarmed
  <2>2. deadline[d].task \in Tasks \cup {NoTask}
    BY <1>0 DEF TypeOK
  <2>3. op' \in [Threads -> Op]
    <3>0. "mark" \in Stage /\ "DeadlineExpired" \in Cause
      BY DEF Stage, Cause
    <3>1. Walk("mark", deadline[d].task, "DeadlineExpired", {}, FALSE) \in WalkOp
      BY <2>2, <3>0, OpMade
    <3> QED
      BY <1>0, <1>16, <3>1 DEF DeadlineSelect, SetOp, Op
  <2>4. pc' \in [Threads -> Place]
    BY <1>0, <1>16 DEF DeadlineSelect, Place, WorkerPlace
  <2> QED
    BY <1>0, <1>16, <1>t, <2>1, <2>3, <2>4 DEF DeadlineSelect, taskVars, scopeVars, TypeOK
<1>18. ASSUME NEW w \in Workers, NEW e \in Executors, Rebind(w, e)
       PROVE  Typed'
  <2>1. pc' \in [Threads -> Place]
    BY <1>0, <1>18 DEF Rebind, Place, WorkerPlace, Executing
  <2> QED
    BY <1>0, <1>18, <1>t, <2>1 DEF Rebind, scopeVars, TypeOK
<1>19. ASSUME NEW w \in Workers, Dequeue(w)
       PROVE  Typed'
  <2>1. pc' \in [Threads -> Place]
    BY <1>0, <1>19 DEF Dequeue, Place, WorkerPlace, Executing
  <2>2. /\ queue[Home[w]] \in Seq(Tasks) /\ queue[Home[w]] # <<>>
        /\ Head(queue[Home[w]]) \in Tasks /\ Tail(queue[Home[w]]) \in Seq(Tasks)
    BY <1>0, <1>19 DEF Dequeue, TypeOK
  <2> QED
    BY <1>0, <1>19, <1>t, <2>1, <2>2 DEF Dequeue, scopeVars, TypeOK, State
<1>20. ASSUME NEW w \in Workers, Sleep(w)
       PROVE  Typed'
  <2>1. pc' \in [Threads -> Place]
    BY <1>0, <1>20 DEF Sleep, Place, WorkerPlace
  <2> QED
    BY <1>0, <1>20, <1>t, <2>1 DEF Sleep, taskVars, scopeVars, TypeOK
<1>21. ASSUME NEW w \in Workers, NEW st \in Steps, Return(w, st)
       PROVE  Typed'
  <2>1. pc' \in [Threads -> Place]
    BY <1>0, <1>21 DEF Return, Place, WorkerPlace, Executing
  <2> QED
    BY <1>0, <1>21, <1>t, <2>1 DEF Return, taskVars, scopeVars, TypeOK
<1>22. ASSUME NEW w \in Workers, Finish(w)
       PROVE  Typed'
  <2> DEFINE t == running[w]
  <2>1. t \in Tasks /\ executor[t] \in Executors
    BY <1>22 DEF Finish, IInv, Crew, Executing, Lifecycle, Terminal
  <2>2. /\ step' \in [Workers -> Steps \cup {"Suspended"}]
        /\ UNCHANGED <<cancelled, cause, published, executor, ancestors, deadline,
                       inScope, scopeCancelled, scopeMutex, requested>>
    BY <1>0, <1>22, FinishCases DEF scopeVars, TypeOK
  <2>p. ASSUME NEW to \in WorkerPlace
        PROVE  [pc EXCEPT ![w] = to] \in [Threads -> Place]
    BY <1>0 DEF Place
  <2>q. \A q \in [Threads -> Place] : \A e : NotifyWorkers(e, q) \in [Threads -> Place]
    BY Notified
  <2>l. "loop" \in WorkerPlace /\ "publish" \in WorkerPlace
    BY DEF WorkerPlace, Ending
  <2>3. CASE Ends(w)
    <3> DEFINE why == IF cause[t] = "None" THEN "OwnerRequest" ELSE cause[t]
    <3>1. why \in Cause /\ t \in Tasks \cup {NoTask}
      BY <1>0, <2>1 DEF Cause, TypeOK
    <3> HIDE DEF why
    <3>2. Walk("scope", t, why, {}, FALSE) \in Op
      BY <3>1, OpMade DEF Op, Stage
    <3>3. op' \in [Threads -> Op]
      BY <1>0, <2>3, <3>2 DEF Ends, why
    <3>4. pc' \in [Threads -> Place]
      BY <2>3, <2>p, <2>q, <2>l DEF Ends
    <3>5. state' \in [Tasks -> State]
      BY <1>0, <2>1, <2>3 DEF Ends, TypeOK, State
    <3>6. woken' \in [Tasks -> BOOLEAN] /\ rerun' \in [Tasks -> BOOLEAN]
      BY <1>0, <2>1, <2>3 DEF Ends, TypeOK
    <3> QED
      BY <1>0, <1>t, <2>2, <2>3, <3>3, <3>4, <3>5, <3>6 DEF Ends, TypeOK
  <2>4. CASE Requeues(w)
    <3>1. pc' \in [Threads -> Place]
      BY <2>4, <2>p, <2>q, <2>l DEF Requeues
    <3>2. queue' \in [Executors -> Seq(Tasks)]
      BY <1>a, <2>1, <2>4 DEF Requeues
    <3>3. state' \in [Tasks -> State] /\ running' \in [Workers -> Tasks \cup {NoTask}]
      BY <1>0, <2>1, <2>4 DEF Requeues, TypeOK, State
    <3>4. rerun' \in [Tasks -> BOOLEAN]
      BY <1>0, <2>1, <2>4 DEF Requeues, TypeOK
    <3> QED
      BY <1>0, <1>t, <2>2, <2>4, <3>1, <3>2, <3>3, <3>4 DEF Requeues, TypeOK
  <2>5. CASE Idles(w)
    <3>1. pc' \in [Threads -> Place]
      BY <2>5, <2>p, <2>q, <2>l DEF Idles
    <3>2. state' \in [Tasks -> State] /\ running' \in [Workers -> Tasks \cup {NoTask}]
      BY <1>0, <2>1, <2>5 DEF Idles, TypeOK, State
    <3> QED
      BY <1>0, <1>t, <2>2, <2>5, <3>1, <3>2 DEF Idles, TypeOK
  <2> QED
    BY <1>22, <2>3, <2>4, <2>5, FinishCases
<1>23. ASSUME NEW w \in Workers, Publish(w)
       PROVE  Typed'
  <2>1. running[w] \in Tasks /\ executor[running[w]] \in Executors
    BY <1>23 DEF Publish, IInv, Crew, Ending, Lifecycle, Terminal
  <2>2. [op EXCEPT ![w] = Retiring(executor[running[w]])] \in [Threads -> Op]
    BY <1>0, <2>1, OpMade DEF Op
  <2>3. op' \in [Threads -> Op]
    BY <1>23, <2>1, <2>2, JoinersNotified DEF Publish
  <2>4. pc' \in [Threads -> Place]
    BY <1>0, <1>23 DEF Publish, Place, WorkerPlace, Ending
  <2> QED
    BY <1>0, <1>23, <1>t, <2>3, <2>4 DEF Publish, scopeVars, TypeOK
<1>24. ASSUME NEW w \in Workers, Retire(w)
       PROVE  Typed'
  <2>1. [pc EXCEPT ![w] = "detach"] \in [Threads -> Place]
    BY <1>0 DEF Place, WorkerPlace, Ending
  <2>2. op' \in [Threads -> Op] /\ pc' \in [Threads -> Place]
    BY <1>0, <1>24, <2>1, OpMade, Notified DEF Retire, SetOp
  <2>3. deadline' \in [Deadlines -> [state : {"None", "Armed", "Selected", "Released"},
                                     task : Tasks \cup {NoTask},
                                     exec : Executors \cup {NoExecutor}]]
    BY <1>0, <1>24 DEF Retire, Unarmed, TypeOK
  <2> QED
    BY <1>0, <1>24, <1>t, <2>2, <2>3 DEF Retire, taskVars, scopeVars, TypeOK
<1>25. ASSUME NEW w \in Workers, Detach(w)
       PROVE  Typed'
  <2>1. op' \in [Threads -> Op]
    BY <1>0, <1>25, JoinersNotified DEF Detach
  <2>2. pc' \in [Threads -> Place]
    BY <1>0, <1>25 DEF Detach, Place, WorkerPlace
  <2> QED
    BY <1>0, <1>25, <1>t, <2>1, <2>2 DEF Detach, taskVars, TypeOK
<1>26. CASE UNCHANGED vars
  BY <1>0, <1>26, <1>t DEF vars, taskVars, scopeVars, threadVars, TypeOK
<1>27. ASSUME NEW x \in Threads, DeadlineExpire(x)
       PROVE  Typed'
  <2>1. "DeadlineExpired" \in Cause
    BY DEF Cause
  <2>2. op[x].root \in Tasks
    BY <1>27 DEF DeadlineExpire, IInv, Calls, CallOK
  <2> QED
    BY <1>0, <1>27, <1>t, <1>c, <2>1, <2>2 DEF DeadlineExpire, scopeVars, TypeOK
<1> QED
  BY <1>1, <1>2, <1>3, <1>4, <1>5, <1>6, <1>7, <1>8, <1>9, <1>10, <1>11, <1>12, <1>13,
     <1>14, <1>15, <1>16, <1>18, <1>19, <1>20, <1>21, <1>22, <1>23, <1>24, <1>25,
     <1>26, <1>27 DEF Next, Inside, Call, Work, Extra
\* What WakeTask does, task by task and thread by thread.
LEMMA WakeEffect ==
    ASSUME IInv, NEW t \in Tasks, state[t] # "None", WakeTask(t)
    PROVE  /\ \A u \in Tasks \ {t} : state'[u] = state[u] /\ woken'[u] = woken[u]
                                     /\ rerun'[u] = rerun[u]
           /\ state[t] # "Idle" => state'[t] = state[t] /\ UNCHANGED <<queue, pc>>
           /\ state[t] = "Idle" => /\ state'[t] = "Queued" /\ executor[t] \in Executors
                                   /\ queue' = [queue EXCEPT ![executor[t]] = Append(@, t)]
                                   /\ pc' = NotifyWorkers(executor[t], pc)
           /\ woken'[t] => state[t] \notin Terminal
           /\ woken'[t] /\ state[t] = "Running" => rerun'[t]
           /\ rerun[t] => rerun'[t]
<1>1. /\ state \in [Tasks -> State] /\ woken \in [Tasks -> BOOLEAN]
      /\ rerun \in [Tasks -> BOOLEAN] /\ published \in [Tasks -> BOOLEAN]
  BY DEF IInv, Typed, TypeOK
<1>2. published[t] => state[t] \in Terminal /\ ~woken[t]
  BY <1>1 DEF IInv, Lifecycle, Wakes, NoLostWake, Terminal
<1>3. ~published[t] => executor[t] \in Executors
  BY DEF IInv, Lifecycle
<1>4. CASE published[t]
  BY <1>1, <1>2, <1>4 DEF WakeTask, Terminal
<1>5. CASE ~published[t] /\ state[t] = "Idle"
  BY <1>1, <1>3, <1>5 DEF WakeTask, WakeQueues, Enqueue, Terminal
<1>6. CASE ~published[t] /\ state[t] = "Running"
  BY <1>1, <1>6 DEF WakeTask, WakeQueues, Terminal
<1>7. CASE ~published[t] /\ state[t] \notin {"Idle", "Running"}
  BY <1>1, <1>7 DEF WakeTask, WakeQueues, Terminal
<1> QED
  BY <1>4, <1>5, <1>6, <1>7

\* A new task comes into being: what task_create and task_create_child have in common.
NewTask(t, e, q) ==
    /\ Insert(t, e, q)
    /\ t \in Tasks /\ e \in Executors /\ state[t] = "None" /\ scopeMutex = NoThread
    /\ q # NoTask => q \in Tasks /\ state[q] = "Running" /\ q \in inScope
    /\ UNCHANGED <<rerun, published, deadline, scopeCancelled, scopeMutex, running, step,
                   requested>>

\* task_create and task_create_child do that, or the latter gives up.
LEMMA CreateNew ==
    ASSUME IInv, NEW x \in Threads
    PROVE  /\ \A t \in Tasks : Create(x, t) =>
                NewTask(t, ScopeExecutor, NoTask) /\ UNCHANGED op
           /\ CreateChildInsert(x) =>
                /\ op' = [op EXCEPT ![x] = NoOp] /\ op[x].kind = "child"
                /\ \/ NewTask(op[x].task, op[x].exec, op[x].parent)
                   \/ UNCHANGED <<taskVars, scopeVars, queue, pc, woken, deadline, running,
                                  step, requested>>
<1>1. op[x].kind = "child" =>
        /\ op[x].parent \in Tasks /\ op[x].exec \in Executors /\ op[x].task \in Tasks
        /\ state[op[x].task] = "None"
  BY OpKinds DEF IInv, Typed, Calls, CallOK, ChildOp
<1>2. \A t \in Tasks : Create(x, t) => NewTask(t, ScopeExecutor, NoTask) /\ UNCHANGED op
  BY SchedulerAssumption DEF Create, NewTask, Fresh
<1>3. CreateChildInsert(x) =>
        /\ op' = [op EXCEPT ![x] = NoOp] /\ op[x].kind = "child"
        /\ \/ NewTask(op[x].task, op[x].exec, op[x].parent)
           \/ UNCHANGED <<taskVars, scopeVars, queue, pc, woken, deadline, running, step,
                          requested>>
  BY <1>1 DEF CreateChildInsert, NewTask, SetOp
<1> QED
  BY <1>2, <1>3

\* A task is marked cancelled: what the root and the visited tasks of a walk have in common.
Marked(t) ==
    /\ t \in Tasks /\ Markable(t)
    /\ cancelled' = [cancelled EXCEPT ![t] = TRUE]
    /\ \A u \in Tasks : u # t \/ cause[u] # "None" => cause'[u] = cause[u]
    /\ UNCHANGED <<state, published, executor, ancestors, inScope, queue, pc, running, woken,
                   rerun, deadline, scopeCancelled, scopeMutex>>

\* What the three marking steps do, and to the call they belong to.
LEMMA MarkedBy ==
    ASSUME IInv, NEW x \in Threads
    PROVE  /\ \A t \in Tasks : RequestCancel(x, t) =>
                /\ Marked(t) /\ requested' = requested \cup {t}
                /\ op[x] = NoOp /\ pc[x] \in {"client", "resume", "rebound"}
                /\ op' = [op EXCEPT ![x] = Walk("wake", t, "OwnerRequest", {}, FALSE)]
           /\ DeadlineExpire(x) =>
                /\ op[x].kind = "walk" /\ op[x].stage = "mark" /\ op[x].root \in Tasks
                /\ \/ /\ Marked(op[x].root) /\ requested' = requested \cup {op[x].root}
                      /\ op' = [op EXCEPT ![x] =
                                  Walk("wake", op[x].root, "DeadlineExpired", {}, FALSE)]
                   \/ /\ UNCHANGED <<taskVars, scopeVars, queue, pc, woken, deadline, running,
                                     requested>>
                      /\ op' = [op EXCEPT ![x] = NoOp]
           /\ \A t \in Tasks : WalkMark(x, t) =>
                /\ op[x].kind = "walk" /\ op[x].stage = "walk" /\ t \in op[x].todo
                /\ UNCHANGED requested
                /\ \/ /\ Marked(t)
                      /\ op' = [op EXCEPT ![x] = [op[x] EXCEPT !.stage = "walkWake",
                                                               !.todo = @ \ {t}, !.last = t]]
                   \/ /\ ~Markable(t)
                      /\ UNCHANGED <<taskVars, scopeVars, queue, pc, woken, deadline, running>>
                      /\ op' = [op EXCEPT ![x] = [op[x] EXCEPT !.todo = @ \ {t}]]
<1>c. cause \in [Tasks -> Cause]
  BY DEF IInv, Typed, TypeOK
<1>1. DeadlineExpire(x) => op[x].root \in Tasks
  BY DEF DeadlineExpire, IInv, Calls, CallOK
<1>2. \A t \in Tasks : RequestCancel(x, t) =>
        /\ Marked(t) /\ requested' = requested \cup {t}
        /\ op[x] = NoOp /\ pc[x] \in {"client", "resume", "rebound"}
        /\ op' = [op EXCEPT ![x] = Walk("wake", t, "OwnerRequest", {}, FALSE)]
  BY <1>c DEF RequestCancel, CancelRoot, Mark, Marked, SetOp, scopeVars, Free
<1>3. DeadlineExpire(x) =>
        /\ op[x].kind = "walk" /\ op[x].stage = "mark" /\ op[x].root \in Tasks
        /\ \/ /\ Marked(op[x].root) /\ requested' = requested \cup {op[x].root}
              /\ op' = [op EXCEPT ![x] =
                          Walk("wake", op[x].root, "DeadlineExpired", {}, FALSE)]
           \/ /\ UNCHANGED <<taskVars, scopeVars, queue, pc, woken, deadline, running,
                             requested>>
              /\ op' = [op EXCEPT ![x] = NoOp]
  BY <1>c, <1>1 DEF DeadlineExpire, CancelRoot, Mark, Marked, SetOp, scopeVars, taskVars
<1>4. ASSUME NEW t \in Tasks, WalkMark(x, t)
      PROVE  /\ op[x].kind = "walk" /\ op[x].stage = "walk" /\ t \in op[x].todo
             /\ UNCHANGED requested
             /\ \/ /\ Marked(t)
                   /\ op' = [op EXCEPT ![x] = [op[x] EXCEPT !.stage = "walkWake",
                                                            !.todo = @ \ {t}, !.last = t]]
                \/ /\ ~Markable(t)
                   /\ UNCHANGED <<taskVars, scopeVars, queue, pc, woken, deadline, running>>
                   /\ op' = [op EXCEPT ![x] = [op[x] EXCEPT !.todo = @ \ {t}]]
  <2>1. CASE Markable(t)
    BY <1>c, <1>4, <2>1 DEF WalkMark, Mark, Marked, SetOp, scopeVars
  <2>2. CASE ~Markable(t)
    BY <1>4, <2>2 DEF WalkMark, SetOp, scopeVars, taskVars
  <2> QED
    BY <2>1, <2>2
<1> QED
  BY <1>2, <1>3, <1>4

\* A wake of t by anybody: the tasks and the run queues are all that changes.
Woke(t) ==
    /\ state[t] # "None" /\ WakeTask(t)
    /\ UNCHANGED <<cancelled, cause, published, executor, ancestors, inScope,
                   scopeCancelled, scopeMutex, running, deadline, requested>>

\* The stages of a worker's loop, and those of a client.
Stages == {{"loop", "asleep"}, Executing, {"publish"}, {"retire", "detach"},
           {"client", "released"}}
SameStage(x) == \E S \in Stages : pc[x] \in S /\ pc'[x] \in S

\* A step that leaves the tasks and the run queues alone, and every worker with its task.
Quiet ==
    /\ UNCHANGED <<state, cancelled, cause, rerun, published, executor, ancestors, inScope,
                   queue, woken, running>>
    /\ \A x \in Threads : SameStage(x)

\* The functions of the tasks have their types.
LEMMA TaskTypes ==
    ASSUME IInv
    PROVE  /\ state \in [Tasks -> State] /\ cancelled \in [Tasks -> BOOLEAN]
           /\ cause \in [Tasks -> Cause]
           /\ rerun \in [Tasks -> BOOLEAN] /\ published \in [Tasks -> BOOLEAN]
           /\ woken \in [Tasks -> BOOLEAN]
           /\ executor \in [Tasks -> Executors \cup {NoExecutor}]
           /\ ancestors \in [Tasks -> SUBSET Tasks] /\ inScope \subseteq Tasks
           /\ running \in [Workers -> Tasks \cup {NoTask}]
           /\ queue \in [Executors -> Seq(Tasks)]
           /\ pc \in [Threads -> Place] /\ op \in [Threads -> Op]
  BY DEF IInv, Typed, TypeOK

\* A thread stays where it is, or is woken.
Still(x) == pc'[x] = pc[x] \/ (pc[x] = "asleep" /\ pc'[x] = "loop")

\* Notified workers, and threads that do not move, stay in their stage.
LEMMA Stays ==
    ASSUME IInv, NEW x \in Threads
    PROVE  /\ Still(x) => SameStage(x)
           /\ pc'[x] = pc[x] => SameStage(x)
           /\ \A e : pc' = NotifyWorkers(e, pc) => Still(x) /\ SameStage(x)
<1>1. pc[x] \in Place
  BY TaskTypes
<1>2. \E S \in Stages : pc[x] \in S
  BY <1>1 DEF Place, WorkerPlace, Stages, Executing, Ending
<1>3. Still(x) => SameStage(x)
  BY <1>2 DEF Still, SameStage, Stages
<1>4. ASSUME NEW e, pc' = NotifyWorkers(e, pc) PROVE Still(x)
  BY <1>4, Notified, TaskTypes DEF Still
<1> QED
  BY <1>3, <1>4 DEF Still

\* What a step can do to the tasks.
LEMMA TaskSteps ==
    ASSUME IInv, [Next]_vars
    PROVE  \/ \E t \in Tasks : Woke(t)
           \/ \E t \in Tasks, e \in Executors, q \in Tasks \cup {NoTask} : NewTask(t, e, q)
           \/ \E t \in Tasks : Marked(t)
           \/ \E w \in Workers, e \in Executors : Rebind(w, e)
           \/ \E w \in Workers : Dequeue(w)
           \/ \E w \in Workers : Finish(w)
           \/ \E w \in Workers : Publish(w)
           \/ \E w \in Workers : Detach(w)
           \/ Quiet
<1> DEFINE Goal == \/ \E t \in Tasks : Woke(t)
                   \/ \E t \in Tasks, e \in Executors, q \in Tasks \cup {NoTask} :
                        NewTask(t, e, q)
                   \/ \E t \in Tasks : Marked(t)
                   \/ Quiet
<1>1. ASSUME NEW x \in Threads, NEW t \in Tasks, Wake(x, t) PROVE Goal
  BY <1>1 DEF Wake, Woke, scopeVars
<1>2. ASSUME NEW x \in Threads, WalkWake(x) PROVE Goal
  <2>1. op[x].last \in Tasks /\ state[op[x].last] # "None"
    BY <1>2 DEF WalkWake, IInv, Calls, CallOK, Waking
  <2> QED
    BY <1>2, <2>1 DEF WalkWake, Woke, scopeVars
<1>3. ASSUME NEW x \in Threads, NEW t \in Tasks, Create(x, t) PROVE Goal
  BY <1>3, CreateNew, SchedulerAssumption
<1>4. ASSUME NEW x \in Threads, CreateChildInsert(x) PROVE Goal
  <2>1. op[x].kind = "child" =>
          op[x].parent \in Tasks /\ op[x].exec \in Executors /\ op[x].task \in Tasks
    BY OpKinds DEF IInv, Typed, ChildOp
  <2> QED
    BY <1>4, <2>1, CreateNew, Stays DEF taskVars, scopeVars, Quiet
<1>5. ASSUME NEW x \in Threads, NEW t \in Tasks, RequestCancel(x, t) PROVE Goal
  BY <1>5, MarkedBy
<1>6. ASSUME NEW x \in Threads, DeadlineExpire(x) PROVE Goal
  BY <1>6, MarkedBy, Stays DEF taskVars, scopeVars, Quiet
<1>7. ASSUME NEW x \in Threads, NEW t \in Tasks, WalkMark(x, t) PROVE Goal
  BY <1>7, MarkedBy, Stays DEF taskVars, scopeVars, Quiet
<1>8. ASSUME NEW x \in Threads,
             \/ WalkScope(x) \/ WalkLock(x) \/ WalkUnlock(x) \/ JoinWait(x)
             \/ \E t \in Tasks : TaskJoin(x, t) \/ \E p \in Tasks : CreateChild(x, p, t)
             \/ \E d \in Deadlines : DeadlineRelease(x, d)
      PROVE  Quiet
  BY <1>8, Stays DEF WalkScope, WalkLock, WalkUnlock, JoinWait, TaskJoin, CreateChild,
                     DeadlineRelease, taskVars, scopeVars, Quiet
<1>9. ASSUME NEW x \in Threads, NEW release \in BOOLEAN, ScopeRequestCancel(x, release)
      PROVE  Quiet
  <2>1. pc[x] \in {"client", "resume", "rebound"}
    BY <1>9 DEF ScopeRequestCancel, Free
  <2>2. UNCHANGED pc \/ (pc' = [pc EXCEPT ![x] = "released"] /\ x \in Clients)
    BY <1>9 DEF ScopeRequestCancel
  <2>3. x \in Clients => pc[x] = "client"
    BY <2>1, SchedulerAssumption DEF IInv, Crew, WorkerPlace, Executing
  <2>4. \A y \in Threads : SameStage(y)
    BY <2>2, <2>3, Stays, TaskTypes DEF SameStage, Stages
  <2> QED
    BY <1>9, <2>4 DEF ScopeRequestCancel, taskVars, Quiet
<1>10. ASSUME NEW w \in Workers,
              \/ Sleep(w) \/ \E s \in Steps : Return(w, s)
              \/ \E d \in Deadlines : DeadlineSelect(w, d)
       PROVE  Quiet
  <2>1. w \in Threads
    BY DEF Threads
  <2>2. \A y \in Threads : SameStage(y)
    BY <1>10, <2>1, Stays, TaskTypes
       DEF Sleep, Return, DeadlineSelect, SameStage, Stages, Executing
  <2> QED
    BY <1>10, <2>2 DEF Sleep, Return, DeadlineSelect, taskVars, scopeVars, Quiet
<1>11. ASSUME NEW w \in Workers, NEW d \in Deadlines, DeadlineAfter(w, d)
       PROVE  Quiet
  BY <1>11, Stays DEF DeadlineAfter, taskVars, scopeVars, Quiet
<1>12. ASSUME NEW w \in Workers, Retire(w)
       PROVE  Quiet
  <2> DEFINE p == [pc EXCEPT ![w] = "detach"]
  <2>1. w \in Threads /\ p \in [Threads -> Place]
    BY TaskTypes DEF Threads, Place, WorkerPlace, Ending
  <2>2. pc[w] = "retire" /\ pc' = NotifyWorkers(op[w].exec, p)
    BY <1>12 DEF Retire
  <2> HIDE DEF p
  <2>3. \A y \in Threads : pc'[y] = p[y] \/ (p[y] = "asleep" /\ pc'[y] = "loop")
    BY <2>1, <2>2, Notified
  <2> USE DEF p
  <2>4. ASSUME NEW y \in Threads PROVE SameStage(y)
    <3>1. CASE y = w
      BY <2>1, <2>2, <2>3, <3>1, TaskTypes DEF SameStage, Stages
    <3>2. CASE y # w
      <4>1. p[y] = pc[y]
        BY <3>2, TaskTypes
      <4> QED
        BY <2>3, <4>1, Stays DEF SameStage, Stages
    <3> QED
      BY <3>1, <3>2
  <2> QED
    BY <1>12, <2>4 DEF Retire, taskVars, scopeVars, Quiet
<1>13. CASE UNCHANGED vars
  BY <1>13, Stays DEF vars, taskVars, scopeVars, threadVars, Quiet
<1>14. ASSUME NEW x \in Threads, Inside(x) PROVE Goal
  BY <1>14, <1>2, <1>4, <1>6, <1>7, <1>8 DEF Inside
<1>15. ASSUME NEW x \in Threads, Call(x) PROVE Goal
  BY <1>15, <1>1, <1>3, <1>5, <1>8, <1>9 DEF Call
<1> QED
  BY <1>10, <1>11, <1>12, <1>13, <1>14, <1>15 DEF Next, Work, Extra

\* The task a worker holds is a task in the state its place says.
LEMMA Held ==
    ASSUME IInv, NEW w \in Workers
    PROVE  /\ pc[w] \in Executing =>
                /\ running[w] \in Tasks /\ state[running[w]] = "Running"
                /\ ~published[running[w]] /\ running[w] \in inScope
                /\ executor[running[w]] \in Executors
           /\ pc[w] \in Ending =>
                /\ running[w] \in Tasks /\ state[running[w]] \in Terminal
                /\ running[w] \in inScope
           /\ pc[w] = "publish" =>
                ~published[running[w]] /\ executor[running[w]] \in Executors
           /\ pc[w] \in {"retire", "detach"} => published[running[w]]
  BY TaskTypes DEF IInv, Crew, Lifecycle, Ending, Executing, Terminal

\* The final step of a task is a state, and not "None".
LEMMA FinalSteps ==
    ASSUME IInv, NEW w \in Workers
    PROVE  FinalStep(w) \in Terminal => FinalStep(w) \in State /\ FinalStep(w) # "None"
  BY DEF Terminal, State

\* Every step keeps what is known of a task by its state.
LEMMA LifecycleInductive ==
    ASSUME IInv, [Next]_vars
    PROVE  Lifecycle'
<1>0. Lifecycle /\ NoLostWake
  BY DEF IInv, Wakes
<1>1. ASSUME NEW t \in Tasks, Woke(t) PROVE Lifecycle'
  <2>1. /\ \A u \in Tasks \ {t} : state'[u] = state[u] /\ woken'[u] = woken[u]
        /\ state[t] # "None" /\ state'[t] # "None"
        /\ state[t] \in Terminal => state'[t] \in Terminal
    BY <1>1, WakeEffect DEF Woke, Terminal
  <2>2. UNCHANGED <<cancelled, cause, published, executor, ancestors, inScope>>
    BY <1>1 DEF Woke
  <2> QED
    BY <1>0, <2>1, <2>2, TaskTypes DEF Lifecycle
<1>2. ASSUME NEW t \in Tasks, NEW e \in Executors, NEW q \in Tasks \cup {NoTask},
             NewTask(t, e, q)
      PROVE  Lifecycle'
  <2>1. /\ state' = [state EXCEPT ![t] = "Queued"] /\ inScope' = inScope \cup {t}
        /\ executor' = [executor EXCEPT ![t] = e] /\ UNCHANGED published
        /\ woken' = [woken EXCEPT ![t] = TRUE] /\ state[t] = "None"
        /\ ancestors' = [ancestors EXCEPT ![t] =
                            IF q = NoTask THEN {} ELSE ancestors[q] \cup {q}]
        /\ q # NoTask => q \in Tasks /\ state[q] = "Running"
    BY <1>2 DEF NewTask, Insert, Enqueue
  <2>2. \A u \in Tasks \ {t} : cancelled'[u] = cancelled[u] /\ cause'[u] = cause[u]
    BY <1>2, TaskTypes DEF NewTask, Insert
  <2>3. \A u \in Tasks : t \notin ancestors[u]
    BY <1>0, <2>1 DEF Lifecycle
  <2>4. \A u \in Tasks : \A a \in ancestors'[u] : ancestors'[a] \subseteq ancestors'[u]
    <3> SUFFICES ASSUME NEW u \in Tasks, NEW a \in ancestors'[u]
                 PROVE  ancestors'[a] \subseteq ancestors'[u]
      OBVIOUS
    <3>1. a \in Tasks /\ a # t /\ ancestors'[a] = ancestors[a]
      BY <2>1, <2>3, TaskTypes
    <3>2. CASE u # t
      BY <1>0, <2>1, <3>1, <3>2, TaskTypes DEF Lifecycle
    <3>3. CASE u = t
      BY <1>0, <2>1, <3>1, <3>3, TaskTypes DEF Lifecycle
    <3> QED
      BY <3>2, <3>3
  <2>5. ASSUME NEW u \in Tasks, state'[u] = "None"
        PROVE  /\ ~cancelled'[u] /\ cause'[u] = "None" /\ ~published'[u]
               /\ ~woken'[u] /\ u \notin inScope' /\ ancestors'[u] = {}
               /\ \A v \in Tasks : u \notin ancestors'[v]
    <3>1. u # t /\ state[u] = "None"
      BY <2>1, <2>5, TaskTypes
    <3> QED
      BY <1>0, <2>1, <2>2, <3>1, TaskTypes DEF Lifecycle
  <2> QED
    BY <1>0, <2>1, <2>4, <2>5, TaskTypes DEF Lifecycle, Terminal
<1>3. ASSUME NEW t \in Tasks, Marked(t) PROVE Lifecycle'
  BY <1>0, <1>3, TaskTypes DEF Marked, Markable, Lifecycle
<1>4. ASSUME NEW w \in Workers, NEW e \in Executors, Rebind(w, e) PROVE Lifecycle'
  <2>1. running[w] \in Tasks
    BY <1>4, Held DEF Rebind, Executing
  <2> QED
    BY <1>0, <1>4, <2>1, TaskTypes DEF Rebind, Lifecycle, scopeVars
<1>5. ASSUME NEW w \in Workers, Dequeue(w) PROVE Lifecycle'
  <2> DEFINE t == Head(queue[Home[w]])
  <2>1. t \in Tasks /\ state[t] = "Queued"
    <3>1. queue[Home[w]] \in Seq(Tasks) /\ queue[Home[w]] # <<>> /\ Home[w] \in Executors
      BY <1>5, TaskTypes, SchedulerAssumption DEF Dequeue
    <3>2. t \in Tasks /\ ~NotIn(queue[Home[w]], t)
      BY <3>1, Taken
    <3> QED
      BY <3>1, <3>2 DEF IInv, Queues
  <2>2. /\ state' = [state EXCEPT ![t] = "Running"] /\ woken' = [woken EXCEPT ![t] = FALSE]
        /\ UNCHANGED <<cancelled, cause, published, executor, ancestors, inScope>>
    BY <1>5 DEF Dequeue, scopeVars
  <2> HIDE DEF t
  <2> QED
    BY <1>0, <2>1, <2>2, TaskTypes DEF Lifecycle, Terminal
<1>6. ASSUME NEW w \in Workers, Finish(w) PROVE Lifecycle'
  <2> DEFINE t == running[w]
  <2>1. t \in Tasks /\ state[t] = "Running" /\ ~published[t]
    BY <1>6, Held DEF Finish, Executing
  <2>2. /\ \A u \in Tasks \ {t} : state'[u] = state[u] /\ woken'[u] = woken[u]
        /\ state'[t] # "None"
        /\ UNCHANGED <<cancelled, cause, published, executor, ancestors, inScope>>
    <3>1. UNCHANGED <<cancelled, cause, published, executor, ancestors, inScope>>
      BY <1>6, FinishCases DEF scopeVars
    <3>2. CASE Ends(w)
      BY <2>1, <3>1, <3>2, TaskTypes, FinalSteps DEF Ends
    <3>3. CASE Requeues(w)
      BY <2>1, <3>1, <3>3, TaskTypes DEF Requeues
    <3>4. CASE Idles(w)
      BY <2>1, <3>1, <3>4, TaskTypes DEF Idles
    <3> QED
      BY <1>6, <3>2, <3>3, <3>4, FinishCases
  <2> HIDE DEF t
  <2> QED
    BY <1>0, <2>1, <2>2, TaskTypes DEF Lifecycle
<1>7. ASSUME NEW w \in Workers, Publish(w) PROVE Lifecycle'
  <2>1. running[w] \in Tasks /\ state[running[w]] \in Terminal
    BY <1>7, Held DEF Publish, Ending
  <2> QED
    BY <1>0, <1>7, <2>1, TaskTypes DEF Publish, Lifecycle, scopeVars, Terminal
<1>8. ASSUME NEW w \in Workers, Detach(w) PROVE Lifecycle'
  <2>1. running[w] \in Tasks /\ published[running[w]]
    BY <1>8, Held DEF Detach, Ending
  <2> QED
    BY <1>0, <1>8, <2>1, TaskTypes DEF Detach, Lifecycle, taskVars
<1>9. CASE Quiet
  BY <1>0, <1>9 DEF Quiet, Lifecycle
<1> QED
  BY <1>1, <1>2, <1>3, <1>4, <1>5, <1>6, <1>7, <1>8, <1>9, TaskSteps

\* Appending a task that was not queued to the queue of its executor.
LEMMA QueuedOnce ==
    ASSUME IInv, NEW t \in Tasks, NEW e \in Executors, state[t] # "Queued",
           queue' = [queue EXCEPT ![e] = Append(@, t)],
           state'[t] = "Queued", executor'[t] = e,
           \A u \in Tasks \ {t} : state'[u] = state[u] /\ executor'[u] = executor[u]
    PROVE  Queues'
<1> SUFFICES ASSUME NEW u \in Tasks, NEW f \in Executors
             PROVE  IF state'[u] = "Queued" /\ executor'[u] = f
                    THEN OnceIn(queue'[f], u) ELSE NotIn(queue'[f], u)
  BY DEF Queues
<1>1. queue[e] \in Seq(Tasks) /\ queue[f] \in Seq(Tasks)
  BY TaskTypes
<1>2. IF state[u] = "Queued" /\ executor[u] = f
      THEN OnceIn(queue[f], u) ELSE NotIn(queue[f], u)
  BY DEF IInv, Queues
<1>3. CASE f # e
  BY <1>2, <1>3, TaskTypes
<1>4. CASE f = e /\ u # t
  <2>1. queue'[f] = Append(queue[f], t)
    BY <1>4, TaskTypes
  <2> QED
    BY <1>1, <1>2, <1>4, <2>1, Appended
<1>5. CASE f = e /\ u = t
  <2>1. queue'[f] = Append(queue[f], t)
    BY <1>5, TaskTypes
  <2> QED
    BY <1>1, <1>2, <1>5, <2>1, Appended
<1> QED
  BY <1>3, <1>4, <1>5

\* Steps that queue nothing and leave the queued tasks where they are.
LEMMA QueuesKept ==
    ASSUME IInv, UNCHANGED queue,
           \A u \in Tasks : state'[u] = "Queued" <=> state[u] = "Queued",
           \A u \in Tasks : state[u] = "Queued" => executor'[u] = executor[u]
    PROVE  Queues'
  BY DEF IInv, Queues

\* The head of a queue is a queued task.
LEMMA HeadQueued ==
    ASSUME IInv, NEW w \in Workers, Dequeue(w)
    PROVE  /\ Home[w] \in Executors /\ queue[Home[w]] \in Seq(Tasks) /\ queue[Home[w]] # <<>>
           /\ Head(queue[Home[w]]) \in Tasks /\ state[Head(queue[Home[w]])] = "Queued"
           /\ executor[Head(queue[Home[w]])] = Home[w]
<1>1. queue[Home[w]] \in Seq(Tasks) /\ queue[Home[w]] # <<>> /\ Home[w] \in Executors
  BY TaskTypes, SchedulerAssumption DEF Dequeue
<1>2. Head(queue[Home[w]]) \in Tasks /\ ~NotIn(queue[Home[w]], Head(queue[Home[w]]))
  BY <1>1, Taken
<1> QED
  BY <1>1, <1>2 DEF IInv, Queues

\* Every step keeps the queues: a task is appended when it is in no queue, and leaves its
\* queue when it is dequeued.
LEMMA QueuesInductive ==
    ASSUME IInv, [Next]_vars
    PROVE  Queues'
<1>1. ASSUME NEW t \in Tasks, Woke(t) PROVE Queues'
  <2>1. UNCHANGED executor /\ state[t] # "None" /\ WakeTask(t)
    BY <1>1 DEF Woke
  <2>2. CASE state[t] = "Idle"
    BY <2>1, <2>2, WakeEffect, QueuedOnce
  <2>3. CASE state[t] # "Idle"
    BY <2>1, <2>3, WakeEffect, QueuesKept
  <2> QED
    BY <2>2, <2>3
<1>2. ASSUME NEW t \in Tasks, NEW e \in Executors, NEW q \in Tasks \cup {NoTask},
             NewTask(t, e, q)
      PROVE  Queues'
  <2>1. /\ state' = [state EXCEPT ![t] = "Queued"] /\ state[t] = "None"
        /\ executor' = [executor EXCEPT ![t] = e]
        /\ queue' = [queue EXCEPT ![e] = Append(@, t)]
    BY <1>2 DEF NewTask, Insert, Enqueue
  <2> QED
    BY <2>1, QueuedOnce, TaskTypes
<1>3. ASSUME NEW t \in Tasks, Marked(t) PROVE Queues'
  BY <1>3, QueuesKept DEF Marked
<1>4. ASSUME NEW w \in Workers, NEW e \in Executors, Rebind(w, e) PROVE Queues'
  <2>1. running[w] \in Tasks /\ state[running[w]] = "Running"
    BY <1>4, Held DEF Rebind, Executing
  <2> QED
    BY <1>4, <2>1, QueuesKept, TaskTypes DEF Rebind
<1>5. ASSUME NEW w \in Workers, Dequeue(w) PROVE Queues'
  <2> DEFINE h == Home[w]
             t == Head(queue[h])
  <2>1. /\ h \in Executors /\ queue[h] \in Seq(Tasks) /\ queue[h] # <<>>
        /\ t \in Tasks /\ state[t] = "Queued" /\ executor[t] = h
    BY <1>5, HeadQueued
  <2>2. /\ state' = [state EXCEPT ![t] = "Running"] /\ UNCHANGED executor
        /\ queue' = [queue EXCEPT ![h] = Tail(@)]
    BY <1>5 DEF Dequeue
  <2> HIDE DEF t, h
  <2> SUFFICES ASSUME NEW u \in Tasks, NEW f \in Executors
               PROVE  IF state'[u] = "Queued" /\ executor'[u] = f
                      THEN OnceIn(queue'[f], u) ELSE NotIn(queue'[f], u)
    BY DEF Queues
  <2>3. IF state[u] = "Queued" /\ executor[u] = f
        THEN OnceIn(queue[f], u) ELSE NotIn(queue[f], u)
    BY DEF IInv, Queues
  <2>4. CASE f # h
    BY <2>1, <2>2, <2>3, <2>4, TaskTypes
  <2>5. CASE f = h
    <3>1. queue'[h] = Tail(queue[h]) /\ t = Head(queue[h])
      BY <2>1, <2>2, TaskTypes DEF t
    <3>2. CASE u # t
      <4>1. state'[u] = state[u] /\ executor'[u] = executor[u]
        BY <2>1, <2>2, <3>2, TaskTypes
      <4> QED
        BY <2>1, <2>3, <2>5, <3>1, <3>2, <4>1, Taken
    <3>3. CASE u = t
      <4>1. state'[u] = "Running"
        BY <2>1, <2>2, <3>3, TaskTypes
      <4> QED
        BY <2>1, <2>3, <2>5, <3>1, <3>3, <4>1, Taken
    <3> QED
      BY <3>2, <3>3
  <2> QED
    BY <2>4, <2>5
<1>6. ASSUME NEW w \in Workers, Finish(w) PROVE Queues'
  <2> DEFINE t == running[w]
  <2>1. t \in Tasks /\ state[t] = "Running" /\ executor[t] \in Executors
    BY <1>6, Held DEF Finish, Executing
  <2>2. UNCHANGED executor
    BY <1>6, FinishCases
  <2>3. CASE Ends(w)
    BY <2>1, <2>2, <2>3, QueuesKept, TaskTypes DEF Ends, Terminal
  <2>4. CASE Requeues(w)
    <3>1. /\ state' = [state EXCEPT ![t] = "Queued"]
          /\ queue' = [queue EXCEPT ![executor[t]] = Append(@, t)]
      BY <2>4 DEF Requeues
    <3> HIDE DEF t
    <3> QED
      BY <2>1, <2>2, <3>1, QueuedOnce, TaskTypes
  <2>5. CASE Idles(w)
    BY <2>1, <2>2, <2>5, QueuesKept, TaskTypes DEF Idles
  <2> QED
    BY <1>6, <2>3, <2>4, <2>5, FinishCases
<1>7. ASSUME NEW w \in Workers, Publish(w) PROVE Queues'
  <2>1. running[w] \in Tasks /\ state[running[w]] \in Terminal
    BY <1>7, Held DEF Publish, Ending
  <2> QED
    BY <1>7, <2>1, QueuesKept, TaskTypes DEF Publish, Terminal
<1>8. ASSUME NEW w \in Workers, Detach(w) PROVE Queues'
  BY <1>8, QueuesKept DEF Detach, taskVars
<1>9. CASE Quiet
  BY <1>9, QueuesKept DEF Quiet
<1> QED
  BY <1>1, <1>2, <1>3, <1>4, <1>5, <1>6, <1>7, <1>8, <1>9, TaskSteps

\* A thread that stays in its stage is a worker that executes, publishes or retires a task
\* after the step exactly if it was before.
LEMMA StageKept ==
    ASSUME NEW x \in Threads, SameStage(x)
    PROVE  /\ pc'[x] \in WorkerPlace <=> pc[x] \in WorkerPlace
           /\ pc'[x] \in Executing <=> pc[x] \in Executing
           /\ pc'[x] \in Ending <=> pc[x] \in Ending
           /\ pc'[x] = "publish" <=> pc[x] = "publish"
           /\ pc'[x] \in {"retire", "detach"} <=> pc[x] \in {"retire", "detach"}
  BY DEF SameStage, Stages, WorkerPlace, Executing, Ending

\* Steps that leave every worker with its task.
LEMMA CrewKept ==
    ASSUME IInv, UNCHANGED <<running, published>>, \A x \in Threads : SameStage(x),
           \A t \in Tasks : /\ state'[t] = "Running" <=> state[t] = "Running"
                            /\ state'[t] \in Terminal <=> state[t] \in Terminal
                            /\ t \in inScope => t \in inScope'
                            /\ t \in inScope' \ inScope => state[t] \notin Terminal
    PROVE  Crew'
<1>1. Crew /\ Workers \subseteq Threads
  BY DEF IInv, Threads
<1>2. \A x \in Threads : /\ pc'[x] \in WorkerPlace <=> pc[x] \in WorkerPlace
                         /\ pc'[x] \in Executing <=> pc[x] \in Executing
                         /\ pc'[x] \in Ending <=> pc[x] \in Ending
                         /\ pc'[x] = "publish" <=> pc[x] = "publish"
                         /\ pc'[x] \in {"retire", "detach"} <=> pc[x] \in {"retire", "detach"}
  BY StageKept
<1>3. \A w \in Workers : pc'[w] \in Executing => running'[w] \in Tasks /\ state'[running'[w]] = "Running"
  BY <1>1, <1>2 DEF Crew
<1>4. \A w \in Workers : pc'[w] \in Ending =>
         running'[w] \in Tasks /\ state'[running'[w]] \in Terminal /\ running'[w] \in inScope'
  BY <1>1, <1>2 DEF Crew
<1>5. \A v, w \in Workers :
         /\ pc'[v] \in Executing \cup Ending /\ pc'[w] \in Executing \cup Ending
         /\ running'[v] = running'[w]
         => v = w
  BY <1>1, <1>2 DEF Crew
<1>6. /\ \A t \in Tasks : state'[t] = "Running" =>
         \E w \in Workers : running'[w] = t /\ pc'[w] \in Executing
      /\ \A t \in Tasks : state'[t] \in Terminal /\ t \in inScope' =>
         \E w \in Workers : running'[w] = t /\ pc'[w] \in Ending
  BY <1>1, <1>2 DEF Crew
<1>7. /\ \A x \in Threads : pc'[x] \in WorkerPlace <=> x \in Workers
      /\ \A w \in Workers : pc'[w] = "publish" => ~published'[running'[w]]
      /\ \A w \in Workers : pc'[w] \in {"retire", "detach"} => published'[running'[w]]
  BY <1>1, <1>2 DEF Crew
<1> QED
  BY <1>3, <1>4, <1>5, <1>6, <1>7 DEF Crew

\* Where the threads are after the steps that give a worker a task or take it away.
LEMMA WorkerMoves ==
    ASSUME IInv, NEW w \in Workers
    PROVE  /\ Dequeue(w) => pc'[w] = "resume" /\ \A y \in Threads \ {w} : Still(y)
           /\ Finish(w) /\ Ends(w) =>
                pc'[w] = "publish" /\ \A y \in Threads \ {w} : Still(y)
           /\ Finish(w) /\ (Requeues(w) \/ Idles(w)) =>
                pc'[w] = "loop" /\ \A y \in Threads \ {w} : Still(y)
           /\ Publish(w) => pc'[w] = "retire" /\ \A y \in Threads \ {w} : Still(y)
           /\ Detach(w) => pc'[w] = "loop" /\ \A y \in Threads \ {w} : Still(y)
<1>1. w \in Threads /\ pc \in [Threads -> Place]
  BY TaskTypes DEF Threads
<1>2. ASSUME NEW to \in WorkerPlace, NEW e, NEW f, to # "asleep",
             LET p == [pc EXCEPT ![w] = to]
             IN  pc' = p \/ pc' = NotifyWorkers(e, p) \/ pc' = NotifyWorkers(f, NotifyWorkers(e, p))
      PROVE  pc'[w] = to /\ \A y \in Threads \ {w} : Still(y)
  <2> DEFINE p == [pc EXCEPT ![w] = to]
             n == NotifyWorkers(e, p)
  <2>1. p \in [Threads -> Place] /\ p[w] = to /\ \A y \in Threads \ {w} : p[y] = pc[y]
    BY <1>1 DEF Place
  <2>n. pc' = p \/ pc' = n \/ pc' = NotifyWorkers(f, n)
    BY <1>2
  <2> HIDE DEF p
  <2>2. n \in [Threads -> Place] /\ \A y \in Threads : n[y] = p[y] \/ (p[y] = "asleep" /\ n[y] = "loop")
    BY <2>1, Notified
  <2> HIDE DEF n
  <2>3. pc' = NotifyWorkers(f, n) =>
          \A y \in Threads : pc'[y] = n[y] \/ (n[y] = "asleep" /\ pc'[y] = "loop")
    BY <2>2, Notified
  <2>4. \A y \in Threads : pc'[y] = p[y] \/ (p[y] = "asleep" /\ pc'[y] = "loop")
    BY <2>n, <2>2, <2>3
  <2>5. pc'[w] = to
    BY <1>1, <1>2, <2>1, <2>4
  <2>6. \A y \in Threads \ {w} : Still(y)
    BY <2>1, <2>4 DEF Still
  <2> QED
    BY <2>5, <2>6
<1>3. {"resume", "publish", "loop", "retire"} \subseteq WorkerPlace
  BY DEF WorkerPlace, Executing, Ending
<1>4. Dequeue(w) => pc'[w] = "resume" /\ \A y \in Threads \ {w} : Still(y)
  BY <1>2, <1>3 DEF Dequeue
<1>5. Finish(w) /\ Ends(w) => pc'[w] = "publish" /\ \A y \in Threads \ {w} : Still(y)
  BY <1>2, <1>3 DEF Ends
<1>6. Finish(w) /\ (Requeues(w) \/ Idles(w)) =>
        pc'[w] = "loop" /\ \A y \in Threads \ {w} : Still(y)
  BY <1>2, <1>3 DEF Requeues, Idles
<1>7. Publish(w) => pc'[w] = "retire" /\ \A y \in Threads \ {w} : Still(y)
  BY <1>2, <1>3 DEF Publish
<1>8. Detach(w) => pc'[w] = "loop" /\ \A y \in Threads \ {w} : Still(y)
  BY <1>2, <1>3 DEF Detach
<1> QED
  BY <1>4, <1>5, <1>6, <1>7, <1>8

\* Worker w takes task t, goes on with it or lets it go; the others keep theirs.
LEMMA CrewMoves ==
    ASSUME IInv, NEW w \in Workers, NEW t \in Tasks,
           \A y \in Threads \ {w} : SameStage(y),
           \A y \in Workers \ {w} :
               /\ running'[y] = running[y]
               /\ pc[y] \in Executing \cup Ending => running[y] # t,
           pc[w] \in Executing \cup Ending => running[w] = t,
           \A u \in Tasks \ {t} : /\ state'[u] = state[u] /\ published'[u] = published[u]
                                  /\ u \in inScope' <=> u \in inScope,
           \/ pc'[w] \in Executing /\ running'[w] = t /\ state'[t] = "Running"
           \/ /\ pc'[w] \in Ending /\ running'[w] = t
              /\ state'[t] \in Terminal /\ t \in inScope'
              /\ pc'[w] = "publish" <=> ~published'[t]
           \/ /\ pc'[w] = "loop" /\ state'[t] # "Running"
              /\ ~(state'[t] \in Terminal /\ t \in inScope')
    PROVE  Crew'
<1>1. Crew /\ Workers \subseteq Threads /\ w \in Threads
  BY DEF IInv, Threads
<1>2. /\ "loop" \notin Executing /\ "loop" \notin Ending /\ "loop" \in WorkerPlace
      /\ Executing \subseteq WorkerPlace /\ Ending \subseteq WorkerPlace
      /\ Executing \cap Ending = {} /\ "Running" \notin Terminal
      /\ Ending = {"publish", "retire", "detach"}
      /\ "publish" \notin Executing /\ "retire" \notin Executing /\ "detach" \notin Executing
  BY DEF Executing, Ending, WorkerPlace, Terminal
<1>3. \A y \in Threads \ {w} :
         /\ pc'[y] \in WorkerPlace <=> pc[y] \in WorkerPlace
         /\ pc'[y] \in Executing <=> pc[y] \in Executing
         /\ pc'[y] \in Ending <=> pc[y] \in Ending
         /\ pc'[y] = "publish" <=> pc[y] = "publish"
         /\ pc'[y] \in {"retire", "detach"} <=> pc[y] \in {"retire", "detach"}
  BY StageKept
<1>4. ASSUME NEW x \in Threads PROVE pc'[x] \in WorkerPlace <=> x \in Workers
  <2>1. CASE x = w
    BY <1>2, <2>1
  <2>2. CASE x # w
    BY <1>1, <1>3, <2>2 DEF Crew
  <2> QED
    BY <2>1, <2>2
<1>5. ASSUME NEW v \in Workers, pc'[v] \in Executing
      PROVE  running'[v] \in Tasks /\ state'[running'[v]] = "Running"
  <2>1. CASE v = w
    BY <1>2, <1>5, <2>1
  <2>2. CASE v # w
    BY <1>1, <1>3, <1>5, <2>2 DEF Crew
  <2> QED
    BY <2>1, <2>2
<1>6. ASSUME NEW v \in Workers, pc'[v] \in Ending
      PROVE  /\ running'[v] \in Tasks /\ state'[running'[v]] \in Terminal
             /\ running'[v] \in inScope'
  BY <1>1, <1>2, <1>3, <1>6 DEF Crew
<1>7. ASSUME NEW v \in Workers
      PROVE  /\ pc'[v] = "publish" => ~published'[running'[v]]
             /\ pc'[v] \in {"retire", "detach"} => published'[running'[v]]
  <2>1. CASE v = w
    BY <1>2, <2>1
  <2>2. CASE v # w
    BY <1>1, <1>2, <1>3, <2>2 DEF Crew
  <2> QED
    BY <2>1, <2>2
<1>8. ASSUME NEW u \in Workers, NEW v \in Workers, running'[u] = running'[v],
             pc'[u] \in Executing \cup Ending, pc'[v] \in Executing \cup Ending
      PROVE  u = v
  <2>1. pc'[w] \in Executing \cup Ending => running'[w] = t
    BY <1>2
  <2> QED
    BY <1>1, <1>3, <1>8, <2>1 DEF Crew
<1>9. ASSUME NEW u \in Tasks, state'[u] = "Running"
      PROVE  \E v \in Workers : running'[v] = u /\ pc'[v] \in Executing
  <2>1. CASE u = t
    BY <1>2, <1>9, <2>1
  <2>2. CASE u # t
    BY <1>1, <1>2, <1>3, <1>9, <2>2 DEF Crew
  <2> QED
    BY <2>1, <2>2
<1>10. ASSUME NEW u \in Tasks, state'[u] \in Terminal, u \in inScope'
       PROVE  \E v \in Workers : running'[v] = u /\ pc'[v] \in Ending
  <2>1. CASE u = t
    BY <1>2, <1>10, <2>1
  <2>2. CASE u # t
    BY <1>1, <1>2, <1>3, <1>10, <2>2 DEF Crew
  <2> QED
    BY <2>1, <2>2
<1> QED
  BY <1>4, <1>5, <1>6, <1>7, <1>8, <1>9, <1>10 DEF Crew

\* Every worker holds a task of its own, in the state its place in next_task_run says.
LEMMA CrewInductive ==
    ASSUME IInv, [Next]_vars
    PROVE  Crew'
<1>0. Crew /\ Workers \subseteq Threads
  BY DEF IInv, Threads
<1>1. ASSUME NEW t \in Tasks, Woke(t) PROVE Crew'
  <2>1. UNCHANGED <<running, published, inScope>> /\ state[t] # "None" /\ WakeTask(t)
    BY <1>1 DEF Woke
  <2>2. \A x \in Threads : SameStage(x)
    BY <2>1, WakeEffect, Stays
  <2>3. \A u \in Tasks : /\ state'[u] = "Running" <=> state[u] = "Running"
                         /\ state'[u] \in Terminal <=> state[u] \in Terminal
    BY <2>1, WakeEffect DEF Terminal
  <2> QED
    BY <2>1, <2>2, <2>3, CrewKept
<1>2. ASSUME NEW t \in Tasks, NEW e \in Executors, NEW q \in Tasks \cup {NoTask},
             NewTask(t, e, q)
      PROVE  Crew'
  <2>1. /\ state' = [state EXCEPT ![t] = "Queued"] /\ inScope' = inScope \cup {t}
        /\ UNCHANGED <<published, running>> /\ state[t] = "None"
        /\ pc' = NotifyWorkers(e, pc)
    BY <1>2 DEF NewTask, Insert, Enqueue
  <2>2. \A x \in Threads : SameStage(x)
    BY <2>1, Stays
  <2>3. \A u \in Tasks : /\ state'[u] = "Running" <=> state[u] = "Running"
                         /\ state'[u] \in Terminal <=> state[u] \in Terminal
                         /\ u \in inScope => u \in inScope'
                         /\ u \in inScope' \ inScope => state[u] \notin Terminal
    BY <2>1, TaskTypes DEF Terminal
  <2> QED
    BY <2>1, <2>2, <2>3, CrewKept
<1>3. ASSUME NEW t \in Tasks, Marked(t) PROVE Crew'
  BY <1>3, Stays, CrewKept DEF Marked
<1>4. ASSUME NEW w \in Workers, NEW e \in Executors, Rebind(w, e) PROVE Crew'
  <2>1. \A x \in Threads : SameStage(x)
    BY <1>0, <1>4, Stays, TaskTypes DEF Rebind, SameStage, Stages, Executing
  <2> QED
    BY <1>4, <2>1, CrewKept DEF Rebind, scopeVars
<1>5. ASSUME NEW w \in Workers, Dequeue(w) PROVE Crew'
  <2> DEFINE t == Head(queue[Home[w]])
  <2>1. t \in Tasks /\ state[t] = "Queued"
    BY <1>5, HeadQueued
  <2>2. /\ state' = [state EXCEPT ![t] = "Running"] /\ running' = [running EXCEPT ![w] = t]
        /\ UNCHANGED <<published, inScope>> /\ pc[w] = "loop"
    BY <1>5 DEF Dequeue, scopeVars
  <2>3. pc'[w] = "resume" /\ \A y \in Threads \ {w} : SameStage(y)
    BY <1>5, WorkerMoves, Stays
  <2> HIDE DEF t
  <2>4. \A y \in Workers \ {w} : /\ running'[y] = running[y]
                                 /\ pc[y] \in Executing \cup Ending => running[y] # t
    BY <1>0, <2>1, <2>2, TaskTypes DEF Crew, Terminal
  <2>5. \A u \in Tasks \ {t} : /\ state'[u] = state[u] /\ published'[u] = published[u]
                               /\ u \in inScope' <=> u \in inScope
    BY <2>2, TaskTypes
  <2>6. /\ pc'[w] \in Executing /\ running'[w] = t /\ state'[t] = "Running"
        /\ pc[w] \notin Executing \cup Ending
    BY <2>1, <2>2, <2>3, TaskTypes DEF Executing, Ending
  <2> QED
    BY <2>1, <2>3, <2>4, <2>5, <2>6, CrewMoves
<1>6. ASSUME NEW w \in Workers, Finish(w) PROVE Crew'
  <2> DEFINE t == running[w]
  <2>1. /\ t \in Tasks /\ state[t] = "Running" /\ ~published[t] /\ t \in inScope
        /\ pc[w] \in Executing
    BY <1>6, Held DEF Finish, Executing
  <2>2. UNCHANGED <<published, inScope>>
    BY <1>6, FinishCases DEF scopeVars
  <2>3. \A y \in Workers \ {w} : pc[y] \in Executing \cup Ending => running[y] # t
    BY <1>0, <2>1 DEF Crew
  <2>4. CASE Ends(w)
    <3>1. pc'[w] = "publish" /\ \A y \in Threads \ {w} : SameStage(y)
      BY <1>6, <2>4, WorkerMoves, Stays
    <3>2. /\ state' = [state EXCEPT ![t] = FinalStep(w)] /\ UNCHANGED running
          /\ FinalStep(w) \in Terminal
      BY <2>4 DEF Ends
    <3>3. /\ state'[t] \in Terminal /\ \A u \in Tasks \ {t} : state'[u] = state[u]
          /\ pc'[w] \in Ending
      BY <2>1, <3>1, <3>2, TaskTypes DEF Ending
    <3> QED
      BY <2>1, <2>2, <2>3, <3>1, <3>2, <3>3, CrewMoves
  <2>5. CASE Requeues(w) \/ Idles(w)
    <3>1. pc'[w] = "loop" /\ \A y \in Threads \ {w} : SameStage(y)
      BY <1>6, <2>5, WorkerMoves, Stays
    <3>2. /\ \E s \in {"Queued", "Idle"} : state' = [state EXCEPT ![t] = s]
          /\ running' = [running EXCEPT ![w] = NoTask]
      BY <2>5 DEF Requeues, Idles
    <3>3. /\ state'[t] \in {"Queued", "Idle"} /\ \A u \in Tasks \ {t} : state'[u] = state[u]
          /\ \A y \in Workers \ {w} : running'[y] = running[y]
      BY <2>1, <3>2, TaskTypes
    <3>4. state'[t] # "Running" /\ state'[t] \notin Terminal
      BY <3>3 DEF Terminal
    <3> QED
      BY <2>1, <2>2, <2>3, <3>1, <3>3, <3>4, CrewMoves
  <2> QED
    BY <1>6, <2>4, <2>5, FinishCases
<1>7. ASSUME NEW w \in Workers, Publish(w) PROVE Crew'
  <2> DEFINE t == running[w]
  <2>1. /\ t \in Tasks /\ state[t] \in Terminal /\ t \in inScope /\ pc[w] \in Ending
    BY <1>7, Held DEF Publish, Ending
  <2>2. /\ published' = [published EXCEPT ![t] = TRUE]
        /\ UNCHANGED <<state, inScope, running>>
    BY <1>7 DEF Publish, scopeVars
  <2>3. pc'[w] = "retire" /\ \A y \in Threads \ {w} : SameStage(y)
    BY <1>7, WorkerMoves, Stays
  <2>4. \A y \in Workers \ {w} : pc[y] \in Executing \cup Ending => running[y] # t
    BY <1>0, <2>1 DEF Crew
  <2>5. published'[t] /\ \A u \in Tasks \ {t} : published'[u] = published[u]
    BY <2>1, <2>2, TaskTypes
  <2>6. pc'[w] \in Ending /\ pc'[w] # "publish"
    BY <2>3 DEF Ending
  <2>7. running'[w] = t /\ running[w] = t
    BY <2>2
  <2>8. /\ state'[t] \in Terminal /\ t \in inScope'
        /\ \A u \in Tasks \ {t} : state'[u] = state[u] /\ (u \in inScope' <=> u \in inScope)
        /\ \A y \in Workers \ {w} : running'[y] = running[y]
    BY <2>1, <2>2
  <2> HIDE DEF t
  <2> QED
    BY <2>1, <2>3, <2>4, <2>5, <2>6, <2>7, <2>8, CrewMoves
<1>8. ASSUME NEW w \in Workers, Detach(w) PROVE Crew'
  <2> DEFINE t == running[w]
  <2>1. /\ t \in Tasks /\ state[t] \in Terminal /\ t \in inScope /\ pc[w] \in Ending
    BY <1>8, Held DEF Detach, Ending
  <2>2. /\ inScope' = inScope \ {t} /\ running' = [running EXCEPT ![w] = NoTask]
        /\ UNCHANGED <<state, published>>
    BY <1>8 DEF Detach, taskVars
  <2>3. pc'[w] = "loop" /\ \A y \in Threads \ {w} : SameStage(y)
    BY <1>8, WorkerMoves, Stays
  <2>4. \A y \in Workers \ {w} : /\ pc[y] \in Executing \cup Ending => running[y] # t
                                 /\ running'[y] = running[y]
    BY <1>0, <2>1, <2>2, TaskTypes DEF Crew
  <2>5. state'[t] # "Running" /\ t \notin inScope'
    BY <2>1, <2>2 DEF Terminal
  <2> QED
    BY <2>1, <2>2, <2>3, <2>4, <2>5, CrewMoves
<1>9. CASE Quiet
  BY <1>9, CrewKept DEF Quiet
<1> QED
  BY <1>1, <1>2, <1>3, <1>4, <1>5, <1>6, <1>7, <1>8, <1>9, TaskSteps

\* A thread's call is the one it was in; a sleeping join may have been woken.
SameCall(x) ==
    op'[x] = op[x] \/ (op[x].kind = "join" /\ op'[x].kind = "join" /\ ~op'[x].asleep)

\* A step of x that leaves the call of y alone.
LEMMA CallKept ==
    ASSUME IInv, NEW y \in Threads, SameCall(y), Still(y),
           Walking(y) => scopeMutex' = scopeMutex,
           \A t \in Tasks : state[t] # "None" => state'[t] # "None",
           op[y].kind = "child" => state'[op[y].task] = "None"
    PROVE  CallOK(y)'
<1>1. CallOK(y) /\ op[y] \in Op
  BY TaskTypes DEF IInv, Calls
<1>2. op[y].kind = "child" => op[y].parent \in Tasks
  BY TaskTypes, OpKinds DEF ChildOp
<1>3. NoOp.kind = "none"
  BY DEF NoOp
<1>4. CASE op'[y] = op[y] /\ pc'[y] = pc[y]
  BY <1>1, <1>2, <1>4 DEF CallOK, Walking, Waking
<1>5. CASE op'[y] = op[y] /\ pc[y] = "asleep" /\ pc'[y] = "loop"
  BY <1>1, <1>3, <1>5 DEF CallOK, Walking, Waking
<1>6. CASE op[y].kind = "join" /\ op'[y].kind = "join"
  <2>1. pc[y] \notin {"finish", "detach", "asleep", "retire", "publish"}
    BY <1>1, <1>3, <1>6 DEF CallOK
  <2>2. pc'[y] = pc[y]
    BY <2>1 DEF Still
  <2> QED
    BY <1>1, <1>6, <2>1, <2>2 DEF CallOK, Walking, Waking
<1> QED
  BY <1>4, <1>5, <1>6 DEF SameCall, Still

\* A step of x: its own call is as it should be afterwards and the others' are left alone.
LEMMA CallsMove ==
    ASSUME IInv, NEW x \in Threads, CallOK(x)',
           \A y \in Threads \ {x} : SameCall(y) /\ Still(y),
           scopeMutex' = scopeMutex \/ scopeMutex \in {NoThread, x},
           \A t \in Tasks : state[t] # "None" => state'[t] # "None",
           \A y \in Threads \ {x} : op[y].kind = "child" => state'[op[y].task] = "None",
           op'[x].kind = "child" =>
               \/ op'[x] = op[x]
               \/ \A y \in Threads : op[y].kind = "child" => op[y].task # op'[x].task,
           \A d \in Deadlines : deadline'[d].state = "Armed" =>
               \/ deadline'[d] = deadline[d]
               \/ deadline'[d].task \in Tasks /\ state'[deadline'[d].task] # "None"
    PROVE  Calls'
<1>1. Calls
  BY DEF IInv
<1>2. ASSUME NEW y \in Threads PROVE CallOK(y)'
  <2>1. CASE y = x
    BY <2>1
  <2>2. CASE y # x
    <3>1. Walking(y) => scopeMutex = y
      BY <1>1 DEF Calls, CallOK
    <3>2. Walking(y) => scopeMutex' = scopeMutex
      BY <2>2, <3>1, SchedulerAssumption DEF Threads
    <3> QED
      BY <2>2, <3>2, CallKept
  <2> QED
    BY <2>1, <2>2
<1>3. ASSUME NEW y \in Threads, NEW z \in Threads, op'[y].kind = "child",
             op'[z].kind = "child", op'[y].task = op'[z].task
      PROVE  y = z
  BY <1>1, <1>3 DEF Calls, SameCall
<1>4. \A d \in Deadlines : deadline'[d].state = "Armed" =>
        deadline'[d].task \in Tasks /\ state'[deadline'[d].task] # "None"
  BY <1>1 DEF Calls
<1> QED
  BY <1>2, <1>3, <1>4 DEF Calls

\* A thread that is in no call is not retiring deadlines.
LEMMA NoCallOK ==
    ASSUME NEW x \in Threads, op'[x] = NoOp, pc'[x] # "retire"
    PROVE  CallOK(x)'
<1>1. NoOp.kind = "none"
  BY DEF NoOp
<1> QED
  BY <1>1 DEF CallOK, Walking, Waking

\* What makes a walk a correct call of its thread.
LEMMA WalkCallOK ==
    ASSUME NEW x \in Threads, op'[x].kind = "walk",
           pc'[x] \notin {"finish", "detach", "asleep", "retire"},
           op'[x].join => x \in Clients,
           op'[x].stage \in {"walk", "walkWake"} => scopeMutex' = x,
           op'[x].stage \in {"wake", "walkWake"} =>
               op'[x].last \in Tasks /\ state'[op'[x].last] # "None",
           op'[x].stage \in {"mark", "wake", "scope", "lock"} =>
               op'[x].root \in Tasks /\ state'[op'[x].root] # "None"
    PROVE  CallOK(x)'
  BY DEF CallOK, Walking, Waking

\* Where a thread is in the middle of a call, and where it may enter one.
LEMMA InCall ==
    ASSUME IInv, NEW x \in Threads
    PROVE  /\ op[x].kind \in {"walk", "child", "join"} =>
                pc[x] \notin {"finish", "detach", "asleep", "retire"}
           /\ Free(x) => pc[x] \notin {"finish", "detach", "asleep", "retire", "publish"}
           /\ op[x].kind \in {"child", "join"} => pc[x] # "publish"
<1>1. CallOK(x) /\ NoOp.kind = "none"
  BY DEF IInv, Calls, NoOp
<1> QED
  BY <1>1 DEF CallOK, Free

\* Tasks never unhappen, and come to exist only by being linked into the scope.
LEMMA Existing ==
    ASSUME IInv, [Next]_vars
    PROVE  /\ \A t \in Tasks : state[t] # "None" => state'[t] # "None"
           /\ inScope' \subseteq inScope =>
                \A t \in Tasks : state[t] = "None" => state'[t] = "None"
<1> DEFINE Goal == /\ \A t \in Tasks : state[t] # "None" => state'[t] # "None"
                   /\ inScope' \subseteq inScope =>
                        \A t \in Tasks : state[t] = "None" => state'[t] = "None"
<1>1. ASSUME NEW t \in Tasks, Woke(t) PROVE Goal
  <2>1. state[t] # "None" /\ WakeTask(t)
    BY <1>1 DEF Woke
  <2> QED
    BY <2>1, WakeEffect
<1>2. ASSUME NEW t \in Tasks, NEW e \in Executors, NEW q \in Tasks \cup {NoTask},
             NewTask(t, e, q)
      PROVE  Goal
  <2>1. /\ state' = [state EXCEPT ![t] = "Queued"] /\ inScope' = inScope \cup {t}
        /\ state[t] = "None"
    BY <1>2 DEF NewTask, Insert, Enqueue
  <2>2. t \notin inScope
    BY <2>1 DEF IInv, Lifecycle
  <2> QED
    BY <2>1, <2>2, TaskTypes
<1>3. ASSUME NEW t \in Tasks, Marked(t) PROVE Goal
  BY <1>3 DEF Marked
<1>4. ASSUME NEW w \in Workers, NEW e \in Executors, Rebind(w, e) PROVE Goal
  BY <1>4 DEF Rebind
<1>5. ASSUME NEW w \in Workers, Dequeue(w) PROVE Goal
  <2> DEFINE t == Head(queue[Home[w]])
  <2>1. t \in Tasks /\ state[t] = "Queued" /\ state' = [state EXCEPT ![t] = "Running"]
    BY <1>5, HeadQueued DEF Dequeue
  <2> HIDE DEF t
  <2> QED
    BY <2>1, TaskTypes
<1>6. ASSUME NEW w \in Workers, Finish(w) PROVE Goal
  <2> DEFINE t == running[w]
  <2>1. t \in Tasks /\ state[t] = "Running"
    BY <1>6, Held DEF Finish, Executing
  <2>2. \E s \in Terminal \cup {"Queued", "Idle"} : state' = [state EXCEPT ![t] = s]
    BY <1>6, FinishCases DEF Ends, Requeues, Idles
  <2> HIDE DEF t
  <2> QED
    BY <2>1, <2>2, TaskTypes DEF Terminal
<1>7. ASSUME NEW w \in Workers, Publish(w) \/ Detach(w) PROVE Goal
  BY <1>7 DEF Publish, Detach, taskVars
<1>8. CASE Quiet
  BY <1>8 DEF Quiet
<1> QED
  BY <1>1, <1>2, <1>3, <1>4, <1>5, <1>6, <1>7, <1>8, TaskSteps

\* Every call in progress is one its thread can be in; the scope mutex is held by the
\* walk that visits tasks.
LEMMA CallsInductive ==
    ASSUME IInv, [Next]_vars
    PROVE  Calls'
<1>0. /\ Calls /\ op \in [Threads -> Op] /\ pc \in [Threads -> Place]
      /\ Workers \subseteq Threads
      /\ \A x \in Threads : CallOK(x)
  BY TaskTypes DEF IInv, Calls, Threads
<1>e. /\ \A t \in Tasks : state[t] # "None" => state'[t] # "None"
      /\ inScope' \subseteq inScope =>
           \A t \in Tasks : state[t] = "None" => state'[t] = "None"
  BY Existing
<1>c. \A x \in Threads : op[x].kind = "child" =>
        op[x].task \in Tasks /\ state[op[x].task] = "None"
  BY <1>0, OpKinds DEF ChildOp, CallOK
<1>w. \A x \in Threads : op[x].kind = "walk" => op[x] \in WalkOp
  BY <1>0, OpKinds
<1>n. NoOp.kind = "none"
  BY DEF NoOp
\* A step of x that creates no task and arms no deadline.
<1>x. ASSUME NEW x \in Threads, NEW o, op' = [op EXCEPT ![x] = o], o.kind # "child",
             \A y \in Threads \ {x} : Still(y),
             scopeMutex' = scopeMutex \/ scopeMutex \in {NoThread, x},
             UNCHANGED inScope,
             \A d \in Deadlines : deadline'[d].state = "Armed" => deadline'[d] = deadline[d],
             CallOK(x)'
      PROVE  Calls'
  <2>1. op'[x] = o /\ \A y \in Threads \ {x} : SameCall(y)
    BY <1>0, <1>x DEF SameCall
  <2>2. \A y \in Threads \ {x} : op[y].kind = "child" => state'[op[y].task] = "None"
    BY <1>x, <1>e, <1>c
  <2> QED
    BY <1>x, <1>e, <2>1, <2>2, CallsMove
\* A step in which no thread's call changes.
<1>y. ASSUME NEW x \in Threads, UNCHANGED <<op, scopeMutex, inScope>>, CallOK(x)',
             \A y \in Threads \ {x} : Still(y),
             \A d \in Deadlines : deadline'[d].state = "Armed" =>
               \/ deadline'[d] = deadline[d]
               \/ deadline'[d].task \in Tasks /\ state'[deadline'[d].task] # "None"
      PROVE  Calls'
  <2>1. \A y \in Threads \ {x} : SameCall(y)
    BY <1>y DEF SameCall
  <2>2. \A y \in Threads \ {x} : op[y].kind = "child" => state'[op[y].task] = "None"
    BY <1>y, <1>e, <1>c
  <2> QED
    BY <1>y, <1>e, <2>1, <2>2, CallsMove
<1>z. ASSUME NEW x \in Threads, UNCHANGED <<op, scopeMutex, inScope>>, Still(x)
      PROVE  CallOK(x)'
  BY <1>z, <1>e, <1>c, CallKept DEF SameCall
<1>1. ASSUME NEW x \in Threads, NEW t \in Tasks, Wake(x, t) PROVE Calls'
  <2>1. state[t] # "None" /\ WakeTask(t)
    BY <1>1 DEF Wake
  <2>2. \A y \in Threads : Still(y)
    BY <2>1, WakeEffect, Stays DEF Still
  <2>3. UNCHANGED <<op, scopeMutex, inScope, deadline>>
    BY <1>1 DEF Wake, scopeVars
  <2> QED
    BY <1>y, <1>z, <2>2, <2>3
<1>2. ASSUME NEW x \in Threads, WalkWake(x) PROVE Calls'
  <2>0. /\ op[x].kind = "walk" /\ op[x].stage \in {"wake", "walkWake"}
        /\ WakeTask(op[x].last) /\ UNCHANGED <<scopeMutex, inScope, deadline>>
    BY <1>2 DEF WalkWake, scopeVars
  <2>1. op[x].last \in Tasks /\ state[op[x].last] # "None"
    BY <1>0, <2>0 DEF CallOK, Waking
  <2>2. \A y \in Threads : Still(y)
    BY <2>0, <2>1, WakeEffect, Stays DEF Still
  <2> DEFINE o == [op[x] EXCEPT !.stage = IF op[x].stage = "wake" THEN "scope" ELSE "walk",
                                !.last = op[x].root]
  <2>3. op' = [op EXCEPT ![x] = o] /\ op'[x] = o
    BY <1>0, <1>2 DEF WalkWake, SetOp
  <2>4. /\ o.kind = "walk" /\ o.root = op[x].root /\ o.join = op[x].join
        /\ o.stage = IF op[x].stage = "wake" THEN "scope" ELSE "walk"
    BY <1>w, <2>0 DEF WalkOp
  <2> HIDE DEF o
  <2>5. pc[x] \notin {"finish", "detach", "asleep", "retire"} /\ pc'[x] = pc[x]
    BY <2>0, <2>2, InCall DEF Still
  <2>6. CallOK(x)'
    BY <1>0, <1>e, <2>0, <2>3, <2>4, <2>5, WalkCallOK DEF CallOK, Walking
  <2> QED
    BY <1>x, <2>0, <2>2, <2>3, <2>4, <2>6
<1>3. ASSUME NEW x \in Threads, WalkScope(x) PROVE Calls'
  <2>0. /\ op[x].kind = "walk" /\ op[x].stage = "scope" /\ UNCHANGED pc
        /\ UNCHANGED <<scopeMutex, inScope, deadline, state>>
        /\ \/ op' = [op EXCEPT ![x] = [op[x] EXCEPT !.stage = "lock"]]
           \/ op' = [op EXCEPT ![x] = NoOp]
    BY <1>3 DEF WalkScope, scopeVars, taskVars, SetOp
  <2>1. pc'[x] \notin {"finish", "detach", "asleep", "retire"}
    BY <2>0, InCall
  <2>2. CASE op' = [op EXCEPT ![x] = NoOp]
    <3>1. op'[x] = NoOp
      BY <1>0, <2>2
    <3> QED
      BY <1>n, <1>x, <2>0, <2>1, <2>2, <3>1, NoCallOK DEF Still
  <2>3. CASE op' = [op EXCEPT ![x] = [op[x] EXCEPT !.stage = "lock"]]
    <3> DEFINE o == [op[x] EXCEPT !.stage = "lock"]
    <3>1. op' = [op EXCEPT ![x] = o] /\ op'[x] = o
      BY <1>0, <2>3
    <3>2. /\ o.kind = "walk" /\ o.root = op[x].root /\ o.join = op[x].join
          /\ o.stage = "lock"
      BY <1>w, <2>0 DEF WalkOp
    <3> HIDE DEF o
    <3>3. CallOK(x)'
      BY <1>0, <2>0, <2>1, <3>1, <3>2, WalkCallOK DEF CallOK
    <3> QED
      BY <1>x, <2>0, <3>1, <3>2, <3>3 DEF Still
  <2> QED
    BY <2>0, <2>2, <2>3
<1>4. ASSUME NEW x \in Threads, WalkLock(x) PROVE Calls'
  <2> DEFINE o == [op[x] EXCEPT !.stage = "walk",
                                !.todo = {t \in inScope : Descends(t, op[x].root)}]
  <2>0. /\ op[x].kind = "walk" /\ op[x].stage = "lock" /\ UNCHANGED pc
        /\ UNCHANGED <<inScope, deadline, state>>
        /\ scopeMutex = NoThread /\ scopeMutex' = x
        /\ op' = [op EXCEPT ![x] = o]
    BY <1>4 DEF WalkLock, taskVars, SetOp
  <2>1. pc'[x] \notin {"finish", "detach", "asleep", "retire"}
    BY <2>0, InCall
  <2>2. /\ o.kind = "walk" /\ o.root = op[x].root /\ o.join = op[x].join
        /\ o.stage = "walk" /\ op'[x] = o
    BY <1>0, <1>w, <2>0 DEF WalkOp
  <2> HIDE DEF o
  <2>3. CallOK(x)'
    BY <1>0, <2>0, <2>1, <2>2, WalkCallOK DEF CallOK
  <2> QED
    BY <1>x, <2>0, <2>2, <2>3 DEF Still
<1>5. ASSUME NEW x \in Threads, WalkUnlock(x) PROVE Calls'
  <2> DEFINE o == IF op[x].join THEN Join(NoTask, FALSE) ELSE NoOp
  <2>0. /\ op[x].kind = "walk" /\ op[x].stage = "walk" /\ UNCHANGED pc
        /\ UNCHANGED <<inScope, deadline, state>> /\ scopeMutex' = NoThread
        /\ op' = [op EXCEPT ![x] = o]
    BY <1>5 DEF WalkUnlock, taskVars, SetOp
  <2>1. pc'[x] \notin {"finish", "detach", "asleep", "retire"}
    BY <2>0, InCall
  <2>2. op'[x] = o /\ scopeMutex = x
    BY <1>0, <2>0 DEF CallOK, Walking
  <2>3. CASE ~op[x].join
    <3>1. o = NoOp
      BY <2>3
    <3> QED
      BY <1>n, <1>x, <2>0, <2>1, <2>2, <3>1, NoCallOK DEF Still
  <2>4. CASE op[x].join
    <3>1. o.kind = "join" /\ x \in Clients
      BY <1>0, <2>0, <2>4 DEF Join, CallOK
    <3>2. pc[x] \notin WorkerPlace
      BY <3>1, SchedulerAssumption DEF IInv, Crew
    <3> HIDE DEF o
    <3>3. CallOK(x)'
      BY <2>0, <2>1, <2>2, <3>1, <3>2 DEF CallOK, Walking, Waking, WorkerPlace, Ending
    <3> QED
      BY <1>x, <2>0, <2>2, <3>1, <3>3 DEF Still
  <2> QED
    BY <2>3, <2>4
<1>6. ASSUME NEW x \in Threads, NEW t \in Tasks, RequestCancel(x, t) PROVE Calls'
  <2> DEFINE o == Walk("wake", t, "OwnerRequest", {}, FALSE)
  <2>0. /\ Marked(t) /\ op' = [op EXCEPT ![x] = o] /\ Free(x)
    BY <1>6, MarkedBy DEF RequestCancel
  <2>1. /\ UNCHANGED <<inScope, deadline, state, scopeMutex, pc>> /\ state[t] # "None"
        /\ op'[x] = o
    BY <1>0, <2>0 DEF Marked, Markable
  <2>2. o.kind = "walk" /\ o.stage = "wake" /\ o.root = t /\ o.last = t /\ ~o.join
    BY DEF Walk
  <2> HIDE DEF o
  <2>3. CallOK(x)'
    BY <2>0, <2>1, <2>2, InCall, WalkCallOK
  <2> QED
    BY <1>x, <2>0, <2>1, <2>2, <2>3 DEF Still
<1>7. ASSUME NEW x \in Threads, DeadlineExpire(x) PROVE Calls'
  <2> DEFINE o == Walk("wake", op[x].root, "DeadlineExpired", {}, FALSE)
  <2>0. op[x].kind = "walk" /\ op[x].stage = "mark" /\ op[x].root \in Tasks
    BY <1>7, MarkedBy
  <2>1. pc[x] \notin {"finish", "detach", "asleep", "retire"}
    BY <2>0, InCall
  <2>2. CASE Marked(op[x].root) /\ op' = [op EXCEPT ![x] = o]
    <3>1. /\ UNCHANGED <<inScope, deadline, state, scopeMutex, pc>>
          /\ state[op[x].root] # "None" /\ op'[x] = o
      BY <1>0, <2>2 DEF Marked, Markable
    <3>2. /\ o.kind = "walk" /\ o.stage = "wake" /\ o.root = op[x].root
          /\ o.last = op[x].root /\ ~o.join
      BY DEF Walk
    <3> HIDE DEF o
    <3>3. CallOK(x)'
      BY <2>0, <2>1, <3>1, <3>2, WalkCallOK
    <3> QED
      BY <1>x, <2>2, <3>1, <3>2, <3>3 DEF Still
  <2>3. CASE /\ UNCHANGED <<taskVars, scopeVars, queue, pc, woken, deadline, running, requested>>
             /\ op' = [op EXCEPT ![x] = NoOp]
    <3>1. op'[x] = NoOp /\ UNCHANGED <<inScope, scopeMutex, pc, deadline>>
      BY <1>0, <2>3 DEF scopeVars
    <3> QED
      BY <1>n, <1>x, <2>1, <2>3, <3>1, NoCallOK DEF Still
  <2> QED
    BY <1>7, <2>2, <2>3, MarkedBy
<1>8. ASSUME NEW x \in Threads, NEW t \in Tasks, WalkMark(x, t) PROVE Calls'
  <2>0. /\ op[x].kind = "walk" /\ op[x].stage = "walk" /\ scopeMutex = x
    BY <1>0, <1>8 DEF WalkMark, CallOK, Walking
  <2>1. pc[x] \notin {"finish", "detach", "asleep", "retire"}
    BY <2>0, InCall
  <2>2. ASSUME NEW o, op' = [op EXCEPT ![x] = o], o.kind = "walk", o.join = op[x].join,
               \/ o.stage = "walk"
               \/ o.stage = "walkWake" /\ o.last = t /\ state[t] # "None",
               UNCHANGED <<inScope, deadline, state, scopeMutex, pc>>
        PROVE  Calls'
    <3>1. op'[x] = o
      BY <1>0, <2>2
    <3>2. CallOK(x)'
      BY <1>0, <2>0, <2>1, <2>2, <3>1, WalkCallOK DEF CallOK
    <3> QED
      BY <1>x, <2>2, <3>2 DEF Still
  <2>3. CASE /\ Marked(t)
             /\ op' = [op EXCEPT ![x] = [op[x] EXCEPT !.stage = "walkWake",
                                                      !.todo = @ \ {t}, !.last = t]]
    <3> DEFINE o == [op[x] EXCEPT !.stage = "walkWake", !.todo = @ \ {t}, !.last = t]
    <3>1. o.kind = "walk" /\ o.join = op[x].join /\ o.stage = "walkWake" /\ o.last = t
      BY <1>w, <2>0 DEF WalkOp
    <3>2. op' = [op EXCEPT ![x] = o]
      BY <2>3
    <3> HIDE DEF o
    <3> QED
      BY <2>2, <2>3, <3>1, <3>2 DEF Marked, Markable
  <2>4. CASE /\ UNCHANGED <<taskVars, scopeVars, queue, pc, woken, deadline, running>>
             /\ op' = [op EXCEPT ![x] = [op[x] EXCEPT !.todo = @ \ {t}]]
    <3> DEFINE o == [op[x] EXCEPT !.todo = @ \ {t}]
    <3>1. o.kind = "walk" /\ o.join = op[x].join /\ o.stage = "walk"
      BY <1>w, <2>0 DEF WalkOp
    <3>2. op' = [op EXCEPT ![x] = o]
      BY <2>4
    <3> HIDE DEF o
    <3> QED
      BY <2>2, <2>4, <3>1, <3>2 DEF taskVars, scopeVars
  <2> QED
    BY <1>8, <2>3, <2>4, MarkedBy
<1>9. ASSUME NEW x \in Threads, NEW release \in BOOLEAN, ScopeRequestCancel(x, release)
      PROVE  Calls'
  <2> DEFINE o == Walk("walk", NoTask, "OwnerRequest", inScope, release)
  <2>0. /\ Free(x) /\ scopeMutex = NoThread /\ scopeMutex' = x
        /\ UNCHANGED <<inScope, deadline, state>> /\ op' = [op EXCEPT ![x] = o]
        /\ release => x \in Clients
        /\ UNCHANGED pc \/ pc' = [pc EXCEPT ![x] = "released"]
    BY <1>9 DEF ScopeRequestCancel, taskVars, SetOp
  <2>1. o.kind = "walk" /\ o.stage = "walk" /\ o.join = release /\ op'[x] = o
    BY <1>0, <2>0 DEF Walk
  <2> HIDE DEF o
  <2>2. /\ pc'[x] \notin {"finish", "detach", "asleep", "retire"}
        /\ \A y \in Threads \ {x} : Still(y)
    BY <1>0, <2>0, InCall DEF Still
  <2>3. CallOK(x)'
    BY <2>0, <2>1, <2>2, WalkCallOK
  <2> QED
    BY <1>x, <2>0, <2>1, <2>2, <2>3
<1>10. ASSUME NEW x \in Threads, NEW t \in Tasks, TaskJoin(x, t) PROVE Calls'
  <2> DEFINE o == Join(t, FALSE)
  <2>0. /\ Free(x) /\ x \in Clients /\ op' = [op EXCEPT ![x] = o]
        /\ UNCHANGED <<inScope, deadline, state, scopeMutex, pc>>
    BY <1>10 DEF TaskJoin, taskVars, scopeVars, SetOp
  <2>1. o.kind = "join" /\ op'[x] = o
    BY <1>0, <2>0 DEF Join
  <2> HIDE DEF o
  <2>2. CallOK(x)'
    BY <2>0, <2>1, InCall DEF CallOK, Walking, Waking
  <2> QED
    BY <1>x, <2>0, <2>1, <2>2 DEF Still
<1>11. ASSUME NEW x \in Threads, JoinWait(x) PROVE Calls'
  <2> DEFINE o == IF Joined(op[x].task) THEN NoOp ELSE Join(op[x].task, TRUE)
  <2>0. /\ op[x].kind = "join" /\ op' = [op EXCEPT ![x] = o]
        /\ UNCHANGED <<inScope, deadline, state, scopeMutex, pc>>
    BY <1>11 DEF JoinWait, taskVars, scopeVars, SetOp
  <2>1. op'[x] = o /\ x \in Clients
        /\ pc[x] \notin {"finish", "detach", "asleep", "retire", "publish"}
    BY <1>0, <2>0, InCall DEF CallOK
  <2>2. o = NoOp \/ o.kind = "join"
    BY DEF Join
  <2> HIDE DEF o
  <2>3. CallOK(x)'
    BY <1>n, <2>0, <2>1, <2>2 DEF CallOK, Walking, Waking
  <2> QED
    BY <1>n, <1>x, <2>0, <2>1, <2>2, <2>3 DEF Still
<1>12. ASSUME NEW x \in Threads, NEW t \in Tasks, NEW p \in Tasks, CreateChild(x, p, t)
       PROVE  Calls'
  <2> DEFINE o == Child(p, executor[p], t)
  <2>0. /\ Free(x) /\ Fresh(t) /\ state[p] = "Running" /\ op' = [op EXCEPT ![x] = o]
        /\ UNCHANGED <<inScope, deadline, state, scopeMutex, pc>>
    BY <1>12 DEF CreateChild, taskVars, scopeVars, SetOp
  <2>1. o.kind = "child" /\ o.task = t /\ o.parent = p /\ op'[x] = o
    BY <1>0, <2>0 DEF Child
  <2> HIDE DEF o
  <2>2. CallOK(x)'
    BY <2>0, <2>1, InCall DEF CallOK, Walking, Waking, Fresh
  <2>3. \A y \in Threads \ {x} : SameCall(y) /\ Still(y)
    BY <1>0, <2>0 DEF SameCall, Still
  <2>4. \A y \in Threads : op[y].kind = "child" => op[y].task # op'[x].task
    BY <2>0, <2>1 DEF Fresh
  <2> QED
    BY <1>c, <2>0, <2>2, <2>3, <2>4, CallsMove
<1>13. ASSUME NEW x \in Threads, NEW t \in Tasks, Create(x, t) PROVE Calls'
  <2>1. /\ state' = [state EXCEPT ![t] = "Queued"] /\ Fresh(t)
        /\ pc' = NotifyWorkers(ScopeExecutor, pc) /\ UNCHANGED <<op, scopeMutex, deadline>>
    BY <1>13 DEF Create, Insert, Enqueue
  <2>2. \A y \in Threads : SameCall(y) /\ Still(y)
    BY <2>1, Stays DEF SameCall
  <2>3. \A y \in Threads : op[y].kind = "child" => state'[op[y].task] = "None"
    BY <1>c, <2>1, TaskTypes DEF Fresh
  <2>4. CallOK(x)'
    BY <1>e, <2>1, <2>2, <2>3, CallKept
  <2>5. op'[x] = op[x]
    BY <2>1
  <2> QED
    BY <1>e, <2>1, <2>2, <2>3, <2>4, <2>5, CallsMove
<1>14. ASSUME NEW x \in Threads, CreateChildInsert(x) PROVE Calls'
  <2>1. op[x].kind = "child" /\ op' = [op EXCEPT ![x] = NoOp] /\ op'[x] = NoOp
    BY <1>0, <1>14, CreateNew
  <2>2. UNCHANGED <<scopeMutex, deadline>>
    BY <1>14 DEF CreateChildInsert, scopeVars
  <2>3. \/ \E e : pc' = NotifyWorkers(e, pc) /\ state' = [state EXCEPT ![op[x].task] = "Queued"]
        \/ UNCHANGED <<pc, state>>
    BY <1>14 DEF CreateChildInsert, Insert, Enqueue, taskVars
  <2>4. \A y \in Threads : Still(y)
    BY <2>3, Stays DEF Still
  <2>5. \A y \in Threads \ {x} : op[y].kind = "child" => state'[op[y].task] = "None"
    <3> SUFFICES ASSUME NEW y \in Threads \ {x}, op[y].kind = "child"
                 PROVE  state'[op[y].task] = "None"
      OBVIOUS
    <3>1. op[y].task # op[x].task
      BY <1>0, <2>1 DEF Calls
    <3> QED
      BY <1>c, <2>3, <3>1, TaskTypes
  <2>6. \A y \in Threads \ {x} : SameCall(y)
    BY <1>0, <2>1 DEF SameCall
  <2>7. pc[x] \notin {"finish", "detach", "asleep", "retire"} /\ pc'[x] = pc[x]
    BY <2>1, <2>4, InCall DEF Still
  <2>8. CallOK(x)'
    BY <2>1, <2>7, NoCallOK
  <2> QED
    BY <1>e, <1>n, <2>1, <2>2, <2>4, <2>5, <2>6, <2>8, CallsMove
<1>15. ASSUME NEW x \in Threads, NEW d \in Deadlines, DeadlineRelease(x, d) PROVE Calls'
  <2>1. /\ UNCHANGED <<op, scopeMutex, inScope>>
        /\ deadline' = [deadline EXCEPT ![d] = Unarmed("Released")]
        /\ pc' = NotifyWorkers(deadline[d].exec, pc)
    BY <1>15 DEF DeadlineRelease, scopeVars
  <2>2. \A y \in Threads : Still(y)
    BY <2>1, Stays
  <2>3. \A c \in Deadlines : deadline'[c].state = "Armed" => deadline'[c] = deadline[c]
    BY <2>1 DEF IInv, Typed, TypeOK, Unarmed
  <2> QED
    BY <1>y, <1>z, <2>1, <2>2, <2>3
<1>16. ASSUME NEW w \in Workers, NEW d \in Deadlines, DeadlineAfter(w, d) PROVE Calls'
  <2>0. running[w] \in Tasks /\ state[running[w]] = "Running"
    BY <1>16, Held DEF DeadlineAfter, Executing
  <2>1. /\ UNCHANGED <<op, scopeMutex, inScope, state>>
        /\ deadline' = [deadline EXCEPT ![d] =
                          [state |-> "Armed", task |-> running[w], exec |-> executor[running[w]]]]
        /\ pc' = NotifyWorkers(executor[running[w]], pc)
    BY <1>16 DEF DeadlineAfter, scopeVars, taskVars
  <2>2. \A y \in Threads : Still(y)
    BY <2>1, Stays
  <2>3. \A c \in Deadlines : deadline'[c].state = "Armed" =>
           \/ deadline'[c] = deadline[c]
           \/ deadline'[c].task \in Tasks /\ state'[deadline'[c].task] # "None"
    BY <2>0, <2>1 DEF IInv, Typed, TypeOK
  <2> QED
    BY <1>0, <1>y, <1>z, <2>1, <2>2, <2>3
<1>17. ASSUME NEW w \in Workers, NEW d \in Deadlines, DeadlineSelect(w, d) PROVE Calls'
  <2> DEFINE o == Walk("mark", deadline[d].task, "DeadlineExpired", {}, FALSE)
  <2>0. deadline[d].task \in Tasks /\ state[deadline[d].task] # "None"
    BY <1>0, <1>17 DEF DeadlineSelect, Calls
  <2>1. /\ UNCHANGED <<scopeMutex, inScope, state>> /\ op' = [op EXCEPT ![w] = o]
        /\ deadline' = [deadline EXCEPT ![d] = Unarmed("Selected")]
        /\ pc' = [pc EXCEPT ![w] = "loop"]
    BY <1>17 DEF DeadlineSelect, scopeVars, taskVars, SetOp
  <2>2. /\ o.kind = "walk" /\ o.stage = "mark" /\ o.root = deadline[d].task /\ ~o.join
        /\ op'[w] = o
    BY <1>0, <2>1 DEF Walk
  <2> HIDE DEF o
  <2>3. \A c \in Deadlines : deadline'[c].state = "Armed" => deadline'[c] = deadline[c]
    BY <2>1 DEF IInv, Typed, TypeOK, Unarmed
  <2>4. pc'[w] = "loop" /\ \A y \in Threads \ {w} : Still(y)
    BY <1>0, <2>1 DEF Still
  <2>5. CallOK(w)'
    BY <1>0, <2>0, <2>1, <2>2, <2>4, WalkCallOK
  <2> QED
    BY <1>0, <1>x, <2>1, <2>2, <2>3, <2>4, <2>5
<1>18. ASSUME NEW w \in Workers,
              \/ Dequeue(w) \/ Sleep(w) \/ \E s \in Steps : Return(w, s)
              \/ \E e \in Executors : Rebind(w, e)
       PROVE  Calls'
  <2>1. op[w] = NoOp /\ UNCHANGED <<op, scopeMutex, inScope, deadline>>
        /\ \E p \in {"resume", "asleep", "finish", "rebound"} : pc' = [pc EXCEPT ![w] = p]
    BY <1>18 DEF Dequeue, Sleep, Return, Rebind, scopeVars
  <2>2. pc'[w] # "retire" /\ \A y \in Threads \ {w} : Still(y)
    BY <1>0, <2>1 DEF Still
  <2>3. CallOK(w)'
    BY <1>0, <2>1, <2>2, NoCallOK
  <2> QED
    BY <1>0, <1>y, <2>1, <2>2, <2>3
<1>19. ASSUME NEW w \in Workers, Finish(w) PROVE Calls'
  <2>0. /\ op[w] = NoOp /\ running[w] \in Tasks /\ state[running[w]] = "Running"
        /\ UNCHANGED <<scopeMutex, inScope, deadline>> /\ w \in Threads
    BY <1>0, <1>19, Held, FinishCases DEF CallOK, Finish, Executing, scopeVars
  <2>1. CASE Ends(w) /\ FinalStep(w) = "Cancelled"
    <3> DEFINE o == Walk("scope", running[w], IF cause[running[w]] = "None"
                          THEN "OwnerRequest" ELSE cause[running[w]], {}, FALSE)
    <3>1. op' = [op EXCEPT ![w] = o]
      BY <2>1 DEF Ends
    <3>2. /\ o.kind = "walk" /\ o.stage = "scope" /\ o.root = running[w] /\ ~o.join
          /\ op'[w] = o
      BY <1>0, <3>1 DEF Walk
    <3> HIDE DEF o
    <3>3. pc'[w] = "publish" /\ \A y \in Threads \ {w} : Still(y)
      BY <1>19, <2>1, WorkerMoves
    <3>4. CallOK(w)'
      BY <1>e, <2>0, <3>2, <3>3, WalkCallOK
    <3> QED
      BY <1>x, <2>0, <3>1, <3>2, <3>3, <3>4
  <2>2. CASE \/ Ends(w) /\ FinalStep(w) # "Cancelled"
             \/ Requeues(w) \/ Idles(w)
    <3>1. UNCHANGED op
      BY <2>2 DEF Ends, Requeues, Idles
    <3>2. pc'[w] # "retire" /\ \A y \in Threads \ {w} : Still(y)
      BY <1>19, <2>2, WorkerMoves
    <3>3. CallOK(w)'
      BY <2>0, <3>1, <3>2, NoCallOK
    <3> QED
      BY <1>y, <2>0, <3>1, <3>2, <3>3
  <2> QED
    BY <1>19, <2>1, <2>2, FinishCases
<1>20. ASSUME NEW w \in Workers, Publish(w) PROVE Calls'
  <2> DEFINE r == Retiring(executor[running[w]])
             o == [op EXCEPT ![w] = r]
  <2>0. running[w] \in Tasks /\ executor[running[w]] \in Executors /\ w \in Threads
    BY <1>0, <1>20, Held DEF Publish, Ending
  <2>1. /\ op' = NotifyJoiners(running[w], o)
        /\ UNCHANGED <<scopeMutex, inScope, deadline, state>>
    BY <1>20 DEF Publish, scopeVars
  <2>2. r \in Op /\ r.kind = "retire"
    BY <2>0, OpMade DEF Op
  <2> HIDE DEF r
  <2>3. o \in [Threads -> Op] /\ o[w] = r /\ \A y \in Threads \ {w} : o[y] = op[y]
    BY <1>0, <2>2
  <2> HIDE DEF o
  <2>4. /\ op'[w] = r
        /\ \A y \in Threads \ {w} : SameCall(y)
    <3>1. \A y \in Threads : \/ op'[y] = o[y]
                             \/ o[y].kind = "join" /\ op'[y] = Join(running[w], FALSE)
      <4>1. running[w] \in Tasks \cup {NoTask}
        BY <2>0
      <4> QED
        BY <2>1, <2>3, <4>1, JoinersNotified
    <3>2. Join(running[w], FALSE).kind = "join" /\ ~Join(running[w], FALSE).asleep
      BY DEF Join
    <3> QED
      BY <2>0, <2>2, <2>3, <3>1, <3>2 DEF SameCall
  <2>5. pc'[w] = "retire" /\ \A y \in Threads \ {w} : Still(y)
    BY <1>20, WorkerMoves
  <2>6. CallOK(w)'
    BY <2>2, <2>4, <2>5 DEF CallOK, Walking, Waking
  <2>7. \A y \in Threads \ {w} : op[y].kind = "child" => state'[op[y].task] = "None"
    BY <1>c, <2>1
  <2> QED
    BY <1>e, <2>0, <2>1, <2>2, <2>4, <2>5, <2>6, <2>7, CallsMove
<1>21. ASSUME NEW w \in Workers, Retire(w) PROVE Calls'
  <2>1. /\ op' = [op EXCEPT ![w] = NoOp] /\ UNCHANGED <<scopeMutex, inScope, state>>
        /\ pc' = NotifyWorkers(op[w].exec, [pc EXCEPT ![w] = "detach"])
    BY <1>21 DEF Retire, SetOp, scopeVars, taskVars
  <2> DEFINE p == [pc EXCEPT ![w] = "detach"]
  <2>2. p \in [Threads -> Place] /\ w \in Threads
    BY <1>0 DEF Place, WorkerPlace, Ending
  <2>p. pc' = NotifyWorkers(op[w].exec, p)
    BY <2>1
  <2> HIDE DEF p
  <2>3. \A y \in Threads : pc'[y] = p[y] \/ (p[y] = "asleep" /\ pc'[y] = "loop")
    BY <2>p, <2>2, Notified
  <2>4. pc'[w] # "retire" /\ \A y \in Threads \ {w} : Still(y)
    BY <1>0, <2>2, <2>3 DEF Still, p
  <2>5. \A d \in Deadlines : deadline'[d].state = "Armed" => deadline'[d] = deadline[d]
    BY <1>21 DEF Retire, Unarmed
  <2>6. op'[w] = NoOp
    BY <1>0, <2>1
  <2> QED
    BY <1>n, <1>x, <2>1, <2>2, <2>4, <2>5, <2>6, NoCallOK
<1>22. ASSUME NEW w \in Workers, Detach(w) PROVE Calls'
  <2>1. /\ op' = NotifyJoiners(NoTask, op) /\ UNCHANGED <<scopeMutex, deadline, state>>
        /\ pc[w] = "detach"
    BY <1>22 DEF Detach, taskVars
  <2>2. pc'[w] = "loop" /\ \A y \in Threads \ {w} : Still(y)
    BY <1>22, WorkerMoves
  <2>3. /\ op'[w] = NoOp
        /\ \A y \in Threads \ {w} : SameCall(y)
    <3>1. \A y \in Threads : \/ op'[y] = op[y]
                             \/ op[y].kind = "join" /\ op'[y] = Join(NoTask, FALSE)
      BY <2>1 DEF NotifyJoiners
    <3>2. Join(NoTask, FALSE).kind = "join" /\ ~Join(NoTask, FALSE).asleep /\ op[w] = NoOp
      BY <1>0, <2>1 DEF Join, CallOK
    <3> QED
      BY <1>0, <1>n, <3>1, <3>2 DEF SameCall
  <2>4. CallOK(w)'
    BY <1>0, <2>2, <2>3, NoCallOK
  <2>5. \A y \in Threads \ {w} : op[y].kind = "child" => state'[op[y].task] = "None"
    BY <1>c, <2>1
  <2> QED
    BY <1>0, <1>e, <1>n, <2>1, <2>2, <2>3, <2>4, <2>5, CallsMove
<1>23. CASE UNCHANGED vars
  BY <1>0, <1>23 DEF vars, taskVars, scopeVars, threadVars, Calls, CallOK, Walking, Waking
<1>24. ASSUME NEW x \in Threads, Inside(x) PROVE Calls'
  BY <1>24, <1>2, <1>3, <1>4, <1>5, <1>7, <1>8, <1>11, <1>14 DEF Inside
<1>25. ASSUME NEW x \in Threads, Call(x) PROVE Calls'
  BY <1>25, <1>1, <1>6, <1>9, <1>10, <1>12, <1>13, <1>15 DEF Call
<1>26. ASSUME NEW w \in Workers, Work(w) \/ Extra(w) PROVE Calls'
  BY <1>26, <1>16, <1>17, <1>18, <1>19, <1>20, <1>21, <1>22 DEF Work, Extra
<1> QED
  BY <1>23, <1>24, <1>25, <1>26 DEF Next

\* A cancellation of the scope, and the tasks asked for, are never forgotten.
LEMMA RequestsKept ==
    ASSUME IInv, [Next]_vars
    PROVE  /\ scopeCancelled => scopeCancelled'
           /\ \/ UNCHANGED scopeCancelled
              \/ \E x \in Threads, r \in BOOLEAN : ScopeRequestCancel(x, r)
           /\ requested \subseteq requested'
<1> DEFINE Goal == /\ scopeCancelled' \in {scopeCancelled, TRUE}
                   /\ \/ UNCHANGED scopeCancelled
                      \/ \E x \in Threads, r \in BOOLEAN : ScopeRequestCancel(x, r)
                   /\ requested \subseteq requested'
<1>1. ASSUME NEW x \in Threads, NEW t \in Tasks, Wake(x, t) \/ Create(x, t) PROVE Goal
  BY <1>1 DEF Wake, Create, scopeVars, taskVars
<1>2. ASSUME NEW x \in Threads, NEW t \in Tasks,
             TaskJoin(x, t) \/ \E p \in Tasks : CreateChild(x, p, t)
      PROVE  Goal
  BY <1>2 DEF TaskJoin, CreateChild, scopeVars, taskVars
<1>3. ASSUME NEW x \in Threads, NEW t \in Tasks, RequestCancel(x, t) PROVE Goal
  BY <1>3, MarkedBy DEF Marked
<1>4. ASSUME NEW x \in Threads,
             \/ \E d \in Deadlines : DeadlineRelease(x, d)
             \/ \E r \in BOOLEAN : ScopeRequestCancel(x, r)
      PROVE  Goal
  BY <1>4 DEF DeadlineRelease, ScopeRequestCancel, scopeVars, taskVars
<1>5. ASSUME NEW x \in Threads, WalkWake(x) \/ WalkScope(x) PROVE Goal
  BY <1>5 DEF WalkWake, WalkScope, scopeVars, taskVars
<1>6. ASSUME NEW x \in Threads, WalkLock(x) \/ WalkUnlock(x) \/ JoinWait(x) PROVE Goal
  BY <1>6 DEF WalkLock, WalkUnlock, JoinWait, scopeVars, taskVars
<1>7. ASSUME NEW x \in Threads, CreateChildInsert(x) PROVE Goal
  BY <1>7 DEF CreateChildInsert, scopeVars, taskVars
<1>8. ASSUME NEW x \in Threads, DeadlineExpire(x) \/ \E t \in Tasks : WalkMark(x, t)
      PROVE  Goal
  BY <1>8, MarkedBy DEF Marked, scopeVars, taskVars
<1>9. ASSUME NEW w \in Workers,
             \/ Dequeue(w) \/ Sleep(w) \/ Publish(w) \/ Retire(w) \/ Detach(w)
             \/ \E s \in Steps : Return(w, s)
      PROVE  Goal
  BY <1>9 DEF Dequeue, Sleep, Publish, Retire, Detach, Return, scopeVars, taskVars
<1>10. ASSUME NEW w \in Workers, Finish(w) PROVE Goal
  BY <1>10, FinishCases DEF scopeVars
<1>11. ASSUME NEW w \in Workers, NEW e \in Executors, Rebind(w, e) PROVE Goal
  BY <1>11 DEF Rebind, scopeVars, taskVars
<1>12. ASSUME NEW w \in Workers, NEW d \in Deadlines, DeadlineAfter(w, d) \/ DeadlineSelect(w, d)
       PROVE  Goal
  BY <1>12 DEF DeadlineAfter, DeadlineSelect, scopeVars, taskVars
<1>13. ASSUME UNCHANGED vars PROVE Goal
  BY <1>13 DEF vars, scopeVars
<1>14. ASSUME NEW x \in Threads, Inside(x) PROVE Goal
  BY <1>14, <1>5, <1>6, <1>7, <1>8 DEF Inside
<1>15. ASSUME NEW x \in Threads, Call(x) PROVE Goal
  BY <1>15, <1>1, <1>2, <1>3, <1>4 DEF Call
<1>16. ASSUME NEW w \in Workers, Work(w) \/ Extra(w) PROVE Goal
  BY <1>16, <1>9, <1>10, <1>11, <1>12 DEF Work, Extra
<1>17. /\ scopeCancelled' \in {scopeCancelled, TRUE}
       /\ \/ UNCHANGED scopeCancelled
          \/ \E x \in Threads, r \in BOOLEAN : ScopeRequestCancel(x, r)
       /\ requested \subseteq requested'
  BY <1>13, <1>14, <1>15, <1>16 DEF Next
<1>18. scopeCancelled => scopeCancelled'
  BY <1>17, Zenon
<1> QED
  BY <1>17, <1>18

\* What a task has committed to stays: its terminal state, its cancellation and the cause,
\* its publication and its place in the tree.
LEMMA TasksKept ==
    ASSUME IInv, [Next]_vars, NEW u \in Tasks
    PROVE  /\ Committed(u)
           /\ state[u] # "None" => ancestors'[u] = ancestors[u]
<1> DEFINE Goal == /\ Committed(u)
                   /\ state[u] # "None" => ancestors'[u] = ancestors[u]
<1>0. "Running" \notin Terminal /\ "Queued" \notin Terminal /\ "None" \notin Terminal
      /\ "Idle" \notin Terminal
  BY DEF Terminal
<1>1. ASSUME NEW t \in Tasks, Woke(t) PROVE Goal
  <2>1. /\ state[t] # "None" /\ WakeTask(t)
        /\ UNCHANGED <<cancelled, cause, published, ancestors>>
    BY <1>1 DEF Woke
  <2> QED
    BY <1>0, <2>1, WakeEffect DEF Committed
<1>2. ASSUME NEW t \in Tasks, NEW e \in Executors, NEW q \in Tasks \cup {NoTask},
             NewTask(t, e, q)
      PROVE  Goal
  <2>1. /\ state' = [state EXCEPT ![t] = "Queued"] /\ state[t] = "None"
        /\ ancestors' = [ancestors EXCEPT ![t] =
                            IF q = NoTask THEN {} ELSE ancestors[q] \cup {q}]
        /\ UNCHANGED published
    BY <1>2 DEF NewTask, Insert, Enqueue
  <2>2. \A v \in Tasks \ {t} : cancelled'[v] = cancelled[v] /\ cause'[v] = cause[v]
    BY <1>2, TaskTypes DEF NewTask, Insert
  <2>3. ~cancelled[t] /\ cause[t] = "None"
    BY <2>1 DEF IInv, Lifecycle
  <2> QED
    BY <1>0, <2>1, <2>2, <2>3, TaskTypes DEF Committed
<1>3. ASSUME NEW t \in Tasks, Marked(t) PROVE Goal
  BY <1>3, TaskTypes DEF Marked, Markable, Committed
<1>4. ASSUME NEW w \in Workers, NEW e \in Executors, Rebind(w, e) PROVE Goal
  BY <1>4 DEF Rebind, Committed
<1>5. ASSUME NEW w \in Workers, Dequeue(w) PROVE Goal
  <2> DEFINE t == Head(queue[Home[w]])
  <2>1. t \in Tasks /\ state[t] = "Queued" /\ state' = [state EXCEPT ![t] = "Running"]
    BY <1>5, HeadQueued DEF Dequeue
  <2> HIDE DEF t
  <2>2. UNCHANGED <<cancelled, cause, published, ancestors>>
    BY <1>5 DEF Dequeue
  <2> QED
    BY <1>0, <2>1, <2>2, TaskTypes DEF Committed
<1>6. ASSUME NEW w \in Workers, Finish(w) PROVE Goal
  <2> DEFINE t == running[w]
  <2>1. t \in Tasks /\ state[t] = "Running"
    BY <1>6, Held DEF Finish, Executing
  <2>2. \E s : state' = [state EXCEPT ![t] = s]
    BY <1>6, FinishCases DEF Ends, Requeues, Idles
  <2> HIDE DEF t
  <2>3. UNCHANGED <<cancelled, cause, published, ancestors>>
    BY <1>6, FinishCases
  <2> QED
    BY <1>0, <2>1, <2>2, <2>3, TaskTypes DEF Committed
<1>7. ASSUME NEW w \in Workers, Publish(w) PROVE Goal
  <2>1. running[w] \in Tasks
    BY <1>7, Held DEF Publish, Ending
  <2> QED
    BY <1>7, <2>1, TaskTypes DEF Publish, Committed
<1>8. ASSUME NEW w \in Workers, Detach(w) PROVE Goal
  BY <1>8 DEF Detach, taskVars, Committed
<1>9. CASE Quiet
  BY <1>9 DEF Quiet, Committed
<1> QED
  BY <1>1, <1>2, <1>3, <1>4, <1>5, <1>6, <1>7, <1>8, <1>9, TaskSteps

\* No task ends with a result while it is cancelled.
LEMMA WinsInductive ==
    ASSUME IInv, [Next]_vars
    PROVE  CancellationWins'
<1>0. CancellationWins /\ {"Completed", "Failed"} \subseteq Terminal
  BY DEF IInv, Terminal
<1>1. ASSUME NEW u \in Tasks, state[u] \in Terminal, state'[u] \in {"Completed", "Failed"}
      PROVE  ~cancelled'[u]
  BY <1>0, <1>1, TasksKept DEF Committed, CancellationWins
<1> DEFINE Goal == \A u \in Tasks : state'[u] \in {"Completed", "Failed"} =>
                     state[u] \in Terminal \/ cancelled'[u] = FALSE
<1>2. ASSUME NEW t \in Tasks, Woke(t) PROVE Goal
  <2>1. state[t] # "None" /\ WakeTask(t)
    BY <1>2 DEF Woke
  <2> QED
    BY <1>0, <2>1, WakeEffect
<1>3. ASSUME NEW t \in Tasks, NEW e \in Executors, NEW q \in Tasks \cup {NoTask},
             NewTask(t, e, q)
      PROVE  Goal
  BY <1>0, <1>3, TaskTypes DEF NewTask, Insert, Enqueue
<1>4. ASSUME NEW t \in Tasks, Marked(t) PROVE Goal
  BY <1>0, <1>4 DEF Marked
<1>5. ASSUME NEW w \in Workers, NEW e \in Executors, Rebind(w, e) PROVE Goal
  BY <1>0, <1>5 DEF Rebind
<1>6. ASSUME NEW w \in Workers, Dequeue(w) PROVE Goal
  BY <1>0, <1>6, TaskTypes DEF Dequeue
<1>7. ASSUME NEW w \in Workers, Finish(w) PROVE Goal
  <2>1. running[w] \in Tasks /\ UNCHANGED cancelled
    BY <1>7, Held, FinishCases DEF Finish, Executing
  <2>2. CASE Ends(w)
    BY <1>0, <2>1, <2>2, TaskTypes DEF Ends, FinalStep
  <2>3. CASE Requeues(w) \/ Idles(w)
    BY <1>0, <2>1, <2>3, TaskTypes DEF Requeues, Idles
  <2> QED
    BY <1>7, <2>2, <2>3, FinishCases
<1>8. ASSUME NEW w \in Workers, Publish(w) \/ Detach(w) PROVE Goal
  BY <1>0, <1>8 DEF Publish, Detach, taskVars
<1>9. ASSUME Quiet PROVE Goal
  BY <1>0, <1>9 DEF Quiet
<1>10. \A u \in Tasks : state'[u] \in {"Completed", "Failed"} =>
          state[u] \in Terminal \/ cancelled'[u] = FALSE
  BY <1>2, <1>3, <1>4, <1>5, <1>6, <1>7, <1>8, <1>9, TaskSteps
<1> QED
  BY <1>1, <1>10 DEF CancellationWins

\* The scope gains no task while its mutex is held.
LEMMA ScopeShut ==
    ASSUME IInv, [Next]_vars
    PROVE  /\ scopeMutex # NoThread => inScope' \subseteq inScope
           /\ \A u \in inScope' \ inScope :
                \E e \in Executors, q \in Tasks \cup {NoTask} : NewTask(u, e, q)
<1>1. ASSUME NEW t \in Tasks, Woke(t) PROVE inScope' \subseteq inScope
  BY <1>1 DEF Woke
<1>2. ASSUME NEW t \in Tasks, NEW e \in Executors, NEW q \in Tasks \cup {NoTask},
             NewTask(t, e, q)
      PROVE  inScope' = inScope \cup {t} /\ scopeMutex = NoThread
  BY <1>2 DEF NewTask, Insert
<1>3. ASSUME NEW t \in Tasks, Marked(t) PROVE inScope' \subseteq inScope
  BY <1>3 DEF Marked
<1>4. ASSUME NEW w \in Workers,
             Dequeue(w) \/ Publish(w) \/ Detach(w) \/ \E e \in Executors : Rebind(w, e)
      PROVE  inScope' \subseteq inScope
  BY <1>4 DEF Dequeue, Publish, Detach, Rebind, scopeVars
<1>5. ASSUME NEW w \in Workers, Finish(w) PROVE inScope' \subseteq inScope
  BY <1>5, FinishCases DEF scopeVars
<1>6. ASSUME Quiet PROVE inScope' \subseteq inScope
  BY <1>6 DEF Quiet
<1>7. CASE inScope' \subseteq inScope
  BY <1>7
<1>8. CASE \E t \in Tasks, e \in Executors, q \in Tasks \cup {NoTask} : NewTask(t, e, q)
  BY <1>2, <1>8
<1> QED
  BY <1>1, <1>3, <1>4, <1>5, <1>6, <1>7, <1>8, TaskSteps

\* A task of the scope that cancellation has not reached was not reached before either.
LEMMA Unreached ==
    ASSUME IInv, [Next]_vars, NEW t \in Tasks, Uncancelled(t)'
    PROVE  /\ t \in inScope => Uncancelled(t) /\ ancestors'[t] = ancestors[t]
           /\ scopeMutex # NoThread => t \in inScope
<1>1. t \in inScope => state[t] # "None"
  BY DEF IInv, Lifecycle
<1>2. Committed(t) /\ (state[t] # "None" => ancestors'[t] = ancestors[t])
  BY TasksKept
<1>3. scopeMutex # NoThread => t \in inScope
  BY ScopeShut DEF Uncancelled
<1>4. /\ ~cancelled'[t] /\ state'[t] \notin Terminal \cup {"None"}
  BY DEF Uncancelled, Live
<1>5. ~cancelled[t] /\ state[t] \notin Terminal
  BY <1>2, <1>4 DEF Committed
<1> QED
  BY <1>1, <1>2, <1>3, <1>5 DEF Uncancelled, Live

\* A thread's call changes by its own steps; a join may also be woken.
LEMMA OpSteps ==
    ASSUME IInv, [Next]_vars, NEW y \in Threads
    PROVE  \/ SameCall(y) \/ Inside(y) \/ Call(y)
           \/ y \in Workers /\ (Work(y) \/ Extra(y))
<1>0. op \in [Threads -> Op]
  BY TaskTypes
<1>1. ASSUME NEW x \in Threads \ {y}, NEW o, op' = [op EXCEPT ![x] = o] PROVE SameCall(y)
  BY <1>0, <1>1 DEF SameCall
<1>2. ASSUME UNCHANGED op PROVE SameCall(y)
  BY <1>2 DEF SameCall
<1>3. ASSUME NEW x \in Threads \ {y}, WalkWake(x) \/ WalkLock(x) \/ WalkUnlock(x)
      PROVE  SameCall(y)
  BY <1>1, <1>3 DEF WalkWake, WalkLock, WalkUnlock, SetOp
<1>4. ASSUME NEW x \in Threads \ {y}, WalkScope(x) \/ JoinWait(x) \/ CreateChildInsert(x)
      PROVE  SameCall(y)
  BY <1>1, <1>4 DEF WalkScope, JoinWait, CreateChildInsert, SetOp
<1>5. ASSUME NEW x \in Threads \ {y},
             DeadlineExpire(x) \/ \E t \in Tasks : WalkMark(x, t) \/ RequestCancel(x, t)
      PROVE  SameCall(y)
  <2>1. \E o : op' = [op EXCEPT ![x] = o]
    BY <1>5 DEF DeadlineExpire, WalkMark, RequestCancel, CancelRoot, SetOp
  <2> QED
    BY <1>1, <2>1
<1>6. ASSUME NEW x \in Threads \ {y}, NEW t \in Tasks,
             \/ TaskJoin(x, t) \/ Wake(x, t) \/ Create(x, t)
             \/ \E p \in Tasks : CreateChild(x, p, t)
      PROVE  SameCall(y)
  BY <1>1, <1>2, <1>6 DEF TaskJoin, Wake, Create, CreateChild, SetOp
<1>7. ASSUME NEW x \in Threads \ {y},
             \/ \E r \in BOOLEAN : ScopeRequestCancel(x, r)
             \/ \E d \in Deadlines : DeadlineRelease(x, d)
      PROVE  SameCall(y)
  BY <1>1, <1>2, <1>7 DEF ScopeRequestCancel, DeadlineRelease, SetOp
<1>8. ASSUME NEW w \in Workers \ {y}, Publish(w) \/ Detach(w)
      PROVE  SameCall(y)
  <2> DEFINE r == [op EXCEPT ![w] = Retiring(executor[running[w]])]
  <2>1. r[y] = op[y] /\ (op' = NotifyJoiners(running[w], r) \/ op' = NotifyJoiners(NoTask, op))
    BY <1>0, <1>8 DEF Publish, Detach
  <2> HIDE DEF r
  <2>2. op'[y] = op[y] \/ (op[y].kind = "join" /\ \E t : op'[y] = Join(t, FALSE))
    BY <2>1 DEF NotifyJoiners
  <2>3. \A t : Join(t, FALSE).kind = "join" /\ ~Join(t, FALSE).asleep
    BY DEF Join
  <2> QED
    BY <2>2, <2>3 DEF SameCall
<1>9. ASSUME NEW w \in Workers \ {y},
             \/ Dequeue(w) \/ Sleep(w) \/ Retire(w) \/ \E s \in Steps : Return(w, s)
      PROVE  SameCall(y)
  BY <1>1, <1>2, <1>9 DEF Dequeue, Sleep, Retire, Return, SetOp, Threads
<1>10. ASSUME NEW w \in Workers \ {y}, Finish(w) PROVE SameCall(y)
  <2>1. UNCHANGED op \/ \E o : op' = [op EXCEPT ![w] = o]
    BY <1>10, FinishCases DEF Ends, Requeues, Idles
  <2> QED
    BY <1>1, <1>2, <2>1 DEF Threads
<1>11. ASSUME NEW w \in Workers \ {y}, Extra(w) PROVE SameCall(y)
  <2>1. UNCHANGED op \/ \E o : op' = [op EXCEPT ![w] = o]
    BY <1>11 DEF Extra, Rebind, DeadlineAfter, DeadlineSelect, SetOp
  <2> QED
    BY <1>1, <1>2, <2>1 DEF Threads
<1>12. ASSUME UNCHANGED vars PROVE SameCall(y)
  BY <1>12, <1>2 DEF vars, threadVars
<1>13. ASSUME NEW x \in Threads \ {y}, Inside(x) PROVE SameCall(y)
  BY <1>13, <1>3, <1>4, <1>5 DEF Inside
<1>14. ASSUME NEW x \in Threads \ {y}, Call(x) PROVE SameCall(y)
  BY <1>14, <1>5, <1>6, <1>7 DEF Call
<1>15. ASSUME NEW w \in Workers \ {y}, Work(w) \/ Extra(w) PROVE SameCall(y)
  BY <1>15, <1>8, <1>9, <1>10, <1>11 DEF Work
<1> QED
  BY <1>12, <1>13, <1>14, <1>15 DEF Next

\* The steps of a thread that begin, continue or end a walk.
LEMMA WalkSteps ==
    ASSUME IInv, [Next]_vars, NEW y \in Threads, op[y].kind = "walk" \/ op'[y].kind = "walk"
    PROVE  \/ op'[y] = op[y]
           \/ \E t \in Tasks : RequestCancel(y, t)
           \/ \E t \in Tasks : WalkMark(y, t)
           \/ DeadlineExpire(y) \/ WalkWake(y) \/ WalkScope(y) \/ WalkLock(y) \/ WalkUnlock(y)
           \/ \E r \in BOOLEAN : ScopeRequestCancel(y, r)
           \/ y \in Workers /\ Finish(y)
           \/ y \in Workers /\ \E d \in Deadlines : DeadlineSelect(y, d)
<1>0. op \in [Threads -> Op] /\ CallOK(y)
  BY TaskTypes DEF IInv, Calls
<1>k. /\ NoOp.kind = "none" /\ \A t, b : Join(t, b).kind = "join"
      /\ \A p, e, t : Child(p, e, t).kind = "child" /\ \A f : Retiring(f).kind = "retire"
  BY DEF NoOp, Join, Child, Retiring
<1>1. ASSUME JoinWait(y) \/ CreateChildInsert(y) PROVE FALSE
  <2>1. op[y].kind \in {"join", "child"}
    BY <1>1 DEF JoinWait, CreateChildInsert
  <2>2. op'[y] = NoOp \/ op'[y] = Join(op[y].task, TRUE)
    BY <1>0, <1>1 DEF JoinWait, CreateChildInsert, SetOp
  <2> QED
    BY <1>k, <2>1, <2>2
<1>2. ASSUME NEW t \in Tasks, Wake(y, t) \/ Create(y, t) PROVE op'[y] = op[y]
  BY <1>2 DEF Wake, Create
<1>3. ASSUME NEW t \in Tasks, TaskJoin(y, t) \/ \E p \in Tasks : CreateChild(y, p, t)
      PROVE  FALSE
  <2>1. op[y] = NoOp /\ (op'[y] = Join(t, FALSE) \/ \E p, e : op'[y] = Child(p, e, t))
    BY <1>0, <1>3 DEF TaskJoin, CreateChild, Free, SetOp
  <2> QED
    BY <1>k, <2>1
<1>4. ASSUME NEW d \in Deadlines, DeadlineRelease(y, d) \/ DeadlineAfter(y, d)
      PROVE  op'[y] = op[y]
  BY <1>4 DEF DeadlineRelease, DeadlineAfter
<1>5. ASSUME y \in Workers,
             \/ Dequeue(y) \/ Sleep(y) \/ \E s \in Steps : Return(y, s)
             \/ \E e \in Executors : Rebind(y, e)
      PROVE  op'[y] = op[y]
  BY <1>5 DEF Dequeue, Sleep, Return, Rebind
<1>6. ASSUME y \in Workers, Publish(y) \/ Detach(y) PROVE FALSE
  <2> DEFINE r == [op EXCEPT ![y] = Retiring(executor[running[y]])]
  <2>1. /\ op[y] = NoOp /\ r[y].kind = "retire"
        /\ op' = NotifyJoiners(running[y], r) \/ op' = NotifyJoiners(NoTask, op)
    BY <1>0, <1>6, <1>k DEF Publish, Detach, CallOK
  <2> HIDE DEF r
  <2>2. op'[y].kind # "walk"
    BY <1>k, <2>1 DEF NotifyJoiners
  <2> QED
    BY <1>k, <2>1, <2>2
<1>7. ASSUME y \in Workers, Retire(y) PROVE FALSE
  <2>1. op[y].kind = "retire" /\ op'[y] = NoOp
    BY <1>0, <1>7 DEF Retire, SetOp, CallOK
  <2> QED
    BY <1>k, <2>1
<1>8. ASSUME SameCall(y) PROVE op'[y] = op[y]
  BY <1>8 DEF SameCall
<1> QED
  BY <1>1, <1>2, <1>3, <1>4, <1>5, <1>6, <1>7, <1>8, OpSteps
     DEF Inside, Call, Work, Extra

\* After this step the next thing x does is to wake t.
WakesNext(x, t) ==
    op'[x].kind = "walk" /\ op'[x].stage \in {"wake", "walkWake"} /\ op'[x].last = t

\* How a task comes to be cancelled: at its creation, by its own request or by a walk.
LEMMA NewlyCancelled ==
    ASSUME IInv, [Next]_vars, NEW t \in Tasks, ~cancelled[t], cancelled'[t]
    PROVE  \/ \E e \in Executors, q \in Tasks \cup {NoTask} : NewTask(t, e, q) /\ Inherits(q)
           \/ t \in requested' /\ \E x \in Threads : Visiting(x, t)' /\ WakesNext(x, t)
           \/ \E x \in Threads : WalkMark(x, t)
<1> DEFINE Goal == \/ \E e \in Executors, q \in Tasks \cup {NoTask} :
                        NewTask(t, e, q) /\ Inherits(q)
                   \/ t \in requested' /\ \E x \in Threads : Visiting(x, t)' /\ WakesNext(x, t)
                   \/ \E x \in Threads : WalkMark(x, t)
<1>1. ASSUME UNCHANGED cancelled PROVE FALSE
  BY <1>1
<1>2. ASSUME NEW x \in Threads, NEW u \in Tasks, RequestCancel(x, u) PROVE Goal
  <2> DEFINE o == Walk("wake", u, "OwnerRequest", {}, FALSE)
  <2>0. Marked(u) /\ requested' = requested \cup {u} /\ op' = [op EXCEPT ![x] = o]
    BY <1>2, MarkedBy
  <2>1. Marked(u) /\ requested' = requested \cup {u} /\ op'[x] = o
    BY <2>0, TaskTypes
  <2>2. t = u
    BY <2>1, TaskTypes DEF Marked
  <2>3. o.kind = "walk" /\ o.root = u /\ o.last = u /\ o.stage = "wake"
    BY DEF Walk
  <2> HIDE DEF o
  <2> QED
    BY <2>1, <2>2, <2>3 DEF Visiting, WakesNext
<1>3. ASSUME NEW x \in Threads, DeadlineExpire(x) PROVE Goal
  <2> DEFINE o == Walk("wake", op[x].root, "DeadlineExpired", {}, FALSE)
  <2>0. ~UNCHANGED taskVars
    BY <1>1 DEF taskVars
  <2>1. Marked(op[x].root) /\ requested' = requested \cup {op[x].root} /\ op'[x] = o
    <3>1. op \in [Threads -> Op]
      BY TaskTypes
    <3>2. /\ Marked(op[x].root) /\ requested' = requested \cup {op[x].root}
          /\ op' = [op EXCEPT ![x] = o]
      BY <1>3, <2>0, MarkedBy
    <3> HIDE DEF o
    <3> QED
      BY <3>1, <3>2
  <2>2. t = op[x].root
    BY <2>1, TaskTypes DEF Marked
  <2>3. o.kind = "walk" /\ o.root = op[x].root /\ o.last = op[x].root /\ o.stage = "wake"
    BY DEF Walk
  <2> HIDE DEF o
  <2> QED
    BY <2>1, <2>2, <2>3 DEF Visiting, WakesNext
<1>4. ASSUME NEW x \in Threads, NEW u \in Tasks, WalkMark(x, u) PROVE Goal
  <2>1. Marked(u)
    BY <1>1, <1>4, MarkedBy DEF taskVars
  <2>2. t = u
    BY <2>1, TaskTypes DEF Marked
  <2> QED
    BY <1>4, <2>2
<1>5. ASSUME NEW u \in Tasks, NEW e \in Executors, NEW q \in Tasks \cup {NoTask},
             NewTask(u, e, q)
      PROVE  Goal
  <2>1. /\ Inherits(q) => cancelled' = [cancelled EXCEPT ![u] = TRUE]
        /\ ~Inherits(q) => UNCHANGED cancelled
    BY <1>5 DEF NewTask, Insert
  <2>2. t = u /\ Inherits(q)
    BY <1>1, <2>1, TaskTypes
  <2> QED
    BY <1>5, <2>2
<1>6. ASSUME NEW x \in Threads, NEW u \in Tasks, Create(x, u) PROVE Goal
  BY <1>5, <1>6, CreateNew, SchedulerAssumption
<1>7. ASSUME NEW x \in Threads, CreateChildInsert(x) PROVE Goal
  <2>1. op[x].kind = "child" =>
          op[x].parent \in Tasks /\ op[x].exec \in Executors /\ op[x].task \in Tasks
    BY OpKinds DEF IInv, Typed, ChildOp
  <2> QED
    BY <1>1, <1>5, <1>7, <2>1, CreateNew DEF taskVars
<1>8. ASSUME NEW x \in Threads,
             \/ WalkWake(x) \/ WalkScope(x) \/ WalkLock(x) \/ WalkUnlock(x) \/ JoinWait(x)
             \/ \E d \in Deadlines : DeadlineRelease(x, d)
             \/ \E r \in BOOLEAN : ScopeRequestCancel(x, r)
      PROVE  FALSE
  BY <1>1, <1>8 DEF WalkWake, WalkScope, WalkLock, WalkUnlock, JoinWait, DeadlineRelease,
                    ScopeRequestCancel, taskVars
<1>9. ASSUME NEW x \in Threads, NEW u \in Tasks,
             Wake(x, u) \/ TaskJoin(x, u) \/ \E p \in Tasks : CreateChild(x, p, u)
      PROVE  FALSE
  BY <1>1, <1>9 DEF Wake, TaskJoin, CreateChild, taskVars
<1>10. ASSUME NEW w \in Workers, Work(w) \/ Extra(w) PROVE FALSE
  <2>1. ASSUME Finish(w) PROVE FALSE
    BY <1>1, <2>1, FinishCases
  <2> QED
    BY <1>1, <1>10, <2>1 DEF Work, Extra, Dequeue, Sleep, Publish, Retire, Detach, Return,
                             Rebind, DeadlineAfter, DeadlineSelect, taskVars
<1>11. ASSUME UNCHANGED vars PROVE FALSE
  BY <1>1, <1>11 DEF vars, taskVars
<1> QED
  BY <1>2, <1>3, <1>4, <1>6, <1>7, <1>8, <1>9, <1>10, <1>11 DEF Next, Inside, Call

\* Cancellation goes only downwards.
LEMMA DownwardInductive ==
    ASSUME IInv, [Next]_vars
    PROVE  DownwardOnly'
<1> DEFINE Why(t) == \/ scopeCancelled
                     \/ t \in requested
                     \/ \E a \in ancestors[t] : a \in requested \/ state[a] = "Cancelled"
<1>0. /\ scopeCancelled => scopeCancelled'
      /\ requested \subseteq requested'
      /\ \A a \in Tasks : state[a] = "Cancelled" => state'[a] = "Cancelled"
      /\ \A a \in Tasks : state[a] # "None" => ancestors'[a] = ancestors[a]
  BY RequestsKept, TasksKept DEF Committed, Terminal
<1>1. ASSUME NEW t \in Tasks, state[t] # "None", Why(t) PROVE Why(t)'
  BY <1>0, <1>1, TaskTypes
<1>2. ASSUME NEW t \in Tasks, cancelled[t] PROVE state[t] # "None" /\ Why(t)
  BY <1>2 DEF IInv, DownwardOnly, Lifecycle
<1>3. ASSUME NEW t \in Tasks, NEW e \in Executors, NEW q \in Tasks \cup {NoTask},
             NewTask(t, e, q), Inherits(q)
      PROVE  Why(t)'
  <2>1. CASE scopeCancelled
    BY <1>0, <2>1
  <2>2. CASE q # NoTask /\ cancelled[q]
    <3>1. q \in Tasks /\ state[q] # "None" /\ Why(q)
      BY <1>2, <2>2
    <3>2. ancestors'[t] = ancestors[q] \cup {q}
      BY <1>3, <2>2, TaskTypes DEF NewTask, Insert
    <3> QED
      BY <1>0, <3>1, <3>2, TaskTypes
  <2> QED
    BY <1>3, <2>1, <2>2 DEF Inherits
<1>4. ASSUME NEW t \in Tasks, NEW x \in Threads, WalkMark(x, t) PROVE Why(t)'
  <2>1. op[x].kind = "walk" /\ op[x].stage = "walk" /\ t \in op[x].todo /\ UNCHANGED ancestors
    BY <1>4, MarkedBy DEF Marked, taskVars
  <2>2. op[x].root \in Tasks \cup {NoTask}
    BY <2>1, OpKinds, TaskTypes DEF WalkOp
  <2>3. /\ op[x].root = NoTask => scopeCancelled
        /\ op[x].root \in Tasks => op[x].root \in requested \/ state[op[x].root] = "Cancelled"
        /\ Below(t, op[x].root)
    BY <2>1 DEF IInv, Walks, WalkSound
  <2> QED
    BY <1>0, <2>1, <2>2, <2>3 DEF Below
<1>5. ASSUME NEW t \in Tasks, cancelled'[t] PROVE Why(t)'
  <2>1. CASE cancelled[t]
    BY <1>1, <1>2, <2>1
  <2>2. CASE ~cancelled[t]
    BY <1>3, <1>4, <1>5, <2>2, NewlyCancelled
  <2> QED
    BY <2>1, <2>2
<1> QED
  BY <1>5 DEF DownwardOnly

\* What a walk has established stays true, whoever moves.
LEMMA WalkKept ==
    ASSUME IInv, [Next]_vars, NEW x \in Threads, op[x].kind = "walk", op[x].stage # "mark"
    PROVE  /\ op[x].root = NoTask => scopeCancelled'
           /\ op[x].root \in Tasks =>
                /\ op[x].root \in requested' \/ state'[op[x].root] = "Cancelled"
                /\ cancelled'[op[x].root] \/ state'[op[x].root] = "Cancelled"
           /\ \A t \in op[x].todo : (op[x].root = NoTask \/ op[x].root \in ancestors'[t])
           /\ Walking(x) => \A t \in Tasks :
                Uncancelled(t)' /\ (op[x].root = NoTask \/ op[x].root \in ancestors'[t]) => t \in op[x].todo
<1>0. WalkSound(x) /\ op[x] \in WalkOp
  BY OpKinds, TaskTypes DEF IInv, Walks
<1>1. /\ scopeCancelled => scopeCancelled'
      /\ requested \subseteq requested'
      /\ \A a \in Tasks : state[a] = "Cancelled" => state'[a] = "Cancelled"
      /\ \A a \in Tasks : cancelled[a] => cancelled'[a]
      /\ \A a \in Tasks : state[a] # "None" => ancestors'[a] = ancestors[a]
  BY RequestsKept, TasksKept DEF Committed, Terminal
<1>2. ASSUME NEW t \in op[x].todo PROVE (op[x].root = NoTask \/ op[x].root \in ancestors'[t])
  <2>1. t \in Tasks /\ Below(t, op[x].root)
    BY <1>0 DEF WalkSound, WalkOp
  <2>2. op[x].root \in ancestors[t] => state[t] # "None"
    BY <2>1 DEF IInv, Lifecycle
  <2> QED
    BY <1>1, <2>1, <2>2 DEF Below
<1>3. ASSUME Walking(x), NEW t \in Tasks, Uncancelled(t)', (op[x].root = NoTask \/ op[x].root \in ancestors'[t])
      PROVE  t \in op[x].todo
  <2>1. scopeMutex = x /\ x # NoThread
    BY <1>3, SchedulerAssumption DEF IInv, Calls, CallOK, Threads
  <2>2. Uncancelled(t) /\ ancestors'[t] = ancestors[t]
    BY <1>3, <2>1, Unreached
  <2>3. Below(t, op[x].root)
    BY <1>3, <2>2 DEF Below
  <2> QED
    BY <1>0, <1>3, <2>2, <2>3 DEF WalkSound
<1> QED
  BY <1>0, <1>1, <1>2, <1>3 DEF WalkSound

\* Every walk has the authority of its root, and has still to visit the tasks below it
\* that cancellation has not reached.
LEMMA WalksInductive ==
    ASSUME IInv, [Next]_vars
    PROVE  Walks'
<1> SUFFICES ASSUME NEW x \in Threads, op'[x].kind = "walk", op'[x].stage # "mark"
             PROVE  WalkSound(x)'
  BY DEF Walks, WalkSound
<1>0. op \in [Threads -> Op] /\ (op[x].kind = "walk" => op[x] \in WalkOp) /\ NoTask \notin Tasks
  BY OpKinds, TaskTypes, SchedulerAssumption
\* A walk that goes on below the same root.
<1>a. ASSUME op[x].kind = "walk", op[x].stage # "mark", op'[x].root = op[x].root,
             op'[x].todo \subseteq op[x].todo,
             Walking(x)' => Walking(x),
             Walking(x)' => \A t \in op[x].todo \ op'[x].todo : ~Uncancelled(t)'
      PROVE  WalkSound(x)'
  <2>1. Walking(x)' => \A t \in Tasks :
          Uncancelled(t)' /\ Below(t, op[x].root)' => t \in op'[x].todo
    BY <1>a, WalkKept DEF Below
  <2>2. \A t \in op'[x].todo : Below(t, op[x].root)'
    BY <1>a, WalkKept DEF Below
  <2> QED
    BY <1>a, <2>1, <2>2, WalkKept DEF WalkSound
\* A walk that begins with a task and has nobody to visit yet.
<1>b. ASSUME NEW t \in Tasks, op'[x].root = t, op'[x].todo = {}, ~Walking(x)',
             t \in requested' \/ state'[t] = "Cancelled",
             cancelled'[t] \/ state'[t] = "Cancelled"
      PROVE  WalkSound(x)'
  BY <1>0, <1>b DEF WalkSound
<1>1. CASE op'[x] = op[x]
  BY <1>1, <1>a DEF Walking
<1>2. ASSUME NEW t \in Tasks, RequestCancel(x, t) PROVE WalkSound(x)'
  <2> DEFINE o == Walk("wake", t, "OwnerRequest", {}, FALSE)
  <2>1. Marked(t) /\ requested' = requested \cup {t} /\ op'[x] = o
    BY <1>0, <1>2, MarkedBy
  <2>2. o.root = t /\ o.todo = {} /\ o.stage = "wake"
    BY DEF Walk
  <2> HIDE DEF o
  <2>3. cancelled'[t]
    BY <2>1, TaskTypes DEF Marked
  <2> QED
    BY <1>b, <2>1, <2>2, <2>3 DEF Walking
<1>3. ASSUME DeadlineExpire(x) PROVE WalkSound(x)'
  <2> DEFINE t == op[x].root
             o == Walk("wake", t, "DeadlineExpired", {}, FALSE)
  <2>0. NoOp.kind = "none"
    BY DEF NoOp
  <2>1. Marked(t) /\ requested' = requested \cup {t} /\ op'[x] = o /\ t \in Tasks
    BY <1>0, <1>3, <2>0, MarkedBy
  <2>2. o.root = t /\ o.todo = {} /\ o.stage = "wake"
    BY DEF Walk
  <2> HIDE DEF o, t
  <2>3. cancelled'[t]
    BY <2>1, TaskTypes DEF Marked
  <2> QED
    BY <1>b, <2>1, <2>2, <2>3 DEF Walking
<1>4. ASSUME WalkWake(x) PROVE WalkSound(x)'
  <2>1. /\ op[x].kind = "walk" /\ op[x].stage \in {"wake", "walkWake"}
        /\ op'[x] = [op[x] EXCEPT !.stage = IF @ = "wake" THEN "scope" ELSE "walk",
                                  !.last = op[x].root]
    BY <1>0, <1>4 DEF WalkWake, SetOp
  <2>2. /\ op'[x].root = op[x].root /\ op'[x].todo = op[x].todo
        /\ op'[x].stage = IF op[x].stage = "wake" THEN "scope" ELSE "walk"
    BY <1>0, <2>1 DEF WalkOp
  <2> QED
    BY <1>a, <2>1, <2>2 DEF Walking
<1>5. ASSUME WalkScope(x) PROVE WalkSound(x)'
  <2>0. NoOp.kind = "none"
    BY DEF NoOp
  <2>1. /\ op[x].kind = "walk" /\ op[x].stage = "scope"
        /\ op'[x] = [op[x] EXCEPT !.stage = "lock"]
    BY <1>0, <1>5, <2>0 DEF WalkScope, SetOp
  <2>2. op'[x].root = op[x].root /\ op'[x].todo = op[x].todo /\ op'[x].stage = "lock"
    BY <1>0, <2>1 DEF WalkOp
  <2> QED
    BY <1>a, <2>1, <2>2 DEF Walking
<1>6. ASSUME WalkLock(x) PROVE WalkSound(x)'
  <2>1. /\ op[x].kind = "walk" /\ op[x].stage = "lock"
        /\ op'[x] = [op[x] EXCEPT !.stage = "walk",
                                  !.todo = {t \in inScope : Descends(t, op[x].root)}]
        /\ UNCHANGED <<inScope, ancestors>>
    BY <1>0, <1>6 DEF WalkLock, SetOp, taskVars
  <2>2. op'[x].root = op[x].root /\ op'[x].todo = {t \in inScope : op[x].root \in ancestors[t]}
    BY <1>0, <2>1 DEF WalkOp, Descends
  <2>3. op[x].root \in Tasks
    BY <2>1 DEF IInv, Calls, CallOK
  <2>4. \A t \in op'[x].todo : Below(t, op[x].root)'
    BY <2>1, <2>2 DEF Below
  <2>5. \A t \in Tasks : Uncancelled(t)' /\ Below(t, op[x].root)' => t \in op'[x].todo
    BY <1>0, <2>1, <2>2, <2>3 DEF Below, Uncancelled
  <2> QED
    BY <2>1, <2>2, <2>4, <2>5, WalkKept DEF WalkSound
<1>7. ASSUME NEW t \in Tasks, WalkMark(x, t) PROVE WalkSound(x)'
  <2>1. op[x].kind = "walk" /\ op[x].stage = "walk" /\ t \in op[x].todo
    BY <1>7, MarkedBy
  <2>2. CASE /\ Marked(t)
             /\ op' = [op EXCEPT ![x] = [op[x] EXCEPT !.stage = "walkWake",
                                                      !.todo = @ \ {t}, !.last = t]]
    <3>1. op'[x].root = op[x].root /\ op'[x].todo = op[x].todo \ {t}
      BY <1>0, <2>1, <2>2 DEF WalkOp
    <3>2. ~Uncancelled(t)'
      BY <2>2, TaskTypes DEF Marked, Uncancelled
    <3> QED
      BY <1>a, <2>1, <3>1, <3>2 DEF Walking
  <2>3. CASE /\ ~Markable(t)
             /\ UNCHANGED <<taskVars, scopeVars, queue, pc, woken, deadline, running>>
             /\ op' = [op EXCEPT ![x] = [op[x] EXCEPT !.todo = @ \ {t}]]
    <3>1. op'[x].root = op[x].root /\ op'[x].todo = op[x].todo \ {t}
      BY <1>0, <2>1, <2>3 DEF WalkOp
    <3>2. published[t] => state[t] \in Terminal
      BY DEF IInv, Lifecycle
    <3>3. ~Uncancelled(t)'
      BY <2>3, <3>2 DEF Markable, Uncancelled, Live, taskVars
    <3> QED
      BY <1>a, <2>1, <3>1, <3>3 DEF Walking
  <2> QED
    BY <1>7, <2>2, <2>3, MarkedBy
<1>8. ASSUME NEW r \in BOOLEAN, ScopeRequestCancel(x, r) PROVE WalkSound(x)'
  <2>1. op'[x] = Walk("walk", NoTask, "OwnerRequest", inScope, r)
    BY <1>0, <1>8 DEF ScopeRequestCancel, SetOp
  <2>2. scopeCancelled' /\ UNCHANGED inScope
    BY <1>8 DEF ScopeRequestCancel
  <2>3. op'[x].root = NoTask /\ op'[x].todo = inScope
    BY <2>1 DEF Walk
  <2> QED
    BY <1>0, <2>2, <2>3 DEF WalkSound, Below, Uncancelled
<1>9. ASSUME x \in Workers, Finish(x) PROVE WalkSound(x)'
  <2>0. op[x] = NoOp /\ NoOp.kind = "none"
    BY <1>9 DEF Finish, IInv, Calls, CallOK, NoOp
  <2>1. Ends(x) /\ FinalStep(x) = "Cancelled"
    BY <1>9, <2>0, FinishCases DEF Ends, Requeues, Idles
  <2> DEFINE t == running[x]
             o == Walk("scope", t, IF cause[t] = "None" THEN "OwnerRequest" ELSE cause[t],
                       {}, FALSE)
  <2>2. t \in Tasks /\ state'[t] = "Cancelled"
    BY <1>9, <2>1, Held, TaskTypes DEF Ends, Finish, Executing
  <2>3. op'[x] = o
    BY <1>0, <2>1 DEF Ends
  <2>4. o.root = t /\ o.todo = {} /\ o.stage = "scope"
    BY DEF Walk
  <2> HIDE DEF o, t
  <2> QED
    BY <1>b, <2>2, <2>3, <2>4 DEF Walking
<1>10. ASSUME NEW d \in Deadlines, DeadlineSelect(x, d) PROVE FALSE
  <2>1. op'[x] = Walk("mark", deadline[d].task, "DeadlineExpired", {}, FALSE)
    BY <1>0, <1>10 DEF DeadlineSelect, SetOp
  <2>2. op'[x].stage = "mark"
    BY <2>1 DEF Walk
  <2> QED
    BY <2>2
<1>11. ASSUME WalkUnlock(x) PROVE FALSE
  <2>1. op'[x] \in {NoOp, Join(NoTask, FALSE)}
    BY <1>0, <1>11 DEF WalkUnlock, SetOp
  <2> QED
    BY <2>1 DEF NoOp, Join
<1> QED
  BY <1>1, <1>2, <1>3, <1>4, <1>5, <1>6, <1>7, <1>8, <1>9, <1>10, <1>11, WalkSteps

\* How a task comes to end cancelled.
LEMMA NewlyEnded ==
    ASSUME IInv, [Next]_vars, NEW a \in Tasks, state[a] # "Cancelled", state'[a] = "Cancelled"
    PROVE  \E w \in Workers : /\ Finish(w) /\ Ends(w) /\ FinalStep(w) = "Cancelled"
                              /\ running[w] = a
<1>1. ASSUME NEW t \in Tasks, Woke(t) PROVE FALSE
  <2>1. state[t] # "None" /\ WakeTask(t)
    BY <1>1 DEF Woke
  <2> QED
    BY <2>1, WakeEffect
<1>2. ASSUME NEW t \in Tasks, NEW e \in Executors, NEW q \in Tasks \cup {NoTask},
             NewTask(t, e, q)
      PROVE  FALSE
  BY <1>2, TaskTypes DEF NewTask, Insert, Enqueue
<1>3. ASSUME NEW t \in Tasks, Marked(t) PROVE FALSE
  BY <1>3 DEF Marked
<1>4. ASSUME NEW w \in Workers, Publish(w) \/ Detach(w) \/ \E e \in Executors : Rebind(w, e)
      PROVE  FALSE
  BY <1>4 DEF Publish, Detach, Rebind, taskVars
<1>5. ASSUME NEW w \in Workers, Dequeue(w) PROVE FALSE
  BY <1>5, TaskTypes DEF Dequeue
<1>6. ASSUME NEW w \in Workers, Finish(w)
      PROVE  Ends(w) /\ FinalStep(w) = "Cancelled" /\ running[w] = a
  <2>1. running[w] \in Tasks
    BY <1>6, Held DEF Finish, Executing
  <2>2. ~(Requeues(w) \/ Idles(w))
    BY <2>1, TaskTypes DEF Requeues, Idles
  <2>3. Ends(w)
    BY <1>6, <2>2, FinishCases
  <2> QED
    BY <2>1, <2>3, TaskTypes DEF Ends
<1>7. ASSUME Quiet PROVE FALSE
  BY <1>7 DEF Quiet
<1> QED
  BY <1>1, <1>2, <1>3, <1>4, <1>5, <1>6, <1>7, TaskSteps

\* A worker that has a walk to do before it publishes stays where it is.
LEMMA PublishKept ==
    ASSUME IInv, [Next]_vars, NEW w \in Workers, pc[w] = "publish", op[w] # NoOp
    PROVE  pc'[w] = "publish" /\ running'[w] = running[w]
<1> DEFINE Goal == pc'[w] = "publish" /\ running'[w] = running[w]
<1>0. w \in Threads /\ (SameStage(w) => pc'[w] = "publish")
  BY DEF Threads, SameStage, Stages, Executing
<1>1. ASSUME NEW t \in Tasks, Woke(t) PROVE Goal
  <2>1. state[t] # "None" /\ WakeTask(t) /\ UNCHANGED running
    BY <1>1 DEF Woke
  <2>2. UNCHANGED pc \/ \E e : pc' = NotifyWorkers(e, pc)
    BY <2>1, WakeEffect
  <2> QED
    BY <1>0, <2>1, <2>2, Stays
<1>2. ASSUME NEW t \in Tasks, NEW e \in Executors, NEW q \in Tasks \cup {NoTask},
             NewTask(t, e, q)
      PROVE  Goal
  BY <1>0, <1>2, Stays DEF NewTask, Insert
<1>3. ASSUME NEW t \in Tasks, Marked(t) PROVE Goal
  BY <1>3 DEF Marked
<1>4. ASSUME NEW v \in Workers, Dequeue(v) PROVE Goal
  <2>1. v # w
    BY <1>4 DEF Dequeue
  <2> QED
    BY <1>4, <2>1, TaskTypes, <1>0 DEF Dequeue
<1>5. ASSUME NEW v \in Workers, NEW e \in Executors, Rebind(v, e) PROVE Goal
  <2>1. v # w
    BY <1>5 DEF Rebind
  <2> QED
    BY <1>0, <1>5, <2>1, TaskTypes DEF Rebind
<1>6. ASSUME NEW v \in Workers, Finish(v) PROVE Goal
  <2>1. v # w
    BY <1>6 DEF Finish
  <2>2. Still(w)
    BY <1>0, <1>6, <2>1, WorkerMoves, FinishCases
  <2>3. running'[w] = running[w]
    BY <1>6, <2>1, FinishCases, TaskTypes DEF Ends, Requeues, Idles
  <2> QED
    BY <2>2, <2>3 DEF Still
<1>7. ASSUME NEW v \in Workers, Publish(v) PROVE Goal
  <2>1. v # w
    BY <1>7 DEF Publish
  <2> QED
    BY <1>0, <1>7, <2>1, TaskTypes DEF Publish
<1>8. ASSUME NEW v \in Workers, Detach(v) PROVE Goal
  <2>1. v # w
    BY <1>8 DEF Detach
  <2> QED
    BY <1>0, <1>8, <2>1, TaskTypes DEF Detach
<1>9. ASSUME Quiet PROVE Goal
  BY <1>0, <1>9 DEF Quiet
<1> QED
  BY <1>1, <1>2, <1>3, <1>4, <1>5, <1>6, <1>7, <1>8, <1>9, TaskSteps

\* A walk goes on until it has visited everybody, or finds that its root is gone.
LEMMA VisitKept ==
    ASSUME IInv, [Next]_vars, NEW x \in Threads, NEW b, Visiting(x, b)
    PROVE  \/ Visiting(x, b)'
           \/ WalkScope(x) /\ b \in Tasks /\ state[b] # "None" /\ published[b]
           \/ WalkUnlock(x) /\ Walking(x) /\ op[x].todo = {}
<1>0. /\ op \in [Threads -> Op] /\ op[x].kind = "walk" /\ op[x].root = b
      /\ op[x].stage # "mark" /\ op[x] \in WalkOp
  BY TaskTypes, OpKinds DEF Visiting
<1>1. ASSUME op'[x] = op[x] PROVE Visiting(x, b)'
  BY <1>0, <1>1 DEF Visiting
<1>2. ASSUME NEW t \in Tasks, RequestCancel(x, t) PROVE FALSE
  BY <1>0, <1>2 DEF RequestCancel, Free, NoOp
<1>3. ASSUME NEW t \in Tasks, WalkMark(x, t) PROVE Visiting(x, b)'
  <2>1. \/ op'[x] = [op[x] EXCEPT !.stage = "walkWake", !.todo = @ \ {t}, !.last = t]
        \/ op'[x] = [op[x] EXCEPT !.todo = @ \ {t}]
    BY <1>0, <1>3 DEF WalkMark, SetOp
  <2> QED
    BY <1>0, <2>1 DEF WalkOp, Visiting
<1>4. ASSUME DeadlineExpire(x) PROVE FALSE
  BY <1>0, <1>4 DEF DeadlineExpire
<1>5. ASSUME WalkWake(x) PROVE Visiting(x, b)'
  <2>1. op'[x] = [op[x] EXCEPT !.stage = IF @ = "wake" THEN "scope" ELSE "walk",
                               !.last = op[x].root]
    BY <1>0, <1>5 DEF WalkWake, SetOp
  <2> QED
    BY <1>0, <2>1 DEF WalkOp, Visiting
<1>6. ASSUME WalkScope(x)
      PROVE  Visiting(x, b)' \/ (b \in Tasks /\ state[b] # "None" /\ published[b])
  <2>1. b \in Tasks /\ state[b] # "None"
    BY <1>0, <1>6 DEF WalkScope, IInv, Calls, CallOK
  <2>2. b \notin inScope => published[b]
    BY <2>1 DEF IInv, Lifecycle
  <2>3. ~published[b] /\ b \in inScope => op'[x] = [op[x] EXCEPT !.stage = "lock"]
    BY <1>0, <1>6 DEF WalkScope, SetOp
  <2>4. op'[x] = [op[x] EXCEPT !.stage = "lock"] => Visiting(x, b)'
    BY <1>0 DEF WalkOp, Visiting
  <2> QED
    BY <2>1, <2>2, <2>3, <2>4
<1>7. ASSUME WalkLock(x) PROVE Visiting(x, b)'
  <2>1. op'[x] = [op[x] EXCEPT !.stage = "walk",
                               !.todo = {t \in inScope : Descends(t, op[x].root)}]
    BY <1>0, <1>7 DEF WalkLock, SetOp
  <2> QED
    BY <1>0, <2>1 DEF WalkOp, Visiting
<1>8. ASSUME WalkUnlock(x) PROVE Walking(x) /\ op[x].todo = {}
  BY <1>8 DEF WalkUnlock, Walking
<1>9. ASSUME NEW r \in BOOLEAN, ScopeRequestCancel(x, r) PROVE FALSE
  BY <1>0, <1>9 DEF ScopeRequestCancel, Free, NoOp
<1>10. ASSUME x \in Workers, Finish(x) PROVE FALSE
  <2>1. op[x] = NoOp
    BY <1>10 DEF Finish, IInv, Calls, CallOK
  <2> QED
    BY <1>0, <2>1 DEF NoOp
<1>11. ASSUME NEW d \in Deadlines, DeadlineSelect(x, d) PROVE FALSE
  BY <1>0, <1>11 DEF DeadlineSelect, NoOp
<1> QED
  BY <1>0, <1>1, <1>2, <1>3, <1>4, <1>5, <1>6, <1>7, <1>8, <1>9, <1>10, <1>11, WalkSteps

\* A walk does not end while there is a task below its root that it has not reached.
LEMMA VisitGoesOn ==
    ASSUME IInv, [Next]_vars, NEW t \in Tasks, Uncancelled(t), NEW x \in Threads,
           NEW b \in ancestors[t] \cup {NoTask}, Visiting(x, b)
    PROVE  Visiting(x, b)'
<1>0. /\ WalkSound(x) /\ op[x].kind = "walk" /\ op[x].stage # "mark" /\ op[x].root = b
      /\ Below(t, b)
  BY DEF IInv, Walks, Visiting, Below
<1>1. ASSUME Walking(x), op[x].todo = {} PROVE FALSE
  BY <1>0, <1>1 DEF WalkSound
<1>2. ASSUME b \in Tasks, state[b] # "None", published[b] PROVE FALSE
  <2>1. state[b] \in Terminal /\ (cancelled[b] \/ state[b] = "Cancelled")
    BY <1>0, <1>2 DEF IInv, Lifecycle, WalkSound
  <2>2. state[b] = "Cancelled"
    BY <1>2, <2>1 DEF IInv, CancellationWins, Terminal
  <2>3. b \in ancestors[t]
    BY <1>2, SchedulerAssumption
  <2>4. \E w \in Workers : running[w] = b /\ pc[w] = "publish"
    BY <2>2, <2>3 DEF IInv, Reached
  <2> QED
    BY <1>2, <2>4, Held
<1> QED
  BY <1>1, <1>2, VisitKept

\* Cancellation has reached everybody below a cancelled task or in a cancelled scope, or a
\* walk is on its way.
LEMMA ReachedInductive ==
    ASSUME IInv, [Next]_vars
    PROVE  Reached'
<1>0. /\ Reached /\ NoTask \notin Tasks /\ ancestors \in [Tasks -> SUBSET Tasks]
      /\ \A t \in inScope : t \in Tasks /\ state[t] # "None"
  BY TaskTypes, SchedulerAssumption DEF IInv, Lifecycle
\* The worker that ends a cancelled task goes on with its walk.
<1>a. ASSUME NEW t \in Tasks, Uncancelled(t), NEW a \in ancestors[t], state[a] = "Cancelled"
      PROVE  \E w \in Workers : Visiting(w, a)' /\ running'[w] = a /\ pc'[w] = "publish"
  <2>1. PICK w \in Workers : Visiting(w, a) /\ running[w] = a /\ pc[w] = "publish"
    BY <1>0, <1>a DEF Reached
  <2>2. op[w] # NoOp /\ w \in Threads
    BY <2>1 DEF Visiting, NoOp, Threads
  <2>3. Visiting(w, a)'
    BY <1>a, <2>1, <2>2, VisitGoesOn
  <2> QED
    BY <2>1, <2>2, <2>3, PublishKept
\* A task created in this step has a parent that cancellation has not reached.
<1>n. ASSUME NEW t \in Tasks, Uncancelled(t)', t \notin inScope
      PROVE  /\ UNCHANGED scopeCancelled /\ ~scopeCancelled
             /\ \/ ancestors'[t] = {}
                \/ \E q \in Tasks : /\ Uncancelled(q) /\ ancestors'[t] = ancestors[q] \cup {q}
                                    /\ state[q] = "Running"
             /\ \A a \in Tasks \ {t} : state'[a] = state[a] /\ (cancelled'[a] <=> cancelled[a])
             /\ \A u \in Tasks : t \notin ancestors[u]
  <2>1. PICK e \in Executors, q \in Tasks \cup {NoTask} : NewTask(t, e, q)
    BY <1>n, ScopeShut DEF Uncancelled
  <2>2. ~cancelled'[t]
    BY <1>n DEF Uncancelled
  <2>3. ~Inherits(q)
    BY <2>1, <2>2, TaskTypes DEF NewTask, Insert
  <2>4. /\ UNCHANGED <<scopeCancelled, cancelled>> /\ state[t] = "None"
        /\ state' = [state EXCEPT ![t] = "Queued"]
        /\ ancestors' = [ancestors EXCEPT ![t] =
                            IF q = NoTask THEN {} ELSE ancestors[q] \cup {q}]
        /\ q # NoTask => state[q] = "Running" /\ q \in inScope
    BY <2>1, <2>3 DEF NewTask, Insert, Enqueue
  <2>5. q # NoTask => Uncancelled(q)
    BY <2>3, <2>4 DEF Inherits, Uncancelled, Live, Terminal
  <2>6. \A u \in Tasks : t \notin ancestors[u]
    BY <2>4 DEF IInv, Lifecycle
  <2>7. ~scopeCancelled
    BY <2>3 DEF Inherits
  <2> QED
    BY <1>0, <2>4, <2>5, <2>6, <2>7, TaskTypes
<1>1. ASSUME NEW t \in Tasks, Uncancelled(t)', scopeCancelled'
      PROVE  \E x \in Threads : Visiting(x, NoTask)'
  <2>1. CASE t \notin inScope
    BY <1>1, <1>n, <2>1
  <2>2. CASE t \in inScope /\ scopeCancelled
    <3>1. Uncancelled(t)
      BY <1>1, <2>2, Unreached
    <3>2. PICK x \in Threads : Visiting(x, NoTask)
      BY <1>0, <2>2, <3>1 DEF Reached
    <3> QED
      BY <3>1, <3>2, VisitGoesOn
  <2>3. CASE ~scopeCancelled
    <3>1. PICK x \in Threads, r \in BOOLEAN : ScopeRequestCancel(x, r)
      BY <1>1, <2>3, RequestsKept
    <3>2. op'[x] = Walk("walk", NoTask, "OwnerRequest", inScope, r)
      BY <3>1, TaskTypes DEF ScopeRequestCancel, SetOp
    <3> QED
      BY <3>2 DEF Walk, Visiting
  <2> QED
    BY <2>1, <2>2, <2>3
<1>2. ASSUME NEW t \in Tasks, Uncancelled(t)', NEW a \in ancestors'[t], cancelled'[a]
      PROVE  \E x \in Threads : \E b \in ancestors'[t] \cup {NoTask} : Visiting(x, b)'
  <2>1. CASE t \notin inScope
    <3>1. PICK q \in Tasks : Uncancelled(q) /\ ancestors'[t] = ancestors[q] \cup {q}
      BY <1>2, <1>n, <2>1
    <3>2. a \in Tasks /\ a # t
      BY <1>0, <1>2, <1>n, <2>1, <3>1 DEF Uncancelled
    <3>3. cancelled[a]
      BY <1>2, <1>n, <2>1, <3>2
    <3>4. a \in ancestors[q]
      BY <3>1, <3>3 DEF Uncancelled
    <3>5. PICK x \in Threads, b \in ancestors[q] \cup {NoTask} : Visiting(x, b)
      BY <1>0, <3>1, <3>3, <3>4 DEF Reached
    <3>6. Visiting(x, b)'
      BY <3>1, <3>5, VisitGoesOn
    <3> QED
      BY <3>1, <3>6
  <2>2. CASE t \in inScope
    <3>1. Uncancelled(t) /\ ancestors'[t] = ancestors[t] /\ a \in Tasks
      BY <1>0, <1>2, <2>2, Unreached
    <3>2. CASE cancelled[a]
      <4>1. PICK x \in Threads, b \in ancestors[t] \cup {NoTask} : Visiting(x, b)
        BY <1>0, <1>2, <3>1, <3>2 DEF Reached
      <4> QED
        BY <3>1, <4>1, VisitGoesOn
    <3>3. CASE ~cancelled[a]
      <4>1. ASSUME NEW e \in Executors, NEW q \in Tasks \cup {NoTask}, NewTask(a, e, q)
            PROVE  FALSE
        BY <1>2, <3>1, <4>1 DEF NewTask, IInv, Lifecycle
      <4>2. ASSUME NEW x \in Threads, WalkMark(x, a)
            PROVE  \E b \in ancestors[t] \cup {NoTask} : Visiting(x, b)'
        <5>1. /\ op[x].kind = "walk" /\ op[x].stage = "walk" /\ a \in op[x].todo
          BY <3>1, <4>2, MarkedBy
        <5>2. Below(a, op[x].root)
          BY <5>1 DEF IInv, Walks, WalkSound
        <5>3. op[x].root \in ancestors[t] \cup {NoTask}
          BY <1>2, <3>1, <5>2 DEF Below, IInv, Lifecycle
        <5>4. Visiting(x, op[x].root)
          BY <5>1 DEF Visiting
        <5>5. PICK b \in ancestors[t] \cup {NoTask} : Visiting(x, b)
          BY <5>3, <5>4
        <5>6. Visiting(x, b)'
          BY <3>1, <5>5, VisitGoesOn
        <5> QED
          BY <5>5, <5>6
      <4> QED
        BY <1>2, <3>1, <3>3, <4>1, <4>2, NewlyCancelled
    <3> QED
      BY <3>2, <3>3
  <2> QED
    BY <2>1, <2>2
<1>3. ASSUME NEW t \in Tasks, Uncancelled(t)', NEW a \in ancestors'[t],
             state'[a] = "Cancelled"
      PROVE  \E w \in Workers : Visiting(w, a)' /\ running'[w] = a /\ pc'[w] = "publish"
  <2>1. CASE t \notin inScope
    <3>1. PICK q \in Tasks : /\ Uncancelled(q) /\ ancestors'[t] = ancestors[q] \cup {q}
                             /\ state[q] = "Running"
      BY <1>3, <1>n, <2>1
    <3>2. a \in Tasks /\ a # t
      BY <1>0, <1>3, <1>n, <2>1, <3>1 DEF Uncancelled
    <3>3. state[a] = "Cancelled"
      BY <1>3, <1>n, <2>1, <3>2
    <3>4. a \in ancestors[q]
      BY <1>3, <3>1, <3>3
    <3> QED
      BY <1>a, <3>1, <3>3, <3>4
  <2>2. CASE t \in inScope
    <3>1. Uncancelled(t) /\ ancestors'[t] = ancestors[t] /\ a \in Tasks
      BY <1>0, <1>3, <2>2, Unreached
    <3>2. CASE state[a] = "Cancelled"
      BY <1>3, <1>a, <3>1, <3>2
    <3>3. CASE state[a] # "Cancelled"
      <4>1. PICK w \in Workers : /\ Finish(w) /\ Ends(w) /\ FinalStep(w) = "Cancelled"
                                 /\ running[w] = a
        BY <1>3, <3>1, <3>3, NewlyEnded
      <4>2. pc'[w] = "publish" /\ w \in Threads
        BY <4>1, WorkerMoves DEF Threads
      <4> DEFINE why == IF cause[running[w]] = "None" THEN "OwnerRequest"
                                                      ELSE cause[running[w]]
      <4>3. op'[w] = Walk("scope", running[w], why, {}, FALSE)
        BY <4>1, <4>2, TaskTypes DEF Ends
      <4> HIDE DEF why
      <4>4. Visiting(w, a)'
        BY <4>1, <4>3 DEF Walk, Visiting
      <4>5. running'[w] = a
        BY <4>1 DEF Ends
      <4> QED
        BY <4>2, <4>4, <4>5
    <3> QED
      BY <3>2, <3>3
  <2> QED
    BY <2>1, <2>2
<1> QED
  BY <1>1, <1>2, <1>3 DEF Reached

\* Only next_task_run lets a task go idle, and only one that nobody cancelled.
LEMMA NewlyIdle ==
    ASSUME IInv, [Next]_vars, NEW t \in Tasks, state[t] # "Idle", state'[t] = "Idle"
    PROVE  ~cancelled'[t]
<1>1. ASSUME NEW u \in Tasks, Woke(u) PROVE FALSE
  BY <1>1, WakeEffect DEF Woke
<1>2. ASSUME NEW u \in Tasks, NEW e \in Executors, NEW q \in Tasks \cup {NoTask},
             NewTask(u, e, q)
      PROVE  FALSE
  BY <1>2, TaskTypes DEF NewTask, Insert, Enqueue
<1>3. ASSUME UNCHANGED state PROVE FALSE
  BY <1>3
<1>4. ASSUME NEW w \in Workers, Dequeue(w) PROVE FALSE
  BY <1>4, HeadQueued, TaskTypes DEF Dequeue
<1>5. ASSUME NEW w \in Workers, Finish(w) PROVE ~cancelled'[t]
  <2>0. running[w] \in Tasks /\ UNCHANGED cancelled
    BY <1>5, Held, FinishCases DEF Executing
  <2>1. ASSUME Ends(w) PROVE FALSE
    BY <2>0, <2>1, TaskTypes DEF Ends, Terminal
  <2>2. ASSUME Requeues(w) PROVE FALSE
    BY <2>0, <2>2, TaskTypes DEF Requeues
  <2>3. ASSUME Idles(w) PROVE ~cancelled'[t]
    <3>1. t = running[w]
      BY <2>0, <2>3, TaskTypes DEF Idles
    <3> QED
      BY <2>0, <2>3, <3>1 DEF Idles, RunAgain
  <2> QED
    BY <1>5, <2>1, <2>2, <2>3, FinishCases
<1> QED
  BY <1>1, <1>2, <1>3, <1>4, <1>5, TaskSteps
     DEF Marked, Rebind, Publish, Detach, Quiet, taskVars

\* A marked idle task is woken: the walk that marked it does nothing before.
LEMMA CancelledIsWokenInductive ==
    ASSUME IInv, [Next]_vars
    PROVE  CancelledIsWoken'
<1> SUFFICES ASSUME NEW t \in Tasks, cancelled'[t], state'[t] = "Idle"
             PROVE  \E x \in Threads : WakesNext(x, t)
  BY DEF CancelledIsWoken, WakesNext
<1>1. CASE ~cancelled[t]
  <2>1. ASSUME NEW e \in Executors, NEW q \in Tasks \cup {NoTask}, NewTask(t, e, q)
        PROVE  FALSE
    BY <2>1, TaskTypes DEF NewTask, Insert, Enqueue
  <2>2. ASSUME NEW x \in Threads, WalkMark(x, t)
        PROVE  WakesNext(x, t)
    <3>1. op[x] \in WalkOp /\ op[x].todo \ {t} \in SUBSET Tasks
      BY <2>2, MarkedBy, OpKinds, TaskTypes DEF WalkOp
    <3>2. Marked(t) \/ UNCHANGED cancelled
      BY <2>2, MarkedBy DEF taskVars
    <3>3. op' = [op EXCEPT ![x] = [op[x] EXCEPT !.stage = "walkWake", !.todo = @ \ {t},
                                                !.last = t]]
      BY <1>1, <2>2, <3>2, MarkedBy DEF taskVars
    <3>4. op'[x] = [op[x] EXCEPT !.stage = "walkWake", !.todo = op[x].todo \ {t}, !.last = t]
      BY <3>3, TaskTypes
    <3>5. op'[x].kind = "walk" /\ op'[x].stage = "walkWake" /\ op'[x].last = t
      BY <3>1, <3>4 DEF WalkOp
    <3> QED
      BY <3>5 DEF WakesNext
  <2> QED
    BY <1>1, <2>1, <2>2, NewlyCancelled
<1>2. CASE cancelled[t] /\ state[t] = "Idle"
  <2>1. PICK x \in Threads : /\ op[x].kind = "walk" /\ op[x].last = t
                             /\ op[x].stage \in {"wake", "walkWake"}
    BY <1>2 DEF IInv, Wakes, CancelledIsWoken
  <2>2. NoOp.kind = "none" /\ (pc[x] = "finish" => op[x] = NoOp)
    BY DEF NoOp, IInv, Calls, CallOK
  <2>3. ASSUME WalkWake(x) PROVE FALSE
    BY <1>2, <2>1, <2>3, WakeEffect DEF WalkWake
  <2>4. op'[x] = op[x]
    BY <2>1, <2>2, <2>3, WalkSteps
       DEF RequestCancel, WalkMark, DeadlineExpire, WalkScope, WalkLock, WalkUnlock,
           ScopeRequestCancel, Finish, DeadlineSelect, Free
  <2> QED
    BY <2>1, <2>4 DEF WakesNext
<1>3. CASE state[t] # "Idle"
  BY <1>3, NewlyIdle
<1> QED
  BY <1>1, <1>2, <1>3

\* No wake is lost: an idle task is queued by it, a running one keeps the debt until
\* next_task_run pays it.
LEMMA NoLostWakeInductive ==
    ASSUME IInv, [Next]_vars
    PROVE  NoLostWake'
<1> DEFINE Kept(u) == woken'[u] => \/ state'[u] = "Queued"
                                   \/ state'[u] = "Running" /\ rerun'[u]
<1>0. /\ \A u \in Tasks : woken[u] => state[u] = "Queued" \/ (state[u] = "Running" /\ rerun[u])
      /\ \A u \in Tasks : state[u] = "None" => ~woken[u]
  BY DEF IInv, Wakes, NoLostWake, Lifecycle
<1>s. \A u \in Tasks : /\ state'[u] = state[u] /\ rerun'[u] = rerun[u] /\ woken'[u] = woken[u]
                       => Kept(u)
  BY <1>0
<1> SUFFICES ASSUME NEW u \in Tasks PROVE Kept(u)
  BY DEF NoLostWake
<1>1. ASSUME NEW t \in Tasks, Woke(t) PROVE Kept(u)
  <2>1. state[t] # "None" /\ WakeTask(t)
    BY <1>1 DEF Woke
  <2>2. u # t => Kept(u)
    BY <1>s, <2>1, WakeEffect
  <2>3. state[t] \in State
    BY TaskTypes
  <2>4. Kept(t)
    BY <2>1, <2>3, WakeEffect DEF State
  <2> QED
    BY <2>2, <2>4
<1>2. ASSUME NEW t \in Tasks, NEW e \in Executors, NEW q \in Tasks \cup {NoTask},
             NewTask(t, e, q)
      PROVE  Kept(u)
  <2>1. state' = [state EXCEPT ![t] = "Queued"] /\ woken' = [woken EXCEPT ![t] = TRUE]
        /\ rerun' = rerun
    BY <1>2 DEF NewTask, Insert, Enqueue
  <2> QED
    BY <1>s, <2>1, TaskTypes
<1>3. ASSUME UNCHANGED <<state, rerun, woken>> PROVE Kept(u)
  BY <1>3, <1>s
<1>4. ASSUME NEW w \in Workers, Dequeue(w) PROVE Kept(u)
  <2> DEFINE h == Head(queue[Home[w]])
  <2>1. h \in Tasks /\ state' = [state EXCEPT ![h] = "Running"]
        /\ woken' = [woken EXCEPT ![h] = FALSE] /\ rerun' = rerun
    BY <1>4, HeadQueued DEF Dequeue
  <2> HIDE DEF h
  <2> QED
    BY <1>s, <2>1, TaskTypes
<1>5. ASSUME NEW w \in Workers, Finish(w) PROVE Kept(u)
  <2> DEFINE t == running[w]
  <2>0. t \in Tasks /\ state[t] = "Running"
    BY <1>5, Held, FinishCases DEF Executing
  <2>1. CASE u # t
    <3>1. /\ state'[u] = state[u] /\ rerun'[u] = rerun[u] /\ woken'[u] = woken[u]
      <4>1. CASE Ends(w)
        BY <2>0, <2>1, <4>1, TaskTypes DEF Ends
      <4>2. CASE Requeues(w)
        BY <2>0, <2>1, <4>2, TaskTypes DEF Requeues
      <4>3. CASE Idles(w)
        BY <2>0, <2>1, <4>3, TaskTypes DEF Idles
      <4> QED
        BY <1>5, <4>1, <4>2, <4>3, FinishCases
    <3> QED
      BY <1>s, <3>1
  <2>2. CASE u = t
    <3>1. ASSUME Ends(w) PROVE Kept(t)
      BY <2>0, <3>1, TaskTypes DEF Ends
    <3>2. ASSUME Requeues(w) PROVE Kept(t)
      BY <2>0, <3>2, TaskTypes DEF Requeues
    <3>3. ASSUME Idles(w) PROVE Kept(t)
      <4>1. ~rerun[t] /\ woken'[t] = woken[t]
        BY <3>3 DEF Idles, RunAgain
      <4> QED
        BY <1>0, <2>0, <4>1
    <3> QED
      BY <1>5, <2>2, <3>1, <3>2, <3>3, FinishCases
  <2> QED
    BY <2>1, <2>2
<1> QED
  BY <1>1, <1>2, <1>3, <1>4, <1>5, TaskSteps
     DEF Marked, Rebind, Publish, Detach, Quiet, taskVars

\* A worker that sleeps was asleep, or has just found its queue empty.
LEMMA FallsAsleep ==
    ASSUME IInv, [Next]_vars, NEW w \in Workers, pc'[w] = "asleep"
    PROVE  pc[w] = "asleep" \/ Sleep(w)
<1>0. w \in Threads /\ pc \in [Threads -> Place]
  BY TaskTypes DEF Threads
<1>1. ASSUME NEW e, NEW p \in [Threads -> Place], pc' = NotifyWorkers(e, p) PROVE p[w] = "asleep"
  BY <1>0, <1>1, Notified
<1>2. ASSUME NEW x \in Threads, NEW to \in Place \ {"asleep"}, NEW p \in [Threads -> Place],
             p = [pc EXCEPT ![x] = to], p[w] = "asleep"
      PROVE  pc[w] = "asleep"
  BY <1>0, <1>2
<1>3. ASSUME NEW x \in Threads, NEW to \in Place, NEW p, p = [pc EXCEPT ![x] = to]
      PROVE  p \in [Threads -> Place]
  BY <1>0, <1>3
<1>4. ASSUME NEW t \in Tasks, Woke(t) PROVE pc[w] = "asleep"
  BY <1>0, <1>1, <1>4, WakeEffect DEF Woke
<1>5. ASSUME NEW x \in Threads, Inside(x) PROVE pc[w] = "asleep"
  <2>1. CASE WalkWake(x)
    <3>1. op[x].last \in Tasks /\ state[op[x].last] # "None"
      BY <2>1 DEF WalkWake, IInv, Calls, CallOK, Waking
    <3> QED
      BY <1>4, <2>1, <3>1 DEF WalkWake, Woke, scopeVars
  <2>2. CASE CreateChildInsert(x)
    <3>1. ASSUME NEW t, NEW e, NEW q, NewTask(t, e, q) PROVE pc[w] = "asleep"
      BY <1>0, <1>1, <3>1 DEF NewTask, Insert
    <3> QED
      BY <2>2, <3>1, CreateNew
  <2>3. CASE \/ WalkScope(x) \/ WalkLock(x) \/ WalkUnlock(x) \/ JoinWait(x) \/ DeadlineExpire(x)
             \/ \E t \in Tasks : WalkMark(x, t)
    BY <2>3 DEF WalkScope, WalkLock, WalkUnlock, JoinWait, DeadlineExpire, WalkMark
  <2> QED
    BY <1>5, <2>1, <2>2, <2>3 DEF Inside
<1>6. ASSUME NEW x \in Threads, Call(x) PROVE pc[w] = "asleep"
  <2>1. ASSUME NEW t \in Tasks, Wake(x, t) PROVE pc[w] = "asleep"
    BY <1>4, <2>1 DEF Wake, Woke, scopeVars
  <2>2. ASSUME NEW t \in Tasks, Create(x, t) PROVE pc[w] = "asleep"
    BY <1>0, <1>1, <2>2 DEF Create, Insert
  <2>3. ASSUME NEW d \in Deadlines, DeadlineRelease(x, d) PROVE pc[w] = "asleep"
    BY <1>0, <1>1, <2>3 DEF DeadlineRelease
  <2>4. ASSUME NEW r \in BOOLEAN, ScopeRequestCancel(x, r) PROVE pc[w] = "asleep"
    BY <1>0, <2>4 DEF ScopeRequestCancel
  <2>5. ASSUME NEW t \in Tasks,
               RequestCancel(x, t) \/ TaskJoin(x, t) \/ \E p \in Tasks : CreateChild(x, p, t)
        PROVE  pc[w] = "asleep"
    BY <2>5 DEF RequestCancel, TaskJoin, CreateChild
  <2> QED
    BY <1>6, <2>1, <2>2, <2>3, <2>4, <2>5 DEF Call
<1>7. ASSUME NEW v \in Workers, Work(v), ~Sleep(w) PROVE pc[w] = "asleep"
  <2>0. v \in Threads
    BY DEF Threads
  <2>1. CASE Dequeue(v) \/ Publish(v) \/ Detach(v) \/ \E s \in Steps : Return(v, s)
    BY <1>0, <2>0, <2>1 DEF Dequeue, Publish, Detach, Return
  <2>2. CASE Sleep(v)
    BY <1>0, <1>7, <2>0, <2>2 DEF Sleep
  <2>3. CASE Finish(v) \/ Retire(v)
    <3>1. ASSUME NEW e, NEW f, NEW to \in {"publish", "loop", "detach"}, NEW p,
                 p = [pc EXCEPT ![v] = to],
                 pc' = NotifyWorkers(e, p) \/ pc' = NotifyWorkers(f, NotifyWorkers(e, p))
          PROVE  pc[w] = "asleep"
      <4>1. to \in Place \ {"asleep"}
        BY DEF Place, WorkerPlace, Ending
      <4>2. p \in [Threads -> Place] /\ NotifyWorkers(e, p) \in [Threads -> Place]
        BY <1>3, <2>0, <3>1, <4>1, Notified
      <4>3. NotifyWorkers(e, p)[w] = "asleep" => p[w] = "asleep"
        BY <1>0, <4>2, Notified
      <4>4. p[w] = "asleep"
        BY <1>1, <3>1, <4>2, <4>3
      <4> QED
        BY <1>2, <2>0, <3>1, <4>1, <4>2, <4>4
    <3>2. CASE Retire(v)
      BY <3>1, <3>2 DEF Retire
    <3>3. CASE Finish(v)
      <4>1. CASE Ends(v)
        BY <3>1, <4>1 DEF Ends
      <4>2. CASE Requeues(v)
        BY <3>1, <4>2 DEF Requeues
      <4>3. CASE Idles(v)
        BY <3>1, <4>3 DEF Idles
      <4> QED
        BY <3>3, <4>1, <4>2, <4>3, FinishCases
    <3> QED
      BY <2>3, <3>2, <3>3
  <2> QED
    BY <1>7, <2>1, <2>2, <2>3 DEF Work
<1>8. ASSUME NEW v \in Workers, Extra(v) PROVE pc[w] = "asleep"
  <2>0. v \in Threads
    BY DEF Threads
  <2>1. ASSUME NEW d \in Deadlines, DeadlineAfter(v, d) PROVE pc[w] = "asleep"
    BY <1>0, <1>1, <2>1 DEF DeadlineAfter
  <2> QED
    BY <1>0, <1>8, <2>0, <2>1 DEF Extra, Rebind, DeadlineSelect
<1>9. ASSUME UNCHANGED vars PROVE pc[w] = "asleep"
  BY <1>9 DEF vars, threadVars
<1> QED
  BY <1>5, <1>6, <1>7, <1>8, <1>9 DEF Next

\* Whoever appends to a queue wakes the workers of its executor.
LEMMA WorkersNotified ==
    ASSUME IInv, [Next]_vars, NEW w \in Workers, pc'[w] = "asleep"
    PROVE  queue'[Home[w]] = <<>>
<1>0. /\ w \in Threads /\ Home[w] \in Executors /\ pc \in [Threads -> Place]
      /\ queue \in [Executors -> Seq(Tasks)]
  BY TaskTypes, SchedulerAssumption DEF Threads
<1>1. CASE Sleep(w)
  BY <1>1 DEF Sleep
<1>2. CASE pc[w] = "asleep"
  <2>0. queue[Home[w]] = <<>>
    BY <1>2 DEF IInv, Wakes, SleepersHaveReason
  <2>q. ASSUME NEW e \in Executors, NEW s, NEW p \in [Threads -> Place],
               queue' = [queue EXCEPT ![e] = s], pc' = NotifyWorkers(e, p)
        PROVE  queue'[Home[w]] = <<>>
    BY <1>0, <2>0, <2>q, Notified
  <2>1. ASSUME NEW t \in Tasks, Woke(t) PROVE queue'[Home[w]] = <<>>
    <3>1. state[t] # "None" /\ WakeTask(t)
      BY <2>1 DEF Woke
    <3>2. CASE state[t] = "Idle"
      <4>1. PICK e \in Executors : /\ queue' = [queue EXCEPT ![e] = Append(@, t)]
                                   /\ pc' = NotifyWorkers(e, pc)
        BY <3>1, <3>2, WakeEffect
      <4>2. queue' = [queue EXCEPT ![e] = Append(queue[e], t)]
        BY <4>1
      <4> QED
        BY <1>0, <2>q, <4>1, <4>2
    <3>3. CASE state[t] # "Idle"
      BY <2>0, <3>1, <3>3, WakeEffect
    <3> QED
      BY <3>2, <3>3
  <2>2. ASSUME NEW t \in Tasks, NEW e \in Executors, NEW q \in Tasks \cup {NoTask},
               NewTask(t, e, q)
        PROVE  queue'[Home[w]] = <<>>
    BY <1>0, <2>2, <2>q DEF NewTask, Insert, Enqueue
  <2>3. ASSUME UNCHANGED queue PROVE queue'[Home[w]] = <<>>
    BY <2>0, <2>3
  <2>4. ASSUME NEW v \in Workers, Dequeue(v) PROVE queue'[Home[w]] = <<>>
    BY <1>0, <2>0, <2>4, HeadQueued DEF Dequeue
  <2>5. ASSUME NEW v \in Workers, Finish(v) PROVE queue'[Home[w]] = <<>>
    <3>1. executor[running[v]] \in Executors
      BY <2>5, Held, FinishCases DEF Executing
    <3>2. CASE Requeues(v)
      <4> DEFINE p == [pc EXCEPT ![v] = "loop"]
      <4>1. p \in [Threads -> Place]
        BY <1>0 DEF Place, WorkerPlace
      <4>2. NotifyWorkers(Home[v], p) \in [Threads -> Place]
        BY <4>1, Notified
      <4>3. pc' = NotifyWorkers(executor[running[v]], NotifyWorkers(Home[v], p))
        BY <3>2 DEF Requeues
      <4> HIDE DEF p
      <4> QED
        BY <2>q, <3>1, <3>2, <4>2, <4>3 DEF Requeues
    <3>3. CASE Ends(v) \/ Idles(v)
      BY <2>3, <3>3 DEF Ends, Idles
    <3> QED
      BY <2>5, <3>2, <3>3, FinishCases
  <2> QED
    BY <2>1, <2>2, <2>3, <2>4, <2>5, TaskSteps
       DEF Marked, Rebind, Publish, Detach, Quiet
<1> QED
  BY <1>1, <1>2, FallsAsleep

\* A join that sleeps was asleep and is not woken, or has just found its reason to wait.
LEMMA JoinSleeps ==
    ASSUME IInv, [Next]_vars, NEW x \in Threads, op'[x].kind = "join", op'[x].asleep
    PROVE  op'[x] = op[x] \/ JoinWait(x)
<1>0. op \in [Threads -> Op]
  BY TaskTypes
<1>k. /\ NoOp.kind = "none" /\ \A t : ~Join(t, FALSE).asleep
      /\ \A p, e, t : Child(p, e, t).kind = "child" /\ \A f : Retiring(f).kind = "retire"
  BY DEF NoOp, Join, Child, Retiring
<1>w. (op[x].kind # "walk" /\ op'[x].kind # "walk") \/ WalkUnlock(x) \/ op'[x] = op[x]
  <2> SUFFICES ASSUME op[x].kind = "walk", ~WalkUnlock(x), op'[x] # op[x] PROVE FALSE
    OBVIOUS
  <2>1. op[x] \in WalkOp
    BY <1>0, OpKinds
  <2>2. ASSUME NEW t \in Tasks, WalkMark(x, t) PROVE FALSE
    BY <1>0, <2>1, <2>2 DEF WalkMark, SetOp, WalkOp
  <2>3. ASSUME DeadlineExpire(x) PROVE FALSE
    BY <1>0, <1>k, <2>3 DEF DeadlineExpire, CancelRoot, SetOp, Walk
  <2>4. ASSUME WalkWake(x) PROVE FALSE
    BY <1>0, <2>1, <2>4 DEF WalkWake, SetOp, WalkOp
  <2>5. ASSUME WalkScope(x) \/ WalkLock(x) PROVE FALSE
    BY <1>0, <1>k, <2>1, <2>5 DEF WalkScope, WalkLock, SetOp, WalkOp
  <2>6. op[x] # NoOp /\ pc[x] # "finish"
    BY <1>k DEF IInv, Calls, CallOK
  <2> QED
    BY <2>2, <2>3, <2>4, <2>5, <2>6, WalkSteps
       DEF RequestCancel, ScopeRequestCancel, Free, Finish, DeadlineSelect
<1>1. ASSUME WalkUnlock(x) PROVE FALSE
  BY <1>0, <1>1, <1>k DEF WalkUnlock, SetOp
<1>2. ASSUME CreateChildInsert(x) PROVE FALSE
  BY <1>0, <1>2, <1>k DEF CreateChildInsert, SetOp
<1>3. ASSUME NEW t \in Tasks, TaskJoin(x, t) \/ \E p \in Tasks : CreateChild(x, p, t) PROVE FALSE
  <2>1. op'[x] = Join(t, FALSE) \/ \E p, e : op'[x] = Child(p, e, t)
    BY <1>0, <1>3 DEF TaskJoin, CreateChild, SetOp
  <2> QED
    BY <1>k, <2>1
<1>4. ASSUME NEW t \in Tasks, Wake(x, t) \/ Create(x, t) PROVE op'[x] = op[x]
  BY <1>4 DEF Wake, Create
<1>5. ASSUME NEW d \in Deadlines, DeadlineRelease(x, d) \/ DeadlineAfter(x, d)
      PROVE  op'[x] = op[x]
  BY <1>5 DEF DeadlineRelease, DeadlineAfter
<1>6. ASSUME x \in Workers PROVE op'[x] = op[x]
  <2>1. Typed' /\ Calls'
    BY TypedInductive, CallsInductive
  <2> QED
    BY <1>6, <2>1, SchedulerAssumption DEF Calls, CallOK
<1>7. ASSUME SameCall(x) PROVE op'[x] = op[x]
  BY <1>7 DEF SameCall
<1>8. ASSUME Inside(x) PROVE op'[x] = op[x] \/ JoinWait(x)
  BY <1>1, <1>2, <1>8, <1>w DEF Inside, WalkWake, WalkScope, WalkLock, DeadlineExpire, WalkMark
<1>9. ASSUME Call(x) PROVE op'[x] = op[x]
  <2>1. ASSUME NEW t \in Tasks, RequestCancel(x, t) PROVE FALSE
    BY <1>0, <2>1 DEF RequestCancel, CancelRoot, SetOp, Walk
  <2>2. ASSUME NEW r \in BOOLEAN, ScopeRequestCancel(x, r) PROVE FALSE
    BY <1>0, <2>2 DEF ScopeRequestCancel, SetOp, Walk
  <2> QED
    BY <1>3, <1>4, <1>5, <1>9, <2>1, <2>2 DEF Call
<1> QED
  BY <1>6, <1>7, <1>8, <1>9, OpSteps

\* Whoever ends what a join waits for wakes the join.
LEMMA JoinersWoken ==
    ASSUME IInv, [Next]_vars, NEW x \in Threads, op'[x].kind = "join", op'[x].asleep
    PROVE  ~Joined(op[x].task)' /\ op'[x].task = op[x].task
<1>0. op \in [Threads -> Op] /\ op[x].kind = "join" => op[x] \in JoinOp
  BY TaskTypes, OpKinds
<1>1. CASE JoinWait(x)
  <2>1. op[x] \in JoinOp /\ op \in [Threads -> Op]
    BY <1>0, <1>1, TaskTypes DEF JoinWait
  <2>2. ~Joined(op[x].task) /\ op'[x] = Join(op[x].task, TRUE)
    BY <1>1, <2>1 DEF JoinWait, SetOp, NoOp
  <2>3. UNCHANGED <<published, inScope>>
    BY <1>1 DEF JoinWait, taskVars, scopeVars
  <2> QED
    BY <2>2, <2>3 DEF Joined, Join
<1>2. CASE op'[x] = op[x]
  <2> DEFINE t == op[x].task
  <2>1. ~Joined(t) /\ t \in Tasks \cup {NoTask} /\ op[x].kind = "join" /\ op[x].asleep
    BY <1>0, <1>2, TaskTypes, OpKinds DEF IInv, Wakes, SleepersHaveReason, JoinOp
  <2>j. ASSUME NEW u \in Tasks \cup {NoTask}, NEW o \in [Threads -> Op],
               op' = NotifyJoiners(u, o), o[x] = op[x]
        PROVE  t # u
    <3>1. o[x].kind = "join" /\ o[x].task = u => op'[x] = Join(u, FALSE)
      BY <2>j DEF NotifyJoiners
    <3>2. ~Join(u, FALSE).asleep
      BY DEF Join
    <3> QED
      BY <1>2, <2>1, <2>j, <3>1, <3>2
  <2>2. ASSUME t \in Tasks, published'[t] PROVE FALSE
    <3>1. ~published[t] /\ t # NoTask
      BY <2>1, <2>2, SchedulerAssumption DEF Joined
    <3>2. ASSUME NEW w \in Workers, Publish(w) PROVE FALSE
      <4> DEFINE o == [op EXCEPT ![w] = Retiring(executor[running[w]])]
      <4>1. /\ running[w] \in Tasks /\ executor[running[w]] \in Executors /\ w \in Threads
            /\ op[w] = NoOp
        BY <3>2, Held DEF Publish, Ending, Threads
      <4>2. t = running[w]
        BY <2>2, <3>1, <3>2, <4>1, TaskTypes DEF Publish
      <4>3. o \in [Threads -> Op]
        BY <4>1, TaskTypes, OpMade DEF Op
      <4>4. w # x
        BY <2>1, <4>1 DEF NoOp
      <4>5. o[x] = op[x] /\ op' = NotifyJoiners(running[w], o)
        BY <3>2, <4>4, TaskTypes DEF Publish
      <4> HIDE DEF o
      <4> QED
        BY <2>j, <4>1, <4>2, <4>3, <4>5
    <3>3. published' = published
      <4>1. ASSUME NEW w \in Workers, Finish(w) PROVE published' = published
        BY <4>1, FinishCases
      <4> QED
        BY <3>2, <4>1, TaskSteps
           DEF Woke, NewTask, Marked, Rebind, Dequeue, Detach, Quiet, taskVars
    <3> QED
      BY <2>2, <3>1, <3>3
  <2>3. ASSUME t = NoTask, inScope' = {} PROVE FALSE
    <3>1. inScope # {}
      BY <2>1, <2>3 DEF Joined
    <3>2. ASSUME NEW w \in Workers, Detach(w) PROVE FALSE
      BY <2>3, <2>j, <3>2, TaskTypes DEF Detach
    <3>3. inScope \subseteq inScope'
      <4>1. ASSUME NEW w \in Workers, Finish(w) PROVE inScope' = inScope
        BY <4>1, FinishCases DEF scopeVars
      <4> QED
        BY <3>2, <4>1, TaskSteps
           DEF Woke, NewTask, Insert, Marked, Rebind, Dequeue, Publish, Quiet, scopeVars
    <3> QED
      BY <2>3, <3>1, <3>3
  <2> QED
    BY <1>2, <2>1, <2>2, <2>3 DEF Joined
<1> QED
  BY <1>1, <1>2, JoinSleeps

\* No wake and no notification is lost.
LEMMA WakesInductive ==
    ASSUME IInv, [Next]_vars
    PROVE  Wakes'
<1>1. \A x \in Threads : op'[x].kind = "join" /\ op'[x].asleep => ~Joined(op[x].task)'
                                                               /\ op'[x].task = op[x].task
  BY JoinersWoken
<1>2. \A x \in Threads : (op[x].kind = "join" /\ op[x].asleep => ~Joined(op[x].task))'
  BY <1>1
<1>3. SleepersHaveReason'
  BY <1>2, WorkersNotified DEF SleepersHaveReason
<1> QED
  BY <1>3, NoLostWakeInductive, CancelledIsWokenInductive DEF Wakes

\* A queued task is at one place of one queue, and any other at none.
LEMMA OnePlace ==
    ASSUME IInv, NEW t \in Tasks
    PROVE  LET places == UNION {{<<e, i>> : i \in {j \in DOMAIN queue[e] : queue[e][j] = t}}
                                  : e \in Executors}
           IN  /\ Cardinality(places) = IF state[t] = "Queued" THEN 1 ELSE 0
               /\ \A p \in places : p[1] = executor[t]
<1> DEFINE places == UNION {{<<e, i>> : i \in {j \in DOMAIN queue[e] : queue[e][j] = t}}
                              : e \in Executors}
<1>0. \A p : p \in places <=>
        \E e \in Executors : \E i \in DOMAIN queue[e] : queue[e][i] = t /\ p = <<e, i>>
  OBVIOUS
<1> HIDE DEF places
<1>1. CASE state[t] = "Queued"
  <2>1. executor[t] \in Executors
    BY <1>1 DEF IInv, Lifecycle, Terminal
  <2>2. OnceIn(queue[executor[t]], t) /\ \A e \in Executors \ {executor[t]} : NotIn(queue[e], t)
    BY <1>1, <2>1 DEF IInv, Queues
  <2>3. PICK i \in DOMAIN queue[executor[t]] :
               /\ queue[executor[t]][i] = t
               /\ \A j \in DOMAIN queue[executor[t]] : queue[executor[t]][j] = t => j = i
    BY <2>2 DEF OnceIn
  <2>4. \A p : p \in places <=> p = <<executor[t], i>>
    BY <1>0, <2>1, <2>2, <2>3 DEF NotIn
  <2>5. places = {<<executor[t], i>>}
    BY <2>4
  <2>6. Cardinality(places) = 1
    BY <2>5, Sizes
  <2> QED
    BY <1>1, <2>5, <2>6 DEF places
<1>2. CASE state[t] # "Queued"
  <2>1. \A e \in Executors : NotIn(queue[e], t)
    BY <1>2 DEF IInv, Queues
  <2>2. \A p \in places : FALSE
    BY <1>0, <2>1 DEF NotIn
  <2>3. Cardinality(places) = 0
    BY <2>2, Sizes
  <2> QED
    BY <1>2, <2>2, <2>3 DEF places
<1> QED
  BY <1>1, <1>2

\* A running task is held by one worker, and any other by none.
LEMMA OneRunner ==
    ASSUME IInv, NEW t \in Tasks
    PROVE  Cardinality({w \in Workers : /\ running[w] = t
                                        /\ pc[w] \in {"resume", "rebound", "finish"}})
             = IF state[t] = "Running" THEN 1 ELSE 0
<1> DEFINE runners == {w \in Workers : /\ running[w] = t
                                       /\ pc[w] \in {"resume", "rebound", "finish"}}
<1>0. Crew
  BY DEF IInv
<1>1. CASE state[t] = "Running"
  <2>1. PICK w \in Workers : running[w] = t /\ pc[w] \in Executing
    BY <1>0, <1>1 DEF Crew
  <2>2. \A v \in Workers : running[v] = t /\ pc[v] \in Executing => v = w
    BY <1>0, <2>1 DEF Crew
  <2>3. runners = {w}
    BY <2>1, <2>2 DEF Executing
  <2> HIDE DEF runners
  <2>4. Cardinality(runners) = 1
    BY <2>3, Sizes
  <2> QED
    BY <1>1, <2>4 DEF runners
<1>2. CASE state[t] # "Running"
  <2>1. \A w \in runners : FALSE
    BY <1>0, <1>2 DEF Crew, Executing
  <2> HIDE DEF runners
  <2>2. Cardinality(runners) = 0
    BY <2>1, Sizes
  <2> QED
    BY <1>2, <2>2 DEF runners
<1> QED
  BY <1>1, <1>2

\* So every task is in one place.
LEMMA ScheduledOnceHolds == IInv => ScheduledOnce
  BY OnePlace, OneRunner DEF ScheduledOnce

\* The last part of the invariant follows from it, as the walks that are under way reach
\* every task that is left.
LEMMA CancelClosedHolds == IInv => CancelClosed
<1> SUFFICES ASSUME IInv, NEW t \in inScope, Live(t), ~cancelled[t]
             PROVE  /\ scopeCancelled => \E x \in Threads : Visiting(x, NoTask)
                    /\ \A a \in ancestors[t] :
                         (cancelled[a] \/ (published[a] /\ state[a] = "Cancelled"))
                           => \E x \in Threads, b \in ancestors[t] \cup {NoTask} : Visiting(x, b)
  BY DEF CancelClosed
<1>1. t \in Tasks /\ Uncancelled(t)
  BY TaskTypes DEF Uncancelled
<1>2. \A w \in Workers : w \in Threads
  BY DEF Threads
<1> QED
  BY <1>1, <1>2 DEF IInv, Reached

\* The invariant holds before the first task is created.
LEMMA Initial == Init => IInv
<1> SUFFICES ASSUME Init PROVE IInv
  OBVIOUS
<1> USE SchedulerAssumption
<1>0. \A x \in Threads : op[x] = NoOp /\ op[x].kind = "none"
  BY DEF Init, NoOp
<1>1. Typed
  <2>1. /\ state \in [Tasks -> State] /\ cancelled \in [Tasks -> BOOLEAN]
        /\ cause \in [Tasks -> Cause] /\ rerun \in [Tasks -> BOOLEAN]
        /\ published \in [Tasks -> BOOLEAN] /\ woken \in [Tasks -> BOOLEAN]
        /\ executor \in [Tasks -> Executors \cup {NoExecutor}]
        /\ ancestors \in [Tasks -> SUBSET Tasks] /\ inScope \subseteq Tasks
        /\ running \in [Workers -> Tasks \cup {NoTask}] /\ requested \subseteq Tasks
        /\ step \in [Workers -> Steps \cup {"Suspended"}]
        /\ scopeCancelled \in BOOLEAN /\ scopeMutex \in Threads \cup {NoThread}
    BY DEF Init, State, Cause
  <2>3. queue \in [Executors -> Seq(Tasks)]
    BY DEF Init
  <2>4. deadline \in [Deadlines -> [state : {"None", "Armed", "Selected", "Released"},
                                    task : Tasks \cup {NoTask},
                                    exec : Executors \cup {NoExecutor}]]
    BY DEF Init, NoDeadline, Unarmed
  <2>5. TypeOK
    BY <1>0, <2>1, <2>3, <2>4 DEF TypeOK
  <2>2. pc \in [Threads -> Place] /\ op \in [Threads -> Op]
    BY OpMade DEF Init, Place, WorkerPlace, Op
  <2> QED
    BY <2>2, <2>5 DEF Typed
<1>2. Lifecycle
  BY DEF Init, Lifecycle
<1>3. Queues
  BY NotBoth DEF Init, Queues
<1>4. Crew
  BY DEF Init, Crew, Threads, WorkerPlace, Executing, Ending, Terminal
<1>5. Calls
  <2>1. \A x \in Threads : CallOK(x)
    BY <1>0 DEF Init, CallOK, Walking, Waking
  <2> QED
    BY <1>0, <2>1 DEF Init, Calls, NoDeadline, Unarmed
<1>6. CancellationWins /\ DownwardOnly
  BY DEF Init, CancellationWins, DownwardOnly
<1>7. Walks
  BY <1>0 DEF Walks, WalkSound
<1>8. Reached
  BY DEF Init, Reached, Uncancelled
<1>9. Wakes
  BY <1>0 DEF Init, Wakes, NoLostWake, CancelledIsWoken, SleepersHaveReason
<1> QED
  BY <1>1, <1>2, <1>3, <1>4, <1>5, <1>6, <1>7, <1>8, <1>9 DEF IInv

\* Every step keeps it.
LEMMA Inductive == IInv /\ [Next]_vars => IInv'
  BY TypedInductive, LifecycleInductive, QueuesInductive, CrewInductive, CallsInductive,
     WinsInductive, DownwardInductive, WalksInductive, ReachedInductive, WakesInductive
     DEF IInv

\* The invariant of the scheduler.
THEOREM Invariant == Spec => []IInv
  BY Initial, Inductive, PTL DEF Spec

\* Cancellation is exact, for any tree of tasks, any executors and threads and whatever
\* the frames return: it reaches every live descendant, born before the request or after,
\* reaches nobody else, and no result overwrites it.
THEOREM CancelExact == Spec => []CancellationExact
<1>1. IInv => CancellationExact
  BY CancelClosedHolds DEF IInv, CancellationExact
<1> QED
  BY <1>1, Invariant, PTL

\* Scheduling is exact with any number of executors, rebinding included: a task is in one
\* queue or with one worker, and no wake, wake of a cancellation or notification of a
\* sleeper is lost.
THEOREM Scheduled ==
    Spec => [](TypeOK /\ ScheduledOnce /\ NoLostWake /\ CancelledIsWoken /\ SleepersHaveReason)
<1>1. IInv => TypeOK /\ ScheduledOnce /\ NoLostWake /\ CancelledIsWoken /\ SleepersHaveReason
  BY ScheduledOnceHolds DEF IInv, Typed, Wakes
<1> QED
  BY <1>1, Invariant, PTL

\* A committed result, a cancellation, its first cause and a publication are final.
THEOREM Committing == Spec => CommitIsFinal
<1>1. IInv /\ [Next]_vars => [\A t \in Tasks : Committed(t)]_vars
  BY TasksKept
<1> QED
  BY <1>1, Invariant, PTL DEF Spec, CommitIsFinal

-----------------------------------------------------------------------------
(***************************************************************************)
(* Deadlines.  With one executor the heap a deadline is armed in is the    *)
(* heap publication empties; with two it need not be, as the violated run  *)
(* task_deadline_switch shows.                                             *)
(***************************************************************************)

\* There is only one executor.
OneExec == \A e, f \in Executors : e = f

\* An armed deadline is one of a task that is not published, or whose worker has yet to
\* empty the heap.
Bound ==
    \A d \in Deadlines : deadline[d].state = "Armed" =>
        /\ deadline[d].exec \in Executors
        /\ \/ ~published[deadline[d].task]
           \/ \E w \in Workers : pc[w] = "retire" /\ running[w] = deadline[d].task

\* A worker that has published leaves only after it has emptied the heap.
LEMMA RetireKept ==
    ASSUME IInv, [Next]_vars, NEW w \in Workers, pc[w] = "retire"
    PROVE  Retire(w) \/ (pc'[w] = "retire" /\ running'[w] = running[w])
<1>0. /\ w \in Threads /\ op[w].kind = "retire" /\ NoOp.kind = "none"
      /\ running \in [Workers -> Tasks \cup {NoTask}]
  BY TaskTypes DEF Threads, IInv, Calls, CallOK, NoOp
<1>1. op'[w] = op[w] => pc'[w] = "retire"
  BY <1>0, CallsInductive DEF Calls, CallOK
<1>2. Retire(w) \/ op'[w] = op[w]
  <2>1. ASSUME Inside(w) PROVE FALSE
    BY <1>0, <2>1 DEF Inside, WalkWake, WalkScope, WalkLock, WalkUnlock, JoinWait,
                      CreateChildInsert, DeadlineExpire, WalkMark
  <2>2. ASSUME Call(w) PROVE op'[w] = op[w]
    BY <1>0, <2>2 DEF Call, ScopeRequestCancel, Wake, Create, RequestCancel, TaskJoin,
                      CreateChild, DeadlineRelease, Free
  <2>3. ASSUME Work(w) PROVE Retire(w)
    BY <2>3 DEF Work, Dequeue, Sleep, Finish, Publish, Detach, Return
  <2>4. ASSUME Extra(w) PROVE FALSE
    BY <2>4 DEF Extra, Rebind, DeadlineAfter, DeadlineSelect
  <2>5. ASSUME SameCall(w) PROVE op'[w] = op[w]
    BY <1>0, <2>5 DEF SameCall
  <2> QED
    BY <1>0, <2>1, <2>2, <2>3, <2>4, <2>5, OpSteps
<1>3. running'[w] = running[w]
  <2>1. ASSUME NEW v \in Workers, Dequeue(v) \/ Detach(v) PROVE running'[w] = running[w]
    BY <1>0, <2>1 DEF Dequeue, Detach
  <2>2. ASSUME NEW v \in Workers, Finish(v) PROVE running'[w] = running[w]
    <3>1. v # w
      BY <2>2 DEF Finish
    <3> QED
      BY <1>0, <2>2, <3>1, FinishCases DEF Ends, Requeues, Idles
  <2> QED
    BY <2>1, <2>2, TaskSteps
       DEF Woke, NewTask, Marked, Rebind, Publish, Quiet
<1> QED
  BY <1>1, <1>2, <1>3

\* A deadline is armed by task_deadline_after only.
LEMMA ArmedSteps ==
    ASSUME IInv, [Next]_vars, NEW d \in Deadlines, deadline'[d].state = "Armed"
    PROVE  deadline'[d] = deadline[d] \/ \E w \in Workers : DeadlineAfter(w, d)
<1> DEFINE Goal == deadline'[d] = deadline[d] \/ \E w \in Workers : DeadlineAfter(w, d)
<1>0. \A s : Unarmed(s).state = s
  BY DEF Unarmed
<1>t. DOMAIN deadline = Deadlines
  BY DEF IInv, Typed, TypeOK
<1>1. ASSUME NEW e \in Deadlines, NEW r, deadline' = [deadline EXCEPT ![e] = r],
             e # d \/ r.state # "Armed"
      PROVE  deadline'[d] = deadline[d]
  BY <1>1, <1>t
<1>2. ASSUME UNCHANGED deadline PROVE Goal
  BY <1>2
<1>3. ASSUME NEW x \in Threads, Inside(x) PROVE Goal
  BY <1>2, <1>3 DEF Inside, WalkWake, WalkScope, WalkLock, WalkUnlock, JoinWait,
                    CreateChildInsert, DeadlineExpire, WalkMark
<1>4. ASSUME NEW x \in Threads, Call(x) PROVE Goal
  <2>1. ASSUME NEW e \in Deadlines, DeadlineRelease(x, e) PROVE Goal
    BY <1>0, <1>1, <2>1 DEF DeadlineRelease
  <2> QED
    BY <1>2, <1>4, <2>1 DEF Call, ScopeRequestCancel, Wake, Create, RequestCancel, TaskJoin,
                            CreateChild
<1>5. ASSUME NEW w \in Workers, Work(w) PROVE Goal
  <2>1. ASSUME Retire(w) PROVE Goal
    BY <1>0, <2>1 DEF Retire
  <2>2. ASSUME Finish(w) PROVE Goal
    BY <1>2, <2>2, FinishCases
  <2> QED
    BY <1>2, <1>5, <2>1, <2>2 DEF Work, Dequeue, Sleep, Publish, Detach, Return
<1>6. ASSUME NEW w \in Workers, Extra(w) PROVE Goal
  <2>1. ASSUME NEW e \in Deadlines, DeadlineSelect(w, e) PROVE Goal
    BY <1>0, <1>1, <2>1 DEF DeadlineSelect
  <2>2. ASSUME NEW e \in Deadlines, DeadlineAfter(w, e) PROVE Goal
    <3>1. CASE e = d
      BY <2>2, <3>1
    <3>2. CASE e # d
      BY <1>1, <2>2, <3>2 DEF DeadlineAfter
    <3> QED
      BY <3>1, <3>2
  <2> QED
    BY <1>2, <1>6, <2>1, <2>2 DEF Extra, Rebind
<1>7. ASSUME UNCHANGED vars PROVE Goal
  BY <1>2, <1>7 DEF vars
<1> QED
  BY <1>3, <1>4, <1>5, <1>6, <1>7 DEF Next

\* Only publish_terminal publishes a task, and it goes on to retire its deadlines.
LEMMA NewlyPublished ==
    ASSUME IInv, [Next]_vars, NEW t \in Tasks, ~published[t], published'[t]
    PROVE  \E w \in Workers : pc'[w] = "retire" /\ running'[w] = t
<1>1. ASSUME NEW w \in Workers, Publish(w) PROVE pc'[w] = "retire" /\ running'[w] = t
  <2>1. running[w] \in Tasks /\ UNCHANGED running
    BY <1>1, Held DEF Publish, Ending
  <2>2. running[w] = t
    BY <1>1, <2>1, TaskTypes DEF Publish
  <2> QED
    BY <1>1, <2>1, <2>2, WorkerMoves
<1>2. ASSUME NEW w \in Workers, Finish(w) PROVE FALSE
  BY <1>2, FinishCases
<1> QED
  BY <1>1, <1>2, TaskSteps
     DEF Woke, NewTask, Marked, Rebind, Dequeue, Detach, Quiet, taskVars

\* With one executor every step keeps Bound.
LEMMA BoundInductive ==
    ASSUME OneExec, IInv, Bound, [Next]_vars
    PROVE  Bound'
<1> SUFFICES ASSUME NEW d \in Deadlines, deadline'[d].state = "Armed"
             PROVE  /\ deadline'[d].exec \in Executors
                    /\ \/ ~published'[deadline'[d].task]
                       \/ \E w \in Workers : /\ pc'[w] = "retire"
                                             /\ running'[w] = deadline'[d].task
  BY DEF Bound
<1>1. CASE deadline'[d] = deadline[d]
  <2> DEFINE t == deadline[d].task
  <2>0. t \in Tasks /\ deadline[d].exec \in Executors
    BY <1>1 DEF Bound, IInv, Calls
  <2>1. CASE ~published[t]
    BY <1>1, <2>0, <2>1, NewlyPublished
  <2>2. CASE published[t]
    <3>1. PICK w \in Workers : pc[w] = "retire" /\ running[w] = t
      BY <1>1, <2>2 DEF Bound
    <3>2. ASSUME Retire(w) PROVE FALSE
      <4>1. op[w].kind = "retire" /\ op[w] \in RetireOp
        BY <3>1, OpKinds, TaskTypes DEF IInv, Calls, CallOK, Threads
      <4>2. op[w].exec = deadline[d].exec
        BY <2>0, <4>1 DEF OneExec, RetireOp
      <4>3. d \in Retired(w)
        BY <1>1, <3>1, <4>2 DEF Retired
      <4> QED
        BY <3>2, <4>3 DEF Retire, Unarmed
    <3> QED
      BY <1>1, <2>0, <3>1, <3>2, RetireKept
  <2> QED
    BY <2>1, <2>2
<1>2. ASSUME NEW w \in Workers, DeadlineAfter(w, d)
      PROVE  deadline'[d].exec \in Executors /\ ~published'[deadline'[d].task]
  <2>1. pc[w] \in Executing
    BY <1>2 DEF DeadlineAfter, Executing
  <2>2. ~published[running[w]] /\ executor[running[w]] \in Executors
    BY <2>1, Held
  <2>3. deadline'[d] = [state |-> "Armed", task |-> running[w], exec |-> executor[running[w]]]
    BY <1>2 DEF DeadlineAfter, IInv, Typed, TypeOK
  <2>4. published' = published
    BY <1>2 DEF DeadlineAfter, taskVars
  <2> QED
    BY <2>2, <2>3, <2>4
<1> QED
  BY <1>1, <1>2, ArmedSteps

\* A task that has left the scope is past the retirement of its deadlines.
LEMMA DeadlinesRetiredHolds == IInv /\ Bound => DeadlinesRetired
  BY Held DEF IInv, Bound, Lifecycle, Calls, DeadlinesRetired, Ending

\* With one executor scheduling is exact, deadlines included: when a task has left its
\* scope none of its deadlines is armed.
THEOREM OneExecutorExact ==
    ASSUME OneExec
    PROVE  Spec => []SchedulingExact
<1>1. Init => Bound
  BY DEF Init, Bound, NoDeadline, Unarmed
<1>2. IInv /\ Bound /\ [Next]_vars => IInv' /\ Bound'
  BY Inductive, BoundInductive
<1>3. IInv /\ Bound => SchedulingExact
  BY ScheduledOnceHolds, DeadlinesRetiredHolds DEF IInv, Typed, Wakes, SchedulingExact
<1> QED
  BY <1>1, <1>2, <1>3, Initial, PTL DEF Spec
=============================================================================
