---------------------------- MODULE DeadlineHeap ----------------------------
(***************************************************************************)
(* The deadlines of one executor of the task runtime                       *)
(* (runtime/src/Task/next_task_v1.c): the arithmetic of instants, and the  *)
(* binary heap in which armed deadlines wait, from arming through expiry,  *)
(* release and the retirement of a task's deadlines when it ends.          *)
(* TaskScheduler has the same deadlines as a set; here is how the set is   *)
(* kept.                                                                   *)
(*                                                                         *)
(* Every operation on the heap runs under the executor's mutex and is one  *)
(* action.  A deadline is named by its sequence number.  Positions in the  *)
(* heap start at 0, as in the code.  The heap has room: what the failure   *)
(* to grow it does is to change nothing.                                   *)
(***************************************************************************)
EXTENDS Naturals, FiniteSets

CONSTANTS
    Tasks, NoTask,
    MaxDeadlines,   \* bound on the deadlines armed in a behaviour
    PerSecond,      \* nanoseconds per second
    MaxUInt,        \* UINT64_MAX, of seconds and of a timeout in nanoseconds
    Timeouts,       \* timeouts used
    Starts          \* instants the executor's clock may be set to

VARIABLES
    now,            \* the executor's clock
    heap,           \* deadline_heap, from position to deadline
    heap_index,     \* the position each deadline believes it has
    deadline,       \* the fields of each deadline
    due,            \* the instant each was asked for, in nanoseconds, without width
    ended           \* tasks that have published their terminal step

vars == <<now, heap, heap_index, deadline, due, ended>>

Deadlines == 1..MaxDeadlines
Instants == [seconds : 0..MaxUInt, nanoseconds : 0..(PerSecond - 1)]
Start == [seconds |-> 0, nanoseconds |-> 0]
Blank(s) == [state |-> s, instant |-> Start, task |-> NoTask]

Init ==
    /\ now \in Starts
    /\ heap = [i \in {} |-> 0]
    /\ heap_index = [d \in Deadlines |-> 0]
    /\ deadline = [d \in Deadlines |-> Blank("none")]
    /\ due = [d \in Deadlines |-> 0]
    /\ ended = {}

-----------------------------------------------------------------------------
(* Instants. *)

next_task_instant_less(a, b) ==
    \/ a.seconds < b.seconds
    \/ a.seconds = b.seconds /\ a.nanoseconds < b.nanoseconds

\* The last instant there is.
Latest == [seconds |-> MaxUInt, nanoseconds |-> PerSecond - 1]

\* next_task_instant_add: whatever passes the last instant stays there.
next_task_instant_add(i, n) ==
    LET s == n \div PerSecond
        r == n % PerSecond
    IN  IF s > MaxUInt - i.seconds THEN Latest
        ELSE IF r >= PerSecond - i.nanoseconds
        THEN IF i.seconds + s = MaxUInt THEN Latest
             ELSE [seconds |-> i.seconds + s + 1,
                   nanoseconds |-> r - (PerSecond - i.nanoseconds)]
        ELSE [seconds |-> i.seconds + s, nanoseconds |-> i.nanoseconds + r]

-----------------------------------------------------------------------------
(* The heap.  q is a heap with the positions and the fields of its         *)
(* deadlines.                                                              *)

Queue(fields) == [heap |-> heap, at |-> heap_index, of |-> fields]
count(q) == Cardinality(DOMAIN q.heap)

\* next_task_deadline_less
less(q, d, e) ==
    \/ next_task_instant_less(q.of[d].instant, q.of[e].instant)
    \/ q.of[d].instant = q.of[e].instant /\ d < e

swap(q, i, j) ==
    [q EXCEPT !.heap[i] = q.heap[j], !.heap[j] = q.heap[i],
              !.at[q.heap[j]] = i, !.at[q.heap[i]] = j]

parent(i) == (i - 1) \div 2

RECURSIVE sift_up(_, _)
sift_up(q, i) ==
    IF i = 0 \/ ~less(q, q.heap[i], q.heap[parent(i)]) THEN q
    ELSE sift_up(swap(q, i, parent(i)), parent(i))

RECURSIVE sift_down(_, _)
sift_down(q, i) ==
    LET left == 2 * i + 1
        child == IF left + 1 < count(q) /\ less(q, q.heap[left + 1], q.heap[left])
                 THEN left + 1 ELSE left
    IN  IF left >= count(q) \/ ~less(q, q.heap[child], q.heap[i]) THEN q
        ELSE sift_down(swap(q, i, child), child)

insert(q, d) ==
    LET n == count(q)
    IN  sift_up([q EXCEPT !.heap = [i \in 0..n |-> IF i = n THEN d ELSE @[i]],
                          !.at[d] = n], n)

\* The last deadline takes the place of the one that goes.
fill(q, i) ==
    LET last == count(q) - 1
    IN  [q EXCEPT !.heap = [j \in 0..(last - 1) |-> IF j = i THEN @[last] ELSE @[j]],
                  !.at[q.heap[last]] = i]

\* It may be out of order there in either direction.
\* Mutant: it only ever sinks.
remove_sinks(q, d) == sift_down(fill(q, q.at[d]), q.at[d])
remove(q, d) ==
    LET i == q.at[d]
        r == fill(q, i)
    IN  IF i < count(r) /\ i # 0 /\ less(r, r.heap[i], r.heap[parent(i)])
        THEN sift_up(r, i) ELSE sift_down(r, i)

\* next_task_publish_terminal's loop: look at every position once, and at the
\* same position again after a removal.
RECURSIVE retire(_, _, _)
retire(q, t, i) ==
    IF i >= count(q) THEN q
    ELSE IF q.of[q.heap[i]].task # t THEN retire(q, t, i + 1)
    ELSE retire(remove(q, q.heap[i]), t, i)

Elements(q) == {q.heap[i] : i \in DOMAIN q.heap}
\* The position of a deadline that has left (in_heap is 0) is not read again.
Keep(q) ==
    /\ heap' = q.heap
    /\ heap_index' = [d \in Deadlines |-> IF d \in Elements(q) THEN q.at[d] ELSE 0]

\* The deadlines in D leave the heap for good.
Leave(D, s) ==
    /\ deadline' = [d \in Deadlines |-> IF d \in D THEN Blank(s) ELSE deadline[d]]
    /\ due' = [d \in Deadlines |-> IF d \in D THEN 0 ELSE due[d]]

-----------------------------------------------------------------------------
(* Operations. *)

\* An instant in nanoseconds, and the end of time.
Total(i) == i.seconds * PerSecond + i.nanoseconds
Bounded(n) == IF n > Total(Latest) THEN Total(Latest) ELSE n

\* task_deadline_after, called by a task that runs.
Arm(t, n) ==
    /\ t \notin ended
    /\ \E d \in Deadlines :
         /\ deadline[d].state = "none" /\ \A e \in 1..(d - 1) : deadline[e].state # "none"
         /\ deadline' = [deadline EXCEPT ![d] =
                [state |-> "armed", instant |-> next_task_instant_add(now, n), task |-> t]]
         /\ due' = [due EXCEPT ![d] = Bounded(Total(now) + n)]
         /\ Keep(insert(Queue(deadline'), d))
    /\ UNCHANGED <<now, ended>>

\* deadline_release of a deadline that is still armed.
Release(d) ==
    /\ deadline[d].state = "armed"
    /\ Keep(remove(Queue(deadline), d))
    /\ Leave({d}, "released")
    /\ UNCHANGED <<now, ended>>

\* A worker selects the deadline at the top if its time has come.
Expire ==
    /\ DOMAIN heap # {}
    /\ ~next_task_instant_less(now, deadline[heap[0]].instant)
    /\ Keep(remove(Queue(deadline), heap[0]))
    /\ Leave({heap[0]}, "selected")
    /\ UNCHANGED <<now, ended>>

\* next_task_publish_terminal retires the deadlines of its task.
Publish(t) ==
    /\ t \notin ended
    /\ ended' = ended \cup {t}
    /\ LET q == retire(Queue(deadline), t, 0)
       IN  Keep(q) /\ Leave(Elements(Queue(deadline)) \ Elements(q), "released")
    /\ UNCHANGED now

\* Time passes; the last instant is never left.
Tick ==
    /\ now # Latest
    /\ now' = next_task_instant_add(now, 1)
    /\ UNCHANGED <<heap, heap_index, deadline, due, ended>>

Next ==
    \/ \E t \in Tasks : Publish(t) \/ \E n \in Timeouts : Arm(t, n)
    \/ \E d \in Deadlines : Release(d)
    \/ Expire \/ Tick

Spec == Init /\ [][Next]_vars

-----------------------------------------------------------------------------
(* Properties. *)

Armed == {d \in Deadlines : deadline[d].state = "armed"}

\* Types of the clock, the heap and the deadlines.
TypeOK ==
    /\ now \in Instants
    /\ \E n \in 0..MaxDeadlines : heap \in [0..(n - 1) -> Deadlines]
    /\ heap_index \in [Deadlines -> 0..MaxDeadlines]
    /\ deadline \in [Deadlines -> [state : {"none", "armed", "selected", "released"},
                                   instant : Instants, task : Tasks \cup {NoTask}]]
    /\ due \in [Deadlines -> Nat] /\ ended \subseteq Tasks

\* The heap holds the armed deadlines, each once and where it believes it is,
\* and in order, whatever is inserted into, taken from or retired out of the
\* middle of it.
HeapExact ==
    /\ Cardinality(DOMAIN heap) = Cardinality(Armed)
    /\ \A d \in Armed : heap_index[d] \in DOMAIN heap /\ heap[heap_index[d]] = d
    /\ \A i \in DOMAIN heap \ {0} : ~less(Queue(deadline), heap[i], heap[parent(i)])

\* A deadline is due exactly as long after it was armed as it was asked for, up
\* to the end of time, through the carry of the nanoseconds and at the limit of
\* the seconds (next_task_instant_add).
DueExact == \A d \in Armed : Total(deadline[d].instant) = due[d]

\* Of the deadlines that are armed the worker selects the earliest, and of equal
\* ones the oldest (next_task_deadline_less; next_task_worker looks at the top
\* of the heap only).
EarliestFirst ==
    [][\A d \in Armed : deadline'[d].state = "selected" =>
           \A e \in Armed : due[d] < due[e] \/ (due[d] = due[e] /\ d <= e)]_vars

\* The heap as its worker uses it: types, the armed deadlines each once, where they believe
\* they are and in order, due exactly when they were asked for, and selected earliest
\* first (heap_insert_locked, heap_remove_locked, instant_add, next_task_worker).
HeapState == TypeOK /\ HeapExact /\ DueExact
HeapCorrect == []HeapState /\ EarliestFirst

\* "Retire all deadlines owned by this task before the frame can be destroyed"
\* (next_task_v1.c:773-774): no deadline of a task that has ended is armed.
Retired == \A d \in Armed : deadline[d].task \notin ended
=============================================================================
