---------------------------- MODULE MCRetention -----------------------------
(***************************************************************************)
(* Small instances, for one TLC run, of four components that keep things   *)
(* for their holders: the references of the task runtime, the deadline     *)
(* heap of an executor, the resource lease and the artifact store.  `part' *)
(* is chosen at the start: that component takes its steps and the others   *)
(* stay in their initial states.                                           *)
(***************************************************************************)
EXTENDS TaskLifetime, TLC

CONSTANTS
    t1, t2, w1, w2, c1, c2,                     \* tasks, workers, clients
    k1, k2, op1, p1, p2, v1, v2, None,          \* capabilities, transports, payloads
    b1, b2, b3, s1, s2, m0, m1, m2, obj, f1, f2, n1     \* builds, artifacts

VARIABLES
    part,
    now, heap, heap_index, deadline, due, ended,
    policy, lease, active, transports, operation, transport, client, hand, detached,
    place, owner,
    files, ref, record, locked, storeLock, build, observed, root, supplied, undone

heapVars == <<now, heap, heap_index, deadline, due, ended>>
leaseVars == <<policy, lease, active, transports, operation, transport, client, hand,
               detached, place, owner>>
storeVars == <<files, ref, record, locked, storeLock, build, observed, root, supplied, undone>>
allVars == <<part, vars, heapVars, leaseVars, storeVars>>

\* Two tasks, two workers, two clients.
Tasks2 == {t1, t2}
Workers2 == {w1, w2}
Clients2 == {c1, c2}
Symm == Permutations(Tasks)

\* Six deadlines, the fewest for which a removal can move one up the heap, of
\* two tasks, near the end of a time whose seconds have two nanoseconds.
Heap == INSTANCE DeadlineHeap WITH
    Tasks <- {t1, t2}, MaxDeadlines <- 6, PerSecond <- 2, MaxUInt <- 3, Timeouts <- {1, 3},
    Starts <- {[seconds |-> 2, nanoseconds |-> 1]}

\* Two capabilities, an operation, two transports of one place, two payloads.
Lease == INSTANCE ResourceLease WITH
    Clients <- {k1, k2}, Operations <- {op1}, Transports <- {p1, p2},
    Payloads <- {v1, v2}, Capacity <- 1, pc <- client

\* Two builds of one session race with one of another.  m0 is a package that
\* both roots depend on; the component f1, which needs f2, is m1's, and the
\* nominal artifact n1 is shared.
Store == INSTANCE ArtifactStore WITH
    Builds <- {b1, b2, b3}, Sessions <- {s1, s2},
    SessionOf <- (b1 :> s1) @@ (b2 :> s1) @@ (b3 :> s2),
    Manifests <- {m0, m1, m2}, Objects <- {obj}, Components <- {f1, f2}, Nominals <- {n1},
    Refers <- (m0 :> {obj}) @@ (m1 :> {m0, f1, n1}) @@ (m2 :> {m0, n1})
              @@ (f1 :> {f2}) @@ [x \in {obj, f2, n1} |-> {}],
    Roots <- {m1, m2}, InitialRoots <- {m1, None},
    pc <- build, todo <- undone

InitAll ==
    /\ part \in {"references", "deadlines", "lease", "store"}
    /\ Init /\ Heap!Init /\ Lease!Init /\ Store!Init
    /\ part # "lease" => policy = 1
    /\ part # "store" => ref = [s \in {s1, s2} |-> None]

NextAll ==
    \/ part = "references" /\ Next /\ UNCHANGED <<part, heapVars, leaseVars, storeVars>>
    \/ part = "deadlines" /\ Heap!Next /\ UNCHANGED <<part, vars, leaseVars, storeVars>>
    \/ part = "lease" /\ Lease!Next /\ UNCHANGED <<part, vars, heapVars, storeVars>>
    \/ part = "store" /\ Store!Next /\ UNCHANGED <<part, vars, heapVars, leaseVars>>
    \* Suspended tasks, or deadlines all past, may be all there is.
    \/ part \in {"references", "deadlines"} /\ UNCHANGED allVars

SpecAll == InitAll /\ [][NextAll]_allVars

-----------------------------------------------------------------------------
(* The properties of the four modules; that of the task references is      *)
(* TaskLifetime's own ReferencesBalance.                                   *)

\* The heap holds the armed deadlines, each once, where it believes it is and in order;
\* each is due exactly as long after it was armed as it was asked for, up to the end of
\* time; and the worker selects the earliest, of equal ones the oldest
\* (heap_insert_locked, heap_remove_locked, next_task_instant_add, next_task_worker).
HeapCorrect == [](part = "deadlines" => Heap!HeapState) /\ Heap!EarliestFirst

\* lease->active is the number of tokens somebody can still release, an operation pins
\* the resource while it is armed or its provider is inside, and a lease or a transport
\* that reports itself closed has no user left (acquire_locked, release_locked,
\* complete against provider_leave, quiesce, destroy, transport close).
LeaseCounted == part = "lease" => Lease!LeaseCounted

\* A payload is in exactly one queue, hand or detached list until it leaves, and the code
\* behind its callbacks is retained for as long (send_commit, receive_acquire,
\* receive_take, owned destroy, transport destroy).
PayloadsOwned == part = "lease" => Lease!PayloadsOwned

\* Whatever other builds publish, collect or leave behind when they die, what a session's
\* root or a running build's lease leads to is on disk; a finished collection leaves
\* nothing else; and a root is only replaced by a build that started from it
\* (acquireLease, publish, collect, probeLease).
StoreExact == [](part = "store" => Store!StoreState) /\ Store!NoLostPublication
=============================================================================
