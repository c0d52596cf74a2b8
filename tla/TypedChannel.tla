---------------------------- MODULE TypedChannel ----------------------------
(***************************************************************************)
(* The typed value channel of the Chtholly host runtime                    *)
(* (runtime/src/Host/next_typed_channel_v1.c).                             *)
(*                                                                         *)
(* One channel is shared by a set of callers.  A caller is one operation   *)
(* in flight together with the token it may own between the two phases of  *)
(* the operation: prepare/commit for a send, acquire/commit for a receive. *)
(* A thread that owns several tokens is several callers, so the callers'   *)
(* interleavings include every interleaving of real threads.               *)
(*                                                                         *)
(* Every critical section of the channel mutex is one action.  What the    *)
(* code does between two critical sections (the descriptor's move and drop *)
(* callbacks, the gap before typed_release) is a step of its own.  The     *)
(* three condition variables are explicit sets of sleeping callers, so a   *)
(* missing broadcast is visible.                                           *)
(***************************************************************************)
EXTENDS Naturals, Sequences, FiniteSets

CONSTANTS
    Callers,    \* operations in flight: threads calling the channel's entry points
    Values,     \* payload values, each owned by one sender at the start
    Capacity    \* the capacity given to typed_channel_init

ASSUME CallersAssumption == IsFiniteSet(Callers)
ASSUME ValuesAssumption == IsFiniteSet(Values)
ASSUME CapacityAssumption == Capacity \in Nat \ {0}

VARIABLES
    registered,      \* the channel is linked into registry_head
    freed,           \* the channel's memory has been freed
    closed,          \* channel->closed
    queue,           \* channel->head .. channel->tail; channel->size is its length
    reservations,    \* channel->reservations
    activeReceives,  \* channel->active_receives
    activeCalls,     \* channel->active_calls
    writable,        \* callers asleep on channel->writable
    readable,        \* callers asleep on channel->readable
    quiescent,       \* the closer, when asleep on channel->quiescent
    pc,              \* where each caller is
    payload,         \* the values each caller has in hand: token source, node, detached list
    source,          \* values still in their sender's place
    delivered,       \* values moved into a receiver's destination
    dropped          \* values destroyed by the descriptor's drop callback

channel == <<registered, freed, closed, queue, reservations, activeReceives,
             activeCalls, writable, readable, quiescent>>
vars == <<channel, pc, payload, source, delivered, dropped>>

-----------------------------------------------------------------------------
(* Where a caller can be.  The names before the dash are the entry points. *)

SendCall    == {"prepare", "prepareReturn"}          \* pinned by active_calls
ReceiveCall == {"acquire", "acquireClosed", "acquireReturn"}
SendToken   == {"prepareReturn", "prepared", "moving", "moved"}     \* owns a reservation
ReceiveToken == {"acquireReturn", "acquired", "consumed"}           \* owns an active receive
Closing     == {"closing", "draining"}
PC == {"idle", "prepareClosed"} \cup SendCall \cup ReceiveCall \cup SendToken
        \cup ReceiveToken \cup Closing

\* typed_acquire pins the channel until typed_release.
InCall == {"prepareClosed"} \cup SendCall \cup ReceiveCall

None == <<>>

Init ==
    /\ registered = TRUE
    /\ freed = FALSE
    /\ closed = FALSE
    /\ queue = <<>>
    /\ reservations = 0
    /\ activeReceives = 0
    /\ activeCalls = 0
    /\ writable = {} /\ readable = {} /\ quiescent = {}
    /\ pc = [c \in Callers |-> "idle"]
    /\ payload = [c \in Callers |-> None]
    /\ source = Values
    /\ delivered = {}
    /\ dropped = {}

Goto(c, from, to) ==
    /\ pc[c] = from
    /\ pc' = [pc EXCEPT ![c] = to]

Hold(c, vs) == payload' = [payload EXCEPT ![c] = vs]

-----------------------------------------------------------------------------
(* Entry and exit of a pinned call. *)

\* typed_acquire: the registry lookup never dereferences the handle; a
\* registered channel is pinned, any other handle is refused.
typed_acquire(c, entry) ==
    /\ registered
    /\ Goto(c, "idle", entry)
    /\ activeCalls' = activeCalls + 1

\* An entry call on a handle that is no longer registered returns
\* INVALID_ARGUMENT (INVALID_HANDLE from close) and changes nothing.
RefuseHandle(c) ==
    /\ ~registered
    /\ pc[c] = "idle"
    /\ UNCHANGED vars

\* typed_release: unpin and wake the closer.
\* Mutant: the closer is not woken.
typed_releaseSilent(c, from, to) ==
    /\ Goto(c, from, to)
    /\ activeCalls' = activeCalls - 1
    /\ UNCHANGED <<registered, freed, closed, queue, reservations, activeReceives,
                   writable, readable, quiescent, payload, source, delivered, dropped>>
typed_release(c, from, to) ==
    /\ Goto(c, from, to)
    /\ activeCalls' = activeCalls - 1
    /\ quiescent' = {}
    /\ UNCHANGED <<registered, freed, closed, queue, reservations, activeReceives,
                   writable, readable, payload, source, delivered, dropped>>

-----------------------------------------------------------------------------
(* send_prepare *)

\* A sender offers a value it still owns and that no other call is sending.
SendPrepareEnter(c, v) ==
    /\ v \in source
    /\ \A d \in Callers : payload[d] # <<v>>
    /\ typed_acquire(c, "prepare")
    /\ Hold(c, <<v>>)
    /\ UNCHANGED <<registered, freed, closed, queue, reservations, activeReceives,
                   writable, readable, quiescent, source, delivered, dropped>>

\* The loop condition of send_prepare, as the code computes it on uint64_t.
\* Mutant: reserved slots are not counted.
FullUnreserved == Len(queue) >= Capacity
Full == \/ Len(queue) >= Capacity
        \/ reservations >= Capacity - Len(queue)

\* One pass of send_prepare's critical section: sleep, give up, or reserve.
SendPrepare(c) ==
    /\ pc[c] = "prepare"
    /\ c \notin writable
    /\ \/ /\ ~closed /\ Full
          /\ writable' = writable \cup {c}
          /\ UNCHANGED <<pc, payload, reservations>>
       \/ /\ closed
          /\ pc' = [pc EXCEPT ![c] = "prepareClosed"]
          /\ Hold(c, None)
          /\ UNCHANGED <<writable, reservations>>
       \/ /\ ~closed /\ ~Full
          /\ pc' = [pc EXCEPT ![c] = "prepareReturn"]
          /\ reservations' = reservations + 1
          /\ UNCHANGED <<writable, payload>>
    /\ UNCHANGED <<registered, freed, closed, queue, activeReceives, activeCalls,
                   readable, quiescent, source, delivered, dropped>>

SendPrepareReturn(c) ==
    \/ typed_release(c, "prepareReturn", "prepared")
    \/ typed_release(c, "prepareClosed", "idle")

-----------------------------------------------------------------------------
(* send_commit and send_cancel *)

\* The code's guarded decrement of a counter.
GivenBack(n) == IF n # 0 THEN n - 1 ELSE n

\* The reservation is given back without the value having been moved: the
\* channel closed first, or the node could not be allocated.
SendCommitFail(c) ==
    /\ Goto(c, "prepared", "idle")
    /\ \/ /\ closed
          /\ reservations' = GivenBack(reservations)
          /\ quiescent' = IF reservations' = 0 /\ activeReceives = 0 THEN {} ELSE quiescent
       \/ /\ ~closed            \* calloc or typed_allocate returned NULL
          /\ reservations' = reservations - 1
          /\ quiescent' = {}
    /\ writable' = {}
    /\ Hold(c, None)
    /\ UNCHANGED <<registered, freed, closed, queue, activeReceives, activeCalls,
                   readable, source, delivered, dropped>>

\* Commit is selected under the lock; the lock is then released.
SendCommitSelect(c) ==
    /\ ~closed
    /\ Goto(c, "prepared", "moving")
    /\ UNCHANGED <<channel, payload, source, delivered, dropped>>

\* The descriptor's move callback runs outside the lock.
SendMove(c) ==
    /\ Goto(c, "moving", "moved")
    /\ source' = source \ {payload[c][1]}
    /\ UNCHANGED <<channel, payload, delivered, dropped>>

\* The second critical section links the node, whether or not the channel
\* has been closed meanwhile.
SendLink(c) ==
    /\ Goto(c, "moved", "idle")
    /\ queue' = Append(queue, payload[c][1])
    /\ reservations' = reservations - 1
    /\ readable' = {}
    /\ quiescent' = {}
    /\ Hold(c, None)
    /\ UNCHANGED <<registered, freed, closed, activeReceives, activeCalls, writable,
                   source, delivered, dropped>>

SendCancel(c) ==
    /\ Goto(c, "prepared", "idle")
    /\ reservations' = GivenBack(reservations)
    /\ writable' = {}
    /\ quiescent' = IF reservations' = 0 /\ activeReceives = 0 THEN {} ELSE quiescent
    /\ Hold(c, None)
    /\ UNCHANGED <<registered, freed, closed, queue, activeReceives, activeCalls,
                   readable, source, delivered, dropped>>

-----------------------------------------------------------------------------
(* receive_acquire, receive_commit and receive_cancel *)

ReceiveAcquireEnter(c) ==
    /\ typed_acquire(c, "acquire")
    /\ UNCHANGED <<registered, freed, closed, queue, reservations, activeReceives,
                   writable, readable, quiescent, payload, source, delivered, dropped>>

\* One pass of receive_acquire's critical section: sleep, give up, or take
\* the head node.  A closed channel still hands out what is queued.
ReceiveAcquire(c) ==
    /\ pc[c] = "acquire"
    /\ c \notin readable
    /\ \/ /\ queue = <<>> /\ ~closed
          /\ readable' = readable \cup {c}
          /\ UNCHANGED <<pc, payload, queue, activeReceives, writable>>
       \/ /\ queue = <<>> /\ closed
          /\ pc' = [pc EXCEPT ![c] = "acquireClosed"]
          /\ UNCHANGED <<payload, queue, activeReceives, readable, writable>>
       \/ /\ queue # <<>>
          /\ pc' = [pc EXCEPT ![c] = "acquireReturn"]
          /\ Hold(c, <<Head(queue)>>)
          /\ queue' = Tail(queue)
          /\ activeReceives' = activeReceives + 1
          /\ writable' = {}
          /\ UNCHANGED readable
    /\ UNCHANGED <<registered, freed, closed, reservations, activeCalls, quiescent,
                   source, delivered, dropped>>

\* Mutant: the call that finds the channel closed stays pinned.
ReceiveAcquireReturnOpen(c) == typed_release(c, "acquireReturn", "acquired")
ReceiveAcquireReturn(c) ==
    \/ typed_release(c, "acquireReturn", "acquired")
    \/ typed_release(c, "acquireClosed", "idle")

\* receive_commit moves the payload into the destination, receive_cancel
\* drops it; both run the callback before they take the lock.
\* Mutant: commit also drops the payload it has moved.
ReceiveConsumeTwice(c) ==
    /\ Goto(c, "acquired", "consumed")
    /\ delivered' = delivered \cup {payload[c][1]}
    /\ dropped' = dropped \cup {payload[c][1]}
    /\ Hold(c, None)
    /\ UNCHANGED <<channel, source>>
ReceiveConsume(c) ==
    /\ Goto(c, "acquired", "consumed")
    /\ \/ delivered' = delivered \cup {payload[c][1]} /\ UNCHANGED dropped
       \/ dropped' = dropped \cup {payload[c][1]} /\ UNCHANGED delivered
    /\ Hold(c, None)
    /\ UNCHANGED <<channel, source>>

ReceiveFinish(c) ==
    /\ Goto(c, "consumed", "idle")
    /\ activeReceives' = GivenBack(activeReceives)
    /\ quiescent' = IF activeReceives' = 0 /\ reservations = 0 THEN {} ELSE quiescent
    /\ UNCHANGED <<registered, freed, closed, queue, reservations, activeCalls,
                   writable, readable, payload, source, delivered, dropped>>

-----------------------------------------------------------------------------
(* close *)

\* Unlinking the channel and marking it closed is one step: close takes the
\* channel mutex before it gives up the registry mutex.
CloseBegin(c) ==
    /\ registered
    /\ Goto(c, "idle", "closing")
    /\ registered' = FALSE
    /\ closed' = TRUE
    /\ readable' = {}
    /\ writable' = {}
    /\ UNCHANGED <<freed, queue, reservations, activeReceives, activeCalls, quiescent,
                   payload, source, delivered, dropped>>

\* What close waits for: tokens and pinned calls.
\* Mutants: pinned calls are not waited for; receivers are waited for to empty the
\* queue.
BusyWithTokens == reservations # 0 \/ activeReceives # 0
BusyWithQueue == reservations # 0 \/ activeReceives # 0 \/ activeCalls # 0 \/ queue # <<>>
Busy == reservations # 0 \/ activeReceives # 0 \/ activeCalls # 0

\* One pass of close's wait loop: sleep, or detach the queue and unlock.
CloseWait(c) ==
    /\ pc[c] = "closing"
    /\ c \notin quiescent
    /\ \/ /\ Busy
          /\ quiescent' = quiescent \cup {c}
          /\ UNCHANGED <<pc, payload, queue>>
       \/ /\ ~Busy
          /\ pc' = [pc EXCEPT ![c] = "draining"]
          /\ Hold(c, queue)
          /\ queue' = <<>>
          /\ UNCHANGED quiescent
    /\ UNCHANGED <<registered, freed, closed, reservations, activeReceives, activeCalls,
                   writable, readable, source, delivered, dropped>>

\* close drops the detached nodes one by one, outside the lock ...
CloseDrop(c) ==
    /\ pc[c] = "draining"
    /\ payload[c] # None
    /\ dropped' = dropped \cup {Head(payload[c])}
    /\ Hold(c, Tail(payload[c]))
    /\ UNCHANGED <<channel, pc, source, delivered>>

\* ... and then destroys the mutex and frees the channel.
CloseFree(c) ==
    /\ payload[c] = None
    /\ Goto(c, "draining", "idle")
    /\ freed' = TRUE
    /\ UNCHANGED <<registered, closed, queue, reservations, activeReceives, activeCalls,
                   writable, readable, quiescent, payload, source, delivered, dropped>>

-----------------------------------------------------------------------------
\* pthread_cond_wait may return without a broadcast.
SpuriousWake(c) ==
    /\ c \in writable \cup readable \cup quiescent
    /\ writable' = writable \ {c}
    /\ readable' = readable \ {c}
    /\ quiescent' = quiescent \ {c}
    /\ UNCHANGED <<registered, freed, closed, queue, reservations, activeReceives,
                   activeCalls, pc, payload, source, delivered, dropped>>

\* The steps a caller takes once it is inside a call of the runtime.
Inside(c) ==
    \/ SendPrepare(c) \/ SendPrepareReturn(c)
    \/ SendMove(c) \/ SendLink(c)
    \/ ReceiveAcquire(c) \/ ReceiveAcquireReturn(c) \/ ReceiveFinish(c)
    \/ CloseWait(c) \/ CloseDrop(c) \/ CloseFree(c)

\* The calls that complete a token.
Complete(c) ==
    \/ SendCommitFail(c) \/ SendCommitSelect(c) \/ SendCancel(c)
    \/ ReceiveConsume(c)

\* The calls a caller is free to make or not.
Enter(c) ==
    \/ \E v \in Values : SendPrepareEnter(c, v)
    \/ ReceiveAcquireEnter(c)
    \/ CloseBegin(c)
    \/ RefuseHandle(c)

Next == \E c \in Callers : Inside(c) \/ Complete(c) \/ Enter(c) \/ SpuriousWake(c)

Spec == Init /\ [][Next]_vars

(***************************************************************************)
(* Threads inside the runtime are scheduled, and the ABI contract makes    *)
(* the owner of a token complete or cancel it exactly once ("The runtime   *)
(* typed-channel token remains caller-owned and must be completed or       *)
(* cancelled exactly once", docs/en/design/typed-channel-abi.md:28).       *)
(* Nothing obliges a caller to make a new call.                            *)
(***************************************************************************)
Fairness == \A c \in Callers : WF_vars(Inside(c)) /\ WF_vars(Complete(c))

FairSpec == Spec /\ Fairness

-----------------------------------------------------------------------------
(* Properties. *)

\* Every variable of the channel keeps its type; the lengths are bounded by
\* the channel's capacity.
TypeOK ==
    /\ registered \in BOOLEAN /\ freed \in BOOLEAN /\ closed \in BOOLEAN
    /\ queue \in Seq(Values)
    /\ reservations \in Nat /\ activeReceives \in Nat /\ activeCalls \in Nat
    /\ writable \in SUBSET Callers
    /\ readable \in SUBSET Callers
    /\ quiescent \in SUBSET Callers
    /\ pc \in [Callers -> PC]
    /\ payload \in [Callers -> Seq(Values)]
    /\ source \in SUBSET Values
    /\ delivered \in SUBSET Values
    /\ dropped \in SUBSET Values

At(S) == {c \in Callers : pc[c] \in S}

\* The three counters are exactly the callers that still need the channel:
\* a reservation per prepared send, an active receive per acquired node and
\* an active call per pinned entry call (next_typed_channel_v1.c:61-63).
CountersExact ==
    /\ reservations = Cardinality(At(SendToken))
    /\ activeReceives = Cardinality(At(ReceiveToken))
    /\ activeCalls = Cardinality(At(InCall))

\* close frees the channel only when no caller can touch it again: nobody is
\* inside a call, owns a token, sleeps on a condition or is still closing.
NoUseAfterFree == freed => \A c \in Callers : pc[c] = "idle"

\* Queued values and reserved slots never exceed the capacity, so a commit
\* always finds room (send_commit links without checking).
WithinCapacity == Len(queue) + reservations <= Capacity

\* No wakeup is lost: whoever sleeps on a condition has a reason to, because
\* every critical section that ends the reason broadcasts.
NoLostWakeup ==
    /\ \A c \in writable : ~closed /\ Full
    /\ \A c \in readable : ~closed /\ queue = <<>>
    /\ \A c \in quiescent : Busy

\* The values a caller owns on behalf of the channel: a moved payload not yet
\* linked, an acquired node, the list close has detached.
Carried(c) == IF pc[c] \in {"moved", "acquireReturn", "acquired", "draining"}
              THEN payload[c] ELSE None

\* Affine ownership: a value is in exactly one place - with its sender,
\* queued, carried by one caller, delivered or dropped - at every moment.
Places(v) ==
    [sender    |-> {x \in {v} : v \in source},
     delivered |-> {x \in {v} : v \in delivered},
     dropped   |-> {x \in {v} : v \in dropped},
     queued    |-> {i \in DOMAIN queue : queue[i] = v},
     carried   |-> UNION {{<<c, i>> : i \in {j \in DOMAIN Carried(c) : Carried(c)[j] = v}}
                            : c \in Callers}]

SingleOwner ==
    \A v \in Values :
        LET p == Places(v)
        IN  Cardinality(p.sender) + Cardinality(p.delivered) + Cardinality(p.dropped)
              + Cardinality(p.queued) + Cardinality(p.carried) = 1

\* The channel's accounts are right at every step of every call: the fields have their
\* types, the counters of calls, reservations and receives are exactly the tokens and
\* calls there are, and the queue with its reservations keeps within the capacity
\* (typed_acquire, typed_release, send_prepare, send_commit, receive_acquire).
Accounting == TypeOK /\ CountersExact /\ WithinCapacity

\* Once close has begun it finishes, if token owners complete their tokens.
CloseTerminates == (\E c \in Callers : pc[c] = "closing") ~> freed

\* A caller blocked in send_prepare or receive_acquire returns once the
\* channel is closed.
BlockedReturns ==
    \A c \in Callers : (closed /\ pc[c] \in InCall) ~> pc[c] \notin InCall
=============================================================================
