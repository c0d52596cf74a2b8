---------------------------- MODULE ResourceLease ---------------------------
(***************************************************************************)
(* The resource lease, its operations and its payload transports           *)
(* (runtime/src/Host/next_resource_lease_v2.c).                            *)
(*                                                                         *)
(* One lease counts the tokens that pin a component's resource: tokens the *)
(* host acquires itself, the token inside an operation, and the token      *)
(* behind a send or a receive of a transport.  Nothing blocks: a close     *)
(* that finds tokens returns NOT_READY and the host calls it again.        *)
(*                                                                         *)
(* A client is one capability in flight.  A critical section is one        *)
(* action; the lease mutex is only ever taken inside, or instead of, the   *)
(* mutex of an operation or a transport.  The user's move and drop         *)
(* callbacks run outside the mutexes and are steps of their own.  A handle *)
(* is not used after the host has destroyed it, which the header demands   *)
(* ("callers join users of an operation before destroying its handle").    *)
(* A refused call, or one that finds no memory, changes nothing.           *)
(***************************************************************************)
EXTENDS Naturals, Sequences, FiniteSets

CONSTANTS
    Clients,        \* capabilities in flight
    Operations,     \* operation objects
    Transports,     \* payload transports on the lease
    Payloads,       \* payload values
    Capacity,       \* capacity of each transport
    None            \* no transport, no payload

VARIABLES
    policy,         \* lease->policy: 1 exclusive, 2 shared
    lease,          \* lease->state, or "freed"
    active,         \* lease->active
    transports,     \* lease->transports
    operation,      \* each operation's state, provider_active, and token
    transport,      \* each transport's fields
    pc,             \* where each client is
    hand,           \* the transport and the payload each client's token names
    detached,       \* payloads a closing client has detached and not yet dropped
    place,          \* where each payload is
    owner           \* retain_owner calls not yet answered by release_owner

vars == <<policy, lease, active, transports, operation, transport, pc, hand, detached, place, owner>>

Terminal == {"committed", "failed", "cancelled"}
Places == {"source", "node", "delivered", "owned", "dropped"}
SendPc == {"prepared", "moving", "moved"}
ReceivePc == {"acquired", "consumed"}
Pinning == {"token"} \cup SendPc \cup ReceivePc       \* holds a token of the lease
Empty == [t |-> None, v |-> None]

Init ==
    /\ policy \in {1, 2}
    /\ lease = "available"
    /\ active = 0 /\ transports = 0 /\ owner = 0
    /\ operation = [o \in Operations |->
                      [state |-> "none", provider |-> FALSE, token |-> FALSE]]
    /\ transport = [t \in Transports |->
                      [state |-> "none", typed |-> FALSE, closed |-> FALSE, quiesced |-> FALSE,
                       queue |-> <<>>, reservations |-> 0, callbacks |-> 0]]
    /\ pc = [c \in Clients |-> "idle"]
    /\ hand = [c \in Clients |-> Empty]
    /\ detached = [c \in Clients |-> <<>>]
    /\ place = [v \in Payloads |-> "source"]

-----------------------------------------------------------------------------
(* The lease. *)

\* acquire_locked
acquire ==
    /\ lease = "available" \/ (policy = 2 /\ lease = "leased")
    /\ active' = active + 1
    /\ lease' = "leased"

\* release_locked: a lease that is closing stays closing.
release ==
    /\ active' = active - 1
    /\ lease' = IF lease = "leased" /\ active = 1 THEN "available" ELSE lease

\* begin_close_locked; a second call is answered ALREADY_CLOSED.
BeginClosed == IF lease \in {"available", "leased"} THEN "closing" ELSE lease

Acquire(c) ==
    /\ pc[c] = "idle"
    /\ acquire
    /\ pc' = [pc EXCEPT ![c] = "token"]
    /\ UNCHANGED <<transports, operation, transport, hand, detached, place, owner>>

Release(c) ==
    /\ pc[c] = "token"
    /\ release
    /\ pc' = [pc EXCEPT ![c] = "idle"]
    /\ UNCHANGED <<transports, operation, transport, hand, detached, place, owner>>

BeginClose ==
    /\ lease \in {"available", "leased"}
    /\ lease' = BeginClosed
    /\ UNCHANGED <<active, transports, operation, transport, pc, hand, detached, place, owner>>

Quiesce ==
    /\ lease = "closing"
    /\ active = 0
    /\ lease' = "closed"
    /\ UNCHANGED <<active, transports, operation, transport, pc, hand, detached, place, owner>>

Destroy ==
    /\ lease = "closed"
    /\ active = 0
    /\ transports = 0
    /\ lease' = "freed"
    /\ UNCHANGED <<active, transports, operation, transport, pc, hand, detached, place, owner>>

-----------------------------------------------------------------------------
(* Operations: armed with a token, completed once; the token is released by *)
(* whichever comes last of the completion and the provider's leaving.       *)

OpBegin(o) ==
    /\ operation[o].state = "none"
    /\ acquire
    /\ operation' = [operation EXCEPT ![o].state = "armed", ![o].token = TRUE]
    /\ UNCHANGED <<transports, transport, pc, hand, detached, place, owner>>

\* release(&operation->token): a token that was released before is refused.
ReleaseToken(o, new) ==
    /\ operation' = [operation EXCEPT ![o] = [new EXCEPT !.token = FALSE]]
    /\ IF operation[o].token THEN release ELSE UNCHANGED <<lease, active>>

KeepToken(o, new) ==
    /\ operation' = [operation EXCEPT ![o] = new]
    /\ UNCHANGED <<lease, active>>

\* Mutant: the token is released under the provider's feet.
OpCompleteReleases(o) ==
    /\ operation[o].state = "armed"
    /\ \E s \in Terminal : ReleaseToken(o, [operation[o] EXCEPT !.state = s])
    /\ UNCHANGED <<transports, transport, pc, hand, detached, place, owner>>
OpComplete(o) ==
    /\ operation[o].state = "armed"
    /\ \E s \in Terminal :
         LET new == [operation[o] EXCEPT !.state = s]
         IN IF operation[o].provider THEN KeepToken(o, new) ELSE ReleaseToken(o, new)
    /\ UNCHANGED <<transports, transport, pc, hand, detached, place, owner>>

ProviderEnter(o) ==
    /\ operation[o].state = "armed"
    /\ ~operation[o].provider
    /\ KeepToken(o, [operation[o] EXCEPT !.provider = TRUE])
    /\ UNCHANGED <<transports, transport, pc, hand, detached, place, owner>>

ProviderLeave(o) ==
    /\ operation[o].provider
    /\ LET new == [operation[o] EXCEPT !.provider = FALSE]
       IN IF operation[o].state = "armed" THEN KeepToken(o, new) ELSE ReleaseToken(o, new)
    /\ UNCHANGED <<transports, transport, pc, hand, detached, place, owner>>

OpDestroy(o) ==
    /\ operation[o].state \in Terminal
    /\ ~operation[o].provider
    /\ KeepToken(o, [operation[o] EXCEPT !.state = "destroyed"])
    /\ UNCHANGED <<transports, transport, pc, hand, detached, place, owner>>

-----------------------------------------------------------------------------
(* Transports: create, create_typed. *)

\* create_typed retains the owner of the callbacks first and gives it back
\* when the transport is refused.
CreateTransport(t, typed) ==
    /\ transport[t].state = "none"
    /\ lease \in {"available", "leased"}
    /\ transports' = transports + 1
    /\ transport' = [transport EXCEPT ![t].state = "live", ![t].typed = typed]
    /\ owner' = IF typed THEN owner + 1 ELSE owner
    /\ UNCHANGED <<lease, active, operation, pc, hand, detached, place>>

Live(t) == transport[t].state = "live"
Set(c, p, h) == pc' = [pc EXCEPT ![c] = p] /\ hand' = [hand EXCEPT ![c] = h]

-----------------------------------------------------------------------------
(* send_prepare, send_commit, send_cancel *)

Room(t) == Len(transport[t].queue) + transport[t].reservations < Capacity

SendPrepare(c, t, v) ==
    /\ pc[c] = "idle"
    /\ Live(t) /\ ~transport[t].closed
    /\ place[v] = "source" /\ \A d \in Clients : hand[d].v # v
    /\ Room(t)
    /\ acquire
    /\ transport' = [transport EXCEPT ![t].reservations = @ + 1]
    /\ Set(c, "prepared", [t |-> t, v |-> v])
    /\ UNCHANGED <<transports, operation, detached, place, owner>>

Unreserve(c) ==
    /\ transport' = [transport EXCEPT ![hand[c].t].reservations = @ - 1]
    /\ release
    /\ Set(c, "idle", Empty)
    /\ UNCHANGED <<transports, operation, detached, place, owner>>

\* send_cancel, send_fail, and send_commit when the transport has closed.
SendCancel(c) ==
    /\ pc[c] = "prepared"
    /\ Unreserve(c)

\* send_commit as far as the move callback: the commit is selected.
SendSelect(c) ==
    /\ pc[c] = "prepared"
    /\ ~transport[hand[c].t].closed
    /\ pc' = [pc EXCEPT ![c] = "moving"]
    /\ UNCHANGED <<lease, active, transports, operation, transport, hand, detached, place, owner>>

SendMove(c) ==
    /\ pc[c] = "moving"
    /\ pc' = [pc EXCEPT ![c] = "moved"]
    /\ place' = [place EXCEPT ![hand[c].v] = "node"]
    /\ UNCHANGED <<lease, active, transports, operation, transport, hand, detached, owner>>

SendLink(c) ==
    /\ pc[c] = "moved"
    /\ transport' = [transport EXCEPT ![hand[c].t].queue = Append(@, hand[c].v),
                                      ![hand[c].t].reservations = @ - 1]
    /\ release
    /\ Set(c, "idle", Empty)
    /\ UNCHANGED <<transports, operation, detached, place, owner>>

-----------------------------------------------------------------------------
(* receive_acquire, receive_commit, receive_cancel, receive_take *)

\* When the lease refuses the token the node goes back to the head.
ReceiveAcquire(c, t) ==
    /\ pc[c] = "idle"
    /\ Live(t)
    /\ transport[t].queue # <<>>
    /\ acquire
    /\ transport' = [transport EXCEPT ![t].queue = Tail(@)]
    /\ Set(c, "acquired", [t |-> t, v |-> Head(transport[t].queue)])
    /\ UNCHANGED <<transports, operation, detached, place, owner>>

\* An opaque payload is copied out under the mutex; a typed one is refused.
ReceiveCommit(c) ==
    /\ pc[c] = "acquired"
    /\ ~transport[hand[c].t].typed
    /\ place' = [place EXCEPT ![hand[c].v] = "delivered"]
    /\ release
    /\ Set(c, "idle", Empty)
    /\ UNCHANGED <<transports, operation, transport, detached, owner>>

\* receive_cancel, receive_fail: the drop callback, then the token.
ReceiveDrop(c) ==
    /\ pc[c] = "acquired"
    /\ place' = [place EXCEPT ![hand[c].v] = "dropped"]
    /\ pc' = [pc EXCEPT ![c] = "consumed"]
    /\ UNCHANGED <<lease, active, transports, operation, transport, hand, detached, owner>>

\* A typed payload leaves with a reference of its own to the callbacks' owner.
\* Mutant: it leaves without one.
ReceiveTakeUnretained(c) ==
    /\ pc[c] = "acquired"
    /\ transport[hand[c].t].typed
    /\ place' = [place EXCEPT ![hand[c].v] = "owned"]
    /\ pc' = [pc EXCEPT ![c] = "consumed"]
    /\ UNCHANGED <<lease, active, transports, operation, transport, hand, detached, owner>>
ReceiveTake(c) ==
    /\ pc[c] = "acquired"
    /\ transport[hand[c].t].typed
    /\ owner' = owner + 1
    /\ place' = [place EXCEPT ![hand[c].v] = "owned"]
    /\ pc' = [pc EXCEPT ![c] = "consumed"]
    /\ UNCHANGED <<lease, active, transports, operation, transport, hand, detached>>

ReceiveFinish(c) ==
    /\ pc[c] = "consumed"
    /\ release
    /\ Set(c, "idle", Empty)
    /\ UNCHANGED <<transports, operation, transport, detached, place, owner>>

OwnedDestroy(v) ==
    /\ place[v] = "owned"
    /\ place' = [place EXCEPT ![v] = "dropped"]
    /\ owner' = owner - 1
    /\ UNCHANGED <<lease, active, transports, operation, transport, pc, hand, detached>>

-----------------------------------------------------------------------------
(* close, destroy *)

\* The first call closes the transport and begins to close the lease under
\* every transport of it; a call that finds a token or a callback running
\* returns NOT_READY.  Otherwise it detaches the queue.
Close(c, t) ==
    /\ pc[c] = "idle"
    /\ Live(t) /\ ~transport[t].quiesced
    /\ lease' = IF transport[t].closed THEN lease ELSE BeginClosed
    /\ IF transport[t].callbacks # 0 \/ active # 0
       THEN /\ transport' = [transport EXCEPT ![t].closed = TRUE]
            /\ UNCHANGED <<pc, hand, detached>>
       ELSE /\ transport' = [transport EXCEPT ![t].closed = TRUE, ![t].queue = <<>>,
                                              ![t].callbacks = @ + 1]
            /\ detached' = [detached EXCEPT ![c] = transport[t].queue]
            /\ Set(c, "dropping", [t |-> t, v |-> None])
    /\ UNCHANGED <<active, transports, operation, place, owner>>

CloseDrop(c) ==
    /\ pc[c] = "dropping"
    /\ detached[c] # <<>>
    /\ place' = [place EXCEPT ![Head(detached[c])] = "dropped"]
    /\ detached' = [detached EXCEPT ![c] = Tail(@)]
    /\ UNCHANGED <<lease, active, transports, operation, transport, pc, hand, owner>>

\* quiesce succeeds on a lease that is closed, or closing without tokens.
CloseFinish(c) ==
    /\ pc[c] = "dropping"
    /\ detached[c] = <<>>
    /\ LET quiet == lease = "closed" \/ (lease = "closing" /\ active = 0)
       IN /\ lease' = IF quiet THEN "closed" ELSE lease
          /\ transport' = [transport EXCEPT ![hand[c].t].callbacks = @ - 1,
                                            ![hand[c].t].quiesced = quiet]
    /\ Set(c, "idle", Empty)
    /\ UNCHANGED <<active, transports, operation, detached, place, owner>>

DestroyTransport(t) ==
    /\ Live(t)
    /\ transport[t].quiesced
    /\ active = 0
    /\ transport[t].queue = <<>>
    /\ owner' = IF transport[t].typed THEN owner - 1 ELSE owner
    /\ transports' = transports - 1
    /\ transport' = [transport EXCEPT ![t].state = "freed"]
    /\ UNCHANGED <<lease, active, operation, pc, hand, detached, place>>

-----------------------------------------------------------------------------
Done == lease = "freed" /\ UNCHANGED vars

Step ==
    \/ BeginClose \/ Quiesce \/ Destroy \/ Done
    \/ \E o \in Operations :
         OpBegin(o) \/ OpComplete(o) \/ ProviderEnter(o) \/ ProviderLeave(o) \/ OpDestroy(o)
    \/ \E t \in Transports :
         \/ \E typed \in BOOLEAN : CreateTransport(t, typed)
         \/ DestroyTransport(t)
         \/ \E c \in Clients : ReceiveAcquire(c, t) \/ Close(c, t)
         \/ \E c \in Clients, v \in Payloads : SendPrepare(c, t, v)
    \/ \E c \in Clients :
         \/ Acquire(c) \/ Release(c)
         \/ SendCancel(c) \/ SendSelect(c) \/ SendMove(c) \/ SendLink(c)
         \/ ReceiveCommit(c) \/ ReceiveDrop(c) \/ ReceiveTake(c) \/ ReceiveFinish(c)
         \/ CloseDrop(c) \/ CloseFinish(c)
    \/ \E v \in Payloads : OwnedDestroy(v)

Next == Step /\ UNCHANGED policy

Spec == Init /\ [][Next]_vars

-----------------------------------------------------------------------------
(* Properties *)

\* Types of the lease, the operations, the transports and the clients.
TypeOK ==
    /\ policy \in {1, 2}
    /\ lease \in {"available", "leased", "closing", "closed", "freed"}
    /\ active \in 0..(Cardinality(Clients) + Cardinality(Operations))
    /\ transports \in 0..Cardinality(Transports)
    /\ operation \in [Operations -> [state : {"none", "armed", "destroyed"} \cup Terminal,
                                     provider : BOOLEAN, token : BOOLEAN]]
    /\ \A t \in Transports :
         /\ transport[t].state \in {"none", "live", "freed"}
         /\ Len(transport[t].queue) + transport[t].reservations \in 0..Capacity
         /\ transport[t].callbacks \in 0..1
    /\ pc \in [Clients -> {"idle", "dropping"} \cup Pinning]
    /\ place \in [Payloads -> Places]
    /\ owner \in Nat

\* Every token counted in lease->active is one somebody can still release, and
\* an exclusive lease has at most one.
Tokens == Cardinality({c \in Clients : pc[c] \in Pinning})
            + Cardinality({o \in Operations : operation[o].token})
ActiveExact == active = Tokens /\ (policy = 1 => Tokens <= 1)

\* An operation pins the resource exactly while it is armed or its provider is
\* inside, whichever of completion and provider_leave comes last.
OperationPins ==
    \A o \in Operations :
      operation[o].token <=> operation[o].state = "armed" \/ operation[o].provider

\* A closed lease has nobody using the resource, a freed one has no transport
\* that still points at it, and closing one transport closes the lease for all.
ClosedIsQuiet ==
    /\ \A t \in Transports : transport[t].closed => lease \notin {"available", "leased"}
    /\ lease \in {"closed", "freed"} => Tokens = 0
    /\ lease = "freed" => \A t \in Transports : ~Live(t)

\* A transport that reports itself closed has no payload, no capability and no
\* running callback left, so that destroying it drops nothing and frees
\* nothing in use.
QuiescedIsEmpty ==
    \A t \in Transports : transport[t].quiesced =>
      /\ transport[t].queue = <<>> /\ transport[t].reservations = 0
      /\ \A c \in Clients : hand[c].t # t

\* Every payload has one owner: a node is in exactly one queue, one client's
\* hand or one detached list, and a payload that has left is in none.
Holding(v) ==
    Cardinality({p \in Transports \X (1..Capacity) :
                   p[2] <= Len(transport[p[1]].queue) /\ transport[p[1]].queue[p[2]] = v})
      + Cardinality({c \in Clients : hand[c].v = v /\ pc[c] \in {"moved", "acquired"}})
      + Cardinality({p \in Clients \X (1..Capacity) :
                       p[2] <= Len(detached[p[1]]) /\ detached[p[1]][p[2]] = v})
SingleOwner == \A v \in Payloads : Holding(v) = IF place[v] = "node" THEN 1 ELSE 0

\* The code behind the callbacks is retained once for each typed transport
\* and each payload taken out, so it outlives every drop it will be asked for
\* ("Typed results keep the callback owner alive independently of the queue").
OwnerRetained ==
    owner = Cardinality({t \in Transports : Live(t) /\ transport[t].typed})
              + Cardinality({v \in Payloads : place[v] = "owned"})

\* The lease counts its users exactly and closes over none of them: types, the active
\* count, what operations pin, and the quiet of a closed lease and of a closed transport
\* (acquire, release, complete, provider_leave, quiesce, destroy, transport close).
LeaseCounted == TypeOK /\ ActiveExact /\ OperationPins /\ ClosedIsQuiet /\ QuiescedIsEmpty

\* A payload in a transport has one owner until it leaves, and whoever has it keeps the
\* code behind its callbacks (send_commit, receive_acquire, receive_take, close).
PayloadsOwned == SingleOwner /\ OwnerRetained
=============================================================================
