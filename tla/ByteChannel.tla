---------------------------- MODULE ByteChannel -----------------------------
(***************************************************************************)
(* The blocking byte channel of the host runtime                           *)
(* (runtime/src/Host/next_channel_v1.c): a ring buffer under one mutex,    *)
(* with senders asleep until their bytes fit, receivers asleep until there *)
(* is a byte, and a closer asleep until nobody sleeps in the channel.      *)
(*                                                                         *)
(* Every critical section is one action.  An entry point first reads the   *)
(* channel (magic and capacity) without the mutex: the step between that   *)
(* read and the mutex is where a close can free the channel under a call.  *)
(***************************************************************************)
EXTENDS Naturals, Sequences, FiniteSets

CONSTANTS
    Callers,    \* threads that call the channel
    Capacity,   \* the capacity given to channel_init
    Numbers,    \* byte numbers, more than Capacity of them
    Exclusive   \* TRUE: no call is between its check and the mutex when the
                \* channel is closed, and none begins afterwards

\* What the theorems assume of the constants; every instance a run checks has it.
ConstantsOK ==
    /\ IsFiniteSet(Callers)
    /\ Capacity \in Nat \ {0}
    /\ Numbers \in Nat \ {0}
    /\ Exclusive \in BOOLEAN

VARIABLES
    buffer,     \* channel->buffer, by index from 0
    head,       \* channel->head
    size,       \* channel->size
    waiters,    \* channel->waiters
    closed,     \* channel->closed
    freed,      \* the channel's memory is freed
    pc,         \* where each caller is
    amount,     \* the size or capacity argument of each caller
    next,       \* number of the next byte a send stores
    chunk       \* what the last receive copied out

vars == <<buffer, head, size, waiters, closed, freed, pc, amount, next, chunk>>

SendPc == {"send", "sendAsleep", "sendWoken"}
ReceivePc == {"receive", "receiveAsleep", "receiveWoken"}
ClosePc == {"closeAsleep", "closeWoken", "free"}
PC == {"idle"} \cup SendPc \cup ReceivePc \cup ClosePc

Init ==
    /\ buffer = [i \in 0..(Capacity - 1) |-> 0]
    /\ head = 0 /\ size = 0 /\ waiters = 0
    /\ closed = FALSE
    /\ freed = FALSE
    /\ pc = [c \in Callers |-> "idle"]
    /\ amount = [c \in Callers |-> 0]
    /\ next = 0
    /\ chunk = <<>>

-----------------------------------------------------------------------------
(* next_channel_wake_all on each of the three condition variables. *)

\* pcs with every sleeper of one condition variable woken.
Woken(pcs, asleep, woken) ==
    [c \in Callers |-> IF pcs[c] = asleep THEN woken ELSE pcs[c]]
WakeReadable(pcs) == Woken(pcs, "receiveAsleep", "receiveWoken")
WakeWritable(pcs) == Woken(pcs, "sendAsleep", "sendWoken")
WakeQuiescent(pcs) == Woken(pcs, "closeAsleep", "closeWoken")

\* A condition variable may also wake a sleeper by itself.
SpuriousWake(c) ==
    /\ \E w \in {<<"sendAsleep", "sendWoken">>, <<"receiveAsleep", "receiveWoken">>,
                 <<"closeAsleep", "closeWoken">>} :
         pc[c] = w[1] /\ pc' = [pc EXCEPT ![c] = w[2]]
    /\ UNCHANGED <<buffer, head, size, waiters, closed, freed, amount, next, chunk>>

-----------------------------------------------------------------------------
(* The checks of an entry point, made without the mutex. *)

\* Nobody gives the channel to a new call once it has been closed.
Offered == Exclusive => ~closed

\* A send larger than the capacity is refused here and changes nothing.
Call(c, entry, n) ==
    /\ pc[c] = "idle"
    /\ ~freed
    /\ Offered
    /\ pc' = [pc EXCEPT ![c] = entry]
    /\ amount' = [amount EXCEPT ![c] = n]
    /\ UNCHANGED <<buffer, head, size, waiters, closed, freed, next, chunk>>
CallSend(c) == \E n \in 0..Capacity : Call(c, "send", n)
CallReceive(c) == \E n \in 1..Capacity : Call(c, "receive", n)

\* One pass of a wait loop as far as its condition: a caller that slept is
\* subtracted from the waiters, and the last one wakes the closer.
Resumed(c, woken) ==
    IF pc[c] # woken THEN <<waiters, pc>>
    ELSE <<waiters - 1, IF waiters = 1 THEN WakeQuiescent(pc) ELSE pc>>

Returned(c) == amount' = [amount EXCEPT ![c] = 0]

-----------------------------------------------------------------------------
(* send *)

tail == (head + size) % Capacity

\* The two copies of the ring, split where the buffer ends.
\* Mutant: the copy does not go on at the start of the buffer.
StoredUnsplit(n) ==
    [i \in 0..(Capacity - 1) |->
        IF i >= tail /\ i - tail < n THEN (next + (i - tail)) % Numbers ELSE buffer[i]]
Stored(n) ==
    LET first == IF Capacity - tail > n THEN n ELSE Capacity - tail
    IN [i \in 0..(Capacity - 1) |->
          IF i >= tail /\ i < tail + first THEN (next + (i - tail)) % Numbers
          ELSE IF i < n - first THEN (next + first + i) % Numbers
          ELSE buffer[i]]

Fits(c) == Capacity - size >= amount[c]

SendSleep(c) ==
    /\ pc[c] \in {"send", "sendWoken"}
    /\ ~closed
    /\ ~Fits(c)
    /\ LET r == Resumed(c, "sendWoken")
       IN /\ waiters' = r[1] + 1
          /\ pc' = [r[2] EXCEPT ![c] = "sendAsleep"]
    /\ UNCHANGED <<buffer, head, size, closed, freed, amount, next, chunk>>

SendPut(c) ==
    /\ pc[c] \in {"send", "sendWoken"}
    /\ ~closed
    /\ Fits(c)
    /\ LET r == Resumed(c, "sendWoken")
       IN /\ waiters' = r[1]
          /\ pc' = WakeReadable([r[2] EXCEPT ![c] = "idle"])
    /\ buffer' = Stored(amount[c])
    /\ size' = size + amount[c]
    /\ next' = (next + amount[c]) % Numbers
    /\ Returned(c)
    /\ UNCHANGED <<head, closed, freed, chunk>>

\* Mutant: a send that finds the channel closed stays counted.
SendClosedCounted(c) ==
    /\ pc[c] \in {"send", "sendWoken"}
    /\ closed
    /\ pc' = [pc EXCEPT ![c] = "idle"]
    /\ Returned(c)
    /\ UNCHANGED <<buffer, head, size, waiters, closed, freed, next, chunk>>
SendClosed(c) ==
    /\ pc[c] \in {"send", "sendWoken"}
    /\ closed
    /\ LET r == Resumed(c, "sendWoken")
       IN /\ waiters' = r[1]
          /\ pc' = [r[2] EXCEPT ![c] = "idle"]
    /\ Returned(c)
    /\ UNCHANGED <<buffer, head, size, closed, freed, next, chunk>>

-----------------------------------------------------------------------------
(* receive *)

ReceiveSleep(c) ==
    /\ pc[c] \in {"receive", "receiveWoken"}
    /\ ~closed
    /\ size = 0
    /\ LET r == Resumed(c, "receiveWoken")
       IN /\ waiters' = r[1] + 1
          /\ pc' = [r[2] EXCEPT ![c] = "receiveAsleep"]
    /\ UNCHANGED <<buffer, head, size, closed, freed, amount, next, chunk>>

\* The bytes copied out, in the two pieces of the ring.
Copied(n) ==
    LET first == IF Capacity - head > n THEN n ELSE Capacity - head
    IN [i \in 1..n |-> IF i <= first THEN buffer[head + i - 1] ELSE buffer[i - first - 1]]

\* A receive that has slept through the close still takes what is pending.
ReceiveTake(c) ==
    /\ pc[c] \in {"receive", "receiveWoken"}
    /\ size # 0
    /\ LET r == Resumed(c, "receiveWoken")
           n == IF size < amount[c] THEN size ELSE amount[c]
       IN /\ waiters' = r[1]
          /\ pc' = WakeWritable([r[2] EXCEPT ![c] = "idle"])
          /\ chunk' = Copied(n)
          /\ head' = (head + n) % Capacity
          /\ size' = size - n
    /\ Returned(c)
    /\ UNCHANGED <<buffer, closed, freed, next>>

ReceiveClosed(c) ==
    /\ pc[c] \in {"receive", "receiveWoken"}
    /\ closed
    /\ size = 0
    /\ LET r == Resumed(c, "receiveWoken")
       IN /\ waiters' = r[1]
          /\ pc' = [r[2] EXCEPT ![c] = "idle"]
    /\ Returned(c)
    /\ UNCHANGED <<buffer, head, size, closed, freed, next, chunk>>

-----------------------------------------------------------------------------
(* close *)

\* The handle is consumed by one close.
\* Mutant: it does not wait for the callers it has woken.
CloseBeginImpatient(c) ==
    /\ pc[c] = "idle"
    /\ ~closed
    /\ Exclusive => \A d \in Callers : pc[d] \notin {"send", "receive"}
    /\ closed' = TRUE
    /\ pc' = [WakeWritable(WakeReadable(pc)) EXCEPT ![c] = "free"]
    /\ UNCHANGED <<buffer, head, size, waiters, freed, amount, next, chunk>>
CloseBegin(c) ==
    /\ pc[c] = "idle"
    /\ ~closed
    /\ Exclusive => \A d \in Callers : pc[d] \notin {"send", "receive"}
    /\ closed' = TRUE
    /\ pc' = [WakeWritable(WakeReadable(pc)) EXCEPT
                ![c] = IF waiters = 0 THEN "free" ELSE "closeAsleep"]
    /\ UNCHANGED <<buffer, head, size, waiters, freed, amount, next, chunk>>

CloseResume(c) ==
    /\ pc[c] = "closeWoken"
    /\ pc' = [pc EXCEPT ![c] = IF waiters = 0 THEN "free" ELSE "closeAsleep"]
    /\ UNCHANGED <<buffer, head, size, waiters, closed, freed, amount, next, chunk>>

CloseFree(c) ==
    /\ pc[c] = "free"
    /\ freed' = TRUE
    /\ pc' = [pc EXCEPT ![c] = "idle"]
    /\ UNCHANGED <<buffer, head, size, waiters, closed, amount, next, chunk>>

Done ==
    /\ freed
    /\ \A c \in Callers : pc[c] = "idle"
    /\ UNCHANGED vars

-----------------------------------------------------------------------------
Locked(c) ==
    \/ SendSleep(c) \/ SendPut(c) \/ SendClosed(c)
    \/ ReceiveSleep(c) \/ ReceiveTake(c) \/ ReceiveClosed(c)
    \/ CloseResume(c) \/ CloseFree(c)

Next ==
    \/ \E c \in Callers :
         CallSend(c) \/ CallReceive(c) \/ CloseBegin(c) \/ Locked(c) \/ SpuriousWake(c)
    \/ Done

Spec == Init /\ [][Next]_vars

\* A thread that is awake in the channel gets the mutex and goes on.
Fairness == \A c \in Callers : WF_vars(Locked(c))

FairSpec == Spec /\ Fairness

-----------------------------------------------------------------------------
(* Properties *)

\* Types of the channel's fields and of each caller's place.
TypeOK ==
    /\ buffer \in [0..(Capacity - 1) -> 0..(Numbers - 1)]
    /\ head \in 0..(Capacity - 1)
    /\ size \in 0..Capacity
    /\ waiters \in 0..Cardinality(Callers)
    /\ closed \in BOOLEAN /\ freed \in BOOLEAN
    /\ pc \in [Callers -> PC]
    /\ amount \in [Callers -> 0..Capacity]

\* close frees the channel after the last caller inside it has left: nobody
\* that still has to take the mutex is left when the memory goes
\* (channel_close waits for waiters to reach zero).
NoUseAfterFree == freed => \A c \in Callers : pc[c] = "idle"

\* Nobody sleeps through what it waits for: a sleeping sender does not fit, a
\* sleeping receiver has no byte, neither sleeps in a closed channel, and the
\* closer sleeps only while somebody is counted as waiting.
NoLostWakeup ==
    \A c \in Callers :
      /\ pc[c] = "sendAsleep" => ~closed /\ Capacity - size < amount[c]
      /\ pc[c] = "receiveAsleep" => ~closed /\ size = 0
      /\ pc[c] = "closeAsleep" => waiters # 0

\* What callers of the byte channel rely on: the fields keep their types, close frees it
\* after the last caller inside has left, and nobody sleeps through what it waits for
\* (channel_close against send and receive, next_channel_wake_all).
BytesSafety == TypeOK /\ NoUseAfterFree /\ NoLostWakeup

\* A close that has begun frees the channel in the end, whoever sleeps in it.
CloseTerminates == closed ~> freed

\* The ring buffer is a bounded stream of bytes: through every wrap of head
\* and tail the receivers get what the senders put in, in order, once.
Contents == [i \in 1..size |-> buffer[(head + i - 1) % Capacity]]
Abstract == INSTANCE ByteStream WITH pending <- Contents, open <- ~closed
ImplementsStream == Abstract!Stream
=============================================================================
