-------------------------- MODULE ByteChannelProofs -------------------------
(***************************************************************************)
(* Proofs about the byte channel, for any finite set of callers, any       *)
(* capacity and any range of byte numbers.                                 *)
(*                                                                         *)
(* That nobody sleeps without a reason is not inductive by itself: that    *)
(* the closer is woken needs that waiters counts the callers asleep or     *)
(* woken, and that it frees an unused channel needs that it saw that count *)
(* at zero.  IInv joins them with Shape, which says where the callers are  *)
(* before and after the close.  The same invariant carries the refinement: *)
(* the ring's indices are in range, so the two copies of a send and of a   *)
(* receive are the ends of one sequence.                                   *)
(***************************************************************************)
EXTENDS ByteChannel, FiniteSetTheorems, SequenceTheorems, TLAPS

\* The callers counted in channel->waiters: asleep, or woken and not yet
\* back under the mutex.
WaitPc == {"sendAsleep", "sendWoken", "receiveAsleep", "receiveWoken"}
Waiting == {c \in Callers : pc[c] \in WaitPc}

\* channel->waiters counts them.
WaitersExact == waiters = Cardinality(Waiting)

\* How the close, the callers' places and the flags fit together.
Shape ==
    /\ \A c, d \in Callers : pc[c] \in ClosePc /\ pc[d] \in ClosePc => c = d
    /\ \A c \in Callers : pc[c] \in ClosePc => closed /\ ~freed
    /\ \A c \in Callers : pc[c] = "free" => waiters = 0
    /\ \A c \in Callers : pc[c] \in ReceivePc => amount[c] # 0
    /\ freed => closed /\ waiters = 0
    /\ Exclusive /\ closed => \A c \in Callers : pc[c] \notin {"send", "receive"}

IInv ==
    /\ TypeOK
    /\ next \in 0..(Numbers - 1)
    /\ WaitersExact
    /\ Shape
    /\ NoLostWakeup

-----------------------------------------------------------------------------
(* Lemmas *)

\* The waiters counter is a natural number.
LEMMA WaitingFinite ==
    ASSUME ConstantsOK
    PROVE  IsFiniteSet(Waiting) /\ Cardinality(Waiting) \in Nat
  BY FS_Subset, FS_CardinalityType DEF ConstantsOK, Waiting

\* A caller c that goes on after its wait loop's check is no longer counted,
\* and the closer is awake if nobody else is (the head of each wait loop).
LEMMA Resume ==
    ASSUME ConstantsOK, IInv, NEW c \in Callers, NEW w \in {"sendWoken", "receiveWoken"},
           pc[c] \in {"send", "receive", w}
    PROVE  LET r == Resumed(c, w) IN
           /\ r[1] = Cardinality(Waiting \ {c}) /\ r[1] \in Nat
           /\ r[1] <= waiters
           /\ r[2] \in [Callers -> PC]
           /\ \A d \in Callers : r[2][d] # pc[d] =>
                 pc[d] = "closeAsleep" /\ r[2][d] = "closeWoken"
           /\ r[1] = 0 => \A d \in Callers : r[2][d] # "closeAsleep"
<1> DEFINE r == Resumed(c, w)
<1>1. waiters = Cardinality(Waiting) /\ IsFiniteSet(Waiting) /\ waiters \in Nat
  BY WaitingFinite DEF IInv, WaitersExact
<1>2. pc \in [Callers -> PC]
  BY DEF IInv, TypeOK
<1>3. \A d \in Callers : pc[d] = "closeAsleep" => waiters # 0
  BY DEF IInv, NoLostWakeup
<1>4. CASE pc[c] # w
  <2>1. r = <<waiters, pc>>
    BY <1>4 DEF Resumed
  <2>2. Waiting \ {c} = Waiting
    BY <1>4 DEF Waiting, WaitPc
  <2> QED
    BY <1>1, <1>2, <1>3, <2>1, <2>2
<1>5. CASE pc[c] = w
  <2>1. r = <<waiters - 1, IF waiters = 1 THEN WakeQuiescent(pc) ELSE pc>>
    BY <1>5 DEF Resumed
  <2>2. c \in Waiting
    BY <1>5 DEF Waiting, WaitPc
  <2>3. Cardinality(Waiting \ {c}) = waiters - 1 /\ waiters # 0
    BY <1>1, <2>2, FS_RemoveElement, FS_EmptySet
  <2>4. WakeQuiescent(pc) \in [Callers -> PC]
    BY <1>2 DEF WakeQuiescent, Woken, PC, ClosePc
  <2>5. \A d \in Callers : WakeQuiescent(pc)[d] # pc[d] =>
           pc[d] = "closeAsleep" /\ WakeQuiescent(pc)[d] = "closeWoken"
    BY DEF WakeQuiescent, Woken
  <2>6. \A d \in Callers : WakeQuiescent(pc)[d] # "closeAsleep"
    BY DEF WakeQuiescent, Woken
  <2> QED
    BY <1>1, <1>2, <1>3, <2>1, <2>3, <2>4, <2>5, <2>6
<1> QED
  BY <1>4, <1>5

\* One caller moves, and others may be woken: how every action changes pc.
Wakeup == {<<"sendAsleep", "sendWoken">>, <<"receiveAsleep", "receiveWoken">>,
           <<"closeAsleep", "closeWoken">>}
Moved(c, to) ==
    /\ pc' \in [Callers -> PC]
    /\ pc'[c] = to
    /\ \A d \in Callers \ {c} : pc'[d] = pc[d] \/ <<pc[d], pc'[d]>> \in Wakeup

\* The callers counted after such a move.
LEMMA CountedAfter ==
    ASSUME ConstantsOK, NEW c \in Callers, NEW to, Moved(c, to)
    PROVE  /\ to \in WaitPc => /\ Waiting' = (Waiting \ {c}) \cup {c}
                               /\ Cardinality(Waiting') = Cardinality(Waiting \ {c}) + 1
           /\ to \notin WaitPc => Waiting' = Waiting \ {c}
           /\ Cardinality(Waiting') \in 0..Cardinality(Callers)
<1>1. \A d \in Callers \ {c} : pc[d] \in WaitPc <=> pc'[d] \in WaitPc
  BY DEF Moved, Wakeup, WaitPc
<1>2. to \in WaitPc => Waiting' = (Waiting \ {c}) \cup {c}
  BY <1>1 DEF Moved, Waiting
<1>3. to \notin WaitPc => Waiting' = Waiting \ {c}
  BY <1>1 DEF Moved, Waiting
<1>4. IsFiniteSet(Waiting \ {c})
  BY FS_Subset DEF ConstantsOK, Waiting
<1>5. Cardinality((Waiting \ {c}) \cup {c}) = Cardinality(Waiting \ {c}) + 1
  BY <1>4, FS_AddElement
<1>6. Waiting' \subseteq Callers
  BY DEF Waiting
<1>7. /\ Cardinality(Waiting') \in Nat /\ Cardinality(Callers) \in Nat
      /\ Cardinality(Waiting') <= Cardinality(Callers)
  BY <1>6, FS_Subset, FS_CardinalityType DEF ConstantsOK
<1> QED
  BY <1>2, <1>3, <1>5, <1>7

\* A caller that moves without a change of waiters, from and to a place that
\* is not counted, or from one that is to another.
LEMMA SameCount ==
    ASSUME ConstantsOK, IInv, NEW c \in Callers, NEW to, Moved(c, to),
           pc[c] \in WaitPc <=> to \in WaitPc, waiters' = waiters
    PROVE  WaitersExact' /\ waiters' \in 0..Cardinality(Callers)
<1>1. (Waiting \ {c}) \cup {c} = Waiting \/ Waiting \ {c} = Waiting
  BY DEF Waiting
<1>2. pc[c] \in WaitPc <=> c \in Waiting
  BY DEF Waiting
<1> QED
  BY <1>1, <1>2, CountedAfter DEF IInv, WaitersExact

\* A caller that stops waiting and returns or frees.
LEMMA Leaves ==
    ASSUME ConstantsOK, IInv, NEW c \in Callers, NEW to, Moved(c, to), to \notin WaitPc,
           waiters' = Cardinality(Waiting \ {c})
    PROVE  WaitersExact' /\ waiters' \in 0..Cardinality(Callers)
  BY CountedAfter DEF WaitersExact

\* A caller that goes to sleep.
LEMMA Sleeps ==
    ASSUME ConstantsOK, IInv, NEW c \in Callers, NEW to, Moved(c, to), to \in WaitPc,
           waiters' = Cardinality(Waiting \ {c}) + 1
    PROVE  WaitersExact' /\ waiters' \in 0..Cardinality(Callers)
  BY CountedAfter DEF WaitersExact

-----------------------------------------------------------------------------
(* The inductive step. *)

\* The bytes a send stores are byte numbers, whatever it leaves as it was.
LEMMA StoredType ==
    ASSUME ConstantsOK, IInv, NEW n \in 0..Capacity
    PROVE  /\ Stored(n) \in [0..(Capacity - 1) -> 0..(Numbers - 1)]
           /\ (next + n) % Numbers \in 0..(Numbers - 1)
<1> USE DEF ConstantsOK
<1>1. tail \in 0..(Capacity - 1)
  BY DEF tail, IInv, TypeOK
<1>2. \A a \in Nat : a % Numbers \in 0..(Numbers - 1)
  OBVIOUS
<1> DEFINE first == IF Capacity - tail > n THEN n ELSE Capacity - tail
<1>3. first \in 0..Capacity
  BY <1>1
<1> HIDE DEF first
<1>4. ASSUME NEW i \in 0..(Capacity - 1)
      PROVE  /\ i >= tail => (next + (i - tail)) % Numbers \in 0..(Numbers - 1)
             /\ (next + first + i) % Numbers \in 0..(Numbers - 1)
  <2>1. i >= tail => next + (i - tail) \in Nat
    BY <1>1 DEF IInv
  <2>2. next + first + i \in Nat
    BY <1>3 DEF IInv
  <2> QED
    BY <1>2, <2>1, <2>2
<1>5. buffer \in [0..(Capacity - 1) -> 0..(Numbers - 1)]
  BY DEF IInv, TypeOK
<1>6. Stored(n) = [i \in 0..(Capacity - 1) |->
          IF i >= tail /\ i < tail + first THEN (next + (i - tail)) % Numbers
          ELSE IF i < n - first THEN (next + first + i) % Numbers
          ELSE buffer[i]]
  BY DEF Stored, first
<1>7. next + n \in Nat
  BY DEF IInv
<1> QED
  BY <1>2, <1>4, <1>5, <1>6, <1>7

\* Every action of the channel preserves IInv.
LEMMA Inductive ==
    ASSUME ConstantsOK
    PROVE  IInv /\ [Next]_vars => IInv'
<1> SUFFICES ASSUME IInv, [Next]_vars PROVE IInv'
  OBVIOUS
<1> USE DEF IInv
<1>1. ASSUME NEW c \in Callers, NEW entry \in {"send", "receive"}, NEW n \in 0..Capacity,
             entry = "receive" => n # 0, Call(c, entry, n)
      PROVE  IInv'
  <2>1. pc[c] = "idle" /\ pc' = [pc EXCEPT ![c] = entry]
    BY <1>1 DEF Call
  <2>2. Moved(c, entry)
    BY <2>1 DEF Moved, TypeOK, PC, SendPc, ReceivePc
  <2>3. WaitersExact' /\ waiters' \in 0..Cardinality(Callers)
    BY <1>1, <2>1, <2>2, SameCount DEF Call, WaitPc
  <2>4. TypeOK' /\ next' \in 0..(Numbers - 1)
    BY <1>1, <2>2, <2>3 DEF Call, TypeOK, Moved
  <2>5. Shape'
    BY <1>1, <2>1 DEF Call, Offered, Shape, TypeOK, ClosePc, ReceivePc
  <2>6. NoLostWakeup'
    BY <1>1, <2>1 DEF Call, NoLostWakeup, TypeOK
  <2> QED
    BY <2>3, <2>4, <2>5, <2>6
<1>2. ASSUME NEW c \in Callers, SendSleep(c)
      PROVE  IInv'
  <2> DEFINE r == Resumed(c, "sendWoken")
  <2>1. /\ pc[c] \in {"send", "sendWoken"} /\ ~closed /\ ~Fits(c)
        /\ waiters' = r[1] + 1
        /\ pc' = [r[2] EXCEPT ![c] = "sendAsleep"]
        /\ UNCHANGED <<buffer, head, size, closed, freed, amount, next, chunk>>
    BY <1>2 DEF SendSleep
  <2>2. /\ r[1] = Cardinality(Waiting \ {c}) /\ r[1] \in Nat
        /\ r[2] \in [Callers -> PC]
        /\ \A d \in Callers : r[2][d] # pc[d] =>
              pc[d] = "closeAsleep" /\ r[2][d] = "closeWoken"
    BY <2>1, Resume
  <2> HIDE DEF r
  <2>3. Moved(c, "sendAsleep")
    BY <2>1, <2>2 DEF Moved, Wakeup, PC, SendPc
  <2>4. WaitersExact' /\ waiters' \in 0..Cardinality(Callers)
    BY <2>1, <2>2, <2>3, Sleeps DEF WaitPc
  <2>5. TypeOK' /\ next' \in 0..(Numbers - 1)
    BY <2>1, <2>3, <2>4 DEF TypeOK, Moved
  <2>6. Shape'
    BY <2>1, <2>3 DEF Shape, Moved, Wakeup, ClosePc, ReceivePc
  <2>7. NoLostWakeup'
    <3>1. Capacity - size < amount[c]
      BY <2>1 DEF Fits, TypeOK, ConstantsOK
    <3> QED
      BY <2>1, <2>2, <2>3, <3>1 DEF NoLostWakeup, Moved, Wakeup
  <2> QED
    BY <2>4, <2>5, <2>6, <2>7
<1>3. ASSUME NEW c \in Callers, SendPut(c)
      PROVE  IInv'
  <2> DEFINE r == Resumed(c, "sendWoken")
  <2>1. /\ pc[c] \in {"send", "sendWoken"} /\ ~closed /\ Fits(c)
        /\ waiters' = r[1]
        /\ pc' = WakeReadable([r[2] EXCEPT ![c] = "idle"])
        /\ buffer' = Stored(amount[c]) /\ size' = size + amount[c]
        /\ next' = (next + amount[c]) % Numbers
        /\ amount' = [amount EXCEPT ![c] = 0]
        /\ UNCHANGED <<head, closed, freed, chunk>>
    BY <1>3 DEF SendPut, Returned
  <2>2. /\ r[1] = Cardinality(Waiting \ {c}) /\ r[1] \in Nat
        /\ r[2] \in [Callers -> PC]
        /\ \A d \in Callers : r[2][d] # pc[d] =>
              pc[d] = "closeAsleep" /\ r[2][d] = "closeWoken"
        /\ r[1] = 0 => \A d \in Callers : r[2][d] # "closeAsleep"
    BY <2>1, Resume
  <2> HIDE DEF r
  <2>3. Moved(c, "idle") /\ \A d \in Callers : pc'[d] # "receiveAsleep"
    BY <2>1, <2>2 DEF Moved, Wakeup, WakeReadable, Woken, PC, ReceivePc, SendPc
  <2>4. WaitersExact' /\ waiters' \in 0..Cardinality(Callers)
    BY <2>1, <2>2, <2>3, Leaves DEF WaitPc
  <2>5. amount[c] \in 0..Capacity
    BY DEF TypeOK
  <2>6. TypeOK' /\ next' \in 0..(Numbers - 1)
    <3>1. buffer' \in [0..(Capacity - 1) -> 0..(Numbers - 1)] /\ next' \in 0..(Numbers - 1)
      BY <2>1, <2>5, StoredType
    <3>2. size' \in 0..Capacity
      BY <2>1, <2>5 DEF Fits, TypeOK, ConstantsOK
    <3>3. amount' \in [Callers -> 0..Capacity]
      BY <2>1 DEF TypeOK, ConstantsOK
    <3> QED
      BY <2>1, <2>3, <2>4, <3>1, <3>2, <3>3 DEF TypeOK, Moved
  <2>7. Shape'
    BY <2>1, <2>3 DEF Shape, Moved, Wakeup, ClosePc, ReceivePc
  <2>8. NoLostWakeup'
    <3> SUFFICES ASSUME NEW d \in Callers
                 PROVE  /\ pc'[d] = "sendAsleep" => ~closed' /\ Capacity - size' < amount'[d]
                        /\ pc'[d] = "closeAsleep" => waiters' # 0
      BY <2>3 DEF NoLostWakeup
    <3>1. pc'[d] = "sendAsleep" => d # c /\ pc[d] = "sendAsleep"
      BY <2>3 DEF Moved, Wakeup
    <3>2. pc'[d] = "closeAsleep" => d # c /\ r[2][d] = "closeAsleep"
      BY <2>1, <2>2, <2>3 DEF Moved, Wakeup, WakeReadable, Woken
    <3>3. pc[d] = "sendAsleep" => ~closed /\ Capacity - size < amount[d]
      BY DEF NoLostWakeup
    <3> QED
      <4>1. ASSUME pc'[d] = "sendAsleep"
            PROVE  ~closed' /\ Capacity - size' < amount'[d]
        <5>1. amount'[d] = amount[d] /\ amount[d] \in 0..Capacity
          BY <2>1, <3>1, <4>1 DEF TypeOK
        <5>2. size' = size + amount[c] /\ closed' = closed
          BY <2>1
        <5>3. ~closed /\ Capacity - size < amount[d]
          BY <3>1, <3>3, <4>1
        <5> QED
          BY <2>5, <5>1, <5>2, <5>3 DEF TypeOK, ConstantsOK
      <4>2. pc'[d] = "closeAsleep" => waiters' # 0
        BY <2>1, <2>2, <3>2
      <4> QED
        BY <4>1, <4>2
  <2> QED
    BY <2>4, <2>6, <2>7, <2>8
<1>4. ASSUME NEW c \in Callers, SendClosed(c) \/ ReceiveClosed(c)
      PROVE  IInv'
  <2>1. PICK w \in {"sendWoken", "receiveWoken"} :
          /\ pc[c] \in {"send", "receive", w} /\ closed
          /\ waiters' = Resumed(c, w)[1]
          /\ pc' = [Resumed(c, w)[2] EXCEPT ![c] = "idle"]
          /\ amount' = [amount EXCEPT ![c] = 0]
          /\ UNCHANGED <<buffer, head, size, closed, freed, next, chunk>>
    BY <1>4 DEF SendClosed, ReceiveClosed, Returned
  <2> DEFINE r == Resumed(c, w)
  <2>2. /\ r[1] = Cardinality(Waiting \ {c}) /\ r[1] \in Nat
        /\ r[1] <= waiters
        /\ r[2] \in [Callers -> PC]
        /\ \A d \in Callers : r[2][d] # pc[d] =>
              pc[d] = "closeAsleep" /\ r[2][d] = "closeWoken"
        /\ r[1] = 0 => \A d \in Callers : r[2][d] # "closeAsleep"
    BY <2>1, Resume
  <2>9. waiters' = r[1] /\ pc' = [r[2] EXCEPT ![c] = "idle"]
    BY <2>1
  <2> HIDE DEF r
  <2>3. Moved(c, "idle")
    BY <2>9, <2>2 DEF Moved, Wakeup, PC
  <2>4. WaitersExact' /\ waiters' \in 0..Cardinality(Callers)
    BY <2>9, <2>2, <2>3, Leaves DEF WaitPc
  <2>5. TypeOK' /\ next' \in 0..(Numbers - 1)
    BY <2>1, <2>3, <2>4 DEF TypeOK, Moved, ConstantsOK
  <2>6. waiters = 0 => waiters' = 0
    BY <2>9, <2>2 DEF TypeOK
  <2>7. Shape'
    BY <2>1, <2>3, <2>6 DEF Shape, Moved, Wakeup, ClosePc, ReceivePc
  <2>8. NoLostWakeup'
    BY <2>1, <2>9, <2>2, <2>3 DEF NoLostWakeup, Moved, Wakeup
  <2> QED
    BY <2>4, <2>5, <2>7, <2>8
<1>5. ASSUME NEW c \in Callers, ReceiveSleep(c)
      PROVE  IInv'
  <2> DEFINE r == Resumed(c, "receiveWoken")
  <2>1. /\ pc[c] \in {"receive", "receiveWoken"} /\ ~closed /\ size = 0
        /\ waiters' = r[1] + 1
        /\ pc' = [r[2] EXCEPT ![c] = "receiveAsleep"]
        /\ UNCHANGED <<buffer, head, size, closed, freed, amount, next, chunk>>
    BY <1>5 DEF ReceiveSleep
  <2>2. /\ r[1] = Cardinality(Waiting \ {c}) /\ r[1] \in Nat
        /\ r[2] \in [Callers -> PC]
        /\ \A d \in Callers : r[2][d] # pc[d] =>
              pc[d] = "closeAsleep" /\ r[2][d] = "closeWoken"
    BY <2>1, Resume
  <2> HIDE DEF r
  <2>3. Moved(c, "receiveAsleep")
    BY <2>1, <2>2 DEF Moved, Wakeup, PC, ReceivePc
  <2>4. WaitersExact' /\ waiters' \in 0..Cardinality(Callers)
    BY <2>1, <2>2, <2>3, Sleeps DEF WaitPc
  <2>5. TypeOK' /\ next' \in 0..(Numbers - 1)
    BY <2>1, <2>3, <2>4 DEF TypeOK, Moved
  <2>6. Shape'
    BY <2>1, <2>3 DEF Shape, Moved, Wakeup, ClosePc, ReceivePc
  <2>7. NoLostWakeup'
    BY <2>1, <2>2, <2>3 DEF NoLostWakeup, Moved, Wakeup
  <2> QED
    BY <2>4, <2>5, <2>6, <2>7
<1>6. ASSUME NEW c \in Callers, ReceiveTake(c)
      PROVE  IInv'
  <2> DEFINE r == Resumed(c, "receiveWoken")
             n == IF size < amount[c] THEN size ELSE amount[c]
  <2>1. /\ pc[c] \in {"receive", "receiveWoken"} /\ size # 0
        /\ waiters' = r[1]
        /\ pc' = WakeWritable([r[2] EXCEPT ![c] = "idle"])
        /\ head' = (head + n) % Capacity /\ size' = size - n
        /\ amount' = [amount EXCEPT ![c] = 0]
        /\ UNCHANGED <<buffer, closed, freed, next>>
    BY <1>6 DEF ReceiveTake, Returned
  <2>2. /\ r[1] = Cardinality(Waiting \ {c}) /\ r[1] \in Nat
        /\ r[1] <= waiters
        /\ r[2] \in [Callers -> PC]
        /\ \A d \in Callers : r[2][d] # pc[d] =>
              pc[d] = "closeAsleep" /\ r[2][d] = "closeWoken"
        /\ r[1] = 0 => \A d \in Callers : r[2][d] # "closeAsleep"
    BY <2>1, Resume
  <2> HIDE DEF r
  <2>3. Moved(c, "idle") /\ \A d \in Callers : pc'[d] # "sendAsleep"
    BY <2>1, <2>2 DEF Moved, Wakeup, WakeWritable, Woken, PC, ReceivePc, SendPc
  <2>4. WaitersExact' /\ waiters' \in 0..Cardinality(Callers)
    BY <2>1, <2>2, <2>3, Leaves DEF WaitPc
  <2>5. n \in 0..size
    BY DEF TypeOK, ConstantsOK
  <2> HIDE DEF n
  <2>6. TypeOK' /\ next' \in 0..(Numbers - 1)
    <3>1. head' \in 0..(Capacity - 1)
      <4>1. head + n \in Nat
        BY <2>5 DEF TypeOK, ConstantsOK
      <4> QED
        BY <2>1, <4>1 DEF ConstantsOK
    <3>2. size' \in 0..Capacity
      BY <2>1, <2>5 DEF TypeOK, ConstantsOK
    <3>3. amount' \in [Callers -> 0..Capacity]
      BY <2>1 DEF TypeOK, ConstantsOK
    <3> QED
      BY <2>1, <2>3, <2>4, <3>1, <3>2, <3>3 DEF TypeOK, Moved
  <2>7. waiters = 0 => waiters' = 0
    BY <2>1, <2>2 DEF TypeOK
  <2>8. Shape'
    BY <2>1, <2>3, <2>7 DEF Shape, Moved, Wakeup, ClosePc, ReceivePc
  <2>9. NoLostWakeup'
    <3> SUFFICES ASSUME NEW d \in Callers
                 PROVE  /\ pc'[d] = "receiveAsleep" => ~closed' /\ size' = 0
                        /\ pc'[d] = "closeAsleep" => waiters' # 0
      BY <2>3 DEF NoLostWakeup
    <3>1. pc'[d] # "receiveAsleep"
      BY <2>1, <2>3 DEF Moved, Wakeup, NoLostWakeup
    <3>2. pc'[d] = "closeAsleep" => d # c /\ r[2][d] = "closeAsleep"
      BY <2>1, <2>2, <2>3 DEF Moved, Wakeup, WakeWritable, Woken
    <3> QED
      BY <2>1, <2>2, <3>1, <3>2
  <2> QED
    BY <2>4, <2>6, <2>8, <2>9
<1>7. ASSUME NEW c \in Callers, CloseBegin(c)
      PROVE  IInv'
  <2> DEFINE to == IF waiters = 0 THEN "free" ELSE "closeAsleep"
  <2>1. /\ pc[c] = "idle" /\ ~closed /\ closed' = TRUE
        /\ Exclusive => \A d \in Callers : pc[d] \notin {"send", "receive"}
        /\ pc' = [WakeWritable(WakeReadable(pc)) EXCEPT ![c] = to]
        /\ UNCHANGED <<buffer, head, size, waiters, freed, amount, next, chunk>>
    BY <1>7 DEF CloseBegin
  <2>2. Moved(c, to) /\ \A d \in Callers : pc'[d] \notin {"sendAsleep", "receiveAsleep"}
    BY <2>1 DEF Moved, Wakeup, WakeWritable, WakeReadable, Woken, TypeOK, PC, SendPc,
                ReceivePc, ClosePc
  <2>3. WaitersExact' /\ waiters' \in 0..Cardinality(Callers)
    BY <2>1, <2>2, SameCount DEF WaitPc
  <2>4. TypeOK' /\ next' \in 0..(Numbers - 1)
    BY <2>1, <2>2, <2>3 DEF TypeOK, Moved
  <2>5. Shape'
    BY <2>1, <2>2 DEF Shape, Moved, Wakeup, ClosePc, ReceivePc
  <2>6. NoLostWakeup'
    BY <2>1, <2>2 DEF NoLostWakeup, Moved, Wakeup, Shape, ClosePc
  <2> QED
    BY <2>3, <2>4, <2>5, <2>6
<1>8. ASSUME NEW c \in Callers, CloseResume(c)
      PROVE  IInv'
  <2> DEFINE to == IF waiters = 0 THEN "free" ELSE "closeAsleep"
  <2>1. /\ pc[c] = "closeWoken" /\ pc' = [pc EXCEPT ![c] = to]
        /\ UNCHANGED <<buffer, head, size, waiters, closed, freed, amount, next, chunk>>
    BY <1>8 DEF CloseResume
  <2>2. Moved(c, to)
    BY <2>1 DEF Moved, TypeOK, PC, ClosePc
  <2>3. WaitersExact' /\ waiters' \in 0..Cardinality(Callers)
    BY <2>1, <2>2, SameCount DEF WaitPc
  <2>4. TypeOK' /\ next' \in 0..(Numbers - 1)
    BY <2>1, <2>2, <2>3 DEF TypeOK, Moved
  <2>5. Shape'
    BY <2>1 DEF Shape, TypeOK, ClosePc, ReceivePc
  <2>6. NoLostWakeup'
    BY <2>1 DEF NoLostWakeup, TypeOK
  <2> QED
    BY <2>3, <2>4, <2>5, <2>6
<1>9. ASSUME NEW c \in Callers, CloseFree(c)
      PROVE  IInv'
  <2>1. /\ pc[c] = "free" /\ freed' = TRUE /\ pc' = [pc EXCEPT ![c] = "idle"]
        /\ UNCHANGED <<buffer, head, size, waiters, closed, amount, next, chunk>>
    BY <1>9 DEF CloseFree
  <2>2. Moved(c, "idle")
    BY <2>1 DEF Moved, TypeOK, PC
  <2>3. WaitersExact' /\ waiters' \in 0..Cardinality(Callers)
    BY <2>1, <2>2, SameCount DEF WaitPc
  <2>4. TypeOK' /\ next' \in 0..(Numbers - 1)
    BY <2>1, <2>2, <2>3 DEF TypeOK, Moved
  <2>5. Shape'
    BY <2>1 DEF Shape, TypeOK, ClosePc, ReceivePc
  <2>6. NoLostWakeup'
    BY <2>1 DEF NoLostWakeup, TypeOK
  <2> QED
    BY <2>3, <2>4, <2>5, <2>6
<1>10. ASSUME NEW c \in Callers, SpuriousWake(c)
       PROVE  IInv'
  <2>1. PICK w \in Wakeup : pc[c] = w[1] /\ pc' = [pc EXCEPT ![c] = w[2]]
    BY <1>10 DEF SpuriousWake, Wakeup
  <2>2. UNCHANGED <<buffer, head, size, waiters, closed, freed, amount, next, chunk>>
    BY <1>10 DEF SpuriousWake
  <2>3. Moved(c, w[2])
    BY <2>1 DEF Moved, TypeOK, PC, SendPc, ReceivePc, ClosePc, Wakeup
  <2>4. WaitersExact' /\ waiters' \in 0..Cardinality(Callers)
    BY <2>1, <2>2, <2>3, SameCount DEF WaitPc, Wakeup
  <2>5. TypeOK' /\ next' \in 0..(Numbers - 1)
    BY <2>2, <2>3, <2>4 DEF TypeOK, Moved
  <2>6. Shape'
    BY <2>1, <2>2 DEF Shape, TypeOK, ClosePc, ReceivePc, Wakeup
  <2>7. NoLostWakeup'
    BY <2>1, <2>2 DEF NoLostWakeup, TypeOK, Wakeup
  <2> QED
    BY <2>4, <2>5, <2>6, <2>7
<1>11. CASE UNCHANGED vars
  BY <1>11 DEF vars, TypeOK, WaitersExact, Waiting, Shape, NoLostWakeup
<1>12. ASSUME NEW c \in Callers, CallSend(c) \/ CallReceive(c)
       PROVE  IInv'
  BY <1>1, <1>12 DEF CallSend, CallReceive
<1> QED
  BY <1>2, <1>3, <1>4, <1>5, <1>6, <1>7, <1>8, <1>9, <1>10, <1>11, <1>12
     DEF Next, Locked, Done

\* A fresh channel satisfies IInv (channel_init).
LEMMA Initial ==
    ASSUME ConstantsOK
    PROVE  Init => IInv
<1> SUFFICES ASSUME Init PROVE IInv
  OBVIOUS
<1>1. Waiting = {}
  BY DEF Init, Waiting, WaitPc
<1>2. Cardinality(Callers) \in Nat /\ Cardinality({}) = 0
  BY FS_CardinalityType, FS_EmptySet DEF ConstantsOK
<1>3. TypeOK /\ next \in 0..(Numbers - 1)
  <2>1. 0 \in 0..(Capacity - 1) /\ 0 \in 0..Capacity /\ 0 \in 0..(Numbers - 1)
    BY DEF ConstantsOK
  <2>2. 0 \in 0..Cardinality(Callers)
    BY <1>2
  <2> QED
    BY <2>1, <2>2 DEF Init, TypeOK, PC
<1> QED
  BY <1>1, <1>2, <1>3 DEF Init, IInv, WaitersExact, Shape, NoLostWakeup, ClosePc, ReceivePc

\* IInv holds throughout.
THEOREM Invariant ==
    ASSUME ConstantsOK
    PROVE  Spec => []IInv
  BY Initial, Inductive, PTL DEF Spec

-----------------------------------------------------------------------------
(* Safety *)

\* The fields of the channel keep their types, and nobody sleeps through what it
\* waits for, even if calls race with the close.
THEOREM Wakeups ==
    ASSUME ConstantsOK
    PROVE  Spec => [](TypeOK /\ NoLostWakeup)
<1>1. IInv => TypeOK /\ NoLostWakeup
  BY DEF IInv
<1> QED
  BY <1>1, Invariant, PTL

\* What callers of the byte channel rely on, when none of them passes the entry
\* checks while the channel is closed: types, no sleep without a reason, and the
\* memory freed only after the last caller has left (channel_close).
THEOREM Safe ==
    ASSUME ConstantsOK, Exclusive
    PROVE  Spec => []BytesSafety
<1>1. IInv => BytesSafety
  <2> SUFFICES ASSUME IInv, freed, NEW c \in Callers
               PROVE  pc[c] = "idle"
    BY DEF IInv, BytesSafety, NoUseAfterFree
  <2>1. closed /\ Cardinality(Waiting) = 0
    BY DEF IInv, Shape, WaitersExact
  <2>2. c \notin Waiting
    BY <2>1, WaitingFinite, FS_EmptySet
  <2>3. pc[c] \notin ClosePc /\ pc[c] \notin {"send", "receive"}
    BY <2>1 DEF IInv, Shape
  <2>4. pc[c] \in PC /\ pc[c] \notin WaitPc
    BY <2>2 DEF IInv, TypeOK, Waiting
  <2> QED
    BY <2>3, <2>4 DEF PC, SendPc, ReceivePc, WaitPc
<1> QED
  BY <1>1, Invariant, PTL

-----------------------------------------------------------------------------
(* The ring is a stream. *)

\* Where the i-th pending byte is.
Place(i) == (head + i - 1) % Capacity

\* The places of the ring: each is at most one wrap away, and the bytes a send
\* may add go on where the pending ones end.
LEMMA Places ==
    ASSUME ConstantsOK, IInv, NEW i \in 1..Capacity
    PROVE  /\ Place(i) \in 0..(Capacity - 1)
           /\ Place(i) = IF head + i - 1 < Capacity THEN head + i - 1
                         ELSE head + i - 1 - Capacity
<1>1. /\ Capacity \in Nat \ {0} /\ head \in Nat /\ head < Capacity
      /\ i \in Nat \ {0} /\ i <= Capacity
  BY DEF ConstantsOK, IInv, TypeOK
<1>2. Place(i) = IF head + i - 1 < Capacity THEN head + i - 1
                 ELSE head + i - 1 - Capacity
  BY <1>1 DEF Place
<1> QED
  BY <1>1, <1>2 DEF IInv, TypeOK

\* Where the two copies of a send put its bytes: behind the pending ones, which
\* they leave alone.
LEMMA Stores ==
    ASSUME ConstantsOK, IInv, NEW n \in 0..Capacity, size + n <= Capacity,
           NEW i \in 1..(size + n)
    PROVE  Stored(n)[Place(i)] = IF i <= size THEN buffer[Place(i)]
                                 ELSE (next + (i - size) - 1) % Numbers
<1> DEFINE first == IF Capacity - tail > n THEN n ELSE Capacity - tail
           k == Place(i)
<1>1. /\ Capacity \in Nat \ {0} /\ head \in Nat /\ head < Capacity
      /\ size \in Nat /\ size <= Capacity
      /\ next \in Nat
  BY DEF ConstantsOK, IInv, TypeOK
<1>2. head + size \in Nat /\ head + size < Capacity + Capacity
  BY <1>1
<1>3. tail = IF head + size < Capacity THEN head + size ELSE head + size - Capacity
  BY <1>1, <1>2 DEF tail
<1>4. i \in 1..Capacity
  BY <1>1
<1>5. /\ k \in 0..(Capacity - 1)
      /\ k = IF head + i - 1 < Capacity THEN head + i - 1 ELSE head + i - 1 - Capacity
  BY <1>4, Places
<1>6. Stored(n)[k] = IF k >= tail /\ k < tail + first THEN (next + (k - tail)) % Numbers
                     ELSE IF k < n - first THEN (next + first + k) % Numbers
                     ELSE buffer[k]
  BY <1>5 DEF Stored
<1> HIDE DEF k
<1>7. CASE i <= size
  <2>1. ~(k >= tail /\ k < tail + first) /\ ~(k < n - first)
    BY <1>1, <1>3, <1>5, <1>7
  <2> QED
    BY <1>6, <1>7, <2>1 DEF k
<1>8. CASE i > size
  <2>1. CASE k >= tail /\ k < tail + first
    <3>1. next + (k - tail) = next + (i - size) - 1
      BY <1>1, <1>3, <1>5, <1>8, <2>1
    <3>2. ~(i <= size)
      BY <1>1, <1>8
    <3> QED
      BY <1>6, <2>1, <3>1, <3>2 DEF k
  <2>2. CASE ~(k >= tail /\ k < tail + first)
    <3>1. k < n - first /\ next + first + k = next + (i - size) - 1
      BY <1>1, <1>3, <1>5, <1>8, <2>2
    <3>2. ~(i <= size)
      BY <1>1, <1>8
    <3> QED
      BY <1>6, <2>2, <3>1, <3>2 DEF k
  <2> QED
    BY <2>1, <2>2
<1> QED
  BY <1>1, <1>7, <1>8

\* What the two copies of a receive hand out: the oldest pending bytes.
LEMMA Copies ==
    ASSUME ConstantsOK, IInv, NEW n \in 1..size, NEW i \in 1..n
    PROVE  Copied(n)[i] = buffer[Place(i)]
<1> DEFINE first == IF Capacity - head > n THEN n ELSE Capacity - head
<1>1. /\ Capacity \in Nat \ {0} /\ head \in Nat /\ head < Capacity
      /\ size \in Nat /\ size <= Capacity
  BY DEF ConstantsOK, IInv, TypeOK
<1>2. i \in 1..Capacity
  BY <1>1
<1>3. Place(i) = IF head + i - 1 < Capacity THEN head + i - 1 ELSE head + i - 1 - Capacity
  BY <1>2, Places
<1>4. Copied(n)[i] = IF i <= first THEN buffer[head + i - 1] ELSE buffer[i - first - 1]
  BY DEF Copied
<1>5. CASE i <= first
  <2>1. head + i - 1 = Place(i)
    BY <1>1, <1>2, <1>3, <1>5
  <2> QED
    BY <1>4, <1>5, <2>1
<1>6. CASE ~(i <= first)
  <2>1. i - first - 1 = Place(i)
    BY <1>1, <1>2, <1>3, <1>6
  <2> QED
    BY <1>4, <1>6, <2>1
<1> QED
  BY <1>5, <1>6

\* Moving head over the bytes handed out leaves the rest in their order.
LEMMA Advances ==
    ASSUME ConstantsOK, IInv, NEW n \in 1..size, NEW i \in 1..(size - n),
           head' = (head + n) % Capacity
    PROVE  Place(i)' = Place(n + i)
<1>1. /\ Capacity \in Nat \ {0} /\ head \in Nat /\ head < Capacity
      /\ size \in Nat /\ size <= Capacity
  BY DEF ConstantsOK, IInv, TypeOK
<1>2. head + n \in Nat /\ head + n < Capacity + Capacity /\ n + i \in 1..Capacity
  BY <1>1
<1>3. head' = IF head + n < Capacity THEN head + n ELSE head + n - Capacity
  BY <1>1, <1>2
<1>4. Place(n + i) = IF head + (n + i) - 1 < Capacity THEN head + (n + i) - 1
                     ELSE head + (n + i) - 1 - Capacity
  BY <1>2, Places
<1>5. /\ head' \in Nat /\ head' < Capacity
      /\ i \in Nat \ {0} /\ i <= Capacity
  BY <1>1, <1>3
<1>6. Place(i)' = IF head' + i - 1 < Capacity THEN head' + i - 1
                  ELSE head' + i - 1 - Capacity
  BY <1>1, <1>5 DEF Place
<1> QED
  BY <1>1, <1>3, <1>4, <1>6

\* s bytes from index h of a ring b are a sequence of byte numbers.
LEMMA RingSeq ==
    ASSUME ConstantsOK, NEW b \in [0..(Capacity - 1) -> 0..(Numbers - 1)],
           NEW h \in 0..(Capacity - 1), NEW s \in 0..Capacity
    PROVE  LET ring == [i \in 1..s |-> b[(h + i - 1) % Capacity]] IN
           /\ ring \in Seq(0..(Numbers - 1))
           /\ Len(ring) = s
           /\ \A i \in 1..s : ring[i] = b[(h + i - 1) % Capacity]
<1>1. s \in Nat /\ Capacity \in Nat \ {0} /\ h \in Nat
  BY DEF ConstantsOK
<1>2. ASSUME NEW i \in 1..s
      PROVE  b[(h + i - 1) % Capacity] \in 0..(Numbers - 1)
  <2>1. (h + i - 1) % Capacity \in 0..(Capacity - 1)
    BY <1>1
  <2> QED
    BY <2>1
<1> QED
  BY <1>1, <1>2

\* The contents, before a step and after it.
LEMMA ContentsSeq ==
    ASSUME ConstantsOK, IInv, IInv'
    PROVE  /\ /\ Contents \in Seq(0..(Numbers - 1))
              /\ Len(Contents) = size
              /\ \A i \in 1..size : Contents[i] = buffer[Place(i)]
           /\ /\ Contents' \in Seq(0..(Numbers - 1))
              /\ Len(Contents') = size'
              /\ \A i \in 1..(size') : Contents'[i] = buffer'[Place(i)']
<1>1. /\ buffer \in [0..(Capacity - 1) -> 0..(Numbers - 1)]
      /\ head \in 0..(Capacity - 1) /\ size \in 0..Capacity
  BY DEF IInv, TypeOK
<1>2. /\ buffer' \in [0..(Capacity - 1) -> 0..(Numbers - 1)]
      /\ head' \in 0..(Capacity - 1) /\ size' \in 0..Capacity
  BY DEF IInv, TypeOK
<1>3. /\ Contents \in Seq(0..(Numbers - 1))
      /\ Len(Contents) = size
      /\ \A i \in 1..size : Contents[i] = buffer[Place(i)]
  <2>1. Contents = [i \in 1..size |-> buffer[(head + i - 1) % Capacity]]
    BY DEF Contents, Place
  <2>2. \A i \in 1..size : Place(i) = (head + i - 1) % Capacity
    BY DEF Place
  <2> QED
    BY <1>1, <2>1, <2>2, RingSeq
<1>4. /\ Contents' \in Seq(0..(Numbers - 1))
      /\ Len(Contents') = size'
      /\ \A i \in 1..(size') : Contents'[i] = buffer'[Place(i)']
  <2>1. Contents' = [i \in 1..(size') |-> buffer'[(head' + i - 1) % Capacity]]
    BY DEF Contents, Place
  <2>2. \A i \in 1..(size') : Place(i)' = (head' + i - 1) % Capacity
    BY DEF Place
  <2> QED
    BY <1>2, <2>1, <2>2, RingSeq
<1> QED
  BY <1>3, <1>4

\* A send is the stream's Accept: its bytes join the end of the contents.
LEMMA PutAccepts ==
    ASSUME ConstantsOK, IInv, IInv', NEW c \in Callers, SendPut(c)
    PROVE  \E n \in 0..Capacity : Abstract!Accept(n)
<1> DEFINE n == amount[c]
<1>1. n \in 0..Capacity /\ size \in 0..Capacity /\ Capacity \in Nat
  BY DEF IInv, TypeOK, ConstantsOK
<1>2. /\ ~closed /\ size + n <= Capacity /\ size' = size + n /\ head' = head
      /\ buffer' = Stored(n) /\ next' = (next + n) % Numbers
      /\ UNCHANGED <<closed, chunk>>
  BY <1>1 DEF SendPut, Fits
<1> HIDE DEF n
<1>3. Len(Contents) = size /\ Contents \in Seq(0..(Numbers - 1))
  BY ContentsSeq
<1>4. /\ Len(Contents') = size + n
      /\ Contents' \in Seq(0..(Numbers - 1))
      /\ \A i \in 1..(size + n) : Contents'[i] = buffer'[Place(i)']
  BY <1>2, ContentsSeq
<1>5. \A i \in 1..(size + n) :
        Contents'[i] = IF i <= size THEN Contents[i] ELSE (next + (i - size) - 1) % Numbers
  <2> TAKE i \in 1..(size + n)
  <2>1. Place(i)' = Place(i)
    BY <1>2 DEF Place
  <2>2. Stored(n)[Place(i)] = IF i <= size THEN buffer[Place(i)]
                              ELSE (next + (i - size) - 1) % Numbers
    BY <1>1, <1>2, Stores
  <2>3. i <= size => Contents[i] = buffer[Place(i)]
    BY <1>1, ContentsSeq
  <2> QED
    BY <1>2, <1>4, <2>1, <2>2, <2>3
<1>6. Contents' = Contents \o Abstract!Bytes(n)
  <2>1. /\ Abstract!Bytes(n) \in Seq(0..(Numbers - 1)) /\ Len(Abstract!Bytes(n)) = n
        /\ \A i \in 1..n : Abstract!Bytes(n)[i] = (next + i - 1) % Numbers
    BY <1>1 DEF Abstract!Bytes, IInv, ConstantsOK
  <2> DEFINE B == Abstract!Bytes(n)
             A == Contents \o B
  <2> HIDE DEF B
  <2>2. A \in Seq(0..(Numbers - 1)) /\ Len(A) = size + n
    BY <1>1, <1>3, <2>1 DEF B
  <2>3. ASSUME NEW i \in 1..(size + n) PROVE Contents'[i] = A[i]
    <3>1. CASE i <= size
      BY <1>1, <1>3, <1>5, <3>1
    <3>2. CASE ~(i <= size)
      <4>1. i - size \in 1..n /\ A[i] = B[i - size]
        BY <1>1, <1>3, <2>1, <3>2 DEF B
      <4>2. B[i - size] = (next + (i - size) - 1) % Numbers
        BY <2>1, <4>1 DEF B
      <4>3. Contents'[i] = (next + (i - size) - 1) % Numbers
        BY <1>5, <3>2
      <4> QED
        BY <4>1, <4>2, <4>3
    <3> QED
      BY <3>1, <3>2
  <2> HIDE DEF A
  <2> QED
    BY <1>4, <2>2, <2>3, SeqEqual DEF A, B
<1>7. Abstract!Accept(n)
  BY <1>2, <1>3, <1>6 DEF Abstract!Accept
<1> QED
  BY <1>1, <1>7

\* A receive is the stream's HandOut: it takes the oldest bytes, and the others
\* keep their order.
LEMMA TakeHandsOut ==
    ASSUME ConstantsOK, IInv, IInv', NEW c \in Callers, ReceiveTake(c)
    PROVE  \E n \in 1..Capacity : Abstract!HandOut(n)
<1> DEFINE n == IF size < amount[c] THEN size ELSE amount[c]
<1>1. /\ size \in Nat /\ size <= Capacity /\ size # 0 /\ Capacity \in Nat
      /\ amount[c] \in 1..Capacity
  BY DEF IInv, TypeOK, ConstantsOK, Shape, ReceivePc, ReceiveTake
<1>2. n \in 1..size /\ n \in 1..Capacity
  BY <1>1
<1>3. /\ chunk' = Copied(n) /\ head' = (head + n) % Capacity /\ size' = size - n
      /\ UNCHANGED <<buffer, closed, next>>
  BY DEF ReceiveTake
<1> HIDE DEF n
<1>4. /\ Contents \in Seq(0..(Numbers - 1)) /\ Len(Contents) = size
      /\ \A i \in 1..size : Contents[i] = buffer[Place(i)]
  BY ContentsSeq
<1>5. ASSUME NEW i \in 1..size
      PROVE  Contents[i] \in 0..(Numbers - 1)
  <2>1. Contents \in Seq(0..(Numbers - 1)) /\ i \in 1..Len(Contents)
    BY <1>4
  <2> QED
    BY <2>1, ElementOfSeq, Zenon
<1>6. /\ Contents' \in Seq(0..(Numbers - 1)) /\ Len(Contents') = size - n
      /\ \A i \in 1..(size - n) : Contents'[i] = buffer[Place(i)']
  BY <1>3, ContentsSeq
<1>7. chunk' = SubSeq(Contents, 1, n)
  <2> DEFINE A == SubSeq(Contents, 1, n)
  <2>1. A \in Seq(0..(Numbers - 1)) /\ Len(A) = n /\ \A i \in 1..n : A[i] = Contents[i]
    <3>1. \A i \in 1..n : Contents[i] \in 0..(Numbers - 1)
      BY <1>1, <1>2, <1>5
    <3> QED
      BY <1>2, <3>1, SubSeqProperties
  <2>2. \A i \in 1..n : Copied(n)[i] = Contents[i]
    BY <1>1, <1>2, <1>4, Copies
  <2>3. Copied(n) \in Seq(0..(Numbers - 1)) /\ Len(Copied(n)) = n
    <3>1. Copied(n) = [i \in 1..n |-> Copied(n)[i]]
      BY DEF Copied
    <3>2. \A i \in 1..n : Copied(n)[i] \in 0..(Numbers - 1)
      BY <1>1, <1>2, <1>5, <2>2
    <3>3. Copied(n) \in [1..n -> 0..(Numbers - 1)]
      BY <3>1, <3>2
    <3>4. n \in Nat
      BY <1>1, <1>2
    <3>5. Copied(n) \in Seq(0..(Numbers - 1))
      BY <3>3, <3>4, SeqDef
    <3>6. Len(Copied(n)) \in Nat /\ DOMAIN Copied(n) = 1..Len(Copied(n))
      BY <3>5, LenProperties
    <3>7. DOMAIN Copied(n) = 1..n
      BY <3>3
    <3>8. Len(Copied(n)) = n
      <4> DEFINE k == Len(Copied(n))
      <4>1. k \in Nat /\ 1..k = 1..n
        BY <3>6, <3>7
      <4> HIDE DEF k
      <4>2. n \in 1..k
        BY <1>1, <1>2, <4>1
      <4>3. k \in 1..n
        BY <4>1, <4>2, <3>4
      <4> QED
        BY <3>4, <4>1, <4>2, <4>3 DEF k
    <3> QED
      BY <3>5, <3>8
  <2> HIDE DEF A
  <2> QED
    BY <1>3, <2>1, <2>2, <2>3, SeqEqual DEF A
<1>8. Contents' = SubSeq(Contents, n + 1, Len(Contents))
  <2> DEFINE A == SubSeq(Contents, n + 1, Len(Contents))
  <2>1. /\ A \in Seq(0..(Numbers - 1)) /\ Len(A) = size - n
        /\ \A i \in 1..(size - n) : A[i] = Contents[n + i]
    <3>1. \A i \in (n + 1)..size : Contents[i] \in 0..(Numbers - 1)
      BY <1>1, <1>2, <1>5
    <3>2. \A i \in 1..(size - n) : n + 1 + i - 1 = n + i
      BY <1>1, <1>2
    <3> HIDE DEF A
    <3>3. /\ A \in Seq(0..(Numbers - 1))
          /\ Len(A) = IF n + 1 <= size THEN size - (n + 1) + 1 ELSE 0
          /\ \A i \in 1..(size - (n + 1) + 1) : A[i] = Contents[n + 1 + i - 1]
      BY <1>1, <1>2, <1>4, <3>1, SubSeqProperties DEF A
    <3> QED
      BY <1>1, <1>2, <3>2, <3>3
  <2>2. ASSUME NEW i \in 1..(size - n) PROVE Contents'[i] = Contents[n + i]
    <3>1. Place(i)' = Place(n + i)
      BY <1>2, <1>3, Advances
    <3>2. n + i \in 1..size
      BY <1>1, <1>2
    <3> QED
      BY <1>4, <1>6, <3>1, <3>2
  <2> HIDE DEF A
  <2> QED
    BY <1>6, <2>1, <2>2, SeqEqual DEF A
<1>9. Abstract!HandOut(n)
  BY <1>1, <1>2, <1>3, <1>4, <1>7, <1>8 DEF Abstract!HandOut
<1> QED
  BY <1>2, <1>9

\* Every step of the channel is a step of the stream or leaves it alone: puts are
\* accepted bytes, takes hand out the oldest, the close ends the stream, and the
\* sleeps, wakes, entries and the rest change nothing in it.
LEMMA StepSimulation ==
    ASSUME ConstantsOK, IInv, IInv', [Next]_vars
    PROVE  [Abstract!StreamNext]_(Abstract!streamVars)
<1> DEFINE Same == UNCHANGED <<buffer, head, size, chunk, next, closed>>
<1>1. Same => UNCHANGED Abstract!streamVars
  BY DEF Abstract!streamVars, Contents
<1>2. ASSUME NEW c \in Callers, SendPut(c)
      PROVE  Abstract!StreamNext
  BY <1>2, PutAccepts DEF Abstract!StreamNext
<1>3. ASSUME NEW c \in Callers, ReceiveTake(c)
      PROVE  Abstract!StreamNext
  BY <1>3, TakeHandsOut DEF Abstract!StreamNext
<1>4. ASSUME NEW c \in Callers, CloseBegin(c)
      PROVE  Abstract!StreamNext
  BY <1>4 DEF Abstract!StreamNext, Abstract!End, CloseBegin, Contents
<1>5. ASSUME NEW c \in Callers, CallSend(c) \/ CallReceive(c)
      PROVE  Same
  BY <1>5 DEF CallSend, CallReceive, Call
<1>6. ASSUME NEW c \in Callers,
             SendSleep(c) \/ SendClosed(c) \/ ReceiveSleep(c) \/ ReceiveClosed(c)
      PROVE  Same
  BY <1>6 DEF SendSleep, SendClosed, ReceiveSleep, ReceiveClosed
<1>7. ASSUME NEW c \in Callers, CloseResume(c) \/ CloseFree(c) \/ SpuriousWake(c)
      PROVE  Same
  BY <1>7 DEF CloseResume, CloseFree, SpuriousWake
<1>8. CASE UNCHANGED vars
  BY <1>1, <1>8 DEF vars
<1> QED
  BY <1>1, <1>2, <1>3, <1>4, <1>5, <1>6, <1>7, <1>8 DEF Next, Locked, Done

\* The ring buffer implements the bounded stream of bytes: through every wrap of
\* head and tail the receivers get what the senders put in, in order and once.
THEOREM StreamImplemented ==
    ASSUME ConstantsOK
    PROVE  Spec => ImplementsStream
<1>1. Init => Abstract!StreamInit
  BY DEF Init, Abstract!StreamInit, Contents
<1>2. IInv /\ IInv' /\ [Next]_vars => [Abstract!StreamNext]_(Abstract!streamVars)
  BY StepSimulation
<1> QED
  BY <1>1, <1>2, Invariant, PTL DEF Spec, ImplementsStream, Abstract!Stream
=============================================================================
