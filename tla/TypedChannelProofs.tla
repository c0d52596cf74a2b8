------------------------- MODULE TypedChannelProofs -------------------------
(***************************************************************************)
(* Proofs about the typed channel, for any finite set of callers, any      *)
(* values and any capacity.                                                *)
(*                                                                         *)
(* None of the invariants of TypedChannel is inductive by itself: that the *)
(* counters stay naturals needs that they count callers, and that the      *)
(* closer frees an unused channel needs that it saw the counters at zero   *)
(* after it had unregistered the channel.  IInv joins them with Shape,     *)
(* which says where each kind of caller can be found.                      *)
(***************************************************************************)
EXTENDS TypedChannel, FiniteSetTheorems, SequenceTheorems, TLAPS

-----------------------------------------------------------------------------
(* How often a value is in a queue. *)

\* v is not in s; v is in s at exactly one position.
NotIn(s, v) == \A i \in DOMAIN s : s[i] # v
OnceIn(s, v) == \E i \in DOMAIN s : s[i] = v /\ \A j \in DOMAIN s : s[j] = v => j = i

\* What Append does to the two predicates.
LEMMA Appended ==
    ASSUME NEW S, NEW s \in Seq(S), NEW u \in S, NEW v \in S
    PROVE  /\ v # u /\ NotIn(s, v) => NotIn(Append(s, u), v)
           /\ v # u /\ OnceIn(s, v) => OnceIn(Append(s, u), v)
           /\ NotIn(s, u) => OnceIn(Append(s, u), u)
<1> DEFINE t == Append(s, u)
<1>1. /\ Len(s) \in Nat /\ DOMAIN s = 1..Len(s) /\ DOMAIN t = 1..(Len(s) + 1)
      /\ \A i \in 1..Len(s) : t[i] = s[i]
      /\ t[Len(s) + 1] = u
  BY LenProperties, AppendProperties
<1> HIDE DEF t
<1>2. NotIn(s, u) => OnceIn(t, u)
  BY <1>1 DEF NotIn, OnceIn
<1> QED
  BY <1>1, <1>2 DEF NotIn, OnceIn, t

\* What taking the head off a sequence does to them.
LEMMA Taken ==
    ASSUME NEW S, NEW s \in Seq(S), s # <<>>, NEW v \in S
    PROVE  /\ Head(s) \in S /\ ~NotIn(s, Head(s))
           /\ NotIn(s, v) => NotIn(Tail(s), v)
           /\ v # Head(s) /\ OnceIn(s, v) => OnceIn(Tail(s), v)
           /\ OnceIn(s, Head(s)) => NotIn(Tail(s), Head(s))
<1> DEFINE t == Tail(s)
           h == Head(s)
<1>1. /\ Len(s) \in Nat \ {0} /\ DOMAIN s = 1..Len(s) /\ s[1] = h /\ h \in S
      /\ DOMAIN t = 1..(Len(s) - 1) /\ \A i \in 1..(Len(s) - 1) : t[i] = s[i + 1]
  BY LenProperties, EmptySeq, HeadTailProperties
<1> HIDE DEF t, h
<1>2. \A i \in DOMAIN t : i + 1 \in DOMAIN s /\ t[i] = s[i + 1]
  BY <1>1
<1>3. \A i \in DOMAIN s : i = 1 \/ (i - 1 \in DOMAIN t /\ s[i] = t[i - 1])
  BY <1>1
<1>4. ASSUME v # h, OnceIn(s, v) PROVE OnceIn(t, v)
  <2>1. PICK i \in DOMAIN s : s[i] = v /\ \A j \in DOMAIN s : s[j] = v => j = i
    BY <1>4 DEF OnceIn
  <2>2. i - 1 \in DOMAIN t /\ t[i - 1] = v /\ \A j \in DOMAIN t : t[j] = v => j = i - 1
    BY <1>1, <1>2, <1>3, <1>4, <2>1
  <2> QED
    BY <2>2 DEF OnceIn
<1>5. OnceIn(s, h) => NotIn(t, h)
  BY <1>1, <1>2 DEF NotIn, OnceIn
<1> QED
  BY <1>1, <1>2, <1>4, <1>5 DEF NotIn, t, h

\* A sequence of length one is its first element, there once.
LEMMA Alone ==
    ASSUME NEW S, NEW s \in Seq(S), Len(s) = 1, NEW v
    PROVE  /\ s[1] \in S /\ s = <<s[1]>>
           /\ v = s[1] => OnceIn(s, v)
           /\ v # s[1] => NotIn(s, v)
<1>1. DOMAIN s = {1} /\ s[1] \in S
  BY LenProperties
<1> QED
  BY <1>1 DEF OnceIn, NotIn

\* Nothing is in a sequence both once and not at all.
LEMMA NotBoth ==
    ASSUME NEW s, NEW v
    PROVE  /\ ~(NotIn(s, v) /\ OnceIn(s, v))
           /\ NotIn(<<>>, v)
  BY DEF NotIn, OnceIn

\* A set with no element, and a set with one.
LEMMA Sizes ==
    /\ \A S : (\A x \in S : FALSE) => Cardinality(S) = 0
    /\ \A S, x : S = {x} => Cardinality(S) = 1
  BY FS_EmptySet, FS_Singleton

\* The positions of a value in a sequence, counted.
LEMMA CountIn ==
    ASSUME NEW s, NEW v
    PROVE  /\ NotIn(s, v) => Cardinality({i \in DOMAIN s : s[i] = v}) = 0
           /\ OnceIn(s, v) => Cardinality({i \in DOMAIN s : s[i] = v}) = 1
<1>1. ASSUME NotIn(s, v) PROVE {i \in DOMAIN s : s[i] = v} = {}
  BY <1>1 DEF NotIn
<1>2. ASSUME OnceIn(s, v) PROVE \E i : {j \in DOMAIN s : s[j] = v} = {i}
  BY <1>2 DEF OnceIn
<1> QED
  BY <1>1, <1>2, Sizes

-----------------------------------------------------------------------------
(* The invariant. *)

\* A caller at one of these places has exactly one value in hand.
Loaded == {"prepare", "prepareReturn", "prepared", "moving", "moved",
           "acquireReturn", "acquired"}

\* How the callers' places, the flags and the sleepers fit together.
Shape ==
    /\ registered <=> ~closed
    /\ freed => closed /\ ~Busy /\ At(Closing) = {}
    /\ registered => At(Closing) = {}
    /\ \A c, d \in Callers : pc[c] \in Closing /\ pc[d] \in Closing => c = d
    /\ \A c \in Callers : pc[c] = "draining" => ~Busy
    /\ \A c \in Callers : pc[c] \in Loaded => Len(payload[c]) = 1
    /\ writable \subseteq At({"prepare"})
    /\ readable \subseteq At({"acquire"})
    /\ quiescent \subseteq At({"closing"})

IInv == TypeOK /\ CountersExact /\ Shape /\ WithinCapacity /\ NoLostWakeup

-----------------------------------------------------------------------------
(* Counting callers. *)

\* One caller moves: what happens to the number of callers at places S.
LEMMA Move ==
    ASSUME pc \in [Callers -> PC], NEW c \in Callers, NEW to, NEW S,
           pc' = [pc EXCEPT ![c] = to]
    PROVE  /\ Cardinality(At(S)) \in Nat
           /\ pc[c] \in S => Cardinality(At(S)) > 0
           /\ pc[c] \notin S /\ to \in S => Cardinality(At(S)') = Cardinality(At(S)) + 1
           /\ pc[c] \in S /\ to \notin S => Cardinality(At(S)') = Cardinality(At(S)) - 1
           /\ (pc[c] \in S <=> to \in S) => Cardinality(At(S)') = Cardinality(At(S))
<1>1. IsFiniteSet(At(S))
  BY CallersAssumption, FS_Subset DEF At
<1>2. Cardinality(At(S)) \in Nat
  BY <1>1, FS_CardinalityType
<1>3. pc[c] \in S => Cardinality(At(S)) > 0
  <2>1. pc[c] \in S => At(S) # {}
    BY DEF At
  <2> QED
    BY <1>1, <1>2, <2>1, FS_EmptySet
<1>4. ASSUME pc[c] \notin S, to \in S
      PROVE  Cardinality(At(S)') = Cardinality(At(S)) + 1
  <2>1. At(S)' = At(S) \cup {c}
    BY <1>4 DEF At
  <2>2. c \notin At(S)
    BY <1>4 DEF At
  <2> QED
    BY <1>1, <2>1, <2>2, FS_AddElement
<1>5. ASSUME pc[c] \in S, to \notin S
      PROVE  Cardinality(At(S)') = Cardinality(At(S)) - 1
  <2>1. At(S)' = At(S) \ {c}
    BY <1>5 DEF At
  <2>2. c \in At(S)
    BY <1>5 DEF At
  <2> QED
    BY <1>1, <2>1, <2>2, FS_RemoveElement
<1>6. ASSUME pc[c] \in S <=> to \in S
      PROVE  At(S)' = At(S)
  BY <1>6 DEF At
<1> QED
  BY <1>2, <1>3, <1>4, <1>5, <1>6

\* Nobody is at places S when their count is zero.
LEMMA NobodyAt ==
    ASSUME NEW S, Cardinality(At(S)) = 0
    PROVE  At(S) = {}
<1>1. IsFiniteSet(At(S))
  BY CallersAssumption, FS_Subset DEF At
<1> QED
  BY <1>1, FS_EmptySet

\* How the number n of callers at places S changes when caller c moves to a
\* place.
CountAfter(S, n, c, to) ==
    /\ pc[c] \in S => n > 0
    /\ pc[c] \notin S /\ to \in S => Cardinality(At(S)') = n + 1
    /\ pc[c] \in S /\ to \notin S => Cardinality(At(S)') = n - 1
    /\ (pc[c] \in S <=> to \in S) => Cardinality(At(S)') = n

\* What one caller's move does to what the three counters count.
LEMMA Counts ==
    ASSUME TypeOK, CountersExact, NEW c \in Callers, NEW to,
           pc' = [pc EXCEPT ![c] = to]
    PROVE  /\ CountAfter(SendToken, reservations, c, to)
           /\ CountAfter(ReceiveToken, activeReceives, c, to)
           /\ CountAfter(InCall, activeCalls, c, to)
<1>1. pc \in [Callers -> PC]
  BY DEF TypeOK
<1>2. ASSUME NEW S, NEW n, n = Cardinality(At(S))
      PROVE  CountAfter(S, n, c, to)
  BY <1>1, <1>2, Move DEF CountAfter
<1> QED
  BY <1>2 DEF CountersExact

-----------------------------------------------------------------------------
(* The inductive step. *)

\* Every action of the channel preserves IInv.
LEMMA Inductive == IInv /\ [Next]_vars => IInv'
<1> SUFFICES ASSUME IInv, [Next]_vars PROVE IInv'
  OBVIOUS
<1> USE CapacityAssumption DEF IInv
<1>1. ASSUME NEW c \in Callers, NEW v \in Values, SendPrepareEnter(c, v)
      PROVE  IInv'
  <2>1. pc[c] = "idle" /\ pc' = [pc EXCEPT ![c] = "prepare"]
    BY <1>1 DEF SendPrepareEnter, typed_acquire, Goto, Hold
  <2>2. /\ Cardinality(At(SendToken)') = reservations
        /\ Cardinality(At(ReceiveToken)') = activeReceives
        /\ Cardinality(At(InCall)') = activeCalls + 1
    <3>1. /\ pc[c] \notin SendToken /\ "prepare" \notin SendToken
          /\ pc[c] \notin ReceiveToken /\ "prepare" \notin ReceiveToken
          /\ pc[c] \notin InCall /\ "prepare" \in InCall
      BY <2>1 DEF SendToken, ReceiveToken, InCall, SendCall, ReceiveCall
    <3> QED
      BY <2>1, <3>1, Counts DEF CountAfter
  <2>3. TypeOK'
    BY <1>1, <2>1 DEF TypeOK, PC, SendCall, SendPrepareEnter, typed_acquire,
        Hold
  <2>4. CountersExact'
    BY <1>1, <2>2 DEF CountersExact, SendPrepareEnter, typed_acquire
  <2>5. Shape'
    BY <1>1, <2>1 DEF Shape, TypeOK, Closing, Loaded, At, SendPrepareEnter,
        typed_acquire, Hold
  <2>6. WithinCapacity'
    BY <1>1 DEF WithinCapacity, SendPrepareEnter, typed_acquire
  <2>7. NoLostWakeup'
    BY <1>1, <2>2 DEF NoLostWakeup, TypeOK, Full, Busy, SendPrepareEnter,
        typed_acquire
  <2> QED
    BY <2>3, <2>4, <2>5, <2>6, <2>7
<1>2. ASSUME NEW c \in Callers, SendPrepare(c)
      PROVE  IInv'
  <2>0. /\ c \notin writable
        /\ UNCHANGED <<registered, freed, closed, queue, activeReceives, activeCalls,
                      readable, quiescent, source, delivered, dropped>>
    BY <1>2 DEF SendPrepare
  <2>1. CASE ~closed /\ Full
    <3>0. writable' = writable \cup {c} /\ UNCHANGED <<payload, reservations>>
      BY <1>2, <2>1 DEF SendPrepare, Hold, None
    <3>1. pc[c] = "prepare" /\ pc' = pc
      BY <1>2, <2>1 DEF SendPrepare
    <3>2. \A S : At(S)' = At(S)
      BY <3>1 DEF At
    <3>3. TypeOK'
      BY <2>0, <2>1, <3>0, <3>1 DEF TypeOK
    <3>4. CountersExact'
      BY <2>0, <2>1, <3>0, <3>2 DEF CountersExact
    <3>5. Shape'
      BY <2>0, <2>1, <3>0, <3>1 DEF Shape, TypeOK, Closing, Loaded, At
    <3>6. WithinCapacity'
      BY <2>0, <2>1, <3>0 DEF WithinCapacity
    <3>7. NoLostWakeup'
      BY <2>0, <2>1, <3>0 DEF NoLostWakeup, Full, Busy
    <3> QED
      BY <3>3, <3>4, <3>5, <3>6, <3>7
  <2>2. CASE closed
    <3>0. payload' = [payload EXCEPT ![c] = <<>>] /\ UNCHANGED <<writable, reservations>>
      BY <1>2, <2>2 DEF SendPrepare, Hold, None
    <3>1. pc[c] = "prepare" /\ pc' = [pc EXCEPT ![c] = "prepareClosed"]
      BY <1>2, <2>2 DEF SendPrepare
    <3>2. /\ Cardinality(At(SendToken)') = reservations
          /\ Cardinality(At(ReceiveToken)') = activeReceives
          /\ activeCalls > 0
          /\ Cardinality(At(InCall)') = activeCalls
      <4>1. /\ pc[c] \notin SendToken /\ "prepareClosed" \notin SendToken
            /\ pc[c] \notin ReceiveToken /\ "prepareClosed" \notin ReceiveToken
            /\ pc[c] \in InCall /\ "prepareClosed" \in InCall
        BY <3>1 DEF SendToken, ReceiveToken, InCall, SendCall, ReceiveCall
      <4> QED
        BY <3>1, <4>1, Counts DEF CountAfter
    <3>3. TypeOK'
      BY <2>0, <2>2, <3>0, <3>1 DEF TypeOK, PC
    <3>4. CountersExact'
      BY <2>0, <2>2, <3>0, <3>2 DEF CountersExact
    <3>5. Shape'
      BY <2>0, <2>2, <3>0, <3>1 DEF Shape, TypeOK, Closing, Loaded, At, Busy
    <3>6. WithinCapacity'
      BY <2>0, <2>2, <3>0 DEF WithinCapacity
    <3>7. NoLostWakeup'
      BY <2>0, <2>2, <3>0 DEF NoLostWakeup, Full, Busy
    <3> QED
      BY <3>3, <3>4, <3>5, <3>6, <3>7
  <2>3. CASE ~closed /\ ~Full
    <3>0. reservations' = reservations + 1 /\ UNCHANGED <<writable, payload>>
      BY <1>2, <2>3 DEF SendPrepare, Hold, None
    <3>1. pc[c] = "prepare" /\ pc' = [pc EXCEPT ![c] = "prepareReturn"]
      BY <1>2, <2>3 DEF SendPrepare
    <3>2. /\ Cardinality(At(SendToken)') = reservations + 1
          /\ Cardinality(At(ReceiveToken)') = activeReceives
          /\ activeCalls > 0
          /\ Cardinality(At(InCall)') = activeCalls
      <4>1. /\ pc[c] \notin SendToken /\ "prepareReturn" \in SendToken
            /\ pc[c] \notin ReceiveToken /\ "prepareReturn" \notin ReceiveToken
            /\ pc[c] \in InCall /\ "prepareReturn" \in InCall
        BY <3>1 DEF SendToken, ReceiveToken, InCall, SendCall, ReceiveCall
      <4> QED
        BY <3>1, <4>1, Counts DEF CountAfter
    <3>3. TypeOK'
      BY <2>0, <2>3, <3>0, <3>1 DEF TypeOK, PC, SendCall
    <3>4. CountersExact'
      BY <2>0, <2>3, <3>0, <3>2 DEF CountersExact
    <3>5. Shape'
      BY <2>0, <2>3, <3>0, <3>1 DEF Shape, TypeOK, Closing, Loaded, At
    <3>6. WithinCapacity'
      BY <2>0, <2>3, <3>0, <3>2 DEF WithinCapacity, TypeOK, Full
    <3>7. NoLostWakeup'
      BY <2>0, <2>3, <3>0, <3>2 DEF NoLostWakeup, TypeOK, Full, Busy
    <3> QED
      BY <3>3, <3>4, <3>5, <3>6, <3>7
  <2> QED
    BY <2>1, <2>2, <2>3
<1>3. ASSUME NEW c \in Callers, SendPrepareReturn(c)
      PROVE  IInv'
  <2>1. CASE typed_release(c, "prepareReturn", "prepared")
    <3>1. pc[c] = "prepareReturn" /\ pc' = [pc EXCEPT ![c] = "prepared"]
      BY <2>1 DEF typed_release, Goto
    <3>2. /\ reservations > 0
          /\ Cardinality(At(SendToken)') = reservations
          /\ Cardinality(At(ReceiveToken)') = activeReceives
          /\ activeCalls > 0
          /\ Cardinality(At(InCall)') = activeCalls - 1
      <4>1. /\ pc[c] \in SendToken /\ "prepared" \in SendToken
            /\ pc[c] \notin ReceiveToken /\ "prepared" \notin ReceiveToken
            /\ pc[c] \in InCall /\ "prepared" \notin InCall
        BY <3>1 DEF SendToken, ReceiveToken, InCall, SendCall, ReceiveCall
      <4> QED
        BY <3>1, <4>1, Counts DEF CountAfter
    <3>3. TypeOK'
      BY <2>1, <3>1, <3>2 DEF TypeOK, PC, SendToken, typed_release
    <3>4. CountersExact'
      BY <2>1, <3>2 DEF CountersExact, typed_release
    <3>5. Shape'
      BY <2>1, <3>1, <3>2 DEF Shape, TypeOK, Closing, Loaded, At, Busy,
          typed_release
    <3>6. WithinCapacity'
      BY <2>1 DEF WithinCapacity, typed_release
    <3>7. NoLostWakeup'
      BY <2>1 DEF NoLostWakeup, Full, Busy, typed_release
    <3> QED
      BY <3>3, <3>4, <3>5, <3>6, <3>7
  <2>2. CASE typed_release(c, "prepareClosed", "idle")
    <3>1. pc[c] = "prepareClosed" /\ pc' = [pc EXCEPT ![c] = "idle"]
      BY <2>2 DEF typed_release, Goto
    <3>2. /\ Cardinality(At(SendToken)') = reservations
          /\ Cardinality(At(ReceiveToken)') = activeReceives
          /\ activeCalls > 0
          /\ Cardinality(At(InCall)') = activeCalls - 1
      <4>1. /\ pc[c] \notin SendToken /\ "idle" \notin SendToken
            /\ pc[c] \notin ReceiveToken /\ "idle" \notin ReceiveToken
            /\ pc[c] \in InCall /\ "idle" \notin InCall
        BY <3>1 DEF SendToken, ReceiveToken, InCall, SendCall, ReceiveCall
      <4> QED
        BY <3>1, <4>1, Counts DEF CountAfter
    <3>3. TypeOK'
      BY <2>2, <3>1, <3>2 DEF TypeOK, PC, typed_release
    <3>4. CountersExact'
      BY <2>2, <3>2 DEF CountersExact, typed_release
    <3>5. Shape'
      BY <2>2, <3>1, <3>2 DEF Shape, TypeOK, Closing, Loaded, At, Busy,
          typed_release
    <3>6. WithinCapacity'
      BY <2>2 DEF WithinCapacity, typed_release
    <3>7. NoLostWakeup'
      BY <2>2 DEF NoLostWakeup, Full, Busy, typed_release
    <3> QED
      BY <3>3, <3>4, <3>5, <3>6, <3>7
  <2> QED
    BY <1>3, <2>1, <2>2 DEF SendPrepareReturn
<1>4. ASSUME NEW c \in Callers, SendCommitFail(c)
      PROVE  IInv'
  <2>1. pc[c] = "prepared" /\ pc' = [pc EXCEPT ![c] = "idle"]
    BY <1>4 DEF SendCommitFail, GivenBack, Goto, Hold
  <2>2. /\ reservations > 0
        /\ Cardinality(At(SendToken)') = reservations - 1
        /\ Cardinality(At(ReceiveToken)') = activeReceives
        /\ Cardinality(At(InCall)') = activeCalls
    <3>1. /\ pc[c] \in SendToken /\ "idle" \notin SendToken
          /\ pc[c] \notin ReceiveToken /\ "idle" \notin ReceiveToken
          /\ pc[c] \notin InCall /\ "idle" \notin InCall
      BY <2>1 DEF SendToken, ReceiveToken, InCall, SendCall, ReceiveCall
    <3> QED
      BY <2>1, <3>1, Counts DEF CountAfter
  <2>3. TypeOK'
    BY <1>4, <2>1, <2>2 DEF TypeOK, None, PC, SendCommitFail, GivenBack, Hold
  <2>4. CountersExact'
    BY <1>4, <2>2 DEF CountersExact, SendCommitFail, GivenBack
  <2>5. Shape'
    BY <1>4, <2>1 DEF Shape, TypeOK, Closing, Loaded, At, Busy,
        SendCommitFail, GivenBack, Hold
  <2>6. WithinCapacity'
    BY <1>4, <2>2 DEF WithinCapacity, TypeOK, SendCommitFail, GivenBack
  <2>7. NoLostWakeup'
    BY <1>4 DEF NoLostWakeup, Full, Busy, SendCommitFail, GivenBack
  <2> QED
    BY <2>3, <2>4, <2>5, <2>6, <2>7
<1>5. ASSUME NEW c \in Callers, SendCommitSelect(c)
      PROVE  IInv'
  <2>1. pc[c] = "prepared" /\ pc' = [pc EXCEPT ![c] = "moving"]
    BY <1>5 DEF SendCommitSelect, Goto, channel
  <2>2. /\ reservations > 0
        /\ Cardinality(At(SendToken)') = reservations
        /\ Cardinality(At(ReceiveToken)') = activeReceives
        /\ Cardinality(At(InCall)') = activeCalls
    <3>1. /\ pc[c] \in SendToken /\ "moving" \in SendToken
          /\ pc[c] \notin ReceiveToken /\ "moving" \notin ReceiveToken
          /\ pc[c] \notin InCall /\ "moving" \notin InCall
      BY <2>1 DEF SendToken, ReceiveToken, InCall, SendCall, ReceiveCall
    <3> QED
      BY <2>1, <3>1, Counts DEF CountAfter
  <2>3. TypeOK'
    BY <1>5, <2>1 DEF TypeOK, PC, SendToken, SendCommitSelect, channel
  <2>4. CountersExact'
    BY <1>5, <2>2 DEF CountersExact, SendCommitSelect, channel
  <2>5. Shape'
    BY <1>5, <2>1 DEF Shape, TypeOK, Closing, Loaded, At, SendCommitSelect,
        channel
  <2>6. WithinCapacity'
    BY <1>5 DEF WithinCapacity, SendCommitSelect, channel
  <2>7. NoLostWakeup'
    BY <1>5 DEF NoLostWakeup, Full, Busy, SendCommitSelect, channel
  <2> QED
    BY <2>3, <2>4, <2>5, <2>6, <2>7
<1>6. ASSUME NEW c \in Callers, SendMove(c)
      PROVE  IInv'
  <2>1. pc[c] = "moving" /\ pc' = [pc EXCEPT ![c] = "moved"]
    BY <1>6 DEF SendMove, Goto, channel
  <2>2. /\ reservations > 0
        /\ Cardinality(At(SendToken)') = reservations
        /\ Cardinality(At(ReceiveToken)') = activeReceives
        /\ Cardinality(At(InCall)') = activeCalls
    <3>1. /\ pc[c] \in SendToken /\ "moved" \in SendToken
          /\ pc[c] \notin ReceiveToken /\ "moved" \notin ReceiveToken
          /\ pc[c] \notin InCall /\ "moved" \notin InCall
      BY <2>1 DEF SendToken, ReceiveToken, InCall, SendCall, ReceiveCall
    <3> QED
      BY <2>1, <3>1, Counts DEF CountAfter
  <2>3. TypeOK'
    BY <1>6, <2>1 DEF TypeOK, PC, SendToken, SendMove, channel
  <2>4. CountersExact'
    BY <1>6, <2>2 DEF CountersExact, SendMove, channel
  <2>5. Shape'
    BY <1>6, <2>1 DEF Shape, TypeOK, Closing, Loaded, At, Busy, SendMove,
        channel
  <2>6. WithinCapacity'
    BY <1>6 DEF WithinCapacity, SendMove, channel
  <2>7. NoLostWakeup'
    BY <1>6 DEF NoLostWakeup, Full, Busy, SendMove, channel
  <2> QED
    BY <2>3, <2>4, <2>5, <2>6, <2>7
<1>7. ASSUME NEW c \in Callers, SendLink(c)
      PROVE  IInv'
  <2>1. pc[c] = "moved" /\ pc' = [pc EXCEPT ![c] = "idle"]
    BY <1>7 DEF SendLink, Goto, Hold
  <2>2. /\ reservations > 0
        /\ Cardinality(At(SendToken)') = reservations - 1
        /\ Cardinality(At(ReceiveToken)') = activeReceives
        /\ Cardinality(At(InCall)') = activeCalls
    <3>1. /\ pc[c] \in SendToken /\ "idle" \notin SendToken
          /\ pc[c] \notin ReceiveToken /\ "idle" \notin ReceiveToken
          /\ pc[c] \notin InCall /\ "idle" \notin InCall
      BY <2>1 DEF SendToken, ReceiveToken, InCall, SendCall, ReceiveCall
    <3> QED
      BY <2>1, <3>1, Counts DEF CountAfter
  <2>3. queue' \in Seq(Values) /\ Len(queue') = Len(queue) + 1
    BY <1>7, <2>1 DEF TypeOK, Shape, Loaded, SendLink, Goto, Hold
  <2>4. TypeOK'
    BY <1>7, <2>1, <2>2, <2>3 DEF TypeOK, None, PC, SendLink, Hold
  <2>5. CountersExact'
    BY <1>7, <2>2 DEF CountersExact, SendLink
  <2>6. Shape'
    BY <1>7, <2>1, <2>2 DEF Shape, TypeOK, Closing, Loaded, At, Busy,
        SendLink, Hold
  <2>7. WithinCapacity'
    BY <1>7, <2>2, <2>3 DEF WithinCapacity, TypeOK, SendLink
  <2>8. NoLostWakeup'
    BY <1>7, <2>2 DEF NoLostWakeup, TypeOK, Full, Busy, SendLink
  <2> QED
    BY <2>4, <2>5, <2>6, <2>7, <2>8
<1>8. ASSUME NEW c \in Callers, SendCancel(c)
      PROVE  IInv'
  <2>1. pc[c] = "prepared" /\ pc' = [pc EXCEPT ![c] = "idle"]
    BY <1>8 DEF SendCancel, GivenBack, Goto, Hold
  <2>2. /\ reservations > 0
        /\ Cardinality(At(SendToken)') = reservations - 1
        /\ Cardinality(At(ReceiveToken)') = activeReceives
        /\ Cardinality(At(InCall)') = activeCalls
    <3>1. /\ pc[c] \in SendToken /\ "idle" \notin SendToken
          /\ pc[c] \notin ReceiveToken /\ "idle" \notin ReceiveToken
          /\ pc[c] \notin InCall /\ "idle" \notin InCall
      BY <2>1 DEF SendToken, ReceiveToken, InCall, SendCall, ReceiveCall
    <3> QED
      BY <2>1, <3>1, Counts DEF CountAfter
  <2>3. TypeOK'
    BY <1>8, <2>1 DEF TypeOK, None, PC, SendCancel, GivenBack, Hold
  <2>4. CountersExact'
    BY <1>8, <2>2 DEF CountersExact, SendCancel, GivenBack
  <2>5. Shape'
    BY <1>8, <2>1 DEF Shape, TypeOK, Closing, Loaded, At, Busy, SendCancel,
        GivenBack, Hold
  <2>6. WithinCapacity'
    BY <1>8, <2>2 DEF WithinCapacity, TypeOK, SendCancel, GivenBack
  <2>7. NoLostWakeup'
    BY <1>8 DEF NoLostWakeup, Full, Busy, SendCancel, GivenBack
  <2> QED
    BY <2>3, <2>4, <2>5, <2>6, <2>7
<1>9. ASSUME NEW c \in Callers, ReceiveAcquireEnter(c)
      PROVE  IInv'
  <2>1. pc[c] = "idle" /\ pc' = [pc EXCEPT ![c] = "acquire"]
    BY <1>9 DEF ReceiveAcquireEnter, typed_acquire, Goto
  <2>2. /\ Cardinality(At(SendToken)') = reservations
        /\ Cardinality(At(ReceiveToken)') = activeReceives
        /\ Cardinality(At(InCall)') = activeCalls + 1
    <3>1. /\ pc[c] \notin SendToken /\ "acquire" \notin SendToken
          /\ pc[c] \notin ReceiveToken /\ "acquire" \notin ReceiveToken
          /\ pc[c] \notin InCall /\ "acquire" \in InCall
      BY <2>1 DEF SendToken, ReceiveToken, InCall, SendCall, ReceiveCall
    <3> QED
      BY <2>1, <3>1, Counts DEF CountAfter
  <2>3. TypeOK'
    BY <1>9, <2>1 DEF TypeOK, PC, ReceiveCall, ReceiveAcquireEnter,
        typed_acquire
  <2>4. CountersExact'
    BY <1>9, <2>2 DEF CountersExact, ReceiveAcquireEnter, typed_acquire
  <2>5. Shape'
    BY <1>9, <2>1 DEF Shape, TypeOK, Closing, Loaded, At,
        ReceiveAcquireEnter, typed_acquire
  <2>6. WithinCapacity'
    BY <1>9 DEF WithinCapacity, ReceiveAcquireEnter, typed_acquire
  <2>7. NoLostWakeup'
    BY <1>9, <2>2 DEF NoLostWakeup, TypeOK, Full, Busy, ReceiveAcquireEnter,
        typed_acquire
  <2> QED
    BY <2>3, <2>4, <2>5, <2>6, <2>7
<1>10. ASSUME NEW c \in Callers, ReceiveAcquire(c)
      PROVE  IInv'
  <2>0. /\ c \notin readable
        /\ UNCHANGED <<registered, freed, closed, reservations, activeCalls, quiescent,
                      source, delivered, dropped>>
    BY <1>10 DEF ReceiveAcquire
  <2>1. CASE queue = <<>> /\ ~closed
    <3>0. /\ readable' = readable \cup {c}
          /\ UNCHANGED <<payload, queue, activeReceives, writable>>
      BY <1>10, <2>1 DEF ReceiveAcquire, Hold, None
    <3>1. pc[c] = "acquire" /\ pc' = pc
      BY <1>10, <2>1 DEF ReceiveAcquire
    <3>2. \A S : At(S)' = At(S)
      BY <3>1 DEF At
    <3>3. TypeOK'
      BY <2>0, <2>1, <3>0, <3>1 DEF TypeOK
    <3>4. CountersExact'
      BY <2>0, <2>1, <3>0, <3>2 DEF CountersExact
    <3>5. Shape'
      BY <2>0, <2>1, <3>0, <3>1 DEF Shape, TypeOK, Closing, Loaded, At
    <3>6. WithinCapacity'
      BY <2>0, <2>1, <3>0 DEF WithinCapacity
    <3>7. NoLostWakeup'
      BY <2>0, <2>1, <3>0 DEF NoLostWakeup, Full, Busy
    <3> QED
      BY <3>3, <3>4, <3>5, <3>6, <3>7
  <2>2. CASE queue = <<>> /\ closed
    <3>0. UNCHANGED <<payload, queue, activeReceives, readable, writable>>
      BY <1>10, <2>2 DEF ReceiveAcquire, Hold, None
    <3>1. pc[c] = "acquire" /\ pc' = [pc EXCEPT ![c] = "acquireClosed"]
      BY <1>10, <2>2 DEF ReceiveAcquire
    <3>2. /\ Cardinality(At(SendToken)') = reservations
          /\ Cardinality(At(ReceiveToken)') = activeReceives
          /\ activeCalls > 0
          /\ Cardinality(At(InCall)') = activeCalls
      <4>1. /\ pc[c] \notin SendToken /\ "acquireClosed" \notin SendToken
            /\ pc[c] \notin ReceiveToken /\ "acquireClosed" \notin ReceiveToken
            /\ pc[c] \in InCall /\ "acquireClosed" \in InCall
        BY <3>1 DEF SendToken, ReceiveToken, InCall, SendCall, ReceiveCall
      <4> QED
        BY <3>1, <4>1, Counts DEF CountAfter
    <3>3. TypeOK'
      BY <2>0, <2>2, <3>0, <3>1 DEF TypeOK, PC, ReceiveCall
    <3>4. CountersExact'
      BY <2>0, <2>2, <3>0, <3>2 DEF CountersExact
    <3>5. Shape'
      BY <2>0, <2>2, <3>0, <3>1 DEF Shape, TypeOK, Closing, Loaded, At, Busy
    <3>6. WithinCapacity'
      BY <2>0, <2>2, <3>0 DEF WithinCapacity
    <3>7. NoLostWakeup'
      BY <2>0, <2>2, <3>0 DEF NoLostWakeup, Full, Busy
    <3> QED
      BY <3>3, <3>4, <3>5, <3>6, <3>7
  <2>3. CASE queue # <<>>
    <3>0. payload' = [payload EXCEPT ![c] = <<Head(queue)>>] /\ queue' = Tail(queue)
      /\ activeReceives' = activeReceives + 1 /\ writable' = {} /\ UNCHANGED readable
      BY <1>10, <2>3 DEF ReceiveAcquire, Hold, None
    <3>1. pc[c] = "acquire" /\ pc' = [pc EXCEPT ![c] = "acquireReturn"]
      BY <1>10, <2>3 DEF ReceiveAcquire
    <3>2. /\ Cardinality(At(SendToken)') = reservations
          /\ Cardinality(At(ReceiveToken)') = activeReceives + 1
          /\ activeCalls > 0
          /\ Cardinality(At(InCall)') = activeCalls
      <4>1. /\ pc[c] \notin SendToken /\ "acquireReturn" \notin SendToken
            /\ pc[c] \notin ReceiveToken /\ "acquireReturn" \in ReceiveToken
            /\ pc[c] \in InCall /\ "acquireReturn" \in InCall
        BY <3>1 DEF SendToken, ReceiveToken, InCall, SendCall, ReceiveCall
      <4> QED
        BY <3>1, <4>1, Counts DEF CountAfter
    <3>3. /\ queue' \in Seq(Values) /\ Head(queue) \in Values
          /\ Len(queue') = Len(queue) - 1 /\ Len(queue) > 0
      BY <2>0, <2>3, <3>0, <3>1 DEF TypeOK, Shape, Loaded
    <3>4. TypeOK'
      BY <2>0, <2>3, <3>0, <3>1, <3>3 DEF TypeOK, PC, ReceiveCall
    <3>5. CountersExact'
      BY <2>0, <2>3, <3>0, <3>2 DEF CountersExact
    <3>6. Shape'
      BY <2>0, <2>3, <3>0, <3>1, <3>2 DEF Shape, TypeOK, Closing, Loaded, At,
          Busy
    <3>7. WithinCapacity'
      BY <2>0, <2>3, <3>0, <3>2, <3>3 DEF WithinCapacity, TypeOK
    <3>8. NoLostWakeup'
      BY <2>0, <2>3, <3>0, <3>2 DEF NoLostWakeup, TypeOK, Full, Busy
    <3> QED
      BY <3>4, <3>5, <3>6, <3>7, <3>8
  <2> QED
    BY <2>1, <2>2, <2>3
<1>11. ASSUME NEW c \in Callers, ReceiveAcquireReturn(c)
      PROVE  IInv'
  <2>1. CASE typed_release(c, "acquireReturn", "acquired")
    <3>1. pc[c] = "acquireReturn" /\ pc' = [pc EXCEPT ![c] = "acquired"]
      BY <2>1 DEF typed_release, Goto
    <3>2. /\ Cardinality(At(SendToken)') = reservations
          /\ activeReceives > 0
          /\ Cardinality(At(ReceiveToken)') = activeReceives
          /\ activeCalls > 0
          /\ Cardinality(At(InCall)') = activeCalls - 1
      <4>1. /\ pc[c] \notin SendToken /\ "acquired" \notin SendToken
            /\ pc[c] \in ReceiveToken /\ "acquired" \in ReceiveToken
            /\ pc[c] \in InCall /\ "acquired" \notin InCall
        BY <3>1 DEF SendToken, ReceiveToken, InCall, SendCall, ReceiveCall
      <4> QED
        BY <3>1, <4>1, Counts DEF CountAfter
    <3>3. TypeOK'
      BY <2>1, <3>1, <3>2 DEF TypeOK, PC, ReceiveToken, typed_release
    <3>4. CountersExact'
      BY <2>1, <3>2 DEF CountersExact, typed_release
    <3>5. Shape'
      BY <2>1, <3>1, <3>2 DEF Shape, TypeOK, Closing, Loaded, At, Busy,
          typed_release
    <3>6. WithinCapacity'
      BY <2>1 DEF WithinCapacity, typed_release
    <3>7. NoLostWakeup'
      BY <2>1 DEF NoLostWakeup, Full, Busy, typed_release
    <3> QED
      BY <3>3, <3>4, <3>5, <3>6, <3>7
  <2>2. CASE typed_release(c, "acquireClosed", "idle")
    <3>1. pc[c] = "acquireClosed" /\ pc' = [pc EXCEPT ![c] = "idle"]
      BY <2>2 DEF typed_release, Goto
    <3>2. /\ Cardinality(At(SendToken)') = reservations
          /\ Cardinality(At(ReceiveToken)') = activeReceives
          /\ activeCalls > 0
          /\ Cardinality(At(InCall)') = activeCalls - 1
      <4>1. /\ pc[c] \notin SendToken /\ "idle" \notin SendToken
            /\ pc[c] \notin ReceiveToken /\ "idle" \notin ReceiveToken
            /\ pc[c] \in InCall /\ "idle" \notin InCall
        BY <3>1 DEF SendToken, ReceiveToken, InCall, SendCall, ReceiveCall
      <4> QED
        BY <3>1, <4>1, Counts DEF CountAfter
    <3>3. TypeOK'
      BY <2>2, <3>1, <3>2 DEF TypeOK, PC, typed_release
    <3>4. CountersExact'
      BY <2>2, <3>2 DEF CountersExact, typed_release
    <3>5. Shape'
      BY <2>2, <3>1, <3>2 DEF Shape, TypeOK, Closing, Loaded, At, Busy,
          typed_release
    <3>6. WithinCapacity'
      BY <2>2 DEF WithinCapacity, typed_release
    <3>7. NoLostWakeup'
      BY <2>2 DEF NoLostWakeup, Full, Busy, typed_release
    <3> QED
      BY <3>3, <3>4, <3>5, <3>6, <3>7
  <2> QED
    BY <1>11, <2>1, <2>2 DEF ReceiveAcquireReturn
<1>12. ASSUME NEW c \in Callers, ReceiveConsume(c)
      PROVE  IInv'
  <2>1. pc[c] = "acquired" /\ pc' = [pc EXCEPT ![c] = "consumed"]
    BY <1>12 DEF ReceiveConsume, Goto, Hold, channel
  <2>2. /\ Cardinality(At(SendToken)') = reservations
        /\ activeReceives > 0
        /\ Cardinality(At(ReceiveToken)') = activeReceives
        /\ Cardinality(At(InCall)') = activeCalls
    <3>1. /\ pc[c] \notin SendToken /\ "consumed" \notin SendToken
          /\ pc[c] \in ReceiveToken /\ "consumed" \in ReceiveToken
          /\ pc[c] \notin InCall /\ "consumed" \notin InCall
      BY <2>1 DEF SendToken, ReceiveToken, InCall, SendCall, ReceiveCall
    <3> QED
      BY <2>1, <3>1, Counts DEF CountAfter
  <2>3. TypeOK'
    BY <1>12, <2>1, <2>2 DEF TypeOK, Shape, Loaded, None, PC, ReceiveToken,
        ReceiveConsume, Goto, Hold, channel
  <2>4. CountersExact'
    BY <1>12, <2>2 DEF CountersExact, ReceiveConsume, channel
  <2>5. Shape'
    BY <1>12, <2>1 DEF Shape, TypeOK, Closing, Loaded, At, Busy,
        ReceiveConsume, channel, Hold
  <2>6. WithinCapacity'
    BY <1>12 DEF WithinCapacity, ReceiveConsume, channel
  <2>7. NoLostWakeup'
    BY <1>12 DEF NoLostWakeup, Full, Busy, ReceiveConsume, channel
  <2> QED
    BY <2>3, <2>4, <2>5, <2>6, <2>7
<1>13. ASSUME NEW c \in Callers, ReceiveFinish(c)
      PROVE  IInv'
  <2>1. pc[c] = "consumed" /\ pc' = [pc EXCEPT ![c] = "idle"]
    BY <1>13 DEF ReceiveFinish, GivenBack, Goto
  <2>2. /\ Cardinality(At(SendToken)') = reservations
        /\ activeReceives > 0
        /\ Cardinality(At(ReceiveToken)') = activeReceives - 1
        /\ Cardinality(At(InCall)') = activeCalls
    <3>1. /\ pc[c] \notin SendToken /\ "idle" \notin SendToken
          /\ pc[c] \in ReceiveToken /\ "idle" \notin ReceiveToken
          /\ pc[c] \notin InCall /\ "idle" \notin InCall
      BY <2>1 DEF SendToken, ReceiveToken, InCall, SendCall, ReceiveCall
    <3> QED
      BY <2>1, <3>1, Counts DEF CountAfter
  <2>3. TypeOK'
    BY <1>13, <2>1 DEF TypeOK, PC, ReceiveFinish, GivenBack
  <2>4. CountersExact'
    BY <1>13, <2>2 DEF CountersExact, ReceiveFinish, GivenBack
  <2>5. Shape'
    BY <1>13, <2>1 DEF Shape, TypeOK, Closing, Loaded, At, Busy,
        ReceiveFinish, GivenBack
  <2>6. WithinCapacity'
    BY <1>13 DEF WithinCapacity, ReceiveFinish, GivenBack
  <2>7. NoLostWakeup'
    BY <1>13 DEF NoLostWakeup, Full, Busy, ReceiveFinish, GivenBack
  <2> QED
    BY <2>3, <2>4, <2>5, <2>6, <2>7
<1>14. ASSUME NEW c \in Callers, CloseBegin(c)
      PROVE  IInv'
  <2>1. pc[c] = "idle" /\ pc' = [pc EXCEPT ![c] = "closing"]
    BY <1>14 DEF CloseBegin, Goto
  <2>2. /\ Cardinality(At(SendToken)') = reservations
        /\ Cardinality(At(ReceiveToken)') = activeReceives
        /\ Cardinality(At(InCall)') = activeCalls
    <3>1. /\ pc[c] \notin SendToken /\ "closing" \notin SendToken
          /\ pc[c] \notin ReceiveToken /\ "closing" \notin ReceiveToken
          /\ pc[c] \notin InCall /\ "closing" \notin InCall
      BY <2>1 DEF SendToken, ReceiveToken, InCall, SendCall, ReceiveCall
    <3> QED
      BY <2>1, <3>1, Counts DEF CountAfter
  <2>3. TypeOK'
    BY <1>14, <2>1 DEF TypeOK, PC, Closing, CloseBegin
  <2>4. CountersExact'
    BY <1>14, <2>2 DEF CountersExact, CloseBegin
  <2>5. Shape'
    BY <1>14, <2>1 DEF Shape, TypeOK, Closing, Loaded, At, CloseBegin
  <2>6. WithinCapacity'
    BY <1>14 DEF WithinCapacity, CloseBegin
  <2>7. NoLostWakeup'
    BY <1>14 DEF NoLostWakeup, Full, Busy, CloseBegin
  <2> QED
    BY <2>3, <2>4, <2>5, <2>6, <2>7
<1>15. ASSUME NEW c \in Callers, CloseWait(c)
      PROVE  IInv'
  <2>0. /\ c \notin quiescent
        /\ UNCHANGED <<registered, freed, closed, reservations, activeReceives, activeCalls,
                      writable, readable, source, delivered, dropped>>
    BY <1>15 DEF CloseWait
  <2>1. CASE Busy
    <3>0. quiescent' = quiescent \cup {c} /\ UNCHANGED <<payload, queue>>
      BY <1>15, <2>1 DEF CloseWait, Hold, None
    <3>1. pc[c] = "closing" /\ pc' = pc
      BY <1>15, <2>1 DEF CloseWait
    <3>2. \A S : At(S)' = At(S)
      BY <3>1 DEF At
    <3>3. TypeOK'
      BY <2>0, <2>1, <3>0, <3>1 DEF TypeOK
    <3>4. CountersExact'
      BY <2>0, <2>1, <3>0, <3>2 DEF CountersExact
    <3>5. Shape'
      BY <2>0, <2>1, <3>0, <3>1 DEF Shape, TypeOK, At
    <3>6. WithinCapacity'
      BY <2>0, <2>1, <3>0 DEF WithinCapacity
    <3>7. NoLostWakeup'
      BY <2>0, <2>1, <3>0 DEF NoLostWakeup, Full, Busy
    <3> QED
      BY <3>3, <3>4, <3>5, <3>6, <3>7
  <2>2. CASE ~Busy
    <3>0. payload' = [payload EXCEPT ![c] = queue] /\ queue' = <<>> /\ UNCHANGED quiescent
      BY <1>15, <2>2 DEF CloseWait, Hold, None
    <3>1. pc[c] = "closing" /\ pc' = [pc EXCEPT ![c] = "draining"]
      BY <1>15, <2>2 DEF CloseWait
    <3>2. /\ Cardinality(At(SendToken)') = reservations
          /\ Cardinality(At(ReceiveToken)') = activeReceives
          /\ Cardinality(At(InCall)') = activeCalls
      <4>1. /\ pc[c] \notin SendToken /\ "draining" \notin SendToken
            /\ pc[c] \notin ReceiveToken /\ "draining" \notin ReceiveToken
            /\ pc[c] \notin InCall /\ "draining" \notin InCall
        BY <3>1 DEF SendToken, ReceiveToken, InCall, SendCall, ReceiveCall
      <4> QED
        BY <3>1, <4>1, Counts DEF CountAfter
    <3>3. TypeOK'
      BY <2>0, <2>2, <3>0, <3>1 DEF TypeOK, PC, Closing
    <3>4. CountersExact'
      BY <2>0, <2>2, <3>0, <3>2 DEF CountersExact
    <3>5. Shape'
      BY <2>0, <2>2, <3>0, <3>1 DEF Shape, TypeOK, Closing, Loaded, At, Busy
    <3>6. WithinCapacity'
      BY <2>0, <2>2, <3>0, <3>2 DEF WithinCapacity, TypeOK
    <3>7. NoLostWakeup'
      BY <2>0, <2>2, <3>0, <3>1 DEF NoLostWakeup, Full, Busy, Shape, Closing,
          At
    <3> QED
      BY <3>3, <3>4, <3>5, <3>6, <3>7
  <2> QED
    BY <2>1, <2>2
<1>16. ASSUME NEW c \in Callers, CloseDrop(c)
      PROVE  IInv'
  <2>1. pc[c] = "draining" /\ pc' = pc
    BY <1>16 DEF CloseDrop, Hold, channel
  <2>2. \A S : At(S)' = At(S)
    BY <2>1 DEF At
  <2>3. TypeOK'
    BY <1>16, <2>1 DEF TypeOK, None, CloseDrop, channel, Hold
  <2>4. CountersExact'
    BY <1>16, <2>2 DEF CountersExact, CloseDrop, channel
  <2>5. Shape'
    BY <1>16, <2>1 DEF Shape, TypeOK, Closing, Loaded, At, Busy, CloseDrop,
        channel, Hold
  <2>6. WithinCapacity'
    BY <1>16 DEF WithinCapacity, CloseDrop, channel
  <2>7. NoLostWakeup'
    BY <1>16 DEF NoLostWakeup, Full, Busy, CloseDrop, channel
  <2> QED
    BY <2>3, <2>4, <2>5, <2>6, <2>7
<1>17. ASSUME NEW c \in Callers, CloseFree(c)
      PROVE  IInv'
  <2>1. pc[c] = "draining" /\ pc' = [pc EXCEPT ![c] = "idle"]
    BY <1>17 DEF CloseFree, Goto
  <2>2. /\ Cardinality(At(SendToken)') = reservations
        /\ Cardinality(At(ReceiveToken)') = activeReceives
        /\ Cardinality(At(InCall)') = activeCalls
    <3>1. /\ pc[c] \notin SendToken /\ "idle" \notin SendToken
          /\ pc[c] \notin ReceiveToken /\ "idle" \notin ReceiveToken
          /\ pc[c] \notin InCall /\ "idle" \notin InCall
      BY <2>1 DEF SendToken, ReceiveToken, InCall, SendCall, ReceiveCall
    <3> QED
      BY <2>1, <3>1, Counts DEF CountAfter
  <2>3. TypeOK'
    BY <1>17, <2>1 DEF TypeOK, PC, CloseFree
  <2>4. CountersExact'
    BY <1>17, <2>2 DEF CountersExact, CloseFree
  <2>5. Shape'
    BY <1>17, <2>1 DEF Shape, TypeOK, Closing, Loaded, At, Busy, CloseFree
  <2>6. WithinCapacity'
    BY <1>17 DEF WithinCapacity, CloseFree
  <2>7. NoLostWakeup'
    BY <1>17 DEF NoLostWakeup, Full, Busy, CloseFree
  <2> QED
    BY <2>3, <2>4, <2>5, <2>6, <2>7
<1>18. ASSUME NEW c \in Callers, SpuriousWake(c)
      PROVE  IInv'
  <2>1. pc' = pc
    BY <1>18 DEF SpuriousWake
  <2>2. \A S : At(S)' = At(S)
    BY <2>1 DEF At
  <2>3. TypeOK'
    BY <1>18, <2>1 DEF TypeOK, SpuriousWake
  <2>4. CountersExact'
    BY <1>18, <2>2 DEF CountersExact, SpuriousWake
  <2>5. Shape'
    BY <1>18, <2>1 DEF Shape, TypeOK, Closing, Loaded, At, Busy, SpuriousWake
  <2>6. WithinCapacity'
    BY <1>18 DEF WithinCapacity, SpuriousWake
  <2>7. NoLostWakeup'
    BY <1>18 DEF NoLostWakeup, Full, Busy, SpuriousWake
  <2> QED
    BY <2>3, <2>4, <2>5, <2>6, <2>7
<1>19. ASSUME UNCHANGED vars
      PROVE  IInv'
  <2>1. \A S : At(S)' = At(S)
    BY <1>19 DEF vars, At
  <2> QED
    BY <1>19, <2>1 DEF vars, channel, TypeOK, CountersExact, Shape, WithinCapacity,
      NoLostWakeup, Full, Busy
<1> QED
  BY <1>1, <1>2, <1>3, <1>4, <1>5, <1>6, <1>7, <1>8, <1>9, <1>10,
     <1>11, <1>12, <1>13, <1>14, <1>15, <1>16, <1>17, <1>18, <1>19
  DEF Next, Inside, Complete, Enter, RefuseHandle

-----------------------------------------------------------------------------
(* The theorems. *)

\* A freshly initialised channel satisfies IInv.
LEMMA Initial == Init => IInv
<1> SUFFICES ASSUME Init PROVE IInv
  OBVIOUS
<1> USE DEF Init
<1>1. TypeOK
  <2>1. "idle" \in PC /\ <<>> \in Seq(Values)
    BY DEF PC
  <2>2. pc \in [Callers -> PC] /\ payload \in [Callers -> Seq(Values)]
    BY <2>1 DEF None
  <2> QED
    BY <2>1, <2>2 DEF TypeOK
<1>2. ASSUME NEW S, "idle" \notin S
      PROVE  At(S) = {} /\ Cardinality(At(S)) = 0
  BY <1>2, FS_EmptySet DEF At
<1>3. CountersExact
  <2>1. "idle" \notin SendToken /\ "idle" \notin ReceiveToken /\ "idle" \notin InCall
    BY DEF SendToken, ReceiveToken, InCall, SendCall, ReceiveCall
  <2> QED
    BY <1>2, <2>1 DEF CountersExact
<1>4. Shape
  <2>1. "idle" \notin Closing /\ "idle" \notin Loaded
    BY DEF Closing, Loaded
  <2> QED
    BY <1>2, <2>1 DEF Shape
<1>5. WithinCapacity /\ NoLostWakeup
  BY CapacityAssumption DEF WithinCapacity, NoLostWakeup
<1> QED
  BY <1>1, <1>3, <1>4, <1>5 DEF IInv

\* IInv holds in every reachable state.
THEOREM Invariant == Spec => []IInv
BY Initial, Inductive, PTL DEF Spec

\* Every variable keeps its type; in particular no counter is decremented
\* below zero by send_commit, send_cancel, receive_commit or typed_release.
THEOREM TypeCorrect == Spec => []TypeOK
<1>1. IInv => TypeOK
  BY DEF IInv
<1> QED
  BY <1>1, Invariant, PTL

\* reservations, active_receives and active_calls count exactly the prepared
\* sends, the acquired nodes and the pinned calls.
THEOREM Counters == Spec => []CountersExact
<1>1. IInv => CountersExact
  BY DEF IInv
<1> QED
  BY <1>1, Invariant, PTL

\* Whatever the number of senders that race through prepare and commit, the
\* queue and the reserved slots fit the capacity.
THEOREM Bounded == Spec => []WithinCapacity
<1>1. IInv => WithinCapacity
  BY DEF IInv
<1> QED
  BY <1>1, Invariant, PTL

\* The accounts of the channel are right at every step of every call: types, the three
\* counters and the capacity together (typed_acquire to receive_commit).
THEOREM Accounted == Spec => []Accounting
<1> QED
  BY TypeCorrect, Counters, Bounded, PTL DEF Accounting

\* Nobody sleeps on writable, readable or quiescent without a reason: every
\* critical section that ends the reason broadcasts.
THEOREM Wakeups == Spec => []NoLostWakeup
<1>1. IInv => NoLostWakeup
  BY DEF IInv
<1> QED
  BY <1>1, Invariant, PTL

\* close frees the channel only when every caller has left it for good.
THEOREM SafeFree == Spec => []NoUseAfterFree
<1>1. IInv => NoUseAfterFree
  <2> SUFFICES ASSUME IInv, freed, NEW c \in Callers
               PROVE  pc[c] = "idle"
    BY DEF NoUseAfterFree
  <2>1. /\ Cardinality(At(SendToken)) = 0
        /\ Cardinality(At(ReceiveToken)) = 0
        /\ Cardinality(At(InCall)) = 0
    BY DEF IInv, Shape, CountersExact, Busy
  <2>2. /\ pc[c] \notin SendToken
        /\ pc[c] \notin ReceiveToken
        /\ pc[c] \notin InCall
    <3>1. ASSUME NEW S, Cardinality(At(S)) = 0
          PROVE  pc[c] \notin S
      BY <3>1, NobodyAt DEF At
    <3> QED
      BY <2>1, <3>1
  <2>3. pc[c] \notin Closing
    BY DEF IInv, Shape, At
  <2>4. pc[c] \in PC
    BY DEF IInv, TypeOK
  <2> QED
    BY <2>2, <2>3, <2>4 DEF PC, InCall
<1> QED
  BY <1>1, Invariant, PTL

-----------------------------------------------------------------------------
(* Affine ownership.  SingleOwner adds cardinalities; the proof works with *)
(* `not at all' and `once', which the actions turn into each other, and    *)
(* takes the sum at the end.                                               *)

NotHeld(h, v) == \A c \in Callers : NotIn(h[c], v)
OnceHeld(h, v) ==
    \E c \in Callers : OnceIn(h[c], v) /\ \A d \in Callers \ {c} : NotIn(h[d], v)

\* v is in one of the five places, and in no other.  h gives the values each caller carries.
OwnedIn(v, src, del, drp, q, h) ==
    \/ /\ v \in src /\ v \notin del /\ v \notin drp
       /\ NotIn(q, v) /\ NotHeld(h, v)
    \/ /\ v \notin src /\ v \in del /\ v \notin drp
       /\ NotIn(q, v) /\ NotHeld(h, v)
    \/ /\ v \notin src /\ v \notin del /\ v \in drp
       /\ NotIn(q, v) /\ NotHeld(h, v)
    \/ /\ v \notin src /\ v \notin del /\ v \notin drp
       /\ OnceIn(q, v) /\ NotHeld(h, v)
    \/ /\ v \notin src /\ v \notin del /\ v \notin drp
       /\ NotIn(q, v) /\ OnceHeld(h, v)

Hands == [c \in Callers |-> Carried(c)]
AllOwned == \A v \in Values : OwnedIn(v, source, delivered, dropped, queue, Hands)

\* A caller at one of these places offers a value that is still its sender's, and no two
\* offer the same.
OfferPc == {"prepare", "prepareReturn", "prepared", "moving"}
Offers ==
    /\ \A c \in Callers : pc[c] \in OfferPc => payload[c][1] \in source
    /\ \A c, d \in Callers :
         /\ pc[c] \in OfferPc /\ pc[d] \in OfferPc
         /\ payload[c][1] = payload[d][1]
         => c = d

OInv == IInv /\ Offers /\ AllOwned

(* The five ways a value changes hands; every other value stays where it  *)
(* is.                                                                     *)

\* The move callback takes a value from its sender (SendMove).
LEMMA Given ==
    ASSUME NEW src, NEW del, NEW drp, NEW q, NEW h \in [Callers -> Seq(Values)],
           NEW c \in Callers, h[c] = <<>>, NEW u \in src, u \in Values,
           NEW v \in Values, OwnedIn(v, src, del, drp, q, h),
           OwnedIn(u, src, del, drp, q, h)
    PROVE  OwnedIn(v, src \ {u}, del, drp, q, [h EXCEPT ![c] = <<u>>])
<1> DEFINE g == [h EXCEPT ![c] = <<u>>]
<1>1. g[c] = <<u>> /\ \A d \in Callers \ {c} : g[d] = h[d]
  OBVIOUS
<1>2. OnceIn(<<u>>, u) /\ (v # u => NotIn(<<u>>, v))
  BY DEF OnceIn, NotIn
<1> HIDE DEF g
<1>3. CASE v = u
  <2>1. u \notin del /\ u \notin drp /\ NotIn(q, u) /\ NotHeld(h, u)
    BY DEF OwnedIn
  <2>2. OnceHeld(g, u)
    BY <1>1, <1>2, <2>1 DEF OnceHeld, NotHeld
  <2> QED
    BY <1>3, <2>1, <2>2 DEF OwnedIn, g
<1>4. CASE v # u
  <2>1. NotHeld(h, v) => NotHeld(g, v)
    BY <1>1, <1>2, <1>4 DEF NotHeld
  <2>2. OnceHeld(h, v) => OnceHeld(g, v)
    BY <1>1, <1>2, <1>4, NotBoth DEF OnceHeld
  <2> QED
    BY <1>4, <2>1, <2>2 DEF OwnedIn, g
<1> QED
  BY <1>3, <1>4

\* A caller links the value it carries (SendLink).
LEMMA Queued ==
    ASSUME NEW src, NEW del, NEW drp, NEW q \in Seq(Values),
           NEW h \in [Callers -> Seq(Values)],
           NEW c \in Callers, NEW u \in Values, h[c] = <<u>>,
           NEW v \in Values, OwnedIn(v, src, del, drp, q, h),
           OwnedIn(u, src, del, drp, q, h)
    PROVE  OwnedIn(v, src, del, drp, Append(q, u), [h EXCEPT ![c] = <<>>])
<1> DEFINE g == [h EXCEPT ![c] = <<>>]
<1>1. g[c] = <<>> /\ \A d \in Callers \ {c} : g[d] = h[d]
  OBVIOUS
<1>2. OnceIn(<<u>>, u) /\ (v # u => NotIn(<<u>>, v))
  BY DEF OnceIn, NotIn
<1> HIDE DEF g
<1>3. CASE v = u
  <2>1. u \notin src /\ u \notin del /\ u \notin drp /\ NotIn(q, u) /\ OnceHeld(h, u)
    BY <1>2, NotBoth DEF OwnedIn, NotHeld
  <2>2. NotHeld(g, u)
    BY <1>1, <1>2, <2>1, NotBoth DEF OnceHeld, NotHeld
  <2>3. OnceIn(Append(q, u), u)
    BY <2>1, Appended
  <2> QED
    BY <1>3, <2>1, <2>2, <2>3 DEF OwnedIn, g
<1>4. CASE v # u
  <2>1. NotHeld(h, v) => NotHeld(g, v)
    BY <1>1, NotBoth DEF NotHeld
  <2>2. OnceHeld(h, v) => OnceHeld(g, v)
    BY <1>1, <1>2, <1>4, NotBoth DEF OnceHeld
  <2>3. /\ NotIn(q, v) => NotIn(Append(q, u), v)
        /\ OnceIn(q, v) => OnceIn(Append(q, u), v)
    BY <1>4, Appended
  <2> QED
    BY <2>1, <2>2, <2>3 DEF OwnedIn, g
<1> QED
  BY <1>3, <1>4

\* A caller takes the head of the queue (ReceiveAcquire).
LEMMA Fetched ==
    ASSUME NEW src, NEW del, NEW drp, NEW q \in Seq(Values), q # <<>>,
           NEW h \in [Callers -> Seq(Values)], NEW c \in Callers, h[c] = <<>>,
           NEW v \in Values, OwnedIn(v, src, del, drp, q, h),
           OwnedIn(Head(q), src, del, drp, q, h)
    PROVE  OwnedIn(v, src, del, drp, Tail(q), [h EXCEPT ![c] = <<Head(q)>>])
<1> DEFINE u == Head(q)
           g == [h EXCEPT ![c] = <<u>>]
<1>1. g[c] = <<u>> /\ \A d \in Callers \ {c} : g[d] = h[d]
  OBVIOUS
<1>2. u \in Values /\ ~NotIn(q, u)
  BY Taken
<1>3. /\ NotIn(q, v) => NotIn(Tail(q), v)
      /\ v # u /\ OnceIn(q, v) => OnceIn(Tail(q), v)
      /\ OnceIn(q, u) => NotIn(Tail(q), u)
  BY Taken
<1>4. OnceIn(<<u>>, u) /\ (v # u => NotIn(<<u>>, v))
  BY DEF OnceIn, NotIn
<1>5. OwnedIn(u, src, del, drp, q, h)
  OBVIOUS
<1> HIDE DEF g, u
<1>6. CASE v = u
  <2>1. u \notin src /\ u \notin del /\ u \notin drp /\ OnceIn(q, u) /\ NotHeld(h, u)
    BY <1>2, <1>5 DEF OwnedIn
  <2>2. OnceHeld(g, u)
    BY <1>1, <1>4, <2>1 DEF OnceHeld, NotHeld
  <2> QED
    BY <1>3, <1>6, <2>1, <2>2 DEF OwnedIn, g, u
<1>7. CASE v # u
  <2>1. NotHeld(h, v) => NotHeld(g, v)
    BY <1>1, <1>4, <1>7 DEF NotHeld
  <2>2. OnceHeld(h, v) => OnceHeld(g, v)
    BY <1>1, <1>4, <1>7, NotBoth DEF OnceHeld
  <2> QED
    BY <1>3, <1>7, <2>1, <2>2 DEF OwnedIn, g, u
<1> QED
  BY <1>6, <1>7

\* The first value a caller carries is delivered or dropped (ReceiveConsume, CloseDrop).
LEMMA Spent ==
    ASSUME NEW src, NEW del, NEW drp, NEW q,
           NEW h \in [Callers -> Seq(Values)], NEW c \in Callers, h[c] # <<>>,
           NEW v \in Values, OwnedIn(v, src, del, drp, q, h),
           OwnedIn(Head(h[c]), src, del, drp, q, h)
    PROVE  /\ OwnedIn(v, src, del \cup {Head(h[c])}, drp, q, [h EXCEPT ![c] = Tail(h[c])])
           /\ OwnedIn(v, src, del, drp \cup {Head(h[c])}, q, [h EXCEPT ![c] = Tail(h[c])])
<1> DEFINE s == h[c]
           u == Head(s)
           g == [h EXCEPT ![c] = Tail(s)]
<1>0. s \in Seq(Values) /\ s # <<>> /\ s = h[c]
  OBVIOUS
<1>1. g[c] = Tail(s) /\ \A d \in Callers \ {c} : g[d] = h[d]
  OBVIOUS
<1>5. OwnedIn(u, src, del, drp, q, h)
  OBVIOUS
<1> HIDE DEF s
<1>2. u \in Values /\ ~NotIn(s, u)
  BY <1>0, Taken
<1>3. /\ NotIn(s, v) => NotIn(Tail(s), v)
      /\ v # u /\ OnceIn(s, v) => OnceIn(Tail(s), v)
      /\ OnceIn(s, u) => NotIn(Tail(s), u)
  BY <1>0, Taken
<1> HIDE DEF g, u
<1>6. CASE v = u
  <2>1. u \notin src /\ u \notin del /\ u \notin drp /\ NotIn(q, u) /\ OnceHeld(h, u)
    BY <1>0, <1>2, <1>5 DEF OwnedIn, NotHeld
  <2>2. OnceIn(s, u) /\ \A d \in Callers \ {c} : NotIn(h[d], u)
    BY <1>0, <1>2, <2>1 DEF OnceHeld
  <2>3. NotHeld(g, u)
    BY <1>1, <1>3, <2>2 DEF NotHeld
  <2>4. /\ OwnedIn(u, src, del \cup {u}, drp, q, g)
        /\ OwnedIn(u, src, del, drp \cup {u}, q, g)
    BY <2>1, <2>3 DEF OwnedIn
  <2> QED
    BY <1>6, <2>4 DEF g, u, s
<1>7. CASE v # u
  <2>1. NotHeld(h, v) => NotHeld(g, v)
    BY <1>0, <1>1, <1>3 DEF NotHeld
  <2>2. ASSUME OnceHeld(h, v) PROVE OnceHeld(g, v)
    <3>1. PICK b \in Callers : OnceIn(h[b], v) /\ \A d \in Callers \ {b} : NotIn(h[d], v)
      BY <2>2 DEF OnceHeld
    <3>2. CASE b = c
      BY <1>0, <1>1, <1>3, <1>7, <3>1, <3>2 DEF OnceHeld
    <3>3. CASE b # c
      BY <1>0, <1>1, <1>3, <3>1, <3>3 DEF OnceHeld
    <3> QED
      BY <3>2, <3>3
  <2>3. /\ OwnedIn(v, src, del \cup {u}, drp, q, g)
        /\ OwnedIn(v, src, del, drp \cup {u}, q, g)
    BY <1>7, <2>1, <2>2 DEF OwnedIn
  <2> QED
    BY <2>3 DEF g, u, s
<1> QED
  BY <1>6, <1>7

\* close takes the whole queue (CloseWait).
LEMMA Detached ==
    ASSUME NEW src, NEW del, NEW drp, NEW q,
           NEW h \in [Callers -> Seq(Values)], NEW c \in Callers, h[c] = <<>>,
           NEW v \in Values, OwnedIn(v, src, del, drp, q, h)
    PROVE  OwnedIn(v, src, del, drp, <<>>, [h EXCEPT ![c] = q])
<1> DEFINE g == [h EXCEPT ![c] = q]
<1>1. g[c] = q /\ \A d \in Callers \ {c} : g[d] = h[d]
  OBVIOUS
<1> HIDE DEF g
<1>2. NotIn(q, v) /\ NotHeld(h, v) => NotHeld(g, v)
  BY <1>1 DEF NotHeld
<1>3. OnceIn(q, v) /\ NotHeld(h, v) => OnceHeld(g, v)
  BY <1>1 DEF NotHeld, OnceHeld
<1>4. ASSUME NotIn(q, v), OnceHeld(h, v) PROVE OnceHeld(g, v)
  <2>1. PICK b \in Callers : OnceIn(h[b], v) /\ \A d \in Callers \ {b} : NotIn(h[d], v)
    BY <1>4 DEF OnceHeld
  <2>2. b # c
    BY <2>1, NotBoth
  <2> QED
    BY <1>1, <1>4, <2>1, <2>2 DEF OnceHeld
<1> QED
  BY <1>2, <1>3, <1>4, NotBoth DEF OwnedIn, g

-----------------------------------------------------------------------------
\* What one caller's step does to what the callers carry.
LEMMA HandsMove ==
    ASSUME TypeOK, NEW c \in Callers, NEW to, NEW vs,
           pc' = [pc EXCEPT ![c] = to],
           payload' = [payload EXCEPT ![c] = vs]
    PROVE  Hands' = [Hands EXCEPT ![c] =
                       IF to \in {"moved", "acquireReturn", "acquired", "draining"}
                       THEN vs ELSE <<>>]
<1>1. \A d \in Callers : pc'[d] = IF d = c THEN to ELSE pc[d]
  BY DEF TypeOK
<1>2. \A d \in Callers : payload'[d] = IF d = c THEN vs ELSE payload[d]
  BY DEF TypeOK
<1>3. Hands' = [d \in Callers |->
                  IF pc'[d] \in {"moved", "acquireReturn", "acquired", "draining"}
                  THEN payload'[d] ELSE <<>>]
  BY DEF Hands, Carried, None
<1>4. Hands = [d \in Callers |->
                 IF pc[d] \in {"moved", "acquireReturn", "acquired", "draining"}
                 THEN payload[d] ELSE <<>>]
  BY DEF Hands, Carried, None
<1> DEFINE h == IF to \in {"moved", "acquireReturn", "acquired", "draining"}
                THEN vs ELSE <<>>
<1>5. [Hands EXCEPT ![c] = h] = [d \in Callers |-> IF d = c THEN h ELSE Hands[d]]
  BY <1>4, Zenon
<1>6. \A d \in Callers : Hands'[d] = IF d = c THEN h ELSE Hands[d]
  BY <1>1, <1>2, <1>3, <1>4
<1>7. Hands' = [d \in Callers |-> Hands'[d]]
  BY <1>3
<1> HIDE DEF h
<1>8. Hands' = [Hands EXCEPT ![c] = h]
  BY <1>5, <1>6, <1>7
<1> QED
  BY <1>8 DEF h

\* Nobody's hands change when pc and payload stay as they are.
LEMMA HandsSame ==
    ASSUME UNCHANGED <<pc, payload>>
    PROVE  Hands' = Hands
  BY DEF Hands, Carried

\* What the callers carry are values.
LEMMA HandsType ==
    ASSUME TypeOK
    PROVE  Hands \in [Callers -> Seq(Values)]
<1>1. <<>> \in Seq(Values)
  OBVIOUS
<1> QED
  BY <1>1 DEF TypeOK, Hands, Carried, None

\* A step that leaves places and hands alone leaves ownership alone.
LEMMA SameOwners ==
    ASSUME AllOwned, UNCHANGED <<source, delivered, dropped, queue, Hands>>
    PROVE  AllOwned'
  BY DEF AllOwned

\* Caller c moves to a place without taking, giving or offering a value.
Quiet(c, to) ==
    /\ pc' = [pc EXCEPT ![c] = to]
    /\ payload' = payload \/ payload' = [payload EXCEPT ![c] = <<>>]
    /\ UNCHANGED <<source, delivered, dropped, queue>>
    /\ to \in OfferPc => pc[c] \in OfferPc /\ payload' = payload
    /\ \/ /\ pc[c] \notin {"moved", "acquireReturn", "acquired", "draining"}
          /\ to \notin {"moved", "acquireReturn", "acquired", "draining"}
       \/ pc[c] = "acquireReturn" /\ to = "acquired" /\ payload' = payload
       \/ /\ pc[c] = "draining" /\ payload[c] = <<>>
          /\ to \notin {"moved", "acquireReturn", "acquired", "draining"}

\* Every action of the channel moves each value between owners as one of the lemmas says,
\* or not at all.
LEMMA OwnersInductive == OInv /\ [Next]_vars => OInv'
<1> SUFFICES ASSUME OInv, [Next]_vars PROVE Offers' /\ AllOwned'
  BY Inductive DEF OInv
<1>0. TypeOK /\ Shape /\ Offers /\ AllOwned
  BY DEF OInv, IInv
<1>t. /\ pc \in [Callers -> PC] /\ payload \in [Callers -> Seq(Values)]
      /\ queue \in Seq(Values) /\ source \subseteq Values
  BY <1>0 DEF TypeOK
<1>h. Hands \in [Callers -> Seq(Values)]
  BY <1>0, HandsType
<1>w. \A c \in Callers : pc[c] \in Loaded =>
        payload[c][1] \in Values /\ payload[c] = <<payload[c][1]>>
           /\ Head(payload[c]) = payload[c][1] /\ Tail(payload[c]) = <<>>
           /\ payload[c] # <<>>
  <2> SUFFICES ASSUME NEW c \in Callers, pc[c] \in Loaded
               PROVE  payload[c][1] \in Values /\ payload[c] = <<payload[c][1]>>
                        /\ Head(payload[c]) = payload[c][1] /\ Tail(payload[c]) = <<>>
                        /\ payload[c] # <<>>
    OBVIOUS
  <2>1. payload[c] \in Seq(Values) /\ Len(payload[c]) = 1
    BY <1>0, <1>t DEF Shape
  <2>2. PICK x \in Values : payload[c] = <<x>>
    BY <2>1, Alone
  <2>3. Head(<<x>>) = x /\ Tail(<<x>>) = <<>> /\ <<x>> # <<>> /\ <<x>>[1] = x
    OBVIOUS
  <2> QED
    BY <2>2, <2>3
<1>c. \A c \in Callers : Hands[c] =
        IF pc[c] \in {"moved", "acquireReturn", "acquired", "draining"}
        THEN payload[c] ELSE <<>>
  BY DEF Hands, Carried, None
<1>p. \A c \in Callers : payload = [payload EXCEPT ![c] = payload[c]]
  BY <1>t
\* Steps that move nobody's value.
<1>q. ASSUME NEW c \in Callers, NEW to, Quiet(c, to)
      PROVE  Offers' /\ AllOwned'
  <2>1. PICK vs : payload' = [payload EXCEPT ![c] = vs] /\ vs \in {<<>>, payload[c]}
                    /\ (payload' = payload => vs = payload[c])
    BY <1>q, <1>p, <1>t DEF Quiet
  <2>2. Hands' = [Hands EXCEPT ![c] =
                    IF to \in {"moved", "acquireReturn", "acquired", "draining"}
                    THEN vs ELSE <<>>]
    BY <1>0, <1>q, <2>1, HandsMove DEF Quiet
  <2>3. Hands' = Hands
    BY <1>q, <1>c, <1>h, <2>1, <2>2 DEF Quiet
  <2>4. Offers'
    BY <1>0, <1>q, <1>t DEF Offers, Quiet
  <2> QED
    BY <1>0, <1>q, <2>3, <2>4, SameOwners DEF Quiet
\* Steps that move nobody at all.
<1>s. ASSUME UNCHANGED <<pc, payload, source, delivered, dropped, queue>>
      PROVE  Offers' /\ AllOwned'
  BY <1>0, <1>s, HandsSame, SameOwners DEF Offers
<1>1. ASSUME NEW c \in Callers, NEW v \in Values, SendPrepareEnter(c, v)
      PROVE  Offers' /\ AllOwned'
  <2>1. /\ pc[c] = "idle" /\ pc' = [pc EXCEPT ![c] = "prepare"]
        /\ payload' = [payload EXCEPT ![c] = <<v>>]
        /\ UNCHANGED <<source, delivered, dropped, queue>>
        /\ v \in source /\ \A d \in Callers : payload[d] # <<v>>
    BY <1>1 DEF SendPrepareEnter, typed_acquire, Goto, Hold
  <2>2. Hands' = [Hands EXCEPT ![c] = <<>>]
    BY <1>0, <2>1, HandsMove
  <2>3. Hands' = Hands
    BY <1>c, <1>h, <2>1, <2>2
  <2>4. \A d \in Callers : pc[d] \in OfferPc => payload[d][1] # v
    BY <1>w, <2>1 DEF OfferPc, Loaded
  <2>5. Offers'
    BY <1>0, <1>t, <2>1, <2>4 DEF Offers
  <2> QED
    BY <1>0, <2>1, <2>3, <2>5, SameOwners
<1>2. ASSUME NEW c \in Callers, SendPrepare(c)
      PROVE  Offers' /\ AllOwned'
  <2>1. CASE ~closed /\ Full
    BY <1>2, <2>1, <1>s DEF SendPrepare
  <2>2. CASE closed
    <3>1. Quiet(c, "prepareClosed")
      BY <1>2, <2>2 DEF SendPrepare, Hold, None, OfferPc, Quiet
    <3> QED
      BY <1>q, <3>1
  <2>3. CASE ~closed /\ ~Full
    <3>1. Quiet(c, "prepareReturn")
      BY <1>2, <2>3 DEF SendPrepare, OfferPc, Quiet
    <3> QED
      BY <1>q, <3>1
  <2> QED
    BY <2>1, <2>2, <2>3
<1>3. ASSUME NEW c \in Callers, SendPrepareReturn(c)
      PROVE  Offers' /\ AllOwned'
  <2>1. Quiet(c, "prepared") \/ Quiet(c, "idle")
    BY <1>3 DEF SendPrepareReturn, typed_release, Goto, OfferPc, Quiet
  <2> QED
    BY <1>q, <2>1
<1>4. ASSUME NEW c \in Callers, SendCommitFail(c) \/ SendCancel(c)
      PROVE  Offers' /\ AllOwned'
  <2>1. Quiet(c, "idle")
    BY <1>4 DEF SendCommitFail, SendCancel, Goto, Hold, None, OfferPc, Quiet
  <2> QED
    BY <1>q, <2>1
<1>5. ASSUME NEW c \in Callers, SendCommitSelect(c)
      PROVE  Offers' /\ AllOwned'
  <2>1. Quiet(c, "moving")
    BY <1>5 DEF SendCommitSelect, channel, Goto, OfferPc, Quiet
  <2> QED
    BY <1>q, <2>1
<1>6. ASSUME NEW c \in Callers, SendMove(c)
      PROVE  Offers' /\ AllOwned'
  <2> DEFINE u == payload[c][1]
  <2>1. /\ pc[c] = "moving" /\ pc' = [pc EXCEPT ![c] = "moved"]
        /\ source' = source \ {u}
        /\ UNCHANGED <<delivered, dropped, queue, payload>>
    BY <1>6 DEF SendMove, channel, Goto
  <2>2. u \in source /\ u \in Values /\ payload[c] = <<u>>
    BY <1>0, <1>w, <2>1 DEF Offers, OfferPc, Loaded
  <2>3. Hands[c] = <<>>
    BY <1>c, <2>1
  <2> HIDE DEF u
  <2>4. Hands' = [Hands EXCEPT ![c] = <<u>>]
    BY <1>0, <1>p, <2>1, <2>2, HandsMove
  <2>5. AllOwned'
    <3> SUFFICES ASSUME NEW v \in Values
                 PROVE  OwnedIn(v, source \ {u}, delivered, dropped, queue,
                                [Hands EXCEPT ![c] = <<u>>])
      BY <2>1, <2>4 DEF AllOwned
    <3>1. /\ OwnedIn(v, source, delivered, dropped, queue, Hands)
          /\ OwnedIn(u, source, delivered, dropped, queue, Hands)
      BY <1>0, <2>2 DEF AllOwned
    <3> QED
      BY <1>h, <2>2, <2>3, <3>1, Given
  <2>6. Offers'
    BY <1>0, <1>t, <2>1 DEF Offers, OfferPc, u
  <2> QED
    BY <2>5, <2>6
<1>7. ASSUME NEW c \in Callers, SendLink(c)
      PROVE  Offers' /\ AllOwned'
  <2> DEFINE u == payload[c][1]
  <2>1. /\ pc[c] = "moved" /\ pc' = [pc EXCEPT ![c] = "idle"]
        /\ payload' = [payload EXCEPT ![c] = <<>>]
        /\ queue' = Append(queue, u)
        /\ UNCHANGED <<source, delivered, dropped>>
    BY <1>7 DEF SendLink, Goto, Hold, None
  <2>2. u \in Values /\ payload[c] = <<u>>
    BY <1>w, <2>1 DEF Loaded
  <2>3. Hands[c] = <<u>>
    BY <1>c, <2>1, <2>2
  <2>4. Hands' = [Hands EXCEPT ![c] = <<>>]
    BY <1>0, <2>1, HandsMove
  <2> HIDE DEF u
  <2>5. AllOwned'
    <3> SUFFICES ASSUME NEW v \in Values
                 PROVE  OwnedIn(v, source, delivered, dropped, Append(queue, u),
                                [Hands EXCEPT ![c] = <<>>])
      BY <2>1, <2>4 DEF AllOwned
    <3>1. /\ OwnedIn(v, source, delivered, dropped, queue, Hands)
          /\ OwnedIn(u, source, delivered, dropped, queue, Hands)
      BY <1>0, <2>2 DEF AllOwned
    <3> QED
      BY <1>h, <1>t, <2>2, <2>3, <3>1, Queued
  <2>6. Offers'
    BY <1>0, <1>t, <2>1 DEF Offers, OfferPc
  <2> QED
    BY <2>5, <2>6
<1>8. ASSUME NEW c \in Callers, ReceiveAcquireEnter(c)
      PROVE  Offers' /\ AllOwned'
  <2>1. Quiet(c, "acquire")
    BY <1>8 DEF ReceiveAcquireEnter, typed_acquire, Goto, OfferPc, Quiet
  <2> QED
    BY <1>q, <2>1
<1>9. ASSUME NEW c \in Callers, ReceiveAcquire(c)
      PROVE  Offers' /\ AllOwned'
  <2>1. CASE queue = <<>> /\ ~closed
    BY <1>9, <2>1, <1>s DEF ReceiveAcquire
  <2>2. CASE queue = <<>> /\ closed
    <3>1. Quiet(c, "acquireClosed")
      BY <1>9, <2>2 DEF ReceiveAcquire, OfferPc, Quiet
    <3> QED
      BY <1>q, <3>1
  <2>3. CASE queue # <<>>
    <3>1. /\ pc[c] = "acquire" /\ pc' = [pc EXCEPT ![c] = "acquireReturn"]
          /\ payload' = [payload EXCEPT ![c] = <<Head(queue)>>]
          /\ queue' = Tail(queue)
          /\ UNCHANGED <<source, delivered, dropped>>
      BY <1>9, <2>3 DEF ReceiveAcquire, Hold
    <3>2. Hands[c] = <<>>
      BY <1>c, <3>1
    <3>3. Hands' = [Hands EXCEPT ![c] = <<Head(queue)>>]
      BY <1>0, <3>1, HandsMove
    <3>4. AllOwned'
      <4> SUFFICES ASSUME NEW v \in Values
                   PROVE  OwnedIn(v, source, delivered, dropped, Tail(queue),
                                  [Hands EXCEPT ![c] = <<Head(queue)>>])
        BY <3>1, <3>3 DEF AllOwned
      <4>1. Head(queue) \in Values
        BY <1>t, <2>3
      <4>2. /\ OwnedIn(v, source, delivered, dropped, queue, Hands)
            /\ OwnedIn(Head(queue), source, delivered, dropped, queue, Hands)
        BY <1>0, <4>1 DEF AllOwned
      <4> QED
        BY <1>h, <1>t, <2>3, <3>2, <4>2, Fetched
    <3>5. Offers'
      BY <1>0, <1>t, <3>1 DEF Offers, OfferPc
    <3> QED
      BY <3>4, <3>5
  <2> QED
    BY <2>1, <2>2, <2>3
<1>10. ASSUME NEW c \in Callers, ReceiveAcquireReturn(c)
       PROVE  Offers' /\ AllOwned'
  <2>1. Quiet(c, "acquired") \/ Quiet(c, "idle")
    BY <1>10 DEF ReceiveAcquireReturn, typed_release, Goto, OfferPc, Quiet
  <2> QED
    BY <1>q, <2>1
\* The head of what a caller carries is moved out or dropped.
<1>z. ASSUME NEW c \in Callers, Hands[c] # <<>>,
             Hands' = [Hands EXCEPT ![c] = Tail(Hands[c])],
             \/ delivered' = delivered \cup {Head(Hands[c])} /\ UNCHANGED dropped
             \/ dropped' = dropped \cup {Head(Hands[c])} /\ UNCHANGED delivered,
             UNCHANGED <<source, queue>>
      PROVE  AllOwned'
  <2> DEFINE u == Head(Hands[c])
             g == [Hands EXCEPT ![c] = Tail(Hands[c])]
  <2>1. \A v \in Values : /\ OwnedIn(v, source, delivered \cup {u}, dropped, queue, g)
                          /\ OwnedIn(v, source, delivered, dropped \cup {u}, queue, g)
    <3> SUFFICES ASSUME NEW v \in Values
                 PROVE  /\ OwnedIn(v, source, delivered \cup {u}, dropped, queue, g)
                        /\ OwnedIn(v, source, delivered, dropped \cup {u}, queue, g)
      OBVIOUS
    <3>1. u \in Values
      BY <1>h, <1>z
    <3>2. /\ OwnedIn(v, source, delivered, dropped, queue, Hands)
          /\ OwnedIn(u, source, delivered, dropped, queue, Hands)
      BY <1>0, <3>1 DEF AllOwned
    <3> QED
      BY <1>h, <1>z, <3>2, Spent
  <2>2. CASE delivered' = delivered \cup {u} /\ UNCHANGED dropped
    BY <1>z, <2>1, <2>2 DEF AllOwned
  <2>3. CASE dropped' = dropped \cup {u} /\ UNCHANGED delivered
    BY <1>z, <2>1, <2>3 DEF AllOwned
  <2> QED
    BY <1>z, <2>2, <2>3
<1>11. ASSUME NEW c \in Callers, ReceiveConsume(c)
       PROVE  Offers' /\ AllOwned'
  <2>1. /\ pc[c] = "acquired" /\ pc' = [pc EXCEPT ![c] = "consumed"]
        /\ payload' = [payload EXCEPT ![c] = <<>>]
        /\ \/ delivered' = delivered \cup {payload[c][1]} /\ UNCHANGED dropped
           \/ dropped' = dropped \cup {payload[c][1]} /\ UNCHANGED delivered
        /\ UNCHANGED <<source, queue>>
    BY <1>11 DEF ReceiveConsume, channel, Goto, Hold, None
  <2>2. /\ Hands[c] = payload[c] /\ Hands[c] # <<>>
        /\ Head(Hands[c]) = payload[c][1] /\ Tail(Hands[c]) = <<>>
    BY <1>c, <1>w, <2>1 DEF Loaded
  <2>3. Hands' = [Hands EXCEPT ![c] = Tail(Hands[c])]
    <3>1. Hands' = [Hands EXCEPT ![c] = <<>>]
      BY <1>0, <2>1, HandsMove
    <3> QED
      BY <2>2, <3>1
  <2>4. AllOwned'
    BY <1>z, <2>1, <2>2, <2>3
  <2>5. Offers'
    BY <1>0, <1>t, <2>1 DEF Offers, OfferPc
  <2> QED
    BY <2>4, <2>5
<1>12. ASSUME NEW c \in Callers, ReceiveFinish(c)
       PROVE  Offers' /\ AllOwned'
  <2>1. Quiet(c, "idle")
    BY <1>12 DEF ReceiveFinish, Goto, OfferPc, Quiet
  <2> QED
    BY <1>q, <2>1
<1>13. ASSUME NEW c \in Callers, CloseBegin(c)
       PROVE  Offers' /\ AllOwned'
  <2>1. Quiet(c, "closing")
    BY <1>13 DEF CloseBegin, Goto, OfferPc, Quiet
  <2> QED
    BY <1>q, <2>1
<1>14. ASSUME NEW c \in Callers, CloseWait(c)
       PROVE  Offers' /\ AllOwned'
  <2>1. CASE Busy
    BY <1>14, <2>1, <1>s DEF CloseWait
  <2>2. CASE ~Busy
    <3>1. /\ pc[c] = "closing" /\ pc' = [pc EXCEPT ![c] = "draining"]
          /\ payload' = [payload EXCEPT ![c] = queue]
          /\ queue' = <<>>
          /\ UNCHANGED <<source, delivered, dropped>>
      BY <1>14, <2>2 DEF CloseWait, Hold
    <3>2. Hands[c] = <<>>
      BY <1>c, <3>1
    <3>3. Hands' = [Hands EXCEPT ![c] = queue]
      BY <1>0, <3>1, HandsMove
    <3>4. AllOwned'
      <4> SUFFICES ASSUME NEW v \in Values
                   PROVE  OwnedIn(v, source, delivered, dropped, <<>>,
                                  [Hands EXCEPT ![c] = queue])
        BY <3>1, <3>3 DEF AllOwned
      <4>1. OwnedIn(v, source, delivered, dropped, queue, Hands)
        BY <1>0 DEF AllOwned
      <4> QED
        BY <1>h, <3>2, <4>1, Detached
    <3>5. Offers'
      BY <1>0, <1>t, <3>1 DEF Offers, OfferPc
    <3> QED
      BY <3>4, <3>5
  <2> QED
    BY <2>1, <2>2
<1>15. ASSUME NEW c \in Callers, CloseDrop(c)
       PROVE  Offers' /\ AllOwned'
  <2>1. /\ pc[c] = "draining" /\ pc' = pc
        /\ payload' = [payload EXCEPT ![c] = Tail(payload[c])]
        /\ dropped' = dropped \cup {Head(payload[c])}
        /\ payload[c] # <<>>
        /\ UNCHANGED <<source, delivered, queue>>
    BY <1>15 DEF CloseDrop, channel, Hold, None
  <2>2. pc' = [pc EXCEPT ![c] = "draining"]
    BY <1>t, <2>1
  <2>3. Hands[c] = payload[c]
    BY <1>c, <2>1
  <2>4. Hands' = [Hands EXCEPT ![c] = Tail(payload[c])]
    BY <1>0, <2>1, <2>2, HandsMove
  <2>5. AllOwned'
    BY <1>z, <2>1, <2>3, <2>4
  <2>6. Offers'
    BY <1>0, <1>t, <2>1 DEF Offers, OfferPc
  <2> QED
    BY <2>5, <2>6
<1>16. ASSUME NEW c \in Callers, CloseFree(c)
       PROVE  Offers' /\ AllOwned'
  <2>1. Quiet(c, "idle")
    BY <1>16 DEF CloseFree, Goto, OfferPc, None, Quiet
  <2> QED
    BY <1>q, <2>1
<1>17. ASSUME NEW c \in Callers, RefuseHandle(c) \/ SpuriousWake(c)
       PROVE  Offers' /\ AllOwned'
  BY <1>17, <1>s DEF RefuseHandle, SpuriousWake, vars, channel
<1>18. CASE UNCHANGED vars
  BY <1>18, <1>s DEF vars, channel
<1> QED
  BY <1>1, <1>2, <1>3, <1>4, <1>5, <1>6, <1>7, <1>8, <1>9, <1>10, <1>11, <1>12, <1>13,
     <1>14, <1>15, <1>16, <1>17, <1>18 DEF Next, Inside, Complete, Enter

-----------------------------------------------------------------------------
(* From places to cardinalities. *)

\* The positions of a value in all the callers' hands, counted.
LEMMA CountHeld ==
    ASSUME NEW v
    PROVE  /\ NotHeld(Hands, v) => Cardinality(Places(v).carried) = 0
           /\ OnceHeld(Hands, v) => Cardinality(Places(v).carried) = 1
<1> DEFINE At1(c) == {<<c, i>> : i \in {j \in DOMAIN Carried(c) : Carried(c)[j] = v}}
           C == UNION {At1(c) : c \in Callers}
<1>0. Places(v).carried = C
  BY DEF Places
<1>1. \A c \in Callers : Hands[c] = Carried(c)
  BY DEF Hands
<1>2. \A p : p \in C <=> \E c \in Callers : \E i \in DOMAIN Carried(c) :
                           Carried(c)[i] = v /\ p = <<c, i>>
  OBVIOUS
<1> HIDE DEF C
<1>3. ASSUME NotHeld(Hands, v) PROVE \A p \in C : FALSE
  BY <1>1, <1>2, <1>3 DEF NotHeld, NotIn
<1>4. ASSUME OnceHeld(Hands, v) PROVE \E p : C = {p}
  <2>1. PICK c \in Callers : OnceIn(Carried(c), v)
                             /\ \A d \in Callers \ {c} : NotIn(Carried(d), v)
    BY <1>1, <1>4 DEF OnceHeld
  <2>2. PICK i \in DOMAIN Carried(c) :
          Carried(c)[i] = v /\ \A j \in DOMAIN Carried(c) : Carried(c)[j] = v => j = i
    BY <2>1 DEF OnceIn
  <2>3. \A p : p \in C => p = <<c, i>>
    BY <1>2, <2>1, <2>2 DEF NotIn
  <2>4. <<c, i>> \in C
    BY <1>2, <2>2
  <2>5. C = {<<c, i>>}
    BY <2>3, <2>4
  <2> QED
    BY <2>5
<1> QED
  BY <1>0, <1>3, <1>4, Sizes

\* A value that is in one of the five places has one owner.
LEMMA OwnedOnce == AllOwned => SingleOwner
<1> SUFFICES ASSUME AllOwned, NEW v \in Values
             PROVE  Cardinality(Places(v).sender) + Cardinality(Places(v).delivered)
                      + Cardinality(Places(v).dropped) + Cardinality(Places(v).queued)
                      + Cardinality(Places(v).carried) = 1
  BY DEF SingleOwner
<1>1. OwnedIn(v, source, delivered, dropped, queue, Hands)
  BY DEF AllOwned
<1>2. ASSUME NEW S
      PROVE  /\ v \in S => Cardinality({x \in {v} : v \in S}) = 1
             /\ v \notin S => Cardinality({x \in {v} : v \in S}) = 0
  <2>1. ASSUME v \in S PROVE {x \in {v} : v \in S} = {v}
    BY <2>1
  <2>2. ASSUME v \notin S PROVE {x \in {v} : v \in S} = {}
    BY <2>2
  <2> QED
    BY <2>1, <2>2, Sizes
<1>3. /\ v \in source => Cardinality(Places(v).sender) = 1
      /\ v \notin source => Cardinality(Places(v).sender) = 0
      /\ v \in delivered => Cardinality(Places(v).delivered) = 1
      /\ v \notin delivered => Cardinality(Places(v).delivered) = 0
      /\ v \in dropped => Cardinality(Places(v).dropped) = 1
      /\ v \notin dropped => Cardinality(Places(v).dropped) = 0
  BY <1>2 DEF Places
<1>4. /\ NotIn(queue, v) => Cardinality(Places(v).queued) = 0
      /\ OnceIn(queue, v) => Cardinality(Places(v).queued) = 1
  BY CountIn DEF Places
<1> HIDE DEF Places
<1> QED
  BY <1>1, <1>3, <1>4, CountHeld DEF OwnedIn

\* At the start every value is its sender's.
LEMMA OwnersInit == Init => OInv
<1> SUFFICES ASSUME Init PROVE Offers /\ AllOwned
  BY Initial DEF OInv
<1>1. Offers
  BY DEF Init, Offers, OfferPc
<1>2. Hands = [c \in Callers |-> <<>>]
  BY DEF Init, Hands, Carried, None
<1>3. AllOwned
  BY <1>2, NotBoth DEF Init, AllOwned, OwnedIn, NotHeld
<1> QED
  BY <1>1, <1>3

\* Affine ownership: whatever commits, cancels, failed allocations, receives and a close do
\* at once, no value is lost, duplicated, or both delivered and dropped.
THEOREM OneOwner == Spec => []SingleOwner
<1>1. OInv => SingleOwner
  BY OwnedOnce DEF OInv
<1> QED
  BY <1>1, OwnersInit, OwnersInductive, PTL DEF Spec
=============================================================================
