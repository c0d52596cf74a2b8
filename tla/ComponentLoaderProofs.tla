------------------------ MODULE ComponentLoaderProofs -----------------------
(***************************************************************************)
(* A component is unloaded only when none of its code can run again, for   *)
(* any number of operations, closing threads and holders; and the lease it *)
(* is built on counts its users and closes over none of them, with its     *)
(* payload transports, for any number of those (second part).              *)
(*                                                                         *)
(* The argument: the lease counts exactly the operations with a token, and *)
(* an operation has a token while it is armed or its provider is inside;   *)
(* a close that has got past its first section saw no invocation running,  *)
(* and none begins after it because the module is closing.  So the close   *)
(* that finds no token and no holder finds nobody.                         *)
(***************************************************************************)
EXTENDS ComponentLoader, FiniteSetTheorems, SequenceTheorems, TLAPS

-----------------------------------------------------------------------------
(* How often a value is in a queue. *)

\* v is not in s; v is in s at exactly one position.
NotIn(s, v) == \A i \in DOMAIN s : s[i] # v
OnceIn(s, v) == \E i \in DOMAIN s : s[i] = v /\ \A j \in DOMAIN s : s[j] = v => j = i

\* What Append does to the two predicates.
LEMMA Appended ==
    ASSUME NEW S, NEW s \in Seq(S), NEW u \in S, NEW v \in S
    PROVE  /\ v # u /\ NotIn(s, v) => NotIn(Append(s, u), v)
           /\ v # u /\ OnceIn(s, v) => OnceIn(Append(s, u), v)
           /\ NotIn(s, u) => OnceIn(Append(s, u), u)
<1> DEFINE t == Append(s, u)
<1>1. /\ Len(s) \in Nat /\ DOMAIN s = 1..Len(s) /\ DOMAIN t = 1..(Len(s) + 1)
      /\ \A i \in 1..Len(s) : t[i] = s[i]
      /\ t[Len(s) + 1] = u
  BY LenProperties, AppendProperties
<1> HIDE DEF t
<1>2. NotIn(s, u) => OnceIn(t, u)
  BY <1>1 DEF NotIn, OnceIn
<1> QED
  BY <1>1, <1>2 DEF NotIn, OnceIn, t

\* What taking the head off a sequence does to them.
LEMMA Taken ==
    ASSUME NEW S, NEW s \in Seq(S), s # <<>>, NEW v \in S
    PROVE  /\ Head(s) \in S /\ ~NotIn(s, Head(s))
           /\ NotIn(s, v) => NotIn(Tail(s), v)
           /\ v # Head(s) /\ OnceIn(s, v) => OnceIn(Tail(s), v)
           /\ OnceIn(s, Head(s)) => NotIn(Tail(s), Head(s))
<1> DEFINE t == Tail(s)
           h == Head(s)
<1>1. /\ Len(s) \in Nat \ {0} /\ DOMAIN s = 1..Len(s) /\ s[1] = h /\ h \in S
      /\ DOMAIN t = 1..(Len(s) - 1) /\ \A i \in 1..(Len(s) - 1) : t[i] = s[i + 1]
  BY LenProperties, EmptySeq, HeadTailProperties
<1> HIDE DEF t, h
<1>2. \A i \in DOMAIN t : i + 1 \in DOMAIN s /\ t[i] = s[i + 1]
  BY <1>1
<1>3. \A i \in DOMAIN s : i = 1 \/ (i - 1 \in DOMAIN t /\ s[i] = t[i - 1])
  BY <1>1
<1>4. ASSUME v # h, OnceIn(s, v) PROVE OnceIn(t, v)
  <2>1. PICK i \in DOMAIN s : s[i] = v /\ \A j \in DOMAIN s : s[j] = v => j = i
    BY <1>4 DEF OnceIn
  <2>2. i - 1 \in DOMAIN t /\ t[i - 1] = v /\ \A j \in DOMAIN t : t[j] = v => j = i - 1
    BY <1>1, <1>2, <1>3, <1>4, <2>1
  <2> QED
    BY <2>2 DEF OnceIn
<1>5. OnceIn(s, h) => NotIn(t, h)
  BY <1>1, <1>2 DEF NotIn, OnceIn
<1> QED
  BY <1>1, <1>2, <1>4, <1>5 DEF NotIn, t, h

\* Nothing is in a sequence both once and not at all.
LEMMA NotBoth ==
    ASSUME NEW s, NEW v
    PROVE  /\ ~(NotIn(s, v) /\ OnceIn(s, v))
           /\ NotIn(<<>>, v)
  BY DEF NotIn, OnceIn

\* A set with no element, and a set with one.
LEMMA Sizes ==
    /\ \A S : (\A x \in S : FALSE) => Cardinality(S) = 0
    /\ \A S, x : S = {x} => Cardinality(S) = 1
  BY FS_EmptySet, FS_Singleton

-----------------------------------------------------------------------------
(* The invariant. *)

\* What the proofs assume of the constants: objects and references are finitely many.
ConstantsOK == IsFiniteSet(Operations) /\ IsFiniteSet(Holders)

\* One operation's fields.
Record == [state : {"none", "armed", "destroyed"} \cup Lease!Terminal,
           provider : BOOLEAN, token : BOOLEAN]

\* The operations that have a token of the lease; active is their number.
Tokens == {o \in Operations : operation[o].token}
Counted == active = Cardinality(Tokens)

\* An operation has a token exactly while it is armed or its provider is inside.
PinnedBy(r) ==
    /\ r.token <=> r.state = "armed" \/ r.provider
    /\ r.provider => r.state # "none"
Pinned == \A o \in Operations : PinnedBy(operation[o])

\* What a close that is past its first section has made sure of, and what is true for
\* good once the library is unloaded.
Closes ==
    /\ closing \in BOOLEAN /\ closeRunning \in BOOLEAN /\ closed \in BOOLEAN
    /\ closing => lease \in {"closing", "freed"}
    /\ lease = "freed" => closed
    /\ closed => lease = "freed" /\ closing
    /\ \A c \in Closers : pc[c] # "idle" => closing /\ closeRunning /\ ~closed /\ running = {}
    /\ \A c, d \in Closers : pc[c] # "idle" /\ pc[d] # "idle" => c = d

\* Nobody is left in an unloaded component.
Unused == closed => /\ running = {} /\ Tokens = {}
                    /\ \A h \in Holders : held[h] # "held"

Typed ==
    /\ lease \in {"available", "leased", "closing", "freed"}
    /\ active \in Nat
    /\ operation \in [Operations -> Record]
    /\ running \subseteq Operations /\ lost \subseteq Operations
    /\ held \in [Holders -> {"none", "held", "gone"}]
    /\ pc \in [Closers -> {"idle", "provider", "joined"}]

IInv == Typed /\ Counted /\ Pinned /\ Closes /\ Unused

-----------------------------------------------------------------------------
(* Steps on one operation *)

\* One operation changes, and with its token what the lease counts.
OpStep(o, new) ==
    /\ operation' = [operation EXCEPT ![o] = new]
    /\ new \in Record /\ PinnedBy(new)
    /\ \/ (new.token <=> operation[o].token) /\ UNCHANGED <<lease, active>>
       \/ ~operation[o].token /\ new.token /\ Lease!acquire
       \/ operation[o].token /\ ~new.token /\ Lease!release

\* An operation's fields with its state replaced (complete, destroy).
LEMMA WithState ==
    ASSUME NEW r \in Record, NEW s \in {"none", "armed", "destroyed"} \cup Lease!Terminal
    PROVE  /\ [r EXCEPT !.state = s] \in Record
           /\ [r EXCEPT !.state = s].state = s
           /\ [r EXCEPT !.state = s].provider = r.provider
           /\ [r EXCEPT !.state = s].token = r.token
  BY DEF Record

\* An operation's fields with one of the others replaced (provider_enter, provider_leave,
\* release of the token).
LEMMA WithFlag ==
    ASSUME NEW r \in Record, NEW b \in BOOLEAN
    PROVE  /\ [r EXCEPT !.provider = b] \in Record
           /\ [r EXCEPT !.provider = b].state = r.state
           /\ [r EXCEPT !.provider = b].provider = b
           /\ [r EXCEPT !.provider = b].token = r.token
           /\ [r EXCEPT !.token = b] \in Record
           /\ [r EXCEPT !.token = b].state = r.state
           /\ [r EXCEPT !.token = b].provider = r.provider
           /\ [r EXCEPT !.token = b].token = b
  BY DEF Record

\* release(&operation->token) of an operation that neither is armed nor has its provider
\* inside afterwards.
LEMMA Releases ==
    ASSUME IInv, NEW o \in Operations, NEW r \in Record,
           r.state # "armed", ~r.provider, Lease!ReleaseToken(o, r)
    PROVE  \E new : OpStep(o, new)
<1> DEFINE new == [r EXCEPT !.token = FALSE]
<1>1. new \in Record /\ new.state = r.state /\ new.provider = r.provider /\ new.token = FALSE
  BY WithFlag
<1>2. operation' = [operation EXCEPT ![o] = new]
  BY DEF Lease!ReleaseToken
<1>3. IF operation[o].token THEN Lease!release ELSE UNCHANGED <<lease, active>>
  BY DEF Lease!ReleaseToken, Lease!release
<1> HIDE DEF new
<1>4. PinnedBy(new)
  BY <1>1 DEF PinnedBy
<1>5. operation[o].token \in BOOLEAN
  BY DEF IInv, Typed, Record
<1>6. OpStep(o, new)
  BY <1>1, <1>2, <1>3, <1>4, <1>5 DEF OpStep
<1> QED
  BY <1>6

\* An operation that keeps what it has of the lease.
LEMMA Keeps ==
    ASSUME IInv, NEW o \in Operations, NEW r \in Record,
           PinnedBy(r), r.token = operation[o].token, Lease!KeepToken(o, r)
    PROVE  \E new : OpStep(o, new)
<1>1. operation' = [operation EXCEPT ![o] = r] /\ UNCHANGED <<lease, active>>
  BY DEF Lease!KeepToken
<1>2. OpStep(o, r)
  BY <1>1 DEF OpStep
<1> QED
  BY <1>2

\* The steps on an operation are of this form.
LEMMA OperationSteps ==
    ASSUME IInv, NEW o \in Operations,
           \/ Invoke(o) \/ InvokeFail(o) \/ ProviderEnter(o) \/ ProviderLeave(o)
           \/ Complete(o) \/ DestroyOperation(o)
    PROVE  \E new : OpStep(o, new)
<1> DEFINE r == operation[o]
<1>0. r \in Record /\ PinnedBy(r)
  BY DEF IInv, Typed, Pinned
<1>1. CASE Invoke(o)
  <2>0. Lease!OpBegin(o)
    BY <1>1 DEF Invoke
  <2>1. r.state = "none" /\ Lease!acquire
    BY <2>0 DEF Lease!OpBegin, Lease!acquire
  <2> DEFINE new == [r EXCEPT !.state = "armed", !.token = TRUE]
  <2>2. operation' = [operation EXCEPT ![o] = new]
    BY <2>0, <1>0 DEF Lease!OpBegin, Record, IInv, Typed
  <2>3. new \in Record /\ new.state = "armed" /\ new.token = TRUE
    BY <1>0 DEF Record
  <2> HIDE DEF new
  <2>4. PinnedBy(new)
    BY <2>3 DEF PinnedBy
  <2>5. ~r.token
    BY <1>0, <2>1 DEF PinnedBy, Record
  <2>6. OpStep(o, new)
    BY <2>1, <2>2, <2>3, <2>4, <2>5 DEF OpStep
  <2> QED
    BY <2>6
<1>2. CASE InvokeFail(o)
  <2> DEFINE terminal == IF r.state = "armed" THEN "failed" ELSE r.state
  <2>1. CASE r.provider
    <3>0. terminal \in {"none", "armed", "destroyed"} \cup Lease!Terminal /\ terminal # "none"
      BY <1>0, <2>1 DEF Record, PinnedBy, Lease!Terminal
    <3> DEFINE n == [r EXCEPT !.state = terminal]
    <3>1. Lease!KeepToken(o, n)
      BY <1>2, <2>1 DEF InvokeFail
    <3>2. n \in Record /\ n.state = terminal /\ n.provider = r.provider /\ n.token = r.token
      BY <1>0, <3>0, WithState
    <3> HIDE DEF n, terminal
    <3>3. PinnedBy(n)
      BY <1>0, <2>1, <3>0, <3>2 DEF PinnedBy
    <3> QED
      BY <3>1, <3>2, <3>3, Keeps
  <2>2. CASE ~r.provider
    <3> DEFINE n == [r EXCEPT !.state = "destroyed"]
    <3>1. Lease!ReleaseToken(o, n)
      BY <1>2, <2>2 DEF InvokeFail
    <3>2. n \in Record /\ n.state = "destroyed" /\ n.provider = r.provider
      BY <1>0, WithState
    <3> HIDE DEF n
    <3> QED
      BY <2>2, <3>1, <3>2, Releases
  <2> QED
    BY <2>1, <2>2
<1>3. CASE ProviderEnter(o)
  <2> DEFINE n == [r EXCEPT !.provider = TRUE]
  <2>1. r.state = "armed" /\ Lease!KeepToken(o, n)
    BY <1>3 DEF ProviderEnter, Lease!ProviderEnter
  <2>2. n \in Record /\ n.state = r.state /\ n.provider = TRUE /\ n.token = r.token
    BY <1>0, WithFlag
  <2> HIDE DEF n
  <2>3. PinnedBy(n)
    BY <1>0, <2>1, <2>2 DEF PinnedBy
  <2> QED
    BY <2>1, <2>2, <2>3, Keeps
<1>4. CASE ProviderLeave(o)
  <2> DEFINE n == [r EXCEPT !.provider = FALSE]
  <2>1. r.provider /\ IF r.state = "armed" THEN Lease!KeepToken(o, n)
                                           ELSE Lease!ReleaseToken(o, n)
    BY <1>4 DEF ProviderLeave, Lease!ProviderLeave
  <2>2. n \in Record /\ n.state = r.state /\ n.provider = FALSE /\ n.token = r.token
    BY <1>0, WithFlag
  <2> HIDE DEF n
  <2>3. CASE r.state = "armed"
    <3>1. PinnedBy(n)
      BY <1>0, <2>2, <2>3 DEF PinnedBy
    <3> QED
      BY <2>1, <2>2, <2>3, <3>1, Keeps
  <2>4. CASE r.state # "armed"
    BY <2>1, <2>2, <2>4, Releases
  <2> QED
    BY <2>3, <2>4
<1>5. CASE Complete(o)
  <2>1. r.state = "armed"
    BY <1>5 DEF Complete, Lease!OpComplete
  <2>2. PICK s \in Lease!Terminal :
          IF r.provider THEN Lease!KeepToken(o, [r EXCEPT !.state = s])
                        ELSE Lease!ReleaseToken(o, [r EXCEPT !.state = s])
    BY <1>5 DEF Complete, Lease!OpComplete
  <2> DEFINE n == [r EXCEPT !.state = s]
  <2>3. n \in Record /\ n.state = s /\ n.provider = r.provider /\ n.token = r.token
    BY <1>0, WithState
  <2>4. s # "armed" /\ s # "none"
    BY DEF Lease!Terminal
  <2>5. IF r.provider THEN Lease!KeepToken(o, n) ELSE Lease!ReleaseToken(o, n)
    BY <2>2
  <2> HIDE DEF n
  <2>6. CASE r.provider
    <3>1. PinnedBy(n)
      BY <1>0, <2>3, <2>4, <2>6 DEF PinnedBy
    <3> QED
      BY <2>3, <2>5, <2>6, <3>1, Keeps
  <2>7. CASE ~r.provider
    BY <2>3, <2>4, <2>5, <2>7, Releases
  <2> QED
    BY <2>6, <2>7
<1>6. CASE DestroyOperation(o)
  <2> DEFINE n == [r EXCEPT !.state = "destroyed"]
  <2>1. r.state \in Lease!Terminal /\ ~r.provider /\ Lease!KeepToken(o, n)
    BY <1>6 DEF DestroyOperation, Lease!OpDestroy
  <2>2. n \in Record /\ n.state = "destroyed" /\ n.provider = r.provider /\ n.token = r.token
    BY <1>0, WithState
  <2> HIDE DEF n
  <2>3. PinnedBy(n)
    BY <1>0, <2>1, <2>2 DEF PinnedBy, Lease!Terminal
  <2> QED
    BY <2>1, <2>2, <2>3, Keeps
<1> QED
  BY <1>1, <1>2, <1>3, <1>4, <1>5, <1>6

\* Such a step keeps the count exact and lets a lease that is closing stay closing.
LEMMA StepCounted ==
    ASSUME ConstantsOK, IInv, NEW o \in Operations, NEW new, OpStep(o, new)
    PROVE  /\ operation' \in [Operations -> Record] /\ Pinned'
           /\ active' \in Nat /\ Counted'
           /\ lease' \in {"available", "leased", "closing", "freed"}
           /\ lease \in {"closing", "freed"} => lease' = lease /\ Tokens' \subseteq Tokens
           /\ lease' = "freed" => lease = "freed"
<1>0. /\ operation \in [Operations -> Record] /\ active \in Nat /\ Pinned
      /\ lease \in {"available", "leased", "closing", "freed"}
      /\ active = Cardinality(Tokens)
  BY DEF IInv, Typed, Counted
<1>1. operation' = [operation EXCEPT ![o] = new] /\ new \in Record /\ PinnedBy(new)
  BY DEF OpStep
<1>2. operation'[o] = new /\ \A p \in Operations \ {o} : operation'[p] = operation[p]
  BY <1>0, <1>1
<1>3. operation' \in [Operations -> Record] /\ Pinned'
  <2>1. operation' \in [Operations -> Record]
    BY <1>0, <1>1
  <2>2. \A p \in Operations : PinnedBy(operation'[p])
    BY <1>0, <1>1, <1>2 DEF Pinned
  <2> QED
    BY <2>1, <2>2 DEF Pinned, PinnedBy
<1>4. IsFiniteSet(Tokens)
  BY FS_Subset DEF ConstantsOK, Tokens
<1>5. Tokens = {p \in Operations : operation[p].token}
      /\ Tokens' = {p \in Operations : operation'[p].token}
  BY DEF Tokens
<1>6. CASE (new.token <=> operation[o].token) /\ UNCHANGED <<lease, active>>
  <2>1. Tokens' = Tokens
    BY <1>2, <1>5, <1>6
  <2> QED
    BY <1>0, <1>3, <1>6, <2>1 DEF Counted
<1>7. CASE ~operation[o].token /\ new.token /\ Lease!acquire
  <2>1. Tokens' = Tokens \cup {o} /\ o \notin Tokens
    BY <1>2, <1>5, <1>7
  <2>2. Cardinality(Tokens') = Cardinality(Tokens) + 1
    BY <1>4, <2>1, FS_AddElement
  <2>3. active' = active + 1 /\ lease' = "leased" /\ lease \in {"available", "leased"}
    BY <1>7 DEF Lease!acquire
  <2> QED
    BY <1>0, <1>3, <2>2, <2>3 DEF Counted
<1>8. CASE operation[o].token /\ ~new.token /\ Lease!release
  <2>1. Tokens' = Tokens \ {o} /\ o \in Tokens
    BY <1>2, <1>5, <1>8
  <2>2. Cardinality(Tokens') = Cardinality(Tokens) - 1 /\ Cardinality(Tokens) # 0
    BY <1>0, <1>4, <2>1, FS_RemoveElement, FS_EmptySet
  <2>3. /\ active' = active - 1
        /\ lease' = IF lease = "leased" /\ active = 1 THEN "available" ELSE lease
    BY <1>8 DEF Lease!release
  <2> QED
    BY <1>0, <1>3, <2>1, <2>2, <2>3 DEF Counted
<1> QED
  BY <1>6, <1>7, <1>8 DEF OpStep

-----------------------------------------------------------------------------
(* Induction *)

\* The invariant holds of a module that has just been loaded.
LEMMA Initially ==
    ASSUME Init
    PROVE  IInv
<1>1. operation = [o \in Operations |-> [state |-> "none", provider |-> FALSE, token |-> FALSE]]
  BY DEF Init
<1>2. Typed
  BY DEF Init, Typed, Record
<1>3. Tokens = {} /\ active = 0
  BY <1>1 DEF Init, Tokens
<1>4. Counted
  BY <1>3, FS_EmptySet DEF Counted
<1>5. Pinned
  BY <1>1 DEF Pinned, PinnedBy
<1>6. Closes /\ Unused
  BY DEF Init, Closes, Unused
<1> QED
  BY <1>2, <1>4, <1>5, <1>6 DEF IInv

\* A step that leaves lease and operations alone leaves the counting alone.
LEMMA CountKept ==
    ASSUME IInv, UNCHANGED <<active, operation>>
    PROVE  /\ operation' \in [Operations -> Record] /\ active' \in Nat
           /\ Counted' /\ Pinned' /\ Tokens' = Tokens
  BY DEF IInv, Typed, Counted, Pinned, PinnedBy, Tokens

\* A step on an operation that begins no invocation.
LEMMA OperationKept ==
    ASSUME ConstantsOK, IInv, NEW o \in Operations, NEW new, OpStep(o, new),
           running' \subseteq running, lost' \subseteq Operations,
           UNCHANGED <<held, closing, closeRunning, closed, pc>>
    PROVE  IInv'
<1>1. /\ operation' \in [Operations -> Record] /\ Pinned'
      /\ active' \in Nat /\ Counted'
      /\ lease' \in {"available", "leased", "closing", "freed"}
      /\ lease \in {"closing", "freed"} => lease' = lease /\ Tokens' \subseteq Tokens
      /\ lease' = "freed" => lease = "freed"
  BY StepCounted
<1>2. Typed /\ Closes /\ Unused
  BY DEF IInv
<1>3. Typed'
  BY <1>1, <1>2 DEF Typed
<1>4. Closes'
  <2>1. running = {} => running' = {}
    OBVIOUS
  <2> QED
    BY <1>1, <1>2, <2>1 DEF Closes
<1>5. Unused'
  <2>1. ASSUME closed'
        PROVE  running' = {} /\ Tokens' = {} /\ \A h \in Holders : held'[h] # "held"
    <3>1. closed /\ lease = "freed"
      BY <1>2, <2>1 DEF Closes
    <3>2. running = {} /\ Tokens = {} /\ \A h \in Holders : held[h] # "held"
      BY <1>2, <3>1 DEF Unused
    <3> QED
      BY <1>1, <3>1, <3>2
  <2> QED
    BY <2>1 DEF Unused
<1> QED
  BY <1>1, <1>3, <1>4, <1>5 DEF IInv

\* Every step of the loader keeps the invariant.
LEMMA Inductive ==
    ASSUME ConstantsOK, IInv, [Next]_vars
    PROVE  IInv'
<1>0. Typed /\ Counted /\ Pinned /\ Closes /\ Unused
  BY DEF IInv
<1>1. ASSUME NEW o \in Operations, Invoke(o) PROVE IInv'
  <2>1. PICK new : OpStep(o, new)
    BY <1>1, OperationSteps
  <2>2. /\ operation' \in [Operations -> Record] /\ Pinned'
        /\ active' \in Nat /\ Counted'
        /\ lease' \in {"available", "leased", "closing", "freed"}
        /\ lease' = "freed" => lease = "freed"
    BY <2>1, StepCounted
  <2>3. /\ ~closing /\ ~closed /\ running' = running \cup {o}
        /\ UNCHANGED <<lost, held, closing, closeRunning, closed, pc>>
    BY <1>1 DEF Invoke
  <2>4. Typed'
    BY <1>0, <2>2, <2>3 DEF Typed
  <2>5. \A c \in Closers : pc[c] = "idle"
    BY <1>0, <2>3 DEF Closes
  <2>6. Closes' /\ Unused'
    BY <1>0, <2>2, <2>3, <2>5 DEF Closes, Unused
  <2> QED
    BY <2>2, <2>4, <2>6 DEF IInv
<1>2. ASSUME NEW o \in Operations, InvokeReturn(o) PROVE IInv'
  <2>1. /\ running' = running \ {o}
        /\ UNCHANGED <<lease, active, operation, lost, held, closing, closeRunning, closed, pc>>
    BY <1>2 DEF InvokeReturn
  <2>2. /\ operation' \in [Operations -> Record] /\ active' \in Nat
        /\ Counted' /\ Pinned' /\ Tokens' = Tokens
    BY <2>1, CountKept
  <2>3. Typed' /\ Closes' /\ Unused'
    BY <1>0, <2>1, <2>2 DEF Typed, Closes, Unused
  <2> QED
    BY <2>2, <2>3 DEF IInv
<1>3. ASSUME NEW o \in Operations, InvokeFail(o) PROVE IInv'
  <2>1. PICK new : OpStep(o, new)
    BY <1>3, OperationSteps
  <2>2. /\ running' \subseteq running /\ lost' \subseteq Operations
        /\ UNCHANGED <<held, closing, closeRunning, closed, pc>>
    BY <1>0, <1>3 DEF InvokeFail, Typed
  <2> QED
    BY <2>1, <2>2, OperationKept
<1>4. ASSUME NEW o \in Operations,
             ProviderEnter(o) \/ ProviderLeave(o) \/ Complete(o) \/ DestroyOperation(o)
      PROVE  IInv'
  <2>1. PICK new : OpStep(o, new)
    BY <1>4, OperationSteps
  <2>2. UNCHANGED module
    BY <1>4 DEF ProviderEnter, ProviderLeave, Complete, DestroyOperation
  <2>3. /\ running' \subseteq running /\ lost' \subseteq Operations
        /\ UNCHANGED <<held, closing, closeRunning, closed, pc>>
    BY <1>0, <2>2 DEF module, Typed
  <2> QED
    BY <2>1, <2>3, OperationKept
<1>5. ASSUME NEW h \in Holders, Retain(h) \/ ReleaseOwner(h) PROVE IInv'
  <2>1. /\ UNCHANGED <<lease, active, operation, running, lost, closing, closeRunning, closed, pc>>
        /\ \/ ~closed /\ held' = [held EXCEPT ![h] = "held"]
           \/ held' = [held EXCEPT ![h] = "gone"]
    BY <1>5 DEF Retain, ReleaseOwner
  <2>2. /\ operation' \in [Operations -> Record] /\ active' \in Nat
        /\ Counted' /\ Pinned' /\ Tokens' = Tokens
    BY <2>1, CountKept
  <2>3. Typed' /\ Closes'
    BY <1>0, <2>1, <2>2 DEF Typed, Closes
  <2>4. Unused'
    BY <1>0, <2>1, <2>2 DEF Typed, Unused
  <2> QED
    BY <2>2, <2>3, <2>4 DEF IInv
<1>6. ASSUME NEW c \in Closers, CloseBegin(c) PROVE IInv'
  <2>1. /\ ~closed /\ closing' = TRUE /\ lease' = Lease!BeginClosed
        /\ \/ UNCHANGED <<closeRunning, pc>>
           \/ /\ running = {} /\ ~closeRunning /\ closeRunning' = TRUE
              /\ pc' = [pc EXCEPT ![c] = "provider"]
        /\ UNCHANGED <<active, operation, running, lost, held, closed>>
    BY <1>6 DEF CloseBegin
  <2>2. /\ operation' \in [Operations -> Record] /\ active' \in Nat
        /\ Counted' /\ Pinned' /\ Tokens' = Tokens
    BY <2>1, CountKept
  <2>3. lease' = "closing"
    BY <1>0, <2>1 DEF Lease!BeginClosed, Typed, Closes
  <2>4. Typed'
    BY <1>0, <2>1, <2>2, <2>3 DEF Typed
  <2>5. CASE UNCHANGED <<closeRunning, pc>>
    <3>1. Closes' /\ Unused'
      BY <1>0, <2>1, <2>3, <2>5 DEF Closes, Unused
    <3> QED
      BY <2>2, <2>4, <3>1 DEF IInv
  <2>6. CASE /\ running = {} /\ ~closeRunning /\ closeRunning' = TRUE
             /\ pc' = [pc EXCEPT ![c] = "provider"]
    <3>1. \A d \in Closers : pc[d] = "idle"
      BY <1>0, <2>6 DEF Closes
    <3>2. \A d \in Closers : pc'[d] # "idle" => d = c
      BY <1>0, <2>6, <3>1 DEF Typed
    <3>3. Closes' /\ Unused'
      BY <1>0, <2>1, <2>3, <2>6, <3>2 DEF Closes, Unused
    <3> QED
      BY <2>2, <2>4, <3>3 DEF IInv
  <2> QED
    BY <2>1, <2>5, <2>6
<1>7. ASSUME NEW c \in Closers, ProviderClose(c) \/ ProviderCloseFail(c) PROVE IInv'
  <2>1. /\ pc[c] = "provider"
        /\ \/ pc' = [pc EXCEPT ![c] = "joined"] /\ UNCHANGED closeRunning
           \/ pc' = [pc EXCEPT ![c] = "idle"] /\ closeRunning' = FALSE
        /\ UNCHANGED <<lease, active, operation, running, lost, held, closing, closed>>
    BY <1>7 DEF ProviderClose, ProviderCloseFail
  <2>2. /\ operation' \in [Operations -> Record] /\ active' \in Nat
        /\ Counted' /\ Pinned' /\ Tokens' = Tokens
    BY <2>1, CountKept
  <2>3. \A d \in Closers : pc'[d] # "idle" => d = c
    BY <1>0, <2>1 DEF Typed, Closes
  <2>4. Typed' /\ Unused'
    BY <1>0, <2>1, <2>2 DEF Typed, Unused
  <2>5. Closes'
    <3>1. CASE pc' = [pc EXCEPT ![c] = "joined"] /\ UNCHANGED closeRunning
      BY <1>0, <2>1, <2>3, <3>1 DEF Closes
    <3>2. CASE pc' = [pc EXCEPT ![c] = "idle"] /\ closeRunning' = FALSE
      <4>1. \A d \in Closers : pc'[d] = "idle"
        BY <1>0, <2>3, <3>2 DEF Typed
      <4> QED
        BY <1>0, <2>1, <3>2, <4>1 DEF Closes
    <3> QED
      BY <2>1, <3>1, <3>2
  <2> QED
    BY <2>2, <2>4, <2>5 DEF IInv
<1>8. ASSUME NEW c \in Closers, CloseFinish(c) PROVE IInv'
  <2>1. /\ pc[c] = "joined" /\ closeRunning' = FALSE /\ pc' = [pc EXCEPT ![c] = "idle"]
        /\ \/ UNCHANGED <<lease, closed>>
           \/ owner_references = 0 /\ active = 0 /\ lease' = "freed" /\ closed' = TRUE
        /\ UNCHANGED <<active, operation, running, lost, held, closing>>
    BY <1>8 DEF CloseFinish
  <2>2. /\ operation' \in [Operations -> Record] /\ active' \in Nat
        /\ Counted' /\ Pinned' /\ Tokens' = Tokens
    BY <2>1, CountKept
  <2>3. \A d \in Closers : pc'[d] = "idle"
    BY <1>0, <2>1 DEF Typed, Closes
  <2>4. closing /\ ~closed /\ running = {}
    BY <1>0, <2>1 DEF Closes
  <2>5. Typed' /\ Closes'
    <3>1. Typed'
      BY <1>0, <2>1, <2>2 DEF Typed
    <3>2. CASE UNCHANGED <<lease, closed>>
      <4>1. Closes'
        BY <1>0, <2>1, <2>3, <3>2 DEF Closes
      <4> QED
        BY <3>1, <4>1
    <3>3. CASE lease' = "freed" /\ closed' = TRUE
      <4>1. Closes'
        BY <1>0, <2>1, <2>3, <2>4, <3>3 DEF Closes
      <4> QED
        BY <3>1, <4>1
    <3> QED
      BY <2>1, <3>2, <3>3
  <2>6. Unused'
    <3>1. CASE UNCHANGED <<lease, closed>>
      BY <2>4, <3>1 DEF Unused
    <3>2. CASE owner_references = 0 /\ active = 0
      <4>1. IsFiniteSet(Tokens) /\ IsFiniteSet({h \in Holders : held[h] = "held"})
        BY FS_Subset DEF ConstantsOK, Tokens
      <4>2. Tokens = {}
        BY <1>0, <3>2, <4>1, FS_EmptySet DEF Counted
      <4>3. {h \in Holders : held[h] = "held"} = {}
        BY <3>2, <4>1, FS_EmptySet DEF owner_references
      <4>4. \A h \in Holders : held'[h] # "held"
        BY <2>1, <4>3
      <4> QED
        BY <2>1, <2>2, <2>4, <4>2, <4>4 DEF Unused
    <3> QED
      BY <2>1, <3>1, <3>2
  <2> QED
    BY <2>2, <2>5, <2>6 DEF IInv
<1>9. CASE UNCHANGED vars
  <2>1. UNCHANGED <<lease, active, operation, running, lost, held, closing, closeRunning,
                    closed, pc>>
    BY <1>9 DEF vars
  <2>2. /\ operation' \in [Operations -> Record] /\ active' \in Nat
        /\ Counted' /\ Pinned' /\ Tokens' = Tokens
    BY <2>1, CountKept
  <2>3. Typed' /\ Closes' /\ Unused'
    BY <1>0, <2>1, <2>2 DEF Typed, Closes, Unused
  <2> QED
    BY <2>2, <2>3 DEF IInv
<1> QED
  BY <1>1, <1>2, <1>3, <1>4, <1>5, <1>6, <1>7, <1>8, <1>9 DEF Next, Done

\* What the invariant says of the component.
LEMMA Implied ==
    ASSUME ConstantsOK, IInv
    PROVE  UnloadSafety
<1>0. Typed /\ Counted /\ Pinned /\ Closes /\ Unused
  BY DEF IInv
<1>1. TypeOK
  <2>1. Tokens \subseteq Operations
    BY DEF Tokens
  <2>2. Cardinality(Tokens) <= Cardinality(Operations) /\ Cardinality(Operations) \in Nat
    BY <2>1, FS_Subset, FS_CardinalityType DEF ConstantsOK
  <2>3. active \in 0..Cardinality(Operations)
    BY <1>0, <2>2 DEF Typed, Counted
  <2> QED
    BY <1>0, <2>3 DEF Typed, TypeOK, Record
<1>2. UnloadedIsUnused
  <2> SUFFICES ASSUME closed
               PROVE  /\ running = {} /\ \A c \in Closers : pc[c] = "idle"
                      /\ \A o \in Operations : ~operation[o].provider
                      /\ owner_references = 0
    BY DEF UnloadedIsUnused
  <2>1. running = {} /\ Tokens = {} /\ \A h \in Holders : held[h] # "held"
    BY <1>0 DEF Unused
  <2>2. \A c \in Closers : pc[c] = "idle"
    BY <1>0 DEF Closes
  <2>3. \A o \in Operations : ~operation[o].token
    BY <2>1 DEF Tokens
  <2>4. \A o \in Operations : ~operation[o].provider
    BY <1>0, <2>3 DEF Pinned, PinnedBy
  <2>5. {h \in Holders : held[h] = "held"} = {}
    BY <2>1
  <2>6. owner_references = 0
    BY <2>5, FS_EmptySet DEF owner_references
  <2> QED
    BY <2>1, <2>2, <2>4, <2>6
<1>3. NoTokenOutlivesLease
  <2> SUFFICES ASSUME lease = "freed" PROVE \A o \in Operations : ~operation[o].token
    BY DEF NoTokenOutlivesLease
  <2> QED
    BY <1>0 DEF Closes, Unused, Tokens
<1> QED
  BY <1>1, <1>2, <1>3 DEF UnloadSafety

-----------------------------------------------------------------------------
\* The inductive invariant holds throughout: the lease counts the operations that pin the
\* component, and a close past its first section runs alone.
THEOREM Invariant == ASSUME ConstantsOK PROVE Spec => []IInv
<1>1. Init => IInv
  BY Initially
<1>2. IInv /\ [Next]_vars => IInv'
  BY Inductive
<1> QED
  BY <1>1, <1>2, PTL DEF Spec

\* close_v2 unloads the library and frees the lease only when no invocation, no close, no
\* provider inside an operation, no payload and no token is left, in whatever order
\* completion, provider_leave, release_owner and close come.
THEOREM SafeUnload == ASSUME ConstantsOK PROVE Spec => []UnloadSafety
<1>1. IInv => UnloadSafety
  BY Implied
<1> QED
  BY <1>1, Invariant, PTL

-----------------------------------------------------------------------------
(* The resource lease                                                      *)
(*                                                                         *)
(* The lease on its own, with its transports and any number of clients,    *)
(* operations, transports and payloads.  The argument: active is the       *)
(* number of tokens, so a lease that stops handing them out and has none   *)
(* left has no user.  A transport is closed together with the lease under  *)
(* it; a close that gets past its test saw no token, and no token comes    *)
(* after it, so its transport stays without reservations, receivers and    *)
(* new nodes until the close ends.  A node is in one queue, one hand or    *)
(* one detached list, and a step moves it from one of those to another.    *)

CONSTANTS Clients, Transports, Payloads, Capacity, None

VARIABLES policy, transports, transport, client, hand, detached, place, owner

Res == INSTANCE ResourceLease WITH pc <- client

\* What the proofs assume of the constants.
LeaseConstantsOK ==
    /\ IsFiniteSet(Clients) /\ IsFiniteSet(Operations)
    /\ IsFiniteSet(Transports) /\ IsFiniteSet(Payloads)
    /\ Capacity \in Nat
    /\ None \notin Transports \cup Payloads

\* One transport's fields.
Fields == [state : {"none", "live", "freed"}, typed : BOOLEAN, closed : BOOLEAN,
           quiesced : BOOLEAN, queue : Seq(Payloads), reservations : Nat, callbacks : Nat]

LeaseTyped ==
    /\ policy \in {1, 2}
    /\ lease \in {"available", "leased", "closing", "closed", "freed"}
    /\ active \in Nat /\ transports \in Nat /\ owner \in Nat
    /\ operation \in [Operations -> Record]
    /\ transport \in [Transports -> Fields]
    /\ client \in [Clients -> {"idle", "dropping"} \cup Res!Pinning]
    /\ hand \in [Clients -> [t : Transports \cup {None}, v : Payloads \cup {None}]]
    /\ detached \in [Clients -> Seq(Payloads)]
    /\ place \in [Payloads -> Res!Places]

\* Those who pin the resource; those who have a place reserved in t; those who drop what
\* they detached from t.
Pinners == {c \in Clients : client[c] \in Res!Pinning}
Senders(t) == {c \in Clients : client[c] \in Res!SendPc /\ hand[c].t = t}
Droppers(t) == {c \in Clients : client[c] = "dropping" /\ hand[c].t = t}

\* active counts the tokens; a lease that is available has none, an exclusive one at
\* most one.
ActiveCounted ==
    /\ active = Cardinality(Pinners) + Cardinality(Tokens)
    /\ policy = 1 => active <= 1
    /\ lease = "available" => active = 0

\* What a client holds, by where it is.
HandOK(c) ==
    /\ client[c] \in {"idle", "token"} => hand[c] = Res!Empty
    /\ client[c] \in Res!SendPc \cup Res!ReceivePc
         => hand[c].t \in Transports /\ hand[c].v \in Payloads
    /\ client[c] = "dropping" => hand[c].t \in Transports /\ hand[c].v = None
    /\ client[c] # "dropping" => detached[c] = <<>>
    /\ Len(detached[c]) <= Capacity

\* A payload that is offered is still the sender's, and nobody else has it.
Offered(c) ==
    client[c] \in {"prepared", "moving"} =>
      /\ place[hand[c].v] = "source"
      /\ \A d \in Clients \ {c} : hand[d].v # hand[c].v

Hands == \A c \in Clients : HandOK(c) /\ Offered(c)

\* A transport counts its reservations and its running close.
TransportOK(t) ==
    /\ transport[t].reservations = Cardinality(Senders(t))
    /\ transport[t].callbacks = Cardinality(Droppers(t))
    /\ Len(transport[t].queue) + transport[t].reservations <= Capacity
    /\ transport[t].callbacks <= 1
Counters == \A t \in Transports : TransportOK(t)

\* What closing establishes, for the lease, for a transport and for a client in a close.
Quiet ==
    /\ lease \in {"closed", "freed"} => active = 0
    /\ lease = "freed" => transports = 0
    /\ transports = Cardinality({t \in Transports : Res!Live(t)})
    /\ \A t \in Transports : transport[t].closed => lease \notin {"available", "leased"}
    /\ \A t \in Transports : transport[t].quiesced =>
         /\ lease \in {"closed", "freed"} /\ transport[t].queue = <<>>
         /\ \A c \in Clients : hand[c].t # t
    /\ \A c \in Clients : client[c] = "dropping" =>
         /\ active = 0 /\ transport[hand[c].t].closed /\ transport[hand[c].t].queue = <<>>

\* The queues, the hands and the detached lists that have the node of v.
InQueues(v) == {t \in Transports : ~NotIn(transport[t].queue, v)}
InHands(v) == {c \in Clients : hand[c].v = v /\ client[c] \in {"moved", "acquired"}}
InLists(v) == {c \in Clients : ~NotIn(detached[c], v)}
At(v, Q, H, L) == InQueues(v) = Q /\ InHands(v) = H /\ InLists(v) = L

\* v is in its place once, and has one place exactly while it is a node.
NodeOK(v) ==
    /\ \A t \in Transports : NotIn(transport[t].queue, v) \/ OnceIn(transport[t].queue, v)
    /\ \A c \in Clients : NotIn(detached[c], v) \/ OnceIn(detached[c], v)
    /\ place[v] = "node" => \/ \E t \in Transports : At(v, {t}, {}, {})
                            \/ \E c \in Clients : At(v, {}, {c}, {})
                            \/ \E c \in Clients : At(v, {}, {}, {c})
    /\ place[v] # "node" => At(v, {}, {}, {})
Nodes == \A v \in Payloads : NodeOK(v)

\* The callbacks' owner is retained once for each live typed transport and each owned
\* payload.
TypedLive == {t \in Transports : Res!Live(t) /\ transport[t].typed}
Owned == {v \in Payloads : place[v] = "owned"}
Retained == owner = Cardinality(TypedLive) + Cardinality(Owned)

LeaseInv == LeaseTyped /\ ActiveCounted /\ Pinned /\ Hands /\ Counters /\ Quiet /\ Nodes /\ Retained

\* Two subsets of a finite set that agree except on one element.
LEMMA OneApart ==
    ASSUME NEW X, IsFiniteSet(X), NEW x \in X, NEW A \in SUBSET X, NEW B \in SUBSET X,
           \A y \in X \ {x} : y \in A <=> y \in B
    PROVE  /\ Cardinality(A) \in Nat /\ Cardinality(B) \in Nat
           /\ x \notin A /\ x \in B => Cardinality(B) = Cardinality(A) + 1
           /\ x \in A /\ x \notin B => Cardinality(A) = Cardinality(B) + 1
           /\ (x \in A <=> x \in B) => Cardinality(A) = Cardinality(B)
<1>1. IsFiniteSet(A) /\ IsFiniteSet(B)
  BY FS_Subset
<1>2. Cardinality(A) \in Nat /\ Cardinality(B) \in Nat
  BY <1>1, FS_CardinalityType
<1>3. ASSUME x \notin A, x \in B PROVE Cardinality(B) = Cardinality(A) + 1
  <2>1. B = A \cup {x}
    BY <1>3
  <2> QED
    BY <1>1, <1>3, <2>1, FS_AddElement
<1>4. ASSUME x \in A, x \notin B PROVE Cardinality(A) = Cardinality(B) + 1
  <2>1. A = B \cup {x}
    BY <1>4
  <2> QED
    BY <1>1, <1>4, <2>1, FS_AddElement
<1>5. ASSUME x \in A <=> x \in B PROVE A = B
  BY <1>5
<1> QED
  BY <1>2, <1>3, <1>4, <1>5

\* The counts are of finite sets.
LEMMA Amounts ==
    ASSUME LeaseConstantsOK
    PROVE  /\ IsFiniteSet(Pinners) /\ Cardinality(Pinners) \in Nat
           /\ IsFiniteSet(Tokens) /\ Cardinality(Tokens) \in Nat
           /\ \A c \in Pinners : Cardinality(Pinners) >= 1
           /\ \A o \in Tokens : Cardinality(Tokens) >= 1
           /\ \A t : IsFiniteSet(Senders(t)) /\ Cardinality(Senders(t)) \in Nat
           /\ \A t : IsFiniteSet(Droppers(t)) /\ Cardinality(Droppers(t)) \in Nat
<1>1. IsFiniteSet(Pinners) /\ IsFiniteSet(Tokens)
  BY FS_Subset DEF Pinners, Tokens, LeaseConstantsOK
<1>2. ASSUME NEW t PROVE IsFiniteSet(Senders(t)) /\ IsFiniteSet(Droppers(t))
  BY FS_Subset DEF Senders, Droppers, LeaseConstantsOK
<1>3. \A S, x : IsFiniteSet(S) => /\ Cardinality(S) \in Nat
                                  /\ x \in S => Cardinality(S) >= 1
  <2> SUFFICES ASSUME NEW S, IsFiniteSet(S), NEW x
               PROVE  Cardinality(S) \in Nat /\ (x \in S => Cardinality(S) >= 1)
    OBVIOUS
  <2>1. Cardinality(S) \in Nat /\ (Cardinality(S) = 0 <=> S = {})
    BY FS_CardinalityType, FS_EmptySet
  <2> QED
    BY <2>1
<1> QED
  BY <1>1, <1>2, <1>3

\* One client moves: what that does to each count.
LEMMA ClientMoves ==
    ASSUME LeaseConstantsOK, LeaseTyped, NEW c \in Clients, NEW p, NEW h,
           client' = [client EXCEPT ![c] = p], hand' = [hand EXCEPT ![c] = h]
    PROVE  /\ client'[c] = p /\ hand'[c] = h
           /\ \A d \in Clients \ {c} : client'[d] = client[d] /\ hand'[d] = hand[d]
           /\ Cardinality(Pinners) \in Nat /\ Cardinality(Pinners') \in Nat
           /\ \A t : /\ Cardinality(Senders(t)) \in Nat /\ Cardinality(Senders(t)') \in Nat
                     /\ Cardinality(Droppers(t)) \in Nat /\ Cardinality(Droppers(t)') \in Nat
           /\ client[c] \notin Res!Pinning /\ p \in Res!Pinning
                => Cardinality(Pinners') = Cardinality(Pinners) + 1
           /\ client[c] \in Res!Pinning /\ p \notin Res!Pinning
                => Cardinality(Pinners) = Cardinality(Pinners') + 1
           /\ (client[c] \in Res!Pinning <=> p \in Res!Pinning)
                => Cardinality(Pinners') = Cardinality(Pinners)
           /\ \A t :
                /\ ~(client[c] \in Res!SendPc /\ hand[c].t = t) /\ p \in Res!SendPc /\ h.t = t
                     => Cardinality(Senders(t)') = Cardinality(Senders(t)) + 1
                /\ client[c] \in Res!SendPc /\ hand[c].t = t /\ ~(p \in Res!SendPc /\ h.t = t)
                     => Cardinality(Senders(t)) = Cardinality(Senders(t)') + 1
                /\ (client[c] \in Res!SendPc /\ hand[c].t = t <=> p \in Res!SendPc /\ h.t = t)
                     => Cardinality(Senders(t)') = Cardinality(Senders(t))
           /\ \A t :
                /\ ~(client[c] = "dropping" /\ hand[c].t = t) /\ p = "dropping" /\ h.t = t
                     => Cardinality(Droppers(t)') = Cardinality(Droppers(t)) + 1
                /\ client[c] = "dropping" /\ hand[c].t = t /\ ~(p = "dropping" /\ h.t = t)
                     => Cardinality(Droppers(t)) = Cardinality(Droppers(t)') + 1
                /\ (client[c] = "dropping" /\ hand[c].t = t <=> p = "dropping" /\ h.t = t)
                     => Cardinality(Droppers(t)') = Cardinality(Droppers(t))
<1>0. IsFiniteSet(Clients)
  BY DEF LeaseConstantsOK
<1>1. /\ client'[c] = p /\ hand'[c] = h
      /\ \A d \in Clients \ {c} : client'[d] = client[d] /\ hand'[d] = hand[d]
  BY DEF LeaseTyped
<1>2. /\ Pinners \in SUBSET Clients /\ Pinners' \in SUBSET Clients
      /\ \A d \in Clients \ {c} : d \in Pinners <=> d \in Pinners'
      /\ c \in Pinners <=> client[c] \in Res!Pinning
      /\ c \in Pinners' <=> p \in Res!Pinning
  BY <1>1 DEF Pinners
<1>3. /\ client[c] \notin Res!Pinning /\ p \in Res!Pinning
           => Cardinality(Pinners') = Cardinality(Pinners) + 1
      /\ client[c] \in Res!Pinning /\ p \notin Res!Pinning
           => Cardinality(Pinners) = Cardinality(Pinners') + 1
      /\ (client[c] \in Res!Pinning <=> p \in Res!Pinning)
           => Cardinality(Pinners') = Cardinality(Pinners)
  <2>1. /\ c \notin Pinners /\ c \in Pinners' => Cardinality(Pinners') = Cardinality(Pinners) + 1
        /\ c \in Pinners /\ c \notin Pinners' => Cardinality(Pinners) = Cardinality(Pinners') + 1
        /\ (c \in Pinners <=> c \in Pinners') => Cardinality(Pinners) = Cardinality(Pinners')
    <3> DEFINE A == Pinners
               B == Pinners'
    <3>1. A \in SUBSET Clients /\ B \in SUBSET Clients /\ \A d \in Clients \ {c} : d \in A <=> d \in B
      BY <1>2
    <3> HIDE DEF A, B
    <3>2. /\ c \notin A /\ c \in B => Cardinality(B) = Cardinality(A) + 1
          /\ c \in A /\ c \notin B => Cardinality(A) = Cardinality(B) + 1
          /\ (c \in A <=> c \in B) => Cardinality(A) = Cardinality(B)
      BY <1>0, <3>1, OneApart
    <3> QED
      BY <3>2 DEF A, B
  <2> QED
    BY <1>2, <2>1
<1>4. ASSUME NEW t
      PROVE  /\ ~(client[c] \in Res!SendPc /\ hand[c].t = t) /\ p \in Res!SendPc /\ h.t = t
                  => Cardinality(Senders(t)') = Cardinality(Senders(t)) + 1
             /\ client[c] \in Res!SendPc /\ hand[c].t = t /\ ~(p \in Res!SendPc /\ h.t = t)
                  => Cardinality(Senders(t)) = Cardinality(Senders(t)') + 1
             /\ (client[c] \in Res!SendPc /\ hand[c].t = t <=> p \in Res!SendPc /\ h.t = t)
                  => Cardinality(Senders(t)') = Cardinality(Senders(t))
  <2> DEFINE A == Senders(t)
             B == {d \in Clients : client'[d] \in Res!SendPc /\ hand'[d].t = t}
  <2>1. /\ A \in SUBSET Clients /\ B \in SUBSET Clients
        /\ \A d \in Clients \ {c} : d \in A <=> d \in B
        /\ c \in A <=> client[c] \in Res!SendPc /\ hand[c].t = t
        /\ c \in B <=> p \in Res!SendPc /\ h.t = t
        /\ B = Senders(t)'
    BY <1>1 DEF Senders
  <2> HIDE DEF A, B
  <2>2. /\ c \notin A /\ c \in B => Cardinality(B) = Cardinality(A) + 1
        /\ c \in A /\ c \notin B => Cardinality(A) = Cardinality(B) + 1
        /\ (c \in A <=> c \in B) => Cardinality(A) = Cardinality(B)
    BY <1>0, <2>1, OneApart
  <2>3. A = Senders(t)
    BY DEF A
  <2> QED
    BY <2>1, <2>2, <2>3
<1>5. ASSUME NEW t
      PROVE  /\ ~(client[c] = "dropping" /\ hand[c].t = t) /\ p = "dropping" /\ h.t = t
                  => Cardinality(Droppers(t)') = Cardinality(Droppers(t)) + 1
             /\ client[c] = "dropping" /\ hand[c].t = t /\ ~(p = "dropping" /\ h.t = t)
                  => Cardinality(Droppers(t)) = Cardinality(Droppers(t)') + 1
             /\ (client[c] = "dropping" /\ hand[c].t = t <=> p = "dropping" /\ h.t = t)
                  => Cardinality(Droppers(t)') = Cardinality(Droppers(t))
  <2> DEFINE A == Droppers(t)
             B == {d \in Clients : client'[d] = "dropping" /\ hand'[d].t = t}
  <2>1. /\ A \in SUBSET Clients /\ B \in SUBSET Clients
        /\ \A d \in Clients \ {c} : d \in A <=> d \in B
        /\ c \in A <=> client[c] = "dropping" /\ hand[c].t = t
        /\ c \in B <=> p = "dropping" /\ h.t = t
        /\ B = Droppers(t)'
    BY <1>1 DEF Droppers
  <2> HIDE DEF A, B
  <2>2. /\ c \notin A /\ c \in B => Cardinality(B) = Cardinality(A) + 1
        /\ c \in A /\ c \notin B => Cardinality(A) = Cardinality(B) + 1
        /\ (c \in A <=> c \in B) => Cardinality(A) = Cardinality(B)
    BY <1>0, <2>1, OneApart
  <2>3. A = Droppers(t)
    BY DEF A
  <2> QED
    BY <2>1, <2>2, <2>3
<1>6. IsFiniteSet(Pinners') /\ \A t : IsFiniteSet(Senders(t)') /\ IsFiniteSet(Droppers(t)')
  BY <1>0, FS_Subset DEF Pinners, Senders, Droppers
<1>7. /\ Cardinality(Pinners) \in Nat /\ Cardinality(Pinners') \in Nat
      /\ \A t : /\ Cardinality(Senders(t)) \in Nat /\ Cardinality(Senders(t)') \in Nat
                /\ Cardinality(Droppers(t)) \in Nat /\ Cardinality(Droppers(t)') \in Nat
  BY <1>6, FS_CardinalityType, Amounts
<1> QED
  BY <1>1, <1>3, <1>4, <1>5, <1>7

\* Whoever pins the resource is counted, and a dropper is in the count of its transport.
LEMMA Counting ==
    ASSUME LeaseConstantsOK, LeaseTyped, ActiveCounted
    PROVE  /\ active \in Nat
           /\ \A c \in Clients : client[c] \in Res!Pinning => active >= 1
           /\ \A o \in Operations : operation[o].token => active >= 1
<1>1. \A c \in Clients : client[c] \in Res!Pinning => c \in Pinners
  BY DEF Pinners
<1>2. \A o \in Operations : operation[o].token => o \in Tokens
  BY DEF Tokens
<1> QED
  BY <1>1, <1>2, Amounts DEF LeaseTyped, ActiveCounted

\* acquire_locked hands out a token only while nothing is closed.
LEMMA Acquiring ==
    ASSUME LeaseConstantsOK, LeaseInv, Res!acquire
    PROVE  /\ lease \in {"available", "leased"} /\ lease' = "leased"
           /\ active' = active + 1 /\ active' \in Nat /\ (policy = 1 => active' = 1)
           /\ \A t \in Transports : ~transport[t].closed /\ ~transport[t].quiesced
           /\ \A c \in Clients : client[c] # "dropping"
<1>0. LeaseTyped /\ ActiveCounted /\ Quiet /\ Hands
  BY DEF LeaseInv
<1>1. /\ lease \in {"available", "leased"} /\ lease' = "leased" /\ active' = active + 1
      /\ policy = 1 => lease = "available"
  BY DEF Res!acquire
<1>2. active' \in Nat /\ (policy = 1 => active' = 1)
  BY <1>0, <1>1 DEF LeaseTyped, ActiveCounted
<1>3. \A t \in Transports : transport[t].closed \in BOOLEAN /\ transport[t].quiesced \in BOOLEAN
  BY <1>0 DEF LeaseTyped, Fields
<1>4. \A t \in Transports : ~transport[t].closed /\ ~transport[t].quiesced
  BY <1>0, <1>1, <1>3 DEF Quiet
<1>5. \A c \in Clients : client[c] = "dropping" => hand[c].t \in Transports
  BY <1>0 DEF Hands, HandOK
<1>6. \A c \in Clients : client[c] # "dropping"
  BY <1>0, <1>4, <1>5 DEF Quiet
<1> QED
  BY <1>1, <1>2, <1>4, <1>6

\* release_locked takes a token back; while there was one nothing had come to rest.
LEMMA Releasing ==
    ASSUME LeaseConstantsOK, LeaseInv, active >= 1, Res!release
    PROVE  /\ active' = active - 1 /\ active' \in Nat /\ (policy = 1 => active' = 0)
           /\ lease' \in {"available", "leased", "closing"}
           /\ lease' = "available" => active' = 0
           /\ lease \notin {"available", "leased"} => lease' \notin {"available", "leased"}
           /\ \A t \in Transports : ~transport[t].quiesced
           /\ \A c \in Clients : client[c] # "dropping"
<1>0. LeaseTyped /\ ActiveCounted /\ Quiet
  BY DEF LeaseInv
<1>1. /\ active' = active - 1
      /\ lease' = IF lease = "leased" /\ active = 1 THEN "available" ELSE lease
  BY DEF Res!release
<1>2. active' \in Nat /\ (policy = 1 => active' = 0)
  BY <1>0, <1>1 DEF LeaseTyped, ActiveCounted
<1>3. lease \in {"available", "leased", "closing"} /\ lease # "available"
  BY <1>0 DEF LeaseTyped, ActiveCounted, Quiet
<1>4. \A t \in Transports : transport[t].quiesced \in BOOLEAN
  BY <1>0 DEF LeaseTyped, Fields
<1>5. \A t \in Transports : ~transport[t].quiesced
  BY <1>0, <1>3, <1>4 DEF Quiet
<1>6. \A c \in Clients : client[c] # "dropping"
  BY <1>0 DEF Quiet
<1>7. lease' = "available" => active' = 0
  BY <1>0, <1>1, <1>3 DEF LeaseTyped
<1> QED
  BY <1>1, <1>2, <1>3, <1>5, <1>6, <1>7

-----------------------------------------------------------------------------
(* Where a node is *)

\* A node found somewhere is nowhere else.
LEMMA Single ==
    ASSUME NEW v \in Payloads, NodeOK(v)
    PROVE  /\ \A t \in InQueues(v) : place[v] = "node" /\ At(v, {t}, {}, {})
           /\ \A c \in InHands(v) : place[v] = "node" /\ At(v, {}, {c}, {})
           /\ \A c \in InLists(v) : place[v] = "node" /\ At(v, {}, {}, {c})
  BY DEF NodeOK, At

\* v stays where it is: no queue, hand or list gains or loses it.
Stays(v) ==
    /\ \A t \in Transports : \/ transport'[t].queue = transport[t].queue
                             \/ /\ NotIn(transport[t].queue, v) => NotIn(transport'[t].queue, v)
                                /\ OnceIn(transport[t].queue, v) => OnceIn(transport'[t].queue, v)
    /\ \A c \in Clients : \/ detached'[c] = detached[c]
                          \/ /\ NotIn(detached[c], v) => NotIn(detached'[c], v)
                             /\ OnceIn(detached[c], v) => OnceIn(detached'[c], v)
    /\ InHands(v)' = InHands(v)
    /\ place'[v] = "node" <=> place[v] = "node"

\* A payload that stays where it is, is still in one place.
LEMMA Stayed ==
    ASSUME NEW v \in Payloads, NodeOK(v), Stays(v)
    PROVE  NodeOK(v)'
<1>1. ASSUME NEW t \in Transports
      PROVE  /\ NotIn(transport'[t].queue, v) \/ OnceIn(transport'[t].queue, v)
             /\ NotIn(transport'[t].queue, v) <=> NotIn(transport[t].queue, v)
  BY NotBoth DEF NodeOK, Stays
<1>2. ASSUME NEW c \in Clients
      PROVE  /\ NotIn(detached'[c], v) \/ OnceIn(detached'[c], v)
             /\ NotIn(detached'[c], v) <=> NotIn(detached[c], v)
  BY NotBoth DEF NodeOK, Stays
<1>3. InQueues(v)' = InQueues(v) /\ InLists(v)' = InLists(v) /\ InHands(v)' = InHands(v)
  BY <1>1, <1>2 DEF InQueues, InLists, Stays
<1>4. place'[v] = "node" <=> place[v] = "node"
  BY DEF Stays
<1> QED
  BY <1>1, <1>2, <1>3, <1>4 DEF NodeOK, At

-----------------------------------------------------------------------------
(* What a step leaves alone *)

\* A step that leaves the clients and the transports alone.
LEMMA OthersKept ==
    ASSUME LeaseInv, UNCHANGED <<transports, transport, client, hand, detached, place, owner>>
    PROVE  /\ Hands' /\ Counters' /\ Nodes' /\ Retained'
           /\ Pinners' = Pinners
<1>0. Hands /\ Counters /\ Nodes /\ Retained
  BY DEF LeaseInv
<1>1. Hands'
  BY <1>0 DEF Hands, HandOK, Offered
<1>2. Counters'
  BY <1>0 DEF Counters, TransportOK, Senders, Droppers
<1>3. Nodes'
  <2> SUFFICES ASSUME NEW v \in Payloads PROVE NodeOK(v)'
    BY DEF Nodes
  <2>1. NodeOK(v)
    BY <1>0 DEF Nodes
  <2> QED
    BY <2>1 DEF NodeOK, At, InQueues, InHands, InLists
<1>4. Retained'
  BY <1>0 DEF Retained, TypedLive, Owned, Res!Live
<1> QED
  BY <1>1, <1>2, <1>3, <1>4 DEF Pinners

\* A step that neither closes anything nor ends a close, while nothing has come to rest.
LEMMA StillOpen ==
    ASSUME LeaseInv, transports' = transports,
           \A t \in Transports : /\ transport'[t].state = transport[t].state
                                 /\ transport'[t].closed = transport[t].closed
                                 /\ ~transport'[t].quiesced,
           \A c \in Clients : client'[c] # "dropping",
           lease' \in {"available", "leased", "closing"},
           lease \notin {"available", "leased"} => lease' \notin {"available", "leased"}
    PROVE  Quiet'
<1>0. Quiet
  BY DEF LeaseInv
<1>1. {t \in Transports : Res!Live(t)}' = {t \in Transports : Res!Live(t)}
  BY DEF Res!Live
<1> QED
  BY <1>0, <1>1 DEF Quiet

\* The owner's references are counted by the live typed transports and the owned payloads.
LEMMA RetainedKept ==
    ASSUME Retained, owner' = owner,
           \A t \in Transports : /\ transport'[t].state = transport[t].state
                                 /\ transport'[t].typed = transport[t].typed,
           \A v \in Payloads : place'[v] = "owned" <=> place[v] = "owned"
    PROVE  Retained'
<1>1. TypedLive' = TypedLive /\ Owned' = Owned
  BY DEF TypedLive, Owned, Res!Live
<1> QED
  BY <1>1 DEF Retained

-----------------------------------------------------------------------------
(* The first state *)

\* A new lease with nobody near it.
LEMMA LeaseInitially ==
    ASSUME LeaseConstantsOK, Res!Init
    PROVE  LeaseInv
<1>1. LeaseTyped
  BY DEF Res!Init, LeaseTyped, Record, Fields, Res!Pinning, Res!SendPc, Res!ReceivePc, Res!Places,
         Res!Empty, LeaseConstantsOK
<1>2. /\ \A c \in Clients : client[c] = "idle" /\ hand[c] = Res!Empty /\ detached[c] = <<>>
      /\ \A t \in Transports : /\ transport[t].state = "none" /\ transport[t].queue = <<>>
                               /\ ~transport[t].closed /\ ~transport[t].quiesced
                               /\ transport[t].reservations = 0 /\ transport[t].callbacks = 0
      /\ \A o \in Operations : operation[o].state = "none" /\ ~operation[o].provider /\ ~operation[o].token
      /\ \A v \in Payloads : place[v] = "source"
      /\ active = 0 /\ transports = 0 /\ owner = 0 /\ lease = "available"
  BY DEF Res!Init
<1>3. ActiveCounted
  <2>1. Pinners = {} /\ Tokens = {}
    BY <1>2 DEF Pinners, Tokens, Res!Pinning, Res!SendPc, Res!ReceivePc
  <2> QED
    BY <1>2, <2>1, FS_EmptySet DEF ActiveCounted
<1>4. Pinned
  BY <1>2 DEF Pinned, PinnedBy
<1>5. Hands
  BY <1>2 DEF Hands, HandOK, Offered, Res!SendPc, Res!ReceivePc, LeaseConstantsOK
<1>6. Counters
  <2> SUFFICES ASSUME NEW t \in Transports PROVE TransportOK(t)
    BY DEF Counters
  <2>1. Senders(t) = {} /\ Droppers(t) = {}
    BY <1>2 DEF Senders, Droppers, Res!SendPc
  <2>2. Len(transport[t].queue) = 0
    BY <1>2
  <2> QED
    BY <1>2, <2>1, <2>2, FS_EmptySet DEF TransportOK, LeaseConstantsOK
<1>7. Quiet
  <2>1. {t \in Transports : Res!Live(t)} = {}
    BY <1>2 DEF Res!Live
  <2> QED
    BY <1>2, <2>1, FS_EmptySet DEF Quiet
<1>8. Nodes
  <2> SUFFICES ASSUME NEW v \in Payloads PROVE NodeOK(v)
    BY DEF Nodes
  <2>1. NotIn(<<>>, v)
    BY NotBoth
  <2>2. At(v, {}, {}, {})
    BY <1>2, <2>1 DEF At, InQueues, InHands, InLists
  <2> QED
    BY <1>2, <2>1, <2>2 DEF NodeOK
<1>9. Retained
  <2>1. TypedLive = {} /\ Owned = {}
    BY <1>2 DEF Res!Live, TypedLive, Owned
  <2> QED
    BY <1>2, <2>1, FS_EmptySet DEF Retained
<1> QED
  BY <1>1, <1>3, <1>4, <1>5, <1>6, <1>7, <1>8, <1>9 DEF LeaseInv

-----------------------------------------------------------------------------
(* The lease and its operations *)

\* begin_close, quiesce and destroy of the lease.
LEMMA LeaseSteps ==
    ASSUME LeaseConstantsOK, LeaseInv, policy' = policy, Res!BeginClose \/ Res!Quiesce \/ Res!Destroy
    PROVE  LeaseInv'
<1>0. LeaseTyped /\ ActiveCounted /\ Pinned /\ Quiet
  BY DEF LeaseInv
<1>1. /\ UNCHANGED <<active, transports, operation, transport, client, hand, detached, place, owner>>
      /\ \/ lease \in {"available", "leased"} /\ lease' = "closing"
         \/ lease = "closing" /\ active = 0 /\ lease' = "closed"
         \/ lease = "closed" /\ active = 0 /\ transports = 0 /\ lease' = "freed"
  BY DEF Res!BeginClose, Res!BeginClosed, Res!Quiesce, Res!Destroy
<1>2. Hands' /\ Counters' /\ Nodes' /\ Retained' /\ Pinners' = Pinners
  BY <1>1, OthersKept
<1>3. LeaseTyped'
  BY <1>0, <1>1 DEF LeaseTyped
<1>4. ActiveCounted' /\ Pinned'
  BY <1>0, <1>1, <1>2 DEF ActiveCounted, Tokens, Pinned
<1>5. Quiet'
  <2>1. {t \in Transports : Res!Live(t)}' = {t \in Transports : Res!Live(t)}
    BY <1>1 DEF Res!Live
  <2> QED
    BY <1>0, <1>1, <2>1 DEF Quiet
<1> QED
  BY <1>2, <1>3, <1>4, <1>5 DEF LeaseInv

\* A step on one operation: its fields, and with its token what the lease counts.
PinStep(o, new) ==
    /\ operation' = [operation EXCEPT ![o] = new]
    /\ new \in Record /\ PinnedBy(new)
    /\ \/ (new.token <=> operation[o].token) /\ UNCHANGED <<lease, active>>
       \/ ~operation[o].token /\ new.token /\ Res!acquire
       \/ operation[o].token /\ ~new.token /\ Res!release

\* An operation keeps its token, or gives it back.
LEMMA TokenSteps ==
    ASSUME LeaseInv, NEW o \in Operations, NEW r \in Record
    PROVE  /\ PinnedBy(r) /\ r.token = operation[o].token /\ Res!KeepToken(o, r)
                => \E new : PinStep(o, new)
           /\ r.state # "armed" /\ ~r.provider /\ Res!ReleaseToken(o, r)
                => \E new : PinStep(o, new)
<1>1. ASSUME PinnedBy(r), r.token = operation[o].token, Res!KeepToken(o, r)
      PROVE  PinStep(o, r)
  BY <1>1 DEF Res!KeepToken, PinStep
<1>2. ASSUME r.state # "armed", ~r.provider, Res!ReleaseToken(o, r)
      PROVE  \E new : PinStep(o, new)
  <2> DEFINE new == [r EXCEPT !.token = FALSE]
  <2>1. new \in Record /\ new.state = r.state /\ new.provider = r.provider /\ new.token = FALSE
    BY WithFlag
  <2>2. operation' = [operation EXCEPT ![o] = new]
    BY <1>2 DEF Res!ReleaseToken
  <2>3. IF operation[o].token THEN Res!release ELSE UNCHANGED <<lease, active>>
    BY <1>2 DEF Res!ReleaseToken, Res!release
  <2> HIDE DEF new
  <2>4. PinnedBy(new)
    BY <1>2, <2>1 DEF PinnedBy
  <2>5. operation[o].token \in BOOLEAN
    BY DEF LeaseInv, LeaseTyped, Record
  <2>6. PinStep(o, new)
    BY <2>1, <2>2, <2>3, <2>4, <2>5 DEF PinStep
  <2> QED
    BY <2>6
<1> QED
  BY <1>1, <1>2

\* The steps on an operation are of this form.
LEMMA PinSteps ==
    ASSUME LeaseInv, NEW o \in Operations,
           \/ Res!OpBegin(o) \/ Res!OpComplete(o) \/ Res!ProviderEnter(o)
           \/ Res!ProviderLeave(o) \/ Res!OpDestroy(o)
    PROVE  /\ \E new : PinStep(o, new)
           /\ UNCHANGED <<transports, transport, client, hand, detached, place, owner>>
<1> DEFINE r == operation[o]
<1>0. r \in Record /\ PinnedBy(r) /\ operation \in [Operations -> Record]
  BY DEF LeaseInv, LeaseTyped, Pinned
<1>a. Res!Terminal = Lease!Terminal
  BY DEF Res!Terminal, Lease!Terminal
<1>b. UNCHANGED <<transports, transport, client, hand, detached, place, owner>>
  BY DEF Res!OpBegin, Res!OpComplete, Res!ProviderEnter, Res!ProviderLeave, Res!OpDestroy
<1>1. CASE Res!OpBegin(o)
  <2>1. r.state = "none" /\ Res!acquire
    BY <1>1 DEF Res!OpBegin, Res!acquire
  <2> DEFINE new == [r EXCEPT !.state = "armed", !.token = TRUE]
  <2>2. operation' = [operation EXCEPT ![o] = new]
    BY <1>0, <1>1 DEF Res!OpBegin, Record
  <2>3. new \in Record /\ new.state = "armed" /\ new.token = TRUE
    BY <1>0 DEF Record
  <2> HIDE DEF new
  <2>4. PinnedBy(new)
    BY <2>3 DEF PinnedBy
  <2>5. ~r.token
    BY <1>0, <2>1 DEF PinnedBy, Record
  <2>6. PinStep(o, new)
    BY <2>1, <2>2, <2>3, <2>4, <2>5 DEF PinStep
  <2> QED
    BY <1>b, <2>6
<1>2. CASE Res!OpComplete(o)
  <2>1. r.state = "armed"
    BY <1>2 DEF Res!OpComplete
  <2>2. PICK s \in Res!Terminal :
          IF r.provider THEN Res!KeepToken(o, [r EXCEPT !.state = s])
                        ELSE Res!ReleaseToken(o, [r EXCEPT !.state = s])
    BY <1>2 DEF Res!OpComplete
  <2> DEFINE n == [r EXCEPT !.state = s]
  <2>3. n \in Record /\ n.state = s /\ n.provider = r.provider /\ n.token = r.token
    BY <1>0, <1>a, WithState
  <2>4. s # "armed" /\ s # "none"
    BY DEF Res!Terminal
  <2>5. IF r.provider THEN Res!KeepToken(o, n) ELSE Res!ReleaseToken(o, n)
    BY <2>2
  <2> HIDE DEF n
  <2>6. CASE r.provider
    <3>1. PinnedBy(n)
      BY <1>0, <2>3, <2>4, <2>6 DEF PinnedBy
    <3> QED
      BY <1>b, <2>3, <2>5, <2>6, <3>1, TokenSteps
  <2>7. CASE ~r.provider
    BY <1>b, <2>3, <2>4, <2>5, <2>7, TokenSteps
  <2> QED
    BY <2>6, <2>7
<1>3. CASE Res!ProviderEnter(o)
  <2> DEFINE n == [r EXCEPT !.provider = TRUE]
  <2>1. r.state = "armed" /\ Res!KeepToken(o, n)
    BY <1>3 DEF Res!ProviderEnter
  <2>2. n \in Record /\ n.state = r.state /\ n.provider = TRUE /\ n.token = r.token
    BY <1>0, WithFlag
  <2> HIDE DEF n
  <2>3. PinnedBy(n)
    BY <1>0, <2>1, <2>2 DEF PinnedBy
  <2> QED
    BY <1>b, <2>1, <2>2, <2>3, TokenSteps
<1>4. CASE Res!ProviderLeave(o)
  <2> DEFINE n == [r EXCEPT !.provider = FALSE]
  <2>1. r.provider /\ IF r.state = "armed" THEN Res!KeepToken(o, n) ELSE Res!ReleaseToken(o, n)
    BY <1>4 DEF Res!ProviderLeave
  <2>2. n \in Record /\ n.state = r.state /\ n.provider = FALSE /\ n.token = r.token
    BY <1>0, WithFlag
  <2> HIDE DEF n
  <2>3. CASE r.state = "armed"
    <3>1. PinnedBy(n)
      BY <1>0, <2>2, <2>3 DEF PinnedBy
    <3> QED
      BY <1>b, <2>1, <2>2, <2>3, <3>1, TokenSteps
  <2>4. CASE r.state # "armed"
    BY <1>b, <2>1, <2>2, <2>4, TokenSteps
  <2> QED
    BY <2>3, <2>4
<1>5. CASE Res!OpDestroy(o)
  <2> DEFINE n == [r EXCEPT !.state = "destroyed"]
  <2>1. r.state \in Res!Terminal /\ ~r.provider /\ Res!KeepToken(o, n)
    BY <1>5 DEF Res!OpDestroy
  <2>2. n \in Record /\ n.state = "destroyed" /\ n.provider = r.provider /\ n.token = r.token
    BY <1>0, WithState
  <2> HIDE DEF n
  <2>3. PinnedBy(n)
    BY <1>0, <2>1, <2>2 DEF PinnedBy, Res!Terminal
  <2> QED
    BY <1>b, <2>1, <2>2, <2>3, TokenSteps
<1> QED
  BY <1>1, <1>2, <1>3, <1>4, <1>5

\* begin, complete, provider_enter, provider_leave and destroy of an operation.
LEMMA OperationsKeep ==
    ASSUME LeaseConstantsOK, LeaseInv, policy' = policy, NEW o \in Operations,
           \/ Res!OpBegin(o) \/ Res!OpComplete(o) \/ Res!ProviderEnter(o)
           \/ Res!ProviderLeave(o) \/ Res!OpDestroy(o)
    PROVE  LeaseInv'
<1>0. LeaseTyped /\ ActiveCounted /\ Pinned /\ Quiet
  BY DEF LeaseInv
<1>1. UNCHANGED <<transports, transport, client, hand, detached, place, owner>>
  BY PinSteps
<1>2. PICK new : PinStep(o, new)
  BY PinSteps
<1>3. Hands' /\ Counters' /\ Nodes' /\ Retained' /\ Pinners' = Pinners
  BY <1>1, OthersKept
<1>4. operation' = [operation EXCEPT ![o] = new] /\ new \in Record /\ PinnedBy(new)
  BY <1>2 DEF PinStep
<1>5. operation'[o] = new /\ \A p \in Operations \ {o} : operation'[p] = operation[p]
  BY <1>0, <1>4 DEF LeaseTyped
<1>6. operation' \in [Operations -> Record] /\ Pinned'
  <2>1. operation' \in [Operations -> Record]
    BY <1>0, <1>4 DEF LeaseTyped
  <2>2. \A p \in Operations : PinnedBy(operation'[p])
    BY <1>0, <1>4, <1>5 DEF Pinned
  <2> QED
    BY <2>1, <2>2 DEF Pinned, PinnedBy
<1>7. /\ Cardinality(Tokens) \in Nat /\ Cardinality(Tokens') \in Nat
      /\ ~operation[o].token /\ new.token => Cardinality(Tokens') = Cardinality(Tokens) + 1
      /\ operation[o].token /\ ~new.token => Cardinality(Tokens) = Cardinality(Tokens') + 1
      /\ (new.token <=> operation[o].token) => Cardinality(Tokens') = Cardinality(Tokens)
  <2> DEFINE A == Tokens
             B == {p \in Operations : operation'[p].token}
  <2>1. /\ A \in SUBSET Operations /\ B \in SUBSET Operations
        /\ \A p \in Operations \ {o} : p \in A <=> p \in B
        /\ o \in A <=> operation[o].token
        /\ o \in B <=> new.token
        /\ B = Tokens'
    BY <1>5 DEF Tokens
  <2>2. A = Tokens
    OBVIOUS
  <2> HIDE DEF A, B
  <2>3. /\ Cardinality(A) \in Nat /\ Cardinality(B) \in Nat
        /\ o \notin A /\ o \in B => Cardinality(B) = Cardinality(A) + 1
        /\ o \in A /\ o \notin B => Cardinality(A) = Cardinality(B) + 1
        /\ (o \in A <=> o \in B) => Cardinality(A) = Cardinality(B)
    BY <2>1, OneApart DEF LeaseConstantsOK
  <2> QED
    BY <2>1, <2>2, <2>3
<1>8. Cardinality(Pinners) \in Nat /\ Cardinality(Pinners') = Cardinality(Pinners)
  BY <1>3, Amounts
<1>9. CASE (new.token <=> operation[o].token) /\ UNCHANGED <<lease, active>>
  <2>1. ActiveCounted'
    BY <1>0, <1>7, <1>8, <1>9 DEF ActiveCounted
  <2>2. LeaseTyped'
    BY <1>0, <1>1, <1>6, <1>9 DEF LeaseTyped
  <2>3. Quiet'
    BY <1>0, <1>1, <1>9 DEF Quiet, Res!Live
  <2> QED
    BY <1>3, <1>6, <2>1, <2>2, <2>3 DEF LeaseInv
<1>10. CASE ~operation[o].token /\ new.token /\ Res!acquire
  <2>1. /\ lease' = "leased" /\ lease \in {"available", "leased"}
        /\ active' = active + 1 /\ active' \in Nat /\ (policy = 1 => active' = 1)
        /\ \A t \in Transports : ~transport[t].closed /\ ~transport[t].quiesced
        /\ \A c \in Clients : client[c] # "dropping"
    BY <1>10, Acquiring
  <2>2. ActiveCounted'
    BY <1>0, <1>7, <1>8, <1>10, <2>1 DEF ActiveCounted
  <2>3. LeaseTyped'
    BY <1>0, <1>1, <1>6, <2>1 DEF LeaseTyped
  <2>4. Quiet'
    BY <1>1, <2>1, StillOpen
  <2> QED
    BY <1>3, <1>6, <2>2, <2>3, <2>4 DEF LeaseInv
<1>11. CASE operation[o].token /\ ~new.token /\ Res!release
  <2>1. active >= 1
    BY <1>0, <1>11, Counting
  <2>2. /\ active' = active - 1 /\ active' \in Nat /\ (policy = 1 => active' = 0)
        /\ lease' \in {"available", "leased", "closing"}
        /\ lease' = "available" => active' = 0
        /\ lease \notin {"available", "leased"} => lease' \notin {"available", "leased"}
        /\ \A t \in Transports : ~transport[t].quiesced
        /\ \A c \in Clients : client[c] # "dropping"
    BY <1>11, <2>1, Releasing
  <2>3. ActiveCounted'
    BY <1>0, <1>7, <1>8, <1>11, <2>2 DEF ActiveCounted
  <2>4. LeaseTyped'
    BY <1>0, <1>1, <1>6, <2>2 DEF LeaseTyped
  <2>5. Quiet'
    BY <1>1, <2>2, StillOpen
  <2> QED
    BY <1>3, <1>6, <2>3, <2>4, <2>5 DEF LeaseInv
<1> QED
  BY <1>2, <1>9, <1>10, <1>11 DEF PinStep

-----------------------------------------------------------------------------
(* Steps of a client *)

\* What a client holds is not disturbed by the step of another.
LEMMA HandsKept ==
    ASSUME Hands, NEW c \in Clients, HandOK(c)', Offered(c)',
           \A d \in Clients \ {c} : /\ client'[d] = client[d] /\ hand'[d] = hand[d]
                                    /\ detached'[d] = detached[d],
           \A d \in Clients \ {c} : client[d] \in {"prepared", "moving"} =>
             place'[hand[d].v] = "source" /\ hand'[c].v # hand[d].v
    PROVE  Hands'
<1> SUFFICES ASSUME NEW d \in Clients \ {c} PROVE HandOK(d)' /\ Offered(d)'
  BY DEF Hands
<1>1. HandOK(d) /\ Offered(d)
  BY DEF Hands
<1>2. HandOK(d)'
  BY <1>1 DEF HandOK
<1>3. Offered(d)'
  BY <1>1 DEF Offered
<1> QED
  BY <1>2, <1>3

\* A client gets a token.
LEMMA ClientAcquires ==
    ASSUME LeaseConstantsOK, LeaseInv, policy' = policy, operation' = operation,
           NEW c \in Clients, NEW p, NEW h,
           client' = [client EXCEPT ![c] = p], hand' = [hand EXCEPT ![c] = h],
           client[c] = "idle", p \in Res!Pinning, Res!acquire
    PROVE  /\ ActiveCounted' /\ Pinned' /\ active' \in Nat
           /\ lease' = "leased" /\ lease \in {"available", "leased"}
           /\ client' \in [Clients -> {"idle", "dropping"} \cup Res!Pinning]
           /\ \A t \in Transports : ~transport[t].closed /\ ~transport[t].quiesced
           /\ \A d \in Clients : client[d] # "dropping" /\ client'[d] # "dropping"
<1>0. LeaseTyped /\ ActiveCounted /\ Pinned
  BY DEF LeaseInv
<1>1. /\ lease' = "leased" /\ lease \in {"available", "leased"}
      /\ active' = active + 1 /\ active' \in Nat /\ (policy = 1 => active' = 1)
      /\ \A t \in Transports : ~transport[t].closed /\ ~transport[t].quiesced
      /\ \A d \in Clients : client[d] # "dropping"
  BY Acquiring
<1>2. client[c] \notin Res!Pinning /\ p # "dropping"
  BY DEF Res!Pinning, Res!SendPc, Res!ReceivePc
<1>3. Cardinality(Pinners') = Cardinality(Pinners) + 1 /\ Cardinality(Pinners) \in Nat
  BY <1>0, <1>2, ClientMoves
<1>4. Tokens' = Tokens /\ Cardinality(Tokens) \in Nat
  BY Amounts DEF Tokens
<1>5. ActiveCounted'
  BY <1>0, <1>1, <1>3, <1>4 DEF ActiveCounted
<1>6. Pinned'
  BY <1>0 DEF Pinned, PinnedBy
<1>7. client' \in [Clients -> {"idle", "dropping"} \cup Res!Pinning]
  BY <1>0 DEF LeaseTyped
<1>8. \A d \in Clients : client'[d] # "dropping"
  BY <1>0, <1>1, <1>2 DEF LeaseTyped
<1> QED
  BY <1>1, <1>5, <1>6, <1>7, <1>8

\* A client gives its token back and is idle.
LEMMA ClientReleases ==
    ASSUME LeaseConstantsOK, LeaseInv, policy' = policy, operation' = operation,
           NEW c \in Clients, NEW h,
           client' = [client EXCEPT ![c] = "idle"], hand' = [hand EXCEPT ![c] = h],
           client[c] \in Res!Pinning, Res!release
    PROVE  /\ ActiveCounted' /\ Pinned' /\ active' \in Nat
           /\ lease' \in {"available", "leased", "closing"}
           /\ lease \notin {"available", "leased"} => lease' \notin {"available", "leased"}
           /\ client' \in [Clients -> {"idle", "dropping"} \cup Res!Pinning]
           /\ \A t \in Transports : ~transport[t].quiesced
           /\ \A d \in Clients : client[d] # "dropping" /\ client'[d] # "dropping"
<1>0. LeaseTyped /\ ActiveCounted /\ Pinned
  BY DEF LeaseInv
<1>a. active >= 1
  BY <1>0, Counting
<1>1. /\ active' = active - 1 /\ active' \in Nat /\ (policy = 1 => active' = 0)
      /\ lease' \in {"available", "leased", "closing"}
      /\ lease' = "available" => active' = 0
      /\ lease \notin {"available", "leased"} => lease' \notin {"available", "leased"}
      /\ \A t \in Transports : ~transport[t].quiesced
      /\ \A d \in Clients : client[d] # "dropping"
  BY <1>a, Releasing
<1>2. "idle" \notin Res!Pinning
  BY DEF Res!Pinning, Res!SendPc, Res!ReceivePc
<1>3. /\ Cardinality(Pinners) = Cardinality(Pinners') + 1
      /\ Cardinality(Pinners) \in Nat /\ Cardinality(Pinners') \in Nat
  BY <1>0, <1>2, ClientMoves
<1>4. Tokens' = Tokens /\ Cardinality(Tokens) \in Nat
  BY Amounts DEF Tokens
<1>5. ActiveCounted'
  BY <1>0, <1>1, <1>3, <1>4 DEF ActiveCounted
<1>6. Pinned'
  BY <1>0 DEF Pinned, PinnedBy
<1>7. client' \in [Clients -> {"idle", "dropping"} \cup Res!Pinning]
  BY <1>0 DEF LeaseTyped
<1>8. \A d \in Clients : client'[d] # "dropping"
  BY <1>0, <1>1 DEF LeaseTyped
<1> QED
  BY <1>1, <1>5, <1>6, <1>7, <1>8

\* A client goes on with what it has: the lease is not involved.
LEMMA ClientGoesOn ==
    ASSUME LeaseConstantsOK, LeaseInv, policy' = policy, UNCHANGED <<lease, active, operation>>,
           transports' = transports, transport' = transport, hand' = hand, detached' = detached,
           NEW c \in Clients, NEW p, client' = [client EXCEPT ![c] = p],
           client[c] \in Res!Pinning, p \in Res!Pinning,
           client[c] \in Res!SendPc <=> p \in Res!SendPc
    PROVE  /\ ActiveCounted' /\ Pinned' /\ Counters' /\ Quiet'
           /\ client' \in [Clients -> {"idle", "dropping"} \cup Res!Pinning]
<1>0. LeaseTyped /\ ActiveCounted /\ Pinned /\ Counters /\ Quiet
  BY DEF LeaseInv
<1>1. hand' = [hand EXCEPT ![c] = hand[c]]
  BY <1>0 DEF LeaseTyped
<1>2. client[c] # "dropping" /\ p # "dropping"
  BY DEF Res!Pinning, Res!SendPc, Res!ReceivePc
<1>3. /\ Cardinality(Pinners') = Cardinality(Pinners)
      /\ \A t : /\ Cardinality(Senders(t)') = Cardinality(Senders(t))
                /\ Cardinality(Droppers(t)') = Cardinality(Droppers(t))
  <2>1. Cardinality(Pinners') = Cardinality(Pinners)
    BY <1>0, <1>1, ClientMoves
  <2>2. ASSUME NEW t PROVE Senders(t)' = Senders(t) /\ Droppers(t)' = Droppers(t)
    BY <1>0, <1>2 DEF LeaseTyped, Senders, Droppers
  <2> QED
    BY <2>1, <2>2
<1>4. ActiveCounted' /\ Pinned'
  BY <1>0, <1>3 DEF ActiveCounted, Tokens, Pinned
<1>5. Counters'
  BY <1>0, <1>3 DEF Counters, TransportOK
<1>6. client' \in [Clients -> {"idle", "dropping"} \cup Res!Pinning]
  BY <1>0 DEF LeaseTyped
<1>7. \A d \in Clients : client'[d] = "dropping" => client[d] = "dropping"
  BY <1>0, <1>2 DEF LeaseTyped
<1>8. Quiet'
  BY <1>0, <1>7 DEF Quiet, Res!Live
<1> QED
  BY <1>4, <1>5, <1>6, <1>8

\* acquire and release of a token by the host.
LEMMA HostTokens ==
    ASSUME LeaseConstantsOK, LeaseInv, policy' = policy, NEW c \in Clients,
           Res!Acquire(c) \/ Res!Release(c)
    PROVE  LeaseInv'
<1>0. LeaseTyped /\ Hands /\ Counters /\ Nodes /\ Retained
  BY DEF LeaseInv
<1> DEFINE p == IF client[c] = "idle" THEN "token" ELSE "idle"
<1>1. /\ UNCHANGED <<transports, operation, transport, hand, detached, place, owner>>
      /\ client' = [client EXCEPT ![c] = p]
      /\ \/ client[c] = "idle" /\ p = "token" /\ Res!acquire
         \/ client[c] = "token" /\ p = "idle" /\ Res!release
  BY DEF Res!Acquire, Res!Release, Res!acquire, Res!release
<1>2. hand' = [hand EXCEPT ![c] = hand[c]] /\ hand[c] = Res!Empty
  BY <1>0, <1>1 DEF LeaseTyped, Hands, HandOK
<1> HIDE DEF p
<1>3. "token" \in Res!Pinning
  BY DEF Res!Pinning
<1>4. /\ ActiveCounted' /\ Pinned' /\ active' \in Nat
      /\ lease' \in {"available", "leased", "closing"}
      /\ lease \notin {"available", "leased"} => lease' \notin {"available", "leased"}
      /\ client' \in [Clients -> {"idle", "dropping"} \cup Res!Pinning]
      /\ \A t \in Transports : ~transport[t].quiesced
      /\ \A d \in Clients : client'[d] # "dropping"
  <2>1. CASE client[c] = "idle" /\ p = "token" /\ Res!acquire
    BY <1>1, <1>2, <1>3, <2>1, ClientAcquires
  <2>2. CASE client[c] = "token" /\ p = "idle" /\ Res!release
    <3>1. client' = [client EXCEPT ![c] = "idle"]
      BY <1>1, <2>2
    <3> QED
      BY <1>1, <1>2, <1>3, <2>2, <3>1, ClientReleases
  <2> QED
    BY <1>1, <2>1, <2>2
<1>5. LeaseTyped'
  BY <1>0, <1>1, <1>4 DEF LeaseTyped
<1>6. client'[c] = p /\ \A d \in Clients \ {c} : client'[d] = client[d]
  BY <1>0, <1>1 DEF LeaseTyped
<1>7. Hands'
  <2>1. HandOK(c) /\ HandOK(c)' /\ Offered(c)'
    BY <1>0, <1>1, <1>2, <1>6 DEF Hands, HandOK, Offered, Res!SendPc, Res!ReceivePc
  <2>2. \A d \in Clients \ {c} : client[d] \in {"prepared", "moving"} =>
          place'[hand[d].v] = "source" /\ hand'[c].v # hand[d].v
    BY <1>0, <1>1 DEF Hands, Offered
  <2> QED
    BY <1>0, <1>1, <1>6, <2>1, <2>2, HandsKept
<1>8. Counters'
  <2>1. client[c] \notin Res!SendPc /\ p \notin Res!SendPc /\ client[c] # "dropping" /\ p # "dropping"
    BY <1>1 DEF Res!SendPc
  <2>2. \A t : /\ Cardinality(Senders(t)') = Cardinality(Senders(t))
               /\ Cardinality(Droppers(t)') = Cardinality(Droppers(t))
    BY <1>0, <1>1, <1>2, <2>1, ClientMoves
  <2> QED
    BY <1>0, <1>1, <2>2 DEF Counters, TransportOK
<1>9. Quiet'
  BY <1>1, <1>4, StillOpen
<1>10. Nodes'
  <2> SUFFICES ASSUME NEW v \in Payloads PROVE NodeOK(v)'
    BY DEF Nodes
  <2>1. InHands(v)' = InHands(v)
    BY <1>1, <1>6 DEF InHands
  <2>2. NodeOK(v) /\ Stays(v)
    BY <1>0, <1>1, <2>1 DEF Nodes, Stays
  <2> QED
    BY <2>2, Stayed
<1>11. Retained'
  BY <1>0, <1>1, RetainedKept
<1> QED
  BY <1>4, <1>5, <1>7, <1>8, <1>9, <1>10, <1>11 DEF LeaseInv

-----------------------------------------------------------------------------
(* Transports *)

\* A step that leaves the clients alone, and of the transports what the clients use.
LEMMA ClientsKept ==
    ASSUME LeaseInv, UNCHANGED <<client, hand, detached, place>>,
           \A t \in Transports : /\ transport'[t].queue = transport[t].queue
                                 /\ transport'[t].reservations = transport[t].reservations
                                 /\ transport'[t].callbacks = transport[t].callbacks
    PROVE  Hands' /\ Counters' /\ Nodes' /\ Pinners' = Pinners
<1>0. Hands /\ Counters /\ Nodes
  BY DEF LeaseInv
<1>1. Hands'
  BY <1>0 DEF Hands, HandOK, Offered
<1>2. Counters'
  BY <1>0 DEF Counters, TransportOK, Senders, Droppers
<1>3. Nodes'
  <2> SUFFICES ASSUME NEW v \in Payloads PROVE NodeOK(v)'
    BY DEF Nodes
  <2>1. NodeOK(v) /\ Stays(v)
    BY <1>0 DEF Nodes, Stays, InHands
  <2> QED
    BY <2>1, Stayed
<1> QED
  BY <1>1, <1>2, <1>3 DEF Pinners

\* create and create_typed.
LEMMA Creates ==
    ASSUME LeaseConstantsOK, LeaseInv, policy' = policy, NEW t \in Transports, NEW typed \in BOOLEAN,
           Res!CreateTransport(t, typed)
    PROVE  LeaseInv'
<1>0. LeaseTyped /\ ActiveCounted /\ Pinned /\ Quiet /\ Retained
  BY DEF LeaseInv
<1>1. /\ transport[t].state = "none" /\ lease \in {"available", "leased"}
      /\ transports' = transports + 1
      /\ transport' = [transport EXCEPT ![t].state = "live", ![t].typed = typed]
      /\ owner' = IF typed THEN owner + 1 ELSE owner
      /\ UNCHANGED <<lease, active, operation, client, hand, detached, place>>
  BY DEF Res!CreateTransport
<1>2. /\ transport' \in [Transports -> Fields]
      /\ \A u \in Transports \ {t} : transport'[u] = transport[u]
      /\ transport'[t].state = "live" /\ transport'[t].typed = typed
      /\ transport'[t].closed = transport[t].closed
      /\ transport'[t].quiesced = transport[t].quiesced
      /\ transport'[t].queue = transport[t].queue
      /\ transport'[t].reservations = transport[t].reservations
      /\ transport'[t].callbacks = transport[t].callbacks
  BY <1>0, <1>1 DEF LeaseTyped, Fields
<1>3. Hands' /\ Counters' /\ Nodes' /\ Pinners' = Pinners
  <2>1. \A u \in Transports : /\ transport'[u].queue = transport[u].queue
                              /\ transport'[u].reservations = transport[u].reservations
                              /\ transport'[u].callbacks = transport[u].callbacks
    BY <1>2
  <2> QED
    BY <1>1, <2>1, ClientsKept
<1>4. LeaseTyped'
  BY <1>0, <1>1, <1>2 DEF LeaseTyped
<1>5. ActiveCounted' /\ Pinned'
  BY <1>0, <1>1, <1>3 DEF ActiveCounted, Tokens, Pinned
<1>6. Quiet'
  <2> DEFINE A == {u \in Transports : Res!Live(u)}
             B == {u \in Transports : transport'[u].state = "live"}
  <2>1. /\ A \in SUBSET Transports /\ B \in SUBSET Transports /\ t \notin A /\ t \in B
        /\ \A u \in Transports \ {t} : u \in A <=> u \in B
        /\ B = {u \in Transports : Res!Live(u)}'
    BY <1>1, <1>2 DEF Res!Live
  <2> HIDE DEF B
  <2>2. Cardinality(B) = Cardinality(A) + 1
    <3> HIDE DEF A
    <3> QED
      BY <2>1, OneApart DEF LeaseConstantsOK
  <2>3. transports' = Cardinality({u \in Transports : Res!Live(u)}')
    BY <1>0, <1>1, <2>1, <2>2 DEF Quiet
  <2>4. \A u \in Transports : /\ transport'[u].closed = transport[u].closed
                              /\ transport'[u].quiesced = transport[u].quiesced
                              /\ transport'[u].queue = transport[u].queue
    BY <1>2
  <2>5. \A c \in Clients : client[c] = "dropping" => hand[c].t \in Transports
    BY DEF LeaseInv, Hands, HandOK
  <2>6. \A c \in Clients : client[c] # "dropping"
    BY <1>0, <1>1, <2>5 DEF Quiet
  <2> QED
    BY <1>0, <1>1, <2>3, <2>4, <2>6 DEF Quiet
<1>7. Retained'
  <2> DEFINE A == TypedLive
             B == {u \in Transports : transport'[u].state = "live" /\ transport'[u].typed}
  <2>1. /\ A \in SUBSET Transports /\ B \in SUBSET Transports /\ t \notin A /\ (t \in B <=> typed)
        /\ \A u \in Transports \ {t} : u \in A <=> u \in B
        /\ B = TypedLive'
    BY <1>1, <1>2 DEF Res!Live, TypedLive
  <2>2. A = TypedLive
    OBVIOUS
  <2> HIDE DEF A, B
  <2>3. /\ typed => Cardinality(B) = Cardinality(A) + 1
        /\ ~typed => Cardinality(B) = Cardinality(A)
        /\ Cardinality(A) \in Nat
    BY <2>1, OneApart DEF LeaseConstantsOK
  <2>4. Owned' = Owned /\ Cardinality(Owned) \in Nat
    BY <1>1, FS_Subset, FS_CardinalityType DEF Owned, LeaseConstantsOK
  <2> QED
    BY <1>0, <1>1, <2>1, <2>2, <2>3, <2>4 DEF Retained
<1> QED
  BY <1>3, <1>4, <1>5, <1>6, <1>7 DEF LeaseInv

\* destroy of a transport.
LEMMA Destroys ==
    ASSUME LeaseConstantsOK, LeaseInv, policy' = policy, NEW t \in Transports,
           Res!DestroyTransport(t)
    PROVE  LeaseInv'
<1>0. LeaseTyped /\ ActiveCounted /\ Pinned /\ Quiet /\ Retained
  BY DEF LeaseInv
<1>1. /\ transport[t].state = "live"
      /\ transports' = transports - 1
      /\ transport' = [transport EXCEPT ![t].state = "freed"]
      /\ owner' = IF transport[t].typed THEN owner - 1 ELSE owner
      /\ UNCHANGED <<lease, active, operation, client, hand, detached, place>>
  BY DEF Res!DestroyTransport, Res!Live
<1>2. /\ transport' \in [Transports -> Fields]
      /\ \A u \in Transports \ {t} : transport'[u] = transport[u]
      /\ transport'[t].state = "freed" /\ transport'[t].typed = transport[t].typed
      /\ transport'[t].closed = transport[t].closed
      /\ transport'[t].quiesced = transport[t].quiesced
      /\ transport'[t].queue = transport[t].queue
      /\ transport'[t].reservations = transport[t].reservations
      /\ transport'[t].callbacks = transport[t].callbacks
      /\ transport[t].typed \in BOOLEAN
  BY <1>0, <1>1 DEF LeaseTyped, Fields
<1>3. Hands' /\ Counters' /\ Nodes' /\ Pinners' = Pinners
  <2>1. \A u \in Transports : /\ transport'[u].queue = transport[u].queue
                              /\ transport'[u].reservations = transport[u].reservations
                              /\ transport'[u].callbacks = transport[u].callbacks
    BY <1>2
  <2> QED
    BY <1>1, <2>1, ClientsKept
<1>4. ActiveCounted' /\ Pinned'
  BY <1>0, <1>1, <1>3 DEF ActiveCounted, Tokens, Pinned
<1>5. Quiet' /\ transports' \in Nat
  <2> DEFINE A == {u \in Transports : Res!Live(u)}
             B == {u \in Transports : transport'[u].state = "live"}
  <2>1. /\ A \in SUBSET Transports /\ B \in SUBSET Transports /\ t \in A /\ t \notin B
        /\ \A u \in Transports \ {t} : u \in A <=> u \in B
        /\ B = {u \in Transports : Res!Live(u)}'
    BY <1>1, <1>2 DEF Res!Live
  <2> HIDE DEF B
  <2>2. Cardinality(A) = Cardinality(B) + 1 /\ Cardinality(B) \in Nat
    <3> HIDE DEF A
    <3> QED
      BY <2>1, OneApart DEF LeaseConstantsOK
  <2>3. transports' = Cardinality({u \in Transports : Res!Live(u)}') /\ transports' \in Nat
    BY <1>0, <1>1, <2>1, <2>2 DEF Quiet
  <2>4. lease # "freed"
    BY <1>0, <2>2 DEF Quiet
  <2>5. \A u \in Transports : /\ transport'[u].closed = transport[u].closed
                              /\ transport'[u].quiesced = transport[u].quiesced
                              /\ transport'[u].queue = transport[u].queue
    BY <1>2
  <2>6. \A c \in Clients : client[c] = "dropping" => hand[c].t \in Transports
    BY DEF LeaseInv, Hands, HandOK
  <2> QED
    BY <1>0, <1>1, <2>3, <2>4, <2>5, <2>6 DEF Quiet
<1>6. Retained' /\ owner' \in Nat
  <2> DEFINE A == TypedLive
             B == {u \in Transports : transport'[u].state = "live" /\ transport'[u].typed}
  <2>1. /\ A \in SUBSET Transports /\ B \in SUBSET Transports
        /\ (t \in A <=> transport[t].typed) /\ t \notin B
        /\ \A u \in Transports \ {t} : u \in A <=> u \in B
        /\ B = TypedLive'
    BY <1>1, <1>2 DEF Res!Live, TypedLive
  <2>2. A = TypedLive
    OBVIOUS
  <2> HIDE DEF A, B
  <2>3. /\ transport[t].typed => Cardinality(A) = Cardinality(B) + 1
        /\ ~transport[t].typed => Cardinality(B) = Cardinality(A)
        /\ Cardinality(A) \in Nat /\ Cardinality(B) \in Nat
    BY <2>1, OneApart DEF LeaseConstantsOK
  <2>4. Owned' = Owned /\ Cardinality(Owned) \in Nat
    BY <1>1, FS_Subset, FS_CardinalityType DEF Owned, LeaseConstantsOK
  <2> QED
    BY <1>0, <1>1, <2>1, <2>2, <2>3, <2>4 DEF Retained
<1>7. LeaseTyped'
  BY <1>0, <1>1, <1>2, <1>5, <1>6 DEF LeaseTyped
<1> QED
  BY <1>3, <1>4, <1>5, <1>6, <1>7 DEF LeaseInv

\* A payload becomes owned, or an owned one is dropped: what that does to the count.
LEMMA OwnedMoves ==
    ASSUME LeaseConstantsOK, LeaseTyped, NEW v \in Payloads, NEW p, place' = [place EXCEPT ![v] = p]
    PROVE  /\ place'[v] = p /\ \A w \in Payloads \ {v} : place'[w] = place[w]
           /\ Cardinality(Owned) \in Nat /\ Cardinality(Owned') \in Nat
           /\ Cardinality(TypedLive) \in Nat
           /\ place[v] # "owned" /\ p = "owned" => Cardinality(Owned') = Cardinality(Owned) + 1
           /\ place[v] = "owned" /\ p # "owned" => Cardinality(Owned) = Cardinality(Owned') + 1
           /\ transport' = transport => TypedLive' = TypedLive
<1>1. place'[v] = p /\ \A w \in Payloads \ {v} : place'[w] = place[w]
  BY DEF LeaseTyped
<1> DEFINE A == Owned
           B == {w \in Payloads : place'[w] = "owned"}
<1>2. /\ A \in SUBSET Payloads /\ B \in SUBSET Payloads /\ A = Owned /\ B = Owned'
      /\ v \in A <=> place[v] = "owned"
      /\ v \in B <=> p = "owned"
      /\ \A w \in Payloads \ {v} : w \in A <=> w \in B
  BY <1>1 DEF Owned
<1> HIDE DEF A, B
<1>3. /\ Cardinality(A) \in Nat /\ Cardinality(B) \in Nat
      /\ v \notin A /\ v \in B => Cardinality(B) = Cardinality(A) + 1
      /\ v \in A /\ v \notin B => Cardinality(A) = Cardinality(B) + 1
  BY <1>2, OneApart DEF LeaseConstantsOK
<1>4. Cardinality(TypedLive) \in Nat
  BY FS_Subset, FS_CardinalityType DEF TypedLive, LeaseConstantsOK
<1>5. transport' = transport => TypedLive' = TypedLive
  BY DEF TypedLive, Res!Live
<1> QED
  BY <1>1, <1>2, <1>3, <1>4, <1>5

\* destroy of a payload that was taken out.
LEMMA OwnedDestroys ==
    ASSUME LeaseConstantsOK, LeaseInv, policy' = policy, NEW v \in Payloads, Res!OwnedDestroy(v)
    PROVE  LeaseInv'
<1>0. LeaseTyped /\ ActiveCounted /\ Pinned /\ Hands /\ Counters /\ Quiet /\ Nodes /\ Retained
  BY DEF LeaseInv
<1>1. /\ place[v] = "owned" /\ place' = [place EXCEPT ![v] = "dropped"] /\ owner' = owner - 1
      /\ UNCHANGED <<lease, active, transports, operation, transport, client, hand, detached>>
  BY DEF Res!OwnedDestroy
<1>2. /\ place'[v] = "dropped" /\ \A w \in Payloads \ {v} : place'[w] = place[w]
      /\ Cardinality(Owned') \in Nat /\ Cardinality(TypedLive) \in Nat
      /\ Cardinality(Owned) = Cardinality(Owned') + 1
      /\ TypedLive' = TypedLive
  <2>1. /\ place'[v] = "dropped" /\ \A w \in Payloads \ {v} : place'[w] = place[w]
        /\ Cardinality(Owned') \in Nat /\ Cardinality(TypedLive) \in Nat
        /\ place[v] = "owned" /\ "dropped" # "owned" => Cardinality(Owned) = Cardinality(Owned') + 1
        /\ transport' = transport => TypedLive' = TypedLive
    BY <1>0, <1>1, OwnedMoves
  <2> QED
    BY <1>1, <2>1
<1>3. Retained' /\ owner' \in Nat
  BY <1>0, <1>1, <1>2 DEF Retained
<1>4. LeaseTyped'
  <2>1. place' \in [Payloads -> Res!Places]
    BY <1>0, <1>1 DEF LeaseTyped, Res!Places
  <2> QED
    BY <1>0, <1>1, <1>3, <2>1 DEF LeaseTyped
<1>5. ActiveCounted' /\ Pinned' /\ Counters' /\ Quiet'
  <2>1. ActiveCounted' /\ Pinned'
    BY <1>0, <1>1 DEF ActiveCounted, Pinners, Tokens, Pinned
  <2>2. Counters'
    BY <1>0, <1>1 DEF Counters, TransportOK, Senders, Droppers
  <2>3. Quiet'
    BY <1>0, <1>1 DEF Quiet, Res!Live
  <2> QED
    BY <2>1, <2>2, <2>3
<1>6. Hands'
  <2> SUFFICES ASSUME NEW c \in Clients PROVE HandOK(c)' /\ Offered(c)'
    BY DEF Hands
  <2>1. HandOK(c) /\ Offered(c)
    BY <1>0 DEF Hands
  <2>2. HandOK(c)'
    BY <1>1, <2>1 DEF HandOK
  <2>3. client[c] \in {"prepared", "moving"} => hand[c].v \in Payloads
    BY <2>1 DEF HandOK, Res!SendPc
  <2>4. Offered(c)'
    BY <1>1, <1>2, <2>1, <2>3 DEF Offered
  <2> QED
    BY <2>2, <2>4
<1>7. Nodes'
  <2> SUFFICES ASSUME NEW w \in Payloads PROVE NodeOK(w)'
    BY DEF Nodes
  <2>1. NodeOK(w) /\ Stays(w)
    BY <1>0, <1>1, <1>2 DEF Nodes, Stays, InHands
  <2> QED
    BY <2>1, Stayed
<1> QED
  BY <1>3, <1>4, <1>5, <1>6, <1>7 DEF LeaseInv

-----------------------------------------------------------------------------
(* send_prepare, send_commit and send_cancel *)

\* send_prepare reserves a place and names a payload nobody else offers.
LEMMA Prepares ==
    ASSUME LeaseConstantsOK, LeaseInv, policy' = policy, NEW c \in Clients, NEW t \in Transports,
           NEW v \in Payloads, Res!SendPrepare(c, t, v)
    PROVE  LeaseInv'
<1>0. LeaseTyped /\ Hands /\ Counters /\ Nodes /\ Retained
  BY DEF LeaseInv
<1> DEFINE h == [t |-> t, v |-> v]
<1>1. /\ client[c] = "idle" /\ place[v] = "source" /\ \A d \in Clients : hand[d].v # v
      /\ Len(transport[t].queue) + transport[t].reservations < Capacity
      /\ Res!acquire
      /\ transport' = [transport EXCEPT ![t].reservations = @ + 1]
      /\ client' = [client EXCEPT ![c] = "prepared"] /\ hand' = [hand EXCEPT ![c] = h]
      /\ UNCHANGED <<transports, operation, detached, place, owner>>
  BY DEF Res!SendPrepare, Res!Room, Res!Set, Res!acquire
<1>2. /\ h \in [t : Transports \cup {None}, v : Payloads \cup {None}] /\ h.t = t /\ h.v = v
      /\ "prepared" \in Res!Pinning /\ "prepared" \in Res!SendPc /\ "idle" \notin Res!SendPc
  BY DEF Res!Pinning, Res!SendPc
<1> HIDE DEF h
<1>3. /\ transport' \in [Transports -> Fields]
      /\ \A u \in Transports \ {t} : transport'[u] = transport[u]
      /\ transport'[t].state = transport[t].state /\ transport'[t].typed = transport[t].typed
      /\ transport'[t].closed = transport[t].closed
      /\ transport'[t].quiesced = transport[t].quiesced
      /\ transport'[t].queue = transport[t].queue
      /\ transport'[t].reservations = transport[t].reservations + 1
      /\ transport'[t].callbacks = transport[t].callbacks
      /\ transport[t].queue \in Seq(Payloads) /\ transport[t].reservations \in Nat
  <2>1. transport \in [Transports -> Fields] /\ transport[t] \in Fields
    BY <1>0 DEF LeaseTyped
  <2>2. transport[t].queue \in Seq(Payloads) /\ transport[t].reservations \in Nat
    BY <2>1 DEF Fields
  <2>3. transport[t].reservations + 1 \in Nat
    BY <2>2
  <2>4. transport' = [transport EXCEPT ![t].reservations = transport[t].reservations + 1]
    BY <1>1
  <2> QED
    BY <2>1, <2>2, <2>3, <2>4 DEF Fields
<1>4. /\ ActiveCounted' /\ Pinned' /\ active' \in Nat
      /\ lease' = "leased" /\ lease \in {"available", "leased"}
      /\ client' \in [Clients -> {"idle", "dropping"} \cup Res!Pinning]
      /\ \A u \in Transports : ~transport[u].closed /\ ~transport[u].quiesced
      /\ \A d \in Clients : client[d] # "dropping" /\ client'[d] # "dropping"
  BY <1>1, <1>2, ClientAcquires
<1>5. LeaseTyped'
  <2>1. hand' \in [Clients -> [t : Transports \cup {None}, v : Payloads \cup {None}]]
    BY <1>0, <1>1, <1>2 DEF LeaseTyped
  <2> QED
    BY <1>0, <1>1, <1>3, <1>4, <2>1 DEF LeaseTyped
<1>6. /\ client'[c] = "prepared" /\ hand'[c] = h
      /\ \A d \in Clients \ {c} : client'[d] = client[d] /\ hand'[d] = hand[d]
  BY <1>0, <1>1, ClientMoves
<1>7. Hands'
  <2>1. HandOK(c)
    BY <1>0 DEF Hands
  <2>2. HandOK(c)'
    BY <1>1, <1>2, <1>6, <2>1 DEF HandOK
  <2>3. Offered(c)'
    BY <1>1, <1>2, <1>6 DEF Offered
  <2>4. \A d \in Clients \ {c} : client[d] \in {"prepared", "moving"} =>
          place'[hand[d].v] = "source" /\ hand'[c].v # hand[d].v
    BY <1>0, <1>1, <1>2, <1>6 DEF Hands, Offered
  <2> QED
    BY <1>0, <1>1, <1>6, <2>2, <2>3, <2>4, HandsKept
<1>8. Counters'
  <2>1. /\ Cardinality(Senders(t)') = Cardinality(Senders(t)) + 1
        /\ \A u \in Transports \ {t} : Cardinality(Senders(u)') = Cardinality(Senders(u))
        /\ \A u \in Transports : Cardinality(Droppers(u)') = Cardinality(Droppers(u))
    <3>1. Cardinality(Senders(t)') = Cardinality(Senders(t)) + 1
      <4>1. client' = [client EXCEPT ![c] = "prepared"] /\ hand' = [hand EXCEPT ![c] = h]
        BY <1>1
      <4>2. ~(client[c] \in Res!SendPc /\ hand[c].t = t)
        BY <1>1, <1>2
      <4>3. \A u : ~(client[c] \in Res!SendPc /\ hand[c].t = u) /\ "prepared" \in Res!SendPc /\ h.t = u
                     => Cardinality(Senders(u)') = Cardinality(Senders(u)) + 1
        BY <1>0, <4>1, ClientMoves
      <4> QED
        BY <1>2, <4>2, <4>3
    <3>2. \A u \in Transports \ {t} : Senders(u)' = Senders(u)
      BY <1>1, <1>2, <1>6 DEF Senders
    <3>3. \A u \in Transports : Droppers(u)' = Droppers(u)
      BY <1>1, <1>6 DEF Droppers
    <3> QED
      BY <3>1, <3>2, <3>3
  <2>2. Len(transport[t].queue) \in Nat
    BY <1>3, LenProperties
  <2>3. TransportOK(t)'
    BY <1>0, <1>1, <1>3, <2>1, <2>2 DEF Counters, TransportOK, LeaseConstantsOK
  <2>4. \A u \in Transports \ {t} : TransportOK(u)'
    BY <1>0, <1>3, <2>1 DEF Counters, TransportOK
  <2> QED
    BY <2>3, <2>4 DEF Counters
<1>9. Quiet'
  <2>1. \A u \in Transports : /\ transport'[u].state = transport[u].state
                              /\ transport'[u].closed = transport[u].closed
                              /\ ~transport'[u].quiesced
    BY <1>3, <1>4
  <2> QED
    BY <1>1, <1>4, <2>1, StillOpen
<1>10. Nodes'
  <2> SUFFICES ASSUME NEW w \in Payloads PROVE NodeOK(w)'
    BY DEF Nodes
  <2>1. InHands(w)' = InHands(w)
    BY <1>1, <1>6 DEF InHands
  <2>2. NodeOK(w) /\ Stays(w)
    BY <1>0, <1>1, <1>3, <2>1 DEF Nodes, Stays
  <2> QED
    BY <2>2, Stayed
<1>11. Retained'
  <2>1. \A u \in Transports : /\ transport'[u].state = transport[u].state
                              /\ transport'[u].typed = transport[u].typed
    BY <1>3
  <2> QED
    BY <1>0, <1>1, <2>1, RetainedKept
<1> QED
  BY <1>4, <1>5, <1>7, <1>8, <1>9, <1>10, <1>11 DEF LeaseInv

\* c gives up its reservation in t, whose queue is q then.
Unreserve(c, t, q) ==
    /\ client[c] \in Res!SendPc /\ hand[c].t = t /\ Len(q) <= Len(transport[t].queue) + 1
    /\ transport' = [transport EXCEPT ![t].queue = q, ![t].reservations = @ - 1]
    /\ Res!release
    /\ client' = [client EXCEPT ![c] = "idle"] /\ hand' = [hand EXCEPT ![c] = Res!Empty]
    /\ UNCHANGED <<transports, operation, detached, place, owner>>

\* A client that gives back its reservation, having put its node into the queue or not:
\* send_cancel, send_fail, and the end of send_commit.
LEMMA Unreserves ==
    ASSUME LeaseConstantsOK, LeaseInv, policy' = policy, NEW c \in Clients, NEW t \in Transports,
           NEW q \in Seq(Payloads), Unreserve(c, t, q)
    PROVE  /\ LeaseTyped' /\ ActiveCounted' /\ Pinned' /\ Hands' /\ Counters' /\ Quiet' /\ Retained'
           /\ \A u \in Transports \ {t} : transport'[u] = transport[u]
           /\ transport'[t].queue = q
           /\ client'[c] = "idle" /\ hand'[c] = Res!Empty
           /\ \A d \in Clients \ {c} : client'[d] = client[d] /\ hand'[d] = hand[d]
<1> USE DEF Unreserve
<1>0. LeaseTyped /\ Hands /\ Counters /\ Retained
  BY DEF LeaseInv
<1>1. /\ client[c] \in Res!Pinning /\ client[c] # "dropping" /\ "idle" \notin Res!SendPc
      /\ Res!Empty \in [t : Transports \cup {None}, v : Payloads \cup {None}]
      /\ Res!Empty.t = None /\ Res!Empty.v = None
  BY DEF Res!Pinning, Res!SendPc, Res!Empty
<1>2. /\ client'[c] = "idle" /\ hand'[c] = Res!Empty
      /\ \A d \in Clients \ {c} : client'[d] = client[d] /\ hand'[d] = hand[d]
      /\ Cardinality(Senders(t)) = Cardinality(Senders(t)') + 1
      /\ Cardinality(Senders(t)') \in Nat
      /\ \A u \in Transports \ {t} : Cardinality(Senders(u)') = Cardinality(Senders(u))
      /\ \A u \in Transports : Cardinality(Droppers(u)') = Cardinality(Droppers(u))
  <2>1. /\ client'[c] = "idle" /\ hand'[c] = Res!Empty
        /\ \A d \in Clients \ {c} : client'[d] = client[d] /\ hand'[d] = hand[d]
    BY <1>0 DEF LeaseTyped
  <2>2. Cardinality(Senders(t)) = Cardinality(Senders(t)') + 1 /\ Cardinality(Senders(t)') \in Nat
    BY <1>0, <1>1, ClientMoves
  <2>3. \A u \in Transports \ {t} : Senders(u)' = Senders(u)
    BY <1>1, <2>1 DEF Senders
  <2>4. \A u \in Transports : Droppers(u)' = Droppers(u)
    BY <1>1, <2>1 DEF Droppers
  <2> QED
    BY <2>1, <2>2, <2>3, <2>4
<1>3. /\ transport[t].reservations = Cardinality(Senders(t)') + 1
      /\ transport[t].reservations - 1 \in Nat
  BY <1>0, <1>2 DEF Counters, TransportOK
<1>4. /\ transport' \in [Transports -> Fields]
      /\ \A u \in Transports \ {t} : transport'[u] = transport[u]
      /\ transport'[t].state = transport[t].state /\ transport'[t].typed = transport[t].typed
      /\ transport'[t].closed = transport[t].closed
      /\ transport'[t].quiesced = transport[t].quiesced
      /\ transport'[t].queue = q
      /\ transport'[t].reservations = transport[t].reservations - 1
      /\ transport'[t].callbacks = transport[t].callbacks
      /\ transport[t].queue \in Seq(Payloads)
  <2>1. transport \in [Transports -> Fields] /\ transport[t] \in Fields
    BY <1>0 DEF LeaseTyped
  <2> DEFINE r == [transport[t] EXCEPT !.queue = q, !.reservations = @ - 1]
  <2>2. transport' = [transport EXCEPT ![t] = r]
    BY <2>1, Zenon
  <2>3. /\ r \in Fields /\ r.state = transport[t].state /\ r.typed = transport[t].typed
        /\ r.closed = transport[t].closed /\ r.quiesced = transport[t].quiesced /\ r.queue = q
        /\ r.reservations = transport[t].reservations - 1 /\ r.callbacks = transport[t].callbacks
        /\ transport[t].queue \in Seq(Payloads)
    BY <1>3, <2>1 DEF Fields
  <2> HIDE DEF r
  <2>4. transport'[t] = r /\ \A u \in Transports \ {t} : transport'[u] = transport[u]
    BY <2>1, <2>2
  <2>5. transport' \in [Transports -> Fields]
    BY <2>1, <2>2, <2>3
  <2> QED
    BY <2>3, <2>4, <2>5
<1>5. /\ ActiveCounted' /\ Pinned' /\ active' \in Nat
      /\ lease' \in {"available", "leased", "closing"}
      /\ lease \notin {"available", "leased"} => lease' \notin {"available", "leased"}
      /\ client' \in [Clients -> {"idle", "dropping"} \cup Res!Pinning]
      /\ \A u \in Transports : ~transport[u].quiesced
      /\ \A d \in Clients : client[d] # "dropping" /\ client'[d] # "dropping"
  BY <1>1, ClientReleases
<1>6. LeaseTyped'
  <2>1. hand' \in [Clients -> [t : Transports \cup {None}, v : Payloads \cup {None}]]
    BY <1>0, <1>1 DEF LeaseTyped
  <2> QED
    BY <1>0, <1>4, <1>5, <2>1 DEF LeaseTyped
<1>7. Hands'
  <2>1. HandOK(c)' /\ Offered(c)'
    BY <1>0, <1>1, <1>2 DEF Hands, HandOK, Offered, Res!SendPc, Res!ReceivePc
  <2>2. \A d \in Clients \ {c} : client[d] \in {"prepared", "moving"} =>
          place'[hand[d].v] = "source" /\ hand'[c].v # hand[d].v
    <3> SUFFICES ASSUME NEW d \in Clients \ {c}, client[d] \in {"prepared", "moving"}
                 PROVE  place'[hand[d].v] = "source" /\ hand'[c].v # hand[d].v
      OBVIOUS
    <3>1. HandOK(d) /\ Offered(d)
      BY <1>0 DEF Hands
    <3>2. hand[d].v \in Payloads /\ place[hand[d].v] = "source"
      BY <3>1 DEF HandOK, Offered, Res!SendPc
    <3> QED
      BY <1>1, <1>2, <3>2 DEF LeaseConstantsOK
  <2> QED
    BY <1>0, <1>2, <2>1, <2>2, HandsKept
<1>8. Counters'
  <2>1. Len(transport[t].queue) \in Nat /\ Len(q) \in Nat
    BY <1>4, LenProperties
  <2>2. TransportOK(t)'
    BY <1>0, <1>2, <1>3, <1>4, <2>1 DEF Counters, TransportOK, LeaseConstantsOK
  <2>3. \A u \in Transports \ {t} : TransportOK(u)'
    BY <1>0, <1>2, <1>4 DEF Counters, TransportOK
  <2> QED
    BY <2>2, <2>3 DEF Counters
<1>9. Quiet'
  <2>1. \A u \in Transports : /\ transport'[u].state = transport[u].state
                              /\ transport'[u].closed = transport[u].closed
                              /\ ~transport'[u].quiesced
    BY <1>4, <1>5
  <2> QED
    BY <1>5, <2>1, StillOpen
<1>10. Retained'
  <2>1. \A u \in Transports : /\ transport'[u].state = transport[u].state
                              /\ transport'[u].typed = transport[u].typed
    BY <1>4
  <2> QED
    BY <1>0, <2>1, RetainedKept
<1> QED
  BY <1>2, <1>4, <1>5, <1>6, <1>7, <1>8, <1>9, <1>10

\* send_cancel, send_fail, and send_commit on a transport that has closed.
LEMMA Cancels ==
    ASSUME LeaseConstantsOK, LeaseInv, policy' = policy, NEW c \in Clients, Res!SendCancel(c)
    PROVE  LeaseInv'
<1>0. LeaseTyped /\ Hands /\ Nodes
  BY DEF LeaseInv
<1> DEFINE t == hand[c].t
           q == transport[t].queue
<1>1. /\ client[c] = "prepared"
      /\ transport' = [transport EXCEPT ![t].reservations = @ - 1]
      /\ Res!release /\ client' = [client EXCEPT ![c] = "idle"]
      /\ hand' = [hand EXCEPT ![c] = Res!Empty]
      /\ UNCHANGED <<transports, operation, detached, place, owner>>
  BY DEF Res!SendCancel, Res!Unreserve, Res!Set, Res!release
<1>2. client[c] \in Res!SendPc /\ t \in Transports
  BY <1>0, <1>1 DEF Hands, HandOK, Res!SendPc
<1>3. q \in Seq(Payloads) /\ Len(q) \in Nat
  BY <1>0, <1>2, LenProperties DEF LeaseTyped, Fields
<1>4. transport' = [transport EXCEPT ![t].queue = q, ![t].reservations = @ - 1]
  BY <1>0, <1>1, <1>2 DEF LeaseTyped, Fields
<1>5. PICK u \in Transports : u = t
  BY <1>2
<1>6. PICK s \in Seq(Payloads) : s = q
  BY <1>3
<1>7. /\ LeaseTyped' /\ ActiveCounted' /\ Pinned' /\ Hands' /\ Counters' /\ Quiet' /\ Retained'
      /\ \A w \in Transports \ {u} : transport'[w] = transport[w]
      /\ transport'[u].queue = s
      /\ client'[c] = "idle" /\ hand'[c] = Res!Empty
      /\ \A d \in Clients \ {c} : client'[d] = client[d] /\ hand'[d] = hand[d]
  <2>1. hand[c].t = u /\ transport[u].queue = s
    BY <1>5, <1>6
  <2>2. transport' = [transport EXCEPT ![u].queue = s, ![u].reservations = @ - 1]
    BY <1>4, <1>5, <1>6
  <2>3. Len(s) \in Nat
    BY LenProperties
  <2>4. Len(s) <= Len(s) + 1
    BY <2>3
  <2>5. Len(s) <= Len(transport[u].queue) + 1
    BY <2>1, <2>4, Zenon
  <2> QED
    <3>1. Unreserve(c, u, s)
      BY <1>1, <1>2, <2>1, <2>2, <2>5 DEF Unreserve
    <3> QED
      BY <3>1, Unreserves
<1>8. Nodes'
  <2> SUFFICES ASSUME NEW w \in Payloads PROVE NodeOK(w)'
    BY DEF Nodes
  <2>1. InHands(w)' = InHands(w)
    BY <1>1, <1>7 DEF InHands
  <2>2. \A x \in Transports : transport'[x].queue = transport[x].queue
    BY <1>5, <1>6, <1>7
  <2>3. NodeOK(w) /\ Stays(w)
    BY <1>0, <1>1, <2>1, <2>2 DEF Nodes, Stays
  <2> QED
    BY <2>3, Stayed
<1> QED
  BY <1>7, <1>8 DEF LeaseInv

\* send_commit up to the move callback, which has not yet run.
LEMMA Selects ==
    ASSUME LeaseConstantsOK, LeaseInv, policy' = policy, NEW c \in Clients, Res!SendSelect(c)
    PROVE  LeaseInv'
<1>0. LeaseTyped /\ Hands /\ Nodes /\ Retained
  BY DEF LeaseInv
<1>1. /\ client[c] = "prepared" /\ client' = [client EXCEPT ![c] = "moving"]
      /\ UNCHANGED <<lease, active, transports, operation, transport, hand, detached, place, owner>>
  BY DEF Res!SendSelect
<1>2. /\ client[c] \in Res!Pinning /\ "moving" \in Res!Pinning
      /\ client[c] \in Res!SendPc /\ "moving" \in Res!SendPc
  BY <1>1 DEF Res!Pinning, Res!SendPc
<1>3. /\ ActiveCounted' /\ Pinned' /\ Counters' /\ Quiet'
      /\ client' \in [Clients -> {"idle", "dropping"} \cup Res!Pinning]
  BY <1>1, <1>2, ClientGoesOn
<1>4. LeaseTyped'
  BY <1>0, <1>1, <1>3 DEF LeaseTyped
<1>5. client'[c] = "moving" /\ \A d \in Clients \ {c} : client'[d] = client[d]
  BY <1>0, <1>1 DEF LeaseTyped
<1>6. Hands'
  <2>1. HandOK(c) /\ Offered(c)
    BY <1>0 DEF Hands
  <2>2. HandOK(c)'
    BY <1>1, <1>2, <1>5, <2>1 DEF HandOK
  <2>3. Offered(c)'
    BY <1>1, <1>5, <2>1 DEF Offered
  <2>4. \A d \in Clients \ {c} : client[d] \in {"prepared", "moving"} =>
          place'[hand[d].v] = "source" /\ hand'[c].v # hand[d].v
    BY <1>0, <1>1 DEF Hands, Offered
  <2> QED
    BY <1>0, <1>1, <1>5, <2>2, <2>3, <2>4, HandsKept
<1>7. Nodes'
  <2> SUFFICES ASSUME NEW v \in Payloads PROVE NodeOK(v)'
    BY DEF Nodes
  <2>1. InHands(v)' = InHands(v)
    BY <1>1, <1>5 DEF InHands
  <2>2. NodeOK(v) /\ Stays(v)
    BY <1>0, <1>1, <2>1 DEF Nodes, Stays
  <2> QED
    BY <2>2, Stayed
<1>8. Retained'
  BY <1>0, <1>1, RetainedKept
<1> QED
  BY <1>3, <1>4, <1>6, <1>7, <1>8 DEF LeaseInv

\* The move callback: the payload is the sender's until now, and a node from now on.
LEMMA Moves ==
    ASSUME LeaseConstantsOK, LeaseInv, policy' = policy, NEW c \in Clients, Res!SendMove(c)
    PROVE  LeaseInv'
<1>0. LeaseTyped /\ Hands /\ Nodes /\ Retained
  BY DEF LeaseInv
<1>1. /\ client[c] = "moving" /\ client' = [client EXCEPT ![c] = "moved"]
      /\ place' = [place EXCEPT ![hand[c].v] = "node"]
      /\ UNCHANGED <<lease, active, transports, operation, transport, hand, detached, owner>>
  BY DEF Res!SendMove
<1>2. /\ client[c] \in Res!Pinning /\ "moved" \in Res!Pinning
      /\ client[c] \in Res!SendPc /\ "moved" \in Res!SendPc
  BY <1>1 DEF Res!Pinning, Res!SendPc
<1>3. /\ ActiveCounted' /\ Pinned' /\ Counters' /\ Quiet'
      /\ client' \in [Clients -> {"idle", "dropping"} \cup Res!Pinning]
  BY <1>1, <1>2, ClientGoesOn
<1>4. HandOK(c) /\ Offered(c)
  BY <1>0 DEF Hands
<1>5. PICK v \in Payloads : hand[c].v = v
  BY <1>2, <1>4 DEF HandOK
<1>6. /\ place[v] = "source" /\ \A d \in Clients \ {c} : hand[d].v # v
      /\ place'[v] = "node" /\ \A w \in Payloads \ {v} : place'[w] = place[w]
  BY <1>0, <1>1, <1>4, <1>5 DEF LeaseTyped, Offered
<1>7. client'[c] = "moved" /\ \A d \in Clients \ {c} : client'[d] = client[d]
  BY <1>0, <1>1 DEF LeaseTyped
<1>8. LeaseTyped'
  <2>1. place' \in [Payloads -> Res!Places]
    BY <1>0, <1>1 DEF LeaseTyped, Res!Places
  <2> QED
    BY <1>0, <1>1, <1>3, <2>1 DEF LeaseTyped
<1>9. Hands'
  <2>1. HandOK(c)'
    BY <1>1, <1>2, <1>4, <1>7 DEF HandOK
  <2>2. Offered(c)'
    BY <1>7 DEF Offered
  <2>3. ASSUME NEW d \in Clients \ {c}, client[d] \in {"prepared", "moving"}
        PROVE  place'[hand[d].v] = "source" /\ hand'[c].v # hand[d].v
    <3>1. HandOK(d) /\ Offered(d)
      BY <1>0 DEF Hands
    <3>2. hand[d].v \in Payloads
      BY <2>3, <3>1 DEF HandOK, Res!SendPc
    <3> QED
      BY <1>1, <1>5, <1>6, <2>3, <3>1, <3>2 DEF Offered
  <2> QED
    BY <1>0, <1>1, <1>7, <2>1, <2>2, <2>3, HandsKept
<1>10. Nodes'
  <2>1. NodeOK(v)'
    <3>1. NodeOK(v)
      BY <1>0 DEF Nodes
    <3>2. At(v, {}, {}, {})
      BY <1>6, <3>1 DEF NodeOK
    <3>3. InQueues(v)' = InQueues(v) /\ InLists(v)' = InLists(v)
      BY <1>1 DEF InQueues, InLists
    <3>4. InHands(v)' = {c}
      BY <1>1, <1>5, <1>6, <1>7 DEF InHands
    <3>5. At(v, {}, {c}, {})'
      BY <3>2, <3>3, <3>4 DEF At
    <3> QED
      BY <1>1, <1>6, <3>1, <3>5 DEF NodeOK
  <2>2. ASSUME NEW w \in Payloads \ {v} PROVE NodeOK(w)'
    <3>1. InHands(w)' = InHands(w)
      BY <1>1, <1>5, <1>7 DEF InHands
    <3>2. NodeOK(w) /\ Stays(w)
      BY <1>0, <1>1, <1>6, <3>1 DEF Nodes, Stays
    <3> QED
      BY <3>2, Stayed
  <2> QED
    BY <2>1, <2>2 DEF Nodes
<1>11. Retained'
  <2>1. \A w \in Payloads : place'[w] = "owned" <=> place[w] = "owned"
    BY <1>6
  <2> QED
    BY <1>0, <1>1, <2>1, RetainedKept
<1> QED
  BY <1>3, <1>8, <1>9, <1>10, <1>11 DEF LeaseInv

\* The end of send_commit: the node goes from the sender's hand to the end of the queue.
LEMMA Links ==
    ASSUME LeaseConstantsOK, LeaseInv, policy' = policy, NEW c \in Clients, Res!SendLink(c)
    PROVE  LeaseInv'
<1>0. LeaseTyped /\ Hands /\ Nodes
  BY DEF LeaseInv
<1>1. /\ client[c] = "moved"
      /\ transport' = [transport EXCEPT ![hand[c].t].queue = Append(@, hand[c].v),
                                        ![hand[c].t].reservations = @ - 1]
      /\ Res!release /\ client' = [client EXCEPT ![c] = "idle"]
      /\ hand' = [hand EXCEPT ![c] = Res!Empty]
      /\ UNCHANGED <<transports, operation, detached, place, owner>>
  BY DEF Res!SendLink, Res!Set, Res!release
<1>2. client[c] \in Res!SendPc /\ hand[c].t \in Transports /\ hand[c].v \in Payloads
  BY <1>0, <1>1 DEF Hands, HandOK, Res!SendPc
<1>3. PICK t \in Transports : hand[c].t = t
  BY <1>2
<1>4. PICK v \in Payloads : hand[c].v = v
  BY <1>2
<1>5. transport[t].queue \in Seq(Payloads) /\ Len(transport[t].queue) \in Nat
  BY <1>0, LenProperties DEF LeaseTyped, Fields
<1>6. PICK q \in Seq(Payloads) : /\ q = Append(transport[t].queue, v)
                                 /\ Len(q) = Len(transport[t].queue) + 1
  <2>1. ASSUME NEW s \in Seq(Payloads)
        PROVE  Append(s, v) \in Seq(Payloads) /\ Len(Append(s, v)) = Len(s) + 1
    BY AppendProperties
  <2> QED
    BY <1>5, <2>1
<1>7. transport' = [transport EXCEPT ![t].queue = q, ![t].reservations = @ - 1]
  BY <1>0, <1>1, <1>3, <1>4, <1>6 DEF LeaseTyped
<1>8. /\ LeaseTyped' /\ ActiveCounted' /\ Pinned' /\ Hands' /\ Counters' /\ Quiet' /\ Retained'
      /\ \A u \in Transports \ {t} : transport'[u] = transport[u]
      /\ transport'[t].queue = q
      /\ client'[c] = "idle" /\ hand'[c] = Res!Empty
      /\ \A d \in Clients \ {c} : client'[d] = client[d] /\ hand'[d] = hand[d]
  <2>1. Len(q) <= Len(transport[t].queue) + 1
    BY <1>5, <1>6
  <2> QED
    <3>1. Unreserve(c, t, q)
      BY <1>1, <1>2, <1>3, <1>7, <2>1 DEF Unreserve
    <3> QED
      BY <3>1, Unreserves
<1>9. NodeOK(v)'
  <2>1. NodeOK(v) /\ c \in InHands(v)
    BY <1>0, <1>1, <1>4 DEF Nodes, InHands
  <2>2. place[v] = "node" /\ InQueues(v) = {} /\ InHands(v) = {c} /\ InLists(v) = {}
    BY <2>1, Single DEF At
  <2>3. NotIn(transport[t].queue, v)
    BY <2>2 DEF InQueues
  <2>4. OnceIn(q, v) /\ ~NotIn(q, v)
    BY <1>5, <1>6, <2>3, Appended, NotBoth
  <2>5. InQueues(v)' = {t} /\ InLists(v)' = {}
    <3>1. \A u \in Transports : NotIn(transport[u].queue, v)
      BY <2>2 DEF InQueues
    <3>2. \A u \in Transports : NotIn(transport'[u].queue, v) <=> u # t
      BY <1>8, <2>4, <3>1
    <3>3. InQueues(v)' = {t}
      BY <3>2 DEF InQueues
    <3>4. InLists(v)' = InLists(v)
      BY <1>1 DEF InLists
    <3> QED
      BY <2>2, <3>3, <3>4
  <2>6. InHands(v)' = {}
    BY <1>8, <2>2 DEF InHands
  <2>7. At(v, {t}, {}, {})'
    BY <2>5, <2>6 DEF At
  <2>8. \A u \in Transports : NotIn(transport'[u].queue, v) \/ OnceIn(transport'[u].queue, v)
    BY <1>8, <2>1, <2>4 DEF NodeOK
  <2> QED
    BY <1>1, <2>1, <2>2, <2>7, <2>8 DEF NodeOK
<1>10. ASSUME NEW w \in Payloads \ {v} PROVE NodeOK(w)'
  <2>1. NodeOK(w)
    BY <1>0 DEF Nodes
  <2>2. /\ NotIn(transport[t].queue, w) => NotIn(q, w)
        /\ OnceIn(transport[t].queue, w) => OnceIn(q, w)
    BY <1>5, <1>6, Appended
  <2>3. InHands(w)' = InHands(w)
    <3>1. hand[c].v # w /\ client'[c] \notin {"moved", "acquired"}
      BY <1>4, <1>8
    <3>2. \A d \in Clients : (hand'[d].v = w /\ client'[d] \in {"moved", "acquired"})
                               <=> (hand[d].v = w /\ client[d] \in {"moved", "acquired"})
      BY <1>8, <3>1
    <3> QED
      BY <3>2 DEF InHands
  <2>4. Stays(w)
    BY <1>1, <1>8, <2>2, <2>3 DEF Stays
  <2> QED
    BY <2>1, <2>4, Stayed
<1>11. Nodes'
  BY <1>9, <1>10 DEF Nodes
<1> QED
  BY <1>8, <1>11 DEF LeaseInv

-----------------------------------------------------------------------------
(* receive_acquire, receive_commit, receive_cancel and receive_take *)

\* receive_acquire: the node goes from the head of the queue to the receiver's hand.
LEMMA Receives ==
    ASSUME LeaseConstantsOK, LeaseInv, policy' = policy, NEW c \in Clients, NEW t \in Transports,
           Res!ReceiveAcquire(c, t)
    PROVE  LeaseInv'
<1>0. LeaseTyped /\ Hands /\ Counters /\ Nodes /\ Retained
  BY DEF LeaseInv
<1>1. /\ client[c] = "idle" /\ transport[t].queue # <<>> /\ Res!acquire
      /\ transport' = [transport EXCEPT ![t].queue = Tail(@)]
      /\ client' = [client EXCEPT ![c] = "acquired"]
      /\ hand' = [hand EXCEPT ![c] = [t |-> t, v |-> Head(transport[t].queue)]]
      /\ UNCHANGED <<transports, operation, detached, place, owner>>
  BY DEF Res!ReceiveAcquire, Res!Set, Res!acquire
<1>2. transport[t].queue \in Seq(Payloads)
  BY <1>0 DEF LeaseTyped, Fields
<1>3. PICK v \in Payloads : v = Head(transport[t].queue)
  BY <1>1, <1>2, Taken
<1>4. PICK q \in Seq(Payloads) : q = Tail(transport[t].queue) /\ Len(q) = Len(transport[t].queue) - 1
  BY <1>1, <1>2, HeadTailProperties
<1>5. PICK h \in [t : Transports \cup {None}, v : Payloads \cup {None}] :
        h = [t |-> t, v |-> Head(transport[t].queue)] /\ h.t = t /\ h.v = v
  <2> DEFINE g == [t |-> t, v |-> Head(transport[t].queue)]
  <2>1. g \in [t : Transports \cup {None}, v : Payloads \cup {None}] /\ g.t = t /\ g.v = v
    BY <1>3
  <2> QED
    BY <2>1
<1>6. /\ hand' = [hand EXCEPT ![c] = h]
      /\ "acquired" \in Res!Pinning /\ "acquired" \notin Res!SendPc /\ "idle" \notin Res!SendPc
      /\ "acquired" \in Res!ReceivePc
  BY <1>1, <1>5 DEF Res!Pinning, Res!SendPc, Res!ReceivePc
<1>7. /\ transport' \in [Transports -> Fields]
      /\ \A u \in Transports \ {t} : transport'[u] = transport[u]
      /\ transport'[t].state = transport[t].state /\ transport'[t].typed = transport[t].typed
      /\ transport'[t].closed = transport[t].closed
      /\ transport'[t].quiesced = transport[t].quiesced
      /\ transport'[t].queue = q
      /\ transport'[t].reservations = transport[t].reservations
      /\ transport'[t].callbacks = transport[t].callbacks
  <2>1. transport \in [Transports -> Fields] /\ transport[t] \in Fields
    BY <1>0 DEF LeaseTyped
  <2>2. transport' = [transport EXCEPT ![t].queue = q]
    BY <1>1, <1>4
  <2> QED
    BY <2>1, <2>2 DEF Fields
<1>8. /\ ActiveCounted' /\ Pinned' /\ active' \in Nat
      /\ lease' = "leased" /\ lease \in {"available", "leased"}
      /\ client' \in [Clients -> {"idle", "dropping"} \cup Res!Pinning]
      /\ \A u \in Transports : ~transport[u].closed /\ ~transport[u].quiesced
      /\ \A d \in Clients : client[d] # "dropping" /\ client'[d] # "dropping"
  BY <1>1, <1>6, ClientAcquires
<1>9. LeaseTyped'
  <2>1. hand' \in [Clients -> [t : Transports \cup {None}, v : Payloads \cup {None}]]
    BY <1>0, <1>6 DEF LeaseTyped
  <2> QED
    BY <1>0, <1>1, <1>7, <1>8, <2>1 DEF LeaseTyped
<1>10. /\ client'[c] = "acquired" /\ hand'[c] = h
       /\ \A d \in Clients \ {c} : client'[d] = client[d] /\ hand'[d] = hand[d]
  BY <1>0, <1>1, <1>6 DEF LeaseTyped
<1>11. /\ NodeOK(v) /\ place[v] = "node" /\ OnceIn(transport[t].queue, v)
       /\ InQueues(v) = {t} /\ InHands(v) = {} /\ InLists(v) = {}
  <2>1. NodeOK(v) /\ ~NotIn(transport[t].queue, v)
    BY <1>0, <1>1, <1>2, <1>3, Taken DEF Nodes
  <2>2. t \in InQueues(v) /\ OnceIn(transport[t].queue, v)
    BY <2>1 DEF InQueues, NodeOK
  <2> QED
    BY <2>1, <2>2, Single DEF At
<1>12. Hands'
  <2>1. HandOK(c)
    BY <1>0 DEF Hands
  <2>2. HandOK(c)'
    BY <1>1, <1>5, <1>6, <1>10, <2>1 DEF HandOK
  <2>3. Offered(c)'
    BY <1>10 DEF Offered
  <2>4. \A d \in Clients \ {c} : client[d] \in {"prepared", "moving"} =>
          place'[hand[d].v] = "source" /\ hand'[c].v # hand[d].v
    BY <1>0, <1>1, <1>5, <1>10, <1>11 DEF Hands, Offered
  <2> QED
    BY <1>0, <1>1, <1>10, <2>2, <2>3, <2>4, HandsKept
<1>13. Counters'
  <2>1. \A u \in Transports : Senders(u)' = Senders(u) /\ Droppers(u)' = Droppers(u)
    BY <1>1, <1>6, <1>10 DEF Senders, Droppers
  <2>2. Len(transport[t].queue) \in Nat /\ transport[t].reservations \in Nat
    BY <1>0, <1>2, LenProperties DEF LeaseTyped, Fields
  <2>3. TransportOK(t)'
    BY <1>0, <1>4, <1>7, <2>1, <2>2 DEF Counters, TransportOK, LeaseConstantsOK
  <2>4. \A u \in Transports \ {t} : TransportOK(u)'
    BY <1>0, <1>7, <2>1 DEF Counters, TransportOK
  <2> QED
    BY <2>3, <2>4 DEF Counters
<1>14. Quiet'
  <2>1. \A u \in Transports : /\ transport'[u].state = transport[u].state
                              /\ transport'[u].closed = transport[u].closed
                              /\ ~transport'[u].quiesced
    BY <1>7, <1>8
  <2> QED
    BY <1>1, <1>8, <2>1, StillOpen
<1>15. NodeOK(v)'
  <2>1. NotIn(q, v)
    BY <1>1, <1>2, <1>3, <1>4, <1>11, Taken
  <2>2. \A u \in Transports : NotIn(transport'[u].queue, v)
    BY <1>7, <1>11, <2>1 DEF InQueues
  <2>3. InQueues(v)' = {} /\ InLists(v)' = {}
    BY <1>1, <1>11, <2>2 DEF InQueues, InLists
  <2>4. InHands(v)' = {c}
    BY <1>5, <1>10, <1>11 DEF InHands
  <2>5. At(v, {}, {c}, {})'
    BY <2>3, <2>4 DEF At
  <2> QED
    BY <1>1, <1>11, <2>2, <2>5 DEF NodeOK
<1>16. ASSUME NEW w \in Payloads \ {v} PROVE NodeOK(w)'
  <2>1. NodeOK(w)
    BY <1>0 DEF Nodes
  <2>2. /\ NotIn(transport[t].queue, w) => NotIn(q, w)
        /\ OnceIn(transport[t].queue, w) => OnceIn(q, w)
    BY <1>1, <1>2, <1>3, <1>4, Taken
  <2>3. InHands(w)' = InHands(w)
    BY <1>1, <1>5, <1>10 DEF InHands
  <2>4. Stays(w)
    BY <1>1, <1>7, <2>2, <2>3 DEF Stays
  <2> QED
    BY <2>1, <2>4, Stayed
<1>17. Nodes'
  BY <1>15, <1>16 DEF Nodes
<1>18. Retained'
  <2>1. \A u \in Transports : /\ transport'[u].state = transport[u].state
                              /\ transport'[u].typed = transport[u].typed
    BY <1>7
  <2> QED
    BY <1>0, <1>1, <2>1, RetainedKept
<1> QED
  BY <1>8, <1>9, <1>12, <1>13, <1>14, <1>17, <1>18 DEF LeaseInv

\* The receiver's node leaves its hand and the transport, for p.
Leave(c, v, p) ==
    /\ client[c] = "acquired" /\ hand[c].v = v
    /\ p # "node" /\ place' = [place EXCEPT ![v] = p]
    /\ client'[c] \notin {"moved", "acquired"}
    /\ \A d \in Clients \ {c} : client'[d] = client[d] /\ hand'[d] = hand[d]
    /\ UNCHANGED <<transport, detached>>

\* Then it is nowhere, and the other nodes are where they were.
LEMMA Leaves ==
    ASSUME LeaseInv, NEW c \in Clients, NEW v \in Payloads, NEW p, Leave(c, v, p)
    PROVE  Nodes' /\ place[v] = "node"
<1> USE DEF Leave
<1>0. LeaseTyped /\ Nodes
  BY DEF LeaseInv
<1>1. NodeOK(v) /\ c \in InHands(v)
  BY <1>0 DEF Nodes, InHands
<1>2. place[v] = "node" /\ InQueues(v) = {} /\ InHands(v) = {c} /\ InLists(v) = {}
  BY <1>1, Single DEF At
<1>3. place'[v] = p /\ \A w \in Payloads \ {v} : place'[w] = place[w]
  BY <1>0 DEF LeaseTyped
<1>4. InQueues(v)' = {} /\ InLists(v)' = {}
  BY <1>2 DEF InQueues, InLists
<1>5. InHands(v)' = {}
  BY <1>2 DEF InHands
<1>6. NodeOK(v)'
  <2>1. At(v, {}, {}, {})'
    BY <1>4, <1>5 DEF At
  <2> QED
    BY <1>1, <1>3, <2>1 DEF NodeOK
<1>7. ASSUME NEW w \in Payloads \ {v} PROVE NodeOK(w)'
  <2>1. InHands(w)' = InHands(w)
    BY DEF InHands
  <2>2. NodeOK(w) /\ Stays(w)
    BY <1>0, <1>3, <2>1 DEF Nodes, Stays
  <2> QED
    BY <2>2, Stayed
<1> QED
  BY <1>2, <1>6, <1>7 DEF Nodes

\* A receiver gives its token back: the end of receive_commit, receive_cancel and
\* receive_take.
LEMMA Finishes ==
    ASSUME LeaseConstantsOK, LeaseInv, policy' = policy, NEW c \in Clients,
           client[c] \in Res!ReceivePc, Res!release, client' = [client EXCEPT ![c] = "idle"],
           hand' = [hand EXCEPT ![c] = Res!Empty],
           UNCHANGED <<transports, operation, transport, detached, owner>>,
           place' \in [Payloads -> Res!Places],
           \A v \in Payloads : place'[v] = "owned" <=> place[v] = "owned",
           \A v \in Payloads : place[v] = "source" => place'[v] = "source"
    PROVE  /\ LeaseTyped' /\ ActiveCounted' /\ Pinned' /\ Hands' /\ Counters' /\ Quiet' /\ Retained'
           /\ client'[c] = "idle" /\ hand'[c] = Res!Empty
           /\ \A d \in Clients \ {c} : client'[d] = client[d] /\ hand'[d] = hand[d]
<1>0. LeaseTyped /\ Hands /\ Counters /\ Retained
  BY DEF LeaseInv
<1>1. /\ client[c] \in Res!Pinning /\ client[c] # "dropping" /\ client[c] \notin Res!SendPc
      /\ "idle" \notin Res!SendPc
      /\ Res!Empty \in [t : Transports \cup {None}, v : Payloads \cup {None}]
      /\ Res!Empty.t = None /\ Res!Empty.v = None
  BY DEF Res!Pinning, Res!SendPc, Res!ReceivePc, Res!Empty
<1>2. /\ client'[c] = "idle" /\ hand'[c] = Res!Empty
      /\ \A d \in Clients \ {c} : client'[d] = client[d] /\ hand'[d] = hand[d]
  BY <1>0 DEF LeaseTyped
<1>3. /\ ActiveCounted' /\ Pinned' /\ active' \in Nat
      /\ lease' \in {"available", "leased", "closing"}
      /\ lease \notin {"available", "leased"} => lease' \notin {"available", "leased"}
      /\ client' \in [Clients -> {"idle", "dropping"} \cup Res!Pinning]
      /\ \A u \in Transports : ~transport[u].quiesced
      /\ \A d \in Clients : client[d] # "dropping" /\ client'[d] # "dropping"
  BY <1>1, ClientReleases
<1>4. LeaseTyped'
  <2>1. hand' \in [Clients -> [t : Transports \cup {None}, v : Payloads \cup {None}]]
    BY <1>0, <1>1 DEF LeaseTyped
  <2> QED
    BY <1>0, <1>3, <2>1 DEF LeaseTyped
<1>5. Hands'
  <2>1. HandOK(c)' /\ Offered(c)'
    BY <1>0, <1>1, <1>2 DEF Hands, HandOK, Offered, Res!SendPc, Res!ReceivePc
  <2>2. ASSUME NEW d \in Clients \ {c}, client[d] \in {"prepared", "moving"}
        PROVE  place'[hand[d].v] = "source" /\ hand'[c].v # hand[d].v
    <3>1. HandOK(d) /\ Offered(d)
      BY <1>0 DEF Hands
    <3>2. hand[d].v \in Payloads /\ place[hand[d].v] = "source"
      BY <2>2, <3>1 DEF HandOK, Offered, Res!SendPc
    <3> QED
      BY <1>1, <1>2, <3>2 DEF LeaseConstantsOK
  <2> QED
    BY <1>0, <1>2, <2>1, <2>2, HandsKept
<1>6. Counters'
  <2>1. \A u \in Transports : Senders(u)' = Senders(u) /\ Droppers(u)' = Droppers(u)
    BY <1>1, <1>2 DEF Senders, Droppers
  <2> QED
    BY <1>0, <2>1 DEF Counters, TransportOK
<1>7. Quiet'
  BY <1>3, StillOpen
<1>8. Retained'
  BY <1>0, RetainedKept
<1> QED
  BY <1>2, <1>3, <1>4, <1>5, <1>6, <1>7, <1>8

\* receive_commit copies the payload out; receive_cancel, receive_fail and receive_take end
\* by giving the token back.
LEMMA Commits ==
    ASSUME LeaseConstantsOK, LeaseInv, policy' = policy, NEW c \in Clients,
           Res!ReceiveCommit(c) \/ Res!ReceiveFinish(c)
    PROVE  LeaseInv'
<1>0. LeaseTyped /\ Hands /\ Nodes
  BY DEF LeaseInv
<1>1. CASE Res!ReceiveCommit(c)
  <2>1. /\ client[c] = "acquired" /\ place' = [place EXCEPT ![hand[c].v] = "delivered"]
        /\ Res!release /\ client' = [client EXCEPT ![c] = "idle"]
        /\ hand' = [hand EXCEPT ![c] = Res!Empty]
        /\ UNCHANGED <<transports, operation, transport, detached, owner>>
    BY <1>1 DEF Res!ReceiveCommit, Res!Set, Res!release
  <2>2. client[c] \in Res!ReceivePc
    BY <2>1 DEF Res!ReceivePc
  <2>3. PICK v \in Payloads : hand[c].v = v
    BY <1>0, <2>2 DEF Hands, HandOK
  <2>4. /\ client'[c] = "idle"
        /\ \A d \in Clients \ {c} : client'[d] = client[d] /\ hand'[d] = hand[d]
    BY <1>0, <2>1 DEF LeaseTyped
  <2>5. Nodes' /\ place[v] = "node"
    <3>1. place' = [place EXCEPT ![v] = "delivered"] /\ "delivered" # "node"
      BY <2>1, <2>3
    <3>2. client'[c] \notin {"moved", "acquired"} /\ transport' = transport /\ detached' = detached
      BY <2>1, <2>4
    <3>3. Leave(c, v, "delivered")
      BY <2>1, <2>3, <2>4, <3>1, <3>2 DEF Leave
    <3> QED
      BY <3>3, Leaves
  <2>6. /\ place' \in [Payloads -> Res!Places]
        /\ \A w \in Payloads : place'[w] = "owned" <=> place[w] = "owned"
        /\ \A w \in Payloads : place[w] = "source" => place'[w] = "source"
    BY <1>0, <2>1, <2>3, <2>5 DEF LeaseTyped, Res!Places
  <2>7. LeaseTyped' /\ ActiveCounted' /\ Pinned' /\ Hands' /\ Counters' /\ Quiet' /\ Retained'
    BY <2>1, <2>2, <2>6, Finishes
  <2> QED
    BY <2>5, <2>7 DEF LeaseInv
<1>2. CASE Res!ReceiveFinish(c)
  <2>1. /\ client[c] = "consumed" /\ place' = place
        /\ Res!release /\ client' = [client EXCEPT ![c] = "idle"]
        /\ hand' = [hand EXCEPT ![c] = Res!Empty]
        /\ UNCHANGED <<transports, operation, transport, detached, owner>>
    BY <1>2 DEF Res!ReceiveFinish, Res!Set, Res!release
  <2>2. client[c] \in Res!ReceivePc
    BY <2>1 DEF Res!ReceivePc
  <2>3. place' \in [Payloads -> Res!Places]
    BY <1>0, <2>1 DEF LeaseTyped
  <2>4. /\ LeaseTyped' /\ ActiveCounted' /\ Pinned' /\ Hands' /\ Counters' /\ Quiet' /\ Retained'
        /\ client'[c] = "idle" /\ hand'[c] = Res!Empty
        /\ \A d \in Clients \ {c} : client'[d] = client[d] /\ hand'[d] = hand[d]
    BY <2>1, <2>2, <2>3, Finishes
  <2>5. Nodes'
    <3> SUFFICES ASSUME NEW w \in Payloads PROVE NodeOK(w)'
      BY DEF Nodes
    <3>1. InHands(w)' = InHands(w)
      BY <2>1, <2>4 DEF InHands
    <3>2. NodeOK(w) /\ Stays(w)
      BY <1>0, <2>1, <3>1 DEF Nodes, Stays
    <3> QED
      BY <3>2, Stayed
  <2> QED
    BY <2>4, <2>5 DEF LeaseInv
<1> QED
  BY <1>1, <1>2

\* The drop of receive_cancel and receive_fail, and receive_take, which keeps the owner of
\* the callbacks for the payload it hands out.
LEMMA Consumes ==
    ASSUME LeaseConstantsOK, LeaseInv, policy' = policy, NEW c \in Clients,
           Res!ReceiveDrop(c) \/ Res!ReceiveTake(c)
    PROVE  LeaseInv'
<1>0. LeaseTyped /\ Hands /\ Nodes /\ Retained
  BY DEF LeaseInv
<1>1. PICK p \in {"dropped", "owned"} :
        /\ client[c] = "acquired" /\ place' = [place EXCEPT ![hand[c].v] = p]
        /\ client' = [client EXCEPT ![c] = "consumed"]
        /\ owner' = IF p = "owned" THEN owner + 1 ELSE owner
        /\ UNCHANGED <<lease, active, transports, operation, transport, hand, detached>>
  <2>1. CASE Res!ReceiveDrop(c)
    BY <2>1 DEF Res!ReceiveDrop
  <2>2. CASE Res!ReceiveTake(c)
    BY <2>2 DEF Res!ReceiveTake
  <2> QED
    BY <2>1, <2>2
<1>2. /\ client[c] \in Res!ReceivePc /\ client[c] \in Res!Pinning /\ "consumed" \in Res!Pinning
      /\ client[c] \notin Res!SendPc /\ "consumed" \notin Res!SendPc
      /\ "consumed" \in Res!ReceivePc
  BY <1>1 DEF Res!ReceivePc, Res!Pinning, Res!SendPc
<1>3. HandOK(c)
  BY <1>0 DEF Hands
<1>4. PICK v \in Payloads : hand[c].v = v
  BY <1>2, <1>3 DEF HandOK
<1>5. /\ ActiveCounted' /\ Pinned' /\ Counters' /\ Quiet'
      /\ client' \in [Clients -> {"idle", "dropping"} \cup Res!Pinning]
  BY <1>1, <1>2, ClientGoesOn
<1>6. /\ client'[c] = "consumed"
      /\ \A d \in Clients \ {c} : client'[d] = client[d] /\ hand'[d] = hand[d]
  BY <1>0, <1>1 DEF LeaseTyped
<1>7. place' = [place EXCEPT ![v] = p] /\ p # "node"
  BY <1>1, <1>4
<1>8. Nodes' /\ place[v] = "node"
  <2>1. client'[c] \notin {"moved", "acquired"} /\ transport' = transport /\ detached' = detached
    BY <1>1, <1>6
  <2>2. Leave(c, v, p)
    BY <1>1, <1>4, <1>6, <1>7, <2>1 DEF Leave
  <2> QED
    BY <2>2, Leaves
<1>9. place'[v] = p /\ \A w \in Payloads \ {v} : place'[w] = place[w]
  BY <1>0, <1>7 DEF LeaseTyped
<1>10. Retained' /\ owner' \in Nat
  <2>1. CASE p = "dropped"
    <3>1. \A w \in Payloads : place'[w] = "owned" <=> place[w] = "owned"
      BY <1>8, <1>9, <2>1
    <3>2. owner' = owner
      BY <1>1, <2>1
    <3>3. Retained'
      BY <1>0, <1>1, <3>1, <3>2, RetainedKept
    <3> QED
      BY <1>0, <3>2, <3>3 DEF LeaseTyped
  <2>2. CASE p = "owned"
    <3>1. /\ Cardinality(Owned) \in Nat /\ Cardinality(TypedLive) \in Nat
          /\ place[v] # "owned" /\ p = "owned" => Cardinality(Owned') = Cardinality(Owned) + 1
          /\ transport' = transport => TypedLive' = TypedLive
      BY <1>0, <1>7, OwnedMoves
    <3>2. Cardinality(Owned') = Cardinality(Owned) + 1 /\ TypedLive' = TypedLive
      BY <1>1, <1>8, <2>2, <3>1
    <3>3. owner' = owner + 1
      BY <1>1, <2>2
    <3> QED
      BY <1>0, <3>1, <3>2, <3>3 DEF Retained
  <2> QED
    BY <2>1, <2>2
<1>11. LeaseTyped'
  <2>1. place' \in [Payloads -> Res!Places]
    BY <1>0, <1>7 DEF LeaseTyped, Res!Places
  <2> QED
    BY <1>0, <1>1, <1>5, <1>10, <2>1 DEF LeaseTyped
<1>12. Hands'
  <2>1. HandOK(c)'
    BY <1>1, <1>2, <1>3, <1>6 DEF HandOK
  <2>2. Offered(c)'
    BY <1>6 DEF Offered
  <2>3. ASSUME NEW d \in Clients \ {c}, client[d] \in {"prepared", "moving"}
        PROVE  place'[hand[d].v] = "source" /\ hand'[c].v # hand[d].v
    <3>1. HandOK(d) /\ Offered(d)
      BY <1>0 DEF Hands
    <3>2. hand[d].v \in Payloads /\ place[hand[d].v] = "source"
      BY <2>3, <3>1 DEF HandOK, Offered, Res!SendPc
    <3> QED
      BY <1>1, <1>4, <1>8, <1>9, <3>2
  <2> QED
    BY <1>0, <1>1, <1>6, <2>1, <2>2, <2>3, HandsKept
<1> QED
  BY <1>5, <1>8, <1>10, <1>11, <1>12 DEF LeaseInv

-----------------------------------------------------------------------------
(* close *)

\* A call of close that finds a token or another close at work: it only closes.
LEMMA CloseRefused ==
    ASSUME LeaseConstantsOK, LeaseInv, policy' = policy, NEW t \in Transports,
           lease' = IF transport[t].closed THEN lease ELSE Res!BeginClosed,
           transport' = [transport EXCEPT ![t].closed = TRUE],
           UNCHANGED <<active, transports, operation, client, hand, detached, place, owner>>
    PROVE  LeaseInv'
<1>0. LeaseTyped /\ ActiveCounted /\ Pinned /\ Quiet /\ Retained /\ Hands
  BY DEF LeaseInv
<1>1. /\ lease' \in {"closing", "closed", "freed"}
      /\ lease \in {"closed", "freed"} \/ lease' \in {"closed", "freed"} => lease' = lease
  BY <1>0 DEF LeaseTyped, Quiet, Res!BeginClosed
<1>2. /\ transport' \in [Transports -> Fields]
      /\ \A u \in Transports \ {t} : transport'[u] = transport[u]
      /\ transport'[t].state = transport[t].state /\ transport'[t].typed = transport[t].typed
      /\ transport'[t].closed = TRUE
      /\ transport'[t].quiesced = transport[t].quiesced
      /\ transport'[t].queue = transport[t].queue
      /\ transport'[t].reservations = transport[t].reservations
      /\ transport'[t].callbacks = transport[t].callbacks
  <2>1. transport \in [Transports -> Fields] /\ transport[t] \in Fields
    BY <1>0 DEF LeaseTyped
  <2> QED
    BY <2>1 DEF Fields
<1>3. \A u \in Transports : /\ transport'[u].state = transport[u].state
                            /\ transport'[u].typed = transport[u].typed
                            /\ transport'[u].quiesced = transport[u].quiesced
                            /\ transport'[u].queue = transport[u].queue
                            /\ transport'[u].reservations = transport[u].reservations
                            /\ transport'[u].callbacks = transport[u].callbacks
                            /\ transport[u].closed => transport'[u].closed
  BY <1>2
<1>4. Hands' /\ Counters' /\ Nodes' /\ Pinners' = Pinners
  BY <1>3, ClientsKept
<1>5. LeaseTyped'
  BY <1>0, <1>1, <1>2 DEF LeaseTyped
<1>6. ActiveCounted' /\ Pinned'
  BY <1>0, <1>1, <1>4 DEF ActiveCounted, Tokens, Pinned
<1>7. Quiet'
  <2>1. {u \in Transports : Res!Live(u)}' = {u \in Transports : Res!Live(u)}
    BY <1>3 DEF Res!Live
  <2>2. \A c \in Clients : client[c] = "dropping" => hand[c].t \in Transports
    BY <1>0 DEF Hands, HandOK
  <2>3. \A u \in Transports : transport'[u].quiesced =>
          /\ lease' \in {"closed", "freed"} /\ transport'[u].queue = <<>>
          /\ \A c \in Clients : hand'[c].t # u
    BY <1>0, <1>1, <1>3 DEF Quiet
  <2>4. \A c \in Clients : client'[c] = "dropping" =>
          /\ active' = 0 /\ transport'[hand'[c].t].closed /\ transport'[hand'[c].t].queue = <<>>
    BY <1>0, <1>3, <2>2 DEF Quiet
  <2>5. \A u \in Transports : transport'[u].closed => lease' \notin {"available", "leased"}
    BY <1>1
  <2> QED
    BY <1>0, <1>1, <2>1, <2>3, <2>4, <2>5 DEF Quiet
<1>8. Retained'
  BY <1>0, <1>3, RetainedKept
<1> QED
  BY <1>4, <1>5, <1>6, <1>7, <1>8 DEF LeaseInv

\* A call of close that finds nobody detaches the queue: its nodes are the caller's to drop.
LEMMA CloseDetaches ==
    ASSUME LeaseConstantsOK, LeaseInv, policy' = policy, NEW c \in Clients, NEW t \in Transports,
           client[c] = "idle", ~transport[t].quiesced, transport[t].callbacks = 0, active = 0,
           lease' = IF transport[t].closed THEN lease ELSE Res!BeginClosed,
           transport' = [transport EXCEPT ![t].closed = TRUE, ![t].queue = <<>>,
                                          ![t].callbacks = @ + 1],
           detached' = [detached EXCEPT ![c] = transport[t].queue],
           client' = [client EXCEPT ![c] = "dropping"],
           hand' = [hand EXCEPT ![c] = [t |-> t, v |-> None]],
           UNCHANGED <<active, transports, operation, place, owner>>
    PROVE  LeaseInv'
<1>0. LeaseTyped /\ ActiveCounted /\ Pinned /\ Hands /\ Counters /\ Quiet /\ Nodes /\ Retained
  BY DEF LeaseInv
<1>1. /\ lease' \in {"closing", "closed", "freed"}
      /\ lease \in {"closed", "freed"} \/ lease' \in {"closed", "freed"} => lease' = lease
  BY <1>0 DEF LeaseTyped, Quiet, Res!BeginClosed
<1>2. PICK h \in [t : Transports \cup {None}, v : Payloads \cup {None}] :
        h = [t |-> t, v |-> None] /\ h.t = t /\ h.v = None
  <2> DEFINE g == [t |-> t, v |-> None]
  <2>1. g \in [t : Transports \cup {None}, v : Payloads \cup {None}] /\ g.t = t /\ g.v = None
    OBVIOUS
  <2> QED
    BY <2>1
<1>3. hand' = [hand EXCEPT ![c] = h]
  BY <1>2
<1>4. /\ transport[t].queue \in Seq(Payloads) /\ Len(transport[t].queue) \in Nat
      /\ transport[t].reservations \in Nat
  BY <1>0, LenProperties DEF LeaseTyped, Fields
<1>5. /\ transport' \in [Transports -> Fields]
      /\ \A u \in Transports \ {t} : transport'[u] = transport[u]
      /\ transport'[t].state = transport[t].state /\ transport'[t].typed = transport[t].typed
      /\ transport'[t].closed = TRUE
      /\ transport'[t].quiesced = transport[t].quiesced
      /\ transport'[t].queue = <<>>
      /\ transport'[t].reservations = transport[t].reservations
      /\ transport'[t].callbacks = 1
  <2>1. transport \in [Transports -> Fields] /\ transport[t] \in Fields
    BY <1>0 DEF LeaseTyped
  <2> DEFINE r == [transport[t] EXCEPT !.closed = TRUE, !.queue = <<>>, !.callbacks = @ + 1]
  <2>2. transport' = [transport EXCEPT ![t] = r]
    BY <2>1, Zenon
  <2>3. <<>> \in Seq(Payloads)
    OBVIOUS
  <2>4. /\ r \in Fields /\ r.state = transport[t].state /\ r.typed = transport[t].typed
        /\ r.closed = TRUE /\ r.quiesced = transport[t].quiesced /\ r.queue = <<>>
        /\ r.reservations = transport[t].reservations /\ r.callbacks = 1
    BY <2>1, <2>3 DEF Fields
  <2> HIDE DEF r
  <2>5. transport'[t] = r /\ \A u \in Transports \ {t} : transport'[u] = transport[u]
    BY <2>1, <2>2
  <2>6. transport' \in [Transports -> Fields]
    BY <2>1, <2>2, <2>4
  <2> QED
    BY <2>4, <2>5, <2>6
<1>6. /\ client'[c] = "dropping" /\ hand'[c] = h /\ detached'[c] = transport[t].queue
      /\ \A d \in Clients \ {c} : /\ client'[d] = client[d] /\ hand'[d] = hand[d]
                                  /\ detached'[d] = detached[d]
  BY <1>0, <1>3 DEF LeaseTyped
<1>7. LeaseTyped'
  <2>1. /\ hand' \in [Clients -> [t : Transports \cup {None}, v : Payloads \cup {None}]]
        /\ client' \in [Clients -> {"idle", "dropping"} \cup Res!Pinning]
        /\ detached' \in [Clients -> Seq(Payloads)]
    BY <1>0, <1>3, <1>4 DEF LeaseTyped
  <2> QED
    BY <1>0, <1>1, <1>5, <2>1 DEF LeaseTyped
<1>8. /\ "idle" \notin Res!Pinning /\ "dropping" \notin Res!Pinning
      /\ "idle" \notin Res!SendPc /\ "dropping" \notin Res!SendPc /\ "dropping" \notin Res!ReceivePc
  BY DEF Res!Pinning, Res!SendPc, Res!ReceivePc
<1>9. ActiveCounted' /\ Pinned'
  <2>1. Pinners' = Pinners
    BY <1>6, <1>8 DEF Pinners
  <2> QED
    BY <1>0, <1>1, <2>1 DEF ActiveCounted, Tokens, Pinned
<1>10. HandOK(c) /\ detached[c] = <<>>
  BY <1>0 DEF Hands, HandOK
<1>11. Hands'
  <2>1. Len(detached'[c]) <= Capacity
    BY <1>0, <1>4, <1>6 DEF Counters, TransportOK, LeaseConstantsOK
  <2>2. HandOK(c)' /\ Offered(c)'
    BY <1>2, <1>6, <1>8, <2>1 DEF HandOK, Offered
  <2>3. ASSUME NEW d \in Clients \ {c}, client[d] \in {"prepared", "moving"}
        PROVE  place'[hand[d].v] = "source" /\ hand'[c].v # hand[d].v
    <3>1. HandOK(d) /\ Offered(d)
      BY <1>0 DEF Hands
    <3>2. hand[d].v \in Payloads /\ place[hand[d].v] = "source"
      BY <2>3, <3>1 DEF HandOK, Offered, Res!SendPc
    <3> QED
      BY <1>2, <1>6, <3>2 DEF LeaseConstantsOK
  <2> QED
    BY <1>0, <1>6, <2>2, <2>3, HandsKept
<1>12. Counters'
  <2>1. \A u \in Transports : Senders(u)' = Senders(u)
    BY <1>6, <1>8 DEF Senders
  <2>2. \A u \in Transports \ {t} : Droppers(u)' = Droppers(u)
    BY <1>2, <1>6 DEF Droppers
  <2>3. Cardinality(Droppers(t)') = Cardinality(Droppers(t)) + 1
    <3>1. Droppers(t)' = Droppers(t) \cup {c} /\ c \notin Droppers(t)
      BY <1>2, <1>6 DEF Droppers
    <3>2. IsFiniteSet(Droppers(t))
      BY Amounts
    <3>3. Cardinality(Droppers(t) \cup {c}) = Cardinality(Droppers(t)) + 1
      BY <3>1, <3>2, FS_AddElement
    <3> QED
      BY <3>1, <3>3
  <2>4. Cardinality(Droppers(t)') = 1
    BY <1>0, <2>3 DEF Counters, TransportOK
  <2>5. Len(transport'[t].queue) = 0
    BY <1>5
  <2>6. TransportOK(t)'
    BY <1>0, <1>4, <1>5, <2>1, <2>4, <2>5 DEF Counters, TransportOK, LeaseConstantsOK
  <2>7. \A u \in Transports \ {t} : TransportOK(u)'
    BY <1>0, <1>5, <2>1, <2>2 DEF Counters, TransportOK
  <2> QED
    BY <2>6, <2>7 DEF Counters
<1>13. Quiet'
  <2>1. {u \in Transports : Res!Live(u)}' = {u \in Transports : Res!Live(u)}
    BY <1>5 DEF Res!Live
  <2>2. \A d \in Clients : client[d] = "dropping" => hand[d].t \in Transports
    BY <1>0 DEF Hands, HandOK
  <2>3. \A u \in Transports : transport'[u].quiesced =>
          /\ lease' \in {"closed", "freed"} /\ transport'[u].queue = <<>>
          /\ \A d \in Clients : hand'[d].t # u
    BY <1>0, <1>1, <1>2, <1>5, <1>6 DEF Quiet
  <2>4. \A d \in Clients : client'[d] = "dropping" =>
          /\ active' = 0 /\ transport'[hand'[d].t].closed /\ transport'[hand'[d].t].queue = <<>>
    BY <1>0, <1>2, <1>5, <1>6, <2>2 DEF Quiet
  <2>5. \A u \in Transports : transport'[u].closed => lease' \notin {"available", "leased"}
    BY <1>1
  <2> QED
    BY <1>0, <1>1, <2>1, <2>3, <2>4, <2>5 DEF Quiet
<1>14. Nodes'
  <2> SUFFICES ASSUME NEW v \in Payloads PROVE NodeOK(v)'
    BY DEF Nodes
  <2>1. NodeOK(v) /\ InHands(v)' = InHands(v)
    BY <1>0, <1>6 DEF Nodes, InHands
  <2>2. NotIn(<<>>, v) /\ ~OnceIn(<<>>, v)
    BY NotBoth
  <2>3. CASE NotIn(transport[t].queue, v)
    <3>1. ~OnceIn(transport[t].queue, v)
      BY <2>3, NotBoth
    <3>2. Stays(v)
      BY <1>5, <1>6, <1>10, <2>1, <2>2, <2>3, <3>1 DEF Stays
    <3> QED
      BY <2>1, <3>2, Stayed
  <2>4. CASE ~NotIn(transport[t].queue, v)
    <3>1. t \in InQueues(v) /\ OnceIn(transport[t].queue, v)
      BY <2>1, <2>4 DEF InQueues, NodeOK
    <3>2. place[v] = "node" /\ InQueues(v) = {t} /\ InHands(v) = {} /\ InLists(v) = {}
      BY <2>1, <3>1, Single DEF At
    <3>3. \A u \in Transports : NotIn(transport'[u].queue, v)
      BY <1>5, <2>2, <3>2 DEF InQueues
    <3>4. \A d \in Clients : NotIn(detached'[d], v) <=> d # c
      BY <1>6, <2>4, <3>2 DEF InLists
    <3>5. InQueues(v)' = {} /\ InLists(v)' = {c}
      BY <3>3, <3>4 DEF InQueues, InLists
    <3>6. At(v, {}, {}, {c})'
      BY <2>1, <3>2, <3>5 DEF At
    <3>7. \A d \in Clients : NotIn(detached'[d], v) \/ OnceIn(detached'[d], v)
      BY <1>6, <3>1, <3>4
    <3> QED
      BY <3>2, <3>3, <3>6, <3>7 DEF NodeOK
  <2> QED
    BY <2>3, <2>4
<1>15. Retained'
  <2>1. \A u \in Transports : /\ transport'[u].state = transport[u].state
                              /\ transport'[u].typed = transport[u].typed
    BY <1>5
  <2> QED
    BY <1>0, <2>1, RetainedKept
<1> QED
  BY <1>7, <1>9, <1>11, <1>12, <1>13, <1>14, <1>15 DEF LeaseInv

\* close of a transport, up to its first drop callback.
LEMMA Closing ==
    ASSUME LeaseConstantsOK, LeaseInv, policy' = policy, NEW c \in Clients, NEW t \in Transports,
           Res!Close(c, t)
    PROVE  LeaseInv'
<1>1. /\ client[c] = "idle" /\ ~transport[t].quiesced
      /\ lease' = IF transport[t].closed THEN lease ELSE Res!BeginClosed
      /\ UNCHANGED <<active, transports, operation, place, owner>>
  BY DEF Res!Close, Res!BeginClosed
<1>2. CASE transport[t].callbacks # 0 \/ active # 0
  <2>1. /\ transport' = [transport EXCEPT ![t].closed = TRUE]
        /\ UNCHANGED <<client, hand, detached>>
    BY <1>2 DEF Res!Close
  <2> QED
    BY <1>1, <2>1, CloseRefused
<1>3. CASE transport[t].callbacks = 0 /\ active = 0
  <2>1. /\ transport' = [transport EXCEPT ![t].closed = TRUE, ![t].queue = <<>>,
                                          ![t].callbacks = @ + 1]
        /\ detached' = [detached EXCEPT ![c] = transport[t].queue]
        /\ client' = [client EXCEPT ![c] = "dropping"]
        /\ hand' = [hand EXCEPT ![c] = [t |-> t, v |-> None]]
    BY <1>3 DEF Res!Close, Res!Set
  <2> QED
    BY <1>1, <1>3, <2>1, CloseDetaches
<1> QED
  BY <1>2, <1>3

\* One drop callback of a close: the first node of the list leaves.
LEMMA Drops ==
    ASSUME LeaseConstantsOK, LeaseInv, policy' = policy, NEW c \in Clients, Res!CloseDrop(c)
    PROVE  LeaseInv'
<1>0. LeaseTyped /\ ActiveCounted /\ Pinned /\ Hands /\ Counters /\ Quiet /\ Nodes /\ Retained
  BY DEF LeaseInv
<1>1. /\ client[c] = "dropping" /\ detached[c] # <<>>
      /\ place' = [place EXCEPT ![Head(detached[c])] = "dropped"]
      /\ detached' = [detached EXCEPT ![c] = Tail(@)]
      /\ UNCHANGED <<lease, active, transports, operation, transport, client, hand, owner>>
  BY DEF Res!CloseDrop
<1>2. detached[c] \in Seq(Payloads)
  BY <1>0 DEF LeaseTyped
<1>3. PICK v \in Payloads : v = Head(detached[c])
  BY <1>1, <1>2, Taken
<1>4. PICK q \in Seq(Payloads) : q = Tail(detached[c]) /\ Len(q) = Len(detached[c]) - 1
  BY <1>1, <1>2, HeadTailProperties
<1>5. /\ place'[v] = "dropped" /\ \A w \in Payloads \ {v} : place'[w] = place[w]
      /\ detached'[c] = q /\ \A d \in Clients \ {c} : detached'[d] = detached[d]
  BY <1>0, <1>1, <1>3, <1>4 DEF LeaseTyped
<1>6. /\ NodeOK(v) /\ place[v] = "node" /\ OnceIn(detached[c], v)
      /\ InQueues(v) = {} /\ InHands(v) = {} /\ InLists(v) = {c}
  <2>1. NodeOK(v) /\ ~NotIn(detached[c], v)
    BY <1>0, <1>1, <1>2, <1>3, Taken DEF Nodes
  <2>2. c \in InLists(v) /\ OnceIn(detached[c], v)
    BY <2>1 DEF InLists, NodeOK
  <2> QED
    BY <2>1, <2>2, Single DEF At
<1>7. LeaseTyped'
  <2>1. place' \in [Payloads -> Res!Places] /\ detached' \in [Clients -> Seq(Payloads)]
    BY <1>0, <1>1, <1>3, <1>4 DEF LeaseTyped, Res!Places
  <2> QED
    BY <1>0, <1>1, <2>1 DEF LeaseTyped
<1>8. ActiveCounted' /\ Pinned'
  BY <1>0, <1>1 DEF ActiveCounted, Pinners, Tokens, Pinned
<1>9. Counters'
  BY <1>0, <1>1 DEF Counters, TransportOK, Senders, Droppers
<1>10. Quiet'
  BY <1>0, <1>1 DEF Quiet, Res!Live
<1>11. Hands'
  <2>1. HandOK(c)
    BY <1>0 DEF Hands
  <2>2. Len(detached[c]) \in Nat /\ Len(q) <= Capacity
    BY <1>2, <1>4, <2>1, LenProperties DEF HandOK, LeaseConstantsOK
  <2>3. HandOK(c)'
    BY <1>1, <1>5, <2>1, <2>2 DEF HandOK
  <2>4. Offered(c)'
    BY <1>1 DEF Offered
  <2>5. ASSUME NEW d \in Clients \ {c}, client[d] \in {"prepared", "moving"}
        PROVE  place'[hand[d].v] = "source" /\ hand'[c].v # hand[d].v
    <3>1. HandOK(d) /\ Offered(d)
      BY <1>0 DEF Hands
    <3>2. hand[d].v \in Payloads /\ place[hand[d].v] = "source"
      BY <2>5, <3>1 DEF HandOK, Offered, Res!SendPc
    <3>3. hand[c].v = None
      BY <1>1, <2>1 DEF HandOK
    <3> QED
      BY <1>1, <1>5, <1>6, <3>2, <3>3 DEF LeaseConstantsOK
  <2> QED
    BY <1>0, <1>1, <1>5, <2>3, <2>4, <2>5, HandsKept
<1>12. NodeOK(v)'
  <2>1. NotIn(q, v)
    BY <1>1, <1>2, <1>3, <1>4, <1>6, Taken
  <2>2. \A d \in Clients : NotIn(detached'[d], v)
    BY <1>5, <1>6, <2>1 DEF InLists
  <2>3. InQueues(v)' = {} /\ InHands(v)' = {} /\ InLists(v)' = {}
    BY <1>1, <1>6, <2>2 DEF InQueues, InHands, InLists
  <2>4. At(v, {}, {}, {})'
    BY <2>3 DEF At
  <2> QED
    BY <1>1, <1>5, <1>6, <2>2, <2>4 DEF NodeOK
<1>13. ASSUME NEW w \in Payloads \ {v} PROVE NodeOK(w)'
  <2>1. NodeOK(w)
    BY <1>0 DEF Nodes
  <2>2. /\ NotIn(detached[c], w) => NotIn(q, w)
        /\ OnceIn(detached[c], w) => OnceIn(q, w)
    BY <1>1, <1>2, <1>3, <1>4, Taken
  <2>3. InHands(w)' = InHands(w)
    BY <1>1 DEF InHands
  <2>4. Stays(w)
    BY <1>1, <1>5, <2>2, <2>3 DEF Stays
  <2> QED
    BY <2>1, <2>4, Stayed
<1>14. Nodes'
  BY <1>12, <1>13 DEF Nodes
<1>15. Retained'
  <2>1. \A w \in Payloads : place'[w] = "owned" <=> place[w] = "owned"
    BY <1>5, <1>6
  <2> QED
    BY <1>0, <1>1, <2>1, RetainedKept
<1> QED
  BY <1>7, <1>8, <1>9, <1>10, <1>11, <1>14, <1>15 DEF LeaseInv

\* The end of a close: since it saw no token nobody has touched its transport.
LEMMA Ends ==
    ASSUME LeaseConstantsOK, LeaseInv, policy' = policy, NEW c \in Clients, Res!CloseFinish(c)
    PROVE  LeaseInv'
<1>0. LeaseTyped /\ ActiveCounted /\ Pinned /\ Hands /\ Counters /\ Quiet /\ Nodes /\ Retained
  BY DEF LeaseInv
<1>1. PICK quiet \in BOOLEAN :
        /\ client[c] = "dropping" /\ detached[c] = <<>>
        /\ quiet <=> lease = "closed" \/ (lease = "closing" /\ active = 0)
        /\ lease' = IF quiet THEN "closed" ELSE lease
        /\ transport' = [transport EXCEPT ![hand[c].t].callbacks = @ - 1,
                                          ![hand[c].t].quiesced = quiet]
        /\ client' = [client EXCEPT ![c] = "idle"] /\ hand' = [hand EXCEPT ![c] = Res!Empty]
        /\ UNCHANGED <<active, transports, operation, detached, place, owner>>
  BY DEF Res!CloseFinish, Res!Set
<1>2. PICK t \in Transports : hand[c].t = t
  BY <1>0, <1>1 DEF Hands, HandOK
<1>3. active = 0 /\ transport[t].closed /\ transport[t].queue = <<>>
  BY <1>0, <1>1, <1>2 DEF Quiet
<1>4. /\ lease \notin {"available", "leased"} /\ lease' \in {"closing", "closed", "freed"}
      /\ lease \in {"closed", "freed"} => lease' = lease
      /\ lease' = "freed" => lease = "freed"
      /\ quiet => lease' = "closed"
  BY <1>0, <1>1, <1>3 DEF LeaseTyped, Quiet
<1>5. /\ Res!Empty \in [t : Transports \cup {None}, v : Payloads \cup {None}]
      /\ Res!Empty.t = None /\ Res!Empty.v = None
      /\ "idle" \notin Res!Pinning /\ "dropping" \notin Res!Pinning
      /\ "idle" \notin Res!SendPc /\ "dropping" \notin Res!SendPc /\ "idle" \notin Res!ReceivePc
  BY DEF Res!Empty, Res!Pinning, Res!SendPc, Res!ReceivePc
<1>6. /\ client'[c] = "idle" /\ hand'[c] = Res!Empty
      /\ \A d \in Clients \ {c} : client'[d] = client[d] /\ hand'[d] = hand[d]
  BY <1>0, <1>1 DEF LeaseTyped
<1>7. /\ transport[t].callbacks = 1 /\ Droppers(t) = {c} /\ Droppers(t)' = {}
  <2>1. c \in Droppers(t)
    BY <1>1, <1>2 DEF Droppers
  <2>2. IsFiniteSet(Droppers(t)) /\ Cardinality(Droppers(t)) \in Nat
    BY Amounts
  <2>3. /\ Cardinality(Droppers(t) \ {c}) = Cardinality(Droppers(t)) - 1
        /\ IsFiniteSet(Droppers(t) \ {c})
    BY <2>1, <2>2, FS_RemoveElement
  <2>4. Cardinality(Droppers(t) \ {c}) \in Nat
    BY <2>3, FS_CardinalityType
  <2>5. transport[t].callbacks = Cardinality(Droppers(t)) /\ transport[t].callbacks <= 1
    BY <1>0 DEF Counters, TransportOK
  <2>6. Cardinality(Droppers(t)) = 1 /\ Cardinality(Droppers(t) \ {c}) = 0
    BY <2>2, <2>3, <2>4, <2>5
  <2>7. Droppers(t) \ {c} = {}
    BY <2>3, <2>6, FS_EmptySet
  <2>8. Droppers(t)' = Droppers(t) \ {c}
    BY <1>6 DEF Droppers
  <2> QED
    BY <2>1, <2>5, <2>6, <2>7, <2>8
<1>8. /\ transport' \in [Transports -> Fields]
      /\ \A u \in Transports \ {t} : transport'[u] = transport[u]
      /\ transport'[t].state = transport[t].state /\ transport'[t].typed = transport[t].typed
      /\ transport'[t].closed = transport[t].closed
      /\ transport'[t].quiesced = quiet
      /\ transport'[t].queue = transport[t].queue
      /\ transport'[t].reservations = transport[t].reservations
      /\ transport'[t].callbacks = 0
  <2>1. transport \in [Transports -> Fields] /\ transport[t] \in Fields
    BY <1>0 DEF LeaseTyped
  <2> DEFINE r == [transport[t] EXCEPT !.callbacks = @ - 1, !.quiesced = quiet]
  <2>2. transport' = [transport EXCEPT ![t].callbacks = @ - 1, ![t].quiesced = quiet]
    BY <1>1, <1>2
  <2>3. transport' = [transport EXCEPT ![t] = r]
    BY <2>2, Zenon
  <2>4. transport[t].callbacks - 1 = 0
    BY <1>7
  <2>5. r = [transport[t] EXCEPT !.callbacks = 0, !.quiesced = quiet]
    BY <2>4
  <2>6. /\ r.state = transport[t].state /\ r.typed = transport[t].typed
        /\ r.closed = transport[t].closed /\ r.quiesced = quiet /\ r.queue = transport[t].queue
        /\ r.reservations = transport[t].reservations /\ r.callbacks = 0
    <3> HIDE DEF r
    <3> QED
      BY <2>1, <2>5 DEF Fields
  <2>7. r \in Fields
    <3> HIDE DEF r
    <3> QED
      BY <1>1, <2>1, <2>5 DEF Fields
  <2> HIDE DEF r
  <2> QED
    BY <2>1, <2>3, <2>6, <2>7
<1>9. LeaseTyped'
  <2>1. /\ hand' \in [Clients -> [t : Transports \cup {None}, v : Payloads \cup {None}]]
        /\ client' \in [Clients -> {"idle", "dropping"} \cup Res!Pinning]
    BY <1>0, <1>1, <1>5 DEF LeaseTyped
  <2>2. lease' \in {"available", "leased", "closing", "closed", "freed"}
    BY <1>4
  <2> QED
    BY <1>0, <1>1, <1>8, <2>1, <2>2 DEF LeaseTyped
<1>10. ActiveCounted' /\ Pinned'
  <2>1. Pinners' = Pinners
    BY <1>1, <1>5, <1>6 DEF Pinners
  <2> QED
    BY <1>0, <1>1, <1>4, <2>1 DEF ActiveCounted, Tokens, Pinned
<1>11. Hands'
  <2>1. HandOK(c)
    BY <1>0 DEF Hands
  <2>2. HandOK(c)' /\ Offered(c)'
    BY <1>1, <1>5, <1>6, <2>1 DEF HandOK, Offered
  <2>3. ASSUME NEW d \in Clients \ {c}, client[d] \in {"prepared", "moving"}
        PROVE  place'[hand[d].v] = "source" /\ hand'[c].v # hand[d].v
    <3>1. HandOK(d) /\ Offered(d)
      BY <1>0 DEF Hands
    <3>2. hand[d].v \in Payloads /\ place[hand[d].v] = "source"
      BY <2>3, <3>1 DEF HandOK, Offered, Res!SendPc
    <3> QED
      BY <1>1, <1>5, <1>6, <3>2 DEF LeaseConstantsOK
  <2> QED
    BY <1>0, <1>1, <1>6, <2>2, <2>3, HandsKept
<1>12. Counters'
  <2>1. \A u \in Transports : Senders(u)' = Senders(u)
    BY <1>1, <1>5, <1>6 DEF Senders
  <2>2. \A u \in Transports \ {t} : Droppers(u)' = Droppers(u)
    BY <1>1, <1>2, <1>6 DEF Droppers
  <2>3. Cardinality(Droppers(t)') = 0
    BY <1>7, FS_EmptySet
  <2>4. TransportOK(t)'
    BY <1>0, <1>8, <2>1, <2>3 DEF Counters, TransportOK
  <2>5. \A u \in Transports \ {t} : TransportOK(u)'
    BY <1>0, <1>8, <2>1, <2>2 DEF Counters, TransportOK
  <2> QED
    BY <2>4, <2>5 DEF Counters
<1>13. \A d \in Clients : hand'[d].t # t
  <2> SUFFICES ASSUME NEW d \in Clients \ {c}, hand[d].t = t PROVE FALSE
    BY <1>5, <1>6 DEF LeaseConstantsOK
  <2>1. HandOK(d) /\ client[d] \in {"idle", "dropping"} \cup Res!Pinning
    BY <1>0 DEF Hands, LeaseTyped
  <2>2. client[d] \notin Res!Pinning
    BY <1>0, <1>3, Counting
  <2>3. client[d] # "idle"
    BY <1>5, <2>1 DEF HandOK, LeaseConstantsOK
  <2>4. client[d] # "dropping"
    BY <1>7 DEF Droppers
  <2> QED
    BY <2>1, <2>2, <2>3, <2>4
<1>14. Quiet'
  <2>1. {u \in Transports : Res!Live(u)}' = {u \in Transports : Res!Live(u)}
    BY <1>8 DEF Res!Live
  <2>2. \A d \in Clients : client[d] = "dropping" => hand[d].t \in Transports
    BY <1>0 DEF Hands, HandOK
  <2>3. ASSUME NEW u \in Transports, transport'[u].quiesced
        PROVE  /\ lease' \in {"closed", "freed"} /\ transport'[u].queue = <<>>
               /\ \A d \in Clients : hand'[d].t # u
    <3>1. CASE u = t
      BY <1>3, <1>4, <1>8, <1>13, <2>3, <3>1
    <3>2. CASE u # t
      <4>1. /\ lease \in {"closed", "freed"} /\ transport[u].queue = <<>>
            /\ \A d \in Clients : hand[d].t # u
        BY <1>0, <1>8, <2>3, <3>2 DEF Quiet
      <4> QED
        BY <1>4, <1>5, <1>6, <1>8, <3>2, <4>1 DEF LeaseConstantsOK
    <3> QED
      BY <3>1, <3>2
  <2>4. \A d \in Clients : client'[d] = "dropping" =>
          /\ active' = 0 /\ transport'[hand'[d].t].closed /\ transport'[hand'[d].t].queue = <<>>
    <3> SUFFICES ASSUME NEW d \in Clients, client'[d] = "dropping"
                 PROVE  /\ active' = 0 /\ transport'[hand'[d].t].closed
                        /\ transport'[hand'[d].t].queue = <<>>
      OBVIOUS
    <3>1. d # c /\ client[d] = "dropping" /\ hand'[d] = hand[d]
      BY <1>6
    <3>2. PICK u \in Transports : u = hand[d].t
      BY <2>2, <3>1
    <3>3. active = 0 /\ transport[u].closed /\ transport[u].queue = <<>>
      BY <1>0, <3>1, <3>2 DEF Quiet
    <3>4. transport'[u].closed = transport[u].closed /\ transport'[u].queue = transport[u].queue
      BY <1>8
    <3> QED
      BY <1>1, <3>1, <3>2, <3>3, <3>4
  <2>5. \A u \in Transports : transport'[u].closed => lease' \notin {"available", "leased"}
    BY <1>4
  <2> QED
    BY <1>0, <1>1, <1>3, <1>4, <2>1, <2>3, <2>4, <2>5 DEF Quiet
<1>15. Nodes'
  <2> SUFFICES ASSUME NEW v \in Payloads PROVE NodeOK(v)'
    BY DEF Nodes
  <2>1. InHands(v)' = InHands(v)
    BY <1>1, <1>6 DEF InHands
  <2>2. NodeOK(v) /\ Stays(v)
    BY <1>0, <1>1, <1>8, <2>1 DEF Nodes, Stays
  <2> QED
    BY <2>2, Stayed
<1>16. Retained'
  <2>1. \A u \in Transports : /\ transport'[u].state = transport[u].state
                              /\ transport'[u].typed = transport[u].typed
    BY <1>8
  <2> QED
    BY <1>0, <1>1, <2>1, RetainedKept
<1> QED
  BY <1>9, <1>10, <1>11, <1>12, <1>14, <1>15, <1>16 DEF LeaseInv

-----------------------------------------------------------------------------
(* The invariant and what it says *)

\* No step of the lease breaks the invariant.
LEMMA LeaseInductive ==
    ASSUME LeaseConstantsOK, LeaseInv, [Res!Next]_(Res!vars)
    PROVE  LeaseInv'
<1>1. CASE UNCHANGED Res!vars
  <2>1. UNCHANGED <<policy, lease, active, transports, operation, transport, client, hand,
                    detached, place, owner>>
    BY <1>1 DEF Res!vars
  <2>2. Hands' /\ Counters' /\ Nodes' /\ Retained' /\ Pinners' = Pinners
    BY <2>1, OthersKept
  <2>3. LeaseTyped' /\ ActiveCounted' /\ Pinned' /\ Quiet'
    BY <2>1, <2>2 DEF LeaseInv, LeaseTyped, ActiveCounted, Tokens, Pinned, Quiet, Res!Live
  <2> QED
    BY <2>2, <2>3 DEF LeaseInv
<1>2. CASE Res!Step /\ policy' = policy
  <2>1. CASE Res!BeginClose \/ Res!Quiesce \/ Res!Destroy
    BY <1>2, <2>1, LeaseSteps
  <2>2. CASE Res!Done
    BY <1>1, <2>2 DEF Res!Done
  <2>3. CASE \E o \in Operations : \/ Res!OpBegin(o) \/ Res!OpComplete(o) \/ Res!ProviderEnter(o)
                                   \/ Res!ProviderLeave(o) \/ Res!OpDestroy(o)
    BY <1>2, <2>3, OperationsKeep
  <2>4. CASE \E t \in Transports : \E typed \in BOOLEAN : Res!CreateTransport(t, typed)
    BY <1>2, <2>4, Creates
  <2>5. CASE \E t \in Transports : Res!DestroyTransport(t)
    BY <1>2, <2>5, Destroys
  <2>6. CASE \E t \in Transports, c \in Clients : Res!ReceiveAcquire(c, t)
    BY <1>2, <2>6, Receives
  <2>7. CASE \E t \in Transports, c \in Clients : Res!Close(c, t)
    BY <1>2, <2>7, Closing
  <2>8. CASE \E t \in Transports, c \in Clients, v \in Payloads : Res!SendPrepare(c, t, v)
    BY <1>2, <2>8, Prepares
  <2>9. CASE \E c \in Clients : Res!Acquire(c) \/ Res!Release(c)
    BY <1>2, <2>9, HostTokens
  <2>10. CASE \E c \in Clients : Res!SendCancel(c)
    BY <1>2, <2>10, Cancels
  <2>11. CASE \E c \in Clients : Res!SendSelect(c)
    BY <1>2, <2>11, Selects
  <2>12. CASE \E c \in Clients : Res!SendMove(c)
    BY <1>2, <2>12, Moves
  <2>13. CASE \E c \in Clients : Res!SendLink(c)
    BY <1>2, <2>13, Links
  <2>14. CASE \E c \in Clients : Res!ReceiveCommit(c) \/ Res!ReceiveFinish(c)
    BY <1>2, <2>14, Commits
  <2>15. CASE \E c \in Clients : Res!ReceiveDrop(c) \/ Res!ReceiveTake(c)
    BY <1>2, <2>15, Consumes
  <2>16. CASE \E c \in Clients : Res!CloseDrop(c)
    BY <1>2, <2>16, Drops
  <2>17. CASE \E c \in Clients : Res!CloseFinish(c)
    BY <1>2, <2>17, Ends
  <2>18. CASE \E v \in Payloads : Res!OwnedDestroy(v)
    BY <1>2, <2>18, OwnedDestroys
  <2> QED
    BY <1>2, <2>1, <2>2, <2>3, <2>4, <2>5, <2>6, <2>7, <2>8, <2>9, <2>10, <2>11, <2>12, <2>13,
       <2>14, <2>15, <2>16, <2>17, <2>18 DEF Res!Step
<1> QED
  BY <1>1, <1>2 DEF Res!Next

\* The size of a set is the same in the module and here.
LEMMA SameCardinality == \A S : Res!Cardinality(S) = Cardinality(S)
  BY DEF Res!Cardinality, Cardinality

\* The places of v in a family of sequences of at most Capacity elements.
Positions(X, f, v) == {p \in X \X (1..Capacity) : p[2] <= Len(f[p[1]]) /\ f[p[1]][p[2]] = v}

\* v has no place in sequences that do not have it, and one when one sequence has it once.
LEMMA PositionsCount ==
    ASSUME Capacity \in Nat, NEW X, NEW S, NEW f, NEW v,
           \A x \in X : f[x] \in Seq(S) /\ Len(f[x]) <= Capacity
    PROVE  /\ (\A x \in X : NotIn(f[x], v)) => Cardinality(Positions(X, f, v)) = 0
           /\ \A x \in X : OnceIn(f[x], v) /\ (\A y \in X \ {x} : NotIn(f[y], v))
                => Cardinality(Positions(X, f, v)) = 1
<1>1. \A x \in X : Len(f[x]) \in Nat /\ DOMAIN f[x] = 1..Len(f[x])
  BY LenProperties
<1>2. \A p \in Positions(X, f, v) : /\ p = <<p[1], p[2]>> /\ p[1] \in X /\ p[2] \in DOMAIN f[p[1]]
                                    /\ f[p[1]][p[2]] = v
  BY <1>1 DEF Positions
<1>3. ASSUME \A x \in X : NotIn(f[x], v) PROVE Cardinality(Positions(X, f, v)) = 0
  <2>1. \A p \in Positions(X, f, v) : FALSE
    BY <1>2, <1>3 DEF NotIn
  <2> QED
    BY <2>1, Sizes
<1>4. ASSUME NEW x \in X, OnceIn(f[x], v), \A y \in X \ {x} : NotIn(f[y], v)
      PROVE  Cardinality(Positions(X, f, v)) = 1
  <2>1. PICK i \in DOMAIN f[x] : f[x][i] = v /\ \A j \in DOMAIN f[x] : f[x][j] = v => j = i
    BY <1>4 DEF OnceIn
  <2>2. i \in 1..Capacity /\ i <= Len(f[x])
    BY <1>1, <2>1
  <2>3. <<x, i>> \in Positions(X, f, v)
    BY <2>1, <2>2 DEF Positions
  <2>4. ASSUME NEW p \in Positions(X, f, v) PROVE p = <<x, i>>
    <3>1. p = <<p[1], p[2]>> /\ p[1] \in X /\ p[2] \in DOMAIN f[p[1]] /\ f[p[1]][p[2]] = v
      BY <1>2
    <3>2. p[1] = x
      BY <1>4, <3>1 DEF NotIn
    <3> QED
      BY <2>1, <3>1, <3>2
  <2>5. Positions(X, f, v) = {<<x, i>>}
    BY <2>3, <2>4
  <2> QED
    BY <2>5, Sizes
<1> QED
  BY <1>3, <1>4

\* A node has one place, a payload that is not a node none.
LEMMA OneHolder ==
    ASSUME LeaseConstantsOK, LeaseInv, NEW v \in Payloads
    PROVE  Res!Holding(v) = IF place[v] = "node" THEN 1 ELSE 0
<1> DEFINE q == [t \in Transports |-> transport[t].queue]
           A == Positions(Transports, q, v)
           B == InHands(v)
           C == Positions(Clients, detached, v)
<1>0. LeaseTyped /\ Hands /\ Counters /\ NodeOK(v)
  BY DEF LeaseInv, Nodes
<1>1. \A t \in Transports : q[t] \in Seq(Payloads) /\ Len(q[t]) <= Capacity
  <2> SUFFICES ASSUME NEW t \in Transports PROVE q[t] \in Seq(Payloads) /\ Len(q[t]) <= Capacity
    OBVIOUS
  <2>1. transport[t] \in Fields /\ TransportOK(t)
    BY <1>0 DEF LeaseTyped, Counters
  <2>2. transport[t].queue \in Seq(Payloads) /\ transport[t].reservations \in Nat
    BY <2>1 DEF Fields
  <2>3. Len(transport[t].queue) \in Nat
    BY <2>2, LenProperties
  <2>4. Len(transport[t].queue) <= Capacity
    BY <2>1, <2>2, <2>3 DEF TransportOK, LeaseConstantsOK
  <2> QED
    BY <2>2, <2>4
<1>2. \A c \in Clients : detached[c] \in Seq(Payloads) /\ Len(detached[c]) <= Capacity
  BY <1>0 DEF LeaseTyped, Hands, HandOK
<1>3. /\ {p \in Transports \X (1..Capacity) :
            p[2] <= Len(transport[p[1]].queue) /\ transport[p[1]].queue[p[2]] = v} = A
      /\ {p \in Clients \X (1..Capacity) :
            p[2] <= Len(detached[p[1]]) /\ detached[p[1]][p[2]] = v} = C
  BY DEF Positions
<1>4. Res!Holding(v) = Cardinality(A) + Cardinality(B) + Cardinality(C)
  <2>1. Res!Holding(v) = Res!Cardinality(A) + Res!Cardinality(B) + Res!Cardinality(C)
    BY <1>3, Zenon DEF Res!Holding, InHands
  <2> QED
    BY <2>1, SameCardinality, Zenon
<1>5. /\ InQueues(v) = {} => Cardinality(A) = 0
      /\ \A t : InQueues(v) = {t} => Cardinality(A) = 1
  <2>1. /\ (\A t \in Transports : NotIn(q[t], v)) => Cardinality(A) = 0
        /\ \A t \in Transports : OnceIn(q[t], v) /\ (\A u \in Transports \ {t} : NotIn(q[u], v))
             => Cardinality(A) = 1
    <3> HIDE DEF q
    <3> QED
      BY <1>1, PositionsCount DEF LeaseConstantsOK
  <2>2. \A t \in Transports : q[t] = transport[t].queue
    OBVIOUS
  <2> HIDE DEF A, q
  <2> QED
    BY <1>0, <2>1, <2>2 DEF InQueues, NodeOK
<1>6. /\ InLists(v) = {} => Cardinality(C) = 0
      /\ \A c : InLists(v) = {c} => Cardinality(C) = 1
  <2>1. /\ (\A c \in Clients : NotIn(detached[c], v)) => Cardinality(C) = 0
        /\ \A c \in Clients : OnceIn(detached[c], v) /\ (\A d \in Clients \ {c} : NotIn(detached[d], v))
             => Cardinality(C) = 1
    BY <1>2, PositionsCount DEF LeaseConstantsOK
  <2> HIDE DEF C
  <2> QED
    BY <1>0, <2>1 DEF InLists, NodeOK
<1>7. /\ InHands(v) = {} => Cardinality(B) = 0
      /\ \A c : InHands(v) = {c} => Cardinality(B) = 1
  BY Sizes
<1> HIDE DEF A, B, C
<1>8. CASE place[v] = "node"
  <2>1. \/ \E t \in Transports : At(v, {t}, {}, {})
        \/ \E c \in Clients : At(v, {}, {c}, {})
        \/ \E c \in Clients : At(v, {}, {}, {c})
    BY <1>0, <1>8 DEF NodeOK
  <2>2. CASE \E t \in Transports : At(v, {t}, {}, {})
    <3>1. Cardinality(A) = 1 /\ Cardinality(B) = 0 /\ Cardinality(C) = 0
      BY <1>5, <1>6, <1>7, <2>2 DEF At
    <3> QED
      BY <1>4, <1>8, <3>1
  <2>3. CASE \E c \in Clients : At(v, {}, {c}, {})
    <3>1. Cardinality(A) = 0 /\ Cardinality(B) = 1 /\ Cardinality(C) = 0
      BY <1>5, <1>6, <1>7, <2>3 DEF At
    <3> QED
      BY <1>4, <1>8, <3>1
  <2>4. CASE \E c \in Clients : At(v, {}, {}, {c})
    <3>1. Cardinality(A) = 0 /\ Cardinality(B) = 0 /\ Cardinality(C) = 1
      BY <1>5, <1>6, <1>7, <2>4 DEF At
    <3> QED
      BY <1>4, <1>8, <3>1
  <2> QED
    BY <2>1, <2>2, <2>3, <2>4
<1>9. CASE place[v] # "node"
  <2>1. Cardinality(A) = 0 /\ Cardinality(B) = 0 /\ Cardinality(C) = 0
    BY <1>0, <1>5, <1>6, <1>7, <1>9 DEF NodeOK, At
  <2> QED
    BY <1>4, <1>9, <2>1
<1> QED
  BY <1>8, <1>9

\* What the invariant says of the lease.
LEMMA CountedImplied ==
    ASSUME LeaseConstantsOK, LeaseInv
    PROVE  Res!LeaseCounted
<1>0. LeaseTyped /\ ActiveCounted /\ Pinned /\ Hands /\ Counters /\ Quiet
  BY DEF LeaseInv
<1>1. Res!Tokens = Cardinality(Pinners) + Cardinality(Tokens)
  <2>1. Res!Tokens = Res!Cardinality(Pinners) + Res!Cardinality(Tokens)
    BY DEF Res!Tokens, Pinners, Tokens
  <2> QED
    BY <2>1, SameCardinality, Zenon
<1>2. active = Res!Tokens
  BY <1>0, <1>1 DEF ActiveCounted
<1>3. Res!ActiveExact
  BY <1>0, <1>2 DEF Res!ActiveExact, ActiveCounted
<1>4. Res!OperationPins
  BY <1>0 DEF Res!OperationPins, Pinned, PinnedBy
<1>5. Res!ClosedIsQuiet
  <2>1. lease = "freed" => \A t \in Transports : ~Res!Live(t)
    <3> SUFFICES ASSUME lease = "freed" PROVE {t \in Transports : Res!Live(t)} = {}
      OBVIOUS
    <3>1. Cardinality({t \in Transports : Res!Live(t)}) = 0
      BY <1>0 DEF Quiet
    <3>2. IsFiniteSet({t \in Transports : Res!Live(t)})
      BY FS_Subset DEF LeaseConstantsOK
    <3> QED
      BY <3>1, <3>2, FS_EmptySet
  <2> QED
    BY <1>0, <1>2, <2>1 DEF Res!ClosedIsQuiet, Quiet
<1>6. Res!QuiescedIsEmpty
  <2> SUFFICES ASSUME NEW t \in Transports, transport[t].quiesced
               PROVE  /\ transport[t].queue = <<>> /\ transport[t].reservations = 0
                      /\ \A c \in Clients : hand[c].t # t
    BY DEF Res!QuiescedIsEmpty
  <2>1. transport[t].queue = <<>> /\ \A c \in Clients : hand[c].t # t
    BY <1>0 DEF Quiet
  <2>2. Senders(t) = {}
    BY <2>1 DEF Senders
  <2>3. transport[t].reservations = Cardinality(Senders(t))
    BY <1>0 DEF Counters, TransportOK
  <2> QED
    BY <2>1, <2>2, <2>3, FS_EmptySet
<1>7. active \in 0..(Res!Cardinality(Clients) + Res!Cardinality(Operations))
  <2>1. /\ Cardinality(Pinners) <= Cardinality(Clients)
        /\ Cardinality(Tokens) <= Cardinality(Operations)
        /\ Cardinality(Clients) \in Nat /\ Cardinality(Operations) \in Nat
    BY FS_Subset, FS_CardinalityType DEF Pinners, Tokens, LeaseConstantsOK
  <2>2. Cardinality(Pinners) \in Nat /\ Cardinality(Tokens) \in Nat
    BY Amounts
  <2>3. active \in 0..(Cardinality(Clients) + Cardinality(Operations))
    BY <1>1, <1>2, <2>1, <2>2
  <2> QED
    BY <2>3, SameCardinality, Zenon
<1>8. transports \in 0..Res!Cardinality(Transports)
  <2> DEFINE L == {t \in Transports : Res!Live(t)}
  <2>1. IsFiniteSet(L) /\ Cardinality(L) <= Cardinality(Transports) /\ Cardinality(Transports) \in Nat
    BY FS_Subset, FS_CardinalityType DEF LeaseConstantsOK
  <2>2. transports = Cardinality(L) /\ transports \in Nat
    BY <1>0 DEF Quiet, LeaseTyped
  <2>3. transports \in 0..Cardinality(Transports)
    BY <2>1, <2>2
  <2> QED
    BY <2>3, SameCardinality, Zenon
<1>9. ASSUME NEW t \in Transports
      PROVE  /\ transport[t].state \in {"none", "live", "freed"}
             /\ Len(transport[t].queue) + transport[t].reservations \in 0..Capacity
             /\ transport[t].callbacks \in 0..1
  <2>1. transport[t] \in Fields /\ TransportOK(t)
    BY <1>0 DEF LeaseTyped, Counters
  <2>2. /\ transport[t].state \in {"none", "live", "freed"} /\ transport[t].queue \in Seq(Payloads)
        /\ transport[t].reservations \in Nat /\ transport[t].callbacks \in Nat
    BY <2>1 DEF Fields
  <2>3. Len(transport[t].queue) \in Nat
    BY <2>2, LenProperties
  <2> QED
    BY <2>1, <2>2, <2>3 DEF TransportOK, LeaseConstantsOK
<1>10. operation \in [Operations -> [state : {"none", "armed", "destroyed"} \cup Res!Terminal,
                                     provider : BOOLEAN, token : BOOLEAN]]
  BY <1>0 DEF LeaseTyped, Record, Res!Terminal, Lease!Terminal
<1>11. Res!TypeOK
  BY <1>0, <1>7, <1>8, <1>9, <1>10 DEF Res!TypeOK, LeaseTyped
<1> QED
  BY <1>3, <1>4, <1>5, <1>6, <1>11 DEF Res!LeaseCounted

\* What it says of the payloads.
LEMMA OwnedImplied ==
    ASSUME LeaseConstantsOK, LeaseInv
    PROVE  Res!PayloadsOwned
<1>1. Res!SingleOwner
  BY OneHolder DEF Res!SingleOwner
<1>2. owner = Cardinality(TypedLive) + Cardinality(Owned)
  BY DEF LeaseInv, Retained
<1>3. owner = Res!Cardinality(TypedLive) + Res!Cardinality(Owned)
  BY <1>2, SameCardinality, Zenon
<1>4. Res!OwnerRetained
  BY <1>3 DEF Res!OwnerRetained, TypedLive, Owned
<1> QED
  BY <1>1, <1>4 DEF Res!PayloadsOwned

\* The invariant holds in every state of the lease: its counts, its hands and its nodes.
THEOREM LeaseInvariant == ASSUME LeaseConstantsOK PROVE Res!Spec => []LeaseInv
<1>1. Res!Init => LeaseInv
  BY LeaseInitially
<1>2. LeaseInv /\ [Res!Next]_(Res!vars) => LeaseInv'
  BY LeaseInductive
<1> QED
  BY <1>1, <1>2, PTL DEF Res!Spec

\* active counts the tokens that somebody can still release, an operation pins the resource
\* while it is armed or its provider is inside, a closed lease has no user and a quiesced
\* transport no payload, reservation or capability, for any clients, operations, transports
\* and capacity (acquire, release, complete, provider_leave, quiesce, destroy, close).
THEOREM LeaseHolds == ASSUME LeaseConstantsOK PROVE Res!Spec => []Res!LeaseCounted
<1>1. LeaseInv => Res!LeaseCounted
  BY CountedImplied
<1> QED
  BY <1>1, LeaseInvariant, PTL

\* Every payload in a transport is in one queue, one hand or one detached list, one that
\* left is in none, and the callbacks' owner is retained once for each live typed transport
\* and each payload taken out (send_commit, receive_acquire, receive_take, close, destroy).
THEOREM PayloadsHold == ASSUME LeaseConstantsOK PROVE Res!Spec => []Res!PayloadsOwned
<1>1. LeaseInv => Res!PayloadsOwned
  BY OwnedImplied
<1> QED
  BY <1>1, LeaseInvariant, PTL
=============================================================================
