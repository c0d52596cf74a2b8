------------------------- MODULE TaskLifetimeProofs -------------------------
(***************************************************************************)
(* Proofs about TaskLifetime, for any number of clients, workers and       *)
(* tasks.  Every reference has an owner: a handle, a pending release of    *)
(* some thread, the scope's list, a queue entry, the worker that runs the  *)
(* task, a task that is not over, a client that waits in scope_release.    *)
(* IInv says that each count is the number of its owners, so an object     *)
(* that somebody still has to touch has a reference; that a count of zero  *)
(* means freed, or exactly one thread that is about to dispose; and what   *)
(* the pending operations of a worker and of a client can look like.  Each *)
(* action moves references between owners and keeps the sum.               *)
(***************************************************************************)
EXTENDS TaskLifetime, FiniteSetTheorems, SequenceTheorems, TLAPS

\* v is not in s; how often it is.
NotIn(s, v) == \A i \in DOMAIN s : s[i] # v
Times(s, v) == Cardinality({i \in DOMAIN s : s[i] = v})

\* Two sets related by a one-to-one map have the same size.
LEMMA SameSize ==
    ASSUME NEW S, NEW T, IsFiniteSet(S), NEW f \in [S -> T],
           \A a, b \in S : f[a] = f[b] => a = b,
           \A b \in T : \E a \in S : f[a] = b
    PROVE  IsFiniteSet(T) /\ Cardinality(T) = Cardinality(S)
<1>1. f \in Bijection(S, T)
  BY DEF Bijection, Injection, Surjection, IsInjective
<1>2. ExistsBijection(S, T)
  BY <1>1 DEF ExistsBijection
<1> QED
  BY <1>2, FS_Bijection

\* The positions of a value in a sequence are finitely many.
LEMMA TimesType ==
    ASSUME NEW S, NEW s \in Seq(S), NEW v
    PROVE  /\ IsFiniteSet({i \in DOMAIN s : s[i] = v})
           /\ Times(s, v) \in Nat
           /\ Times(s, v) = 0 <=> NotIn(s, v)
<1> DEFINE P == {i \in DOMAIN s : s[i] = v}
<1>1. DOMAIN s = 1..Len(s) /\ Len(s) \in Nat
  BY LenProperties
<1>2. IsFiniteSet(1..Len(s))
  BY <1>1, FS_Interval
<1>3. P \in SUBSET (1..Len(s))
  BY <1>1
<1>4. IsFiniteSet(P)
  BY <1>2, <1>3, FS_Subset
<1>5. Cardinality(P) \in Nat /\ (Cardinality(P) = 0 <=> P = {})
  BY <1>4, FS_CardinalityType, FS_EmptySet
<1>6. P = {} <=> NotIn(s, v)
  BY DEF NotIn
<1> QED
  BY <1>4, <1>5, <1>6 DEF Times

\* Taking the head off a sequence.
LEMMA TimesTail ==
    ASSUME NEW S, NEW s \in Seq(S), s # <<>>, NEW v
    PROVE  Times(s, v) = Times(Tail(s), v) + (IF Head(s) = v THEN 1 ELSE 0)
<1> DEFINE t == Tail(s)
           A == {i \in DOMAIN s : s[i] = v}
           B == {i \in DOMAIN t : t[i] = v}
           f == [i \in B |-> i + 1]
<1>1. /\ Len(s) \in Nat \ {0} /\ DOMAIN s = 1..Len(s)
      /\ DOMAIN t = 1..(Len(s) - 1)
      /\ \A i \in 1..(Len(s) - 1) : t[i] = s[i + 1]
      /\ s[1] = Head(s) /\ t \in Seq(S)
  <2>1. Len(s) \in Nat \ {0} /\ DOMAIN s = 1..Len(s)
    BY LenProperties, EmptySeq
  <2>2. t \in Seq(S) /\ Len(t) = Len(s) - 1 /\ \A i \in 1..Len(t) : t[i] = s[i + 1]
    BY HeadTailProperties
  <2>3. DOMAIN t = 1..Len(t)
    BY <2>2, LenProperties
  <2> QED
    BY <2>1, <2>2, <2>3, HeadTailProperties
<1>2. IsFiniteSet(A) /\ IsFiniteSet(B)
  BY <1>1, TimesType
<1> HIDE DEF t
<1>3. \A i \in B : i \in Nat /\ i + 1 \in A \ {1}
  BY <1>1
<1>4. f \in [B -> A \ {1}]
  BY <1>3
<1>5. \A a, b \in B : f[a] = f[b] => a = b
  BY <1>3
<1>6. \A b \in A \ {1} : b - 1 \in B /\ f[b - 1] = b
  BY <1>1
<1>11. Times(s, v) = Cardinality(A) /\ Times(Tail(s), v) = Cardinality(B)
  BY DEF Times, t
<1> HIDE DEF A, B, f
<1>7. Cardinality(A \ {1}) = Cardinality(B)
  <2>1. \A b \in A \ {1} : \E a \in B : f[a] = b
    BY <1>6
  <2> QED
    BY <1>2, <1>4, <1>5, <2>1, SameSize
<1>8. Cardinality(A \ {1}) = IF 1 \in A THEN Cardinality(A) - 1 ELSE Cardinality(A)
  BY <1>2, FS_RemoveElement
<1>9. 1 \in A <=> Head(s) = v
  BY <1>1 DEF A
<1>10. Cardinality(A) \in Nat /\ Cardinality(B) \in Nat
  BY <1>2, FS_CardinalityType
<1> QED
  BY <1>7, <1>8, <1>9, <1>10, <1>11

\* The empty sequence, and a sequence with an element put before it.
LEMMA TimesCons ==
    ASSUME NEW S, NEW s \in Seq(S), NEW u \in S, NEW v
    PROVE  /\ Times(<<>>, v) = 0
           /\ <<u>> \o s \in Seq(S) /\ Len(<<u>> \o s) = Len(s) + 1
           /\ Times(<<u>> \o s, v) = Times(s, v) + (IF u = v THEN 1 ELSE 0)
<1> DEFINE c == <<u>> \o s
<1>1. <<u>> \in Seq(S) /\ Len(<<u>>) = 1
  OBVIOUS
<1>2. c \in Seq(S) /\ Len(c) = Len(s) + 1
      /\ \A i \in 1..(Len(s) + 1) : c[i] = IF i <= 1 THEN u ELSE s[i - 1]
  BY <1>1, ConcatProperties
<1>3. Len(s) \in Nat
  BY LenProperties
<1> HIDE DEF c
<1>4. c # <<>>
  BY <1>2, <1>3
<1>5. Tail(c) \in Seq(S) /\ Len(Tail(c)) = Len(s) /\ \A i \in 1..Len(s) : Tail(c)[i] = c[i + 1]
  BY <1>2, <1>3, <1>4, HeadTailProperties
<1>6. \A i \in 1..Len(s) : Tail(c)[i] = s[i]
  BY <1>2, <1>3, <1>5
<1>7. Tail(c) = s
  BY <1>5, <1>6, SeqEqual
<1>8. Head(c) = u
  BY <1>2, <1>3
<1>9. Times(c, v) = Times(s, v) + (IF u = v THEN 1 ELSE 0)
  BY <1>2, <1>4, <1>7, <1>8, TimesTail
<1>10. Times(<<>>, v) = 0
  BY FS_EmptySet DEF Times
<1> QED
  BY <1>2, <1>9, <1>10 DEF c

\* s has the elements of ts, each once.
Lists(s, ts) ==
    /\ s \in [1..Cardinality(ts) -> ts]
    /\ \A t \in ts : \E i \in DOMAIN s : s[i] = t

\* What joining the entries of a set of tasks to the queue does (task_enqueue of each).
LEMMA TimesJoined ==
    ASSUME NEW S, NEW q \in Seq(S), NEW ts \in SUBSET S, IsFiniteSet(ts),
           NEW s, Lists(s, ts), NEW v
    PROVE  /\ q \o s \in Seq(S)
           /\ Times(q \o s, v) = Times(q, v) + (IF v \in ts THEN 1 ELSE 0)
<1> DEFINE n == Cardinality(ts)
           c == q \o s
           P == {i \in DOMAIN q : q[i] = v}
           R == {i \in DOMAIN c : c[i] = v}
<1>0. s \in [1..n -> ts] /\ \A t \in ts : \E i \in DOMAIN s : s[i] = t
  BY DEF Lists
<1>1. n \in Nat
  BY FS_CardinalityType
<1>2. s \in Seq(S) /\ Len(s) = n /\ DOMAIN s = 1..n
  BY <1>0, <1>1
<1>3. \A i, j \in 1..n : s[i] = s[j] => i = j
  <2>1. IsFiniteSet(1..n) /\ Cardinality(1..n) = n
    BY <1>1, FS_Interval
  <2>2. s \in Surjection(1..n, ts)
    BY <1>0, <1>2 DEF Surjection
  <2>3. s \in Injection(1..n, ts)
    BY <2>1, <2>2, FS_SurjSameCardinalityImpliesInj
  <2> QED
    BY <1>2, <2>3 DEF Injection, IsInjective
<1>4. /\ c \in Seq(S) /\ Len(c) = Len(q) + n /\ Len(q) \in Nat
      /\ DOMAIN q = 1..Len(q) /\ DOMAIN c = 1..(Len(q) + n)
      /\ \A i \in 1..(Len(q) + n) : c[i] = IF i <= Len(q) THEN q[i] ELSE s[i - Len(q)]
  <2>1. c \in Seq(S) /\ Len(c) = Len(q) + n
        /\ \A i \in 1..(Len(q) + n) : c[i] = IF i <= Len(q) THEN q[i] ELSE s[i - Len(q)]
    BY <1>2, ConcatProperties
  <2>2. DOMAIN c = 1..Len(c) /\ DOMAIN q = 1..Len(q) /\ Len(q) \in Nat
    BY <2>1, LenProperties
  <2> QED
    BY <2>1, <2>2
<1>5. IsFiniteSet(P) /\ Cardinality(P) \in Nat
      /\ Times(q, v) = Cardinality(P) /\ Times(c, v) = Cardinality(R)
  <2>1. IsFiniteSet(P)
    BY TimesType
  <2>2. Cardinality(P) \in Nat
    BY <2>1, FS_CardinalityType
  <2> QED
    BY <2>1, <2>2 DEF Times
<1> HIDE DEF n, c
<1>6. CASE v \in ts
  <2>1. PICK j \in 1..n : s[j] = v
    BY <1>0, <1>2, <1>6
  <2>2. \A i \in 1..n : s[i] = v => i = j
    BY <1>3, <2>1
  <2>3. R = P \cup {Len(q) + j} /\ Len(q) + j \notin P
    <3>1. ASSUME NEW i \in R PROVE i \in P \cup {Len(q) + j}
      <4>1. CASE i <= Len(q)
        BY <1>1, <1>4, <4>1
      <4>2. CASE i > Len(q)
        <5>1. i - Len(q) \in 1..n /\ s[i - Len(q)] = v
          BY <1>1, <1>4, <4>2
        <5>2. i - Len(q) = j
          BY <2>2, <5>1
        <5>3. i \in Int /\ j \in Int /\ Len(q) \in Int
          BY <1>1, <1>4
        <5>4. i = Len(q) + j
          BY <5>2, <5>3
        <5> QED
          BY <5>4
      <4> QED
        BY <1>4, <4>1, <4>2
    <3>2. ASSUME NEW i \in P PROVE i \in R
      BY <1>1, <1>4
    <3>3. Len(q) + j \in R /\ Len(q) + j \notin P
      BY <1>1, <1>4, <2>1
    <3> QED
      BY <3>1, <3>2, <3>3
  <2> HIDE DEF P, R
  <2>4. Cardinality(R) = Cardinality(P) + 1
    BY <1>5, <2>3, FS_AddElement
  <2> QED
    BY <1>4, <1>5, <1>6, <2>4 DEF c
<1>7. CASE v \notin ts
  <2>1. \A i \in 1..n : s[i] # v
    BY <1>0, <1>7
  <2>2. ASSUME NEW i \in R PROVE i \in P
    <3>1. i <= Len(q)
      <4> SUFFICES ASSUME i > Len(q) PROVE FALSE
        BY <1>4
      <4>1. i - Len(q) \in 1..n /\ s[i - Len(q)] = v
        BY <1>1, <1>4
      <4> QED
        BY <2>1, <4>1
    <3> QED
      BY <1>4, <3>1
  <2>3. ASSUME NEW i \in P PROVE i \in R
    BY <1>1, <1>4
  <2>4. R = P
    BY <2>2, <2>3
  <2> HIDE DEF P, R
  <2>5. Times(c, v) = Times(q, v) + 0 /\ c \in Seq(S)
    BY <1>4, <1>5, <2>4
  <2> QED
    BY <1>7, <2>5 DEF c
<1> QED
  BY <1>6, <1>7

-----------------------------------------------------------------------------
(* The releases that are pending in all threads *)

\* The places of o in the sequences of f, for the threads in X.
Slots(X, f, o) == {p \in X \X (1..6) : p[2] \in DOMAIN f[p[1]] /\ f[p[1]][p[2]] = o}

\* One thread's share of the pending operations.
LEMMA Share ==
    ASSUME NEW X, IsFiniteSet(X), NEW x \in X, NEW S, NEW o,
           NEW f \in [X -> Seq(S)], Len(f[x]) <= 6
    PROVE  /\ IsFiniteSet(Slots(X, f, o)) /\ IsFiniteSet(Slots(X \ {x}, f, o))
           /\ Cardinality(Slots(X, f, o)) = Cardinality(Slots(X \ {x}, f, o)) + Times(f[x], o)
           /\ Cardinality(Slots(X, f, o)) \in Nat /\ Cardinality(Slots(X \ {x}, f, o)) \in Nat
<1> DEFINE A == Slots(X, f, o)
           R == Slots(X \ {x}, f, o)
           s == f[x]
           P == {i \in DOMAIN s : s[i] = o}
           B == A \ R
           m == [i \in P |-> <<x, i>>]
<1>1. s \in Seq(S) /\ Len(s) \in Nat /\ DOMAIN s = 1..Len(s)
  BY LenProperties
<1>2. IsFiniteSet(P) /\ Times(s, o) = Cardinality(P)
  BY <1>1, TimesType DEF Times
<1>3. IsFiniteSet(A)
  <2>1. 1 \in Int /\ 6 \in Int
    OBVIOUS
  <2>4. IsFiniteSet(1..6)
    BY <2>1, FS_Interval
  <2>2. IsFiniteSet(X \X (1..6))
    BY <2>4, FS_Product
  <2>3. A \in SUBSET (X \X (1..6))
    BY DEF Slots
  <2> QED
    BY <2>2, <2>3, FS_Subset
<1>4. R \in SUBSET A
  BY DEF Slots
<1>5. IsFiniteSet(R) /\ IsFiniteSet(B)
  BY <1>3, <1>4, FS_Subset, FS_Difference
<1>6. A = R \cup B /\ R \cap B = {}
  BY <1>4
<1>7. \A i \in P : i \in 1..6 /\ <<x, i>> \in B
  <2> SUFFICES ASSUME NEW i \in P PROVE i \in 1..6 /\ <<x, i>> \in B
    OBVIOUS
  <2>1. i \in 1..6
    BY <1>1
  <2>2. <<x, i>> \in A /\ <<x, i>> \notin R
    BY <2>1 DEF Slots
  <2> QED
    BY <2>1, <2>2
<1>8. \A p \in B : p[2] \in P /\ p = <<x, p[2]>>
  <2> SUFFICES ASSUME NEW p \in B PROVE p[2] \in P /\ p = <<x, p[2]>>
    OBVIOUS
  <2>1. p \in X \X (1..6) /\ p[2] \in DOMAIN f[p[1]] /\ f[p[1]][p[2]] = o
    BY DEF Slots
  <2>2. p[1] = x
    BY <2>1 DEF Slots
  <2> QED
    BY <2>1, <2>2
<1> HIDE DEF A, R, B, P, s
<1>9. Cardinality(B) = Cardinality(P)
  <2>1. m \in [P -> B]
    BY <1>7
  <2>2. \A a, b \in P : m[a] = m[b] => a = b
    OBVIOUS
  <2>3. \A b \in B : \E a \in P : m[a] = b
    BY <1>8
  <2> HIDE DEF m
  <2> QED
    BY <1>2, <2>1, <2>2, <2>3, SameSize
<1>10. Cardinality(A) = Cardinality(R) + Cardinality(B)
  <2>1. Cardinality(A) = Cardinality(R) + Cardinality(B) - Cardinality({})
    BY <1>5, <1>6, FS_Union
  <2>2. Cardinality(R) \in Nat /\ Cardinality(B) \in Nat
    BY <1>5, FS_CardinalityType
  <2> QED
    BY <2>1, <2>2, FS_EmptySet
<1>11. Cardinality(A) \in Nat /\ Cardinality(R) \in Nat
  BY <1>3, <1>5, FS_CardinalityType
<1> QED
  BY <1>2, <1>3, <1>5, <1>9, <1>10, <1>11 DEF A, R, s

-----------------------------------------------------------------------------
(* The invariant *)

\* What the proofs assume of the constants: finitely many threads and tasks, and
\* somebody who holds the scope to begin with.
ConstantsOK ==
    /\ IsFiniteSet(Tasks) /\ IsFiniteSet(Workers) /\ IsFiniteSet(Clients)
    /\ Clients # {}

Ops == Objects \cup {"walk", "unlink", "disposeScope", "disposeExec"}

\* The owners of an object: handles and pending releases, the tasks that are not over,
\* the clients that wait in scope_release.
Hold(o) == Cardinality({c \in Clients : o \in holds[c]})
Pend(o) == Cardinality(Slots(Threads, todo, o))
Alive == {t \in Tasks : phase[t] \in {"queued", "running", "idle"}}
Joining == {c \in Clients : pc[c] = "join"}

\* The references a task has from the scope's list, the queue and its worker.
Rank(p) == IF p \in {"queued", "running"} THEN 2 ELSE IF p = "idle" THEN 1 ELSE 0

\* Every count is the number of owners.  The scope has one reference on the executor
\* until it is disposed.
Counted ==
    /\ \A t \in Tasks : refs[t] = Hold(t) + Pend(t) + Rank(phase[t])
    /\ refs["scope"] = Hold("scope") + Pend("scope") + Cardinality(Alive) + Cardinality(Joining)
    /\ refs["exec"] = Hold("exec") + Pend("exec") + Cardinality(Alive)
                      + (IF "scope" \in freed THEN 0 ELSE 1)

\* An object without references is freed, or one thread is about to dispose of it.
Disposals ==
    /\ Pend("disposeScope") = IF refs["scope"] = 0 /\ "scope" \notin freed THEN 1 ELSE 0
    /\ Pend("disposeExec") = IF refs["exec"] = 0 /\ "exec" \notin freed THEN 1 ELSE 0

\* What is freed has no references; the executor's workers are gone with it.
FreedOK ==
    /\ "scope" \in freed => refs["scope"] = 0
    /\ "exec" \in freed => refs["exec"] = 0 /\ \A w \in Workers : pc[w] = "exited"
    /\ \A t \in Tasks : t \in freed <=> phase[t] = "ended" /\ refs[t] = 0

\* A queued task has one entry, any other none.
Queued == \A t \in Tasks : Times(queue, t) = IF phase[t] = "queued" THEN 1 ELSE 0

\* The tasks that are published are over, the others are linked once they are created;
\* a published task stays linked only until its worker unlinks it.
Linked ==
    /\ published = {t \in Tasks : phase[t] = "ended"}
    /\ Alive \subseteq linked
    /\ \A t \in linked : phase[t] # "none"
    /\ \A t \in linked \cap published : \E w \in Workers : job[w] = t
    /\ \A t \in Tasks : phase[t] = "none" => refs[t] = 0

\* Sequences of releases and disposals only.
IsPlain(s) == \A i \in DOMAIN s : s[i] \notin {"walk", "unlink"}

\* A worker runs a task, unlinks the task it has published, or has none.
Unlinking(w) == <<"unlink", job[w], "scope", job[w]>>
WorkerOK(w) ==
    /\ pc[w] \in {"free", "exited"}
    /\ pc[w] = "exited" => todo[w] = <<>> /\ job[w] = NoTask
    /\ \/ job[w] = NoTask /\ IsPlain(todo[w])
       \/ job[w] \in Tasks /\ phase[job[w]] = "running" /\ todo[w] = <<>>
       \/ /\ job[w] \in linked \cap published
          /\ todo[w] = AfterPublication(job[w]) \/ todo[w] = Unlinking(w)
Jobs ==
    /\ \A w \in Workers : WorkerOK(w)
    /\ \A v, w \in Workers : job[v] = job[w] /\ job[v] # NoTask => v = w
    /\ \A t \in Tasks : phase[t] = "running" => \E w \in Workers : job[w] = t

\* A client waits in scope_release, walks the scope it has retained, or releases.
ClientOK(c) ==
    /\ pc[c] \in {"free", "join"}
    /\ pc[c] = "join" => todo[c] = <<>>
    /\ todo[c] = <<"walk", "scope">> \/ IsPlain(todo[c])
Calls == \A c \in Clients : ClientOK(c)

Short == \A x \in Threads : Len(todo[x]) <= 5

IInv == TypeOK /\ Short /\ Counted /\ Disposals /\ FreedOK /\ Queued /\ Linked /\ Jobs /\ Calls

-----------------------------------------------------------------------------
(* Facts about the counts *)

\* The names of the two other objects and of the operations are not tasks.
LEMMA Names ==
    /\ \A t \in Tasks : t \notin {"exec", "scope", "walk", "unlink", "disposeScope",
                                  "disposeExec", NoTask}
    /\ \A w \in Workers : w \notin Clients /\ w \in Threads
    /\ \A c \in Clients : c \notin Workers /\ c \in Threads
    /\ "exec" \in Objects /\ "scope" \in Objects /\ Tasks \subseteq Objects
    /\ Objects \subseteq Ops /\ {"walk", "unlink", "disposeScope", "disposeExec"} \subseteq Ops
    /\ \A o \in Objects : o \in Tasks \/ o = "scope" \/ o = "exec"
  BY LifetimeAssumption DEF Threads, Objects, Ops

\* The numbers the counts are made of.
LEMMA Numbers ==
    ASSUME ConstantsOK, TypeOK, Short, NEW o
    PROVE  /\ IsFiniteSet(Threads)
           /\ IsFiniteSet({c \in Clients : o \in holds[c]}) /\ Hold(o) \in Nat
           /\ Pend(o) \in Nat
           /\ IsFiniteSet(Alive) /\ Cardinality(Alive) \in Nat
           /\ IsFiniteSet(Joining) /\ Cardinality(Joining) \in Nat
           /\ todo \in [Threads -> Seq(Ops)]
           /\ \A x \in Threads : /\ todo[x] \in Seq(Ops) /\ Len(todo[x]) \in Nat
                                 /\ Times(todo[x], o) \in Nat /\ Times(todo[x], o) <= Pend(o)
           /\ (\E c \in Clients : o \in holds[c]) => Hold(o) >= 1
<1>1. IsFiniteSet(Threads)
  BY FS_Union DEF ConstantsOK, Threads
<1>2. IsFiniteSet({c \in Clients : o \in holds[c]})
  BY FS_Subset DEF ConstantsOK
<1>3. IsFiniteSet(Alive) /\ IsFiniteSet(Joining)
  <2>1. Alive \in SUBSET Tasks /\ Joining \in SUBSET Clients
    BY DEF Alive, Joining
  <2> QED
    BY <2>1, FS_Subset DEF ConstantsOK
<1>4. Cardinality(Alive) \in Nat /\ Cardinality(Joining) \in Nat /\ Hold(o) \in Nat
  BY <1>2, <1>3, FS_CardinalityType DEF Hold
<1>5. todo \in [Threads -> Seq(Ops)] /\ \A x \in Threads : Len(todo[x]) <= 5
  BY DEF TypeOK, Ops, Short
<1>6. ASSUME NEW x \in Threads
      PROVE  /\ todo[x] \in Seq(Ops) /\ Len(todo[x]) \in Nat
             /\ Times(todo[x], o) \in Nat /\ Times(todo[x], o) <= Pend(o)
  <2>1. todo[x] \in Seq(Ops)
    BY <1>5
  <2>2. Len(todo[x]) \in Nat /\ Times(todo[x], o) \in Nat
    BY <2>1, LenProperties, TimesType
  <2>3. Len(todo[x]) <= 6
    BY <1>5, <2>2
  <2>4. /\ Pend(o) = Cardinality(Slots(Threads \ {x}, todo, o)) + Times(todo[x], o)
        /\ Cardinality(Slots(Threads \ {x}, todo, o)) \in Nat
    BY <1>1, <1>5, <2>3, Share DEF Pend
  <2> QED
    BY <2>1, <2>2, <2>4
<1>7. Pend(o) \in Nat
  <2>1. PICK c \in Clients : TRUE
    BY DEF ConstantsOK
  <2>2. c \in Threads
    BY Names
  <2>3. Len(todo[c]) <= 6
    BY <1>5, <1>6, <2>2
  <2> QED
    BY <1>1, <1>5, <2>2, <2>3, Share DEF Pend
<1>8. ASSUME NEW c \in Clients, o \in holds[c] PROVE Hold(o) >= 1
  <2>1. {d \in Clients : o \in holds[d]} # {}
    BY <1>8
  <2>2. Hold(o) # 0
    BY <1>2, <2>1, FS_EmptySet DEF Hold
  <2> QED
    BY <1>4, <2>2
<1> QED
  BY <1>1, <1>2, <1>3, <1>4, <1>5, <1>6, <1>7, <1>8

\* When one thread's pending operations are replaced.
LEMMA TodoStep ==
    ASSUME ConstantsOK, TypeOK, Short, NEW x \in Threads, NEW s \in Seq(Ops), Len(s) <= 5,
           todo' = [todo EXCEPT ![x] = s], NEW o
    PROVE  /\ Pend(o)' + Times(todo[x], o) = Pend(o) + Times(s, o)
           /\ Pend(o)' \in Nat /\ Times(s, o) \in Nat
<1>1. todo \in [Threads -> Seq(Ops)] /\ IsFiniteSet(Threads) /\ Len(todo[x]) \in Nat
  BY Numbers
<1>2. Len(todo[x]) <= 6 /\ Len(s) <= 6
  <2>1. Len(todo[x]) <= 5
    BY DEF Short
  <2>2. Len(s) \in Nat
    BY LenProperties
  <2> QED
    BY <1>1, <2>1, <2>2
<1> DEFINE g == todo'
<1>3. g \in [Threads -> Seq(Ops)] /\ g[x] = s /\ \A y \in Threads \ {x} : g[y] = todo[y]
  BY <1>1
<1>4. /\ Pend(o) = Cardinality(Slots(Threads \ {x}, todo, o)) + Times(todo[x], o)
      /\ Cardinality(Slots(Threads \ {x}, todo, o)) \in Nat /\ Pend(o) \in Nat
  BY <1>1, <1>2, Share DEF Pend
<1>5. Pend(o)' = Cardinality(Slots(Threads, g, o))
  BY DEF Pend, Slots
<1> HIDE DEF g
<1>6. /\ Cardinality(Slots(Threads, g, o)) = Cardinality(Slots(Threads \ {x}, g, o)) + Times(s, o)
      /\ Cardinality(Slots(Threads, g, o)) \in Nat
  <2>1. Len(g[x]) <= 6
    BY <1>2, <1>3
  <2>2. /\ Cardinality(Slots(Threads, g, o)) = Cardinality(Slots(Threads \ {x}, g, o)) + Times(g[x], o)
        /\ Cardinality(Slots(Threads, g, o)) \in Nat
    <3>1. IsFiniteSet(Threads) /\ g \in [Threads -> Seq(Ops)]
      BY <1>1, <1>3
    <3> QED
      BY <2>1, <3>1, Share, SMTT(30)
  <2> QED
    BY <1>3, <2>2
<1>7. Slots(Threads \ {x}, g, o) = Slots(Threads \ {x}, todo, o)
  <2>1. \A p \in (Threads \ {x}) \X (1..6) : g[p[1]] = todo[p[1]]
    BY <1>3
  <2> QED
    BY <2>1 DEF Slots
<1>8. Times(s, o) \in Nat /\ Times(todo[x], o) \in Nat
  BY <1>1, TimesType
<1> QED
  BY <1>4, <1>5, <1>6, <1>7, <1>8

\* What one replacement leaves well-typed, and the other threads as they were.
LEMMA TodoType ==
    ASSUME TypeOK, Short, NEW x \in Threads, NEW s \in Seq(Ops), Len(s) <= 5,
           todo' = [todo EXCEPT ![x] = s]
    PROVE  /\ todo' \in [Threads -> Seq(Objects \cup {"walk", "unlink", "disposeScope", "disposeExec"})]
           /\ Short' /\ todo'[x] = s /\ \A y \in Threads \ {x} : todo'[y] = todo[y]
  BY DEF TypeOK, Ops, Short

\* A thread that had nothing pending gets something to do.
LEMMA Pushed ==
    ASSUME ConstantsOK, TypeOK, Short, NEW x \in Threads, NEW s \in Seq(Ops), Len(s) <= 5,
           todo[x] = <<>>, todo' = [todo EXCEPT ![x] = s], NEW o
    PROVE  Pend(o)' = Pend(o) + Times(s, o)
<1>1. Times(<<>>, o) = 0
  BY FS_EmptySet DEF Times
<1>2. Pend(o) \in Nat
  BY Numbers
<1>3. /\ Pend(o)' + Times(todo[x], o) = Pend(o) + Times(s, o)
      /\ Pend(o)' \in Nat /\ Times(s, o) \in Nat
  BY TodoStep
<1>4. Times(todo[x], o) = 0
  BY <1>1
<1> QED
  BY <1>2, <1>3, <1>4

\* Arithmetic of one operation less and one more.
LEMMA Cancelled ==
    ASSUME NEW a \in Nat, NEW b \in Nat, NEW c \in Nat, NEW h \in {0, 1}, NEW k \in {0, 1},
           a + (c + h) = b + (c + k)
    PROVE  a = b - h + k
  OBVIOUS

\* A thread finishes the operation at the head, and perhaps gets another in its place.
LEMMA Popped ==
    ASSUME ConstantsOK, TypeOK, Short, NEW x \in Threads, todo[x] # <<>>, NEW o
    PROVE  /\ Head(todo[x]) \in Ops /\ Pend(Head(todo[x])) >= 1
           /\ Tail(todo[x]) \in Seq(Ops) /\ Len(Tail(todo[x])) <= 5
           /\ todo' = [todo EXCEPT ![x] = Tail(todo[x])]
                => Pend(o)' = Pend(o) - (IF Head(todo[x]) = o THEN 1 ELSE 0)
           /\ \A u \in Ops :
                /\ <<u>> \o Tail(todo[x]) \in Seq(Ops) /\ Len(<<u>> \o Tail(todo[x])) <= 5
                /\ todo' = [todo EXCEPT ![x] = <<u>> \o Tail(todo[x])]
                     => Pend(o)' = Pend(o) - (IF Head(todo[x]) = o THEN 1 ELSE 0)
                                           + (IF u = o THEN 1 ELSE 0)
<1> DEFINE s == todo[x]
           h == IF Head(s) = o THEN 1 ELSE 0
<1>1. /\ s \in Seq(Ops) /\ Len(s) \in Nat /\ Len(s) <= 5 /\ Times(s, o) \in Nat
      /\ Times(s, o) <= Pend(o) /\ Pend(o) \in Nat
  BY Numbers DEF Short
<1>2. Head(s) \in Ops /\ Tail(s) \in Seq(Ops) /\ Len(Tail(s)) = Len(s) - 1 /\ Len(s) # 0
  BY <1>1, HeadTailProperties, EmptySeq
<1>3. Times(s, o) = Times(Tail(s), o) + h
  BY <1>1, TimesTail
<1>4. Times(Tail(s), o) \in Nat
  BY <1>2, TimesType
<1>5. Pend(Head(s)) >= 1
  <2>1. Times(s, Head(s)) = Times(Tail(s), Head(s)) + 1
    BY <1>1, TimesTail
  <2>2. Times(Tail(s), Head(s)) \in Nat
    BY <1>2, TimesType
  <2>3. Times(s, Head(s)) <= Pend(Head(s)) /\ Pend(Head(s)) \in Nat
    BY Numbers
  <2> QED
    BY <2>1, <2>2, <2>3
<1>6. h \in {0, 1}
  OBVIOUS
<1>9. Len(Tail(s)) <= 5
  BY <1>1, <1>2
<1>7. ASSUME todo' = [todo EXCEPT ![x] = Tail(s)]
      PROVE  Pend(o)' = Pend(o) - h
  <2>1. Pend(o)' + Times(s, o) = Pend(o) + Times(Tail(s), o) /\ Pend(o)' \in Nat
    BY <1>1, <1>2, <1>7, <1>9, TodoStep
  <2> DEFINE a == Pend(o)'
             b == Pend(o)
             r == Times(Tail(s), o)
  <2>2. a + (r + h) = b + r
    BY <1>3, <2>1
  <2>3. a \in Nat /\ b \in Nat /\ r \in Nat
    BY <1>1, <1>4, <2>1
  <2> HIDE DEF h, a, b, r
  <2>4. a = b - h
    BY <1>6, <2>2, <2>3
  <2> QED
    BY <2>4 DEF a, b
<1>8. ASSUME NEW u \in Ops
      PROVE  /\ <<u>> \o Tail(s) \in Seq(Ops) /\ Len(<<u>> \o Tail(s)) <= 5
             /\ todo' = [todo EXCEPT ![x] = <<u>> \o Tail(s)]
                  => Pend(o)' = Pend(o) - h + (IF u = o THEN 1 ELSE 0)
  <2> DEFINE c == <<u>> \o Tail(s)
             k == IF u = o THEN 1 ELSE 0
  <2>0. Tail(s) \in Seq(Ops)
    BY <1>2
  <2>1. c \in Seq(Ops) /\ Len(c) = Len(Tail(s)) + 1 /\ Times(c, o) = Times(Tail(s), o) + k
    <3> DEFINE r == Tail(s)
    <3>1. r \in Seq(Ops)
      BY <2>0
    <3> HIDE DEF r
    <3>2. <<u>> \o r \in Seq(Ops) /\ Len(<<u>> \o r) = Len(r) + 1
      BY <3>1, TimesCons
    <3>3. Times(<<u>> \o r, o) = Times(r, o) + (IF u = o THEN 1 ELSE 0)
      BY <3>1, TimesCons
    <3> QED
      BY <3>2, <3>3 DEF r
  <2>2. Len(c) <= 5
    BY <1>1, <1>2, <2>1
  <2>3. k \in {0, 1}
    OBVIOUS
  <2>4. ASSUME todo' = [todo EXCEPT ![x] = c]
        PROVE  Pend(o)' = Pend(o) - h + k
    <3>1. Pend(o)' + Times(s, o) = Pend(o) + Times(c, o) /\ Pend(o)' \in Nat
      BY <2>1, <2>2, <2>4, TodoStep
    <3>2. Times(c, o) = Times(Tail(s), o) + k
      BY <2>1
    <3> HIDE DEF h, k, c, s
    <3>3. Pend(o)' + (Times(Tail(s), o) + h) = Pend(o) + (Times(Tail(s), o) + k)
      BY <1>3, <3>1, <3>2
    <3>4. Pend(o)' \in Nat /\ Pend(o) \in Nat /\ Times(Tail(s), o) \in Nat
      BY <1>1, <1>4, <3>1
    <3> QED
      BY <1>6, <2>3, <3>3, <3>4, Cancelled
  <2> QED
    BY <2>1, <2>2, <2>4
<1> QED
  BY <1>2, <1>5, <1>7, <1>8, <1>9

\* The short sequences of the calls, counted.
LEMMA ShortCounts ==
    ASSUME NEW a \in Ops, NEW t \in Tasks, NEW o
    PROVE  /\ <<a>> \in Seq(Ops) /\ Len(<<a>>) = 1
           /\ Times(<<a>>, o) = (IF a = o THEN 1 ELSE 0)
           /\ <<"walk", "scope">> \in Seq(Ops) /\ Len(<<"walk", "scope">>) = 2
           /\ Times(<<"walk", "scope">>, o) = (IF o \in {"walk", "scope"} THEN 1 ELSE 0)
           /\ AfterPublication(t) \in Seq(Ops) /\ Len(AfterPublication(t)) = 5
           /\ Times(AfterPublication(t), o) =
                (IF o = t THEN 2 ELSE IF o \in {"exec", "scope", "unlink"} THEN 1 ELSE 0)
<1>0. /\ t \in Ops /\ "walk" \in Ops /\ "scope" \in Ops /\ "exec" \in Ops /\ "unlink" \in Ops
      /\ t \notin {"exec", "scope", "unlink"}
  BY Names
<1>1. Times(<<>>, o) = 0
  BY FS_EmptySet DEF Times
<1>2. ASSUME NEW b \in Ops
      PROVE  /\ <<b>> \in Seq(Ops)
             /\ Times(<<b>>, o) = (IF b = o THEN 1 ELSE 0)
  <2>1. <<b>> \in Seq(Ops) /\ <<b>> # <<>> /\ Head(<<b>>) = b /\ Tail(<<b>>) = <<>>
    OBVIOUS
  <2>2. Times(<<b>>, o) = Times(<<>>, o) + (IF b = o THEN 1 ELSE 0)
    BY <2>1, TimesTail
  <2> QED
    BY <1>1, <2>1, <2>2
<1>3. Times(<<"walk", "scope">>, o) = (IF o \in {"walk", "scope"} THEN 1 ELSE 0)
      /\ <<"walk", "scope">> \in Seq(Ops)
  <2> DEFINE s == <<"walk", "scope">>
  <2>1. s \in Seq(Ops) /\ s # <<>> /\ Head(s) = "walk" /\ Tail(s) = <<"scope">>
    BY <1>0
  <2>2. Times(s, o) = Times(<<"scope">>, o) + (IF "walk" = o THEN 1 ELSE 0)
    BY <2>1, TimesTail
  <2>3. Times(<<"scope">>, o) = (IF "scope" = o THEN 1 ELSE 0)
    BY <1>0, <1>2
  <2> QED
    BY <2>1, <2>2, <2>3
<1>4. /\ AfterPublication(t) \in Seq(Ops)
      /\ Times(AfterPublication(t), o) =
           (IF o = t THEN 2 ELSE IF o \in {"exec", "scope", "unlink"} THEN 1 ELSE 0)
  <2> DEFINE s2 == <<"scope", t>>
             s3 == <<t, "scope", t>>
             s4 == <<"unlink", t, "scope", t>>
             s5 == <<"exec", "unlink", t, "scope", t>>
  <2>1. Times(<<t>>, o) = (IF t = o THEN 1 ELSE 0)
    BY <1>0, <1>2
  <2>2. Times(s2, o) = Times(<<t>>, o) + (IF "scope" = o THEN 1 ELSE 0)
    <3>1. s2 \in Seq(Ops) /\ s2 # <<>> /\ Head(s2) = "scope" /\ Tail(s2) = <<t>>
      BY <1>0
    <3> QED
      BY <3>1, TimesTail
  <2>3. Times(s3, o) = Times(s2, o) + (IF t = o THEN 1 ELSE 0)
    <3>1. s3 \in Seq(Ops) /\ s3 # <<>> /\ Head(s3) = t /\ Tail(s3) = s2
      BY <1>0
    <3> QED
      BY <3>1, TimesTail
  <2>4. Times(s4, o) = Times(s3, o) + (IF "unlink" = o THEN 1 ELSE 0)
    <3>1. s4 \in Seq(Ops) /\ s4 # <<>> /\ Head(s4) = "unlink" /\ Tail(s4) = s3
      BY <1>0
    <3> QED
      BY <3>1, TimesTail
  <2>5. Times(s5, o) = Times(s4, o) + (IF "exec" = o THEN 1 ELSE 0)
    <3>1. s5 \in Seq(Ops) /\ s5 # <<>> /\ Head(s5) = "exec" /\ Tail(s5) = s4
      BY <1>0
    <3> QED
      BY <3>1, TimesTail
  <2>6. s5 \in Seq(Ops)
    BY <1>0
  <2> HIDE DEF s2, s3, s4, s5
  <2>7. Times(s5, o) = (IF o = t THEN 2 ELSE IF o \in {"exec", "scope", "unlink"} THEN 1 ELSE 0)
    BY <1>0, <2>1, <2>2, <2>3, <2>4, <2>5
  <2> QED
    BY <2>6, <2>7 DEF AfterPublication, s5
<1> QED
  BY <1>2, <1>3, <1>4 DEF AfterPublication

\* A client gains a handle it had not.
LEMMA Gained ==
    ASSUME ConstantsOK, TypeOK, Short, NEW c \in Clients, NEW o \in Objects, o \notin holds[c],
           holds' = [holds EXCEPT ![c] = @ \cup {o}]
    PROVE  /\ holds' \in [Clients -> SUBSET Objects]
           /\ Hold(o)' = Hold(o) + 1
           /\ \A u : u # o => Hold(u)' = Hold(u)
<1>1. holds \in [Clients -> SUBSET Objects]
  BY DEF TypeOK
<1>2. /\ holds' \in [Clients -> SUBSET Objects]
      /\ \A d \in Clients : holds'[d] = IF d = c THEN holds[c] \cup {o} ELSE holds[d]
  BY <1>1
<1>3. {d \in Clients : o \in holds'[d]} = {d \in Clients : o \in holds[d]} \cup {c}
  BY <1>2
<1>4. IsFiniteSet({d \in Clients : o \in holds[d]})
  BY Numbers
<1>5. Hold(o)' = Hold(o) + 1
  BY <1>3, <1>4, FS_AddElement DEF Hold
<1>6. ASSUME NEW u, u # o PROVE Hold(u)' = Hold(u)
  <2>1. {d \in Clients : u \in holds'[d]} = {d \in Clients : u \in holds[d]}
    BY <1>2, <1>6
  <2> QED
    BY <2>1 DEF Hold
<1> QED
  BY <1>2, <1>5, <1>6

\* A client gives up a handle it had.
LEMMA Lost ==
    ASSUME ConstantsOK, TypeOK, Short, NEW c \in Clients, NEW o \in Objects, o \in holds[c],
           holds' = [holds EXCEPT ![c] = @ \ {o}]
    PROVE  /\ holds' \in [Clients -> SUBSET Objects]
           /\ Hold(o)' = Hold(o) - 1
           /\ \A u : u # o => Hold(u)' = Hold(u)
<1>1. holds \in [Clients -> SUBSET Objects]
  BY DEF TypeOK
<1>2. /\ holds' \in [Clients -> SUBSET Objects]
      /\ \A d \in Clients : holds'[d] = IF d = c THEN holds[c] \ {o} ELSE holds[d]
  BY <1>1
<1>3. {d \in Clients : o \in holds'[d]} = {d \in Clients : o \in holds[d]} \ {c}
  BY <1>2
<1>4. IsFiniteSet({d \in Clients : o \in holds[d]})
  BY Numbers
<1>5. Hold(o)' = Hold(o) - 1
  BY <1>3, <1>4, FS_RemoveElement DEF Hold
<1>6. ASSUME NEW u, u # o PROVE Hold(u)' = Hold(u)
  <2>1. {d \in Clients : u \in holds'[d]} = {d \in Clients : u \in holds[d]}
    BY <1>2, <1>6
  <2> QED
    BY <2>1 DEF Hold
<1> QED
  BY <1>2, <1>5, <1>6

\* Whatever has an owner has a reference and is not freed.
LEMMA Owned ==
    ASSUME ConstantsOK, IInv
    PROVE  /\ refs \in [Objects -> Nat]
           /\ \A o \in Objects : refs[o] >= Hold(o) + Pend(o)
           /\ \A o \in Objects : refs[o] >= 1 => o \notin freed
           /\ \A c \in Clients : \A o \in holds[c] : refs[o] >= 1
           /\ \A x \in Threads : todo[x] # <<>> /\ Head(todo[x]) \in Objects
                                   => refs[Head(todo[x])] >= 1
           /\ \A t \in Alive : refs[t] >= 1 /\ refs["scope"] >= 1 /\ refs["exec"] >= 1
           /\ "scope" \notin freed => refs["exec"] >= 1
           /\ refs["scope"] >= 1 => "scope" \notin freed
           /\ \A t \in Tasks : phase[t] = "none" => Hold(t) = 0 /\ Pend(t) = 0
<1>0. TypeOK /\ Short /\ Counted /\ FreedOK /\ Linked
  BY DEF IInv
<1>1. refs \in [Objects -> Nat] /\ \A t \in Tasks : refs[t] \in Nat
  BY <1>0, Names DEF TypeOK
<1>2. \A o : Hold(o) \in Nat /\ Pend(o) \in Nat
  BY <1>0, Numbers
<1>3. Cardinality(Alive) \in Nat /\ Cardinality(Joining) \in Nat /\ IsFiniteSet(Alive)
  BY <1>0, Numbers
<1>4. \A p : Rank(p) \in Nat
  BY DEF Rank
<1>5. ASSUME NEW o \in Objects PROVE refs[o] >= Hold(o) + Pend(o)
  <2>1. CASE o \in Tasks
    BY <1>0, <1>1, <1>2, <1>4, <2>1 DEF Counted
  <2>2. CASE o = "scope"
    BY <1>0, <1>1, <1>2, <1>3, <2>2 DEF Counted
  <2>3. CASE o = "exec"
    BY <1>0, <1>1, <1>2, <1>3, <2>3 DEF Counted
  <2> QED
    BY <2>1, <2>2, <2>3, Names
<1>6. ASSUME NEW o \in Objects, refs[o] >= 1 PROVE o \notin freed
  <2>1. refs[o] # 0
    BY <1>6
  <2> QED
    BY <1>0, <2>1, Names DEF FreedOK
<1>7. ASSUME NEW c \in Clients, NEW o \in holds[c] PROVE refs[o] >= 1
  <2>1. Hold(o) >= 1
    BY <1>0, Numbers
  <2>2. o \in Objects
    BY <1>0 DEF TypeOK
  <2> QED
    BY <1>1, <1>2, <1>5, <2>1, <2>2
<1>8. ASSUME NEW x \in Threads, todo[x] # <<>>, Head(todo[x]) \in Objects
      PROVE  refs[Head(todo[x])] >= 1
  <2> DEFINE h == Head(todo[x])
  <2>1. Pend(h) >= 1
    BY <1>0, <1>8, Popped
  <2>2. h \in Objects
    BY <1>8
  <2> HIDE DEF h
  <2>3. refs[h] >= Hold(h) + Pend(h) /\ refs[h] \in Nat
    BY <1>1, <1>5, <2>2
  <2>4. refs[h] >= 1
    BY <1>2, <2>1, <2>3
  <2> QED
    BY <2>4 DEF h
<1>9. ASSUME NEW t \in Alive PROVE refs[t] >= 1 /\ refs["scope"] >= 1 /\ refs["exec"] >= 1
  <2>1. Cardinality(Alive) >= 1
    <3>1. Cardinality(Alive) # 0
      BY <1>3, <1>9, FS_EmptySet
    <3> QED
      BY <1>3, <3>1
  <2>2. t \in Tasks /\ Rank(phase[t]) >= 1
    BY DEF Alive, Rank
  <2>3. refs[t] >= 1
    BY <1>0, <1>1, <1>2, <1>4, <2>2 DEF Counted
  <2>4. refs["scope"] >= 1
    BY <1>0, <1>2, <1>3, <2>1 DEF Counted
  <2>5. refs["exec"] >= 1
    BY <1>0, <1>2, <1>3, <2>1 DEF Counted
  <2> QED
    BY <2>3, <2>4, <2>5
<1>10. ASSUME "scope" \notin freed PROVE refs["exec"] >= 1
  BY <1>0, <1>2, <1>3, <1>10 DEF Counted
<1>11. refs["scope"] >= 1 => "scope" \notin freed
  BY <1>6, Names
<1>12. ASSUME NEW t \in Tasks, phase[t] = "none" PROVE Hold(t) = 0 /\ Pend(t) = 0
  <2>1. refs[t] = 0 /\ refs[t] >= Hold(t) + Pend(t)
    BY <1>0, <1>5, <1>12, Names DEF Linked
  <2> QED
    BY <1>2, <2>1
<1> QED
  BY <1>1, <1>5, <1>6, <1>7, <1>8, <1>9, <1>10, <1>11, <1>12

\* Entries for tasks that have none (task_enqueue_locked).
LEMMA Enqueued ==
    ASSUME ConstantsOK, IInv, NEW ts \in SUBSET Tasks, \A t \in ts : phase[t] # "queued",
           Enqueue(ts)
    PROVE  /\ queue' \in Seq(Tasks) /\ Queued'
           /\ phase' \in [Tasks -> {"none", "queued", "running", "idle", "ended"}]
           /\ \A t \in Tasks : phase'[t] = IF t \in ts THEN "queued" ELSE phase[t]
<1>1. PICK s : Lists(s, ts) /\ queue' = queue \o s
  BY DEF Enqueue, Lists
<1>2. IsFiniteSet(ts)
  BY FS_Subset DEF ConstantsOK
<1>3. queue \in Seq(Tasks) /\ Queued
      /\ phase \in [Tasks -> {"none", "queued", "running", "idle", "ended"}]
  BY DEF IInv, TypeOK
<1>4. \A t \in Tasks : phase'[t] = IF t \in ts THEN "queued" ELSE phase[t]
  BY DEF Enqueue
<1>5. phase' \in [Tasks -> {"none", "queued", "running", "idle", "ended"}]
  BY <1>3 DEF Enqueue
<1>6. queue \o s \in Seq(Tasks)
  BY <1>1, <1>2, <1>3, TimesJoined
<1>7. \A t \in Tasks : Times(queue \o s, t) = Times(queue, t) + (IF t \in ts THEN 1 ELSE 0)
  BY <1>1, <1>2, <1>3, TimesJoined
<1>8. \A t \in Tasks : Times(queue \o s, t) = IF phase'[t] = "queued" THEN 1 ELSE 0
  BY <1>3, <1>4, <1>7 DEF Queued
<1>9. Queued'
  <2>1. \A t \in Tasks : Times(queue', t) = IF phase'[t] = "queued" THEN 1 ELSE 0
    BY <1>1, <1>8
  <2> QED
    BY <2>1 DEF Queued, Times
<1> QED
  BY <1>1, <1>4, <1>5, <1>6, <1>9

-----------------------------------------------------------------------------
(* Parts of the invariant that a step leaves alone *)

\* A step that changes no worker, and neither ends nor starts the running of a task.
LEMMA JobsKept ==
    ASSUME Jobs, job' = job, published' = published, linked \subseteq linked',
           \A w \in Workers : pc'[w] = pc[w] /\ todo'[w] = todo[w],
           \A t \in Tasks : phase'[t] = "running" <=> phase[t] = "running"
    PROVE  Jobs'
<1>1. ASSUME NEW w \in Workers PROVE WorkerOK(w)'
  <2>1. WorkerOK(w) /\ job'[w] = job[w] /\ pc'[w] = pc[w] /\ todo'[w] = todo[w]
    BY DEF Jobs
  <2> QED
    BY <2>1 DEF WorkerOK, Unlinking
<1> QED
  BY <1>1 DEF Jobs

\* A step of one client, or of none.
LEMMA CallsKept ==
    ASSUME Calls, NEW c, c \in Clients => ClientOK(c)',
           \A d \in Clients \ {c} : pc'[d] = pc[d] /\ todo'[d] = todo[d]
    PROVE  Calls'
<1> SUFFICES ASSUME NEW d \in Clients PROVE ClientOK(d)'
  BY DEF Calls
<1>1. CASE d = c
  BY <1>1
<1>2. CASE d # c
  <2>1. ClientOK(d) /\ pc'[d] = pc[d] /\ todo'[d] = todo[d]
    BY <1>2 DEF Calls
  <2> QED
    BY <2>1 DEF ClientOK
<1> QED
  BY <1>1, <1>2

\* A step that takes no last reference and frees nothing.
LEMMA FreedKept ==
    ASSUME Disposals, FreedOK, freed' = freed,
           Pend("disposeScope")' = Pend("disposeScope"), Pend("disposeExec")' = Pend("disposeExec"),
           refs'["scope"] = 0 <=> refs["scope"] = 0,
           refs'["exec"] = 0 <=> refs["exec"] = 0,
           \A w \in Workers : pc[w] = "exited" => pc'[w] = "exited",
           \A t \in Tasks : phase'[t] = "ended" /\ refs'[t] = 0 <=> phase[t] = "ended" /\ refs[t] = 0
    PROVE  Disposals' /\ FreedOK'
<1>1. Disposals'
  BY DEF Disposals
<1>2. FreedOK'
  BY DEF FreedOK
<1> QED
  BY <1>1, <1>2

\* A step that links, publishes and ends nothing.
LEMMA LinkedKept ==
    ASSUME Linked, linked \subseteq Tasks, UNCHANGED <<published, linked, job>>, Alive' = Alive,
           \A t \in Tasks : phase'[t] = "ended" <=> phase[t] = "ended",
           \A t \in Tasks : phase'[t] = "none" <=> phase[t] = "none",
           \A t \in Tasks : phase[t] = "none" => refs'[t] = refs[t]
    PROVE  Linked'
<1>1. published' = {t \in Tasks : phase'[t] = "ended"}
  BY DEF Linked
<1>2. Alive' \subseteq linked'
  BY DEF Linked
<1>3. \A t \in linked' : phase'[t] # "none"
  BY DEF Linked
<1>4. \A t \in linked' \cap published' : \E w \in Workers : job'[w] = t
  BY DEF Linked
<1>5. \A t \in Tasks : phase'[t] = "none" => refs'[t] = 0
  BY DEF Linked
<1> QED
  BY <1>1, <1>2, <1>3, <1>4, <1>5 DEF Linked

\* Idle tasks are queued: their references are those they had and the entry's.
LEMMA Woken ==
    ASSUME ConstantsOK, IInv, NEW ts \in SUBSET Tasks, \A t \in ts : phase[t] = "idle",
           Enqueue(ts)
    PROVE  /\ queue' \in Seq(Tasks) /\ Queued'
           /\ phase' \in [Tasks -> {"none", "queued", "running", "idle", "ended"}]
           /\ Alive' = Alive
           /\ \A t \in Tasks : /\ phase'[t] = "ended" <=> phase[t] = "ended"
                               /\ phase'[t] = "none" <=> phase[t] = "none"
                               /\ phase'[t] = "running" <=> phase[t] = "running"
                               /\ Rank(phase'[t]) = Rank(phase[t]) + (IF t \in ts THEN 1 ELSE 0)
<1>1. /\ queue' \in Seq(Tasks) /\ Queued'
      /\ phase' \in [Tasks -> {"none", "queued", "running", "idle", "ended"}]
      /\ \A t \in Tasks : phase'[t] = IF t \in ts THEN "queued" ELSE phase[t]
  BY Enqueued
<1>2. \A t \in Tasks : /\ phase'[t] = "ended" <=> phase[t] = "ended"
                       /\ phase'[t] = "none" <=> phase[t] = "none"
                       /\ phase'[t] = "running" <=> phase[t] = "running"
  BY <1>1
<1>3. ASSUME NEW t \in Tasks
      PROVE  Rank(phase'[t]) = Rank(phase[t]) + (IF t \in ts THEN 1 ELSE 0)
  BY <1>1 DEF Rank
<1>4. \A t \in Tasks : phase'[t] \in {"queued", "running", "idle"}
                         <=> phase[t] \in {"queued", "running", "idle"}
  BY <1>1
<1>5. Alive' = Alive
  BY <1>4 DEF Alive
<1> QED
  BY <1>1, <1>2, <1>3, <1>5

-----------------------------------------------------------------------------
(* Initial states *)

\* Every client holds the executor and the scope, and there is no task.
LEMMA Initially ==
    ASSUME ConstantsOK, Init
    PROVE  IInv
<1>0. /\ refs \in [Objects -> Nat]
      /\ refs["exec"] = Cardinality(Clients) + 1 /\ refs["scope"] = Cardinality(Clients)
      /\ \A t \in Tasks : refs[t] = 0
      /\ Cardinality(Clients) \in Nat /\ Cardinality(Clients) # 0
  <2>1. Cardinality(Clients) \in Nat /\ Cardinality(Clients) # 0
    BY FS_CardinalityType, FS_EmptySet DEF ConstantsOK
  <2> QED
    BY <2>1, Names DEF Init
<1>1. TypeOK
  <2>1. todo \in [Threads -> Seq(Objects \cup {"walk", "unlink", "disposeScope", "disposeExec"})]
    BY DEF Init
  <2>2. holds \in [Clients -> SUBSET Objects]
    BY Names DEF Init
  <2>3. /\ freed \subseteq Objects /\ published \subseteq Tasks /\ linked \subseteq Tasks
        /\ queue \in Seq(Tasks) /\ shutdown \in BOOLEAN
    <3>1. freed = {} /\ published = {} /\ linked = {} /\ queue = <<>>
      BY DEF Init
    <3>2. shutdown \in BOOLEAN
      BY DEF Init
    <3>3. queue \in Seq(Tasks)
      BY <3>1
    <3> QED
      BY <3>1, <3>2, <3>3
  <2>4. /\ phase \in [Tasks -> {"none", "queued", "running", "idle", "ended"}]
        /\ job \in [Workers -> Tasks \cup {NoTask}]
        /\ pc \in [Threads -> {"free", "join", "exited"}]
    BY DEF Init
  <2> QED
    BY <1>0, <2>1, <2>2, <2>3, <2>4 DEF TypeOK
<1>2. Short
  BY DEF Init, Short
<1>3. \A o : Pend(o) = 0
  <2>1. \A o : Slots(Threads, todo, o) = {}
    BY DEF Init, Slots
  <2> QED
    BY <2>1, FS_EmptySet DEF Pend
<1>4. Alive = {} /\ Joining = {} /\ freed = {}
  BY Names DEF Init, Alive, Joining
<1>5. Cardinality(Alive) = 0 /\ Cardinality(Joining) = 0
  BY <1>4, FS_EmptySet
<1>6. Hold("exec") = Cardinality(Clients) /\ Hold("scope") = Cardinality(Clients)
  <2>1. {c \in Clients : "exec" \in holds[c]} = Clients /\ {c \in Clients : "scope" \in holds[c]} = Clients
    BY DEF Init
  <2> QED
    BY <2>1 DEF Hold
<1>7. \A t \in Tasks : Hold(t) = 0
  <2>1. \A t \in Tasks : {c \in Clients : t \in holds[c]} = {}
    BY Names DEF Init
  <2> QED
    BY <2>1, FS_EmptySet DEF Hold
<1>8. Counted
  <2>1. \A t \in Tasks : Rank(phase[t]) = 0
    BY DEF Init, Rank
  <2> QED
    BY <1>0, <1>3, <1>4, <1>5, <1>6, <1>7, <2>1 DEF Counted
<1>9. Disposals
  BY <1>0, <1>3 DEF Disposals
<1>10. FreedOK
  BY <1>4 DEF FreedOK, Init
<1>11. Queued
  <2>1. \A t \in Tasks : Times(<<>>, t) = 0
    BY FS_EmptySet DEF Times
  <2> QED
    BY <2>1 DEF Queued, Init
<1>12. Linked
  BY <1>0, <1>4 DEF Linked, Init
<1>13. Jobs
  BY Names DEF Jobs, WorkerOK, IsPlain, Init
<1>14. Calls
  BY Names DEF Calls, ClientOK, IsPlain, Init
<1> QED
  BY <1>1, <1>2, <1>8, <1>9, <1>10, <1>11, <1>12, <1>13, <1>14 DEF IInv

\* The counts of owners a step does not touch.
LEMMA Same ==
    ASSUME TRUE
    PROVE  /\ todo' = todo => (\A o : Pend(o)' = Pend(o)) /\ (Short => Short')
           /\ holds' = holds => \A o : Hold(o)' = Hold(o)
           /\ pc' = pc => Joining' = Joining
           /\ phase' = phase => Alive' = Alive
<1>1. ASSUME todo' = todo PROVE (\A o : Pend(o)' = Pend(o)) /\ (Short => Short')
  BY <1>1 DEF Pend, Slots, Short
<1>2. ASSUME holds' = holds PROVE \A o : Hold(o)' = Hold(o)
  BY <1>2 DEF Hold
<1> QED
  BY <1>1, <1>2 DEF Joining, Alive

-----------------------------------------------------------------------------
(* The clients *)

\* task_create
LEMMA CreateStep ==
    ASSUME ConstantsOK, IInv, NEW c \in Clients, NEW t \in Tasks, Create(c, t)
    PROVE  IInv'
<1>0. TypeOK /\ Short /\ Counted /\ Disposals /\ FreedOK /\ Queued /\ Linked /\ Jobs /\ Calls
  BY DEF IInv
<1>1. /\ "scope" \in holds[c] /\ phase[t] = "none" /\ Enqueue({t}) /\ linked' = linked \cup {t}
      /\ refs' = [refs EXCEPT ![t] = 3, !["scope"] = @ + 1, !["exec"] = @ + 1]
      /\ holds' = [holds EXCEPT ![c] = @ \cup {t}]
      /\ UNCHANGED <<freed, published, shutdown, job, pc, todo>>
  BY DEF Create
<1>2. /\ queue' \in Seq(Tasks) /\ Queued'
      /\ phase' \in [Tasks -> {"none", "queued", "running", "idle", "ended"}]
      /\ \A u \in Tasks : phase'[u] = IF u = t THEN "queued" ELSE phase[u]
  <2>1. \A u \in {t} : phase[u] # "queued"
    BY <1>1
  <2>2. {t} \in SUBSET Tasks
    OBVIOUS
  <2> QED
    BY <1>1, <2>1, <2>2, Enqueued
<1>3. /\ refs \in [Objects -> Nat] /\ refs["scope"] >= 1 /\ refs["exec"] >= 1
      /\ Hold(t) = 0 /\ Pend(t) = 0
  BY <1>1, Owned
<1>4. /\ refs' \in [Objects -> Nat] /\ refs'[t] = 3 /\ \A u \in Tasks \ {t} : refs'[u] = refs[u]
      /\ refs'["scope"] = refs["scope"] + 1 /\ refs'["exec"] = refs["exec"] + 1
  BY <1>1, <1>3, Names
<1>5. t \notin holds[c]
  <2>1. t \in holds[c] => Hold(t) >= 1
    BY <1>0, Numbers
  <2> QED
    BY <1>3, <2>1
<1>6. /\ holds' \in [Clients -> SUBSET Objects] /\ Hold(t)' = Hold(t) + 1
      /\ \A u : u # t => Hold(u)' = Hold(u)
  BY <1>0, <1>1, <1>5, Names, Gained
<1>7. (\A o : Pend(o)' = Pend(o)) /\ Short' /\ Joining' = Joining
  BY <1>0, <1>1, Same
<1>8. Cardinality(Alive)' = Cardinality(Alive) + 1 /\ Alive' = Alive \cup {t}
  <2>1. Alive' = Alive \cup {t} /\ t \notin Alive
    BY <1>1, <1>2 DEF Alive
  <2>2. IsFiniteSet(Alive) /\ Cardinality(Alive) \in Nat
    BY <1>0, Numbers
  <2>3. Cardinality(Alive \cup {t}) = Cardinality(Alive) + 1
    BY <2>1, <2>2, FS_AddElement
  <2> QED
    BY <2>1, <2>3
<1>9. TypeOK'
  BY <1>0, <1>1, <1>2, <1>4, <1>6 DEF TypeOK
<1>10. Counted'
  <2>1. ASSUME NEW u \in Tasks PROVE refs'[u] = Hold(u)' + Pend(u)' + Rank(phase'[u])
    <3>1. CASE u = t
      <4>1. Hold(u)' = 1 /\ Pend(u)' = 0 /\ Rank(phase'[u]) = 2 /\ refs'[u] = 3
        BY <1>2, <1>3, <1>4, <1>6, <1>7, <3>1 DEF Rank
      <4> QED
        BY <4>1
    <3>2. CASE u # t
      <4>1. Hold(u)' = Hold(u) /\ Pend(u)' = Pend(u) /\ phase'[u] = phase[u] /\ refs'[u] = refs[u]
        BY <1>2, <1>4, <1>6, <1>7, <3>2
      <4> QED
        BY <1>0, <4>1 DEF Counted
    <3> QED
      BY <3>1, <3>2
  <2>2. Cardinality(Alive) \in Nat /\ Cardinality(Joining) \in Nat
        /\ \A o : Hold(o) \in Nat /\ Pend(o) \in Nat
    BY <1>0, Numbers
  <2>3. Hold("scope")' = Hold("scope") /\ Hold("exec")' = Hold("exec")
    BY <1>6, Names
  <2>4. Pend("scope")' = Pend("scope") /\ Pend("exec")' = Pend("exec")
        /\ Cardinality(Joining)' = Cardinality(Joining)
    BY <1>7
  <2>5. refs'["scope"] = Hold("scope")' + Pend("scope")' + Cardinality(Alive)' + Cardinality(Joining)'
    BY <1>0, <1>4, <1>8, <2>2, <2>3, <2>4 DEF Counted
  <2>6. refs'["exec"] = Hold("exec")' + Pend("exec")' + Cardinality(Alive)'
                        + (IF "scope" \in freed' THEN 0 ELSE 1)
    BY <1>0, <1>1, <1>4, <1>8, <2>2, <2>3, <2>4 DEF Counted
  <2> QED
    BY <2>1, <2>5, <2>6 DEF Counted
<1>11. Disposals' /\ FreedOK'
  <2>1. \A u \in Tasks : phase'[u] = "ended" /\ refs'[u] = 0 <=> phase[u] = "ended" /\ refs[u] = 0
    BY <1>1, <1>2, <1>4
  <2>2. (refs'["scope"] = 0 <=> refs["scope"] = 0) /\ (refs'["exec"] = 0 <=> refs["exec"] = 0)
    BY <1>3, <1>4, Names
  <2> QED
    BY <1>0, <1>1, <1>7, <2>1, <2>2, FreedKept
<1>12. Linked'
  <2>1. published' = {u \in Tasks : phase'[u] = "ended"}
    BY <1>0, <1>1, <1>2 DEF Linked
  <2>2. Alive' \subseteq linked' /\ \A u \in linked' : phase'[u] # "none"
    BY <1>0, <1>1, <1>2, <1>8 DEF Linked, TypeOK
  <2>3. t \notin published
    BY <1>0, <1>1 DEF Linked
  <2>4. \A u \in linked' \cap published' : \E w \in Workers : job'[w] = u
    BY <1>0, <1>1, <2>3 DEF Linked
  <2>5. \A u \in Tasks : phase'[u] = "none" => refs'[u] = 0
    BY <1>0, <1>2, <1>4 DEF Linked
  <2> QED
    BY <2>1, <2>2, <2>4, <2>5 DEF Linked
<1>13. Jobs'
  <2>1. \A u \in Tasks : phase'[u] = "running" <=> phase[u] = "running"
    BY <1>1, <1>2
  <2> QED
    BY <1>0, <1>1, <2>1, JobsKept
<1>14. Calls'
  <2>1. ClientOK(c)'
    BY <1>0, <1>1 DEF Calls, ClientOK
  <2> QED
    BY <1>0, <1>1, <2>1, CallsKept
<1> QED
  BY <1>2, <1>7, <1>9, <1>10, <1>11, <1>12, <1>13, <1>14 DEF IInv

\* A retain of a handle for another client.
LEMMA RetainStep ==
    ASSUME ConstantsOK, IInv, NEW c \in Clients, NEW d \in Clients, NEW t \in Tasks, Retain(c, d, t)
    PROVE  IInv'
<1>0. TypeOK /\ Short /\ Counted /\ Disposals /\ FreedOK /\ Queued /\ Linked /\ Jobs /\ Calls
  BY DEF IInv
<1>1. /\ t \in holds[c] /\ t \notin holds[d]
      /\ refs' = [refs EXCEPT ![t] = @ + 1]
      /\ holds' = [holds EXCEPT ![d] = @ \cup {t}]
      /\ UNCHANGED <<freed, phase, published, linked, queue, shutdown, job, pc, todo>>
  BY DEF Retain
<1>2. refs \in [Objects -> Nat] /\ refs[t] >= 1
  BY <1>1, Owned
<1>3. /\ refs' \in [Objects -> Nat] /\ refs'[t] = refs[t] + 1
      /\ \A o \in Objects \ {t} : refs'[o] = refs[o]
  BY <1>1, <1>2, Names
<1>4. /\ holds' \in [Clients -> SUBSET Objects] /\ Hold(t)' = Hold(t) + 1
      /\ \A u : u # t => Hold(u)' = Hold(u)
  BY <1>0, <1>1, Names, Gained
<1>5. (\A o : Pend(o)' = Pend(o)) /\ Short' /\ Joining' = Joining /\ Alive' = Alive
  BY <1>0, <1>1, Same
<1>6. TypeOK'
  BY <1>0, <1>1, <1>3, <1>4 DEF TypeOK
<1>7. refs'["scope"] = refs["scope"] /\ refs'["exec"] = refs["exec"]
  BY <1>3, Names
<1>8. phase[t] # "none"
  BY <1>0, <1>2 DEF Linked
<1>9. Counted'
  <2>0. \A o : Hold(o) \in Nat /\ Pend(o) \in Nat
    BY <1>0, Numbers
  <2>1. ASSUME NEW u \in Tasks PROVE refs'[u] = Hold(u)' + Pend(u)' + Rank(phase'[u])
    <3>1. CASE u = t
      <4>1. refs[t] = Hold(t) + Pend(t) + Rank(phase[t]) /\ Rank(phase[t]) \in Nat
        BY <1>0 DEF Counted, Rank
      <4> QED
        BY <1>1, <1>3, <1>4, <1>5, <2>0, <3>1, <4>1
    <3>2. CASE u # t
      <4>1. Hold(u)' = Hold(u) /\ Pend(u)' = Pend(u) /\ phase'[u] = phase[u] /\ refs'[u] = refs[u]
        BY <1>1, <1>3, <1>4, <1>5, <3>2, Names
      <4> QED
        BY <1>0, <4>1 DEF Counted
    <3> QED
      BY <3>1, <3>2
  <2>2. Hold("scope")' = Hold("scope") /\ Hold("exec")' = Hold("exec")
    BY <1>4, Names
  <2>3. /\ Pend("scope")' = Pend("scope") /\ Pend("exec")' = Pend("exec") /\ freed' = freed
        /\ Cardinality(Joining)' = Cardinality(Joining) /\ Cardinality(Alive)' = Cardinality(Alive)
    BY <1>1, <1>5
  <2> QED
    BY <1>0, <1>7, <2>1, <2>2, <2>3 DEF Counted
<1>10. Disposals' /\ FreedOK'
  <2>1. \A u \in Tasks : refs'[u] = 0 <=> refs[u] = 0
    BY <1>2, <1>3, Names
  <2> QED
    BY <1>0, <1>1, <1>5, <1>7, <2>1, FreedKept
<1>11. Linked'
  <2>1. \A u \in Tasks : phase[u] = "none" => refs'[u] = refs[u]
    BY <1>3, <1>8, Names
  <2>2. linked \subseteq Tasks
    BY <1>0 DEF TypeOK
  <2> QED
    BY <1>0, <1>1, <1>5, <2>1, <2>2, LinkedKept
<1>12. Queued' /\ Jobs' /\ Calls'
  BY <1>0, <1>1 DEF Queued, Times, Jobs, WorkerOK, Unlinking, Calls, ClientOK
<1> QED
  BY <1>5, <1>6, <1>9, <1>10, <1>11, <1>12 DEF IInv

\* What a step that queues idle tasks does to everything but the client that takes it:
\* what is left are its own handles and operations.
LEMMA WakeStep ==
    ASSUME ConstantsOK, IInv, NEW ts \in SUBSET Tasks, \A t \in ts : phase[t] = "idle",
           Enqueue(ts),
           refs' \in [Objects -> Nat],
           \A t \in Tasks : refs'[t] = refs[t] + (IF t \in ts THEN 1 ELSE 0),
           refs'["scope"] = refs["scope"], refs'["exec"] = refs["exec"],
           UNCHANGED <<freed, published, linked, shutdown, job>>,
           NEW c \in Clients,
           \A x \in Threads \ {c} : pc'[x] = pc[x] /\ todo'[x] = todo[x],
           ClientOK(c)',
           pc' \in [Threads -> {"free", "join", "exited"}],
           todo' \in [Threads -> Seq(Objects \cup {"walk", "unlink", "disposeScope", "disposeExec"})],
           holds' \in [Clients -> SUBSET Objects], Short',
           \A o : o \in Tasks \cup {"exec", "disposeScope", "disposeExec"} => Pend(o)' = Pend(o),
           \A o : o # "scope" => Hold(o)' = Hold(o),
           refs["scope"] = Hold("scope")' + Pend("scope")' + Cardinality(Alive) + Cardinality(Joining)'
    PROVE  IInv'
<1>0. TypeOK /\ Short /\ Counted /\ Disposals /\ FreedOK /\ Queued /\ Linked /\ Jobs /\ Calls
  BY DEF IInv
<1>1. /\ queue' \in Seq(Tasks) /\ Queued'
      /\ phase' \in [Tasks -> {"none", "queued", "running", "idle", "ended"}]
      /\ Alive' = Alive
      /\ \A t \in Tasks : /\ phase'[t] = "ended" <=> phase[t] = "ended"
                          /\ phase'[t] = "none" <=> phase[t] = "none"
                          /\ phase'[t] = "running" <=> phase[t] = "running"
                          /\ Rank(phase'[t]) = Rank(phase[t]) + (IF t \in ts THEN 1 ELSE 0)
  BY Woken
<1>2. TypeOK'
  BY <1>0, <1>1 DEF TypeOK
<1>3. /\ \A o : Hold(o) \in Nat /\ Pend(o) \in Nat
      /\ Cardinality(Alive) \in Nat /\ Cardinality(Joining) \in Nat
  BY <1>0, Numbers
<1>4. Counted'
  <2>1. ASSUME NEW t \in Tasks PROVE refs'[t] = Hold(t)' + Pend(t)' + Rank(phase'[t])
    <3>1. Hold(t)' = Hold(t) /\ Pend(t)' = Pend(t)
      BY Names
    <3>2. refs[t] = Hold(t) + Pend(t) + Rank(phase[t]) /\ Rank(phase[t]) \in Nat
      BY <1>0 DEF Counted, Rank
    <3>3. CASE t \in ts
      BY <1>1, <1>3, <3>1, <3>2, <3>3
    <3>4. CASE t \notin ts
      BY <1>1, <1>3, <3>1, <3>2, <3>4
    <3> QED
      BY <3>3, <3>4
  <2>2. Hold("exec")' = Hold("exec") /\ Pend("exec")' = Pend("exec")
        /\ Cardinality(Alive)' = Cardinality(Alive)
    BY <1>1
  <2>3. refs'["exec"] = Hold("exec")' + Pend("exec")' + Cardinality(Alive)'
                        + (IF "scope" \in freed' THEN 0 ELSE 1)
    BY <1>0, <2>2 DEF Counted
  <2>5. refs'["scope"] = Hold("scope")' + Pend("scope")' + Cardinality(Alive)' + Cardinality(Joining)'
    BY <2>2
  <2> QED
    BY <2>1, <2>3, <2>5 DEF Counted
<1>5. \A w \in Workers : w \in Threads \ {c}
  BY Names
<1>6. \A t \in ts : phase[t] # "none" /\ phase[t] # "ended"
  OBVIOUS
<1>7. Disposals' /\ FreedOK'
  <2>1. ASSUME NEW t \in Tasks
        PROVE  phase'[t] = "ended" /\ refs'[t] = 0 <=> phase[t] = "ended" /\ refs[t] = 0
    <3>1. CASE t \in ts
      BY <1>1, <1>6, <3>1
    <3>2. CASE t \notin ts
      <4>1. refs'[t] = refs[t] + 0 /\ refs[t] \in Nat
        BY <1>0, <3>2, Names DEF TypeOK
      <4> QED
        BY <1>1, <4>1
    <3> QED
      BY <3>1, <3>2
  <2>2. Pend("disposeScope")' = Pend("disposeScope") /\ Pend("disposeExec")' = Pend("disposeExec")
    OBVIOUS
  <2> QED
    BY <1>0, <1>5, <2>1, <2>2, FreedKept
<1>8. Linked'
  <2>1. ASSUME NEW t \in Tasks, phase[t] = "none" PROVE refs'[t] = refs[t]
    <3>1. refs'[t] = refs[t] + 0 /\ refs[t] \in Nat
      BY <1>0, <1>6, <2>1, Names DEF TypeOK
    <3> QED
      BY <3>1
  <2>2. linked \subseteq Tasks
    BY <1>0 DEF TypeOK
  <2> QED
    BY <1>0, <1>1, <2>1, <2>2, LinkedKept
<1>9. Jobs'
  BY <1>0, <1>1, <1>5, JobsKept
<1>10. Calls'
  <2>1. \A d \in Clients \ {c} : pc'[d] = pc[d] /\ todo'[d] = todo[d]
    BY Names
  <2> QED
    BY <1>0, <2>1, CallsKept
<1> QED
  BY <1>1, <1>2, <1>4, <1>7, <1>8, <1>9, <1>10 DEF IInv

\* task_wake
LEMMA WakeOne ==
    ASSUME ConstantsOK, IInv, NEW c \in Clients, NEW t \in Tasks, Wake(c, t)
    PROVE  IInv'
<1>0. TypeOK /\ Short /\ Counted /\ Calls
  BY DEF IInv
<1>1. /\ phase[t] = "idle" /\ Enqueue({t}) /\ refs' = [refs EXCEPT ![t] = @ + 1]
      /\ UNCHANGED <<freed, published, linked, shutdown, holds, job, pc, todo>>
  BY DEF Wake
<1>2. /\ refs' \in [Objects -> Nat]
      /\ \A u \in Tasks : refs'[u] = refs[u] + (IF u \in {t} THEN 1 ELSE 0)
      /\ refs'["scope"] = refs["scope"] /\ refs'["exec"] = refs["exec"]
  BY <1>0, <1>1, Names DEF TypeOK
<1>3. (\A o : Pend(o)' = Pend(o) /\ Hold(o)' = Hold(o)) /\ Short' /\ Joining' = Joining
  BY <1>0, <1>1, Same
<1>4. ClientOK(c)'
  BY <1>0, <1>1 DEF Calls, ClientOK
<1>5. /\ pc' \in [Threads -> {"free", "join", "exited"}]
      /\ todo' \in [Threads -> Seq(Objects \cup {"walk", "unlink", "disposeScope", "disposeExec"})]
      /\ holds' \in [Clients -> SUBSET Objects]
  BY <1>0, <1>1 DEF TypeOK
<1>6. refs["scope"] = Hold("scope")' + Pend("scope")' + Cardinality(Alive) + Cardinality(Joining)'
  BY <1>0, <1>3 DEF Counted
<1>7. {t} \in SUBSET Tasks /\ \A u \in {t} : phase[u] = "idle"
  BY <1>1
<1>8. \A x \in Threads \ {c} : pc'[x] = pc[x] /\ todo'[x] = todo[x]
  BY <1>1
<1> QED
  BY <1>1, <1>2, <1>3, <1>4, <1>5, <1>6, <1>7, <1>8, WakeStep

\* The walk of request_cancel_tree over the scope's tasks.
LEMMA CancelWalkStep ==
    ASSUME ConstantsOK, IInv, NEW c \in Clients, CancelWalk(c)
    PROVE  IInv'
<1>0. TypeOK /\ Short /\ Counted /\ Calls /\ linked \subseteq Tasks
  BY DEF IInv, TypeOK
<1>1. /\ todo[c] # <<>> /\ Head(todo[c]) = "walk"
      /\ todo' = [todo EXCEPT ![c] = Tail(todo[c])]
      /\ UNCHANGED <<freed, published, linked, shutdown, holds, job, pc>>
  BY DEF CancelWalk, Do
<1>2. PICK ts \in SUBSET {t \in linked : phase[t] = "idle"} :
        Enqueue(ts) /\ refs' = [o \in Objects |-> IF o \in ts THEN refs[o] + 1 ELSE refs[o]]
  BY DEF CancelWalk
<1>3. ts \in SUBSET Tasks /\ \A t \in ts : phase[t] = "idle"
  BY <1>0
<1>4. /\ refs' \in [Objects -> Nat]
      /\ \A u \in Tasks : refs'[u] = refs[u] + (IF u \in ts THEN 1 ELSE 0)
      /\ refs'["scope"] = refs["scope"] /\ refs'["exec"] = refs["exec"]
  <2>1. refs \in [Objects -> Nat] /\ "scope" \notin ts /\ "exec" \notin ts
    BY <1>0, <1>3, Names DEF TypeOK
  <2> QED
    BY <1>2, <2>1, Names
<1>5. ClientOK(c) /\ c \in Threads /\ pc'[c] = pc[c]
  BY <1>0, <1>1, Names DEF Calls
<1>6. todo[c] = <<"walk", "scope">>
  <2>1. todo[c] \in Seq(Ops)
    BY <1>0, <1>5, Numbers
  <2>2. 1 \in DOMAIN todo[c] /\ todo[c][1] = "walk"
    BY <1>1, <2>1, EmptySeq, LenProperties
  <2>3. ~IsPlain(todo[c])
    BY <2>2 DEF IsPlain
  <2> QED
    BY <1>5, <2>3 DEF ClientOK
<1>7. /\ Tail(todo[c]) \in Seq(Ops) /\ Len(Tail(todo[c])) <= 5
      /\ \A o : o # "walk" => Pend(o)' = Pend(o)
  <2>1. Tail(todo[c]) \in Seq(Ops) /\ Len(Tail(todo[c])) <= 5
    BY <1>0, <1>1, <1>5, Popped
  <2>2. ASSUME NEW o, o # "walk" PROVE Pend(o)' = Pend(o)
    <3>1. Pend(o)' = Pend(o) - 0
      BY <1>0, <1>1, <1>5, <2>2, Popped
    <3>2. Pend(o) \in Nat
      BY <1>0, Numbers
    <3> QED
      BY <3>1, <3>2
  <2> QED
    BY <2>1, <2>2
<1>8. /\ todo' \in [Threads -> Seq(Objects \cup {"walk", "unlink", "disposeScope", "disposeExec"})]
      /\ Short' /\ todo'[c] = Tail(todo[c]) /\ \A y \in Threads \ {c} : todo'[y] = todo[y]
  BY <1>0, <1>1, <1>5, <1>7, TodoType
<1>9. ClientOK(c)'
  <2>1. todo'[c] = <<"scope">> /\ pc[c] # "join"
    BY <1>1, <1>5, <1>6, <1>8 DEF ClientOK
  <2>2. pc'[c] \in {"free", "join"} /\ pc'[c] # "join"
    BY <1>5, <2>1 DEF ClientOK
  <2>3. IsPlain(<<"scope">>)
    BY DEF IsPlain
  <2> QED
    BY <2>1, <2>2, <2>3 DEF ClientOK, IsPlain
<1>10. (\A o : Hold(o)' = Hold(o)) /\ Joining' = Joining
  BY <1>1, Same
<1>11. pc' \in [Threads -> {"free", "join", "exited"}] /\ holds' \in [Clients -> SUBSET Objects]
  BY <1>0, <1>1 DEF TypeOK
<1>12. \A o : o \in Tasks \cup {"exec", "disposeScope", "disposeExec"} => Pend(o)' = Pend(o)
  BY <1>7, Names
<1>13. refs["scope"] = Hold("scope")' + Pend("scope")' + Cardinality(Alive) + Cardinality(Joining)'
  <2>1. Pend("scope")' = Pend("scope")
    BY <1>7
  <2> QED
    BY <1>0, <1>10, <2>1 DEF Counted
<1>14. \A x \in Threads \ {c} : pc'[x] = pc[x] /\ todo'[x] = todo[x]
  BY <1>1, <1>8
<1> QED
  BY <1>1, <1>2, <1>3, <1>4, <1>8, <1>9, <1>10, <1>11, <1>12, <1>13, <1>14, WakeStep

\* scope_release as far as its join.
LEMMA ScopeReleaseStep ==
    ASSUME ConstantsOK, IInv, NEW c \in Clients, ScopeRelease(c)
    PROVE  IInv'
<1>0. TypeOK /\ Short /\ Counted /\ Calls /\ linked \subseteq Tasks
  BY DEF IInv, TypeOK
<1> DEFINE ts == {t \in linked : phase[t] = "idle"}
<1>1. /\ pc[c] = "free" /\ todo[c] = <<>> /\ "scope" \in holds[c]
      /\ holds' = [holds EXCEPT ![c] = @ \ {"scope"}]
      /\ Enqueue(ts)
      /\ refs' = [o \in Objects |-> IF o \in ts THEN refs[o] + 1 ELSE refs[o]]
      /\ pc' = [pc EXCEPT ![c] = "join"]
      /\ UNCHANGED <<freed, published, linked, shutdown, job, todo>>
  BY DEF ScopeRelease, Idle
<1>3. ts \in SUBSET Tasks /\ \A t \in ts : phase[t] = "idle"
  BY <1>0
<1> HIDE DEF ts
<1>4. /\ refs' \in [Objects -> Nat]
      /\ \A u \in Tasks : refs'[u] = refs[u] + (IF u \in ts THEN 1 ELSE 0)
      /\ refs'["scope"] = refs["scope"] /\ refs'["exec"] = refs["exec"]
  <2>1. refs \in [Objects -> Nat] /\ "scope" \notin ts /\ "exec" \notin ts
    BY <1>0, <1>3, Names DEF TypeOK
  <2> QED
    BY <1>1, <2>1, Names
<1>5. /\ pc' \in [Threads -> {"free", "join", "exited"}] /\ pc'[c] = "join"
      /\ \A x \in Threads \ {c} : pc'[x] = pc[x]
  BY <1>0, <1>1, Names DEF TypeOK
<1>6. ClientOK(c)'
  BY <1>1, <1>5 DEF ClientOK, IsPlain
<1>7. (\A o : Pend(o)' = Pend(o)) /\ Short'
  BY <1>0, <1>1, Same
<1>8. /\ holds' \in [Clients -> SUBSET Objects] /\ Hold("scope")' = Hold("scope") - 1
      /\ \A u : u # "scope" => Hold(u)' = Hold(u)
  BY <1>0, <1>1, Names, Lost
<1>9. Cardinality(Joining)' = Cardinality(Joining) + 1
  <2>1. Joining' = Joining \cup {c} /\ c \notin Joining
    BY <1>1, <1>5, Names DEF Joining
  <2>2. IsFiniteSet(Joining)
    BY <1>0, Numbers
  <2>3. Cardinality(Joining \cup {c}) = Cardinality(Joining) + 1
    BY <2>1, <2>2, FS_AddElement
  <2> QED
    BY <2>1, <2>3
<1>10. refs["scope"] = Hold("scope")' + Pend("scope")' + Cardinality(Alive) + Cardinality(Joining)'
  <2>1. Pend("scope")' = Pend("scope")
    BY <1>7
  <2>2. /\ Hold("scope") \in Nat /\ Pend("scope") \in Nat
        /\ Cardinality(Alive) \in Nat /\ Cardinality(Joining) \in Nat
    BY <1>0, Numbers
  <2>3. refs["scope"] = Hold("scope") + Pend("scope") + Cardinality(Alive) + Cardinality(Joining)
    BY <1>0 DEF Counted
  <2> QED
    BY <1>8, <1>9, <2>1, <2>2, <2>3
<1>11. todo' \in [Threads -> Seq(Objects \cup {"walk", "unlink", "disposeScope", "disposeExec"})]
  BY <1>0, <1>1 DEF TypeOK
<1>12. \A x \in Threads \ {c} : pc'[x] = pc[x] /\ todo'[x] = todo[x]
  BY <1>1, <1>5
<1> QED
  BY <1>1, <1>3, <1>4, <1>5, <1>6, <1>7, <1>8, <1>10, <1>11, <1>12, WakeStep

\* What a step of a client that moves its own references only has to show.
LEMMA CallStep ==
    ASSUME ConstantsOK, IInv, NEW c \in Clients,
           UNCHANGED <<freed, phase, published, linked, queue, shutdown, job>>,
           \A x \in Threads \ {c} : pc'[x] = pc[x] /\ todo'[x] = todo[x],
           ClientOK(c)',
           pc' \in [Threads -> {"free", "join", "exited"}],
           todo' \in [Threads -> Seq(Objects \cup {"walk", "unlink", "disposeScope", "disposeExec"})],
           holds' \in [Clients -> SUBSET Objects], Short',
           refs' \in [Objects -> Nat],
           \A o \in Objects : refs'[o] = 0 <=> refs[o] = 0,
           Pend("disposeScope")' = Pend("disposeScope"), Pend("disposeExec")' = Pend("disposeExec"),
           Counted'
    PROVE  IInv'
<1>0. TypeOK /\ Short /\ Counted /\ Disposals /\ FreedOK /\ Queued /\ Linked /\ Jobs /\ Calls
  BY DEF IInv
<1>1. TypeOK'
  BY <1>0 DEF TypeOK
<1>2. \A w \in Workers : w \in Threads \ {c}
  BY Names
<1>3. Disposals' /\ FreedOK'
  <2>1. \A t \in Tasks : refs'[t] = 0 <=> refs[t] = 0
    BY Names
  <2>2. (refs'["scope"] = 0 <=> refs["scope"] = 0) /\ (refs'["exec"] = 0 <=> refs["exec"] = 0)
    BY Names
  <2> QED
    BY <1>0, <1>2, <2>1, <2>2, FreedKept
<1>4. Linked'
  <2>1. \A t \in Tasks : phase[t] = "none" => refs[t] = 0 /\ refs'[t] = refs[t]
    BY <1>0, Names DEF Linked
  <2>2. linked \subseteq Tasks /\ Alive' = Alive
    BY <1>0, Same DEF TypeOK
  <2> QED
    BY <1>0, <2>1, <2>2, LinkedKept
<1>5. Jobs'
  BY <1>0, <1>2, JobsKept
<1>6. Calls'
  <2>1. \A d \in Clients \ {c} : pc'[d] = pc[d] /\ todo'[d] = todo[d]
    BY Names
  <2> QED
    BY <1>0, <2>1, CallsKept
<1>7. Queued'
  BY <1>0 DEF Queued, Times
<1> QED
  BY <1>1, <1>3, <1>4, <1>5, <1>6, <1>7 DEF IInv

\* request_cancel_tree retains the scope.
LEMMA CancelTreeStep ==
    ASSUME ConstantsOK, IInv, NEW c \in Clients, NEW t \in Tasks, CancelTree(c, t)
    PROVE  IInv'
<1>0. TypeOK /\ Short /\ Counted /\ Linked /\ Calls
  BY DEF IInv
<1> DEFINE s == <<"walk", "scope">>
<1>1. /\ pc[c] = "free" /\ todo[c] = <<>> /\ t \notin published /\ t \in linked
      /\ refs' = [refs EXCEPT !["scope"] = @ + 1]
      /\ todo' = [todo EXCEPT ![c] = s]
      /\ UNCHANGED <<freed, phase, published, linked, queue, shutdown, holds, job, pc>>
  BY DEF CancelTree, Idle, Do
<1>2. refs \in [Objects -> Nat] /\ refs["scope"] >= 1
  <2>1. t \in Alive
    BY <1>0, <1>1 DEF Linked, Alive, TypeOK
  <2> QED
    BY <2>1, Owned
<1>3. /\ refs' \in [Objects -> Nat] /\ refs'["scope"] = refs["scope"] + 1
      /\ \A o \in Objects \ {"scope"} : refs'[o] = refs[o]
  BY <1>1, <1>2, Names
<1>4. c \in Threads /\ s \in Seq(Ops) /\ Len(s) <= 5
  BY Names, ShortCounts
<1> HIDE DEF s
<1>5. /\ todo' \in [Threads -> Seq(Objects \cup {"walk", "unlink", "disposeScope", "disposeExec"})]
      /\ Short' /\ todo'[c] = s /\ \A y \in Threads \ {c} : todo'[y] = todo[y]
  BY <1>0, <1>1, <1>4, TodoType
<1>6. \A o : Pend(o)' = Pend(o) + (IF o \in {"walk", "scope"} THEN 1 ELSE 0)
  <2> SUFFICES ASSUME NEW o PROVE Pend(o)' = Pend(o) + (IF o \in {"walk", "scope"} THEN 1 ELSE 0)
    OBVIOUS
  <2>1. Times(s, o) = (IF o \in {"walk", "scope"} THEN 1 ELSE 0)
    BY Names, ShortCounts DEF s
  <2>2. Pend(o)' = Pend(o) + Times(s, o)
    BY <1>0, <1>1, <1>4, Pushed
  <2> QED
    BY <2>1, <2>2
<1>7. Pend("scope")' = Pend("scope") + 1 /\ \A o : o \notin {"walk", "scope"} => Pend(o)' = Pend(o)
  <2>1. \A o : Pend(o) \in Nat
    BY <1>0, Numbers
  <2> QED
    BY <1>6, <2>1
<1>8. (\A o : Hold(o)' = Hold(o)) /\ Joining' = Joining /\ Alive' = Alive
  BY <1>1, Same
<1>9. Counted'
  <2>1. ASSUME NEW u \in Tasks PROVE refs'[u] = Hold(u)' + Pend(u)' + Rank(phase'[u])
    <3>1. Hold(u)' = Hold(u) /\ Pend(u)' = Pend(u) /\ phase' = phase /\ refs'[u] = refs[u]
      BY <1>1, <1>3, <1>7, <1>8, Names
    <3> QED
      BY <1>0, <3>1 DEF Counted
  <2>2. Hold("scope")' = Hold("scope") /\ Hold("exec")' = Hold("exec") /\ Pend("exec")' = Pend("exec")
    BY <1>7, <1>8
  <2>3. /\ Hold("scope") \in Nat /\ Pend("scope") \in Nat
        /\ Cardinality(Alive) \in Nat /\ Cardinality(Joining) \in Nat
    BY <1>0, Numbers
  <2>4. refs'["exec"] = refs["exec"]
    BY <1>3, Names
  <2>5. Cardinality(Alive)' = Cardinality(Alive) /\ Cardinality(Joining)' = Cardinality(Joining)
    BY <1>8
  <2>6. refs'["scope"] = Hold("scope")' + Pend("scope")' + Cardinality(Alive)' + Cardinality(Joining)'
    BY <1>0, <1>3, <1>7, <2>2, <2>3, <2>5 DEF Counted
  <2>7. refs'["exec"] = Hold("exec")' + Pend("exec")' + Cardinality(Alive)'
                        + (IF "scope" \in freed' THEN 0 ELSE 1)
    BY <1>0, <1>1, <2>2, <2>4, <2>5 DEF Counted
  <2> QED
    BY <2>1, <2>6, <2>7 DEF Counted
<1>10. ClientOK(c)'
  <2>1. pc'[c] = "free" /\ todo'[c] = <<"walk", "scope">>
    BY <1>1, <1>5 DEF s
  <2> QED
    BY <2>1 DEF ClientOK
<1>11. \A o \in Objects : refs'[o] = 0 <=> refs[o] = 0
  BY <1>2, <1>3
<1>12. pc' \in [Threads -> {"free", "join", "exited"}] /\ holds' \in [Clients -> SUBSET Objects]
  BY <1>0, <1>1 DEF TypeOK
<1>13. \A x \in Threads \ {c} : pc'[x] = pc[x] /\ todo'[x] = todo[x]
  BY <1>1, <1>5
<1>14. Pend("disposeScope")' = Pend("disposeScope") /\ Pend("disposeExec")' = Pend("disposeExec")
  BY <1>7
<1> QED
  BY <1>1, <1>3, <1>5, <1>9, <1>10, <1>11, <1>12, <1>13, <1>14, CallStep

\* A release of an owned handle of a task or of the executor.
LEMMA ReleaseHandleStep ==
    ASSUME ConstantsOK, IInv, NEW c \in Clients, NEW o \in Objects, ReleaseHandle(c, o)
    PROVE  IInv'
<1>0. TypeOK /\ Short /\ Counted /\ Calls
  BY DEF IInv
<1> DEFINE s == <<o>>
<1>1. /\ pc[c] = "free" /\ todo[c] = <<>> /\ o \in holds[c] /\ o # "scope"
      /\ holds' = [holds EXCEPT ![c] = @ \ {o}]
      /\ todo' = [todo EXCEPT ![c] = s]
      /\ UNCHANGED <<refs, freed, phase, published, linked, queue, shutdown, job, pc>>
  BY DEF ReleaseHandle, Idle, Do
<1>2. /\ holds' \in [Clients -> SUBSET Objects] /\ Hold(o)' = Hold(o) - 1
      /\ \A u : u # o => Hold(u)' = Hold(u)
  BY <1>0, <1>1, Lost
<1>4. c \in Threads /\ s \in Seq(Ops) /\ Len(s) <= 5
  BY Names
<1> HIDE DEF s
<1>5. /\ todo' \in [Threads -> Seq(Objects \cup {"walk", "unlink", "disposeScope", "disposeExec"})]
      /\ Short' /\ todo'[c] = s /\ \A y \in Threads \ {c} : todo'[y] = todo[y]
  BY <1>0, <1>1, <1>4, TodoType
<1>6. \A u : Pend(u)' = Pend(u) + (IF u = o THEN 1 ELSE 0)
  <2> SUFFICES ASSUME NEW u PROVE Pend(u)' = Pend(u) + (IF u = o THEN 1 ELSE 0)
    OBVIOUS
  <2>1. Times(s, u) = Times(<<>>, u) + (IF o = u THEN 1 ELSE 0)
    <3>1. s # <<>> /\ Head(s) = o /\ Tail(s) = <<>>
      BY DEF s
    <3> QED
      BY <1>4, <3>1, TimesTail
  <2>3. Times(<<>>, u) = 0
    BY FS_EmptySet DEF Times
  <2>2. Pend(u)' = Pend(u) + Times(s, u)
    BY <1>0, <1>1, <1>4, Pushed
  <2> QED
    BY <2>1, <2>2, <2>3
<1>7. Pend(o)' = Pend(o) + 1 /\ \A u : u # o => Pend(u)' = Pend(u)
  <2>1. \A u : Pend(u) \in Nat
    BY <1>0, Numbers
  <2> QED
    BY <1>6, <2>1
<1>8. Joining' = Joining /\ Alive' = Alive
  BY <1>1, Same
<1>9. \A u : Hold(u)' + Pend(u)' = Hold(u) + Pend(u)
  <2>1. \A u : Pend(u) \in Nat /\ Hold(u) \in Nat
    BY <1>0, Numbers
  <2> SUFFICES ASSUME NEW u PROVE Hold(u)' + Pend(u)' = Hold(u) + Pend(u)
    OBVIOUS
  <2>2. CASE u = o
    BY <1>2, <1>7, <2>1, <2>2
  <2>3. CASE u # o
    BY <1>2, <1>7, <2>1, <2>3
  <2> QED
    BY <2>2, <2>3
<1>10. Counted'
  <2>1. ASSUME NEW u \in Tasks PROVE refs'[u] = Hold(u)' + Pend(u)' + Rank(phase'[u])
    BY <1>0, <1>1, <1>9 DEF Counted
  <2>2. /\ Hold("scope")' + Pend("scope")' = Hold("scope") + Pend("scope")
        /\ Hold("exec")' + Pend("exec")' = Hold("exec") + Pend("exec")
    BY <1>9
  <2>5. Cardinality(Alive)' = Cardinality(Alive) /\ Cardinality(Joining)' = Cardinality(Joining)
    BY <1>8
  <2>6. refs'["scope"] = Hold("scope")' + Pend("scope")' + Cardinality(Alive)' + Cardinality(Joining)'
    BY <1>0, <1>1, <2>2, <2>5 DEF Counted
  <2>7. refs'["exec"] = Hold("exec")' + Pend("exec")' + Cardinality(Alive)'
                        + (IF "scope" \in freed' THEN 0 ELSE 1)
    BY <1>0, <1>1, <2>2, <2>5 DEF Counted
  <2> QED
    BY <2>1, <2>6, <2>7 DEF Counted
<1>11. ClientOK(c)'
  <2>1. pc'[c] = "free" /\ todo'[c] = <<o>> /\ o \notin {"walk", "unlink"}
    BY <1>1, <1>5, Names DEF s
  <2>2. IsPlain(<<o>>)
    BY <2>1 DEF IsPlain
  <2> QED
    BY <2>1, <2>2 DEF ClientOK, IsPlain
<1>12. refs' \in [Objects -> Nat] /\ pc' \in [Threads -> {"free", "join", "exited"}]
  BY <1>0, <1>1 DEF TypeOK
<1>13. \A x \in Threads \ {c} : pc'[x] = pc[x] /\ todo'[x] = todo[x]
  BY <1>1, <1>5
<1>14. Pend("disposeScope")' = Pend("disposeScope") /\ Pend("disposeExec")' = Pend("disposeExec")
  BY <1>7, Names
<1> QED
  BY <1>1, <1>2, <1>5, <1>10, <1>11, <1>12, <1>13, <1>14, CallStep

\* The join of scope_release finds no task left.
LEMMA ScopeJoinStep ==
    ASSUME ConstantsOK, IInv, NEW c \in Clients, ScopeJoin(c)
    PROVE  IInv'
<1>0. TypeOK /\ Short /\ Counted /\ Calls
  BY DEF IInv
<1> DEFINE s == <<"scope">>
<1>1. /\ pc[c] = "join" /\ pc' = [pc EXCEPT ![c] = "free"]
      /\ todo' = [todo EXCEPT ![c] = s]
      /\ UNCHANGED <<refs, freed, phase, published, linked, queue, shutdown, holds, job>>
  BY DEF ScopeJoin, Do
<1>2. c \in Threads /\ s \in Seq(Ops) /\ Len(s) <= 5 /\ todo[c] = <<>>
  BY <1>0, <1>1, Names DEF Calls, ClientOK
<1> HIDE DEF s
<1>3. /\ pc' \in [Threads -> {"free", "join", "exited"}] /\ pc'[c] = "free"
      /\ \A x \in Threads \ {c} : pc'[x] = pc[x]
  BY <1>0, <1>1, <1>2 DEF TypeOK
<1>4. Cardinality(Joining)' = Cardinality(Joining) - 1
  <2>1. Joining' = Joining \ {c} /\ c \in Joining
    BY <1>1, <1>3, Names DEF Joining
  <2>2. IsFiniteSet(Joining)
    BY <1>0, Numbers
  <2>3. Cardinality(Joining \ {c}) = Cardinality(Joining) - 1
    BY <2>1, <2>2, FS_RemoveElement
  <2> QED
    BY <2>1, <2>3
<1>5. /\ todo' \in [Threads -> Seq(Objects \cup {"walk", "unlink", "disposeScope", "disposeExec"})]
      /\ Short' /\ todo'[c] = s /\ \A y \in Threads \ {c} : todo'[y] = todo[y]
  BY <1>0, <1>1, <1>2, TodoType
<1>6. \A u : Pend(u)' = Pend(u) + (IF u = "scope" THEN 1 ELSE 0)
  <2> SUFFICES ASSUME NEW u PROVE Pend(u)' = Pend(u) + (IF u = "scope" THEN 1 ELSE 0)
    OBVIOUS
  <2>1. Times(s, u) = Times(<<>>, u) + (IF "scope" = u THEN 1 ELSE 0)
    <3>1. s # <<>> /\ Head(s) = "scope" /\ Tail(s) = <<>>
      BY DEF s
    <3> QED
      BY <1>2, <3>1, TimesTail
  <2>3. Times(<<>>, u) = 0
    BY FS_EmptySet DEF Times
  <2>2. Pend(u)' = Pend(u) + Times(s, u)
    BY <1>0, <1>1, <1>2, Pushed
  <2> QED
    BY <2>1, <2>2, <2>3
<1>7. Pend("scope")' = Pend("scope") + 1 /\ \A u : u # "scope" => Pend(u)' = Pend(u)
  <2>1. \A u : Pend(u) \in Nat
    BY <1>0, Numbers
  <2> QED
    BY <1>6, <2>1
<1>8. (\A u : Hold(u)' = Hold(u)) /\ Alive' = Alive
  BY <1>1, Same
<1>10. Counted'
  <2>1. ASSUME NEW u \in Tasks PROVE refs'[u] = Hold(u)' + Pend(u)' + Rank(phase'[u])
    <3>1. Hold(u)' = Hold(u) /\ Pend(u)' = Pend(u) /\ phase' = phase /\ refs'[u] = refs[u]
      BY <1>1, <1>7, <1>8, Names
    <3> QED
      BY <1>0, <3>1 DEF Counted
  <2>2. Hold("scope")' = Hold("scope") /\ Hold("exec")' = Hold("exec") /\ Pend("exec")' = Pend("exec")
    BY <1>7, <1>8
  <2>3. /\ Hold("scope") \in Nat /\ Pend("scope") \in Nat
        /\ Cardinality(Alive) \in Nat /\ Cardinality(Joining) \in Nat
    BY <1>0, Numbers
  <2>5. Cardinality(Alive)' = Cardinality(Alive)
    BY <1>8
  <2>6. refs'["scope"] = Hold("scope")' + Pend("scope")' + Cardinality(Alive)' + Cardinality(Joining)'
    BY <1>0, <1>1, <1>4, <1>7, <2>2, <2>3, <2>5 DEF Counted
  <2>7. refs'["exec"] = Hold("exec")' + Pend("exec")' + Cardinality(Alive)'
                        + (IF "scope" \in freed' THEN 0 ELSE 1)
    BY <1>0, <1>1, <2>2, <2>5 DEF Counted
  <2> QED
    BY <2>1, <2>6, <2>7 DEF Counted
<1>11. ClientOK(c)'
  <2>1. pc'[c] = "free" /\ todo'[c] = <<"scope">>
    BY <1>3, <1>5 DEF s
  <2>2. IsPlain(<<"scope">>)
    BY DEF IsPlain
  <2> QED
    BY <2>1, <2>2 DEF ClientOK, IsPlain
<1>12. refs' \in [Objects -> Nat] /\ holds' \in [Clients -> SUBSET Objects]
  BY <1>0, <1>1 DEF TypeOK
<1>13. \A x \in Threads \ {c} : pc'[x] = pc[x] /\ todo'[x] = todo[x]
  BY <1>3, <1>5
<1>14. Pend("disposeScope")' = Pend("disposeScope") /\ Pend("disposeExec")' = Pend("disposeExec")
  BY <1>7
<1> QED
  BY <1>1, <1>3, <1>5, <1>10, <1>11, <1>12, <1>13, <1>14, CallStep

-----------------------------------------------------------------------------
(* Releases and disposals *)

\* A thread with only releases and disposals before it has only such after one of them.
LEMMA PlainTail ==
    ASSUME NEW s \in Seq(Ops), s # <<>>, IsPlain(s)
    PROVE  /\ IsPlain(Tail(s)) /\ Head(s) \notin {"walk", "unlink"}
           /\ \A u \in Ops \ {"walk", "unlink"} : IsPlain(<<u>> \o Tail(s))
<1> DEFINE r == Tail(s)
<1>1. /\ r \in Seq(Ops) /\ Len(r) = Len(s) - 1 /\ Len(s) \in Nat \ {0}
      /\ \A i \in 1..Len(r) : r[i] = s[i + 1]
      /\ DOMAIN r = 1..Len(r) /\ DOMAIN s = 1..Len(s) /\ Head(s) = s[1]
  <2>1. /\ r \in Seq(Ops) /\ Len(r) = Len(s) - 1
        /\ \A i \in 1..Len(r) : r[i] = s[i + 1]
    BY HeadTailProperties
  <2>2. Len(s) \in Nat \ {0} /\ DOMAIN s = 1..Len(s)
    BY LenProperties, EmptySeq
  <2>3. DOMAIN r = 1..Len(r)
    BY <2>1, LenProperties
  <2> QED
    BY <2>1, <2>2, <2>3
<1> HIDE DEF r
<1>2. \A i \in DOMAIN r : r[i] \notin {"walk", "unlink"}
  <2> SUFFICES ASSUME NEW i \in DOMAIN r PROVE r[i] \notin {"walk", "unlink"}
    OBVIOUS
  <2>1. i + 1 \in DOMAIN s /\ r[i] = s[i + 1]
    BY <1>1
  <2> QED
    BY <2>1 DEF IsPlain
<1>3. Head(s) \notin {"walk", "unlink"}
  BY <1>1 DEF IsPlain
<1>4. ASSUME NEW u \in Ops \ {"walk", "unlink"} PROVE IsPlain(<<u>> \o r)
  <2> DEFINE k == <<u>> \o r
  <2>0. <<u>> \in Seq(Ops) /\ Len(<<u>>) = 1 /\ <<u>>[1] = u
    OBVIOUS
  <2>1. /\ k \in Seq(Ops) /\ Len(k) = 1 + Len(r)
        /\ \A i \in 1..(1 + Len(r)) : k[i] = IF i <= 1 THEN u ELSE r[i - 1]
    BY <1>1, <2>0, ConcatProperties
  <2>2. DOMAIN k = 1..(1 + Len(r)) /\ Len(r) \in Nat
    BY <1>1, <2>1, LenProperties
  <2> HIDE DEF k
  <2>3. ASSUME NEW i \in DOMAIN k PROVE k[i] \notin {"walk", "unlink"}
    <3>1. CASE i <= 1
      BY <2>1, <2>2, <3>1
    <3>2. CASE i > 1
      <4>1. i - 1 \in DOMAIN r /\ k[i] = r[i - 1]
        BY <1>1, <2>1, <2>2, <3>2
      <4> QED
        BY <1>2, <4>1
    <3> QED
      BY <2>2, <3>1, <3>2
  <2>4. IsPlain(k)
    BY <2>3 DEF IsPlain
  <2> QED
    BY <2>4 DEF k
<1> QED
  BY <1>2, <1>3, <1>4 DEF IsPlain, r

\* A thread about to release or dispose has nothing else to do, or is a worker that has
\* just published.
LEMMA Shape ==
    ASSUME ConstantsOK, IInv, NEW x \in Threads, todo[x] # <<>>,
           Head(todo[x]) \notin {"walk", "unlink"}
    PROVE  /\ pc[x] = "free"
           /\ \/ IsPlain(todo[x]) /\ (x \in Workers => job[x] = NoTask)
              \/ /\ x \in Workers /\ job[x] \in Tasks /\ job[x] \in linked \cap published
                 /\ todo[x] = AfterPublication(job[x]) /\ Head(todo[x]) = "exec"
                 /\ Tail(todo[x]) = Unlinking(x) /\ refs["exec"] >= 2
<1>0. TypeOK /\ Short /\ Counted /\ Jobs /\ Calls /\ FreedOK
  BY DEF IInv
<1>1. CASE x \in Clients
  <2>1. ClientOK(x) /\ x \notin Workers
    BY <1>0, <1>1, Names DEF Calls
  <2>2. todo[x] # <<"walk", "scope">>
    <3>1. Head(<<"walk", "scope">>) = "walk"
      OBVIOUS
    <3> QED
      BY <3>1
  <2> QED
    BY <2>1, <2>2 DEF ClientOK
<1>2. CASE x \in Workers
  <2>1. WorkerOK(x)
    BY <1>0, <1>2 DEF Jobs
  <2>2. pc[x] = "free"
    BY <2>1 DEF WorkerOK
  <2>3. CASE job[x] = NoTask /\ IsPlain(todo[x])
    BY <2>2, <2>3
  <2>4. CASE /\ job[x] \in linked \cap published
             /\ todo[x] = AfterPublication(job[x]) \/ todo[x] = Unlinking(x)
    <3>1. todo[x] # Unlinking(x)
      <4>1. Head(Unlinking(x)) = "unlink"
        BY DEF Unlinking
      <4> QED
        BY <4>1
    <3>2. todo[x] = AfterPublication(job[x]) /\ job[x] \in Tasks
      BY <1>0, <2>4, <3>1 DEF TypeOK
    <3>3. Head(AfterPublication(job[x])) = "exec" /\ Tail(AfterPublication(job[x])) = Unlinking(x)
      BY DEF AfterPublication, Unlinking
    <3>4. refs["exec"] >= 2
      <4> DEFINE t == job[x]
      <4>1. t \in Tasks /\ "scope" \in Ops /\ "scope" # t /\ "exec" # t
        BY <3>2, Names
      <4> HIDE DEF t
      <4>2. Times(AfterPublication(t), "scope") = 1 /\ Times(AfterPublication(t), "exec") = 1
        BY <4>1, ShortCounts
      <4>3. Times(todo[x], "scope") = 1 /\ Times(todo[x], "exec") = 1
        BY <3>2, <4>2 DEF t
      <4>4. Pend("scope") >= 1 /\ Pend("exec") >= 1
        BY <1>0, <4>3, Numbers
      <4>5. /\ Hold("scope") \in Nat /\ Hold("exec") \in Nat /\ Cardinality(Alive) \in Nat
            /\ Cardinality(Joining) \in Nat /\ Pend("scope") \in Nat /\ Pend("exec") \in Nat
        BY <1>0, Numbers
      <4>6. refs["scope"] >= 1
        BY <1>0, <4>4, <4>5 DEF Counted
      <4>7. "scope" \notin freed
        BY <4>6, Owned
      <4>8. refs["exec"] = Hold("exec") + Pend("exec") + Cardinality(Alive) + 1
        BY <1>0, <4>7 DEF Counted
      <4> QED
        BY <4>4, <4>5, <4>8
    <3> QED
      BY <1>2, <2>2, <2>4, <3>2, <3>3, <3>4
  <2> QED
    BY <2>1, <2>3, <2>4 DEF WorkerOK
<1> QED
  BY <1>1, <1>2 DEF Threads

\* A step that replaces what such a thread has to do.
LEMMA ThreadStep ==
    ASSUME ConstantsOK, IInv, NEW x \in Threads, todo[x] # <<>>,
           Head(todo[x]) \notin {"walk", "unlink"},
           UNCHANGED <<phase, published, linked, job, pc>>,
           \A y \in Threads \ {x} : todo'[y] = todo[y],
           IsPlain(todo[x]) => IsPlain(todo'[x]),
           Head(todo[x]) = "exec" /\ refs["exec"] >= 2 => todo'[x] = Tail(todo[x])
    PROVE  Jobs' /\ Calls'
<1>0. Jobs /\ Calls
  BY DEF IInv
<1>1. /\ pc[x] = "free"
      /\ \/ IsPlain(todo[x]) /\ (x \in Workers => job[x] = NoTask)
         \/ /\ x \in Workers /\ job[x] \in Tasks /\ job[x] \in linked \cap published
            /\ todo[x] = AfterPublication(job[x]) /\ Head(todo[x]) = "exec"
            /\ Tail(todo[x]) = Unlinking(x) /\ refs["exec"] >= 2
  BY Shape
<1>2. ASSUME NEW w \in Workers PROVE WorkerOK(w)'
  <2>1. CASE w # x
    <3>1. WorkerOK(w) /\ todo'[w] = todo[w]
      BY <1>0, <2>1, Names DEF Jobs
    <3> QED
      BY <3>1 DEF WorkerOK, Unlinking
  <2>2. CASE w = x
    <3>1. CASE IsPlain(todo[x]) /\ job[x] = NoTask
      <4>1. /\ pc'[w] = "free" /\ job'[w] = NoTask
            /\ \A i \in DOMAIN todo'[w] : todo'[w][i] \notin {"walk", "unlink"}
        BY <1>1, <2>2, <3>1 DEF IsPlain
      <4> QED
        BY <4>1 DEF WorkerOK, IsPlain
    <3>2. CASE /\ job[x] \in Tasks /\ job[x] \in linked \cap published
               /\ todo[x] = AfterPublication(job[x]) /\ Head(todo[x]) = "exec"
               /\ Tail(todo[x]) = Unlinking(x) /\ refs["exec"] >= 2
      <4>1. pc'[w] = "free" /\ job'[w] \in linked' \cap published'
            /\ todo'[w] = <<"unlink", job'[w], "scope", job'[w]>>
        BY <1>1, <2>2, <3>2 DEF Unlinking
      <4> QED
        BY <4>1 DEF WorkerOK, Unlinking
    <3> QED
      BY <1>1, <2>2, <3>1, <3>2
  <2> QED
    BY <2>1, <2>2
<1>3. Jobs'
  BY <1>0, <1>2 DEF Jobs
<1>4. Calls'
  <2>1. x \in Clients => ClientOK(x)'
    <3> SUFFICES ASSUME x \in Clients PROVE ClientOK(x)'
      OBVIOUS
    <3>1. IsPlain(todo[x]) /\ pc'[x] = "free"
      BY <1>1, Names
    <3>2. \A i \in DOMAIN todo'[x] : todo'[x][i] \notin {"walk", "unlink"}
      BY <3>1 DEF IsPlain
    <3> QED
      BY <3>1, <3>2 DEF ClientOK, IsPlain
  <2>2. \A d \in Clients \ {x} : pc'[d] = pc[d] /\ todo'[d] = todo[d]
    BY Names
  <2> QED
    BY <1>0, <2>1, <2>2, CallsKept
<1> QED
  BY <1>3, <1>4

\* One release, and the disposal it may begin.
LEMMA ReleaseStep ==
    ASSUME ConstantsOK, IInv, NEW x \in Threads, Release(x)
    PROVE  IInv'
<1>0. TypeOK /\ Short /\ Counted /\ Disposals /\ FreedOK /\ Queued /\ Linked /\ Jobs /\ Calls
  BY DEF IInv
<1>a. PICK o : o = Head(todo[x])
  OBVIOUS
<1> DEFINE r == Tail(todo[x])
<1>1. /\ todo[x] # <<>> /\ o \in Objects
      /\ refs' = [refs EXCEPT ![o] = @ - 1]
      /\ freed' = IF refs[o] = 1 /\ o \in Tasks THEN freed \cup {o} ELSE freed
      /\ todo' = [todo EXCEPT ![x] = IF refs[o] = 1 THEN Disposal(o) \o r ELSE r]
      /\ UNCHANGED <<phase, published, linked, queue, shutdown, holds, job, pc>>
  BY <1>a DEF Release, Do
<1>2. /\ r \in Seq(Ops) /\ Len(r) <= 5 /\ Pend(o) >= 1 /\ todo[x] \in Seq(Ops)
      /\ \A u \in Ops : <<u>> \o r \in Seq(Ops) /\ Len(<<u>> \o r) <= 5
  BY <1>0, <1>1, <1>a, Popped, Numbers
<1>3. /\ todo' = [todo EXCEPT ![x] = r]
           => \A u : Pend(u)' = Pend(u) - (IF o = u THEN 1 ELSE 0)
      /\ \A d \in Ops : todo' = [todo EXCEPT ![x] = <<d>> \o r]
           => \A u : Pend(u)' = Pend(u) - (IF o = u THEN 1 ELSE 0) + (IF d = u THEN 1 ELSE 0)
  <2> SUFFICES ASSUME NEW u
               PROVE  /\ todo' = [todo EXCEPT ![x] = r] => Pend(u)' = Pend(u) - (IF o = u THEN 1 ELSE 0)
                      /\ \A d \in Ops : todo' = [todo EXCEPT ![x] = <<d>> \o r]
                           => Pend(u)' = Pend(u) - (IF o = u THEN 1 ELSE 0) + (IF d = u THEN 1 ELSE 0)
    OBVIOUS
  <2>1. todo' = [todo EXCEPT ![x] = r] => Pend(u)' = Pend(u) - (IF o = u THEN 1 ELSE 0)
    BY <1>0, <1>1, <1>a, Popped
  <2>2. ASSUME NEW d \in Ops, todo' = [todo EXCEPT ![x] = <<d>> \o r]
        PROVE  Pend(u)' = Pend(u) - (IF o = u THEN 1 ELSE 0) + (IF d = u THEN 1 ELSE 0)
    <3>1. TypeOK /\ Short /\ todo[x] # <<>>
      BY <1>0, <1>1
    <3>2. todo' = [todo EXCEPT ![x] = <<d>> \o Tail(todo[x])]
      BY <2>2
    <3>3. Pend(u)' = Pend(u) - (IF Head(todo[x]) = u THEN 1 ELSE 0) + (IF d = u THEN 1 ELSE 0)
      BY <3>1, <3>2, Popped
    <3> QED
      BY <1>a, <3>3
  <2> QED
    BY <2>1, <2>2
<1>4. o \notin {"walk", "unlink"}
  BY <1>1, Names
<1>5. /\ IsPlain(todo[x]) => /\ IsPlain(r)
                             /\ \A u \in Ops \ {"walk", "unlink"} : IsPlain(<<u>> \o r)
  BY <1>1, <1>2, PlainTail
<1>6. refs \in [Objects -> Nat] /\ refs[o] >= 1 /\ o \notin freed
  BY <1>1, <1>a, Owned
<1>7. o \in Tasks => (o \in published /\ phase[o] = "ended") \/ refs[o] >= 2
  <2> SUFFICES ASSUME o \in Tasks, phase[o] # "ended" PROVE refs[o] >= 2
    BY <1>0 DEF Linked
  <2>1. phase[o] # "none"
    BY <1>0, <1>6 DEF Linked
  <2>2. Rank(phase[o]) >= 1 /\ Rank(phase[o]) \in Nat
    BY <1>0, <2>1 DEF TypeOK, Rank
  <2>3. Hold(o) \in Nat /\ Pend(o) \in Nat
    BY <1>0, Numbers
  <2> QED
    BY <1>0, <1>2, <2>2, <2>3 DEF Counted
<1>t. o = Head(todo[x]) /\ r = Tail(todo[x])
  BY <1>a
<1>d. Disposal(o) = IF o = "exec" THEN <<"disposeExec">> ELSE IF o = "scope" THEN <<"disposeScope">>
                    ELSE IF o \in published THEN <<>> ELSE <<"exec">>
  BY <1>1, Names DEF Disposal
<1> HIDE DEF r
\* What the thread does next: d is the disposal, if there is one.
<1>8. /\ refs[o] # 1 \/ o \in Tasks => todo' = [todo EXCEPT ![x] = r]
      /\ refs[o] = 1 /\ o = "scope" => todo' = [todo EXCEPT ![x] = <<"disposeScope">> \o r]
      /\ refs[o] = 1 /\ o = "exec" => todo' = [todo EXCEPT ![x] = <<"disposeExec">> \o r]
  <2>1. refs[o] # 1 => todo' = [todo EXCEPT ![x] = r]
    BY <1>1
  <2>2. ASSUME refs[o] = 1, o \in Tasks PROVE todo' = [todo EXCEPT ![x] = r]
    <3>1. o \in published
      BY <1>7, <2>2
    <3>2. Disposal(o) = <<>>
      BY <1>d, <2>2, <3>1, Names
    <3>3. <<>> \o r = r
      BY <1>2, ConcatEmptySeq
    <3> QED
      BY <1>1, <2>2, <3>2, <3>3
  <2>3. ASSUME refs[o] = 1, o = "scope" PROVE todo' = [todo EXCEPT ![x] = <<"disposeScope">> \o r]
    BY <1>1, <1>d, <2>3
  <2>4. ASSUME refs[o] = 1, o = "exec" PROVE todo' = [todo EXCEPT ![x] = <<"disposeExec">> \o r]
    BY <1>1, <1>d, <2>4
  <2> QED
    BY <2>1, <2>2, <2>3, <2>4
<1> DEFINE s == IF refs[o] = 1 /\ o = "scope" THEN <<"disposeScope">> \o r
                ELSE IF refs[o] = 1 /\ o = "exec" THEN <<"disposeExec">> \o r ELSE r
<1>9. todo' = [todo EXCEPT ![x] = s] /\ s \in Seq(Ops) /\ Len(s) <= 5
      /\ (IsPlain(todo[x]) => IsPlain(s))
  <2>1. todo' = [todo EXCEPT ![x] = s]
    BY <1>1, <1>8, Names
  <2>2. "disposeScope" \in Ops \ {"walk", "unlink"} /\ "disposeExec" \in Ops \ {"walk", "unlink"}
    BY Names
  <2> QED
    BY <1>2, <1>5, <2>1, <2>2
<1>10. /\ todo' \in [Threads -> Seq(Objects \cup {"walk", "unlink", "disposeScope", "disposeExec"})]
       /\ Short' /\ todo'[x] = s /\ \A y \in Threads \ {x} : todo'[y] = todo[y]
  <2> HIDE DEF s
  <2> QED
    BY <1>0, <1>9, TodoType
<1>11. Jobs' /\ Calls'
  <2>1. IsPlain(todo[x]) => IsPlain(todo'[x])
    BY <1>9, <1>10
  <2>2. o = "exec" /\ refs["exec"] >= 2 => todo'[x] = r
    BY <1>6, <1>10
  <2>3. UNCHANGED <<phase, published, linked, job, pc>> /\ \A y \in Threads \ {x} : todo'[y] = todo[y]
    BY <1>1, <1>10
  <2>4. Head(todo[x]) \notin {"walk", "unlink"} /\ todo[x] # <<>>
    BY <1>1, <1>4, <1>t
  <2>5. Head(todo[x]) = "exec" /\ refs["exec"] >= 2 => todo'[x] = Tail(todo[x])
    BY <2>2, <1>t
  <2> QED
    BY <2>1, <2>3, <2>4, <2>5, ThreadStep
<1>12. /\ refs' \in [Objects -> Nat] /\ refs'[o] = refs[o] - 1
       /\ \A u \in Objects \ {o} : refs'[u] = refs[u]
  BY <1>1, <1>6
<1>13. TypeOK'
  BY <1>0, <1>1, <1>10, <1>12 DEF TypeOK
<1>14. (\A u : Hold(u)' = Hold(u)) /\ Joining' = Joining /\ Alive' = Alive
  BY <1>1, Same
\* The pending operations: one release less, and the disposal if there is one.
<1>n. \A u : Hold(u) \in Nat /\ Pend(u) \in Nat
  BY <1>0, Numbers
<1>15. /\ Pend(o)' = Pend(o) - 1
       /\ \A u \in Objects \ {o} : Pend(u)' = Pend(u)
       /\ Pend("disposeScope")' = IF refs[o] = 1 /\ o = "scope" THEN Pend("disposeScope") + 1
                                  ELSE Pend("disposeScope")
       /\ Pend("disposeExec")' = IF refs[o] = 1 /\ o = "exec" THEN Pend("disposeExec") + 1
                                 ELSE Pend("disposeExec")
  <2>0. "disposeScope" \in Ops /\ "disposeExec" \in Ops
        /\ "disposeScope" \notin Objects /\ "disposeExec" \notin Objects
    BY Names
  <2>1. CASE refs[o] # 1 \/ o \in Tasks
    <3>1. \A u : Pend(u)' = Pend(u) - (IF o = u THEN 1 ELSE 0)
      BY <1>3, <1>8, <2>1
    <3> QED
      BY <1>1, <1>n, <2>0, <2>1, <3>1, Names
  <2>2. CASE refs[o] = 1 /\ o = "scope"
    <3>1. \A u : Pend(u)' = Pend(u) - (IF o = u THEN 1 ELSE 0) + (IF "disposeScope" = u THEN 1 ELSE 0)
      BY <1>3, <1>8, <2>0, <2>2
    <3> QED
      BY <1>1, <1>n, <2>0, <2>2, <3>1
  <2>3. CASE refs[o] = 1 /\ o = "exec"
    <3>1. \A u : Pend(u)' = Pend(u) - (IF o = u THEN 1 ELSE 0) + (IF "disposeExec" = u THEN 1 ELSE 0)
      BY <1>3, <1>8, <2>0, <2>3
    <3> QED
      BY <1>1, <1>n, <2>0, <2>3, <3>1
  <2> QED
    BY <1>1, <2>1, <2>2, <2>3, Names
<1>16. Counted'
  <2>1. Cardinality(Alive) \in Nat /\ Cardinality(Joining) \in Nat
        /\ Cardinality(Alive)' = Cardinality(Alive) /\ Cardinality(Joining)' = Cardinality(Joining)
    BY <1>0, <1>14, Numbers
  <2>2. ASSUME NEW t \in Tasks PROVE refs'[t] = Hold(t)' + Pend(t)' + Rank(phase'[t])
    <3>1. Hold(t)' = Hold(t) /\ phase'[t] = phase[t] /\ Rank(phase[t]) \in Nat /\ t \in Objects
      BY <1>1, <1>14, Names DEF Rank
    <3>2. refs[t] = Hold(t) + Pend(t) + Rank(phase[t])
      BY <1>0 DEF Counted
    <3>3. CASE t = o
      BY <1>n, <1>12, <1>15, <3>1, <3>2, <3>3
    <3>4. CASE t # o
      BY <1>12, <1>15, <3>1, <3>2, <3>4
    <3> QED
      BY <3>3, <3>4
  <2>3. refs'["scope"] = Hold("scope")' + Pend("scope")' + Cardinality(Alive)' + Cardinality(Joining)'
    <3>1. /\ refs["scope"] = Hold("scope") + Pend("scope") + Cardinality(Alive) + Cardinality(Joining)
          /\ Hold("scope")' = Hold("scope")
      BY <1>0, <1>14 DEF Counted
    <3>2. CASE o = "scope"
      BY <1>n, <1>12, <1>15, <2>1, <3>1, <3>2
    <3>3. CASE o # "scope"
      BY <1>12, <1>15, <2>1, <3>1, <3>3, Names
    <3> QED
      BY <3>2, <3>3
  <2>4. refs'["exec"] = Hold("exec")' + Pend("exec")' + Cardinality(Alive)'
                        + (IF "scope" \in freed' THEN 0 ELSE 1)
    <3> DEFINE k == IF "scope" \in freed THEN 0 ELSE 1
    <3>0. k \in Nat /\ k = IF "scope" \in freed' THEN 0 ELSE 1
      BY <1>1, Names
    <3>1. /\ refs["exec"] = Hold("exec") + Pend("exec") + Cardinality(Alive) + k
          /\ Hold("exec")' = Hold("exec")
      BY <1>0, <1>14 DEF Counted
    <3> HIDE DEF k
    <3>2. CASE o = "exec"
      <4>1. refs'["exec"] = Hold("exec")' + Pend("exec")' + Cardinality(Alive)' + k
        BY <1>n, <1>12, <1>15, <2>1, <3>0, <3>1, <3>2
      <4> QED
        BY <3>0, <4>1
    <3>3. CASE o # "exec"
      <4>1. refs'["exec"] = Hold("exec")' + Pend("exec")' + Cardinality(Alive)' + k
        BY <1>12, <1>15, <2>1, <3>1, <3>3, Names
      <4> QED
        BY <3>0, <4>1
    <3> QED
      BY <3>2, <3>3
  <2> QED
    BY <2>2, <2>3, <2>4 DEF Counted
<1>17. Disposals'
  <2>0. /\ "scope" \in freed' <=> "scope" \in freed
        /\ "exec" \in freed' <=> "exec" \in freed
        /\ refs["scope"] \in Nat /\ refs["exec"] \in Nat
    BY <1>1, <1>6, Names
  <2>1. Pend("disposeScope")' = IF refs'["scope"] = 0 /\ "scope" \notin freed' THEN 1 ELSE 0
    <3>1. CASE o = "scope"
      BY <1>0, <1>6, <1>12, <1>15, <2>0, <3>1 DEF Disposals
    <3>2. CASE o # "scope"
      BY <1>0, <1>12, <1>15, <2>0, <3>2, Names DEF Disposals
    <3> QED
      BY <3>1, <3>2
  <2>2. Pend("disposeExec")' = IF refs'["exec"] = 0 /\ "exec" \notin freed' THEN 1 ELSE 0
    <3>1. CASE o = "exec"
      BY <1>0, <1>6, <1>12, <1>15, <2>0, <3>1 DEF Disposals
    <3>2. CASE o # "exec"
      BY <1>0, <1>12, <1>15, <2>0, <3>2, Names DEF Disposals
    <3> QED
      BY <3>1, <3>2
  <2> QED
    BY <2>1, <2>2 DEF Disposals
<1>18. FreedOK'
  <2>1. "scope" \in freed' => refs'["scope"] = 0
    BY <1>0, <1>1, <1>6, <1>12, Names DEF FreedOK
  <2>2. "exec" \in freed' => refs'["exec"] = 0 /\ \A w \in Workers : pc'[w] = "exited"
    BY <1>0, <1>1, <1>6, <1>12, Names DEF FreedOK
  <2>3. ASSUME NEW t \in Tasks PROVE t \in freed' <=> phase'[t] = "ended" /\ refs'[t] = 0
    <3>1. CASE t = o
      <4>1. t \in freed' <=> refs[t] = 1
        BY <1>1, <1>6, <3>1
      <4>2. refs'[t] = 0 <=> refs[t] = 1
        BY <1>6, <1>12, <3>1
      <4>3. refs[t] = 1 => phase[t] = "ended"
        BY <1>7, <3>1
      <4> QED
        BY <1>1, <4>1, <4>2, <4>3
    <3>2. CASE t # o
      BY <1>0, <1>1, <1>12, <3>2, Names DEF FreedOK
    <3> QED
      BY <3>1, <3>2
  <2> QED
    BY <2>1, <2>2, <2>3 DEF FreedOK
<1>19. Linked'
  <2>1. \A t \in Tasks : phase[t] = "none" => refs'[t] = refs[t]
    <3> SUFFICES ASSUME NEW t \in Tasks, phase[t] = "none" PROVE refs'[t] = refs[t]
      OBVIOUS
    <3>1. refs[t] = 0
      BY <1>0 DEF Linked
    <3>2. t # o
      BY <1>6, <3>1
    <3> QED
      BY <1>12, <3>2, Names
  <2>2. linked \subseteq Tasks
    BY <1>0 DEF TypeOK
  <2> QED
    BY <1>0, <1>1, <1>14, <2>1, <2>2, LinkedKept
<1>20. Queued'
  BY <1>0, <1>1 DEF Queued, Times
<1> QED
  BY <1>10, <1>11, <1>13, <1>16, <1>17, <1>18, <1>19, <1>20 DEF IInv

\* next_task_scope_dispose: the scope's reference on its executor becomes a pending release.
LEMMA DisposeScopeStep ==
    ASSUME ConstantsOK, IInv, NEW x \in Threads, DisposeScope(x)
    PROVE  IInv'
<1>0. TypeOK /\ Short /\ Counted /\ Disposals /\ FreedOK /\ Queued /\ Linked /\ Jobs /\ Calls
  BY DEF IInv
<1> DEFINE r == Tail(todo[x])
           s == <<"exec">> \o r
<1>1. /\ todo[x] # <<>> /\ Head(todo[x]) = "disposeScope" /\ linked = {}
      /\ freed' = freed \cup {"scope"}
      /\ todo' = [todo EXCEPT ![x] = s]
      /\ UNCHANGED <<refs, phase, published, linked, queue, shutdown, holds, job, pc>>
  BY DEF DisposeScope, Do
<1>2. "exec" \in Ops \ {"walk", "unlink"} /\ "exec" \in Objects /\ "scope" \in Objects
  BY Names
<1>3. /\ s \in Seq(Ops) /\ Len(s) <= 5 /\ Pend("disposeScope") >= 1 /\ todo[x] \in Seq(Ops)
  BY <1>0, <1>1, <1>2, Popped, Numbers
<1>4. ASSUME NEW u
      PROVE  Pend(u)' = Pend(u) - (IF "disposeScope" = u THEN 1 ELSE 0) + (IF "exec" = u THEN 1 ELSE 0)
  BY <1>0, <1>1, <1>2, Popped
<1>5. IsPlain(todo[x]) => IsPlain(s)
  BY <1>1, <1>2, <1>3, PlainTail
<1> HIDE DEF r, s
<1>6. /\ todo' \in [Threads -> Seq(Objects \cup {"walk", "unlink", "disposeScope", "disposeExec"})]
      /\ Short' /\ todo'[x] = s /\ \A y \in Threads \ {x} : todo'[y] = todo[y]
  BY <1>0, <1>1, <1>3, TodoType
<1>7. Jobs' /\ Calls'
  <2>1. Head(todo[x]) \notin {"walk", "unlink"} /\ Head(todo[x]) # "exec"
    BY <1>1
  <2> QED
    BY <1>1, <1>5, <1>6, <2>1, ThreadStep
<1>n. \A u : Hold(u) \in Nat /\ Pend(u) \in Nat
  BY <1>0, Numbers
<1>8. /\ refs["scope"] = 0 /\ "scope" \notin freed /\ Pend("disposeScope") = 1
  BY <1>0, <1>3, <1>n DEF Disposals
<1>9. /\ Pend("exec")' = Pend("exec") + 1
      /\ Pend("disposeScope")' = 0
      /\ Pend("disposeExec")' = Pend("disposeExec") /\ Pend("scope")' = Pend("scope")
      /\ \A t \in Tasks : Pend(t)' = Pend(t)
  <2>1. Pend("exec")' = Pend("exec") - 0 + 1
    BY <1>4
  <2>2. Pend("disposeScope")' = Pend("disposeScope") - 1 + 0
    BY <1>4
  <2>3. Pend("disposeExec")' = Pend("disposeExec") - 0 + 0
    BY <1>4
  <2>4. Pend("scope")' = Pend("scope") - 0 + 0
    BY <1>4
  <2>5. ASSUME NEW t \in Tasks PROVE Pend(t)' = Pend(t)
    <3>1. t # "disposeScope" /\ t # "exec"
      BY Names
    <3>2. Pend(t)' = Pend(t) - 0 + 0
      BY <1>4, <3>1
    <3> QED
      BY <1>n, <3>2
  <2> QED
    BY <1>n, <1>8, <2>1, <2>2, <2>3, <2>4, <2>5
<1>10. TypeOK'
  BY <1>0, <1>1, <1>2, <1>6 DEF TypeOK
<1>11. /\ \A u : Hold(u)' = Hold(u)
       /\ Joining' = Joining /\ Alive' = Alive /\ Cardinality(Alive) \in Nat
  BY <1>0, <1>1, Same, Numbers
<1>12. Counted'
  <2>1. \A t \in Tasks : refs'[t] = Hold(t)' + Pend(t)' + Rank(phase'[t])
    BY <1>0, <1>1, <1>9, <1>11 DEF Counted
  <2>2. refs'["scope"] = Hold("scope")' + Pend("scope")' + Cardinality(Alive)' + Cardinality(Joining)'
    BY <1>0, <1>1, <1>9, <1>11 DEF Counted
  <2>3. refs'["exec"] = Hold("exec")' + Pend("exec")' + Cardinality(Alive)' + 0
    <3>1. refs["exec"] = Hold("exec") + Pend("exec") + Cardinality(Alive) + 1
      BY <1>0, <1>8 DEF Counted
    <3>2. refs'["exec"] = refs["exec"] /\ Hold("exec")' = Hold("exec")
          /\ Cardinality(Alive)' = Cardinality(Alive)
      BY <1>1, <1>11
    <3>3. Hold("exec") + Pend("exec") + Cardinality(Alive) + 1
            = Hold("exec") + (Pend("exec") + 1) + Cardinality(Alive) + 0
      BY <1>n, <1>11
    <3> QED
      BY <1>9, <3>1, <3>2, <3>3
  <2>4. "scope" \in freed'
    BY <1>1
  <2> QED
    BY <2>1, <2>2, <2>3, <2>4 DEF Counted
<1>13. Disposals'
  <2>1. "scope" \in freed' /\ ("exec" \in freed' <=> "exec" \in freed)
    BY <1>1
  <2> QED
    BY <1>0, <1>1, <1>9, <2>1 DEF Disposals
<1>14. FreedOK'
  <2>1. \A t \in Tasks : t \in freed' <=> t \in freed
    BY <1>1, Names
  <2>2. "exec" \in freed' <=> "exec" \in freed
    BY <1>1
  <2> QED
    BY <1>0, <1>1, <1>8, <2>1, <2>2 DEF FreedOK
<1>15. Linked'
  BY <1>0, <1>1, <1>11, LinkedKept DEF TypeOK
<1>16. Queued'
  BY <1>0, <1>1 DEF Queued, Times
<1> QED
  BY <1>6, <1>7, <1>10, <1>12, <1>13, <1>14, <1>15, <1>16 DEF IInv

\* next_task_executor_dispose: the shutdown, and once the workers are gone the end.
LEMMA DisposeExecStep ==
    ASSUME ConstantsOK, IInv, NEW x \in Threads, DisposeExec(x)
    PROVE  IInv'
<1>0. TypeOK /\ Short /\ Counted /\ Disposals /\ FreedOK /\ Queued /\ Linked /\ Jobs /\ Calls
  BY DEF IInv
<1>1. /\ todo[x] # <<>> /\ Head(todo[x]) = "disposeExec" /\ shutdown' = TRUE
      /\ UNCHANGED <<refs, phase, published, linked, queue, holds, job, pc>>
  BY DEF DisposeExec
<1>n. /\ \A u : Hold(u) \in Nat /\ Pend(u) \in Nat
      /\ todo[x] \in Seq(Ops)
  BY <1>0, Numbers
<1>2. /\ \A u : Hold(u)' = Hold(u)
      /\ Joining' = Joining /\ Alive' = Alive
  BY <1>0, <1>1, Same
<1>3. Linked' /\ Queued'
  <2>1. Linked'
    BY <1>0, <1>1, <1>2, LinkedKept DEF TypeOK
  <2>2. Queued'
    BY <1>0, <1>1 DEF Queued, Times
  <2> QED
    BY <2>1, <2>2
<1>4. CASE UNCHANGED <<freed, todo>>
  <2>1. Short' /\ \A u : Pend(u)' = Pend(u)
    BY <1>0, <1>4, Same
  <2>2. TypeOK'
    BY <1>0, <1>1, <1>4 DEF TypeOK
  <2>3. Counted'
    BY <1>0, <1>1, <1>2, <1>4, <2>1 DEF Counted
  <2>4. Disposals' /\ FreedOK'
    BY <1>0, <1>1, <1>4, <2>1, FreedKept
  <2>5. Jobs'
    BY <1>0, <1>1, <1>4, JobsKept
  <2>6. Calls'
    BY <1>0, <1>1, <1>4 DEF Calls, ClientOK, IsPlain
  <2> QED
    BY <1>3, <2>1, <2>2, <2>3, <2>4, <2>5, <2>6 DEF IInv
<1>5. CASE /\ \A w \in Workers : pc[w] = "exited"
           /\ freed' = freed \cup {"exec"}
           /\ todo' = [todo EXCEPT ![x] = Tail(todo[x])]
  <2> DEFINE r == Tail(todo[x])
  <2>1. /\ r \in Seq(Ops) /\ Len(r) <= 5 /\ Pend("disposeExec") >= 1
    BY <1>0, <1>1, Popped
  <2>2. ASSUME NEW u PROVE Pend(u)' = Pend(u) - (IF "disposeExec" = u THEN 1 ELSE 0)
    BY <1>0, <1>1, <1>5, Popped
  <2>3. IsPlain(todo[x]) => IsPlain(r)
    BY <1>1, <1>n, PlainTail
  <2>t. r = Tail(todo[x]) /\ todo' = [todo EXCEPT ![x] = r]
    BY <1>5
  <2> HIDE DEF r
  <2>4. /\ todo' \in [Threads -> Seq(Objects \cup {"walk", "unlink", "disposeScope", "disposeExec"})]
        /\ Short' /\ todo'[x] = r /\ \A y \in Threads \ {x} : todo'[y] = todo[y]
    BY <1>0, <2>1, <2>t, TodoType
  <2>5. Jobs' /\ Calls'
    BY <1>1, <2>3, <2>4, <2>t, ThreadStep
  <2>6. refs["exec"] = 0 /\ "exec" \notin freed /\ Pend("disposeExec") = 1
    BY <1>0, <1>n, <2>1 DEF Disposals
  <2>7. /\ Pend("disposeExec")' = 0
        /\ Pend("disposeScope")' = Pend("disposeScope")
        /\ \A o \in Objects : Pend(o)' = Pend(o)
    <3>1. Pend("disposeExec")' = Pend("disposeExec") - 1
      BY <2>2
    <3>2. Pend("disposeScope")' = Pend("disposeScope") - 0
      BY <2>2
    <3>3. ASSUME NEW o \in Objects PROVE Pend(o)' = Pend(o)
      <4>1. o # "disposeExec"
        BY Names
      <4>2. Pend(o)' = Pend(o) - 0
        BY <2>2, <4>1
      <4> QED
        BY <1>n, <4>2
    <3> QED
      BY <1>n, <2>6, <3>1, <3>2, <3>3
  <2>8. TypeOK'
    BY <1>0, <1>1, <1>5, <2>4, Names DEF TypeOK
  <2>9. "scope" \in freed' <=> "scope" \in freed
    BY <1>5
  <2>10. Counted'
    BY <1>0, <1>1, <1>2, <2>7, <2>9, Names DEF Counted
  <2>11. Disposals'
    <3>1. "exec" \in freed'
      BY <1>5
    <3> QED
      BY <1>0, <1>1, <2>7, <2>9, <3>1 DEF Disposals
  <2>12. FreedOK'
    <3>1. \A t \in Tasks : t \in freed' <=> t \in freed
      BY <1>5, Names
    <3> QED
      BY <1>0, <1>1, <1>5, <2>6, <2>9, <3>1 DEF FreedOK
  <2> QED
    BY <1>3, <2>4, <2>5, <2>8, <2>10, <2>11, <2>12 DEF IInv
<1> QED
  BY <1>4, <1>5 DEF DisposeExec, Do

-----------------------------------------------------------------------------
(* The steps of the workers *)

\* A worker's own step leaves the jobs of the others alone.
LEMMA WorkerJobs ==
    ASSUME Jobs, NEW w \in Workers, WorkerOK(w)', published \subseteq published',
           \A v \in Workers \ {w} : job'[v] = job[v] /\ pc'[v] = pc[v] /\ todo'[v] = todo[v],
           \A v \in Workers \ {w} : job[v] \in Tasks => /\ phase'[job[v]] = phase[job[v]]
                                                        /\ job[v] \in linked => job[v] \in linked',
           \A v \in Workers \ {w} : job'[w] # NoTask => job[v] # job'[w],
           \A t \in Tasks : phase'[t] = "running" => job'[w] = t \/ (phase[t] = "running" /\ job[w] # t),
           linked \subseteq Tasks
    PROVE  Jobs'
<1>1. ASSUME NEW v \in Workers \ {w} PROVE WorkerOK(v)'
  <2>1. WorkerOK(v)
    BY DEF Jobs
  <2>2. job'[v] = job[v] /\ pc'[v] = pc[v] /\ todo'[v] = todo[v]
    OBVIOUS
  <2>3. pc'[v] \in {"free", "exited"} /\ (pc'[v] = "exited" => todo'[v] = <<>> /\ job'[v] = NoTask)
    BY <2>1, <2>2 DEF WorkerOK
  <2>4. CASE job[v] = NoTask /\ IsPlain(todo[v])
    <3>1. job'[v] = NoTask /\ IsPlain(todo'[v])
      BY <2>2, <2>4
    <3> QED
      BY <2>3, <3>1 DEF WorkerOK, IsPlain
  <2>5. CASE job[v] \in Tasks /\ phase[job[v]] = "running" /\ todo[v] = <<>>
    <3>1. job'[v] \in Tasks /\ phase'[job'[v]] = "running" /\ todo'[v] = <<>>
      BY <2>2, <2>5
    <3> QED
      BY <2>3, <3>1 DEF WorkerOK
  <2>6. CASE /\ job[v] \in linked \cap published
             /\ todo[v] = AfterPublication(job[v]) \/ todo[v] = Unlinking(v)
    <3>1. /\ job'[v] \in linked' \cap published'
          /\ todo'[v] = AfterPublication(job'[v]) \/ todo'[v] = Unlinking(v)'
      BY <2>2, <2>6 DEF Unlinking
    <3> QED
      BY <2>3, <3>1 DEF WorkerOK, AfterPublication
  <2> QED
    BY <2>1, <2>4, <2>5, <2>6 DEF WorkerOK
<1>2. \A v \in Workers : WorkerOK(v)'
  BY <1>1
<1>3. \A u, v \in Workers : job'[u] = job'[v] /\ job'[u] # NoTask => u = v
  <2> SUFFICES ASSUME NEW u \in Workers, NEW v \in Workers, job'[u] = job'[v], job'[u] # NoTask
               PROVE  u = v
    OBVIOUS
  <2>1. CASE u # w /\ v # w
    BY <2>1 DEF Jobs
  <2>2. CASE u = w /\ v # w
    BY <2>2
  <2>3. CASE u # w /\ v = w
    BY <2>3
  <2> QED
    BY <2>1, <2>2, <2>3
<1>4. ASSUME NEW t \in Tasks, phase'[t] = "running" PROVE \E v \in Workers : job'[v] = t
  <2>1. CASE job'[w] = t
    BY <2>1
  <2>2. CASE phase[t] = "running" /\ job[w] # t
    <3>1. PICK v \in Workers : job[v] = t
      BY <2>2 DEF Jobs
    <3> QED
      BY <2>2, <3>1
  <2> QED
    BY <1>4, <2>1, <2>2
<1> QED
  BY <1>2, <1>3, <1>4 DEF Jobs

\* The calls of the clients do not see a worker's step.
LEMMA WorkerCalls ==
    ASSUME Calls, NEW w \in Workers,
           \A x \in Threads \ {w} : pc'[x] = pc[x] /\ todo'[x] = todo[x]
    PROVE  Calls' /\ Joining' = Joining
<1>1. \A c \in Clients : c \in Threads \ {w}
  BY Names
<1>2. w \notin Clients
  BY Names
<1>3. \A d \in Clients \ {w} : pc'[d] = pc[d] /\ todo'[d] = todo[d]
  BY <1>1
<1>4. Calls'
  BY <1>2, <1>3, CallsKept
<1>5. Joining' = Joining
  BY <1>1 DEF Joining
<1> QED
  BY <1>4, <1>5

\* A worker's step that publishes and unlinks nothing.
LEMMA JobLinked ==
    ASSUME Linked, UNCHANGED <<published, linked>>, Alive' = Alive,
           \A t \in Tasks : phase'[t] = "ended" <=> phase[t] = "ended",
           \A t \in Tasks : phase'[t] = "none" <=> phase[t] = "none",
           \A t \in Tasks : phase[t] = "none" => refs'[t] = refs[t],
           \A t \in linked \cap published : \A v \in Workers : job[v] = t => job'[v] = t,
           linked \subseteq Tasks
    PROVE  Linked'
<1>1. published' = {t \in Tasks : phase'[t] = "ended"}
  BY DEF Linked
<1>2. Alive' \subseteq linked' /\ \A t \in linked' : phase'[t] # "none"
  BY DEF Linked
<1>3. \A t \in linked' \cap published' : \E v \in Workers : job'[v] = t
  BY DEF Linked
<1>4. \A t \in Tasks : phase'[t] = "none" => refs'[t] = 0
  BY DEF Linked
<1> QED
  BY <1>1, <1>2, <1>3, <1>4 DEF Linked

\* The task a worker runs: between calls of its frame it is running.
LEMMA RunningJob ==
    ASSUME IInv, NEW w \in Workers, job[w] # NoTask, todo[w] = <<>>
    PROVE  /\ job[w] \in Tasks /\ phase[job[w]] = "running" /\ pc[w] = "free"
           /\ job[w] \notin published /\ job[w] \in linked /\ job[w] \in Alive
           /\ \A v \in Workers \ {w} : job[v] # job[w]
<1>0. Jobs /\ Linked
  BY DEF IInv
<1>1. WorkerOK(w)
  BY <1>0 DEF Jobs
<1>2. AfterPublication(job[w]) # <<>> /\ Unlinking(w) # <<>>
  BY DEF AfterPublication, Unlinking
<1>3. job[w] \in Tasks /\ phase[job[w]] = "running" /\ pc[w] = "free"
  BY <1>1, <1>2 DEF WorkerOK
<1>4. job[w] \notin published /\ job[w] \in Alive
  BY <1>0, <1>3 DEF Linked, Alive
<1>5. job[w] \in linked
  BY <1>0, <1>4 DEF Linked
<1> QED
  BY <1>0, <1>3, <1>4, <1>5 DEF Jobs

\* A worker takes a task: the entry's reference goes with it.
LEMMA DequeueStep ==
    ASSUME ConstantsOK, IInv, NEW w \in Workers, Dequeue(w)
    PROVE  IInv'
<1>0. TypeOK /\ Short /\ Counted /\ Disposals /\ FreedOK /\ Queued /\ Linked /\ Jobs /\ Calls
  BY DEF IInv
<1>a. PICK h : h = Head(queue)
  OBVIOUS
<1>1. /\ pc[w] = "free" /\ todo[w] = <<>> /\ job[w] = NoTask /\ queue # <<>>
      /\ job' = [job EXCEPT ![w] = h]
      /\ phase' = [phase EXCEPT ![h] = "running"]
      /\ queue' = Tail(queue)
      /\ UNCHANGED <<refs, freed, published, linked, shutdown, holds, pc, todo>>
  BY <1>a DEF Dequeue, Ready
<1>2. queue \in Seq(Tasks) /\ phase \in [Tasks -> {"none", "queued", "running", "idle", "ended"}]
      /\ job \in [Workers -> Tasks \cup {NoTask}] /\ linked \subseteq Tasks
  BY <1>0 DEF TypeOK
<1>3. h \in Tasks /\ Tail(queue) \in Seq(Tasks)
  BY <1>1, <1>2, <1>a, HeadTailProperties
<1>4. \A t : Times(queue, t) = Times(Tail(queue), t) + (IF h = t THEN 1 ELSE 0)
  BY <1>1, <1>2, <1>a, TimesTail
<1>5. \A t : Times(Tail(queue), t) \in Nat
  BY <1>3, TimesType
<1>6. phase[h] = "queued"
  <2>1. Times(queue, h) = Times(Tail(queue), h) + 1
    BY <1>4
  <2>2. Times(queue, h) # 0
    BY <1>5, <2>1
  <2> QED
    BY <1>0, <1>3, <2>2 DEF Queued
<1>7. \A t \in Tasks : phase'[t] = IF t = h THEN "running" ELSE phase[t]
  BY <1>1, <1>2
<1>8. Queued'
  <2> SUFFICES ASSUME NEW t \in Tasks
               PROVE  Times(queue', t) = IF phase'[t] = "queued" THEN 1 ELSE 0
    BY DEF Queued
  <2>1. queue' = Tail(queue)
    BY <1>1
  <2>2. Times(queue, t) = IF phase[t] = "queued" THEN 1 ELSE 0
    BY <1>0 DEF Queued
  <2>3. CASE t = h
    <3>1. Times(queue, h) = Times(Tail(queue), h) + 1
      BY <1>4
    <3>2. Times(Tail(queue), h) = 0
      BY <1>5, <1>6, <2>2, <2>3, <3>1
    <3> QED
      BY <1>7, <2>1, <2>3, <3>2
  <2>4. CASE t # h
    <3>1. Times(queue, t) = Times(Tail(queue), t) + 0
      BY <1>4, <2>4
    <3>2. Times(queue, t) = Times(Tail(queue), t)
      BY <1>5, <3>1
    <3> QED
      BY <1>7, <2>1, <2>2, <2>4, <3>2
  <2> QED
    BY <2>3, <2>4
<1>9. /\ \A u : Hold(u)' = Hold(u) /\ Pend(u)' = Pend(u)
      /\ Joining' = Joining /\ Short'
  BY <1>0, <1>1, Same
<1>10. Alive' = Alive /\ \A t \in Tasks : Rank(phase'[t]) = Rank(phase[t])
  BY <1>6, <1>7 DEF Alive, Rank
<1>11. TypeOK'
  <2>1. job' \in [Workers -> Tasks \cup {NoTask}]
    BY <1>1, <1>2, <1>3
  <2>2. phase' \in [Tasks -> {"none", "queued", "running", "idle", "ended"}]
    BY <1>1, <1>2
  <2> QED
    BY <1>0, <1>1, <1>3, <2>1, <2>2 DEF TypeOK
<1>12. Counted'
  BY <1>0, <1>1, <1>9, <1>10 DEF Counted
<1>13. Disposals' /\ FreedOK'
  <2>1. \A t \in Tasks : phase'[t] = "ended" /\ refs'[t] = 0 <=> phase[t] = "ended" /\ refs[t] = 0
    BY <1>1, <1>6, <1>7
  <2> QED
    BY <1>0, <1>1, <1>9, <2>1, FreedKept
<1>14. \A v \in Workers : job[v] # h
  <2> SUFFICES ASSUME NEW v \in Workers, job[v] = h PROVE FALSE
    OBVIOUS
  <2>1. WorkerOK(v) /\ h # NoTask /\ h \notin published
    BY <1>0, <1>3, <1>6, Names DEF Jobs, Linked
  <2> QED
    BY <1>6, <2>1 DEF WorkerOK
<1>15. job'[w] = h /\ \A v \in Workers \ {w} : job'[v] = job[v]
  BY <1>1, <1>2
<1>16. Linked'
  <2>1. \A t \in Tasks : /\ phase'[t] = "ended" <=> phase[t] = "ended"
                         /\ phase'[t] = "none" <=> phase[t] = "none"
    BY <1>6, <1>7
  <2>2. \A t \in linked \cap published : \A v \in Workers : job[v] = t => job'[v] = t
    BY <1>1, <1>2, <1>15, Names
  <2> QED
    BY <1>0, <1>1, <1>2, <1>10, <2>1, <2>2, JobLinked
<1>17. Jobs'
  <2>1. phase'[h] = "running"
    BY <1>3, <1>7
  <2>2. WorkerOK(w)'
    BY <1>1, <1>3, <1>15, <2>1, Names DEF WorkerOK
  <2>3. \A v \in Workers \ {w} : job'[v] = job[v] /\ pc'[v] = pc[v] /\ todo'[v] = todo[v]
    BY <1>1, <1>15
  <2>4. \A v \in Workers \ {w} : job[v] \in Tasks => /\ phase'[job[v]] = phase[job[v]]
                                                     /\ job[v] \in linked => job[v] \in linked'
    BY <1>1, <1>7, <1>14
  <2>5. \A v \in Workers \ {w} : job'[w] # NoTask => job[v] # job'[w]
    BY <1>14, <1>15
  <2>6. \A t \in Tasks : phase'[t] = "running" => job'[w] = t \/ (phase[t] = "running" /\ job[w] # t)
    BY <1>1, <1>7, <1>15, Names
  <2>7. published \subseteq published' /\ linked \subseteq Tasks
    BY <1>1, <1>2
  <2> QED
    BY <1>0, <2>2, <2>3, <2>4, <2>5, <2>6, <2>7, WorkerJobs
<1>18. Calls'
  BY <1>0, <1>1, WorkerCalls
<1> QED
  BY <1>8, <1>9, <1>11, <1>12, <1>13, <1>16, <1>17, <1>18 DEF IInv

\* A worker leaves.
LEMMA ExitStep ==
    ASSUME ConstantsOK, IInv, NEW w \in Workers, Exit(w)
    PROVE  IInv'
<1>0. TypeOK /\ Short /\ Counted /\ Disposals /\ FreedOK /\ Queued /\ Linked /\ Jobs /\ Calls
  BY DEF IInv
<1>1. /\ pc[w] = "free" /\ todo[w] = <<>> /\ job[w] = NoTask
      /\ pc' = [pc EXCEPT ![w] = "exited"]
      /\ UNCHANGED <<refs, freed, phase, published, linked, queue, shutdown, holds, job, todo>>
  BY DEF Exit, Ready
<1>2. w \in Threads /\ pc \in [Threads -> {"free", "join", "exited"}] /\ linked \subseteq Tasks
  BY <1>0, Names DEF TypeOK
<1>3. /\ pc' \in [Threads -> {"free", "join", "exited"}] /\ pc'[w] = "exited"
      /\ \A x \in Threads \ {w} : pc'[x] = pc[x]
  BY <1>1, <1>2
<1>4. /\ \A u : Hold(u)' = Hold(u) /\ Pend(u)' = Pend(u)
      /\ Alive' = Alive /\ Short'
  BY <1>0, <1>1, Same
<1>5. Calls' /\ Joining' = Joining
  BY <1>0, <1>1, <1>3, WorkerCalls
<1>6. TypeOK'
  BY <1>0, <1>1, <1>3 DEF TypeOK
<1>7. Counted'
  BY <1>0, <1>1, <1>4, <1>5 DEF Counted
<1>8. \A v \in Workers : v \in Threads
  BY Names
<1>9. Disposals' /\ FreedOK'
  <2>1. \A v \in Workers : pc[v] = "exited" => pc'[v] = "exited"
    BY <1>3, <1>8
  <2> QED
    BY <1>0, <1>1, <1>4, <2>1, FreedKept
<1>10. Linked' /\ Queued'
  <2>1. Linked'
    BY <1>0, <1>1, <1>2, <1>4, LinkedKept
  <2>2. Queued'
    BY <1>0, <1>1 DEF Queued, Times
  <2> QED
    BY <2>1, <2>2
<1>11. Jobs'
  <2>1. WorkerOK(w)'
    <3>1. IsPlain(todo'[w])
      BY <1>1 DEF IsPlain
    <3> QED
      BY <1>1, <1>3, <3>1 DEF WorkerOK, IsPlain
  <2>2. \A v \in Workers \ {w} : job'[v] = job[v] /\ pc'[v] = pc[v] /\ todo'[v] = todo[v]
    BY <1>1, <1>3, <1>8
  <2>3. \A t \in Tasks : phase'[t] = "running" => job'[w] = t \/ (phase[t] = "running" /\ job[w] # t)
    BY <1>1, Names
  <2> QED
    BY <1>0, <1>1, <1>2, <2>1, <2>2, <2>3, WorkerJobs
<1> QED
  BY <1>4, <1>5, <1>6, <1>7, <1>9, <1>10, <1>11 DEF IInv

\* The frame suspends or is queued again: the entry's reference becomes a pending release.
LEMMA SuspendStep ==
    ASSUME ConstantsOK, IInv, NEW w \in Workers, NEW again \in BOOLEAN, Suspend(w, again)
    PROVE  IInv'
<1>0. TypeOK /\ Short /\ Counted /\ Disposals /\ FreedOK /\ Queued /\ Linked /\ Jobs /\ Calls
  BY DEF IInv
<1>a. PICK t : t = job[w]
  OBVIOUS
<1> DEFINE s == <<t>>
<1>1. /\ job[w] # NoTask /\ todo[w] = <<>>
      /\ IF again THEN Enqueue({t}) /\ refs' = [refs EXCEPT ![t] = @ + 1]
                  ELSE phase' = [phase EXCEPT ![t] = "idle"] /\ UNCHANGED <<refs, queue>>
      /\ todo' = [todo EXCEPT ![w] = s]
      /\ job' = [job EXCEPT ![w] = NoTask]
      /\ UNCHANGED <<freed, published, linked, shutdown, holds, pc>>
  BY <1>a DEF Suspend, Do
<1>2. /\ t \in Tasks /\ phase[t] = "running" /\ pc[w] = "free"
      /\ t \notin published /\ t \in linked /\ t \in Alive
      /\ \A v \in Workers \ {w} : job[v] # t
  BY <1>1, <1>a, RunningJob
<1>3. /\ phase \in [Tasks -> {"none", "queued", "running", "idle", "ended"}]
      /\ job \in [Workers -> Tasks \cup {NoTask}] /\ linked \subseteq Tasks
      /\ refs \in [Objects -> Nat] /\ t \in Objects /\ t \in Ops /\ w \in Threads
      /\ t \notin {"exec", "scope", "walk", "unlink", "disposeScope", "disposeExec", NoTask}
  BY <1>0, <1>2, Names DEF TypeOK
<1>4. s \in Seq(Ops) /\ Len(s) = 1 /\ IsPlain(s)
  <2>1. s \in Seq(Ops) /\ Len(s) = 1
    BY <1>2, <1>3, ShortCounts
  <2>2. IsPlain(s)
    BY <1>3 DEF IsPlain
  <2> QED
    BY <2>1, <2>2
<1>5. \A u : Times(s, u) = IF t = u THEN 1 ELSE 0
  BY <1>2, <1>3, ShortCounts
<1>6. Len(s) <= 5
  BY <1>4
<1> HIDE DEF s
<1>7. /\ todo' \in [Threads -> Seq(Objects \cup {"walk", "unlink", "disposeScope", "disposeExec"})]
      /\ Short' /\ todo'[w] = s /\ \A y \in Threads \ {w} : todo'[y] = todo[y]
  BY <1>0, <1>1, <1>3, <1>4, <1>6, TodoType
<1>n. /\ \A u : Hold(u) \in Nat /\ Pend(u) \in Nat
  BY <1>0, Numbers
<1>8. Pend(t)' = Pend(t) + 1 /\ \A u : u # t => Pend(u)' = Pend(u)
  <2>1. \A u : Pend(u)' = Pend(u) + Times(s, u)
    BY <1>0, <1>1, <1>3, <1>4, <1>6, Pushed
  <2>2. Pend(t)' = Pend(t) + 1
    BY <1>5, <2>1
  <2>3. ASSUME NEW u, u # t PROVE Pend(u)' = Pend(u)
    <3>1. Pend(u)' = Pend(u) + 0
      BY <1>5, <2>1, <2>3
    <3> QED
      BY <1>n, <3>1
  <2> QED
    BY <2>2, <2>3
<1>9. /\ queue' \in Seq(Tasks) /\ Queued'
      /\ phase' \in [Tasks -> {"none", "queued", "running", "idle", "ended"}]
      /\ \A u \in Tasks \ {t} : phase'[u] = phase[u]
      /\ refs' \in [Objects -> Nat]
      /\ \A u \in Objects \ {t} : refs'[u] = refs[u]
      /\ \/ phase'[t] = "queued" /\ refs'[t] = refs[t] + 1
         \/ phase'[t] = "idle" /\ refs'[t] = refs[t]
  <2>1. CASE again
    <3>1. Enqueue({t}) /\ refs' = [refs EXCEPT ![t] = @ + 1]
      BY <1>1, <2>1
    <3>2. {t} \in SUBSET Tasks /\ \A u \in {t} : phase[u] # "queued"
      BY <1>2
    <3>3. /\ queue' \in Seq(Tasks) /\ Queued'
          /\ phase' \in [Tasks -> {"none", "queued", "running", "idle", "ended"}]
          /\ \A u \in Tasks : phase'[u] = IF u \in {t} THEN "queued" ELSE phase[u]
      BY <3>1, <3>2, Enqueued
    <3> QED
      BY <1>2, <1>3, <3>1, <3>3
  <2>2. CASE ~again
    <3>1. phase' = [phase EXCEPT ![t] = "idle"] /\ UNCHANGED <<refs, queue>>
      BY <1>1, <2>2
    <3>2. \A u \in Tasks : phase'[u] = IF u = t THEN "idle" ELSE phase[u]
      BY <1>3, <3>1
    <3>3. Queued'
      BY <1>0, <1>2, <3>1, <3>2 DEF Queued, Times
    <3> QED
      BY <1>0, <1>2, <1>3, <3>1, <3>2, <3>3 DEF TypeOK
  <2> QED
    BY <2>1, <2>2
<1>10. \A u \in Tasks : /\ phase'[u] = "ended" <=> phase[u] = "ended"
                        /\ phase'[u] = "none" <=> phase[u] = "none"
  BY <1>2, <1>9
<1>11. Alive' = Alive
  BY <1>2, <1>9 DEF Alive
<1>12. Calls' /\ Joining' = Joining
  BY <1>0, <1>1, <1>7, WorkerCalls
<1>13. \A u : Hold(u)' = Hold(u)
  BY <1>1, Same
<1>14. job'[w] = NoTask /\ \A v \in Workers \ {w} : job'[v] = job[v]
  BY <1>1, <1>3
<1>15. TypeOK'
  <2>1. job' \in [Workers -> Tasks \cup {NoTask}]
    BY <1>1, <1>3
  <2> QED
    BY <1>0, <1>1, <1>7, <1>9, <2>1 DEF TypeOK
<1>16. Counted'
  <2>1. ASSUME NEW u \in Tasks PROVE refs'[u] = Hold(u)' + Pend(u)' + Rank(phase'[u])
    <3>1. refs[u] = Hold(u) + Pend(u) + Rank(phase[u]) /\ Hold(u)' = Hold(u)
      BY <1>0, <1>13 DEF Counted
    <3>2. CASE u # t
      BY <1>8, <1>9, <3>1, <3>2, Names
    <3>3. CASE u = t
      <4>1. Rank(phase[u]) = 2
        BY <1>2, <3>3 DEF Rank
      <4>2. Pend(u)' = Pend(u) + 1
        BY <1>8, <3>3
      <4>3. \/ Rank(phase'[u]) = 2 /\ refs'[u] = refs[u] + 1
            \/ Rank(phase'[u]) = 1 /\ refs'[u] = refs[u]
        BY <1>9, <3>3 DEF Rank
      <4>4. Hold(u) + Pend(u) + 2 + 1 = Hold(u) + (Pend(u) + 1) + 2
            /\ Hold(u) + Pend(u) + 2 = Hold(u) + (Pend(u) + 1) + 1
        BY <1>n
      <4> QED
        BY <3>1, <4>1, <4>2, <4>3, <4>4
    <3> QED
      BY <3>2, <3>3
  <2>2. /\ Pend("scope")' = Pend("scope") /\ Pend("exec")' = Pend("exec")
        /\ refs'["scope"] = refs["scope"] /\ refs'["exec"] = refs["exec"]
    BY <1>3, <1>8, <1>9, Names
  <2> QED
    BY <1>0, <1>1, <1>11, <1>12, <1>13, <2>1, <2>2 DEF Counted
<1>17. Disposals' /\ FreedOK'
  <2>1. \A u \in Tasks : phase'[u] = "ended" /\ refs'[u] = 0 <=> phase[u] = "ended" /\ refs[u] = 0
    BY <1>2, <1>9, <1>10, Names
  <2>2. /\ Pend("disposeScope")' = Pend("disposeScope") /\ Pend("disposeExec")' = Pend("disposeExec")
        /\ refs'["scope"] = refs["scope"] /\ refs'["exec"] = refs["exec"]
    BY <1>3, <1>8, <1>9, Names
  <2> QED
    BY <1>0, <1>1, <2>1, <2>2, FreedKept
<1>18. Linked'
  <2>1. \A u \in Tasks : phase[u] = "none" => refs'[u] = refs[u]
    BY <1>2, <1>9, Names
  <2>2. \A u \in linked \cap published : \A v \in Workers : job[v] = u => job'[v] = u
    BY <1>2, <1>14, <1>a
  <2> QED
    BY <1>0, <1>1, <1>3, <1>10, <1>11, <2>1, <2>2, JobLinked
<1>19. Jobs'
  <2>1. WorkerOK(w)'
    BY <1>1, <1>2, <1>4, <1>7, <1>14 DEF WorkerOK, IsPlain
  <2>2. \A v \in Workers \ {w} : job'[v] = job[v] /\ pc'[v] = pc[v] /\ todo'[v] = todo[v]
    BY <1>1, <1>7, <1>14, Names
  <2>3. \A v \in Workers \ {w} : job[v] \in Tasks => /\ phase'[job[v]] = phase[job[v]]
                                                     /\ job[v] \in linked => job[v] \in linked'
    BY <1>1, <1>2, <1>9
  <2>4. \A u \in Tasks : phase'[u] = "running" => job'[w] = u \/ (phase[u] = "running" /\ job[w] # u)
    BY <1>9, <1>a
  <2>5. published \subseteq published' /\ linked \subseteq Tasks
    BY <1>1, <1>3
  <2> QED
    BY <1>0, <1>14, <2>1, <2>2, <2>3, <2>4, <2>5, WorkerJobs
<1> QED
  BY <1>7, <1>9, <1>12, <1>15, <1>16, <1>17, <1>18, <1>19 DEF IInv

\* publish_terminal: what the task had becomes pending releases of its worker.
LEMMA PublishStep ==
    ASSUME ConstantsOK, IInv, NEW w \in Workers, Publish(w)
    PROVE  IInv'
<1>0. TypeOK /\ Short /\ Counted /\ Disposals /\ FreedOK /\ Queued /\ Linked /\ Jobs /\ Calls
  BY DEF IInv
<1>a. PICK t : t = job[w]
  OBVIOUS
<1> DEFINE s == AfterPublication(t)
<1>1. /\ job[w] # NoTask /\ todo[w] = <<>>
      /\ published' = published \cup {t}
      /\ phase' = [phase EXCEPT ![t] = "ended"]
      /\ todo' = [todo EXCEPT ![w] = s]
      /\ UNCHANGED <<refs, freed, linked, queue, shutdown, holds, job, pc>>
  BY <1>a DEF Publish, Do
<1>2. /\ t \in Tasks /\ phase[t] = "running" /\ pc[w] = "free"
      /\ t \notin published /\ t \in linked /\ t \in Alive
      /\ \A v \in Workers \ {w} : job[v] # t
  BY <1>1, <1>a, RunningJob
<1>3. /\ phase \in [Tasks -> {"none", "queued", "running", "idle", "ended"}]
      /\ linked \subseteq Tasks /\ published \subseteq Tasks
      /\ refs \in [Objects -> Nat] /\ t \in Objects /\ t \in Ops /\ w \in Threads
      /\ t \notin {"exec", "scope", "walk", "unlink", "disposeScope", "disposeExec", NoTask}
  BY <1>0, <1>2, Names DEF TypeOK
<1>4. s \in Seq(Ops) /\ Len(s) <= 5
  <2>1. s \in Seq(Ops) /\ Len(s) = 5
    BY <1>2, <1>3, ShortCounts
  <2> HIDE DEF s
  <2> QED
    BY <2>1
<1>5. \A u : Times(s, u) = (IF u = t THEN 2 ELSE IF u \in {"exec", "scope", "unlink"} THEN 1 ELSE 0)
  <2> SUFFICES ASSUME NEW u
               PROVE  Times(AfterPublication(t), u) =
                        (IF u = t THEN 2 ELSE IF u \in {"exec", "scope", "unlink"} THEN 1 ELSE 0)
    OBVIOUS
  <2>1. t \in Ops /\ t \in Tasks
    BY <1>2, <1>3
  <2> QED
    BY <2>1, ShortCounts
<1>t. s = AfterPublication(job[w])
  BY <1>a
<1> HIDE DEF s
<1>7. /\ todo' \in [Threads -> Seq(Objects \cup {"walk", "unlink", "disposeScope", "disposeExec"})]
      /\ Short' /\ todo'[w] = s /\ \A y \in Threads \ {w} : todo'[y] = todo[y]
  BY <1>0, <1>1, <1>3, <1>4, TodoType
<1>n. /\ \A u : Hold(u) \in Nat /\ Pend(u) \in Nat
      /\ Cardinality(Alive) \in Nat /\ Cardinality(Joining) \in Nat /\ IsFiniteSet(Alive)
  BY <1>0, Numbers
<1>8. /\ Pend(t)' = Pend(t) + 2 /\ \A u \in Tasks \ {t} : Pend(u)' = Pend(u)
      /\ Pend("scope")' = Pend("scope") + 1 /\ Pend("exec")' = Pend("exec") + 1
      /\ Pend("disposeScope")' = Pend("disposeScope") /\ Pend("disposeExec")' = Pend("disposeExec")
  <2>1. \A u : Pend(u)' = Pend(u) + Times(s, u)
    BY <1>0, <1>1, <1>3, <1>4, Pushed
  <2>2. Pend(t)' = Pend(t) + 2
    BY <1>5, <2>1
  <2>3. ASSUME NEW u, u # t, u \notin {"exec", "scope", "unlink"} PROVE Pend(u)' = Pend(u)
    <3>1. Pend(u)' = Pend(u) + 0
      BY <1>5, <2>1, <2>3
    <3> QED
      BY <1>n, <3>1
  <2>4. Pend("scope")' = Pend("scope") + 1 /\ Pend("exec")' = Pend("exec") + 1
    BY <1>3, <1>5, <2>1
  <2>5. \A u \in Tasks \ {t} : Pend(u)' = Pend(u)
    BY <2>3, Names
  <2>6. Pend("disposeScope")' = Pend("disposeScope") /\ Pend("disposeExec")' = Pend("disposeExec")
    BY <1>3, <2>3
  <2> QED
    BY <2>2, <2>4, <2>5, <2>6
<1>9. \A u \in Tasks : phase'[u] = IF u = t THEN "ended" ELSE phase[u]
  BY <1>1, <1>3
<1>10. Alive' = Alive \ {t}
  BY <1>2, <1>9 DEF Alive
<1>11. Cardinality(Alive)' = Cardinality(Alive) - 1
  <2>1. Cardinality(Alive \ {t}) = Cardinality(Alive) - 1
    BY <1>2, <1>n, FS_RemoveElement
  <2> QED
    BY <1>10, <2>1
<1>12. Calls' /\ Joining' = Joining
  BY <1>0, <1>1, <1>7, WorkerCalls
<1>13. \A u : Hold(u)' = Hold(u)
  BY <1>1, Same
<1>15. TypeOK'
  <2>1. phase' \in [Tasks -> {"none", "queued", "running", "idle", "ended"}]
    BY <1>1, <1>3
  <2>2. published' \subseteq Tasks
    BY <1>1, <1>2, <1>3
  <2> QED
    BY <1>0, <1>1, <1>7, <2>1, <2>2 DEF TypeOK
<1>16. Counted'
  <2>1. ASSUME NEW u \in Tasks PROVE refs'[u] = Hold(u)' + Pend(u)' + Rank(phase'[u])
    <3>1. refs[u] = Hold(u) + Pend(u) + Rank(phase[u]) /\ Hold(u)' = Hold(u) /\ refs'[u] = refs[u]
      BY <1>0, <1>1, <1>13 DEF Counted
    <3>2. CASE u # t
      BY <1>8, <1>9, <3>1, <3>2, Names
    <3>3. CASE u = t
      <4>1. Rank(phase[u]) = 2 /\ Rank(phase'[u]) = 0
        BY <1>2, <1>9, <3>3 DEF Rank
      <4>2. Pend(u)' = Pend(u) + 2
        BY <1>8, <3>3
      <4>3. Hold(u) + Pend(u) + 2 = Hold(u) + (Pend(u) + 2) + 0
        BY <1>n
      <4> QED
        BY <3>1, <4>1, <4>2, <4>3
    <3> QED
      BY <3>2, <3>3
  <2>2. refs'["scope"] = Hold("scope")' + Pend("scope")' + Cardinality(Alive)' + Cardinality(Joining)'
    <3>1. refs["scope"] = Hold("scope") + Pend("scope") + Cardinality(Alive) + Cardinality(Joining)
      BY <1>0 DEF Counted
    <3>2. Hold("scope") + Pend("scope") + Cardinality(Alive) + Cardinality(Joining)
            = Hold("scope") + (Pend("scope") + 1) + (Cardinality(Alive) - 1) + Cardinality(Joining)
      BY <1>n
    <3>3. refs'["scope"] = refs["scope"] /\ Hold("scope")' = Hold("scope")
          /\ Cardinality(Joining)' = Cardinality(Joining)
      BY <1>1, <1>12, <1>13
    <3> QED
      BY <1>8, <1>11, <3>1, <3>2, <3>3
  <2>3. refs'["exec"] = Hold("exec")' + Pend("exec")' + Cardinality(Alive)'
                        + (IF "scope" \in freed' THEN 0 ELSE 1)
    <3> DEFINE k == IF "scope" \in freed THEN 0 ELSE 1
    <3>0. k \in Nat /\ k = IF "scope" \in freed' THEN 0 ELSE 1
      BY <1>1
    <3>1. refs["exec"] = Hold("exec") + Pend("exec") + Cardinality(Alive) + k
      BY <1>0 DEF Counted
    <3> HIDE DEF k
    <3>2. Hold("exec") + Pend("exec") + Cardinality(Alive) + k
            = Hold("exec") + (Pend("exec") + 1) + (Cardinality(Alive) - 1) + k
      BY <1>n, <3>0
    <3>3. refs'["exec"] = refs["exec"] /\ Hold("exec")' = Hold("exec")
      BY <1>1, <1>13
    <3>4. refs'["exec"] = Hold("exec")' + Pend("exec")' + Cardinality(Alive)' + k
      BY <1>8, <1>11, <3>1, <3>2, <3>3
    <3> QED
      BY <3>0, <3>4
  <2> QED
    BY <2>1, <2>2, <2>3 DEF Counted
<1>17. Disposals' /\ FreedOK'
  <2>1. refs[t] # 0
    BY <1>2, Owned
  <2>2. \A u \in Tasks : phase'[u] = "ended" /\ refs'[u] = 0 <=> phase[u] = "ended" /\ refs[u] = 0
    BY <1>1, <1>9, <2>1
  <2> QED
    BY <1>0, <1>1, <1>8, <2>2, FreedKept
<1>18. Linked'
  <2>1. published' = {u \in Tasks : phase'[u] = "ended"}
    BY <1>0, <1>1, <1>2, <1>9 DEF Linked
  <2>2. Alive' \subseteq linked' /\ \A u \in linked' : phase'[u] # "none"
    BY <1>0, <1>1, <1>3, <1>9, <1>10 DEF Linked
  <2>3. \A u \in linked' \cap published' : \E v \in Workers : job'[v] = u
    BY <1>0, <1>1, <1>a DEF Linked
  <2>4. \A u \in Tasks : phase'[u] = "none" => refs'[u] = 0
    BY <1>0, <1>1, <1>9 DEF Linked
  <2> QED
    BY <2>1, <2>2, <2>3, <2>4 DEF Linked
<1>19. Jobs'
  <2>1. WorkerOK(w)'
    <3>1. job'[w] = t /\ todo'[w] = AfterPublication(t) /\ pc'[w] = "free" /\ t \in linked' \cap published'
      BY <1>1, <1>2, <1>7, <1>a, <1>t
    <3> QED
      BY <3>1 DEF WorkerOK, AfterPublication
  <2>2. \A v \in Workers \ {w} : job'[v] = job[v] /\ pc'[v] = pc[v] /\ todo'[v] = todo[v]
    BY <1>1, <1>7, Names
  <2>3. \A v \in Workers \ {w} : job[v] \in Tasks => /\ phase'[job[v]] = phase[job[v]]
                                                     /\ job[v] \in linked => job[v] \in linked'
    BY <1>1, <1>2, <1>9
  <2>4. \A v \in Workers \ {w} : job'[w] # NoTask => job[v] # job'[w]
    BY <1>1, <1>2, <1>a
  <2>5. \A u \in Tasks : phase'[u] = "running" => job'[w] = u \/ (phase[u] = "running" /\ job[w] # u)
    BY <1>9, <1>a
  <2>6. published \subseteq published' /\ linked \subseteq Tasks
    BY <1>1, <1>3
  <2> QED
    BY <1>0, <2>1, <2>2, <2>3, <2>4, <2>5, <2>6, WorkerJobs
<1>20. Queued'
  <2>1. \A u \in Tasks : phase'[u] = "queued" <=> phase[u] = "queued"
    BY <1>2, <1>9
  <2>2. queue' = queue
    BY <1>1
  <2> QED
    BY <1>0, <2>1, <2>2 DEF Queued, Times
<1> QED
  BY <1>7, <1>12, <1>15, <1>16, <1>17, <1>18, <1>19, <1>20 DEF IInv

\* next_task_remove_from_scope: the published task leaves the scope's list.
LEMMA UnlinkStep ==
    ASSUME ConstantsOK, IInv, NEW w \in Workers, Unlink(w)
    PROVE  IInv'
<1>0. TypeOK /\ Short /\ Counted /\ Disposals /\ FreedOK /\ Queued /\ Linked /\ Jobs /\ Calls
  BY DEF IInv
<1>a. PICK t : t = job[w]
  OBVIOUS
<1> DEFINE s == Tail(todo[w])
<1>1. /\ todo[w] # <<>> /\ Head(todo[w]) = "unlink"
      /\ linked' = linked \ {t}
      /\ job' = [job EXCEPT ![w] = NoTask]
      /\ todo' = [todo EXCEPT ![w] = s]
      /\ UNCHANGED <<refs, freed, phase, published, queue, shutdown, holds, pc>>
  BY <1>a DEF Unlink, Do
<1>2. /\ job \in [Workers -> Tasks \cup {NoTask}] /\ linked \subseteq Tasks
      /\ w \in Threads /\ todo[w] \in Seq(Ops)
  BY <1>0, Names, Numbers DEF TypeOK
<1>3. /\ t \in linked \cap published /\ t \in Tasks /\ pc[w] = "free"
      /\ todo[w] = <<"unlink", t, "scope", t>>
  <2>1. WorkerOK(w)
    BY <1>0 DEF Jobs
  <2>2. ~IsPlain(todo[w])
    BY <1>1, <1>2, PlainTail
  <2>3. todo[w] # AfterPublication(job[w])
    BY <1>1 DEF AfterPublication
  <2> QED
    BY <1>1, <1>2, <1>a, <2>1, <2>2, <2>3 DEF WorkerOK, Unlinking
<1>4. s = <<t, "scope", t>> /\ IsPlain(s)
  <2>1. s = <<t, "scope", t>>
    BY <1>3
  <2>2. t \notin {"walk", "unlink"}
    BY <1>3, Names
  <2> HIDE DEF s
  <2> QED
    BY <2>1, <2>2 DEF IsPlain
<1>5. s \in Seq(Ops) /\ Len(s) <= 5
  BY <1>0, <1>1, <1>2, Popped
<1>6. ASSUME NEW u PROVE Pend(u)' = Pend(u) - (IF "unlink" = u THEN 1 ELSE 0)
  BY <1>0, <1>1, <1>2, Popped
<1> HIDE DEF s
<1>7. /\ todo' \in [Threads -> Seq(Objects \cup {"walk", "unlink", "disposeScope", "disposeExec"})]
      /\ Short' /\ todo'[w] = s /\ \A y \in Threads \ {w} : todo'[y] = todo[y]
  BY <1>0, <1>1, <1>2, <1>5, TodoType
<1>n. \A u : Pend(u) \in Nat
  BY <1>0, Numbers
<1>8. ASSUME NEW u, u # "unlink" PROVE Pend(u)' = Pend(u)
  <2>1. Pend(u)' = Pend(u) - 0
    BY <1>6, <1>8
  <2> QED
    BY <1>n, <2>1
<1>9. /\ \A u \in Objects : Pend(u)' = Pend(u)
      /\ Pend("disposeScope")' = Pend("disposeScope") /\ Pend("disposeExec")' = Pend("disposeExec")
  <2>1. \A u \in Objects : u # "unlink"
    BY Names
  <2> QED
    BY <1>8, <2>1
<1>10. Calls' /\ Joining' = Joining
  BY <1>0, <1>1, <1>7, WorkerCalls
<1>11. (\A u : Hold(u)' = Hold(u)) /\ Alive' = Alive
  BY <1>1, Same
<1>12. TypeOK'
  <2>1. job' \in [Workers -> Tasks \cup {NoTask}] /\ linked' \subseteq Tasks
    BY <1>1, <1>2
  <2> QED
    BY <1>0, <1>1, <1>7, <2>1 DEF TypeOK
<1>13. Counted'
  BY <1>0, <1>1, <1>9, <1>10, <1>11, Names DEF Counted
<1>14. Disposals' /\ FreedOK'
  BY <1>0, <1>1, <1>9, FreedKept
<1>15. job'[w] = NoTask /\ \A v \in Workers \ {w} : job'[v] = job[v]
  BY <1>1, <1>2
<1>16. Linked'
  <2>1. t \notin Alive
    BY <1>0, <1>3 DEF Linked, Alive
  <2>2. Alive' \subseteq linked' /\ \A u \in linked' : phase'[u] # "none"
    BY <1>0, <1>1, <1>11, <2>1 DEF Linked
  <2>3. ASSUME NEW u \in linked' \cap published' PROVE \E v \in Workers : job'[v] = u
    <3>1. u \in linked \cap published /\ u # t
      BY <1>1
    <3>2. PICK v \in Workers : job[v] = u
      BY <1>0, <3>1 DEF Linked
    <3>3. v # w
      BY <1>a, <3>1, <3>2
    <3> QED
      BY <1>15, <3>2, <3>3
  <2>4. published' = {u \in Tasks : phase'[u] = "ended"}
        /\ \A u \in Tasks : phase'[u] = "none" => refs'[u] = 0
    BY <1>0, <1>1 DEF Linked
  <2> QED
    BY <2>2, <2>3, <2>4 DEF Linked
<1>17. Jobs'
  <2>1. WorkerOK(w)'
    BY <1>1, <1>3, <1>4, <1>7, <1>15 DEF WorkerOK, IsPlain
  <2>2. \A v \in Workers \ {w} : job'[v] = job[v] /\ pc'[v] = pc[v] /\ todo'[v] = todo[v]
    BY <1>1, <1>7, <1>15, Names
  <2>3. \A v \in Workers \ {w} : job[v] \in Tasks => /\ phase'[job[v]] = phase[job[v]]
                                                     /\ job[v] \in linked => job[v] \in linked'
    <3>1. \A v \in Workers \ {w} : job[v] \in Tasks => job[v] # t
      BY <1>0, <1>a, Names DEF Jobs
    <3> QED
      BY <1>1, <3>1
  <2>4. ASSUME NEW u \in Tasks, phase'[u] = "running"
        PROVE  job'[w] = u \/ (phase[u] = "running" /\ job[w] # u)
    <3>1. phase[t] = "ended"
      BY <1>0, <1>3 DEF Linked
    <3> QED
      BY <1>1, <1>a, <2>4, <3>1
  <2>5. published \subseteq published' /\ linked \subseteq Tasks
    BY <1>1, <1>2
  <2> QED
    BY <1>0, <1>15, <2>1, <2>2, <2>3, <2>4, <2>5, WorkerJobs
<1>18. Queued'
  BY <1>0, <1>1 DEF Queued, Times
<1> QED
  BY <1>7, <1>10, <1>12, <1>13, <1>14, <1>16, <1>17, <1>18 DEF IInv

-----------------------------------------------------------------------------
(* The invariant, and what follows from it *)

\* Every step keeps the invariant.
LEMMA NextStep ==
    ASSUME ConstantsOK, IInv, [Next]_vars
    PROVE  IInv'
<1>1. CASE UNCHANGED vars
  <2>0. TypeOK /\ Short /\ Counted /\ Disposals /\ FreedOK /\ Queued /\ Linked /\ Jobs /\ Calls
    BY DEF IInv
  <2>1. UNCHANGED <<refs, freed, phase, published, linked, queue, shutdown, holds, job, pc, todo>>
    BY <1>1 DEF vars
  <2>2. TypeOK'
    BY <2>0, <2>1 DEF TypeOK
  <2>3. /\ Short' /\ Joining' = Joining /\ Alive' = Alive
        /\ \A u : Pend(u)' = Pend(u) /\ Hold(u)' = Hold(u)
    BY <2>0, <2>1, Same
  <2>4. Counted'
    BY <2>0, <2>1, <2>3 DEF Counted
  <2>5. Disposals' /\ FreedOK'
    BY <2>0, <2>1, <2>3, FreedKept
  <2>6. Queued'
    BY <2>0, <2>1 DEF Queued, Times
  <2>7. Linked'
    BY <2>0, <2>1, <2>3, LinkedKept DEF TypeOK
  <2>8. Jobs'
    BY <2>0, <2>1, JobsKept
  <2>9. Calls'
    BY <2>0, <2>1 DEF Calls, ClientOK, IsPlain
  <2> QED
    BY <2>2, <2>3, <2>4, <2>5, <2>6, <2>7, <2>8, <2>9 DEF IInv
<1>2. ASSUME NEW c \in Clients, ClientStep(c) PROVE IInv'
  <2>1. CASE ScopeRelease(c)
    BY <2>1, ScopeReleaseStep
  <2>2. CASE ScopeJoin(c)
    BY <2>2, ScopeJoinStep
  <2>3. CASE CancelWalk(c)
    BY <2>3, CancelWalkStep
  <2>4. ASSUME NEW o \in Objects, ReleaseHandle(c, o) PROVE IInv'
    BY <2>4, ReleaseHandleStep
  <2>5. ASSUME NEW t \in Tasks, Create(c, t) PROVE IInv'
    BY <2>5, CreateStep
  <2>6. ASSUME NEW t \in Tasks, Wake(c, t) PROVE IInv'
    BY <2>6, WakeOne
  <2>7. ASSUME NEW t \in Tasks, CancelTree(c, t) PROVE IInv'
    BY <2>7, CancelTreeStep
  <2>8. ASSUME NEW t \in Tasks, NEW d \in Clients, Retain(c, d, t) PROVE IInv'
    BY <2>8, RetainStep
  <2> QED
    BY <1>2, <2>1, <2>2, <2>3, <2>4, <2>5, <2>6, <2>7, <2>8 DEF ClientStep
<1>3. ASSUME NEW w \in Workers, WorkerStep(w) PROVE IInv'
  <2>1. CASE Dequeue(w)
    BY <2>1, DequeueStep
  <2>2. CASE Exit(w)
    BY <2>2, ExitStep
  <2>3. CASE Publish(w)
    BY <2>3, PublishStep
  <2>4. CASE Unlink(w)
    BY <2>4, UnlinkStep
  <2>5. ASSUME NEW again \in BOOLEAN, Suspend(w, again) PROVE IInv'
    BY <2>5, SuspendStep
  <2> QED
    BY <1>3, <2>1, <2>2, <2>3, <2>4, <2>5 DEF WorkerStep
<1>4. ASSUME NEW x \in Threads, Release(x) \/ DisposeScope(x) \/ DisposeExec(x) PROVE IInv'
  BY <1>4, ReleaseStep, DisposeScopeStep, DisposeExecStep
<1> QED
  BY <1>1, <1>2, <1>3, <1>4 DEF Next

\* What a thread is about to release has a reference and is not freed.
LEMMA PendingKept ==
    ASSUME ConstantsOK, IInv, NEW x \in Threads, NEW i \in DOMAIN todo[x], todo[x][i] \in Objects
    PROVE  refs[todo[x][i]] >= 1 /\ todo[x][i] \notin freed
<1>0. TypeOK /\ Short
  BY DEF IInv
<1>a. PICK o : o = todo[x][i]
  OBVIOUS
<1>1. /\ Times(todo[x], o) \in Nat /\ Times(todo[x], o) <= Pend(o) /\ Pend(o) \in Nat
      /\ Hold(o) \in Nat /\ todo[x] \in Seq(Ops)
  BY <1>0, Numbers
<1>2. Times(todo[x], o) # 0
  BY <1>1, <1>a, TimesType DEF NotIn
<1>3. refs[o] >= Hold(o) + Pend(o) /\ refs[o] \in Nat
  BY <1>a, Owned
<1>4. refs[o] >= 1
  BY <1>1, <1>2, <1>3
<1> QED
  BY <1>4, <1>a, Owned

\* A linked task, its scope, and what a queue entry names are not freed.
LEMMA LinkedAndQueued ==
    ASSUME ConstantsOK, IInv
    PROVE  /\ \A t \in linked : t \notin freed /\ "scope" \notin freed
           /\ \A i \in DOMAIN queue : queue[i] \notin freed /\ "exec" \notin freed
<1>0. TypeOK /\ Queued /\ Linked /\ Jobs
  BY DEF IInv
<1>1. \A t \in Alive : t \notin freed /\ "scope" \notin freed /\ "exec" \notin freed
  <2>1. \A t \in Alive : t \in Objects /\ refs[t] >= 1 /\ refs["scope"] >= 1 /\ refs["exec"] >= 1
    BY Owned, Names DEF Alive
  <2> QED
    BY <2>1, Owned, Names
<1>2. ASSUME NEW t \in linked PROVE t \notin freed /\ "scope" \notin freed
  <2>1. t \in Tasks /\ phase[t] # "none"
    BY <1>0 DEF TypeOK, Linked
  <2>2. CASE phase[t] # "ended"
    <3>1. t \in Alive
      BY <1>0, <2>1, <2>2 DEF TypeOK, Alive
    <3> QED
      BY <1>1, <3>1
  <2>3. CASE phase[t] = "ended"
    <3>1. t \in published
      BY <1>0, <2>1, <2>3 DEF Linked
    <3>2. PICK w \in Workers : job[w] = t
      BY <1>0, <3>1 DEF Linked
    <3>3. WorkerOK(w) /\ t # NoTask /\ w \in Threads
      BY <1>0, <2>1, Names DEF Jobs
    <3>4. todo[w] = <<"exec", "unlink", t, "scope", t>> \/ todo[w] = <<"unlink", t, "scope", t>>
      BY <2>3, <3>2, <3>3 DEF WorkerOK, AfterPublication, Unlinking
    <3>5. \E i, j \in DOMAIN todo[w] : todo[w][i] = t /\ todo[w][j] = "scope"
      <4>1. CASE todo[w] = <<"exec", "unlink", t, "scope", t>>
        <5>1. 3 \in DOMAIN todo[w] /\ 4 \in DOMAIN todo[w] /\ todo[w][3] = t /\ todo[w][4] = "scope"
          BY <4>1
        <5> QED
          BY <5>1
      <4>2. CASE todo[w] = <<"unlink", t, "scope", t>>
        <5>1. 2 \in DOMAIN todo[w] /\ 3 \in DOMAIN todo[w] /\ todo[w][2] = t /\ todo[w][3] = "scope"
          BY <4>2
        <5> QED
          BY <5>1
      <4> QED
        BY <3>4, <4>1, <4>2
    <3>6. PICK i \in DOMAIN todo[w], j \in DOMAIN todo[w] : todo[w][i] = t /\ todo[w][j] = "scope"
      BY <3>5
    <3>7. todo[w][i] \in Objects /\ todo[w][j] \in Objects
      BY <2>1, <3>6, Names
    <3>8. todo[w][i] \notin freed /\ todo[w][j] \notin freed
      BY <3>3, <3>7, PendingKept
    <3> QED
      BY <3>6, <3>8
  <2> QED
    BY <2>2, <2>3
<1>3. ASSUME NEW i \in DOMAIN queue PROVE queue[i] \notin freed /\ "exec" \notin freed
  <2>a. PICK t : t = queue[i]
    OBVIOUS
  <2>1. queue \in Seq(Tasks) /\ t \in Tasks
    BY <1>0, <2>a DEF TypeOK
  <2>2. Times(queue, t) # 0
    BY <2>1, <2>a, TimesType DEF NotIn
  <2>3. phase[t] = "queued"
    BY <1>0, <2>1, <2>2 DEF Queued
  <2>4. t \in Alive
    BY <2>1, <2>3 DEF Alive
  <2> QED
    BY <1>1, <2>4, <2>a
<1> QED
  BY <1>2, <1>3

\* No thread is about to use what is freed.
LEMMA ThreadsSafe ==
    ASSUME ConstantsOK, IInv, NEW x \in Threads
    PROVE  Touches(x) \cap freed = {}
<1>0. TypeOK /\ Short /\ Counted /\ Disposals /\ FreedOK /\ Linked /\ Jobs /\ Calls
  BY DEF IInv
<1>1. CASE todo[x] # <<>>
  <2>a. PICK h : h = Head(todo[x])
    OBVIOUS
  <2>1. h \in Ops /\ Pend(h) >= 1 /\ todo[x] \in Seq(Ops) /\ Pend(h) \in Nat
    <3>1. h \in Ops /\ Pend(h) >= 1
      BY <1>0, <1>1, <2>a, Popped
    <3>2. todo[x] \in Seq(Ops) /\ Pend(h) \in Nat
      BY <1>0, Numbers
    <3> QED
      BY <3>1, <3>2
  <2>2. CASE h \in Objects
    <3>0. h \notin {"walk", "unlink", "disposeScope", "disposeExec"}
      BY <2>2, Names
    <3>1. Touches(x) = {h}
      BY <1>1, <2>2, <2>a, <3>0 DEF Touches
    <3>2. h \notin freed
      BY <1>1, <2>2, <2>a, Owned
    <3> QED
      BY <3>1, <3>2
  <2>3. CASE h = "walk"
    <3>1. h \notin Objects
      BY <2>3, Names
    <3>2. Touches(x) = {"scope"}
      BY <1>1, <2>3, <2>a, <3>1 DEF Touches
    <3>3. ~IsPlain(todo[x])
      BY <1>1, <2>1, <2>3, <2>a, PlainTail
    <3>4. x \notin Workers
      <4> SUFFICES ASSUME x \in Workers PROVE FALSE
        OBVIOUS
      <4>1. WorkerOK(x)
        BY <1>0 DEF Jobs
      <4>2. todo[x] # AfterPublication(job[x]) /\ todo[x] # Unlinking(x)
        BY <2>3, <2>a DEF AfterPublication, Unlinking
      <4> QED
        BY <1>1, <3>3, <4>1, <4>2 DEF WorkerOK
    <3>5. todo[x] = <<"walk", "scope">>
      BY <1>0, <3>3, <3>4 DEF Threads, Calls, ClientOK
    <3>6. 2 \in DOMAIN todo[x] /\ todo[x][2] = "scope"
      BY <3>5
    <3>7. "scope" \notin freed
      BY <3>6, PendingKept, Names
    <3> QED
      BY <3>2, <3>7
  <2>4. CASE h = "unlink"
    <3>1. h \notin Objects
      BY <2>4, Names
    <3>2. Touches(x) = {"scope", job[x]}
      BY <1>1, <2>4, <2>a, <3>1 DEF Touches
    <3>3. ~IsPlain(todo[x])
      BY <1>1, <2>1, <2>4, <2>a, PlainTail
    <3>4. x \in Workers
      <4> SUFFICES ASSUME x \in Clients PROVE FALSE
        BY DEF Threads
      <4>1. todo[x] = <<"walk", "scope">>
        BY <1>0, <3>3 DEF Calls, ClientOK
      <4> QED
        BY <2>4, <2>a, <4>1
    <3>5. WorkerOK(x)
      BY <1>0, <3>4 DEF Jobs
    <3>6. job[x] \in linked
      BY <1>1, <3>3, <3>5 DEF WorkerOK
    <3>7. job[x] \notin freed /\ "scope" \notin freed
      BY <3>6, LinkedAndQueued
    <3> QED
      BY <3>2, <3>7
  <2>5. CASE h = "disposeScope"
    <3>1. h \notin Objects
      BY <2>5, Names
    <3>2. Touches(x) = {"scope", "exec"}
      BY <1>1, <2>5, <2>a, <3>1 DEF Touches
    <3>3. "scope" \notin freed
      BY <1>0, <2>1, <2>5 DEF Disposals
    <3>4. "exec" \notin freed
      BY <3>3, Owned, Names
    <3> QED
      BY <3>2, <3>3, <3>4
  <2>6. CASE h = "disposeExec"
    <3>1. h \notin Objects
      BY <2>6, Names
    <3>2. Touches(x) = {"exec"}
      BY <1>1, <2>6, <2>a, <3>1 DEF Touches
    <3>3. "exec" \notin freed
      BY <1>0, <2>1, <2>6 DEF Disposals
    <3> QED
      BY <3>2, <3>3
  <2> QED
    BY <2>1, <2>2, <2>3, <2>4, <2>5, <2>6 DEF Ops
<1>2. CASE todo[x] = <<>> /\ x \in Clients
  <2>1. Touches(x) = holds[x] \cup (IF pc[x] = "join" THEN {"scope"} ELSE {})
    BY <1>2 DEF Touches
  <2>2. holds[x] \cap freed = {}
    <3>1. holds[x] \subseteq Objects
      BY <1>0, <1>2 DEF TypeOK
    <3> QED
      BY <1>2, <3>1, Owned
  <2>3. ASSUME pc[x] = "join" PROVE "scope" \notin freed
    <3>1. Joining # {}
      BY <1>2, <2>3 DEF Joining
    <3>2. Cardinality(Joining) # 0
      BY <1>0, <3>1, Numbers, FS_EmptySet
    <3>3. /\ Hold("scope") \in Nat /\ Pend("scope") \in Nat /\ Cardinality(Alive) \in Nat
          /\ Cardinality(Joining) \in Nat
      BY <1>0, Numbers
    <3>4. refs["scope"] = Hold("scope") + Pend("scope") + Cardinality(Alive) + Cardinality(Joining)
      BY <1>0 DEF Counted
    <3>5. refs["scope"] >= 1
      BY <3>2, <3>3, <3>4
    <3> QED
      BY <3>5, Owned
  <2> QED
    BY <2>1, <2>2, <2>3
<1>3. CASE todo[x] = <<>> /\ x \in Workers
  <2>1. Touches(x) = (IF pc[x] = "exited" THEN {} ELSE {"exec"}) \cup ({job[x]} \ {NoTask})
    BY <1>3, Names DEF Touches
  <2>2. pc[x] # "exited" => "exec" \notin freed
    BY <1>0, <1>3 DEF FreedOK
  <2>3. ASSUME job[x] # NoTask PROVE job[x] \notin freed
    <3>1. job[x] \in linked
      BY <1>3, <2>3, RunningJob
    <3> QED
      BY <3>1, LinkedAndQueued
  <2> QED
    BY <2>1, <2>2, <2>3
<1> QED
  BY <1>1, <1>2, <1>3 DEF Threads

\* The count of a task by its owners, one by one.
LEMMA Exact ==
    ASSUME ConstantsOK, IInv
    PROVE  RefsExact
<1>0. TypeOK /\ Short /\ Counted /\ Queued /\ Linked /\ Jobs
  BY DEF IInv
<1> SUFFICES ASSUME NEW t \in Tasks
             PROVE  refs[t] = Cardinality({c \in Clients : t \in holds[c]})
                       + Cardinality({t} \cap (linked \ published))
                       + Cardinality({i \in DOMAIN queue : queue[i] = t})
                       + Cardinality({w \in Workers : job[w] = t /\ t \notin published})
                       + Cardinality({p \in Threads \X (1..6) : p[2] \in Pending(p[1], t)})
  BY DEF RefsExact
<1> DEFINE C1 == Cardinality({t} \cap (linked \ published))
           C2 == Cardinality({i \in DOMAIN queue : queue[i] = t})
           W  == {w \in Workers : job[w] = t /\ t \notin published}
           P  == {p \in Threads \X (1..6) : p[2] \in Pending(p[1], t)}
<1>1. phase[t] \in {"none", "queued", "running", "idle", "ended"} /\ t # NoTask
  BY <1>0, Names DEF TypeOK
<1>2. Cardinality(P) = Pend(t)
  <2>1. P = Slots(Threads, todo, t)
    BY DEF Slots, Pending
  <2> QED
    BY <2>1 DEF Pend
<1>3. Cardinality({}) = 0 /\ \A v : Cardinality({v}) = 1
  BY FS_EmptySet, FS_Singleton
<1>4. C1 = IF phase[t] \in {"queued", "running", "idle"} THEN 1 ELSE 0
  <2>1. t \in linked \ published <=> phase[t] \in {"queued", "running", "idle"}
    BY <1>0, <1>1 DEF Linked, Alive
  <2>2. CASE phase[t] \in {"queued", "running", "idle"}
    <3>1. {t} \cap (linked \ published) = {t}
      BY <2>1, <2>2
    <3> QED
      BY <1>3, <2>2, <3>1
  <2>3. CASE phase[t] \notin {"queued", "running", "idle"}
    <3>1. {t} \cap (linked \ published) = {}
      BY <2>1, <2>3
    <3> QED
      BY <1>3, <2>3, <3>1
  <2> QED
    BY <2>2, <2>3
<1>5. C2 = IF phase[t] = "queued" THEN 1 ELSE 0
  BY <1>0 DEF Queued, Times
<1>6. Cardinality(W) = IF phase[t] = "running" THEN 1 ELSE 0
  <2>1. CASE phase[t] = "running"
    <3>1. PICK w \in Workers : job[w] = t
      BY <1>0, <2>1 DEF Jobs
    <3>2. t \notin published
      BY <1>0, <2>1 DEF Linked
    <3>3. W = {w}
      BY <1>0, <1>1, <3>1, <3>2 DEF Jobs
    <3> QED
      BY <1>3, <2>1, <3>3
  <2>2. CASE phase[t] # "running"
    <3>1. W = {}
      BY <1>0, <1>1, <2>2 DEF Jobs, WorkerOK
    <3> QED
      BY <1>3, <2>2, <3>1
  <2> QED
    BY <2>1, <2>2
<1>7. refs[t] = Hold(t) + Pend(t) + Rank(phase[t]) /\ Hold(t) \in Nat /\ Pend(t) \in Nat
  BY <1>0, Numbers DEF Counted
<1> HIDE DEF C1, C2, W, P
<1>8. C1 + C2 + Cardinality(W) = Rank(phase[t]) /\ C1 \in Nat /\ C2 \in Nat /\ Cardinality(W) \in Nat
  BY <1>1, <1>4, <1>5, <1>6 DEF Rank
<1>9. refs[t] = Hold(t) + C1 + C2 + Cardinality(W) + Cardinality(P)
  BY <1>2, <1>7, <1>8
<1> QED
  BY <1>9 DEF Hold, C1, C2, W, P

\* When nobody holds or releases anything, everything has been freed.
LEMMA Leakless ==
    ASSUME ConstantsOK, IInv
    PROVE  NoLeak
<1>0. TypeOK /\ Short /\ Counted /\ Disposals /\ FreedOK
  BY DEF IInv
<1> SUFFICES ASSUME \A x \in Threads : todo[x] = <<>> /\ pc[x] # "join",
                    \A c \in Clients : holds[c] = {},
                    \A t \in Tasks : phase[t] \in {"none", "ended"}
             PROVE  freed = {"exec", "scope"} \cup {t \in Tasks : phase[t] # "none"}
  BY DEF NoLeak
<1>1. Cardinality({}) = 0
  BY FS_EmptySet
<1>2. ASSUME NEW u PROVE Hold(u) = 0 /\ Pend(u) = 0
  <2>1. {c \in Clients : u \in holds[c]} = {}
    OBVIOUS
  <2>2. Slots(Threads, todo, u) = {}
    BY DEF Slots
  <2> QED
    BY <1>1, <2>1, <2>2 DEF Hold, Pend
<1>3. Cardinality(Alive) = 0 /\ Cardinality(Joining) = 0
  <2>1. Alive = {} /\ Joining = {}
    BY Names DEF Alive, Joining
  <2> QED
    BY <1>1, <2>1
<1>4. refs["scope"] = 0
  BY <1>0, <1>2, <1>3 DEF Counted
<1>5. "scope" \in freed
  BY <1>0, <1>2, <1>4 DEF Disposals
<1>6. refs["exec"] = 0
  BY <1>0, <1>2, <1>3, <1>5 DEF Counted
<1>7. "exec" \in freed
  BY <1>0, <1>2, <1>6 DEF Disposals
<1>8. ASSUME NEW t \in Tasks PROVE t \in freed <=> phase[t] # "none"
  <2>1. Rank(phase[t]) = 0
    BY DEF Rank
  <2>2. refs[t] = 0
    BY <1>0, <1>2, <2>1 DEF Counted
  <2> QED
    BY <1>0, <2>2 DEF FreedOK
<1>9. freed \subseteq {"exec", "scope"} \cup Tasks
  BY <1>0 DEF TypeOK, Objects
<1> QED
  BY <1>5, <1>7, <1>8, <1>9

-----------------------------------------------------------------------------
(* The executor is not disposed of by a worker while the host keeps it *)

\* Nobody uses the scope any more and no worker has anything in hand.
Quiet ==
    /\ \A c \in Clients : "scope" \notin holds[c] /\ pc[c] # "join"
    /\ \A w \in Workers : todo[w] = <<>> /\ job[w] = NoTask

\* The last scope_release has waited for the last task.
Joined == (\A c \in Clients : "scope" \notin holds[c] /\ pc[c] # "join") => linked = {}

\* A host that keeps the executor releases it only when all is quiet, and it stays quiet.
HostKept ==
    HostKeepsExecutor =>
        /\ (\E c \in Clients : "exec" \notin holds[c]) => Quiet
        /\ \A w \in Workers : NotIn(todo[w], "disposeExec")

\* The last scope handle is gone, and no task is left, when all is quiet.
LEMMA QuietEnds ==
    ASSUME IInv, Joined, Quiet
    PROVE  linked = {} /\ Alive = {} /\ queue = <<>>
<1>0. TypeOK /\ Queued /\ Linked
  BY DEF IInv
<1>1. linked = {}
  BY DEF Joined, Quiet
<1>2. Alive = {}
  BY <1>0, <1>1 DEF Linked
<1>3. queue = <<>>
  <2> SUFFICES ASSUME queue # <<>> PROVE FALSE
    OBVIOUS
  <2>1. queue \in Seq(Tasks)
    BY <1>0 DEF TypeOK
  <2>2. 1 \in DOMAIN queue /\ queue[1] \in Tasks
    BY <2>1
  <2>3. Times(queue, queue[1]) # 0
    BY <2>1, <2>2, TimesType DEF NotIn
  <2>4. phase[queue[1]] = "queued"
    BY <1>0, <2>2, <2>3 DEF Queued
  <2> QED
    BY <1>2, <2>2, <2>4 DEF Alive
<1> QED
  BY <1>1, <1>2, <1>3

\* What a thread has left after the head has no disposal that was not there before.
LEMMA LeftOver ==
    ASSUME NEW s \in Seq(Ops), s # <<>>, NEW v, NotIn(s, v)
    PROVE  /\ NotIn(Tail(s), v)
           /\ \A u \in Ops : u # v => NotIn(<<u>> \o Tail(s), v)
<1> DEFINE r == Tail(s)
<1>1. r \in Seq(Ops) /\ Times(s, v) = 0
  BY HeadTailProperties, TimesType
<1>2. Times(s, v) = Times(r, v) + (IF Head(s) = v THEN 1 ELSE 0)
  BY TimesTail
<1> HIDE DEF r
<1>3. Times(r, v) \in Nat
  BY <1>1, TimesType
<1>4. Times(r, v) = 0
  BY <1>1, <1>2, <1>3
<1>5. NotIn(r, v)
  BY <1>1, <1>4, TimesType
<1>6. ASSUME NEW u \in Ops, u # v PROVE NotIn(<<u>> \o r, v)
  <2>1. /\ <<u>> \o r \in Seq(Ops)
        /\ Times(<<u>> \o r, v) = Times(r, v) + (IF u = v THEN 1 ELSE 0)
    BY <1>1, TimesCons
  <2>2. Times(<<u>> \o r, v) = 0
    BY <1>4, <1>6, <2>1
  <2> QED
    BY <2>1, <2>2, TimesType
<1> QED
  BY <1>5, <1>6 DEF r

\* A step that is no worker's: neither the scope's users nor the workers' work change.
LEMMA CallHost ==
    ASSUME Joined, HostKept, linked' = linked,
           \A c \in Clients : /\ pc'[c] = pc[c]
                              /\ "scope" \in holds'[c] <=> "scope" \in holds[c]
                              /\ "exec" \in holds[c] /\ HostKeepsExecutor => "exec" \in holds'[c] \/ Quiet,
           \A w \in Workers : todo'[w] = todo[w] /\ job'[w] = job[w]
    PROVE  Joined' /\ HostKept'
<1>1. Joined'
  BY DEF Joined
<1>2. Quiet => Quiet'
  BY DEF Quiet
<1>3. HostKept'
  BY <1>2 DEF HostKept, NotIn
<1> QED
  BY <1>1, <1>3

\* A worker's step: it had something to do, so every client has its executor handle.
LEMMA WorkerHost ==
    ASSUME Joined, HostKept, ~Quiet, NEW w \in Workers,
           holds' = holds, linked' \subseteq linked,
           \A c \in Clients : pc'[c] = pc[c],
           \A v \in Workers \ {w} : todo'[v] = todo[v],
           HostKeepsExecutor => NotIn(todo'[w], "disposeExec")
    PROVE  Joined' /\ HostKept'
<1>1. Joined'
  BY DEF Joined
<1>2. HostKept'
  <2> SUFFICES ASSUME HostKeepsExecutor
               PROVE  /\ ~\E c \in Clients : "exec" \notin holds'[c]
                      /\ \A v \in Workers : NotIn(todo'[v], "disposeExec")
    BY DEF HostKept
  <2>1. \A v \in Workers \ {w} : NotIn(todo'[v], "disposeExec")
    BY DEF HostKept, NotIn
  <2> QED
    BY <2>1 DEF HostKept
<1> QED
  BY <1>1, <1>2

\* A release or disposal: of a client, or of a worker that does not take the executor's
\* last reference.
LEMMA ThreadHost ==
    ASSUME ConstantsOK, IInv, Joined, HostKept, NEW x \in Threads,
           Release(x) \/ DisposeScope(x) \/ DisposeExec(x)
    PROVE  Joined' /\ HostKept'
<1>0. TypeOK /\ Short /\ Counted
  BY DEF IInv
<1>1. /\ todo[x] # <<>> /\ UNCHANGED <<linked, holds, job, pc>>
      /\ todo \in [Threads -> Seq(Ops)] /\ todo[x] \in Seq(Ops)
  BY <1>0, Numbers DEF Release, DisposeScope, DisposeExec
<1>2. \A y \in Threads \ {x} : todo'[y] = todo[y]
  BY <1>1 DEF Release, DisposeScope, DisposeExec, Do
<1>3. CASE x \in Clients
  <2>1. \A w \in Workers : w \in Threads \ {x}
    BY <1>3, Names
  <2>2. \A w \in Workers : todo'[w] = todo[w] /\ job'[w] = job[w]
    BY <1>1, <1>2, <2>1
  <2> QED
    BY <1>1, <2>2, CallHost
<1>4. CASE x \in Workers
  <2>1. ~Quiet
    BY <1>1, <1>4 DEF Quiet
  <2>2. \A v \in Workers \ {x} : todo'[v] = todo[v]
    BY <1>2, Names
  <2>3. ASSUME HostKeepsExecutor PROVE NotIn(todo'[x], "disposeExec")
    <3>1. NotIn(todo[x], "disposeExec") /\ \A c \in Clients : "exec" \in holds[c]
      BY <1>4, <2>1, <2>3 DEF HostKept
    <3>2. /\ NotIn(Tail(todo[x]), "disposeExec")
          /\ \A u \in Ops : u # "disposeExec" => NotIn(<<u>> \o Tail(todo[x]), "disposeExec")
      BY <1>1, <3>1, LeftOver
    <3>3. Head(todo[x]) # "disposeExec"
      <4>1. 1 \in DOMAIN todo[x] /\ Head(todo[x]) = todo[x][1]
        BY <1>1
      <4> QED
        BY <3>1, <4>1 DEF NotIn
    <3>4. ~DisposeExec(x)
      BY <3>3 DEF DisposeExec
    <3>5. CASE DisposeScope(x)
      <4>1. todo' = [todo EXCEPT ![x] = <<"exec">> \o Tail(todo[x])]
        BY <3>5 DEF DisposeScope, Do
      <4>2. todo'[x] = <<"exec">> \o Tail(todo[x])
        BY <1>1, <4>1
      <4> QED
        BY <3>2, <4>2, Names
    <3>6. CASE Release(x)
      <4>a. PICK o : o = Head(todo[x])
        OBVIOUS
      <4> DEFINE r == Tail(todo[x])
      <4>1. o \in Objects
            /\ todo' = [todo EXCEPT ![x] = IF refs[o] = 1 THEN Disposal(o) \o r ELSE r]
        BY <3>6, <4>a DEF Release, Do
      <4>2. todo'[x] = IF refs[o] = 1 THEN Disposal(o) \o r ELSE r
        BY <1>1, <4>1
      <4>3. r \in Seq(Ops) /\ <<>> \o r = r
        <5>1. r \in Seq(Ops)
          BY <1>1, HeadTailProperties
        <5> QED
          BY <5>1, ConcatEmptySeq
      <4>4. o = "exec" => refs[o] # 1
        <5> SUFFICES ASSUME o = "exec" PROVE refs["exec"] # 1
          OBVIOUS
        <5>1. PICK c \in Clients : "exec" \in holds[c]
          BY <3>1 DEF ConstantsOK
        <5>2. Hold("exec") >= 1 /\ Hold("exec") \in Nat /\ Pend("exec") \in Nat
          BY <1>0, <5>1, Numbers
        <5>3. Pend("exec") >= 1
          BY <1>0, <1>1, <4>a, Popped
        <5>4. refs["exec"] >= Hold("exec") + Pend("exec") /\ refs["exec"] \in Nat
          BY Owned, Names
        <5> QED
          BY <5>2, <5>3, <5>4
      <4>5. o # "exec" => Disposal(o) \in {<<>>, <<"disposeScope">>, <<"exec">>}
        BY <4>1, Names DEF Disposal
      <4>6. "disposeScope" \in Ops /\ "exec" \in Ops
        BY <4>1, Names
      <4>t. NotIn(r, "disposeExec") /\ NotIn(<<"disposeScope">> \o r, "disposeExec")
            /\ NotIn(<<"exec">> \o r, "disposeExec")
        BY <3>2, <4>6
      <4> HIDE DEF r
      <4>7. CASE refs[o] # 1
        BY <4>2, <4>7, <4>t
      <4>8. CASE refs[o] = 1
        <5>1. todo'[x] = Disposal(o) \o r /\ Disposal(o) \in {<<>>, <<"disposeScope">>, <<"exec">>}
          BY <4>2, <4>4, <4>5, <4>8
        <5>2. todo'[x] \in {<<>> \o r, <<"disposeScope">> \o r, <<"exec">> \o r}
          BY <5>1
        <5> QED
          BY <4>3, <4>t, <5>2
      <4> QED
        BY <4>7, <4>8
    <3> QED
      BY <3>4, <3>5, <3>6
  <2> QED
    BY <1>1, <1>4, <2>1, <2>2, <2>3, WorkerHost
<1> QED
  BY <1>3, <1>4 DEF Threads

\* The other steps of a worker: it had a task or found one.
LEMMA WorkHost ==
    ASSUME ConstantsOK, IInv, Joined, HostKept, NEW w \in Workers, WorkerStep(w)
    PROVE  Joined' /\ HostKept'
<1>0. TypeOK /\ Short
  BY DEF IInv
<1>1. w \in Threads /\ w \notin Clients /\ todo \in [Threads -> Seq(Ops)] /\ todo[w] \in Seq(Ops)
      /\ pc \in [Threads -> {"free", "join", "exited"}]
      /\ \A v \in Workers : v \in Threads
  BY <1>0, Names, Numbers DEF TypeOK
<1>2. HostKeepsExecutor => NotIn(todo[w], "disposeExec")
  BY DEF HostKept
<1>3. CASE Dequeue(w)
  <2>1. ~Quiet
    BY <1>3, QuietEnds DEF Dequeue
  <2> QED
    BY <1>2, <1>3, <2>1, WorkerHost DEF Dequeue
<1>4. CASE Exit(w)
  <2>1. \A c \in Clients : pc'[c] = pc[c]
    BY <1>1, <1>4, Names DEF Exit
  <2> QED
    BY <1>4, <2>1, CallHost DEF Exit
<1>5. CASE Publish(w)
  <2>a. PICK t : t = job[w]
    OBVIOUS
  <2>1. /\ job[w] # NoTask /\ todo[w] = <<>>
        /\ todo' = [todo EXCEPT ![w] = AfterPublication(t)]
        /\ UNCHANGED <<holds, linked, pc>>
    BY <1>5, <2>a DEF Publish, Do
  <2>2. t \in Tasks /\ t # "disposeExec"
    BY <2>1, <2>a, RunningJob, Names
  <2>3. todo'[w] = <<"exec", "unlink", t, "scope", t>> /\ \A v \in Workers \ {w} : todo'[v] = todo[v]
    BY <1>1, <2>1 DEF AfterPublication
  <2>4. NotIn(todo'[w], "disposeExec")
    BY <2>2, <2>3 DEF NotIn
  <2>5. ~Quiet
    BY <2>1 DEF Quiet
  <2> QED
    BY <2>1, <2>3, <2>4, <2>5, WorkerHost
<1>6. CASE Unlink(w)
  <2>1. /\ todo[w] # <<>> /\ todo' = [todo EXCEPT ![w] = Tail(todo[w])]
        /\ linked' \subseteq linked /\ UNCHANGED <<holds, pc>>
    BY <1>6 DEF Unlink, Do
  <2>2. todo'[w] = Tail(todo[w]) /\ \A v \in Workers \ {w} : todo'[v] = todo[v]
    BY <1>1, <2>1
  <2>3. HostKeepsExecutor => NotIn(Tail(todo[w]), "disposeExec")
    BY <1>1, <1>2, <2>1, LeftOver
  <2>4. ~Quiet
    BY <2>1 DEF Quiet
  <2>5. HostKeepsExecutor => NotIn(todo'[w], "disposeExec")
    BY <2>2, <2>3
  <2> QED
    BY <2>1, <2>2, <2>4, <2>5, WorkerHost
<1>7. ASSUME NEW again \in BOOLEAN, Suspend(w, again) PROVE Joined' /\ HostKept'
  <2>a. PICK t : t = job[w]
    OBVIOUS
  <2>1. /\ job[w] # NoTask /\ todo[w] = <<>>
        /\ todo' = [todo EXCEPT ![w] = <<t>>]
        /\ UNCHANGED <<holds, linked, pc>>
    BY <1>7, <2>a DEF Suspend, Do
  <2>2. t # "disposeExec"
    BY <2>1, <2>a, RunningJob, Names
  <2>3. todo'[w] = <<t>> /\ \A v \in Workers \ {w} : todo'[v] = todo[v]
    BY <1>1, <2>1
  <2>4. NotIn(todo'[w], "disposeExec")
    BY <2>2, <2>3 DEF NotIn
  <2>5. ~Quiet
    BY <2>1 DEF Quiet
  <2> QED
    BY <2>1, <2>3, <2>4, <2>5, WorkerHost
<1> QED
  BY <1>3, <1>4, <1>5, <1>6, <1>7 DEF WorkerStep

\* The calls of the clients.
LEMMA ClientHost ==
    ASSUME ConstantsOK, IInv, Joined, HostKept, NEW c \in Clients, ClientStep(c)
    PROVE  Joined' /\ HostKept'
<1>0. TypeOK
  BY DEF IInv
<1>1. /\ holds \in [Clients -> SUBSET Objects] /\ c \in Threads
      /\ todo \in [Threads -> Seq(Objects \cup {"walk", "unlink", "disposeScope", "disposeExec"})]
      /\ pc \in [Threads -> {"free", "join", "exited"}]
      /\ \A w \in Workers : w \in Threads \ {c}
  BY <1>0, Names DEF TypeOK
<1>2. \A s : Do(c, s) => \A w \in Workers : todo'[w] = todo[w]
  BY <1>1 DEF Do
\* The two calls of a client that still has the scope, and the end of its scope_release.
<1>3. ASSUME ~Quiet, \A d \in Clients : "exec" \in holds[d] => "exec" \in holds'[d],
             \A w \in Workers : todo'[w] = todo[w]
      PROVE  HostKept'
  BY <1>3 DEF HostKept, NotIn
<1>4. ASSUME NEW t \in Tasks, Create(c, t) PROVE Joined' /\ HostKept'
  <2>1. /\ "scope" \in holds[c] /\ holds' = [holds EXCEPT ![c] = @ \cup {t}] /\ todo' = todo
    BY <1>4 DEF Create
  <2>2. ~Quiet /\ "scope" \in holds'[c] /\ \A d \in Clients : "exec" \in holds[d] => "exec" \in holds'[d]
    BY <1>1, <2>1 DEF Quiet
  <2>3. Joined'
    BY <2>2 DEF Joined
  <2> QED
    BY <1>3, <2>1, <2>2, <2>3
<1>5. CASE ScopeRelease(c)
  <2>1. /\ "scope" \in holds[c] /\ holds' = [holds EXCEPT ![c] = @ \ {"scope"}] /\ todo' = todo
        /\ pc' = [pc EXCEPT ![c] = "join"]
    BY <1>5 DEF ScopeRelease
  <2>2. ~Quiet /\ pc'[c] = "join" /\ \A d \in Clients : "exec" \in holds[d] => "exec" \in holds'[d]
    BY <1>1, <2>1 DEF Quiet
  <2>3. Joined'
    BY <2>2 DEF Joined
  <2> QED
    BY <1>3, <2>1, <2>2, <2>3
<1>6. CASE ScopeJoin(c)
  <2>1. pc[c] = "join" /\ linked' = {} /\ holds' = holds /\ Do(c, <<"scope">>)
    BY <1>6 DEF ScopeJoin
  <2>2. ~Quiet
    BY <2>1 DEF Quiet
  <2>3. Joined'
    BY <2>1 DEF Joined
  <2> QED
    BY <1>2, <1>3, <2>1, <2>2, <2>3
<1>7. ASSUME NEW o \in Objects, ReleaseHandle(c, o) PROVE Joined' /\ HostKept'
  <2>1. /\ o # "scope" /\ holds' = [holds EXCEPT ![c] = @ \ {o}] /\ UNCHANGED <<linked, job, pc>>
        /\ o = "exec" /\ HostKeepsExecutor => Settled
        /\ \A w \in Workers : todo'[w] = todo[w]
    BY <1>2, <1>7 DEF ReleaseHandle
  <2>2. Settled => Quiet
    BY DEF Settled, Quiet, Idle, Ready
  <2>3. ASSUME NEW d \in Clients
        PROVE  /\ "scope" \in holds'[d] <=> "scope" \in holds[d]
               /\ "exec" \in holds[d] /\ HostKeepsExecutor => "exec" \in holds'[d] \/ Quiet
    BY <1>1, <2>1, <2>2
  <2> QED
    BY <2>1, <2>3, CallHost
<1>8. ASSUME NEW t \in Tasks, NEW d \in Clients, Retain(c, d, t) PROVE Joined' /\ HostKept'
  <2>1. holds' = [holds EXCEPT ![d] = @ \cup {t}] /\ UNCHANGED <<linked, job, pc, todo>>
    BY <1>8 DEF Retain
  <2>2. t # "scope" /\ t # "exec"
    BY Names
  <2>3. ASSUME NEW e \in Clients
        PROVE  /\ "scope" \in holds'[e] <=> "scope" \in holds[e]
               /\ "exec" \in holds[e] => "exec" \in holds'[e]
    BY <1>1, <2>1, <2>2
  <2> QED
    BY <2>1, <2>3, CallHost
<1>9. ASSUME NEW t \in Tasks, Wake(c, t) \/ CancelTree(c, t) PROVE Joined' /\ HostKept'
  <2>1. UNCHANGED <<linked, holds, job, pc>> /\ \A w \in Workers : todo'[w] = todo[w]
    BY <1>2, <1>9 DEF Wake, CancelTree
  <2> QED
    BY <2>1, CallHost
<1>10. CASE CancelWalk(c)
  <2>1. UNCHANGED <<linked, holds, job, pc>> /\ \A w \in Workers : todo'[w] = todo[w]
    BY <1>2, <1>10 DEF CancelWalk
  <2> QED
    BY <2>1, CallHost
<1> QED
  BY <1>4, <1>5, <1>6, <1>7, <1>8, <1>9, <1>10 DEF ClientStep

-----------------------------------------------------------------------------
(* The theorems *)

\* The reference counts of executor, scope and tasks are the numbers of their owners, at
\* every step of any number of clients, workers and tasks (retain, release, task_create,
\* publish_terminal, request_cancel_tree, scope_release and the disposals).
THEOREM OwnersCounted ==
    ASSUME ConstantsOK
    PROVE  Spec => []IInv
<1>1. Init => IInv
  BY Initially
<1>2. IInv /\ [Next]_vars => IInv'
  BY NextStep
<1> QED
  BY <1>1, <1>2, PTL DEF Spec

\* While the host keeps the executor until the scope is gone and the workers are idle, no
\* worker disposes of it and joins itself (next_task_executor_dispose), for any number of
\* clients, workers and tasks.
THEOREM WorkersNeverDispose ==
    ASSUME ConstantsOK
    PROVE  Spec => [](HostKeepsExecutor => NoSelfDispose)
<1> DEFINE HInv == IInv /\ Joined /\ HostKept
<1>1. Init => HInv
  <2> SUFFICES ASSUME Init PROVE HInv
    OBVIOUS
  <2>1. IInv
    BY Initially
  <2>2. Joined
    BY DEF Init, Joined
  <2>3. \A w \in Workers : NotIn(todo[w], "disposeExec")
    BY Names DEF Init, NotIn
  <2>4. \A c \in Clients : "exec" \in holds[c]
    BY DEF Init
  <2>5. HostKept
    BY <2>3, <2>4 DEF HostKept
  <2> QED
    BY <2>1, <2>2, <2>5
<1>2. HInv /\ [Next]_vars => HInv'
  <2> SUFFICES ASSUME IInv, Joined, HostKept, [Next]_vars PROVE HInv'
    OBVIOUS
  <2>1. IInv'
    BY NextStep
  <2>2. Joined' /\ HostKept'
    <3>1. CASE UNCHANGED vars
      BY <3>1, CallHost DEF vars
    <3>2. CASE Next
      BY <3>2, ClientHost, WorkHost, ThreadHost DEF Next
    <3> QED
      BY <3>1, <3>2
  <2> QED
    BY <2>1, <2>2
<1>3. HInv => (HostKeepsExecutor => NoSelfDispose)
  <2> SUFFICES ASSUME IInv, HostKept, HostKeepsExecutor, NEW w \in Workers, todo[w] # <<>>
               PROVE  Head(todo[w]) # "disposeExec"
    BY DEF NoSelfDispose
  <2>1. todo[w] \in Seq(Ops)
    BY Numbers, Names DEF IInv
  <2>2. 1 \in DOMAIN todo[w] /\ Head(todo[w]) = todo[w][1]
    BY <2>1
  <2> QED
    BY <2>2 DEF HostKept, NotIn
<1> HIDE DEF HInv
<1> QED
  BY <1>1, <1>2, <1>3, PTL DEF Spec

\* ReferencesBalance for any number of clients, workers and tasks: no thread uses what is
\* freed, every task's count is the number of its owners, nothing is left over when nobody
\* holds or releases anything, and no worker joins itself while the host keeps the executor.
THEOREM ReferencesHold ==
    ASSUME ConstantsOK
    PROVE  Spec => []ReferencesBalance
<1> DEFINE Counts == TypeOK /\ NoUseAfterFree /\ RefsExact /\ NoLeak
           Own == HostKeepsExecutor => NoSelfDispose
<1>1. IInv => Counts
  <2> SUFFICES ASSUME IInv PROVE Counts
    OBVIOUS
  <2>1. TypeOK
    BY DEF IInv
  <2>2. NoUseAfterFree
    <3>1. \A x \in Threads : Touches(x) \cap freed = {}
      BY ThreadsSafe
    <3>2. /\ \A t \in linked : {t, "scope"} \cap freed = {}
          /\ \A i \in DOMAIN queue : {queue[i], "exec"} \cap freed = {}
      BY LinkedAndQueued
    <3> QED
      BY <3>1, <3>2 DEF NoUseAfterFree
  <2> QED
    BY <2>1, <2>2, Exact, Leakless
<1>2. Counts /\ Own => ReferencesBalance
  BY DEF ReferencesBalance
<1>3. Spec => []Own
  BY WorkersNeverDispose
<1> HIDE DEF Counts, Own
<1> QED
  BY <1>1, <1>2, <1>3, OwnersCounted, PTL
=============================================================================
