--------------------------- MODULE TaskGroupProofs --------------------------
(***************************************************************************)
(* Proofs about TaskGroup, for any number of tasks, completions, members   *)
(* and threads.  GroupInv says where every member, waiter and reference    *)
(* is, and that each count is the number of owners; every action hands     *)
(* them on.  A pending operation is named by its thread and by how many    *)
(* others come after it, so that a step at the front of a thread's         *)
(* sequence leaves the names of the others alone.                          *)
(***************************************************************************)
EXTENDS TaskGroup, FiniteSetTheorems, SequenceTheorems, TLAPS

\* What the proofs assume besides: no thread, member or completion without end.
GroupConstantsOK ==
    /\ ConstantsOK
    /\ IsFiniteSet(Clients) /\ IsFiniteSet(Members) /\ IsFiniteSet(Completions)

-----------------------------------------------------------------------------
(* The pending operations of the threads *)

\* What a thread can have to do, and on what.
GroupOps ==
    ({"wake", "release"} \X Completions) \cup ({"drop"} \X Objects)
      \cup ({"publish", "cancel"} \X Tasks) \cup ({"member"} \X Members)
      \cup ({"requestCancel", "cancelNext"} \X {"group"})

\* Thread x has operation k of a to do, and d others after it.  A thread only changes the
\* front of its sequence, so that what is behind stays at its level.
Level(s, d, v) == d \in Nat /\ d < Len(s) /\ s[Len(s) - d] = v
At(x, d, k, a) == x \in Threads /\ Level(todo[x], d, <<k, a>>)

Awaits(k, a) == \E x \in Threads, d \in Nat : At(x, d, k, a)

\* No value is twice in s.
OneEach(s) == \A i, j \in DOMAIN s : s[i] = s[j] => i = j

\* The member records in use are those in the group's list, and active_count counts them.
MemberList ==
    /\ group.active = Len(group.members) /\ OneEach(group.members)
    /\ \A m \in Members : m \in Elements(group.members) <=> member[m].task # Nobody

\* A task has its members until it is published; then its worker has them, each once.
MemberOwners ==
    /\ \A t \in Tasks : OneEach(taskMembers[t])
    /\ \A t \in Tasks : \A m \in Elements(taskMembers[t]) :
         member[m].task = t /\ outcome[t] = "None"
    /\ \A x, d, m : At(x, d, "member", m) =>
         member[m].task \in Tasks /\ outcome[member[m].task] # "None"
    /\ \A x, y, d, e, m : At(x, d, "member", m) /\ At(y, e, "member", m) => x = y /\ d = e
    /\ \A m \in Members : member[m].task # Nobody =>
         m \in Elements(taskMembers[member[m].task]) \/ Awaits("member", m)

\* What is published is what was committed, and one worker publishes it.
Endings ==
    /\ \A t \in Tasks : outcome[t] \in {"None", ended[t]}
    /\ \A x, d, t : At(x, d, "publish", t) =>
         d = 0 /\ ended[t] # "None" /\ outcome[t] = "None"
    /\ \A x, y, d, e, t : At(x, d, "publish", t) /\ At(y, e, "publish", t) => x = y

\* The group has recorded a child's outcome, or has a member that will.
Recording ==
    /\ expected \subseteq attached /\ attached \subseteq Tasks
    /\ \A t \in attached : outcome[t] # "None" \/ \E m \in Members : member[m].task = t
    /\ \A t \in expected :
         \/ \E m \in Members : member[m].task = t /\ member[m].expect
         \/ /\ outcome[t] # "None"
            /\ outcome[t] = "Cancelled" => group.implicitCancelled
            /\ outcome[t] = "Failed" => group.implicitFailed
    /\ \A m \in Members : member[m].expect => member[m].task \in expected
    /\ group.implicitCancelled => \E t \in expected : outcome[t] = "Cancelled"
    /\ group.implicitFailed => \E t \in expected : outcome[t] = "Failed"

\* The armed completions are those in the lists.  They are armed on a task that is not
\* published or on a closed group that still has members.
ArmedOnes ==
    /\ \A o \in Lists : OneEach(completions[o])
    /\ \A o \in Lists : \A c \in Elements(completions[o]) :
         completion[c].state = "Armed" /\ completion[c].owner = o
    /\ \A c \in Completions : completion[c].state = "Armed" =>
         completion[c].owner \in Lists
           /\ c \in Elements(completions[completion[c].owner])
    /\ \A c \in Completions : completion[c].owner # Nobody => completion[c].of = completion[c].owner
    /\ \A c \in Completions : completion[c].state = "None" => completion[c].owner = Nobody
    /\ \A c \in Completions : completion[c].state = "Armed" /\ completion[c].owner \in Tasks =>
         outcome[completion[c].owner] = "None"
    /\ \A c \in Completions : completion[c].state = "Armed" /\ completion[c].owner = "group" =>
         group.closed /\ group.active # 0
    /\ \A c \in Completions : completion[c].state = "Ready" /\ completion[c].of = "group" =>
         group.closed /\ group.active = 0

\* Where a completion is in its callbacks.
CallsBack(x, d, c) == At(x, d, "wake", c) \/ At(x, d, "release", c)
Callbacks ==
    /\ \A x, y, d, e, c : CallsBack(x, d, c) /\ CallsBack(y, e, c) => x = y /\ d = e
    /\ \A x, d, c : At(x, d, "wake", c) =>
         /\ completion[c].state = "Ready" /\ completion[c].owner # Nobody
         /\ completion[c].woke = 0 /\ completion[c].released = 0
    /\ \A x, d, c : At(x, d, "release", c) =>
         /\ completion[c].owner # Nobody /\ completion[c].released = 0
         /\ \/ completion[c].state = "Ready" /\ completion[c].woke = 1
            \/ completion[c].state = "Detached" /\ completion[c].woke = 0
    /\ \A c \in Completions : completion[c].owner = Nobody \/ completion[c].state = "Armed" =>
         completion[c].woke = 0 /\ completion[c].released = 0
    /\ \A c \in Completions :
         completion[c].owner # Nobody /\ completion[c].state \in {"Ready", "Detached"} =>
           \/ Awaits("wake", c) \/ Awaits("release", c)
           \/ /\ completion[c].released = 1
              /\ completion[c].woke = IF completion[c].state = "Ready" THEN 1 ELSE 0

\* A member is asked once cancellation is requested, and the loop goes on while one is not.
Asking ==
    /\ \A m \in Members : member[m].sent =>
         \/ cancelled[member[m].task] \/ ended[member[m].task] # "None"
         \/ Awaits("cancel", member[m].task)
    /\ \A m \in Members : group.cancelRequested /\ member[m].task # Nobody /\ ~member[m].sent =>
         Awaits("cancelNext", "group")

\* A thread that cancels what is not its own keeps it until it is done.
Borrowing ==
    \A x, d, a : \A k \in {"cancel", "requestCancel", "cancelNext"} : At(x, d, k, a) =>
        \/ x \in Clients /\ a \in holds[x]
        \/ \E e \in Nat : e < d /\ At(x, e, "drop", a)

\* The owners of an object: handles, pending calls that end in a release, members,
\* completions, the worker that will publish a task, the list of an armed completion.
Handed(o) == {x \in Clients : o \in holds[x]}
Frees(x, d, o) == \E k \in {"wake", "release", "drop"} : At(x, d, k, o)
Releasing(o) == {p \in Threads \X Nat : Frees(p[1], p[2], o)}
Joins(o) == {m \in Members : member[m].task # Nobody /\ o \in {member[m].task, "group"}}
Observing(o) == {c \in Completions : completion[c].owner = o /\ c \notin freed}
Kept(o) == IF \/ o \in Tasks /\ outcome[o] = "None"
              \/ o \in Completions /\ completion[o].state = "Armed" THEN 1 ELSE 0

Owners(o) == Cardinality(Handed(o)) + Cardinality(Releasing(o)) + Cardinality(Joins(o))
               + Cardinality(Observing(o)) + Kept(o)

\* Every count is the number of owners; without one an object is freed, if it was created.
Created(o) == o \in Completions => completion[o].state # "None"
Balanced ==
    /\ \A o \in Objects : IsFiniteSet(Releasing(o))
    /\ \A o \in Objects : refs[o] = Owners(o)
    /\ \A o \in Objects : o \in freed <=> refs[o] = 0 /\ Created(o)
    /\ \A o \in Objects : ~Created(o) => refs[o] = 0

\* The variables have their types.
CompletionRecord == [state : {"None", "Armed", "Ready", "Detached"},
                     owner : Lists \cup {Nobody}, of : Lists \cup {Nobody},
                     woke : Nat, released : Nat]
GroupRecord == [closed : BOOLEAN, cancelRequested : BOOLEAN, implicitCancelled : BOOLEAN,
                implicitFailed : BOOLEAN, members : Seq(Members), active : Nat]
MemberRecord == [task : Tasks \cup {Nobody}, expect : BOOLEAN, sent : BOOLEAN]
GroupTyped ==
    /\ cancelled \in [Tasks -> BOOLEAN]
    /\ ended \in [Tasks -> Steps \cup {"None"}]
    /\ outcome \in [Tasks -> Steps \cup {"None"}]
    /\ completions \in [Lists -> Seq(Completions)]
    /\ taskMembers \in [Tasks -> Seq(Members)]
    /\ group \in GroupRecord
    /\ member \in [Members -> MemberRecord]
    /\ completion \in [Completions -> CompletionRecord]
    /\ refs \in [Objects -> Nat]
    /\ freed \subseteq Objects
    /\ holds \in [Clients -> SUBSET Objects]
    /\ todo \in [Threads -> Seq(GroupOps)]

GroupInv ==
    /\ GroupTyped /\ MemberList /\ MemberOwners /\ Endings /\ Recording /\ ArmedOnes
    /\ Callbacks /\ Asking /\ Borrowing /\ Balanced

-----------------------------------------------------------------------------
(* Sequences *)

\* Nothing is at a level of the empty sequence.
LEMMA LevelNone == \A d, v : ~Level(<<>>, d, v)
  BY DEF Level

\* Levels of one and of two operations.
LEMMA LevelShort ==
    ASSUME NEW u, NEW w
    PROVE  /\ \A d, v : Level(<<u>>, d, v) <=> d = 0 /\ v = u
           /\ \A d, v : Level(<<u, w>>, d, v) <=> (d = 0 /\ v = w) \/ (d = 1 /\ v = u)
<1>2. ASSUME NEW d, NEW v PROVE Level(<<u>>, d, v) <=> d = 0 /\ v = u
  <2>1. Len(<<u>>) = 1 /\ <<u>>[1] = u
    OBVIOUS
  <2>2. Level(<<u>>, d, v) => d = 0
    BY <2>1 DEF Level
  <2> QED
    BY <2>1, <2>2 DEF Level
<1>3. ASSUME NEW d, NEW v
      PROVE  Level(<<u, w>>, d, v) <=> (d = 0 /\ v = w) \/ (d = 1 /\ v = u)
  <2>1. Len(<<u, w>>) = 2 /\ <<u, w>>[1] = u /\ <<u, w>>[2] = w
    OBVIOUS
  <2>2. Level(<<u, w>>, d, v) => d = 0 \/ d = 1
    BY <2>1 DEF Level
  <2> QED
    BY <2>1, <2>2 DEF Level
<1> QED
  BY <1>2, <1>3

\* What is put before a sequence leaves its levels alone.
LEMMA LevelJoin ==
    ASSUME NEW S, NEW p \in Seq(S), NEW r \in Seq(S), NEW d, NEW v
    PROVE  /\ p \o r \in Seq(S)
           /\ Level(p \o r, d, v) <=>
                Level(r, d, v) \/ (d \in Nat /\ d >= Len(r) /\ Level(p, d - Len(r), v))
<1> DEFINE s == p \o r
<1>1. /\ s \in Seq(S) /\ Len(s) = Len(p) + Len(r) /\ Len(p) \in Nat /\ Len(r) \in Nat
      /\ \A i \in 1..(Len(p) + Len(r)) : s[i] = IF i <= Len(p) THEN p[i] ELSE r[i - Len(p)]
  BY ConcatProperties, LenProperties
<1> HIDE DEF s
<1>2. CASE d \in Nat /\ d < Len(r)
  <2>1. Len(s) - d \in 1..(Len(p) + Len(r)) /\ ~(Len(s) - d <= Len(p))
        /\ (Len(s) - d) - Len(p) = Len(r) - d
    BY <1>1, <1>2
  <2>2. s[Len(s) - d] = r[Len(r) - d]
    BY <1>1, <2>1
  <2>3. ~(d >= Len(r)) /\ d < Len(s)
    BY <1>1, <1>2
  <2> QED
    BY <1>2, <2>2, <2>3 DEF Level, s
<1>3. CASE d \in Nat /\ ~(d < Len(r))
  <2>1. d - Len(r) \in Nat /\ d >= Len(r) /\ (d < Len(s) <=> d - Len(r) < Len(p))
    BY <1>1, <1>3
  <2>2. ASSUME d < Len(s) PROVE s[Len(s) - d] = p[Len(p) - (d - Len(r))]
    <3>1. Len(s) - d \in 1..(Len(p) + Len(r)) /\ Len(s) - d <= Len(p)
          /\ Len(s) - d = Len(p) - (d - Len(r))
      BY <1>1, <1>3, <2>2
    <3> QED
      BY <1>1, <3>1
  <2> QED
    BY <1>3, <2>1, <2>2 DEF Level, s
<1>4. CASE d \notin Nat
  BY <1>4 DEF Level
<1> QED
  BY <1>1, <1>2, <1>3, <1>4 DEF s

\* The head of a sequence has the highest level.
LEMMA LevelTail ==
    ASSUME NEW S, NEW s \in Seq(S), s # <<>>, NEW d, NEW v
    PROVE  /\ Head(s) \in S /\ Tail(s) \in Seq(S)
           /\ Len(s) - 1 \in Nat /\ Len(Tail(s)) = Len(s) - 1
           /\ Level(s, Len(s) - 1, Head(s))
           /\ Level(Tail(s), d, v) <=> Level(s, d, v) /\ d # Len(s) - 1
           /\ Level(s, d, v) => d \in Nat /\ d <= Len(s) - 1 /\ v \in S
           /\ Level(s, Len(s) - 1, v) => v = Head(s)
<1> DEFINE t == Tail(s)
<1>1. /\ Len(s) \in Nat /\ Len(s) # 0 /\ Head(s) = s[1] /\ Head(s) \in S /\ t \in Seq(S)
      /\ Len(t) = Len(s) - 1 /\ \A i \in 1..Len(t) : t[i] = s[i + 1]
  BY EmptySeq, LenProperties, HeadTailProperties
<1> HIDE DEF t
<1>2. Len(s) - 1 \in Nat /\ Len(s) - 1 < Len(s) /\ Len(s) - (Len(s) - 1) = 1
  BY <1>1
<1>3. Level(s, Len(s) - 1, Head(s))
  BY <1>1, <1>2 DEF Level
<1>4. Level(s, Len(s) - 1, v) => v = Head(s)
  BY <1>1, <1>2 DEF Level
<1>5. Level(s, d, v) => d \in Nat /\ d <= Len(s) - 1 /\ v \in S
  <2> SUFFICES ASSUME Level(s, d, v) PROVE d \in Nat /\ d <= Len(s) - 1 /\ v \in S
    OBVIOUS
  <2>1. d \in Nat /\ d <= Len(s) - 1 /\ Len(s) - d \in 1..Len(s) /\ s[Len(s) - d] = v
    BY <1>1 DEF Level
  <2> QED
    BY <2>1, ElementOfSeq
<1>6. Level(t, d, v) <=> Level(s, d, v) /\ d # Len(s) - 1
  <2>1. CASE d \in Nat /\ d < Len(t)
    <3>1. Len(t) - d \in 1..Len(t) /\ (Len(t) - d) + 1 = Len(s) - d /\ d < Len(s) /\ d # Len(s) - 1
      BY <1>1, <2>1
    <3>2. t[Len(t) - d] = s[Len(s) - d]
      BY <1>1, <3>1
    <3> QED
      BY <2>1, <3>1, <3>2 DEF Level
  <2>2. CASE d \in Nat /\ ~(d < Len(t))
    <3>1. d < Len(s) => d = Len(s) - 1
      BY <1>1, <2>2
    <3> QED
      BY <2>2, <3>1 DEF Level
  <2>3. CASE d \notin Nat
    BY <2>3 DEF Level
  <2> QED
    BY <2>1, <2>2, <2>3
<1> QED
  BY <1>1, <1>2, <1>3, <1>4, <1>5, <1>6 DEF t

\* A value put before a list it was not in.
LEMMA ListCons ==
    ASSUME NEW S, NEW s \in Seq(S), OneEach(s), NEW u \in S, u \notin Elements(s)
    PROVE  /\ <<u>> \o s \in Seq(S) /\ OneEach(<<u>> \o s)
           /\ Len(<<u>> \o s) = Len(s) + 1 /\ Len(s) \in Nat
           /\ \A v : v \in Elements(<<u>> \o s) <=> v = u \/ v \in Elements(s)
<1> DEFINE c == <<u>> \o s
<1>1. <<u>> \in Seq(S) /\ Len(<<u>>) = 1
  OBVIOUS
<1>2. c \in Seq(S) /\ Len(c) = Len(s) + 1
      /\ \A i \in 1..(Len(s) + 1) : c[i] = IF i <= 1 THEN u ELSE s[i - 1]
  BY <1>1, ConcatProperties
<1>3. Len(s) \in Nat /\ DOMAIN s = 1..Len(s)
  BY LenProperties
<1>4. DOMAIN c = 1..(Len(s) + 1)
  BY <1>2, LenProperties
<1> HIDE DEF c
<1>5. c[1] = u
  BY <1>2, <1>3
<1>6. \A i \in DOMAIN c : i = 1 \/ (i - 1 \in DOMAIN s /\ c[i] = s[i - 1])
  BY <1>2, <1>3, <1>4
<1>7. \A i \in DOMAIN s : i + 1 \in DOMAIN c /\ c[i + 1] = s[i]
  BY <1>2, <1>3, <1>4
<1>8. ASSUME NEW v PROVE v \in Elements(c) <=> v = u \/ v \in Elements(s)
  <2>1. ASSUME v \in Elements(c) PROVE v = u \/ v \in Elements(s)
    BY <1>5, <1>6, <2>1 DEF Elements
  <2>2. ASSUME v = u \/ v \in Elements(s) PROVE v \in Elements(c)
    <3>1. 1 \in DOMAIN c
      BY <1>3, <1>4
    <3> QED
      BY <1>5, <1>7, <2>2, <3>1 DEF Elements
  <2> QED
    BY <2>1, <2>2
<1>9. ASSUME NEW i \in DOMAIN c, NEW j \in DOMAIN c, c[i] = c[j] PROVE i = j
  <2>1. \A k \in DOMAIN s : s[k] # u
    BY DEF Elements
  <2>2. i \in Nat /\ j \in Nat
    BY <1>4
  <2>3. CASE i = 1 \/ j = 1
    BY <1>5, <1>6, <1>9, <2>1, <2>3
  <2>4. CASE i # 1 /\ j # 1
    <3>1. i - 1 \in DOMAIN s /\ j - 1 \in DOMAIN s /\ s[i - 1] = s[j - 1]
      BY <1>6, <1>9, <2>4
    <3>2. i - 1 = j - 1
      BY <3>1 DEF OneEach
    <3> QED
      BY <2>2, <3>2
  <2> QED
    BY <2>3, <2>4
<1> QED
  BY <1>2, <1>3, <1>8, <1>9 DEF c, OneEach

\* A value unlinked from a list it was in.
LEMMA ListWithout ==
    ASSUME NEW S, NEW s \in Seq(S), OneEach(s), NEW u, u \in Elements(s)
    PROVE  /\ Without(s, u) \in Seq(S) /\ OneEach(Without(s, u))
           /\ Len(Without(s, u)) = Len(s) - 1 /\ Len(s) - 1 \in Nat
           /\ \A v : v \in Elements(Without(s, u)) <=> v # u /\ v \in Elements(s)
<1> DEFINE i == CHOOSE j \in DOMAIN s : s[j] = u
           n == Len(s)
           w == [j \in 1..(n - 1) |-> IF j < i THEN s[j] ELSE s[j + 1]]
<1>1. n \in Nat /\ DOMAIN s = 1..n /\ \A j \in 1..n : s[j] \in S
  BY LenProperties
<1>2. i \in 1..n /\ s[i] = u
  BY <1>1 DEF Elements
<1>3. Without(s, u) = w
  BY DEF Without
<1> HIDE DEF i
<1>4. n - 1 \in Nat /\ n \in Nat
  BY <1>1, <1>2
<1> HIDE DEF n
<1>5. \A j \in 1..(n - 1) : j \in 1..n /\ j + 1 \in 1..n /\ w[j] = IF j < i THEN s[j] ELSE s[j + 1]
  BY <1>4
<1>6. \A j \in 1..(n - 1) : w[j] \in S
  BY <1>1, <1>5
<1>7. DOMAIN w = 1..(n - 1)
  OBVIOUS
<1>8. w \in Seq(S) /\ Len(w) = n - 1
  <2>1. w \in [1..(n - 1) -> S]
    BY <1>5, <1>6
  <2>2. w \in Seq(S)
    BY <1>4, <2>1
  <2>3. Len(w) \in Nat /\ DOMAIN w = 1..Len(w)
    BY <2>2, LenProperties
  <2> HIDE DEF w
  <2> QED
    BY <1>4, <1>7, <2>2, <2>3
<1> HIDE DEF w
<1>9. ASSUME NEW j \in 1..(n - 1), NEW k \in 1..(n - 1), w[j] = w[k] PROVE j = k
  <2> DEFINE p == IF j < i THEN j ELSE j + 1
             q == IF k < i THEN k ELSE k + 1
  <2>1. p \in 1..n /\ q \in 1..n /\ s[p] = s[q]
    BY <1>5, <1>9
  <2>2. p = q
    BY <1>1, <2>1 DEF OneEach
  <2> QED
    BY <1>2, <1>4, <2>2
<1>10. ASSUME NEW v PROVE v \in Elements(w) <=> v # u /\ v \in Elements(s)
  <2>1. ASSUME NEW j \in 1..(n - 1), v = w[j] PROVE v # u /\ v \in Elements(s)
    <3> DEFINE p == IF j < i THEN j ELSE j + 1
    <3>1. p \in 1..n /\ s[p] = v /\ p # i
      BY <1>2, <1>4, <1>5, <2>1
    <3>2. v # u
      BY <1>1, <1>2, <3>1 DEF OneEach
    <3> QED
      BY <1>1, <3>1, <3>2 DEF Elements
  <2>2. ASSUME v # u, NEW k \in 1..n, v = s[k] PROVE v \in Elements(w)
    <3> DEFINE j == IF k < i THEN k ELSE k - 1
    <3>1. k # i
      BY <1>2, <2>2
    <3>2. j \in 1..(n - 1) /\ (IF j < i THEN j ELSE j + 1) = k
      BY <1>2, <1>4, <3>1
    <3>3. w[j] = v
      BY <1>5, <2>2, <3>2
    <3> QED
      BY <1>7, <3>2, <3>3 DEF Elements
  <2> QED
    BY <1>1, <1>7, <2>1, <2>2 DEF Elements
<1> QED
  BY <1>3, <1>4, <1>7, <1>8, <1>9, <1>10 DEF OneEach, n

-----------------------------------------------------------------------------
(* Steps of one thread *)

\* Nothing is twice the same thing: the constants are apart.
LEMMA GroupNames ==
    ASSUME GroupConstantsOK
    PROVE  /\ \A t \in Tasks : t # Nobody /\ t # "group" /\ t \notin Completions
           /\ \A c \in Completions : c # Nobody /\ c # "group" /\ c \notin Tasks
           /\ Nobody # "group" /\ Nobody \notin Lists /\ Nobody \notin Objects
           /\ "None" \notin Steps
           /\ \A x \in Clients : x \in Threads /\ x \notin Workers
           /\ \A w \in Workers : w \in Threads /\ w \notin Clients
           /\ Tasks \subseteq Lists /\ "group" \in Lists
           /\ Lists \subseteq Objects /\ Completions \subseteq Objects
           /\ \A o \in Lists : o \in Tasks \/ o = "group"
           /\ \A o \in Objects : o \in Tasks \/ o = "group" \/ o \in Completions
<1>1. "None" \notin Steps
  BY DEF GroupConstantsOK, ConstantsOK
<1> QED
  BY <1>1 DEF GroupConstantsOK, ConstantsOK, Threads, Lists, Objects

\* The operations and what they are about.
LEMMA OpArgs ==
    /\ \A k, a : <<k, a>> \in GroupOps <=>
         \/ k \in {"wake", "release"} /\ a \in Completions
         \/ k = "drop" /\ a \in Objects
         \/ k \in {"publish", "cancel"} /\ a \in Tasks
         \/ k = "member" /\ a \in Members
         \/ k \in {"requestCancel", "cancelNext"} /\ a = "group"
    /\ \A v \in GroupOps : v = <<v[1], v[2]>>
  BY DEF GroupOps

\* What is known of an operation at some level.
LEMMA AtType ==
    ASSUME GroupTyped, NEW x, NEW d, NEW k, NEW a, At(x, d, k, a)
    PROVE  /\ x \in Threads /\ d \in Nat /\ todo[x] # <<>> /\ d <= Len(todo[x]) - 1
           /\ Len(todo[x]) \in Nat /\ <<k, a>> \in GroupOps
           /\ \A l, b : At(x, d, l, b) => l = k /\ b = a
<1>1. x \in Threads /\ Level(todo[x], d, <<k, a>>) /\ todo[x] \in Seq(GroupOps)
  BY DEF At, GroupTyped
<1>2. todo[x] # <<>>
  BY <1>1, LevelNone
<1>3. d \in Nat /\ d <= Len(todo[x]) - 1 /\ <<k, a>> \in GroupOps /\ Len(todo[x]) - 1 \in Nat
  BY <1>1, <1>2, LevelTail
<1>4. Len(todo[x]) \in Nat
  BY <1>1, LenProperties
<1>5. \A l, b : At(x, d, l, b) => <<l, b>> = <<k, a>>
  BY <1>1 DEF At, Level
<1> QED
  BY <1>1, <1>2, <1>3, <1>4, <1>5

\* The level of a thread's first operation; what a step does to the operations at levels.
Top(x) == Len(todo[x]) - 1
Has(p, d, k, a) == Level(p, d, <<k, a>>)
Starts(x, p) ==
    /\ \A d, k, a : ~At(x, d, k, a)
    /\ \A y, d, k, a : At(y, d, k, a)' <=> At(y, d, k, a) \/ (y = x /\ Has(p, d, k, a))
Replaces(x, n, p) ==
    /\ n \in Nat /\ \A d, k, a : At(x, d, k, a) => d <= n
    /\ \A y, d, k, a : At(y, d, k, a)' <=>
         \/ At(y, d, k, a) /\ ~(y = x /\ d = n)
         \/ y = x /\ d \in Nat /\ d >= n /\ Has(p, d - n, k, a)
Pushes(x, n, p) ==
    /\ n \in Nat /\ \A d, k, a : At(x, d, k, a) => d < n
    /\ \A y, d, k, a : At(y, d, k, a)' <=>
         \/ At(y, d, k, a)
         \/ y = x /\ d \in Nat /\ d >= n /\ Has(p, d - n, k, a)

\* The empty sequence has no operation at any level.
LEMMA HasNone == \A d, k, a : ~Has(<<>>, d, k, a)
  BY LevelNone DEF Has

\* The levels of a sequence of one operation.
LEMMA HasOne ==
    ASSUME NEW l, NEW b
    PROVE  \A d, k, a : Has(<< <<l, b>> >>, d, k, a) <=> d = 0 /\ k = l /\ a = b
<1> SUFFICES ASSUME NEW d, NEW k, NEW a
             PROVE  Has(<< <<l, b>> >>, d, k, a) <=> d = 0 /\ k = l /\ a = b
  OBVIOUS
<1> DEFINE u == <<l, b>>
           v == <<k, a>>
<1>1. v = u <=> k = l /\ a = b
  OBVIOUS
<1>2. Has(<< <<l, b>> >>, d, k, a) <=> Level(<<u>>, d, v)
  BY DEF Has
<1> HIDE DEF u, v
<1>3. Level(<<u>>, d, v) <=> d = 0 /\ v = u
  BY LevelShort
<1> QED
  BY <1>1, <1>2, <1>3

\* The levels of a sequence of two operations: the first has the higher level.
LEMMA HasTwo ==
    ASSUME NEW l, NEW b, NEW j, NEW e
    PROVE  \A d, k, a : Has(<< <<l, b>>, <<j, e>> >>, d, k, a) <=>
             (d = 0 /\ k = j /\ a = e) \/ (d = 1 /\ k = l /\ a = b)
<1> SUFFICES ASSUME NEW d, NEW k, NEW a
             PROVE  Has(<< <<l, b>>, <<j, e>> >>, d, k, a) <=>
                      (d = 0 /\ k = j /\ a = e) \/ (d = 1 /\ k = l /\ a = b)
  OBVIOUS
<1> DEFINE u == <<l, b>>
           w == <<j, e>>
           v == <<k, a>>
<1>1. (v = u <=> k = l /\ a = b) /\ (v = w <=> k = j /\ a = e)
  OBVIOUS
<1>2. Has(<< <<l, b>>, <<j, e>> >>, d, k, a) <=> Level(<<u, w>>, d, v)
  BY DEF Has
<1> HIDE DEF u, v, w
<1>3. Level(<<u, w>>, d, v) <=> (d = 0 /\ v = w) \/ (d = 1 /\ v = u)
  BY LevelShort
<1> QED
  BY <1>1, <1>2, <1>3

\* A thread gets its first operations.
LEMMA StackStart ==
    ASSUME GroupTyped, NEW x \in Threads, todo[x] = <<>>, NEW p \in Seq(GroupOps),
           todo' = [todo EXCEPT ![x] = p]
    PROVE  /\ todo' \in [Threads -> Seq(GroupOps)] /\ todo'[x] = p
           /\ Starts(x, p)
<1>1. /\ todo' \in [Threads -> Seq(GroupOps)] /\ todo'[x] = p
      /\ \A y : y # x /\ y \in Threads => todo'[y] = todo[y]
  BY DEF GroupTyped
<1>2. \A d, k, a : ~At(x, d, k, a)
  BY LevelNone DEF At
<1>3. ASSUME NEW y, NEW d, NEW k, NEW a
      PROVE  At(y, d, k, a)' <=> At(y, d, k, a) \/ (y = x /\ Level(p, d, <<k, a>>))
  <2>1. CASE y = x
    BY <1>1, <1>2, <2>1 DEF At
  <2>2. CASE y # x
    <3>1. y \in Threads => todo'[y] = todo[y]
      BY <1>1, <2>2
    <3> QED
      BY <2>2, <3>1 DEF At
  <2> QED
    BY <2>1, <2>2
<1> QED
  BY <1>1, <1>2, <1>3 DEF Starts, Has

\* A thread gets further operations before those it has.
LEMMA StackPush ==
    ASSUME GroupTyped, NEW x \in Threads, NEW p \in Seq(GroupOps),
           NEW n, n = Len(todo[x]), todo' = [todo EXCEPT ![x] = p \o todo[x]]
    PROVE  /\ todo' \in [Threads -> Seq(GroupOps)]
           /\ Pushes(x, n, p)
<1>0. todo[x] \in Seq(GroupOps)
  BY DEF GroupTyped
<1>1. p \o todo[x] \in Seq(GroupOps) /\ n \in Nat
  BY <1>0, ConcatProperties, LenProperties
<1>2. /\ todo' \in [Threads -> Seq(GroupOps)] /\ todo'[x] = p \o todo[x]
      /\ \A y : y # x /\ y \in Threads => todo'[y] = todo[y]
  BY <1>1 DEF GroupTyped
<1>3. \A d, k, a : At(x, d, k, a) => d < n
  BY DEF At, Level
<1>4. ASSUME NEW y, NEW d, NEW k, NEW a
      PROVE  At(y, d, k, a)' <=>
                \/ At(y, d, k, a)
                \/ y = x /\ d \in Nat /\ d >= n /\ Level(p, d - n, <<k, a>>)
  <2>1. CASE y = x
    <3>1. Level(p \o todo[x], d, <<k, a>>) <=>
            \/ Level(todo[x], d, <<k, a>>)
            \/ d \in Nat /\ d >= n /\ Level(p, d - n, <<k, a>>)
      BY <1>0, LevelJoin
    <3>2. At(x, d, k, a)' <=> Level(p \o todo[x], d, <<k, a>>)
      BY <1>2 DEF At
    <3>3. At(x, d, k, a) <=> Level(todo[x], d, <<k, a>>)
      BY DEF At
    <3> QED
      BY <2>1, <3>1, <3>2, <3>3
  <2>2. CASE y # x
    <3>1. y \in Threads => todo'[y] = todo[y]
      BY <1>2, <2>2
    <3> QED
      BY <2>2, <3>1 DEF At
  <2> QED
    BY <2>1, <2>2
<1> QED
  BY <1>1, <1>2, <1>3, <1>4 DEF Pushes, Has

\* A thread does its first operation and perhaps gets others in its place.
LEMMA StackNext ==
    ASSUME GroupTyped, NEW x \in Threads, NEW k0, Due(x, k0),
           NEW p \in Seq(GroupOps), NEW n, n = Top(x), NEW a0, a0 = Arg(x),
           \/ todo' = [todo EXCEPT ![x] = p \o Tail(todo[x])]
           \/ p = <<>> /\ todo' = [todo EXCEPT ![x] = Tail(todo[x])]
    PROVE  /\ todo' \in [Threads -> Seq(GroupOps)]
           /\ n \in Nat /\ At(x, n, k0, a0) /\ <<k0, a0>> \in GroupOps
           /\ Replaces(x, n, p)
<1> DEFINE s == todo[x]
           r == Tail(s)
<1>0. s \in Seq(GroupOps) /\ s # <<>> /\ Head(s)[1] = k0 /\ Head(s)[2] = a0
  BY DEF GroupTyped, Due, Arg
<1>1. /\ Head(s) \in GroupOps /\ r \in Seq(GroupOps) /\ n \in Nat /\ Len(r) = n
      /\ Level(s, n, Head(s))
  BY <1>0, LevelTail DEF Top
<1>2. Head(s) = <<k0, a0>>
  BY <1>0, <1>1, OpArgs
<1>3. At(x, n, k0, a0)
  BY <1>1, <1>2 DEF At
<1>4. \A d, k, a : At(x, d, k, a) => d <= n
  <2> SUFFICES ASSUME NEW d, NEW k, NEW a, Level(s, d, <<k, a>>) PROVE d <= n
    BY DEF At
  <2> QED
    BY <1>0, LevelTail DEF Top
<1>5. p \o r \in Seq(GroupOps)
  BY <1>1, ConcatProperties
<1>6. ASSUME NEW d, NEW v
      PROVE  Level(p \o r, d, v) <=>
               \/ Level(s, d, v) /\ d # n
               \/ d \in Nat /\ d >= n /\ Level(p, d - n, v)
  <2>1. Level(r, d, v) <=> Level(s, d, v) /\ d # n
    BY <1>0, LevelTail DEF Top
  <2>2. Level(p \o r, d, v) <=>
          Level(r, d, v) \/ (d \in Nat /\ d >= Len(r) /\ Level(p, d - Len(r), v))
    <3> HIDE DEF r
    <3> QED
      BY <1>1, LevelJoin
  <2> QED
    BY <1>1, <2>1, <2>2
<1>7. todo' = [todo EXCEPT ![x] = p \o r]
  <2>1. ASSUME p = <<>> PROVE p \o r = r
    <3> HIDE DEF r
    <3> QED
      BY <1>1, <2>1, ConcatEmptySeq
  <2> QED
    BY <2>1
<1> HIDE DEF r
<1>8. /\ todo' \in [Threads -> Seq(GroupOps)] /\ todo'[x] = p \o r
      /\ \A y : y # x /\ y \in Threads => todo'[y] = todo[y]
  BY <1>5, <1>7 DEF GroupTyped
<1>9. ASSUME NEW y, NEW d, NEW k, NEW a
      PROVE  At(y, d, k, a)' <=>
                \/ At(y, d, k, a) /\ ~(y = x /\ d = n)
                \/ y = x /\ d \in Nat /\ d >= n /\ Level(p, d - n, <<k, a>>)
  <2>1. CASE y = x
    <3>2. At(x, d, k, a)' <=> Level(p \o r, d, <<k, a>>)
      BY <1>8 DEF At
    <3>3. At(x, d, k, a) <=> Level(s, d, <<k, a>>)
      BY DEF At
    <3> QED
      BY <1>6, <2>1, <3>2, <3>3
  <2>2. CASE y # x
    <3>1. y \in Threads => todo'[y] = todo[y]
      BY <1>8, <2>2
    <3> QED
      BY <2>2, <3>1 DEF At
  <2> QED
    BY <2>1, <2>2
<1> QED
  BY <1>1, <1>2, <1>3, <1>4, <1>8, <1>9 DEF Replaces, Has

-----------------------------------------------------------------------------
(* Parts of the invariant that a step leaves alone *)

\* The members in use are the same.
LEMMA MemberListKept ==
    ASSUME MemberList, group'.members = group.members, group'.active = group.active,
           \A m \in Members : member'[m].task = member[m].task
    PROVE  MemberList'
  BY DEF MemberList, OneEach, Elements

\* The members are with the same tasks and the same workers.
LEMMA MemberOwnersKept ==
    ASSUME GroupTyped, MemberOwners, taskMembers' = taskMembers, outcome' = outcome,
           \A m \in Members : member'[m].task = member[m].task,
           \A x, d, m : At(x, d, "member", m)' <=> At(x, d, "member", m)
    PROVE  MemberOwners'
<1>1. \A t \in Tasks : OneEach(taskMembers[t])'
  BY DEF MemberOwners, OneEach
<1>2. \A t \in Tasks : \A m \in Elements(taskMembers[t]) : m \in Members
  <2> SUFFICES ASSUME NEW t \in Tasks, NEW m \in Elements(taskMembers[t]) PROVE m \in Members
    OBVIOUS
  <2>1. taskMembers[t] \in Seq(Members)
    BY DEF GroupTyped
  <2> QED
    BY <2>1, LenProperties DEF Elements
<1>3. \A t \in Tasks : \A m \in Elements(taskMembers[t]) :
        m \in Members /\ member'[m].task = t /\ outcome[t] = "None"
  BY <1>2 DEF MemberOwners
<1>4. ASSUME NEW x, NEW d, NEW m, At(x, d, "member", m) PROVE m \in Members
  <2>1. <<"member", m>> \in GroupOps
    BY <1>4, AtType
  <2> QED
    BY <2>1, OpArgs
<1>5. \A x, d, m : At(x, d, "member", m)' =>
         member'[m].task \in Tasks /\ outcome'[member'[m].task] # "None"
  BY <1>4 DEF MemberOwners
<1>6. \A x, y, d, e, m : At(x, d, "member", m)' /\ At(y, e, "member", m)' => x = y /\ d = e
  BY DEF MemberOwners
<1>7. \A m \in Members : Awaits("member", m)' <=> Awaits("member", m)
  BY DEF Awaits
<1>8. \A m \in Members : member'[m].task # Nobody =>
         m \in Elements(taskMembers'[member'[m].task]) \/ Awaits("member", m)'
  BY <1>7 DEF MemberOwners
<1>9. \A t \in Tasks : \A m \in Elements(taskMembers'[t]) :
         member'[m].task = t /\ outcome'[t] = "None"
  BY <1>3
<1> QED
  BY <1>1, <1>5, <1>6, <1>8, <1>9 DEF MemberOwners, Elements, OneEach

\* No task ends or is published.
LEMMA EndingsKept ==
    ASSUME Endings, ended' = ended, outcome' = outcome,
           \A x, d, t : At(x, d, "publish", t)' <=> At(x, d, "publish", t)
    PROVE  Endings'
<1>1. \A x, d, t : At(x, d, "publish", t)' =>
         d = 0 /\ ended'[t] # "None" /\ outcome'[t] = "None"
  BY DEF Endings
<1>2. \A x, y, d, e, t : At(x, d, "publish", t)' /\ At(y, e, "publish", t)' => x = y
  BY DEF Endings
<1>3. \A t \in Tasks : outcome'[t] \in {"None", ended'[t]}
  BY DEF Endings
<1> QED
  BY <1>1, <1>2, <1>3 DEF Endings

\* Nothing is attached or recorded.
LEMMA RecordingKept ==
    ASSUME Recording, UNCHANGED <<attached, expected, outcome>>,
           group'.implicitCancelled = group.implicitCancelled,
           group'.implicitFailed = group.implicitFailed,
           \A m \in Members : member'[m].task = member[m].task /\ member'[m].expect = member[m].expect
    PROVE  Recording'
<1>1. \A t \in attached : outcome[t] # "None" \/ \E m \in Members : member'[m].task = t
  BY DEF Recording
<1>2. \A t \in expected :
         \/ \E m \in Members : member'[m].task = t /\ member'[m].expect
         \/ /\ outcome[t] # "None"
            /\ outcome[t] = "Cancelled" => group.implicitCancelled
            /\ outcome[t] = "Failed" => group.implicitFailed
  BY DEF Recording
<1>3. \A m \in Members : member'[m].expect => member'[m].task \in expected
  BY DEF Recording
<1> QED
  BY <1>1, <1>2, <1>3 DEF Recording

\* Nothing is armed, made ready or detached.
LEMMA ArmedKept ==
    ASSUME GroupTyped, ArmedOnes, completions' = completions, outcome' = outcome,
           group.closed => group'.closed, group'.active = group.active,
           \A c \in Completions : /\ completion'[c].state = completion[c].state
                                  /\ completion'[c].owner = completion[c].owner
                                  /\ completion'[c].of = completion[c].of
    PROVE  ArmedOnes'
<1>0. \A o \in Lists : \A c \in Elements(completions[o]) : c \in Completions
  <2> SUFFICES ASSUME NEW o \in Lists, NEW c \in Elements(completions[o])
               PROVE  c \in Completions
    OBVIOUS
  <2>1. completions[o] \in Seq(Completions)
    BY DEF GroupTyped
  <2> QED
    BY <2>1, LenProperties DEF Elements
<1>2. \A o \in Lists : \A c \in Elements(completions[o]) :
         completion'[c].state = "Armed" /\ completion'[c].owner = o
  BY <1>0 DEF ArmedOnes
<1>3. \A c \in Completions : completion'[c].state = "Armed" =>
         /\ completion'[c].owner \in Lists
         /\ c \in Elements(completions[completion'[c].owner])
  BY DEF ArmedOnes
<1>4. \A c \in Completions :
        /\ completion'[c].owner # Nobody => completion'[c].of = completion'[c].owner
        /\ completion'[c].state = "None" => completion'[c].owner = Nobody
        /\ completion'[c].state = "Armed" /\ completion'[c].owner \in Tasks =>
             outcome[completion'[c].owner] = "None"
        /\ completion'[c].state = "Armed" /\ completion'[c].owner = "group" =>
             group'.closed /\ group'.active # 0
        /\ completion'[c].state = "Ready" /\ completion'[c].of = "group" =>
             group'.closed /\ group'.active = 0
  BY DEF ArmedOnes
<1>5. \A o \in Lists : OneEach(completions[o])
  BY DEF ArmedOnes
<1> QED
  BY <1>2, <1>3, <1>4, <1>5 DEF ArmedOnes, OneEach, Elements

\* No callback is run or falls due.
LEMMA CallbacksKept ==
    ASSUME Callbacks, completion' = completion,
           \A x, d, c : \A k \in {"wake", "release"} : At(x, d, k, c)' <=> At(x, d, k, c)
    PROVE  Callbacks'
<1>0. \A x, d, c : CallsBack(x, d, c)' <=> CallsBack(x, d, c)
  BY DEF CallsBack
<1>1. \A x, y, d, e, c : CallsBack(x, d, c)' /\ CallsBack(y, e, c)' => x = y /\ d = e
  BY <1>0 DEF Callbacks
<1>2. \A x, d, c : At(x, d, "wake", c)' =>
         /\ completion[c].state = "Ready" /\ completion[c].owner # Nobody
         /\ completion[c].woke = 0 /\ completion[c].released = 0
  BY DEF Callbacks
<1>3. \A x, d, c : At(x, d, "release", c)' =>
         /\ completion[c].owner # Nobody /\ completion[c].released = 0
         /\ \/ completion[c].state = "Ready" /\ completion[c].woke = 1
            \/ completion[c].state = "Detached" /\ completion[c].woke = 0
  BY DEF Callbacks
<1>4. \A c : (Awaits("wake", c)' <=> Awaits("wake", c)) /\ (Awaits("release", c)' <=> Awaits("release", c))
  BY DEF Awaits
<1>5. \A c \in Completions :
         completion[c].owner # Nobody /\ completion[c].state \in {"Ready", "Detached"} =>
           \/ Awaits("wake", c)' \/ Awaits("release", c)'
           \/ /\ completion[c].released = 1
              /\ completion[c].woke = IF completion[c].state = "Ready" THEN 1 ELSE 0
  BY <1>4 DEF Callbacks
<1> QED
  BY <1>1, <1>2, <1>3, <1>5 DEF Callbacks

\* What was going to be cancelled still is.
LEMMA AskingKept ==
    ASSUME GroupTyped, Asking, group'.cancelRequested = group.cancelRequested,
           \A m \in Members : member'[m].task = member[m].task /\ member'[m].sent = member[m].sent,
           \A t \in Tasks \cup {Nobody} : cancelled[t] => cancelled'[t],
           \A t \in Tasks \cup {Nobody} : ended[t] # "None" => ended'[t] # "None",
           \A t : Awaits("cancel", t) => Awaits("cancel", t)',
           Awaits("cancelNext", "group") => Awaits("cancelNext", "group")'
    PROVE  Asking'
<1>0. \A m \in Members : member[m].task \in Tasks \cup {Nobody}
  BY DEF GroupTyped, MemberRecord
<1>1. ASSUME NEW m \in Members, member'[m].sent
      PROVE  \/ cancelled'[member'[m].task] \/ ended'[member'[m].task] # "None"
             \/ Awaits("cancel", member[m].task)'
  <2> PICK t : t = member[m].task
    OBVIOUS
  <2>1. member'[m].task = t /\ t \in Tasks \cup {Nobody}
    BY <1>0
  <2>2. cancelled[t] \/ ended[t] # "None" \/ Awaits("cancel", t)
    BY <1>1 DEF Asking
  <2>3. cancelled'[t] \/ ended'[t] # "None" \/ Awaits("cancel", t)'
    BY <2>1, <2>2
  <2>4. Awaits("cancel", t)' => Awaits("cancel", member[m].task)'
    BY <2>1 DEF Awaits, At
  <2> QED
    BY <2>1, <2>2, <2>3, <2>4
<1>2. \A m \in Members : group'.cancelRequested /\ member'[m].task # Nobody /\ ~member'[m].sent =>
         Awaits("cancelNext", "group")'
  BY DEF Asking
<1> QED
  BY <1>1, <1>2 DEF Asking

\* No thread cancels anything it did not cancel before.
LEMMA BorrowingKept ==
    ASSUME Borrowing, todo' = todo, \A x \in Clients : holds[x] \subseteq holds'[x]
    PROVE  Borrowing'
<1>1. \A x, d, k, a : At(x, d, k, a)' <=> At(x, d, k, a)
  BY DEF At
<1>2. \A x, d, a : \A k \in {"cancel", "requestCancel", "cancelNext"} : At(x, d, k, a)' =>
        \/ x \in Clients /\ a \in holds'[x]
        \/ \E e \in Nat : e < d /\ At(x, e, "drop", a)'
  BY <1>1 DEF Borrowing
<1> QED
  BY <1>2 DEF Borrowing

\* A call starts that keeps what it cancels.
LEMMA BorrowingStart ==
    ASSUME Borrowing, NEW x, NEW p,
           Starts(x, p),
           \A y \in Clients : y # x => holds'[y] = holds[y],
           \A d, a : \A k \in {"cancel", "requestCancel", "cancelNext"} : Has(p, d, k, a) =>
             \/ x \in Clients /\ a \in holds'[x]
             \/ \E e \in Nat : e < d /\ Has(p, e, "drop", a)
    PROVE  Borrowing'
<1> USE DEF Starts
<1> SUFFICES ASSUME NEW y, NEW d, NEW a, NEW k \in {"cancel", "requestCancel", "cancelNext"},
                    At(y, d, k, a)'
             PROVE  \/ y \in Clients /\ a \in holds'[y]
                    \/ \E e \in Nat : e < d /\ At(y, e, "drop", a)'
  BY DEF Borrowing
<1>1. CASE y = x
  <2>1. Has(p, d, k, a)
    BY <1>1
  <2> QED
    BY <1>1, <2>1
<1>2. CASE y # x
  <2>1. At(y, d, k, a)
    BY <1>2
  <2>2. \/ y \in Clients /\ a \in holds[y]
        \/ \E e \in Nat : e < d /\ At(y, e, "drop", a)
    BY <2>1 DEF Borrowing
  <2> QED
    BY <1>2, <2>2
<1> QED
  BY <1>1, <1>2

\* A thread goes on; if it now cancels, it does so in the place of a cancellation.
LEMMA BorrowingNext ==
    ASSUME Borrowing, NEW x, NEW n, NEW p, holds' = holds, Replaces(x, n, p),
           \A d, a : \A k \in {"cancel", "requestCancel", "cancelNext"} : Has(p, d, k, a) =>
             /\ d = 0
             /\ \E l \in {"cancel", "requestCancel", "cancelNext"} : At(x, n, l, a)
    PROVE  Borrowing'
<1> USE DEF Replaces
<1> SUFFICES ASSUME NEW y, NEW d, NEW a, NEW k \in {"cancel", "requestCancel", "cancelNext"},
                    At(y, d, k, a)'
             PROVE  \/ y \in Clients /\ a \in holds[y]
                    \/ \E e \in Nat : e < d /\ At(y, e, "drop", a)'
  BY DEF Borrowing
<1>0. d \in Nat
  BY DEF At, Level
<1>1. \E l \in {"cancel", "requestCancel", "cancelNext"} : At(y, d, l, a)
  <2>1. CASE At(y, d, k, a)
    BY <2>1
  <2>2. CASE y = x /\ d \in Nat /\ d >= n /\ Has(p, d - n, k, a)
    <3>1. d - n = 0 /\ \E l \in {"cancel", "requestCancel", "cancelNext"} : At(x, n, l, a)
      BY <2>2
    <3>2. d = n
      BY <2>2, <3>1
    <3> QED
      BY <2>2, <3>1, <3>2
  <2> QED
    BY <2>1, <2>2
<1>2. \/ y \in Clients /\ a \in holds[y]
      \/ \E e \in Nat : e < d /\ At(y, e, "drop", a)
  BY <1>1 DEF Borrowing
<1>3. ASSUME NEW e \in Nat, e < d, At(y, e, "drop", a) PROVE At(y, e, "drop", a)'
  <2>1. y = x => d <= n
    BY <1>1
  <2>2. ~(y = x /\ e = n)
    BY <1>0, <1>3, <2>1
  <2> QED
    BY <1>3, <2>2
<1> QED
  BY <1>2, <1>3

\* A thread retains what it cancels next.
LEMMA BorrowingPush ==
    ASSUME Borrowing, NEW x, NEW n, NEW p, holds' = holds, Pushes(x, n, p),
           \A d, a : \A k \in {"cancel", "requestCancel", "cancelNext"} : Has(p, d, k, a) =>
             \E e \in Nat : e < d /\ Has(p, e, "drop", a)
    PROVE  Borrowing'
<1> USE DEF Pushes
<1> SUFFICES ASSUME NEW y, NEW d, NEW a, NEW k \in {"cancel", "requestCancel", "cancelNext"},
                    At(y, d, k, a)'
             PROVE  \/ y \in Clients /\ a \in holds[y]
                    \/ \E e \in Nat : e < d /\ At(y, e, "drop", a)'
  BY DEF Borrowing
<1>1. CASE At(y, d, k, a)
  BY <1>1 DEF Borrowing
<1>2. CASE y = x /\ d \in Nat /\ d >= n /\ Has(p, d - n, k, a)
  <2>1. PICK e \in Nat : e < d - n /\ Has(p, e, "drop", a)
    BY <1>2
  <2>2. e + n \in Nat /\ e + n < d /\ e + n >= n /\ (e + n) - n = e
    BY <1>2, <2>1
  <2>3. At(x, e + n, "drop", a)'
    BY <2>1, <2>2
  <2> QED
    BY <1>2, <2>2, <2>3
<1> QED
  BY <1>1, <1>2

-----------------------------------------------------------------------------
(* The owners, counted *)

\* The sets of owners are finite; whoever is in one counts.
LEMMA OwnerNumbers ==
    ASSUME GroupConstantsOK, NEW o, IsFiniteSet(Releasing(o))
    PROVE  /\ IsFiniteSet(Handed(o)) /\ IsFiniteSet(Joins(o)) /\ IsFiniteSet(Observing(o))
           /\ Cardinality(Handed(o)) \in Nat /\ Cardinality(Releasing(o)) \in Nat
           /\ Cardinality(Joins(o)) \in Nat /\ Cardinality(Observing(o)) \in Nat
           /\ Kept(o) \in {0, 1}
           /\ Handed(o) # {} => Cardinality(Handed(o)) >= 1
           /\ Releasing(o) # {} => Cardinality(Releasing(o)) >= 1
           /\ Joins(o) # {} => Cardinality(Joins(o)) >= 1
           /\ Observing(o) # {} => Cardinality(Observing(o)) >= 1
           /\ Owners(o) \in Nat
           /\ Owners(o) = 0 => /\ Handed(o) = {} /\ Releasing(o) = {} /\ Joins(o) = {}
                               /\ Observing(o) = {} /\ Kept(o) = 0
           /\ Handed(o) = {} /\ Releasing(o) = {} /\ Joins(o) = {} /\ Observing(o) = {}
                /\ Kept(o) = 0 => Owners(o) = 0
<1>1. /\ Handed(o) \in SUBSET Clients /\ Joins(o) \in SUBSET Members
      /\ Observing(o) \in SUBSET Completions
  BY DEF Handed, Joins, Observing
<1>2. IsFiniteSet(Handed(o)) /\ IsFiniteSet(Joins(o)) /\ IsFiniteSet(Observing(o))
  BY <1>1, FS_Subset DEF GroupConstantsOK
<1>3. \A S : IsFiniteSet(S) => Cardinality(S) \in Nat /\ (Cardinality(S) = 0 <=> S = {})
  BY FS_CardinalityType, FS_EmptySet
<1>4. Kept(o) \in {0, 1}
  BY DEF Kept
<1>5. /\ Cardinality(Handed(o)) \in Nat /\ (Cardinality(Handed(o)) = 0 <=> Handed(o) = {})
      /\ Cardinality(Releasing(o)) \in Nat /\ (Cardinality(Releasing(o)) = 0 <=> Releasing(o) = {})
      /\ Cardinality(Joins(o)) \in Nat /\ (Cardinality(Joins(o)) = 0 <=> Joins(o) = {})
      /\ Cardinality(Observing(o)) \in Nat /\ (Cardinality(Observing(o)) = 0 <=> Observing(o) = {})
  BY <1>2, <1>3
<1>6. /\ Owners(o) \in Nat
      /\ Owners(o) = 0 <=> /\ Cardinality(Handed(o)) = 0 /\ Cardinality(Releasing(o)) = 0
                           /\ Cardinality(Joins(o)) = 0 /\ Cardinality(Observing(o)) = 0
                           /\ Kept(o) = 0
  <2>2. Kept(o) \in Nat
    BY <1>4
  <2> DEFINE h == Cardinality(Handed(o))
             r == Cardinality(Releasing(o))
             j == Cardinality(Joins(o))
             b == Cardinality(Observing(o))
             k == Kept(o)
  <2>3. Owners(o) = h + r + j + b + k
    BY DEF Owners
  <2>4. h \in Nat /\ r \in Nat /\ j \in Nat /\ b \in Nat /\ k \in Nat
    BY <1>5, <2>2
  <2> HIDE DEF h, r, j, b, k
  <2>5. /\ Owners(o) \in Nat
        /\ Owners(o) = 0 <=> h = 0 /\ r = 0 /\ j = 0 /\ b = 0 /\ k = 0
    BY <2>3, <2>4
  <2> QED
    BY <2>5 DEF h, r, j, b, k
<1>7. \A n \in Nat : n # 0 => n >= 1
  OBVIOUS
<1>8. /\ Handed(o) # {} => Cardinality(Handed(o)) >= 1
      /\ Releasing(o) # {} => Cardinality(Releasing(o)) >= 1
      /\ Joins(o) # {} => Cardinality(Joins(o)) >= 1
      /\ Observing(o) # {} => Cardinality(Observing(o)) >= 1
  BY <1>5, <1>7
<1> QED
  BY <1>2, <1>4, <1>5, <1>6, <1>8

\* Whatever has an owner has a reference, and is not freed.
LEMMA Referenced ==
    ASSUME GroupConstantsOK, GroupTyped, Balanced
    PROVE  /\ \A x \in Clients : \A o \in holds[x] : o \in Objects /\ refs[o] >= 1
           /\ \A x, d, o : Frees(x, d, o) => o \in Objects /\ refs[o] >= 1
           /\ \A m \in Members : member[m].task # Nobody =>
                member[m].task \in Tasks /\ refs[member[m].task] >= 1 /\ refs["group"] >= 1
           /\ \A c \in Completions : c \notin freed /\ completion[c].owner # Nobody =>
                completion[c].owner \in Lists /\ refs[completion[c].owner] >= 1
           /\ \A t \in Tasks : outcome[t] = "None" => refs[t] >= 1
           /\ \A c \in Completions : completion[c].state = "Armed" => refs[c] >= 1
           /\ \A o \in Objects : refs[o] >= 1 => o \notin freed /\ Created(o)
           /\ \A o \in Objects : refs[o] \in Nat
<1>0. \A o \in Objects : refs[o] \in Nat
  BY DEF GroupTyped
<1>1. ASSUME NEW o \in Objects,
             Handed(o) # {} \/ Releasing(o) # {} \/ Joins(o) # {} \/ Observing(o) # {} \/ Kept(o) = 1
      PROVE  refs[o] >= 1
  <2>1. IsFiniteSet(Releasing(o)) /\ refs[o] = Owners(o)
    BY DEF Balanced
  <2>2. Owners(o) # 0
    BY <1>1, <2>1, OwnerNumbers
  <2> QED
    BY <1>0, <2>1, <2>2
<1>2. ASSUME NEW x \in Clients, NEW o \in holds[x] PROVE o \in Objects /\ refs[o] >= 1
  <2>1. o \in Objects
    BY DEF GroupTyped
  <2>2. x \in Handed(o)
    BY DEF Handed
  <2> QED
    BY <1>1, <2>1, <2>2
<1>3. ASSUME NEW x, NEW d, NEW o, Frees(x, d, o) PROVE o \in Objects /\ refs[o] >= 1
  <2>1. PICK k \in {"wake", "release", "drop"} : At(x, d, k, o)
    BY <1>3 DEF Frees
  <2>2. x \in Threads /\ d \in Nat /\ <<k, o>> \in GroupOps
    BY <2>1, AtType
  <2>3. o \in Objects
    BY <2>2, OpArgs, GroupNames
  <2>4. <<x, d>> \in Releasing(o)
    BY <1>3, <2>2 DEF Releasing
  <2> QED
    BY <1>1, <2>3, <2>4
<1>4. ASSUME NEW m \in Members, member[m].task # Nobody
      PROVE  member[m].task \in Tasks /\ refs[member[m].task] >= 1 /\ refs["group"] >= 1
  <2>1. member[m].task \in Tasks
    BY <1>4 DEF GroupTyped, MemberRecord
  <2>2. m \in Joins(member[m].task) /\ m \in Joins("group")
    BY <1>4 DEF Joins
  <2> QED
    BY <1>1, <2>1, <2>2, GroupNames
<1>5. ASSUME NEW c \in Completions, c \notin freed, completion[c].owner # Nobody
      PROVE  completion[c].owner \in Lists /\ refs[completion[c].owner] >= 1
  <2>1. completion[c].owner \in Lists
    BY <1>5 DEF GroupTyped, CompletionRecord
  <2>2. c \in Observing(completion[c].owner)
    BY <1>5 DEF Observing
  <2> QED
    BY <1>1, <2>1, <2>2, GroupNames
<1>6. ASSUME NEW t \in Tasks, outcome[t] = "None" PROVE refs[t] >= 1
  BY <1>1, <1>6, GroupNames DEF Kept
<1>7. ASSUME NEW c \in Completions, completion[c].state = "Armed" PROVE refs[c] >= 1
  BY <1>1, <1>7, GroupNames DEF Kept
<1>8. ASSUME NEW o \in Objects, refs[o] >= 1 PROVE o \notin freed /\ Created(o)
  <2>1. refs[o] # 0
    BY <1>8
  <2> QED
    BY <2>1 DEF Balanced
<1> QED
  BY <1>0, <1>2, <1>3, <1>4, <1>5, <1>6, <1>7, <1>8

\* A client gains a handle.
LEMMA HandedGain ==
    ASSUME GroupConstantsOK, GroupTyped, NEW x \in Clients, NEW u, u \notin holds[x],
           holds' = [holds EXCEPT ![x] = @ \cup {u}]
    PROVE  \A o : Cardinality(Handed(o))' = Cardinality(Handed(o)) + (IF o = u THEN 1 ELSE 0)
<1>1. \A y \in Clients : holds'[y] = IF y = x THEN holds[x] \cup {u} ELSE holds[y]
  BY DEF GroupTyped
<1>2. \A o : IsFiniteSet(Handed(o)) /\ Cardinality(Handed(o)) \in Nat
  <2>1. \A o : Handed(o) \in SUBSET Clients
    BY DEF Handed
  <2> QED
    BY <2>1, FS_Subset, FS_CardinalityType DEF GroupConstantsOK
<1>3. \A o : Handed(o)' = IF o = u THEN Handed(o) \cup {x} ELSE Handed(o)
  BY <1>1 DEF Handed
<1>4. x \notin Handed(u)
  BY DEF Handed
<1>5. Cardinality(Handed(u) \cup {x}) = Cardinality(Handed(u)) + 1
  BY <1>2, <1>4, FS_AddElement
<1>6. ASSUME NEW o PROVE Cardinality(Handed(o))' = Cardinality(Handed(o)) + (IF o = u THEN 1 ELSE 0)
  <2>1. CASE o = u
    BY <1>3, <1>5, <2>1
  <2>2. CASE o # u
    BY <1>2, <1>3, <2>2
  <2> QED
    BY <2>1, <2>2
<1> QED
  BY <1>6

\* A client gives up a handle.
LEMMA HandedLoss ==
    ASSUME GroupConstantsOK, GroupTyped, NEW x \in Clients, NEW u, u \in holds[x],
           holds' = [holds EXCEPT ![x] = @ \ {u}]
    PROVE  \A o : Cardinality(Handed(o))' = Cardinality(Handed(o)) - (IF o = u THEN 1 ELSE 0)
<1>1. \A y \in Clients : holds'[y] = IF y = x THEN holds[x] \ {u} ELSE holds[y]
  BY DEF GroupTyped
<1>2. \A o : IsFiniteSet(Handed(o)) /\ Cardinality(Handed(o)) \in Nat
  <2>1. \A o : Handed(o) \in SUBSET Clients
    BY DEF Handed
  <2> QED
    BY <2>1, FS_Subset, FS_CardinalityType DEF GroupConstantsOK
<1>3. \A o : Handed(o)' = IF o = u THEN Handed(o) \ {x} ELSE Handed(o)
  BY <1>1 DEF Handed
<1>4. x \in Handed(u)
  BY DEF Handed
<1>5. Cardinality(Handed(u) \ {x}) = Cardinality(Handed(u)) - 1
  BY <1>2, <1>4, FS_RemoveElement
<1>6. ASSUME NEW o PROVE Cardinality(Handed(o))' = Cardinality(Handed(o)) - (IF o = u THEN 1 ELSE 0)
  <2>1. CASE o = u
    BY <1>3, <1>5, <2>1
  <2>2. CASE o # u
    BY <1>2, <1>3, <2>2
  <2> QED
    BY <2>1, <2>2
<1> QED
  BY <1>6

\* The pending calls that end in a release of o are the same, one more or one less.
LEMMA ReleasingSame ==
    ASSUME NEW o, \A y, d : Frees(y, d, o)' <=> Frees(y, d, o)
    PROVE  Releasing(o)' = Releasing(o)
  BY DEF Releasing

\* One pending release more.
LEMMA ReleasingGain ==
    ASSUME NEW o, IsFiniteSet(Releasing(o)), NEW x \in Threads, NEW n \in Nat,
           ~Frees(x, n, o),
           \A y, d : Frees(y, d, o)' <=> Frees(y, d, o) \/ (y = x /\ d = n)
    PROVE  /\ IsFiniteSet(Releasing(o))'
           /\ Cardinality(Releasing(o))' = Cardinality(Releasing(o)) + 1
<1> DEFINE u == <<x, n>>
<1>1. u \in Threads \X Nat /\ u \notin Releasing(o)
  BY DEF Releasing
<1>2. ASSUME NEW q \in Threads \X Nat PROVE Frees(q[1], q[2], o)' <=> Frees(q[1], q[2], o) \/ q = u
  <2>1. q = u <=> q[1] = x /\ q[2] = n
    OBVIOUS
  <2> QED
    BY <2>1
<1> HIDE DEF u
<1>3. Releasing(o)' = Releasing(o) \cup {u}
  BY <1>1, <1>2 DEF Releasing
<1> QED
  BY <1>1, <1>3, FS_AddElement

\* One pending release less.
LEMMA ReleasingLoss ==
    ASSUME NEW o, IsFiniteSet(Releasing(o)), NEW x \in Threads, NEW n \in Nat,
           Frees(x, n, o),
           \A y, d : Frees(y, d, o)' <=> Frees(y, d, o) /\ ~(y = x /\ d = n)
    PROVE  /\ IsFiniteSet(Releasing(o))'
           /\ Cardinality(Releasing(o))' = Cardinality(Releasing(o)) - 1
<1> DEFINE u == <<x, n>>
<1>1. u \in Releasing(o)
  BY DEF Releasing
<1>2. ASSUME NEW q \in Threads \X Nat PROVE Frees(q[1], q[2], o)' <=> Frees(q[1], q[2], o) /\ q # u
  <2>1. q = u <=> q[1] = x /\ q[2] = n
    OBVIOUS
  <2> QED
    BY <2>1
<1> HIDE DEF u
<1>3. Releasing(o)' = Releasing(o) \ {u}
  BY <1>1, <1>2 DEF Releasing
<1> QED
  BY <1>1, <1>3, FS_RemoveElement

\* The members in use are the same.
LEMMA JoinsSame ==
    ASSUME \A m \in Members : member'[m].task = member[m].task
    PROVE  \A o : Joins(o)' = Joins(o)
  BY DEF Joins

\* A member of task t comes into use.
LEMMA JoinsGain ==
    ASSUME GroupConstantsOK, NEW u \in Members, NEW t \in Tasks, member[u].task = Nobody,
           member'[u].task = t, \A m \in Members : m # u => member'[m].task = member[m].task
    PROVE  \A o : Cardinality(Joins(o))' =
                    Cardinality(Joins(o)) + (IF o \in {t, "group"} THEN 1 ELSE 0)
<1>1. \A o : IsFiniteSet(Joins(o)) /\ Cardinality(Joins(o)) \in Nat
  <2>1. \A o : Joins(o) \in SUBSET Members
    BY DEF Joins
  <2> QED
    BY <2>1, FS_Subset, FS_CardinalityType DEF GroupConstantsOK
<1>2. ASSUME NEW o, o \in {t, "group"} PROVE Joins(o)' = Joins(o) \cup {u} /\ u \notin Joins(o)
  BY <1>2, GroupNames DEF Joins
<1>3. ASSUME NEW o, o \notin {t, "group"} PROVE Joins(o)' = Joins(o)
  BY <1>3, GroupNames DEF Joins
<1>4. ASSUME NEW o
      PROVE  Cardinality(Joins(o))' = Cardinality(Joins(o)) + (IF o \in {t, "group"} THEN 1 ELSE 0)
  <2>1. CASE o \in {t, "group"}
    <3>1. Joins(o)' = Joins(o) \cup {u} /\ u \notin Joins(o) /\ IsFiniteSet(Joins(o))
      BY <1>1, <1>2, <2>1
    <3>2. Cardinality(Joins(o) \cup {u}) = Cardinality(Joins(o)) + 1
      BY <3>1, FS_AddElement
    <3> QED
      BY <2>1, <3>1, <3>2
  <2>2. CASE o \notin {t, "group"}
    BY <1>1, <1>3, <2>2
  <2> QED
    BY <2>1, <2>2
<1> QED
  BY <1>4

\* A member of task t is no longer in use.
LEMMA JoinsLoss ==
    ASSUME GroupConstantsOK, NEW u \in Members, NEW t \in Tasks, member[u].task = t,
           member'[u].task = Nobody, \A m \in Members : m # u => member'[m].task = member[m].task
    PROVE  \A o : Cardinality(Joins(o))' =
                    Cardinality(Joins(o)) - (IF o \in {t, "group"} THEN 1 ELSE 0)
<1>1. \A o : IsFiniteSet(Joins(o)) /\ Cardinality(Joins(o)) \in Nat
  <2>1. \A o : Joins(o) \in SUBSET Members
    BY DEF Joins
  <2> QED
    BY <2>1, FS_Subset, FS_CardinalityType DEF GroupConstantsOK
<1>2. ASSUME NEW o, o \in {t, "group"} PROVE Joins(o)' = Joins(o) \ {u} /\ u \in Joins(o)
  BY <1>2, GroupNames DEF Joins
<1>3. ASSUME NEW o, o \notin {t, "group"} PROVE Joins(o)' = Joins(o)
  BY <1>3, GroupNames DEF Joins
<1>4. ASSUME NEW o
      PROVE  Cardinality(Joins(o))' = Cardinality(Joins(o)) - (IF o \in {t, "group"} THEN 1 ELSE 0)
  <2>1. CASE o \in {t, "group"}
    <3>1. Joins(o)' = Joins(o) \ {u} /\ u \in Joins(o) /\ IsFiniteSet(Joins(o))
      BY <1>1, <1>2, <2>1
    <3>2. Cardinality(Joins(o) \ {u}) = Cardinality(Joins(o)) - 1
      BY <3>1, FS_RemoveElement
    <3> QED
      BY <2>1, <3>1, <3>2
  <2>2. CASE o \notin {t, "group"}
    BY <1>1, <1>3, <2>2
  <2> QED
    BY <2>1, <2>2
<1> QED
  BY <1>4

\* The completions that observe something are the same.
LEMMA ObservingSame ==
    ASSUME freed' \cap Completions = freed \cap Completions,
           \A c \in Completions : completion'[c].owner = completion[c].owner
    PROVE  \A o : Observing(o)' = Observing(o)
  BY DEF Observing

\* Completion c is armed on u.
LEMMA ObservingGain ==
    ASSUME GroupConstantsOK, NEW c \in Completions, NEW u, u # Nobody, freed' = freed, c \notin freed,
           completion[c].owner = Nobody, completion'[c].owner = u,
           \A e \in Completions : e # c => completion'[e].owner = completion[e].owner
    PROVE  \A o : o # Nobody =>
             Cardinality(Observing(o))' = Cardinality(Observing(o)) + (IF o = u THEN 1 ELSE 0)
<1>1. \A o : IsFiniteSet(Observing(o)) /\ Cardinality(Observing(o)) \in Nat
  <2>1. \A o : Observing(o) \in SUBSET Completions
    BY DEF Observing
  <2> QED
    BY <2>1, FS_Subset, FS_CardinalityType DEF GroupConstantsOK
<1>2. Observing(u)' = Observing(u) \cup {c} /\ c \notin Observing(u)
  BY DEF Observing
<1>3. ASSUME NEW o, o # u, o # Nobody PROVE Observing(o)' = Observing(o)
  BY <1>3 DEF Observing
<1>4. Cardinality(Observing(u) \cup {c}) = Cardinality(Observing(u)) + 1
  BY <1>1, <1>2, FS_AddElement
<1>5. ASSUME NEW o, o # Nobody
      PROVE  Cardinality(Observing(o))' = Cardinality(Observing(o)) + (IF o = u THEN 1 ELSE 0)
  <2>1. CASE o = u
    BY <1>2, <1>4, <2>1
  <2>2. CASE o # u
    BY <1>1, <1>3, <1>5, <2>2
  <2> QED
    BY <2>1, <2>2
<1> QED
  BY <1>5

\* A completion is freed, and no longer observes u.
LEMMA ObservingLoss ==
    ASSUME GroupConstantsOK, NEW c \in Completions, NEW u, c \notin freed,
           freed' = freed \cup {c}, completion[c].owner = u, completion' = completion
    PROVE  \A o : Cardinality(Observing(o))' = Cardinality(Observing(o)) - (IF o = u THEN 1 ELSE 0)
<1>1. \A o : IsFiniteSet(Observing(o)) /\ Cardinality(Observing(o)) \in Nat
  <2>1. \A o : Observing(o) \in SUBSET Completions
    BY DEF Observing
  <2> QED
    BY <2>1, FS_Subset, FS_CardinalityType DEF GroupConstantsOK
<1>2. Observing(u)' = Observing(u) \ {c} /\ c \in Observing(u)
  BY DEF Observing
<1>3. ASSUME NEW o, o # u PROVE Observing(o)' = Observing(o)
  BY <1>3 DEF Observing
<1>4. Cardinality(Observing(u) \ {c}) = Cardinality(Observing(u)) - 1
  BY <1>1, <1>2, FS_RemoveElement
<1>5. ASSUME NEW o
      PROVE  Cardinality(Observing(o))' = Cardinality(Observing(o)) - (IF o = u THEN 1 ELSE 0)
  <2>1. CASE o = u
    BY <1>2, <1>4, <2>1
  <2>2. CASE o # u
    BY <1>1, <1>3, <2>2
  <2> QED
    BY <2>1, <2>2
<1> QED
  BY <1>5

\* The number of owners, from what each kind of owner gains.
LEMMA OwnersMoved ==
    ASSUME GroupConstantsOK, NEW o, IsFiniteSet(Releasing(o)),
           NEW dh \in Int, NEW dr \in Int, NEW dj \in Int, NEW db \in Int, NEW dk \in Int,
           Cardinality(Handed(o))' = Cardinality(Handed(o)) + dh,
           Cardinality(Releasing(o))' = Cardinality(Releasing(o)) + dr,
           Cardinality(Joins(o))' = Cardinality(Joins(o)) + dj,
           Cardinality(Observing(o))' = Cardinality(Observing(o)) + db,
           Kept(o)' = Kept(o) + dk
    PROVE  Owners(o)' = Owners(o) + (dh + dr + dj + db + dk)
<1>1. /\ Cardinality(Handed(o)) \in Nat /\ Cardinality(Releasing(o)) \in Nat
      /\ Cardinality(Joins(o)) \in Nat /\ Cardinality(Observing(o)) \in Nat /\ Kept(o) \in {0, 1}
  BY OwnerNumbers
<1> DEFINE h == Cardinality(Handed(o))
           r == Cardinality(Releasing(o))
           j == Cardinality(Joins(o))
           b == Cardinality(Observing(o))
           k == Kept(o)
<1>2. Owners(o) = h + r + j + b + k
  BY DEF Owners
<1>3. Owners(o)' = (h + dh) + (r + dr) + (j + dj) + (b + db) + (k + dk)
  BY DEF Owners
<1>4. h \in Nat /\ r \in Nat /\ j \in Nat /\ b \in Nat /\ k \in Nat
  BY <1>1
<1> HIDE DEF h, r, j, b, k
<1> QED
  BY <1>2, <1>3, <1>4

\* A step that frees nothing, and gives a reference only to what has one.
LEMMA BalancedKept ==
    ASSUME GroupConstantsOK, GroupTyped, Balanced, freed' = freed,
           \A c \in Completions : completion'[c].state = "None" <=> completion[c].state = "None",
           \A o \in Objects :
             /\ IsFiniteSet(Releasing(o))' /\ refs'[o] = Owners(o)'
             /\ refs'[o] = refs[o] \/ (refs[o] >= 1 /\ refs'[o] = refs[o] + 1)
    PROVE  Balanced'
<1>0. \A o \in Objects : refs[o] \in Nat
  BY DEF GroupTyped
<1>1. \A o \in Objects : refs'[o] = 0 <=> refs[o] = 0
  BY <1>0
<1>2. \A o \in Objects : Created(o)' <=> Created(o)
  BY DEF Created
<1>3. \A o \in Objects : o \in freed' <=> refs'[o] = 0 /\ Created(o)'
  BY <1>1, <1>2 DEF Balanced
<1>4. \A o \in Objects : ~Created(o)' => refs'[o] = 0
  BY <1>1, <1>2 DEF Balanced
<1>5. \A o \in Objects : IsFiniteSet(Releasing(o))' /\ refs'[o] = Owners(o)'
  OBVIOUS
<1> QED
  BY <1>3, <1>4, <1>5 DEF Balanced

\* A step that changes no owner.
LEMMA OwnersSame ==
    ASSUME NEW o, Releasing(o)' = Releasing(o), holds' = holds,
           \A m \in Members : member'[m].task = member[m].task,
           \A c \in Completions : completion'[c].owner = completion[c].owner, freed' = freed,
           Kept(o)' = Kept(o)
    PROVE  Owners(o)' = Owners(o)
<1>1. Joins(o)' = Joins(o)
  BY JoinsSame
<1>2. Observing(o)' = Observing(o)
  BY ObservingSame
<1>3. Handed(o)' = Handed(o)
  BY DEF Handed
<1> QED
  BY <1>1, <1>2, <1>3 DEF Owners

\* A step that leaves handles, references, members and completions alone, and only changes
\* operations that end in no release.
LEMMA BalancedSame ==
    ASSUME GroupConstantsOK, GroupTyped, Balanced, UNCHANGED <<refs, freed, holds, outcome>>,
           \A m \in Members : member'[m].task = member[m].task,
           \A c \in Completions : /\ completion'[c].owner = completion[c].owner
                                  /\ completion'[c].state = completion[c].state,
           \A y, d, o : Frees(y, d, o)' <=> Frees(y, d, o)
    PROVE  Balanced'
<1>1. ASSUME NEW o \in Objects
      PROVE  /\ IsFiniteSet(Releasing(o))' /\ refs'[o] = Owners(o)' /\ refs'[o] = refs[o]
  <2>1. Releasing(o)' = Releasing(o)
    BY ReleasingSame
  <2>2. Kept(o)' = Kept(o)
    BY DEF Kept
  <2>3. Owners(o)' = Owners(o)
    BY <2>1, <2>2, OwnersSame
  <2> QED
    BY <2>1, <2>3 DEF Balanced
<1> QED
  BY <1>1, BalancedKept

-----------------------------------------------------------------------------
(* Steps that replace one operation *)

\* A thread does its first operation and gets another in its place, or none; a call starts.
Swap(x, l, b) == todo' = [todo EXCEPT ![x] = << <<l, b>> >> \o Tail(todo[x])]
Pop(x) == todo' = [todo EXCEPT ![x] = Tail(todo[x])]
First(x, l, b) == todo[x] = <<>> /\ todo' = [todo EXCEPT ![x] = << <<l, b>> >>]

\* What is known after it.
Swapped(x, n, k0, a0, l, b) ==
    /\ todo' \in [Threads -> Seq(GroupOps)]
    /\ n \in Nat /\ At(x, n, k0, a0) /\ <<k0, a0>> \in GroupOps
    /\ \A d, k, a : At(x, d, k, a) => d <= n
    /\ \A k, a : At(x, n, k, a) => k = k0 /\ a = a0
    /\ \A y, d, k, a : At(y, d, k, a)' <=>
         (At(y, d, k, a) /\ ~(y = x /\ d = n)) \/ (y = x /\ d = n /\ k = l /\ a = b)
    /\ \A k : k # k0 /\ k # l => \A y, d, a : At(y, d, k, a)' <=> At(y, d, k, a)
    /\ \A k, a : k # k0 /\ Awaits(k, a) => Awaits(k, a)'
    /\ Borrowing /\ holds' = holds /\ (l \in {"cancel", "requestCancel", "cancelNext"} =>
         k0 \in {"cancel", "requestCancel", "cancelNext"} /\ a0 = b) => Borrowing'

\* Another in its place.
LEMMA StackOne ==
    ASSUME GroupTyped, NEW x \in Threads, NEW k0, Due(x, k0),
           NEW a0, a0 = Arg(x), NEW l, NEW b, <<l, b>> \in GroupOps,
           NEW n, n = Top(x), Swap(x, l, b)
    PROVE  Swapped(x, n, k0, a0, l, b)
<1> DEFINE p == << <<l, b>> >>
<1>0. p \in Seq(GroupOps)
  OBVIOUS
<1>1. \A d, k, a : Has(p, d, k, a) <=> d = 0 /\ k = l /\ a = b
  BY HasOne
<1>2. todo' = [todo EXCEPT ![x] = p \o Tail(todo[x])]
  BY DEF Swap
<1> HIDE DEF p
<1>3. /\ todo' \in [Threads -> Seq(GroupOps)]
      /\ n \in Nat /\ At(x, n, k0, a0) /\ <<k0, a0>> \in GroupOps
      /\ Replaces(x, n, p)
  BY <1>0, <1>2, StackNext
<1>4. \A k, a : At(x, n, k, a) => k = k0 /\ a = a0
  BY <1>3, AtType
<1>5. ASSUME NEW y, NEW d, NEW k, NEW a
      PROVE  At(y, d, k, a)' <=>
                (At(y, d, k, a) /\ ~(y = x /\ d = n)) \/ (y = x /\ d = n /\ k = l /\ a = b)
  <2>1. d \in Nat /\ d >= n /\ d - n = 0 <=> d = n
    BY <1>3
  <2>2. Has(p, d - n, k, a) <=> d - n = 0 /\ k = l /\ a = b
    BY <1>1
  <2>3. At(y, d, k, a)' <=> \/ At(y, d, k, a) /\ ~(y = x /\ d = n)
                            \/ y = x /\ d \in Nat /\ d >= n /\ Has(p, d - n, k, a)
    BY <1>3 DEF Replaces
  <2> QED
    BY <2>1, <2>2, <2>3
<1>6. \A k : k # k0 /\ k # l => \A y, d, a : At(y, d, k, a)' <=> At(y, d, k, a)
  BY <1>4, <1>5
<1>7. \A k, a : k # k0 /\ Awaits(k, a) => Awaits(k, a)'
  BY <1>4, <1>5 DEF Awaits
<1>8. ASSUME Borrowing, holds' = holds, l \in {"cancel", "requestCancel", "cancelNext"} =>
                k0 \in {"cancel", "requestCancel", "cancelNext"} /\ a0 = b
      PROVE  Borrowing'
  <2>1. \A d, a : \A k \in {"cancel", "requestCancel", "cancelNext"} : Has(p, d, k, a) =>
             /\ d = 0
             /\ \E m \in {"cancel", "requestCancel", "cancelNext"} : At(x, n, m, a)
    BY <1>1, <1>3, <1>8
  <2> QED
    BY <1>3, <1>8, <2>1, BorrowingNext
<1> QED
  BY <1>3, <1>4, <1>5, <1>6, <1>7, <1>8 DEF Replaces, Swapped

\* What is known after the last of a call, or one of several.
Popped1(x, n, k0, a0) ==
    /\ todo' \in [Threads -> Seq(GroupOps)]
    /\ n \in Nat /\ At(x, n, k0, a0) /\ <<k0, a0>> \in GroupOps
    /\ \A k, a : At(x, n, k, a) => k = k0 /\ a = a0
    /\ \A y, d, k, a : At(y, d, k, a)' <=> At(y, d, k, a) /\ ~(y = x /\ d = n)
    /\ \A k : k # k0 => \A y, d, a : At(y, d, k, a)' <=> At(y, d, k, a)
    /\ \A k, a : k # k0 /\ Awaits(k, a) => Awaits(k, a)'
    /\ Borrowing /\ holds' = holds => Borrowing'

\* A thread does its first operation.
LEMMA StackPop ==
    ASSUME GroupTyped, NEW x \in Threads, NEW k0, Due(x, k0),
           NEW a0, a0 = Arg(x),
           NEW n, n = Top(x), Pop(x)
    PROVE  Popped1(x, n, k0, a0)
<1> DEFINE p == <<>>
<1>0. p \in Seq(GroupOps)
  OBVIOUS
<1>1. \A d, k, a : ~Has(p, d, k, a)
  BY HasNone
<1>2. p = <<>> /\ todo' = [todo EXCEPT ![x] = Tail(todo[x])]
  BY DEF Pop
<1> HIDE DEF p
<1>3. /\ todo' \in [Threads -> Seq(GroupOps)]
      /\ n \in Nat /\ At(x, n, k0, a0) /\ <<k0, a0>> \in GroupOps
      /\ Replaces(x, n, p)
  BY <1>0, <1>2, StackNext
<1>4. \A k, a : At(x, n, k, a) => k = k0 /\ a = a0
  BY <1>3, AtType
<1>5. \A y, d, k, a : At(y, d, k, a)' <=> At(y, d, k, a) /\ ~(y = x /\ d = n)
  BY <1>1, <1>3 DEF Replaces
<1>6. \A k : k # k0 => \A y, d, a : At(y, d, k, a)' <=> At(y, d, k, a)
  BY <1>4, <1>5
<1>7. \A k, a : k # k0 /\ Awaits(k, a) => Awaits(k, a)'
  BY <1>4, <1>5 DEF Awaits
<1>8. ASSUME Borrowing, holds' = holds PROVE Borrowing'
  <2>1. \A d, a : \A k \in {"cancel", "requestCancel", "cancelNext"} : Has(p, d, k, a) =>
             /\ d = 0
             /\ \E m \in {"cancel", "requestCancel", "cancelNext"} : At(x, n, m, a)
    BY <1>1
  <2> QED
    BY <1>3, <1>8, <2>1, BorrowingNext
<1> QED
  BY <1>3, <1>4, <1>5, <1>6, <1>7, <1>8 DEF Replaces, Popped1

\* What is known after the first of a call.
Begun(x, l, b) ==
    /\ todo' \in [Threads -> Seq(GroupOps)]
    /\ \A d, k, a : ~At(x, d, k, a)
    /\ \A y, d, k, a : At(y, d, k, a)' <=>
         At(y, d, k, a) \/ (y = x /\ d = 0 /\ k = l /\ a = b)
    /\ \A k : k # l => \A y, d, a : At(y, d, k, a)' <=> At(y, d, k, a)
    /\ \A k, a : Awaits(k, a) => Awaits(k, a)'
    /\ Awaits(l, b)'
    /\ Borrowing /\ (\A y \in Clients : y # x => holds'[y] = holds[y])
         /\ (l \in {"cancel", "requestCancel", "cancelNext"} => x \in Clients /\ b \in holds'[x])
         => Borrowing'

\* A call starts with one operation.
LEMMA StackFirst ==
    ASSUME GroupTyped, NEW x \in Threads,
           NEW l, NEW b, <<l, b>> \in GroupOps, First(x, l, b)
    PROVE  Begun(x, l, b)
<1> DEFINE p == << <<l, b>> >>
<1>0. p \in Seq(GroupOps)
  OBVIOUS
<1>1. \A d, k, a : Has(p, d, k, a) <=> d = 0 /\ k = l /\ a = b
  BY HasOne
<1>2. todo[x] = <<>> /\ todo' = [todo EXCEPT ![x] = p]
  BY DEF First
<1> HIDE DEF p
<1>3. /\ todo' \in [Threads -> Seq(GroupOps)]
      /\ Starts(x, p)
  BY <1>0, <1>2, StackStart
<1>5. \A y, d, k, a : At(y, d, k, a)' <=>
                At(y, d, k, a) \/ (y = x /\ d = 0 /\ k = l /\ a = b)
  BY <1>1, <1>3 DEF Starts
<1>6. \A k : k # l => \A y, d, a : At(y, d, k, a)' <=> At(y, d, k, a)
  BY <1>5
<1>7. \A k, a : Awaits(k, a) => Awaits(k, a)'
  BY <1>5 DEF Awaits
<1>8. Awaits(l, b)'
  <2>1. At(x, 0, l, b)' /\ 0 \in Nat
    BY <1>5
  <2> QED
    BY <2>1 DEF Awaits
<1>9. ASSUME Borrowing, \A y \in Clients : y # x => holds'[y] = holds[y],
             l \in {"cancel", "requestCancel", "cancelNext"} => x \in Clients /\ b \in holds'[x]
      PROVE  Borrowing'
  <2>1. \A d, a : \A k \in {"cancel", "requestCancel", "cancelNext"} : Has(p, d, k, a) =>
             \/ x \in Clients /\ a \in holds'[x]
             \/ \E e \in Nat : e < d /\ Has(p, e, "drop", a)
    BY <1>1, <1>9
  <2> QED
    BY <1>3, <1>9, <2>1, BorrowingStart
<1> QED
  BY <1>3, <1>5, <1>6, <1>7, <1>8, <1>9 DEF Starts, Begun

\* A step that arms, attaches, records and publishes nothing.
LEMMA GroupStill ==
    ASSUME GroupInv, UNCHANGED <<outcome, ended, taskMembers, completions, attached, expected>>,
           group'.members = group.members, group'.active = group.active,
           group.closed => group'.closed,
           group'.implicitCancelled = group.implicitCancelled,
           group'.implicitFailed = group.implicitFailed,
           \A m \in Members : member'[m].task = member[m].task /\ member'[m].expect = member[m].expect,
           \A c \in Completions : /\ completion'[c].state = completion[c].state
                                  /\ completion'[c].owner = completion[c].owner
                                  /\ completion'[c].of = completion[c].of,
           \A x, d, m : At(x, d, "member", m)' <=> At(x, d, "member", m),
           \A x, d, t : At(x, d, "publish", t)' <=> At(x, d, "publish", t)
    PROVE  MemberList' /\ MemberOwners' /\ Endings' /\ Recording' /\ ArmedOnes'
<1>0. GroupTyped /\ MemberList /\ MemberOwners /\ Endings /\ Recording /\ ArmedOnes
  BY DEF GroupInv
<1>1. MemberList'
  BY <1>0, MemberListKept
<1>2. MemberOwners'
  BY <1>0, MemberOwnersKept
<1>3. Endings'
  BY <1>0, EndingsKept
<1>4. Recording'
  BY <1>0, RecordingKept
<1>5. ArmedOnes'
  BY <1>0, ArmedKept
<1> QED
  BY <1>1, <1>2, <1>3, <1>4, <1>5

\* If it cancels nothing either, what was going to be cancelled still is.
LEMMA GroupQuiet ==
    ASSUME GroupInv, UNCHANGED <<outcome, ended, taskMembers, completions, attached, expected>>,
           UNCHANGED <<member, cancelled>>,
           group'.members = group.members, group'.active = group.active,
           group.closed => group'.closed, group'.cancelRequested = group.cancelRequested,
           group'.implicitCancelled = group.implicitCancelled,
           group'.implicitFailed = group.implicitFailed,
           \A c \in Completions : /\ completion'[c].state = completion[c].state
                                  /\ completion'[c].owner = completion[c].owner
                                  /\ completion'[c].of = completion[c].of,
           \A x, d, m : At(x, d, "member", m)' <=> At(x, d, "member", m),
           \A x, d, t : At(x, d, "publish", t)' <=> At(x, d, "publish", t),
           \A t : Awaits("cancel", t) => Awaits("cancel", t)',
           Awaits("cancelNext", "group") => Awaits("cancelNext", "group")'
    PROVE  MemberList' /\ MemberOwners' /\ Endings' /\ Recording' /\ ArmedOnes' /\ Asking'
<1>1. MemberList' /\ MemberOwners' /\ Endings' /\ Recording' /\ ArmedOnes'
  BY GroupStill
<1>2. Asking'
  BY AskingKept DEF GroupInv
<1> QED
  BY <1>1, <1>2

\* What the operation a thread is to do is about.
LEMMA DueOp ==
    ASSUME GroupTyped, NEW x \in Threads, NEW k, Due(x, k)
    PROVE  <<k, Arg(x)>> \in GroupOps
<1>1. todo[x] \in Seq(GroupOps) /\ todo[x] # <<>> /\ Head(todo[x])[1] = k
      /\ Arg(x) = Head(todo[x])[2]
  BY DEF GroupTyped, Due, Arg
<1>2. Head(todo[x]) \in GroupOps
  BY <1>1, HeadTailProperties
<1> QED
  BY <1>1, <1>2, OpArgs

\* The fields of a completion that a callback counts in.
LEMMA WokeOnce ==
    ASSUME completion \in [Completions -> CompletionRecord], NEW c \in Completions,
           completion[c].woke = 0, completion' = [completion EXCEPT ![c].woke = @ + 1]
    PROVE  /\ completion' \in [Completions -> CompletionRecord]
           /\ \A e \in Completions : /\ completion'[e].state = completion[e].state
                                     /\ completion'[e].owner = completion[e].owner
                                     /\ completion'[e].of = completion[e].of
                                     /\ completion'[e].released = completion[e].released
                                     /\ completion'[e].woke =
                                          IF e = c THEN 1 ELSE completion[e].woke
<1> DEFINE r == [completion[c] EXCEPT !.woke = 1]
<1>1. completion[c] \in CompletionRecord
  OBVIOUS
<1>2. /\ r \in CompletionRecord /\ r.state = completion[c].state /\ r.owner = completion[c].owner
      /\ r.of = completion[c].of /\ r.released = completion[c].released /\ r.woke = 1
  BY <1>1 DEF CompletionRecord
<1>3. completion' = [completion EXCEPT ![c] = r]
  OBVIOUS
<1> HIDE DEF r
<1>4. \A e \in Completions : completion'[e] = IF e = c THEN r ELSE completion[e]
  BY <1>3
<1>5. completion' \in [Completions -> CompletionRecord]
  BY <1>2, <1>3
<1> QED
  BY <1>2, <1>4, <1>5

\* The same for the release callback.
LEMMA ReleasedOnce ==
    ASSUME completion \in [Completions -> CompletionRecord], NEW c \in Completions,
           completion[c].released = 0, completion' = [completion EXCEPT ![c].released = @ + 1]
    PROVE  /\ completion' \in [Completions -> CompletionRecord]
           /\ \A e \in Completions : /\ completion'[e].state = completion[e].state
                                     /\ completion'[e].owner = completion[e].owner
                                     /\ completion'[e].of = completion[e].of
                                     /\ completion'[e].woke = completion[e].woke
                                     /\ completion'[e].released =
                                          IF e = c THEN 1 ELSE completion[e].released
<1> DEFINE r == [completion[c] EXCEPT !.released = 1]
<1>1. completion[c] \in CompletionRecord
  OBVIOUS
<1>2. /\ r \in CompletionRecord /\ r.state = completion[c].state /\ r.owner = completion[c].owner
      /\ r.of = completion[c].of /\ r.woke = completion[c].woke /\ r.released = 1
  BY <1>1 DEF CompletionRecord
<1>3. completion' = [completion EXCEPT ![c] = r]
  OBVIOUS
<1> HIDE DEF r
<1>4. \A e \in Completions : completion'[e] = IF e = c THEN r ELSE completion[e]
  BY <1>3
<1>5. completion' \in [Completions -> CompletionRecord]
  BY <1>2, <1>3
<1> QED
  BY <1>2, <1>4, <1>5

\* The wake callback of a completion.
LEMMA WakeCallbackStep ==
    ASSUME GroupConstantsOK, GroupInv, NEW x \in Threads, WakeCallback(x)
    PROVE  GroupInv'
<1>0. GroupTyped /\ Callbacks /\ Borrowing /\ Balanced
  BY DEF GroupInv
<1> PICK c : c = Arg(x)
  OBVIOUS
<1> PICK n : n = Top(x)
  OBVIOUS
<1>1. /\ Due(x, "wake")
      /\ completion' = [completion EXCEPT ![c].woke = @ + 1]
      /\ Swap(x, "release", c)
      /\ UNCHANGED <<cancelled, ended, outcome, completions, group, member, taskMembers>>
      /\ UNCHANGED <<refs, freed, holds, attached, expected>>
  BY DEF WakeCallback, Do, Swap, taskVars, groupVars, lifetime,
         history
<1>2. c \in Completions
  <2>1. <<"wake", c>> \in GroupOps
    BY <1>0, <1>1, DueOp
  <2> QED
    BY <2>1, OpArgs
<1>3. <<"release", c>> \in GroupOps
  BY <1>2, OpArgs
<1>40. Swapped(x, n, "wake", c, "release", c)
  BY <1>0, <1>1, <1>3, StackOne
<1>4. /\ todo' \in [Threads -> Seq(GroupOps)]
      /\ n \in Nat /\ At(x, n, "wake", c)
      /\ \A k, a : At(x, n, k, a) => k = "wake" /\ a = c
      /\ \A y, d, k, a : At(y, d, k, a)' <=>
           (At(y, d, k, a) /\ ~(y = x /\ d = n)) \/ (y = x /\ d = n /\ k = "release" /\ a = c)
      /\ \A k : k # "wake" /\ k # "release" => \A y, d, a : At(y, d, k, a)' <=> At(y, d, k, a)
      /\ \A k, a : k # "wake" /\ Awaits(k, a) => Awaits(k, a)'
  BY <1>40 DEF Swapped
<1>5. Borrowing'
  BY <1>0, <1>1, <1>40 DEF Swapped
<1>6. /\ completion[c].state = "Ready" /\ completion[c].owner # Nobody
      /\ completion[c].woke = 0 /\ completion[c].released = 0
  BY <1>0, <1>4 DEF Callbacks
<1>7. /\ completion' \in [Completions -> CompletionRecord]
      /\ \A e \in Completions : /\ completion'[e].state = completion[e].state
                                /\ completion'[e].owner = completion[e].owner
                                /\ completion'[e].of = completion[e].of
                                /\ completion'[e].released = completion[e].released
                                /\ completion'[e].woke = IF e = c THEN 1 ELSE completion[e].woke
  BY <1>0, <1>1, <1>2, <1>6, WokeOnce DEF GroupTyped
<1>8. GroupTyped'
  BY <1>0, <1>1, <1>4, <1>7 DEF GroupTyped
<1>9. MemberList' /\ MemberOwners' /\ Endings' /\ Recording' /\ ArmedOnes' /\ Asking'
  BY <1>1, <1>4, <1>7, GroupQuiet
<1>10. Callbacks'
  <2>0. \A y, d, k, a : At(y, d, k, a) /\ k \in {"wake", "release"} => a \in Completions
    BY <1>0, AtType, OpArgs
  <2>1. \A y, d : CallsBack(y, d, c) => y = x /\ d = n
    <3>1. CallsBack(x, n, c)
      BY <1>4 DEF CallsBack
    <3> QED
      BY <1>0, <3>1 DEF Callbacks
  <2>2. \A y, z, d, e, u : CallsBack(y, d, u)' /\ CallsBack(z, e, u)' => y = z /\ d = e
    <3>1. \A y, d, u : CallsBack(y, d, u)' => CallsBack(y, d, u)
      BY <1>4 DEF CallsBack
    <3> QED
      BY <1>0, <3>1 DEF Callbacks
  <2>3. \A y, d, u : At(y, d, "wake", u)' =>
         /\ completion'[u].state = "Ready" /\ completion'[u].owner # Nobody
         /\ completion'[u].woke = 0 /\ completion'[u].released = 0
    BY <1>0, <1>4, <1>7, <2>0, <2>1 DEF Callbacks, CallsBack
  <2>4. \A y, d, u : At(y, d, "release", u)' =>
         /\ completion'[u].owner # Nobody /\ completion'[u].released = 0
         /\ \/ completion'[u].state = "Ready" /\ completion'[u].woke = 1
            \/ completion'[u].state = "Detached" /\ completion'[u].woke = 0
    BY <1>0, <1>2, <1>4, <1>6, <1>7, <2>0, <2>1 DEF Callbacks, CallsBack
  <2>5. \A u \in Completions : completion'[u].owner = Nobody \/ completion'[u].state = "Armed" =>
         completion'[u].woke = 0 /\ completion'[u].released = 0
    BY <1>0, <1>6, <1>7 DEF Callbacks
  <2>6. Awaits("release", c)'
    BY <1>4 DEF Awaits
  <2>7. \A u \in Completions : u # c =>
          /\ Awaits("wake", u) => Awaits("wake", u)'
          /\ Awaits("release", u) => Awaits("release", u)'
    BY <1>4 DEF Awaits
  <2>8. \A u \in Completions :
         completion'[u].owner # Nobody /\ completion'[u].state \in {"Ready", "Detached"} =>
           \/ Awaits("wake", u)' \/ Awaits("release", u)'
           \/ /\ completion'[u].released = 1
              /\ completion'[u].woke = IF completion'[u].state = "Ready" THEN 1 ELSE 0
    BY <1>0, <1>7, <2>6, <2>7 DEF Callbacks
  <2> QED
    BY <2>2, <2>3, <2>4, <2>5, <2>8 DEF Callbacks
<1>11. Balanced'
  <2>1. \A y, d, o : Frees(y, d, o)' <=> Frees(y, d, o)
    BY <1>4 DEF Frees
  <2> QED
    BY <1>0, <1>1, <1>7, <2>1, BalancedSame
<1> QED
  BY <1>5, <1>8, <1>9, <1>10, <1>11 DEF GroupInv

\* The release callback of a completion.
LEMMA ReleaseCallbackStep ==
    ASSUME GroupConstantsOK, GroupInv, NEW x \in Threads, ReleaseCallback(x)
    PROVE  GroupInv'
<1>0. GroupTyped /\ Callbacks /\ Borrowing /\ Balanced
  BY DEF GroupInv
<1> PICK c : c = Arg(x)
  OBVIOUS
<1> PICK n : n = Top(x)
  OBVIOUS
<1>1. /\ Due(x, "release")
      /\ completion' = [completion EXCEPT ![c].released = @ + 1]
      /\ Swap(x, "drop", c)
      /\ UNCHANGED <<cancelled, ended, outcome, completions, group, member, taskMembers>>
      /\ UNCHANGED <<refs, freed, holds, attached, expected>>
  BY DEF ReleaseCallback, Do, Swap, taskVars, groupVars, lifetime,
         history
<1>2. c \in Completions
  <2>1. <<"release", c>> \in GroupOps
    BY <1>0, <1>1, DueOp
  <2> QED
    BY <2>1, OpArgs
<1>3. <<"drop", c>> \in GroupOps
  BY <1>2, OpArgs, GroupNames
<1>40. Swapped(x, n, "release", c, "drop", c)
  BY <1>0, <1>1, <1>3, StackOne
<1>4. /\ todo' \in [Threads -> Seq(GroupOps)]
      /\ n \in Nat /\ At(x, n, "release", c)
      /\ \A k, a : At(x, n, k, a) => k = "release" /\ a = c
      /\ \A y, d, k, a : At(y, d, k, a)' <=>
           (At(y, d, k, a) /\ ~(y = x /\ d = n)) \/ (y = x /\ d = n /\ k = "drop" /\ a = c)
      /\ \A k : k # "release" /\ k # "drop" => \A y, d, a : At(y, d, k, a)' <=> At(y, d, k, a)
      /\ \A k, a : k # "release" /\ Awaits(k, a) => Awaits(k, a)'
  BY <1>40 DEF Swapped
<1>5. Borrowing'
  BY <1>0, <1>1, <1>40 DEF Swapped
<1>6. /\ completion[c].owner # Nobody /\ completion[c].released = 0
      /\ \/ completion[c].state = "Ready" /\ completion[c].woke = 1
         \/ completion[c].state = "Detached" /\ completion[c].woke = 0
  BY <1>0, <1>4 DEF Callbacks
<1>7. /\ completion' \in [Completions -> CompletionRecord]
      /\ \A e \in Completions : /\ completion'[e].state = completion[e].state
                                /\ completion'[e].owner = completion[e].owner
                                /\ completion'[e].of = completion[e].of
                                /\ completion'[e].woke = completion[e].woke
                                /\ completion'[e].released =
                                     IF e = c THEN 1 ELSE completion[e].released
  BY <1>0, <1>1, <1>2, <1>6, ReleasedOnce DEF GroupTyped
<1>8. GroupTyped'
  BY <1>0, <1>1, <1>4, <1>7 DEF GroupTyped
<1>9. MemberList' /\ MemberOwners' /\ Endings' /\ Recording' /\ ArmedOnes' /\ Asking'
  BY <1>1, <1>4, <1>7, GroupQuiet
<1>10. Callbacks'
  <2>0. \A y, d, k, a : At(y, d, k, a) /\ k \in {"wake", "release"} => a \in Completions
    BY <1>0, AtType, OpArgs
  <2>1. \A y, d : CallsBack(y, d, c) => y = x /\ d = n
    <3>1. CallsBack(x, n, c)
      BY <1>4 DEF CallsBack
    <3> QED
      BY <1>0, <3>1 DEF Callbacks
  <2>2. \A y, z, d, e, u : CallsBack(y, d, u)' /\ CallsBack(z, e, u)' => y = z /\ d = e
    <3>1. \A y, d, u : CallsBack(y, d, u)' => CallsBack(y, d, u)
      BY <1>4 DEF CallsBack
    <3> QED
      BY <1>0, <3>1 DEF Callbacks
  <2>3. \A y, d, u : At(y, d, "wake", u)' =>
         /\ completion'[u].state = "Ready" /\ completion'[u].owner # Nobody
         /\ completion'[u].woke = 0 /\ completion'[u].released = 0
    BY <1>0, <1>4, <1>7, <2>0, <2>1 DEF Callbacks, CallsBack
  <2>4. \A y, d, u : At(y, d, "release", u)' =>
         /\ completion'[u].owner # Nobody /\ completion'[u].released = 0
         /\ \/ completion'[u].state = "Ready" /\ completion'[u].woke = 1
            \/ completion'[u].state = "Detached" /\ completion'[u].woke = 0
    BY <1>0, <1>2, <1>4, <1>7, <2>0, <2>1 DEF Callbacks, CallsBack
  <2>5. \A u \in Completions : completion'[u].owner = Nobody \/ completion'[u].state = "Armed" =>
         completion'[u].woke = 0 /\ completion'[u].released = 0
    BY <1>0, <1>6, <1>7 DEF Callbacks
  <2>7. \A u \in Completions : u # c =>
          /\ Awaits("wake", u) => Awaits("wake", u)'
          /\ Awaits("release", u) => Awaits("release", u)'
    BY <1>4 DEF Awaits
  <2>8. \A u \in Completions :
         completion'[u].owner # Nobody /\ completion'[u].state \in {"Ready", "Detached"} =>
           \/ Awaits("wake", u)' \/ Awaits("release", u)'
           \/ /\ completion'[u].released = 1
              /\ completion'[u].woke = IF completion'[u].state = "Ready" THEN 1 ELSE 0
    BY <1>0, <1>6, <1>7, <2>7 DEF Callbacks
  <2> QED
    BY <2>2, <2>3, <2>4, <2>5, <2>8 DEF Callbacks
<1>11. Balanced'
  <2>1. \A y, d, o : Frees(y, d, o)' <=> Frees(y, d, o)
    BY <1>4 DEF Frees
  <2> QED
    BY <1>0, <1>1, <1>7, <2>1, BalancedSame
<1> QED
  BY <1>5, <1>8, <1>9, <1>10, <1>11 DEF GroupInv

\* task_request_cancel of a task.
LEMMA CancelTaskStep ==
    ASSUME GroupConstantsOK, GroupInv, NEW x \in Threads, CancelTask(x)
    PROVE  GroupInv'
<1>0. /\ GroupTyped /\ MemberList /\ MemberOwners /\ Endings /\ Recording /\ ArmedOnes
      /\ Callbacks /\ Asking /\ Borrowing /\ Balanced
  BY DEF GroupInv
<1> PICK t : t = Arg(x)
  OBVIOUS
<1> PICK n : n = Top(x)
  OBVIOUS
<1>1. /\ Due(x, "cancel")
      /\ cancelled' = IF ended[t] = "None" THEN [cancelled EXCEPT ![t] = TRUE] ELSE cancelled
      /\ Pop(x)
      /\ UNCHANGED <<ended, outcome, completions, group, member, taskMembers, completion>>
      /\ UNCHANGED <<refs, freed, holds, attached, expected>>
  BY DEF CancelTask, Do, Pop, groupVars, lifetime, history
<1>2. t \in Tasks
  BY <1>0, <1>1, DueOp, OpArgs
<1>40. Popped1(x, n, "cancel", t)
  BY <1>0, <1>1, StackPop
<1>4. /\ todo' \in [Threads -> Seq(GroupOps)]
      /\ \A k, a : At(x, n, k, a) => k = "cancel" /\ a = t
      /\ \A y, d, k, a : At(y, d, k, a)' <=> At(y, d, k, a) /\ ~(y = x /\ d = n)
      /\ \A k : k # "cancel" => \A y, d, a : At(y, d, k, a)' <=> At(y, d, k, a)
      /\ \A k, a : k # "cancel" /\ Awaits(k, a) => Awaits(k, a)'
  BY <1>40 DEF Popped1
<1>5. Borrowing'
  BY <1>0, <1>1, <1>40 DEF Popped1
<1>6. /\ cancelled' \in [Tasks -> BOOLEAN]
      /\ \A u \in Tasks : cancelled[u] => cancelled'[u]
      /\ cancelled'[t] \/ ended[t] # "None"
  BY <1>0, <1>1, <1>2 DEF GroupTyped
<1>8. GroupTyped'
  BY <1>0, <1>1, <1>4, <1>6 DEF GroupTyped
<1>9. MemberList' /\ Recording'
  BY <1>0, <1>1, MemberListKept, RecordingKept
<1>10. MemberOwners'
  BY <1>0, <1>1, <1>4, MemberOwnersKept
<1>11. Endings'
  BY <1>0, <1>1, <1>4, EndingsKept
<1>12. ArmedOnes'
  BY <1>0, <1>1, ArmedKept
<1>13. Callbacks'
  BY <1>0, <1>1, <1>4, CallbacksKept
<1>14. Asking'
  <2>1. \A u : u # t => (Awaits("cancel", u) => Awaits("cancel", u)')
    BY <1>4 DEF Awaits
  <2>2. ASSUME NEW m \in Members, member[m].sent
        PROVE  \/ cancelled'[member[m].task] \/ ended[member[m].task] # "None"
               \/ Awaits("cancel", member[m].task)'
    <3> PICK u : u = member[m].task
      OBVIOUS
    <3>1. cancelled[u] \/ ended[u] # "None" \/ Awaits("cancel", u)
      BY <1>0, <2>2 DEF Asking
    <3>2. u \in Tasks \cup {Nobody}
      BY <1>0 DEF GroupTyped, MemberRecord
    <3>3. cancelled[u] => cancelled'[u]
      <4>1. CASE u \in Tasks
        BY <1>6, <4>1
      <4>2. CASE u \notin Tasks
        <5>1. u # t
          BY <1>2, <4>2
        <5> QED
          BY <1>0, <1>1, <1>2, <3>2, <4>2, <5>1 DEF GroupTyped
      <4> QED
        BY <4>1, <4>2
    <3>4. cancelled'[u] \/ ended[u] # "None" \/ Awaits("cancel", u)'
      BY <1>6, <2>1, <3>1, <3>3
    <3>5. Awaits("cancel", u)' => Awaits("cancel", member[m].task)'
      BY <1>1 DEF Awaits, At
    <3> QED
      BY <3>1, <3>4, <3>5
  <2>3. \A m \in Members : group.cancelRequested /\ member[m].task # Nobody /\ ~member[m].sent =>
         Awaits("cancelNext", "group")'
    BY <1>0, <1>4 DEF Asking
  <2> QED
    BY <1>1, <2>2, <2>3 DEF Asking
<1>15. Balanced'
  <2>1. \A y, d, o : Frees(y, d, o)' <=> Frees(y, d, o)
    BY <1>4 DEF Frees
  <2> QED
    BY <1>0, <1>1, <2>1, BalancedSame
<1> QED
  BY <1>5, <1>8, <1>9, <1>10, <1>11, <1>12, <1>13, <1>14, <1>15 DEF GroupInv

\* task_group_request_cancel marks the group.
LEMMA MarkRequestedStep ==
    ASSUME GroupConstantsOK, GroupInv, NEW x \in Threads, MarkRequested(x)
    PROVE  GroupInv'
<1>0. GroupTyped /\ Callbacks /\ Asking /\ Borrowing /\ Balanced
  BY DEF GroupInv
<1> PICK g : g = Arg(x)
  OBVIOUS
<1> PICK n : n = Top(x)
  OBVIOUS
<1>1. /\ Due(x, "requestCancel")
      /\ group' = [group EXCEPT !.cancelRequested = TRUE]
      /\ Swap(x, "cancelNext", "group")
      /\ UNCHANGED <<cancelled, ended, outcome, completions, member, taskMembers, completion>>
      /\ UNCHANGED <<refs, freed, holds, attached, expected>>
  BY DEF MarkRequested, Do, Swap, taskVars, lifetime, history
<1>2. g = "group" /\ <<"cancelNext", "group">> \in GroupOps
  BY <1>0, <1>1, DueOp, OpArgs
<1>40. Swapped(x, n, "requestCancel", g, "cancelNext", "group")
  BY <1>0, <1>1, <1>2, StackOne
<1>4. /\ todo' \in [Threads -> Seq(GroupOps)] /\ n \in Nat
      /\ \A k, a : At(x, n, k, a) => k = "requestCancel" /\ a = "group"
      /\ \A y, d, k, a : At(y, d, k, a)' <=>
           (At(y, d, k, a) /\ ~(y = x /\ d = n)) \/ (y = x /\ d = n /\ k = "cancelNext" /\ a = "group")
      /\ \A k : k # "requestCancel" /\ k # "cancelNext" => \A y, d, a : At(y, d, k, a)' <=> At(y, d, k, a)
      /\ \A k, a : k # "requestCancel" /\ Awaits(k, a) => Awaits(k, a)'
  BY <1>2, <1>40 DEF Swapped
<1>5. Borrowing'
  BY <1>0, <1>1, <1>2, <1>40 DEF Swapped
<1>6. /\ group' \in GroupRecord
      /\ group'.members = group.members /\ group'.active = group.active
      /\ group'.closed = group.closed /\ group'.cancelRequested
      /\ group'.implicitCancelled = group.implicitCancelled
      /\ group'.implicitFailed = group.implicitFailed
  BY <1>0, <1>1 DEF GroupTyped, GroupRecord
<1>8. GroupTyped'
  BY <1>0, <1>1, <1>4, <1>6 DEF GroupTyped
<1>9. MemberList' /\ MemberOwners' /\ Endings' /\ Recording' /\ ArmedOnes'
  BY <1>1, <1>4, <1>6, GroupStill
<1>10. Callbacks'
  BY <1>0, <1>1, <1>4, CallbacksKept
<1>11. Asking'
  <2>1. Awaits("cancelNext", "group")'
    BY <1>4 DEF Awaits
  <2>2. ASSUME NEW m \in Members, member[m].sent
        PROVE  \/ cancelled[member[m].task] \/ ended[member[m].task] # "None"
               \/ Awaits("cancel", member[m].task)'
    <3> PICK u : u = member[m].task
      OBVIOUS
    <3>1. cancelled[u] \/ ended[u] # "None" \/ Awaits("cancel", u)
      BY <1>0, <2>2 DEF Asking
    <3>2. Awaits("cancel", u)' => Awaits("cancel", member[m].task)'
      BY <1>1 DEF Awaits, At
    <3> QED
      BY <1>4, <3>1, <3>2
  <2> QED
    BY <1>1, <1>6, <2>1, <2>2 DEF Asking
<1>12. Balanced'
  <2>1. \A y, d, o : Frees(y, d, o)' <=> Frees(y, d, o)
    BY <1>4 DEF Frees
  <2> QED
    BY <1>0, <1>1, <2>1, BalancedSame
<1> QED
  BY <1>5, <1>8, <1>9, <1>10, <1>11, <1>12 DEF GroupInv

\* A call of task_group_request_cancel.
LEMMA GroupRequestCancelStep ==
    ASSUME GroupConstantsOK, GroupInv, NEW x \in Clients, GroupRequestCancel(x)
    PROVE  GroupInv'
<1>0. GroupTyped /\ Callbacks /\ Borrowing /\ Balanced /\ x \in Threads
  BY GroupNames DEF GroupInv
<1>1. /\ First(x, "requestCancel", "group") /\ "group" \in holds[x]
      /\ UNCHANGED <<cancelled, ended, outcome, completions, group, member, taskMembers>>
      /\ UNCHANGED <<completion, refs, freed, holds, attached, expected>>
  BY DEF GroupRequestCancel, Idle, Do, First, taskVars, groupVars,
         lifetime, history
<1>2. <<"requestCancel", "group">> \in GroupOps
  BY OpArgs
<1>40. Begun(x, "requestCancel", "group")
  BY <1>0, <1>1, <1>2, StackFirst
<1>4. /\ todo' \in [Threads -> Seq(GroupOps)]
      /\ \A k : k # "requestCancel" => \A y, d, a : At(y, d, k, a)' <=> At(y, d, k, a)
      /\ \A k, a : Awaits(k, a) => Awaits(k, a)'
  BY <1>40 DEF Begun
<1>5. Borrowing'
  BY <1>0, <1>1, <1>40 DEF Begun
<1>8. GroupTyped'
  BY <1>0, <1>1, <1>4 DEF GroupTyped
<1>9. MemberList' /\ MemberOwners' /\ Endings' /\ Recording' /\ ArmedOnes' /\ Asking'
  BY <1>1, <1>4, GroupQuiet
<1>10. Callbacks'
  BY <1>0, <1>1, <1>4, CallbacksKept
<1>12. Balanced'
  <2>1. \A y, d, o : Frees(y, d, o)' <=> Frees(y, d, o)
    BY <1>4 DEF Frees
  <2> QED
    BY <1>0, <1>1, <2>1, BalancedSame
<1> QED
  BY <1>5, <1>8, <1>9, <1>10, <1>12 DEF GroupInv

\* next_task_run commits the step a task ends with.
LEMMA CommitStep ==
    ASSUME GroupConstantsOK, GroupInv, NEW w \in Workers, NEW t \in Tasks, NEW s \in Steps,
           Commit(w, t, s)
    PROVE  GroupInv'
<1>0. /\ GroupTyped /\ MemberList /\ MemberOwners /\ Endings /\ Recording /\ ArmedOnes
      /\ Callbacks /\ Asking /\ Borrowing /\ Balanced /\ w \in Threads
  BY GroupNames DEF GroupInv
<1>1. /\ First(w, "publish", t) /\ ended[t] = "None" /\ ended' = [ended EXCEPT ![t] = s]
      /\ UNCHANGED <<cancelled, outcome, completions, group, member, taskMembers>>
      /\ UNCHANGED <<completion, refs, freed, holds, attached, expected>>
  BY DEF Commit, Idle, Do, First, groupVars, lifetime, history
<1>2. <<"publish", t>> \in GroupOps
  BY OpArgs
<1>40. Begun(w, "publish", t)
  BY <1>0, <1>1, <1>2, StackFirst
<1>4. /\ todo' \in [Threads -> Seq(GroupOps)]
      /\ \A y, d, k, a : At(y, d, k, a)' <=>
           At(y, d, k, a) \/ (y = w /\ d = 0 /\ k = "publish" /\ a = t)
      /\ \A k : k # "publish" => \A y, d, a : At(y, d, k, a)' <=> At(y, d, k, a)
      /\ \A k, a : Awaits(k, a) => Awaits(k, a)'
  BY <1>40 DEF Begun
<1>5. Borrowing'
  BY <1>0, <1>1, <1>40 DEF Begun
<1>6. /\ ended' \in [Tasks -> Steps \cup {"None"}] /\ s # "None"
      /\ \A u \in Tasks : ended'[u] = IF u = t THEN s ELSE ended[u]
  BY <1>0, <1>1, GroupNames DEF GroupTyped
<1>8. GroupTyped'
  BY <1>0, <1>1, <1>4, <1>6 DEF GroupTyped
<1>9. MemberList' /\ Recording' /\ ArmedOnes'
  BY <1>0, <1>1, MemberListKept, RecordingKept, ArmedKept
<1>10. MemberOwners'
  BY <1>0, <1>1, <1>4, MemberOwnersKept
<1>11. Callbacks'
  BY <1>0, <1>1, <1>4, CallbacksKept
<1>12. Endings'
  <2>1. outcome[t] = "None"
    BY <1>0, <1>1 DEF Endings
  <2>2. \A u \in Tasks : outcome'[u] \in {"None", ended'[u]}
    BY <1>0, <1>1, <1>6, <2>1 DEF Endings
  <2>3. \A y, d : ~At(y, d, "publish", t)
    BY <1>0, <1>1 DEF Endings
  <2>4. \A y, d, u : At(y, d, "publish", u) => u \in Tasks
    BY <1>0, AtType, OpArgs
  <2>5. \A y, d, u : At(y, d, "publish", u)' =>
          d = 0 /\ ended'[u] # "None" /\ outcome'[u] = "None"
    BY <1>0, <1>1, <1>4, <1>6, <2>1, <2>4 DEF Endings
  <2>6. \A y, z, d, e, u : At(y, d, "publish", u)' /\ At(z, e, "publish", u)' => y = z
    BY <1>0, <1>4, <2>3 DEF Endings
  <2> QED
    BY <2>2, <2>5, <2>6 DEF Endings
<1>13. Asking'
  <2>1. \A u \in Tasks \cup {Nobody} : ended[u] # "None" => ended'[u] # "None"
    <3>1. \A u \in Tasks : ended[u] # "None" => ended'[u] # "None"
      BY <1>6
    <3>2. Nobody \notin Tasks
      BY GroupNames
    <3>3. ended'[Nobody] = ended[Nobody]
      BY <1>0, <1>1, <3>2 DEF GroupTyped
    <3> QED
      BY <3>1, <3>3
  <2> QED
    BY <1>0, <1>1, <1>4, <2>1, AskingKept
<1>14. Balanced'
  <2>1. \A y, d, o : Frees(y, d, o)' <=> Frees(y, d, o)
    BY <1>4 DEF Frees
  <2> QED
    BY <1>0, <1>1, <2>1, BalancedSame
<1> QED
  BY <1>5, <1>8, <1>9, <1>10, <1>11, <1>12, <1>13, <1>14 DEF GroupInv

\* A handle becomes a pending release.
LEMMA HandOver ==
    ASSUME GroupConstantsOK, GroupTyped, Balanced, UNCHANGED <<refs, freed, outcome>>,
           NEW x \in Clients, NEW u \in holds[x], holds' = [holds EXCEPT ![x] = @ \ {u}],
           \A m \in Members : member'[m].task = member[m].task,
           \A c \in Completions : /\ completion'[c].owner = completion[c].owner
                                  /\ completion'[c].state = completion[c].state,
           NEW n \in Nat, ~Frees(x, n, u),
           \A y, d, o : Frees(y, d, o)' <=> Frees(y, d, o) \/ (y = x /\ d = n /\ o = u)
    PROVE  Balanced' /\ holds' \in [Clients -> SUBSET Objects]
<1>0. x \in Threads
  BY GroupNames
<1>1. holds' \in [Clients -> SUBSET Objects]
  BY DEF GroupTyped
<1>2. ASSUME NEW o \in Objects
      PROVE  IsFiniteSet(Releasing(o))' /\ refs'[o] = Owners(o)' /\ refs'[o] = refs[o]
  <2>1. IsFiniteSet(Releasing(o)) /\ refs[o] = Owners(o) /\ Cardinality(Releasing(o)) \in Nat
    BY OwnerNumbers DEF Balanced
  <2>2. Cardinality(Handed(o))' = Cardinality(Handed(o)) - (IF o = u THEN 1 ELSE 0)
    BY HandedLoss
  <2>3. /\ IsFiniteSet(Releasing(o))'
        /\ Cardinality(Releasing(o))' = Cardinality(Releasing(o)) + (IF o = u THEN 1 ELSE 0)
    <3>1. CASE o = u
      <4>1. \A y, d : Frees(y, d, o)' <=> Frees(y, d, o) \/ (y = x /\ d = n)
        BY <3>1
      <4> QED
        BY <1>0, <2>1, <3>1, <4>1, ReleasingGain
    <3>2. CASE o # u
      <4>1. Releasing(o)' = Releasing(o)
        BY <3>2, ReleasingSame
      <4> QED
        BY <2>1, <3>2, <4>1
    <3> QED
      BY <3>1, <3>2
  <2>4. Joins(o)' = Joins(o)
    BY JoinsSame
  <2>5. Observing(o)' = Observing(o)
    BY ObservingSame
  <2>6. Kept(o)' = Kept(o)
    BY DEF Kept
  <2> DEFINE k == IF o = u THEN 1 ELSE 0
  <2>7. Owners(o)' = Owners(o) + ((0 - k) + k + 0 + 0 + 0)
    <3>1. Cardinality(Handed(o)) \in Nat /\ Cardinality(Joins(o)) \in Nat
          /\ Cardinality(Observing(o)) \in Nat /\ Kept(o) \in {0, 1}
      BY <2>1, OwnerNumbers
    <3>2. k \in Int /\ 0 - k \in Int /\ 0 \in Int
      OBVIOUS
    <3>3. /\ Cardinality(Handed(o))' = Cardinality(Handed(o)) + (0 - k)
          /\ Cardinality(Releasing(o))' = Cardinality(Releasing(o)) + k
          /\ Cardinality(Joins(o))' = Cardinality(Joins(o)) + 0
          /\ Cardinality(Observing(o))' = Cardinality(Observing(o)) + 0
          /\ Kept(o)' = Kept(o) + 0
      BY <2>2, <2>3, <2>4, <2>5, <2>6, <3>1
    <3> HIDE DEF k
    <3> QED
      BY <2>1, <3>2, <3>3, OwnersMoved
  <2>8. Owners(o) \in Nat
    BY <2>1, OwnerNumbers
  <2> QED
    BY <2>1, <2>3, <2>7, <2>8
<1> QED
  BY <1>1, <1>2, BalancedKept

\* A client gives up a handle, and its reference is dropped.
GivesUp(x, u) ==
    /\ First(x, "drop", u) /\ u \in holds[x] /\ holds' = [holds EXCEPT ![x] = @ \ {u}]
    /\ UNCHANGED <<cancelled, ended, outcome, completions, group, member, taskMembers>>
    /\ UNCHANGED <<completion, refs, freed, attached, expected>>

\* task_release, and completion_release of what is no longer armed.
LEMMA GiveUpStep ==
    ASSUME GroupConstantsOK, GroupInv, NEW x \in Clients, NEW t, GivesUp(x, t)
    PROVE  GroupInv'
<1>0. GroupTyped /\ Callbacks /\ Borrowing /\ Balanced /\ x \in Threads
  BY GroupNames DEF GroupInv
<1>1. /\ First(x, "drop", t) /\ t \in holds[x] /\ holds' = [holds EXCEPT ![x] = @ \ {t}]
      /\ UNCHANGED <<cancelled, ended, outcome, completions, group, member, taskMembers>>
      /\ UNCHANGED <<completion, refs, freed, attached, expected>>
  BY DEF GivesUp
<1>2. <<"drop", t>> \in GroupOps
  <2>1. t \in Objects
    BY <1>0, <1>1 DEF GroupTyped
  <2> QED
    BY <2>1, OpArgs
<1>40. Begun(x, "drop", t)
  BY <1>0, <1>1, <1>2, StackFirst
<1>4. /\ todo' \in [Threads -> Seq(GroupOps)]
      /\ \A d, k, a : ~At(x, d, k, a)
      /\ \A y, d, k, a : At(y, d, k, a)' <=>
           At(y, d, k, a) \/ (y = x /\ d = 0 /\ k = "drop" /\ a = t)
      /\ \A k : k # "drop" => \A y, d, a : At(y, d, k, a)' <=> At(y, d, k, a)
      /\ \A k, a : Awaits(k, a) => Awaits(k, a)'
  BY <1>40 DEF Begun
<1>5. Borrowing'
  <2>1. \A y \in Clients : y # x => holds'[y] = holds[y]
    BY <1>0, <1>1 DEF GroupTyped
  <2> QED
    BY <1>0, <1>40, <2>1 DEF Begun
<1>6. Balanced' /\ holds' \in [Clients -> SUBSET Objects]
  <2>1. ~Frees(x, 0, t)
    BY <1>4 DEF Frees
  <2>2. \A y, d, o : Frees(y, d, o)' <=> Frees(y, d, o) \/ (y = x /\ d = 0 /\ o = t)
    BY <1>4 DEF Frees
  <2> QED
    BY <1>0, <1>1, <2>1, <2>2, HandOver
<1>8. GroupTyped'
  BY <1>0, <1>1, <1>4, <1>6 DEF GroupTyped
<1>9. MemberList' /\ MemberOwners' /\ Endings' /\ Recording' /\ ArmedOnes' /\ Asking'
  BY <1>1, <1>4, GroupQuiet
<1>10. Callbacks'
  BY <1>0, <1>1, <1>4, CallbacksKept
<1> QED
  BY <1>5, <1>6, <1>8, <1>9, <1>10 DEF GroupInv

\* task_release.
LEMMA TaskReleaseStep ==
    ASSUME GroupConstantsOK, GroupInv, NEW x \in Clients, NEW t \in Tasks, TaskRelease(x, t)
    PROVE  GroupInv'
<1>1. GivesUp(x, t)
  BY DEF TaskRelease, Idle, Do, First, taskVars, groupVars,
         history, GivesUp
<1> QED
  BY <1>1, GiveUpStep

-----------------------------------------------------------------------------
(* Completions are armed *)

\* What a step that changes one completion changes.
LEMMA CompletionSet ==
    ASSUME completion \in [Completions -> CompletionRecord], NEW c \in Completions,
           NEW r \in CompletionRecord, completion' = [completion EXCEPT ![c] = r]
    PROVE  /\ completion' \in [Completions -> CompletionRecord]
           /\ completion'[c] = r
           /\ \A e \in Completions : e # c => completion'[e] = completion[e]
  OBVIOUS

\* A completion comes into being.
LEMMA BalancedBorn ==
    ASSUME GroupConstantsOK, GroupTyped, Balanced, freed' = freed, NEW u \in Completions,
           completion[u].state = "None", completion'[u].state # "None",
           \A c \in Completions : c # u => completion'[c].state = completion[c].state,
           refs'[u] \in Nat, refs'[u] >= 1,
           \A o \in Objects :
             /\ IsFiniteSet(Releasing(o))' /\ refs'[o] = Owners(o)'
             /\ o # u => refs'[o] = refs[o] \/ (refs[o] >= 1 /\ refs'[o] = refs[o] + 1)
    PROVE  Balanced'
<1>0. \A o \in Objects : refs[o] \in Nat
  BY DEF GroupTyped
<1>1. \A o \in Objects : o # u => (refs'[o] = 0 <=> refs[o] = 0)
  BY <1>0
<1>2. \A o \in Objects : o # u => (Created(o)' <=> Created(o))
  BY DEF Created
<1>3. u \notin freed /\ Created(u)' /\ u \in Objects /\ refs'[u] # 0
  BY GroupNames DEF Balanced, Created
<1>4. \A o \in Objects : o \in freed' <=> refs'[o] = 0 /\ Created(o)'
  BY <1>1, <1>2, <1>3 DEF Balanced
<1>5. \A o \in Objects : ~Created(o)' => refs'[o] = 0
  BY <1>1, <1>2, <1>3 DEF Balanced
<1>6. \A o \in Objects : IsFiniteSet(Releasing(o))' /\ refs'[o] = Owners(o)'
  OBVIOUS
<1> QED
  BY <1>4, <1>5, <1>6 DEF Balanced

\* Nobody knows a completion that is not created.
LEMMA Unborn ==
    ASSUME GroupConstantsOK, GroupInv, NEW c \in Completions, completion[c].state = "None"
    PROVE  /\ refs[c] = 0 /\ Owners(c) = 0 /\ c \notin freed /\ IsFiniteSet(Releasing(c))
           /\ \A x \in Clients : c \notin holds[x]
           /\ \A x, d : \A k \in {"wake", "release", "drop"} : ~At(x, d, k, c)
           /\ completion[c].owner = Nobody
           /\ completion[c].woke = 0 /\ completion[c].released = 0
           /\ \A o \in Lists : c \notin Elements(completions[o])
<1>0. GroupTyped /\ Balanced /\ ArmedOnes /\ Callbacks /\ c \in Objects
  BY GroupNames DEF GroupInv
<1>1. refs[c] = 0 /\ c \notin freed /\ refs[c] = Owners(c) /\ IsFiniteSet(Releasing(c))
  BY <1>0 DEF Balanced, Created
<1>2. Handed(c) = {} /\ Releasing(c) = {}
  BY <1>1, OwnerNumbers
<1>3. \A x \in Clients : c \notin holds[x]
  BY <1>2 DEF Handed
<1>4. ASSUME NEW x, NEW d, NEW k \in {"wake", "release", "drop"}, At(x, d, k, c) PROVE FALSE
  <2>1. Frees(x, d, c)
    BY <1>4 DEF Frees
  <2>2. x \in Threads /\ d \in Nat
    BY <1>0, <1>4, AtType
  <2>3. <<x, d>> \in Releasing(c)
    BY <2>1, <2>2 DEF Releasing
  <2> QED
    BY <1>2, <2>3
<1>5. completion[c].owner = Nobody
  BY <1>0 DEF ArmedOnes
<1>6. completion[c].woke = 0 /\ completion[c].released = 0
  BY <1>0, <1>5 DEF Callbacks
<1>7. \A o \in Lists : c \notin Elements(completions[o])
  BY <1>0 DEF ArmedOnes
<1> QED
  BY <1>1, <1>3, <1>4, <1>5, <1>6, <1>7

\* A client gains a handle to c, and perhaps a completion to observe o with.
LEMMA ArmCounts ==
    ASSUME GroupConstantsOK, GroupInv, NEW x \in Clients, NEW c \in Completions,
           completion[c].state = "None", NEW o \in Lists, NEW i \in {0, 1},
           o \in holds[x], holds' = [holds EXCEPT ![x] = @ \cup {c}],
           completion'[c].state = (IF i = 1 THEN "Armed" ELSE "Ready"),
           completion'[c].owner = (IF i = 1 THEN o ELSE Nobody),
           \A e \in Completions : e # c => completion'[e] = completion[e],
           refs' = (IF i = 1 THEN [refs EXCEPT ![c] = 2, ![o] = @ + 1] ELSE [refs EXCEPT ![c] = 1]),
           UNCHANGED <<member, freed, todo, outcome>>
    PROVE  Balanced' /\ refs' \in [Objects -> Nat]
<1>0. /\ GroupTyped /\ Balanced /\ c \in Objects /\ o \in Objects /\ o # c
      /\ o # Nobody
  BY GroupNames DEF GroupInv
<1>1. /\ refs[c] = 0 /\ Owners(c) = 0 /\ c \notin freed /\ c \notin holds[x]
      /\ completion[c].owner = Nobody
  BY Unborn
<1>2. refs \in [Objects -> Nat] /\ refs[o] >= 1 /\ refs[o] \in Nat
  <2>1. x \in Handed(o) /\ IsFiniteSet(Releasing(o)) /\ refs[o] = Owners(o)
    BY <1>0 DEF Handed, Balanced
  <2>2. Owners(o) # 0
    BY <2>1, OwnerNumbers
  <2> QED
    BY <1>0, <2>1, <2>2 DEF GroupTyped
<1>3. /\ refs' \in [Objects -> Nat] /\ refs'[c] = i + 1
      /\ refs'[o] = refs[o] + i
      /\ \A e \in Objects : e # c /\ e # o => refs'[e] = refs[e]
  <2>1. CASE i = 1
    BY <1>0, <1>2, <2>1
  <2>2. CASE i = 0
    BY <1>0, <1>2, <2>2
  <2> QED
    BY <2>1, <2>2
<1>4. ASSUME NEW e \in Objects
      PROVE  /\ IsFiniteSet(Releasing(e))'
             /\ Owners(e)' = Owners(e) + ((IF e = c THEN 1 ELSE 0) + 0 + 0
                                            + (IF e = o THEN i ELSE 0) + (IF e = c THEN i ELSE 0))
  <2>1. IsFiniteSet(Releasing(e)) /\ e # Nobody
    BY <1>0, GroupNames DEF Balanced
  <2>2. Releasing(e)' = Releasing(e)
    BY DEF Releasing, Frees, At
  <2>3. /\ Cardinality(Handed(e)) \in Nat /\ Cardinality(Releasing(e)) \in Nat
        /\ Cardinality(Joins(e)) \in Nat /\ Cardinality(Observing(e)) \in Nat /\ Kept(e) \in {0, 1}
    BY <2>1, OwnerNumbers
  <2>4. Cardinality(Handed(e))' = Cardinality(Handed(e)) + (IF e = c THEN 1 ELSE 0)
    BY <1>0, <1>1, HandedGain
  <2>5. Joins(e)' = Joins(e)
    BY JoinsSame
  <2>6. Cardinality(Observing(e))' = Cardinality(Observing(e)) + (IF e = o THEN i ELSE 0)
    <3>1. CASE i = 1
      <4>1. completion'[c].owner = o
        BY <3>1
      <4>2. Cardinality(Observing(e))' = Cardinality(Observing(e)) + (IF e = o THEN 1 ELSE 0)
        BY <1>0, <1>1, <2>1, <4>1, ObservingGain
      <4> QED
        BY <3>1, <4>2
    <3>2. CASE i = 0
      <4>1. \A a \in Completions : completion'[a].owner = completion[a].owner
        BY <1>1, <3>2
      <4>2. Observing(e)' = Observing(e)
        BY <4>1, ObservingSame
      <4> QED
        BY <2>3, <3>2, <4>2
    <3> QED
      BY <3>1, <3>2
  <2>7. Kept(e)' = Kept(e) + (IF e = c THEN i ELSE 0)
    <3>1. CASE e = c
      BY <3>1, GroupNames DEF Kept
    <3>2. CASE e # c
      <4>1. e \in Completions => completion'[e].state = completion[e].state
        BY <3>2
      <4>2. Kept(e)' = Kept(e)
        BY <4>1 DEF Kept
      <4> QED
        BY <2>3, <3>2, <4>2
    <3> QED
      BY <3>1, <3>2
  <2> DEFINE dh == IF e = c THEN 1 ELSE 0
             db == IF e = o THEN i ELSE 0
             dk == IF e = c THEN i ELSE 0
  <2>8. dh \in Int /\ db \in Int /\ dk \in Int /\ 0 \in Int
    OBVIOUS
  <2>9. /\ Cardinality(Handed(e))' = Cardinality(Handed(e)) + dh
        /\ Cardinality(Releasing(e))' = Cardinality(Releasing(e)) + 0
        /\ Cardinality(Joins(e))' = Cardinality(Joins(e)) + 0
        /\ Cardinality(Observing(e))' = Cardinality(Observing(e)) + db
        /\ Kept(e)' = Kept(e) + dk
    BY <2>2, <2>3, <2>4, <2>5, <2>6, <2>7
  <2>10. Owners(e)' = Owners(e) + (dh + 0 + 0 + db + dk)
    <3> HIDE DEF dh, db, dk
    <3> QED
      BY <2>1, <2>8, <2>9, OwnersMoved
  <2> QED
    BY <2>1, <2>2, <2>10
<1>5. ASSUME NEW e \in Objects
      PROVE  /\ IsFiniteSet(Releasing(e))' /\ refs'[e] = Owners(e)'
             /\ e # c => refs'[e] = refs[e] \/ (refs[e] >= 1 /\ refs'[e] = refs[e] + 1)
  <2>1. refs[e] = Owners(e) /\ refs[e] \in Nat
    BY <1>0 DEF Balanced, GroupTyped
  <2>2. CASE e = c
    BY <1>0, <1>1, <1>3, <1>4, <2>2
  <2>3. CASE e = o
    BY <1>0, <1>2, <1>3, <1>4, <2>1, <2>3
  <2>4. CASE e # c /\ e # o
    BY <1>3, <1>4, <2>1, <2>4
  <2> QED
    BY <2>2, <2>3, <2>4
<1>6. refs'[c] \in Nat /\ refs'[c] >= 1
  BY <1>3
<1>7. \A e \in Completions : e # c => completion'[e].state = completion[e].state
  OBVIOUS
<1>8. completion'[c].state # "None"
  OBVIOUS
<1> QED
  BY <1>0, <1>3, <1>5, <1>6, <1>7, <1>8, BalancedBorn

\* The lists after c has been put into that of o, or into none.
LEMMA ArmLists ==
    ASSUME GroupConstantsOK, GroupInv, NEW c \in Completions, completion[c].state = "None",
           NEW o \in Lists, NEW i \in {0, 1},
           completion'[c].state = (IF i = 1 THEN "Armed" ELSE "Ready"),
           completion'[c].owner = (IF i = 1 THEN o ELSE Nobody), completion'[c].of = o,
           \A e \in Completions : e # c => completion'[e] = completion[e],
           completions' = (IF i = 1 THEN [completions EXCEPT ![o] = <<c>> \o @] ELSE completions),
           UNCHANGED <<group, outcome>>,
           i = 1 => /\ o \in Tasks => outcome[o] = "None"
                    /\ o = "group" => group.closed /\ group.active # 0,
           i = 0 /\ o = "group" => group.closed /\ group.active = 0
    PROVE  ArmedOnes' /\ completions' \in [Lists -> Seq(Completions)]
<1>0. GroupTyped /\ ArmedOnes /\ o # Nobody
  BY GroupNames DEF GroupInv
<1>1. /\ \A l \in Lists : c \notin Elements(completions[l])
      /\ \A l \in Lists : completions[l] \in Seq(Completions)
      /\ completion[c].owner = Nobody
  BY <1>0, Unborn DEF GroupTyped
<1>2. \A l \in Lists : \A e \in Elements(completions[l]) : e \in Completions /\ e # c
  <2> SUFFICES ASSUME NEW l \in Lists, NEW e \in Elements(completions[l])
               PROVE  e \in Completions
    BY <1>1
  <2> QED
    BY <1>1, LenProperties DEF Elements
<1>3. /\ completions' \in [Lists -> Seq(Completions)]
      /\ \A l \in Lists : OneEach(completions'[l])
      /\ \A l \in Lists : \A e : e \in Elements(completions'[l]) <=>
           (i = 1 /\ l = o /\ e = c) \/ e \in Elements(completions[l])
  <2>1. CASE i = 1
    <3> DEFINE s == completions[o]
               z == <<c>> \o s
    <3>1. s \in Seq(Completions) /\ OneEach(s) /\ c \notin Elements(s)
      BY <1>0, <1>1 DEF ArmedOnes
    <3>2. completions' = [completions EXCEPT ![o] = z]
      BY <2>1
    <3> HIDE DEF s
    <3>3. z \in Seq(Completions) /\ OneEach(z)
          /\ \A v : v \in Elements(z) <=> v = c \/ v \in Elements(s)
      BY <3>1, ListCons
    <3> HIDE DEF z
    <3>4. completions \in [Lists -> Seq(Completions)]
      BY <1>0 DEF GroupTyped
    <3>5. completions' \in [Lists -> Seq(Completions)] /\ completions'[o] = z
          /\ \A l \in Lists : l # o => completions'[l] = completions[l]
      BY <3>2, <3>3, <3>4
    <3>6. \A l \in Lists : l # o => OneEach(completions'[l])
      BY <1>0, <3>5 DEF ArmedOnes
    <3> QED
      BY <2>1, <3>3, <3>5, <3>6 DEF s
  <2>2. CASE i = 0
    BY <1>0, <2>2 DEF ArmedOnes, GroupTyped
  <2> QED
    BY <2>1, <2>2
<1>4. \A l \in Lists : \A e \in Elements(completions'[l]) :
         completion'[e].state = "Armed" /\ completion'[e].owner = l
  <2> SUFFICES ASSUME NEW l \in Lists, NEW e \in Elements(completions'[l])
               PROVE  completion'[e].state = "Armed" /\ completion'[e].owner = l
    OBVIOUS
  <2>1. CASE e = c
    BY <1>1, <1>3, <2>1
  <2>2. CASE e # c
    <3>1. e \in Elements(completions[l])
      BY <1>3, <2>2
    <3>2. e \in Completions /\ completion'[e] = completion[e]
      BY <1>2, <2>2, <3>1
    <3> QED
      BY <1>0, <3>1, <3>2 DEF ArmedOnes
  <2> QED
    BY <2>1, <2>2
<1>5. ASSUME NEW e \in Completions, completion'[e].state = "Armed"
      PROVE  /\ completion'[e].owner \in Lists
             /\ e \in Elements(completions'[completion'[e].owner])
  <2>1. CASE e = c
    BY <1>3, <1>5, <2>1
  <2>2. CASE e # c
    <3> PICK l : l = completion[e].owner
      OBVIOUS
    <3>1. completion'[e].owner = l /\ completion[e].state = "Armed"
      BY <1>5, <2>2
    <3>2. l \in Lists /\ e \in Elements(completions[l])
      BY <1>0, <3>1 DEF ArmedOnes
    <3> QED
      BY <1>3, <3>1, <3>2
  <2> QED
    BY <2>1, <2>2
<1>6. ASSUME NEW e \in Completions
      PROVE  /\ completion'[e].owner # Nobody => completion'[e].of = completion'[e].owner
             /\ completion'[e].state = "None" => completion'[e].owner = Nobody
             /\ completion'[e].state = "Armed" /\ completion'[e].owner \in Tasks =>
                  outcome'[completion'[e].owner] = "None"
             /\ completion'[e].state = "Armed" /\ completion'[e].owner = "group" =>
                  group'.closed /\ group'.active # 0
             /\ completion'[e].state = "Ready" /\ completion'[e].of = "group" =>
                  group'.closed /\ group'.active = 0
  <2>1. CASE e = c
    <3>1. CASE i = 1
      BY <1>0, <2>1, <3>1
    <3>2. CASE i = 0
      BY <1>0, <2>1, <3>2
    <3> QED
      BY <3>1, <3>2
  <2>2. CASE e # c
    <3>1. completion'[e] = completion[e]
      BY <2>2
    <3> QED
      BY <1>0, <3>1 DEF ArmedOnes
  <2> QED
    BY <2>1, <2>2
<1>7. ArmedOnes'
  BY <1>3, <1>4, <1>5, <1>6 DEF ArmedOnes, OneEach, Elements
<1> QED
  BY <1>3, <1>7

\* completion_arm and task_group_completion_arm, once they have decided (i = 1: armed).
Arms(x, c, o, i) ==
    /\ completion[c].state = "None" /\ o \in holds[x] /\ i \in {0, 1}
    /\ IF i = 1 THEN Arm(c, o) ELSE ArmReady(c, o)
    /\ holds' = [holds EXCEPT ![x] = @ \cup {c}]
    /\ UNCHANGED <<cancelled, ended, outcome, group, member, taskMembers>>
    /\ UNCHANGED <<freed, todo, attached, expected>>
    /\ i = 1 => /\ o \in Tasks => outcome[o] = "None"
                /\ o = "group" => group.closed /\ group.active # 0
    /\ i = 0 /\ o = "group" => group.closed /\ group.active = 0

\* Either half of an arm.
LEMMA ArmStep ==
    ASSUME GroupConstantsOK, GroupInv, NEW x \in Clients, NEW c \in Completions,
           NEW o \in Lists, NEW i, Arms(x, c, o, i)
    PROVE  GroupInv'
<1> USE DEF Arms
<1>0. /\ GroupTyped /\ MemberList /\ MemberOwners /\ Endings /\ Recording /\ ArmedOnes
      /\ Callbacks /\ Asking /\ Borrowing /\ Balanced /\ o # Nobody
      /\ completion \in [Completions -> CompletionRecord]
  BY GroupNames DEF GroupInv, GroupTyped
<1>1. /\ completion[c].owner = Nobody /\ completion[c].woke = 0 /\ completion[c].released = 0
      /\ \A y, d : \A k \in {"wake", "release", "drop"} : ~At(y, d, k, c)
  BY Unborn
<1> DEFINE r == IF i = 1 THEN [completion[c] EXCEPT !.state = "Armed", !.owner = o, !.of = o]
                         ELSE [completion[c] EXCEPT !.state = "Ready", !.of = o]
<1>2. completion' = [completion EXCEPT ![c] = r]
  <2>1. CASE i = 1
    BY <2>1 DEF Arm
  <2>2. CASE i = 0
    <3>1. i # 1 /\ ArmReady(c, o)
      BY <2>2
    <3>2. completion' = [completion EXCEPT ![c].state = "Ready", ![c].of = o]
      BY <3>1 DEF ArmReady
    <3>3. r = [completion[c] EXCEPT !.state = "Ready", !.of = o]
      BY <3>1
    <3> HIDE DEF Arms, r
    <3> QED
      BY <3>2, <3>3
  <2> QED
    BY <2>1, <2>2
<1>3. /\ r \in CompletionRecord /\ r.of = o /\ r.woke = 0 /\ r.released = 0
      /\ r.state = (IF i = 1 THEN "Armed" ELSE "Ready")
      /\ r.owner = (IF i = 1 THEN o ELSE Nobody)
  <2>1. completion[c] \in CompletionRecord
    BY <1>0
  <2>2. CASE i = 1
    BY <1>1, <2>1, <2>2 DEF CompletionRecord
  <2>3. CASE i = 0
    BY <1>1, <2>1, <2>3 DEF CompletionRecord
  <2> QED
    BY <2>2, <2>3
<1> HIDE DEF r
<1>4. /\ completion' \in [Completions -> CompletionRecord] /\ completion'[c] = r
      /\ \A e \in Completions : e # c => completion'[e] = completion[e]
  BY <1>0, <1>2, <1>3, CompletionSet
<1>5. /\ completions' = IF i = 1 THEN [completions EXCEPT ![o] = <<c>> \o @] ELSE completions
      /\ refs' = IF i = 1 THEN [refs EXCEPT ![c] = 2, ![o] = @ + 1] ELSE [refs EXCEPT ![c] = 1]
  <2>1. CASE i = 1
    BY <2>1 DEF Arm
  <2>2. CASE i = 0
    <3>1. i # 1 /\ ArmReady(c, o)
      BY <2>2
    <3>2. completions' = completions /\ refs' = [refs EXCEPT ![c] = 1]
      BY <3>1 DEF ArmReady
    <3> QED
      BY <3>1, <3>2
  <2> QED
    BY <2>1, <2>2
<1>6. Balanced' /\ refs' \in [Objects -> Nat]
  <2>1. completion'[c].state = (IF i = 1 THEN "Armed" ELSE "Ready")
        /\ completion'[c].owner = (IF i = 1 THEN o ELSE Nobody)
    BY <1>3, <1>4
  <2> QED
    BY <1>4, <1>5, <2>1, ArmCounts
<1>7. ArmedOnes' /\ completions' \in [Lists -> Seq(Completions)]
  <2>1. completion'[c].state = (IF i = 1 THEN "Armed" ELSE "Ready")
        /\ completion'[c].owner = (IF i = 1 THEN o ELSE Nobody) /\ completion'[c].of = o
    BY <1>3, <1>4
  <2> QED
    BY <1>4, <1>5, <2>1, ArmLists
<1>8. \A y, d, k, a : At(y, d, k, a)' <=> At(y, d, k, a)
  BY DEF At
<1>9. holds' \in [Clients -> SUBSET Objects]
      /\ \A y \in Clients : holds[y] \subseteq holds'[y]
  BY <1>0, GroupNames DEF GroupTyped
<1>10. GroupTyped'
  BY <1>0, <1>4, <1>6, <1>7, <1>9 DEF GroupTyped
<1>11. MemberList' /\ Recording'
  BY <1>0, MemberListKept, RecordingKept
<1>12. MemberOwners'
  BY <1>0, <1>8, MemberOwnersKept
<1>13. Endings'
  BY <1>0, <1>8, EndingsKept
<1>14. Asking'
  <2>1. \A k, a : Awaits(k, a) => Awaits(k, a)'
    BY <1>8 DEF Awaits
  <2> QED
    BY <1>0, <2>1, AskingKept
<1>15. Borrowing'
  BY <1>0, <1>9, BorrowingKept
<1>16. Callbacks'
  <2>0. \A y, d, e : At(y, d, "wake", e) \/ At(y, d, "release", e) =>
          e \in Completions /\ e # c /\ completion'[e] = completion[e]
    <3> SUFFICES ASSUME NEW y, NEW d, NEW e, NEW k \in {"wake", "release"}, At(y, d, k, e)
                 PROVE  e \in Completions /\ e # c
      BY <1>4
    <3>1. <<k, e>> \in GroupOps
      BY <1>0, AtType
    <3> QED
      BY <1>1, <3>1, OpArgs
  <2>1. \A y, z, d, e, a : CallsBack(y, d, a)' /\ CallsBack(z, e, a)' => y = z /\ d = e
    <3> HIDE DEF Arms
    <3>1. \A y, d, a : CallsBack(y, d, a)' <=> CallsBack(y, d, a)
      BY <1>8 DEF CallsBack
    <3>2. \A y, z, d, e, a : CallsBack(y, d, a) /\ CallsBack(z, e, a) => y = z /\ d = e
      BY <1>0 DEF Callbacks
    <3> QED
      BY <3>1, <3>2
  <2>2. \A y, d, e : At(y, d, "wake", e)' =>
         /\ completion'[e].state = "Ready" /\ completion'[e].owner # Nobody
         /\ completion'[e].woke = 0 /\ completion'[e].released = 0
    BY <1>0, <1>8, <2>0 DEF Callbacks
  <2>3. \A y, d, e : At(y, d, "release", e)' =>
         /\ completion'[e].owner # Nobody /\ completion'[e].released = 0
         /\ \/ completion'[e].state = "Ready" /\ completion'[e].woke = 1
            \/ completion'[e].state = "Detached" /\ completion'[e].woke = 0
    BY <1>0, <1>8, <2>0 DEF Callbacks
  <2>4. ASSUME NEW e \in Completions
        PROVE  /\ completion'[e].owner = Nobody \/ completion'[e].state = "Armed" =>
                    completion'[e].woke = 0 /\ completion'[e].released = 0
               /\ completion'[e].owner # Nobody /\ completion'[e].state \in {"Ready", "Detached"} =>
                    \/ Awaits("wake", e)' \/ Awaits("release", e)'
                    \/ /\ completion'[e].released = 1
                       /\ completion'[e].woke = IF completion'[e].state = "Ready" THEN 1 ELSE 0
    <3>1. CASE e = c
      BY <1>3, <1>4, <3>1
    <3>2. CASE e # c
      <4>1. completion'[e] = completion[e]
        BY <1>4, <3>2
      <4>2. Awaits("wake", e) => Awaits("wake", e)'
        BY <1>8 DEF Awaits
      <4>3. Awaits("release", e) => Awaits("release", e)'
        BY <1>8 DEF Awaits
      <4> QED
        BY <1>0, <4>1, <4>2, <4>3 DEF Callbacks
    <3> QED
      BY <3>1, <3>2
  <2> QED
    BY <2>1, <2>2, <2>3, <2>4 DEF Callbacks
<1> QED
  BY <1>6, <1>7, <1>10, <1>11, <1>12, <1>13, <1>14, <1>15, <1>16 DEF GroupInv

\* completion_arm on a task.
LEMMA CompletionArmStep ==
    ASSUME GroupConstantsOK, GroupInv, NEW x \in Clients, NEW c \in Completions, NEW t \in Tasks,
           CompletionArm(x, c, t)
    PROVE  GroupInv'
<1>0. t \in Lists /\ t # "group"
  BY GroupNames
<1>1. /\ completion[c].state = "None" /\ t \in holds[x]
      /\ IF Published(t) THEN ArmReady(c, t) ELSE Arm(c, t)
      /\ holds' = [holds EXCEPT ![x] = @ \cup {c}]
      /\ UNCHANGED <<cancelled, ended, outcome, group, member, taskMembers>>
      /\ UNCHANGED <<freed, todo, attached, expected>>
  BY DEF CompletionArm, taskVars, groupVars, history
<1>2. CASE Published(t)
  <2>1. Arms(x, c, t, 0)
    BY <1>0, <1>1, <1>2 DEF Arms
  <2> QED
    BY <1>0, <2>1, ArmStep
<1>3. CASE ~Published(t)
  <2>1. Arms(x, c, t, 1)
    BY <1>0, <1>1, <1>3 DEF Arms, Published
  <2> QED
    BY <1>0, <2>1, ArmStep
<1> QED
  BY <1>2, <1>3

\* task_group_completion_arm.
LEMMA GroupCompletionArmStep ==
    ASSUME GroupConstantsOK, GroupInv, NEW x \in Clients, NEW c \in Completions,
           GroupCompletionArm(x, c)
    PROVE  GroupInv'
<1>0. "group" \in Lists /\ "group" \notin Tasks
  BY GroupNames
<1>1. /\ completion[c].state = "None" /\ "group" \in holds[x] /\ group.closed
      /\ IF Drained THEN ArmReady(c, "group") ELSE Arm(c, "group")
      /\ holds' = [holds EXCEPT ![x] = @ \cup {c}]
      /\ UNCHANGED <<cancelled, ended, outcome, group, member, taskMembers>>
      /\ UNCHANGED <<freed, todo, attached, expected>>
  BY DEF GroupCompletionArm, taskVars, groupVars, history
<1>2. CASE Drained
  <2>1. Arms(x, c, "group", 0)
    BY <1>0, <1>1, <1>2 DEF Arms, Drained
  <2> QED
    BY <1>0, <2>1, ArmStep
<1>3. CASE ~Drained
  <2>1. Arms(x, c, "group", 1)
    BY <1>0, <1>1, <1>3 DEF Arms, Drained
  <2> QED
    BY <1>0, <2>1, ArmStep
<1> QED
  BY <1>2, <1>3

-----------------------------------------------------------------------------
(* The group is closed, a completion is detached *)

\* Two operations, one after the other.
LEMMA JoinTwo == ASSUME NEW q, NEW v PROVE <<q>> \o <<v>> = <<q, v>>
<1> DEFINE s == <<q>> \o <<v>>
           r == <<q, v>>
<1>1. <<q>> \in Seq({q, v}) /\ <<v>> \in Seq({q, v}) /\ r \in Seq({q, v})
  OBVIOUS
<1>2. Len(<<q>>) = 1 /\ Len(<<v>>) = 1 /\ Len(r) = 2 /\ r[1] = q /\ r[2] = v
      /\ <<q>>[1] = q /\ <<v>>[1] = v
  OBVIOUS
<1>3. /\ s \in Seq({q, v}) /\ Len(s) = 1 + 1
      /\ \A i \in 1..(1 + 1) : s[i] = IF i <= 1 THEN <<q>>[i] ELSE <<v>>[i - 1]
  BY <1>1, <1>2, ConcatProperties
<1> HIDE DEF s, r
<1>4. s[1] = q /\ s[2] = v
  BY <1>2, <1>3
<1>5. Len(s) = Len(r) /\ \A i \in 1..Len(s) : s[i] = r[i]
  BY <1>2, <1>3, <1>4
<1> QED
  BY <1>1, <1>3, <1>5, SeqEqual DEF s, r

\* What task_group_close goes on to do, as operations at levels.
ClosePlan(p, cancel, release) ==
    /\ p \in Seq(GroupOps)
    /\ \A d, k, a : Has(p, d, k, a) => k \in {"requestCancel", "drop"} /\ a = "group"
    /\ \A d, a : Has(p, d, "drop", a) <=> release /\ d = 0 /\ a = "group"
    /\ release => \A d, a : Has(p, d, "requestCancel", a) => d = 1

\* These are the sequences task_group_close and task_group_release leave.
LEMMA ClosePlans ==
    ASSUME GroupConstantsOK, NEW cancel \in BOOLEAN, NEW release \in BOOLEAN, release => cancel
    PROVE  ClosePlan((IF cancel THEN << <<"requestCancel", "group">> >> ELSE <<>>)
                       \o (IF release THEN << <<"drop", "group">> >> ELSE <<>>), cancel, release)
<1> DEFINE q == <<"requestCancel", "group">>
           v == <<"drop", "group">>
           p == (IF cancel THEN <<q>> ELSE <<>>) \o (IF release THEN <<v>> ELSE <<>>)
<1>1. q \in GroupOps /\ v \in GroupOps
  BY OpArgs, GroupNames
<1>2. CASE ~cancel
  <2>1. p = <<>>
    BY <1>2
  <2> QED
    BY <1>2, <2>1, HasNone DEF ClosePlan
<1>3. CASE cancel /\ ~release
  <2>1. p = <<q>>
    BY <1>3
  <2> DEFINE s == << <<"requestCancel", "group">> >>
  <2>2. \A d, k, a : Has(s, d, k, a) <=> d = 0 /\ k = "requestCancel" /\ a = "group"
    BY HasOne
  <2>3. p \in Seq(GroupOps) /\ p = s
    BY <1>1, <2>1
  <2> HIDE DEF p, s
  <2>4. ClosePlan(p, cancel, release)
    BY <1>3, <2>2, <2>3 DEF ClosePlan
  <2> QED
    BY <2>4 DEF p
<1>4. CASE cancel /\ release
  <2>0. p = <<q>> \o <<v>>
    BY <1>4
  <2>1. <<q>> \o <<v>> = <<q, v>>
    BY JoinTwo
  <2> DEFINE s == << <<"requestCancel", "group">>, <<"drop", "group">> >>
  <2>2. \A d, k, a : Has(s, d, k, a) <=> \/ d = 0 /\ k = "drop" /\ a = "group"
                                         \/ d = 1 /\ k = "requestCancel" /\ a = "group"
    BY HasTwo
  <2>3. p \in Seq(GroupOps) /\ p = s
    BY <1>1, <2>0, <2>1
  <2> HIDE DEF p, s
  <2>4. ClosePlan(p, cancel, release)
    BY <1>4, <2>2, <2>3 DEF ClosePlan
  <2> QED
    BY <2>4 DEF p
<1> QED
  BY <1>2, <1>3, <1>4

\* task_group_close and task_group_release.
LEMMA GroupCloseStep ==
    ASSUME GroupConstantsOK, GroupInv, NEW x \in Clients, NEW cancel \in BOOLEAN,
           NEW release \in BOOLEAN, GroupClose(x, cancel, release)
    PROVE  GroupInv'
<1>0. GroupTyped /\ Callbacks /\ Borrowing /\ Balanced /\ x \in Threads
  BY GroupNames DEF GroupInv
<1> PICK p : p = (IF cancel THEN << <<"requestCancel", "group">> >> ELSE <<>>)
                   \o (IF release THEN << <<"drop", "group">> >> ELSE <<>>)
  OBVIOUS
<1>1. /\ todo[x] = <<>> /\ "group" \in holds[x] /\ (release => cancel)
      /\ group' = [group EXCEPT !.closed = TRUE]
      /\ holds' = IF release THEN [holds EXCEPT ![x] = @ \ {"group"}] ELSE holds
      /\ todo' = [todo EXCEPT ![x] = p]
      /\ UNCHANGED <<cancelled, ended, outcome, completions, member, taskMembers>>
      /\ UNCHANGED <<completion, refs, freed, attached, expected>>
  BY DEF GroupClose, Idle, Do, taskVars, history
<1>2. ClosePlan(p, cancel, release)
  BY <1>1, ClosePlans
<1>3. todo' \in [Threads -> Seq(GroupOps)] /\ Starts(x, p)
  BY <1>0, <1>1, <1>2, StackStart DEF ClosePlan
<1>4. /\ \A k : k # "drop" /\ k # "requestCancel" => \A y, d, a : At(y, d, k, a)' <=> At(y, d, k, a)
      /\ \A y, d, a : At(y, d, "drop", a)' <=>
           At(y, d, "drop", a) \/ (release /\ y = x /\ d = 0 /\ a = "group")
      /\ \A k, a : Awaits(k, a) => Awaits(k, a)'
  BY <1>2, <1>3 DEF ClosePlan, Starts, Awaits
<1>5. /\ \A y \in Clients : y # x => holds'[y] = holds[y]
      /\ ~release => holds' = holds
  BY <1>0, <1>1 DEF GroupTyped
<1>6. Borrowing'
  <2>1. ASSUME NEW d, NEW a, NEW k \in {"cancel", "requestCancel", "cancelNext"}, Has(p, d, k, a)
        PROVE  \/ x \in Clients /\ a \in holds'[x]
               \/ \E e \in Nat : e < d /\ Has(p, e, "drop", a)
    <3>1. k = "requestCancel" /\ a = "group"
      BY <1>2, <2>1 DEF ClosePlan
    <3>2. CASE release
      <4>1. d = 1 /\ Has(p, 0, "drop", a)
        BY <1>2, <2>1, <3>1, <3>2 DEF ClosePlan
      <4> QED
        BY <4>1
    <3>3. CASE ~release
      BY <1>1, <1>5, <3>1, <3>3
    <3> QED
      BY <3>2, <3>3
  <2> QED
    BY <1>0, <1>3, <1>5, <2>1, BorrowingStart
<1>7. Balanced' /\ holds' \in [Clients -> SUBSET Objects]
  <2>1. CASE release
    <3>1. ~Frees(x, 0, "group")
      BY <1>3 DEF Frees, Starts
    <3>2. \A y, d, o : Frees(y, d, o)' <=> Frees(y, d, o) \/ (y = x /\ d = 0 /\ o = "group")
      BY <1>4, <2>1 DEF Frees
    <3>3. holds' = [holds EXCEPT ![x] = @ \ {"group"}]
      BY <1>1, <2>1
    <3> QED
      BY <1>0, <1>1, <3>1, <3>2, <3>3, HandOver
  <2>2. CASE ~release
    <3>1. \A y, d, o : Frees(y, d, o)' <=> Frees(y, d, o)
      BY <1>4, <2>2 DEF Frees
    <3> QED
      BY <1>0, <1>1, <1>5, <2>2, <3>1, BalancedSame DEF GroupTyped
  <2> QED
    BY <2>1, <2>2
<1>8. /\ group' \in GroupRecord
      /\ group'.members = group.members /\ group'.active = group.active
      /\ group'.closed /\ group'.cancelRequested = group.cancelRequested
      /\ group'.implicitCancelled = group.implicitCancelled
      /\ group'.implicitFailed = group.implicitFailed
  BY <1>0, <1>1 DEF GroupTyped, GroupRecord
<1>9. GroupTyped'
  BY <1>0, <1>1, <1>3, <1>7, <1>8 DEF GroupTyped
<1>10. MemberList' /\ MemberOwners' /\ Endings' /\ Recording' /\ ArmedOnes' /\ Asking'
  BY <1>1, <1>4, <1>8, GroupQuiet
<1>11. Callbacks'
  BY <1>0, <1>1, <1>4, CallbacksKept
<1> QED
  BY <1>6, <1>7, <1>9, <1>10, <1>11 DEF GroupInv

\* A step that changes nothing.
LEMMA GroupStutters ==
    ASSUME GroupConstantsOK, GroupInv, UNCHANGED <<cancelled, ended, outcome, completions, group>>,
           UNCHANGED <<member, taskMembers, completion, refs, freed, holds, todo>>,
           UNCHANGED <<attached, expected>>
    PROVE  GroupInv'
<1>0. GroupTyped /\ Callbacks /\ Borrowing /\ Balanced
  BY DEF GroupInv
<1>1. \A y, d, k, a : At(y, d, k, a)' <=> At(y, d, k, a)
  BY DEF At
<1>2. GroupTyped'
  BY <1>0 DEF GroupTyped
<1>3. \A k, a : Awaits(k, a) => Awaits(k, a)'
  BY <1>1 DEF Awaits
<1>4. MemberList' /\ MemberOwners' /\ Endings' /\ Recording' /\ ArmedOnes' /\ Asking'
  BY <1>1, <1>3, GroupQuiet
<1>5. Callbacks'
  BY <1>0, <1>1, CallbacksKept
<1>6. Borrowing'
  BY <1>0, BorrowingKept
<1>7. Balanced'
  <2>1. \A y, d, o : Frees(y, d, o)' <=> Frees(y, d, o)
    BY <1>1 DEF Frees
  <2> QED
    BY <1>0, <2>1, BalancedSame
<1> QED
  BY <1>2, <1>4, <1>5, <1>6, <1>7 DEF GroupInv

\* Two more pending calls of a thread end in a release of o.
LEMMA ReleasingTwo ==
    ASSUME NEW o, IsFiniteSet(Releasing(o)), NEW x \in Threads,
           ~Frees(x, 0, o), ~Frees(x, 1, o),
           \A y, d : Frees(y, d, o)' <=> Frees(y, d, o) \/ (y = x /\ (d = 0 \/ d = 1))
    PROVE  /\ IsFiniteSet(Releasing(o))'
           /\ Cardinality(Releasing(o))' = Cardinality(Releasing(o)) + 2
<1> DEFINE u == <<x, 0>>
           v == <<x, 1>>
           R == Releasing(o) \cup {u}
<1>1. /\ u \in Threads \X Nat /\ u \notin Releasing(o)
      /\ v \in Threads \X Nat /\ v \notin Releasing(o) /\ u # v
  BY DEF Releasing
<1>2. ASSUME NEW q \in Threads \X Nat
      PROVE  Frees(q[1], q[2], o)' <=> Frees(q[1], q[2], o) \/ q = u \/ q = v
  <2>1. (q = u <=> q[1] = x /\ q[2] = 0) /\ (q = v <=> q[1] = x /\ q[2] = 1)
    OBVIOUS
  <2> QED
    BY <2>1
<1> HIDE DEF u, v
<1>3. Releasing(o)' = R \cup {v} /\ v \notin R
  BY <1>1, <1>2 DEF Releasing
<1>4. IsFiniteSet(R) /\ Cardinality(R) = Cardinality(Releasing(o)) + 1
  BY <1>1, FS_AddElement
<1> HIDE DEF R
<1>5. IsFiniteSet(R \cup {v}) /\ Cardinality(R \cup {v}) = Cardinality(R) + 1
  BY <1>3, <1>4, FS_AddElement
<1>6. Cardinality(Releasing(o)) \in Nat
  BY FS_CardinalityType
<1> QED
  BY <1>3, <1>4, <1>5, <1>6

\* The list's reference to a completion becomes that of its pending release; with j = 1 the
\* handle becomes a pending drop as well.
LEMMA DetachCounts ==
    ASSUME GroupConstantsOK, GroupTyped, Balanced, UNCHANGED <<refs, freed, outcome, member>>,
           NEW x \in Clients, NEW c \in Completions, c \in holds[x], NEW j \in {0, 1},
           holds' = (IF j = 1 THEN [holds EXCEPT ![x] = @ \ {c}] ELSE holds),
           completion[c].state = "Armed", completion'[c].state = "Detached",
           \A e \in Completions : completion'[e].owner = completion[e].owner,
           \A e \in Completions : e # c => completion'[e].state = completion[e].state,
           \A d : ~Frees(x, d, c),
           \A y, d, o : Frees(y, d, o)' <=>
             Frees(y, d, o) \/ (y = x /\ o = c /\ (d = 0 \/ (j = 1 /\ d = 1)))
    PROVE  Balanced' /\ holds' \in [Clients -> SUBSET Objects]
<1>0. x \in Threads /\ c \in Objects
  BY GroupNames
<1>1. holds' \in [Clients -> SUBSET Objects]
  BY DEF GroupTyped
<1>2. ASSUME NEW o \in Objects
      PROVE  IsFiniteSet(Releasing(o))' /\ refs'[o] = Owners(o)' /\ refs'[o] = refs[o]
  <2>1. /\ IsFiniteSet(Releasing(o)) /\ refs[o] = Owners(o) /\ Cardinality(Releasing(o)) \in Nat
        /\ Cardinality(Handed(o)) \in Nat /\ Cardinality(Joins(o)) \in Nat
        /\ Cardinality(Observing(o)) \in Nat /\ Kept(o) \in {0, 1}
    BY OwnerNumbers DEF Balanced
  <2> DEFINE h == IF o = c THEN j ELSE 0
             k == IF o = c THEN 1 ELSE 0
  <2>2. Cardinality(Handed(o))' = Cardinality(Handed(o)) - h
    <3>1. CASE j = 1
      <4>1. holds' = [holds EXCEPT ![x] = @ \ {c}]
        BY <3>1
      <4>2. Cardinality(Handed(o))' = Cardinality(Handed(o)) - (IF o = c THEN 1 ELSE 0)
        BY <4>1, HandedLoss
      <4> QED
        BY <3>1, <4>2
    <3>2. CASE j = 0
      <4>1. Handed(o)' = Handed(o)
        BY <3>2 DEF Handed
      <4> QED
        BY <2>1, <3>2, <4>1
    <3> QED
      BY <3>1, <3>2
  <2>3. IsFiniteSet(Releasing(o))' /\ Cardinality(Releasing(o))' = Cardinality(Releasing(o)) + (h + k)
    <3>1. CASE o = c /\ j = 0
      <4>1. \A y, d : Frees(y, d, o)' <=> Frees(y, d, o) \/ (y = x /\ d = 0)
        BY <3>1
      <4>2. /\ IsFiniteSet(Releasing(o))'
            /\ Cardinality(Releasing(o))' = Cardinality(Releasing(o)) + 1
        BY <1>0, <2>1, <3>1, <4>1, ReleasingGain
      <4> QED
        BY <3>1, <4>2
    <3>2. CASE o = c /\ j = 1
      <4>1. \A y, d : Frees(y, d, o)' <=> Frees(y, d, o) \/ (y = x /\ (d = 0 \/ d = 1))
        BY <3>2
      <4>2. /\ IsFiniteSet(Releasing(o))'
            /\ Cardinality(Releasing(o))' = Cardinality(Releasing(o)) + 2
        BY <1>0, <2>1, <3>2, <4>1, ReleasingTwo
      <4> QED
        BY <3>2, <4>2
    <3>3. CASE o # c
      <4>1. Releasing(o)' = Releasing(o)
        BY <3>3, ReleasingSame
      <4> QED
        BY <2>1, <3>3, <4>1
    <3> QED
      BY <3>1, <3>2, <3>3
  <2>4. Joins(o)' = Joins(o)
    BY JoinsSame
  <2>5. Observing(o)' = Observing(o)
    BY ObservingSame
  <2>6. Kept(o)' = Kept(o) - k
    <3>1. CASE o = c
      BY <3>1, GroupNames DEF Kept
    <3>2. CASE o # c
      <4>1. Kept(o)' = Kept(o)
        BY <3>2 DEF Kept
      <4> QED
        BY <2>1, <3>2, <4>1
    <3> QED
      BY <3>1, <3>2
  <2>7. h \in Int /\ k \in Int /\ 0 - h \in Int /\ 0 - k \in Int /\ h + k \in Int /\ 0 \in Int
    OBVIOUS
  <2>8. /\ Cardinality(Handed(o))' = Cardinality(Handed(o)) + (0 - h)
        /\ Cardinality(Releasing(o))' = Cardinality(Releasing(o)) + (h + k)
        /\ Cardinality(Joins(o))' = Cardinality(Joins(o)) + 0
        /\ Cardinality(Observing(o))' = Cardinality(Observing(o)) + 0
        /\ Kept(o)' = Kept(o) + (0 - k)
    <3> HIDE DEF h, k
    <3> QED
      BY <2>1, <2>2, <2>3, <2>4, <2>5, <2>6, <2>7
  <2> HIDE DEF h, k
  <2>9. Owners(o)' = Owners(o) + ((0 - h) + (h + k) + 0 + 0 + (0 - k))
    BY <2>1, <2>7, <2>8, OwnersMoved
  <2>10. Owners(o) \in Nat
    BY <2>1, OwnerNumbers
  <2> QED
    BY <2>1, <2>3, <2>7, <2>9, <2>10
<1>3. \A e \in Completions : completion'[e].state = "None" <=> completion[e].state = "None"
  OBVIOUS
<1> QED
  BY <1>1, <1>2, <1>3, BalancedKept

\* The lists after c has left that of o.
LEMMA DetachLists ==
    ASSUME GroupConstantsOK, GroupInv, NEW c \in Completions, completion[c].state = "Armed",
           NEW o, o = completion[c].owner,
           completion'[c].state = "Detached", completion'[c].owner = o,
           completion'[c].of = completion[c].of,
           \A e \in Completions : e # c => completion'[e] = completion[e],
           completions' = [completions EXCEPT ![o] = Without(@, c)],
           UNCHANGED <<outcome, group>>
    PROVE  ArmedOnes' /\ completions' \in [Lists -> Seq(Completions)]
<1>0. GroupTyped /\ ArmedOnes
  BY DEF GroupInv
<1>1. /\ o \in Lists /\ c \in Elements(completions[o])
      /\ \A l \in Lists : completions[l] \in Seq(Completions) /\ OneEach(completions[l])
      /\ \A l \in Lists : l # o => c \notin Elements(completions[l])
  BY <1>0 DEF GroupTyped, ArmedOnes
<1>2. \A l \in Lists : \A e \in Elements(completions[l]) : e \in Completions
  <2> SUFFICES ASSUME NEW l \in Lists, NEW e \in Elements(completions[l])
               PROVE  e \in Completions
    OBVIOUS
  <2> QED
    BY <1>1, LenProperties DEF Elements
<1>3. /\ completions' \in [Lists -> Seq(Completions)]
      /\ \A l \in Lists : OneEach(completions'[l])
      /\ \A l \in Lists : \A e : e \in Elements(completions'[l]) <=>
           e # c /\ e \in Elements(completions[l])
  <2> DEFINE s == completions[o]
             z == Without(s, c)
  <2>1. s \in Seq(Completions) /\ OneEach(s) /\ c \in Elements(s)
    BY <1>1
  <2>2. completions' = [completions EXCEPT ![o] = z]
    OBVIOUS
  <2> HIDE DEF s
  <2>3. z \in Seq(Completions) /\ OneEach(z)
        /\ \A v : v \in Elements(z) <=> v # c /\ v \in Elements(s)
    BY <2>1, ListWithout
  <2> HIDE DEF z
  <2>4. completions \in [Lists -> Seq(Completions)]
    BY <1>0 DEF GroupTyped
  <2>5. completions' \in [Lists -> Seq(Completions)] /\ completions'[o] = z
        /\ \A l \in Lists : l # o => completions'[l] = completions[l]
    BY <1>1, <2>2, <2>3, <2>4
  <2>6. \A l \in Lists : OneEach(completions'[l])
    BY <1>1, <2>3, <2>5
  <2> QED
    BY <1>1, <2>3, <2>5, <2>6 DEF s
<1>4. \A l \in Lists : \A e \in Elements(completions'[l]) :
         completion'[e].state = "Armed" /\ completion'[e].owner = l
  <2> SUFFICES ASSUME NEW l \in Lists, NEW e \in Elements(completions'[l])
               PROVE  completion'[e].state = "Armed" /\ completion'[e].owner = l
    OBVIOUS
  <2>1. e # c /\ e \in Elements(completions[l])
    BY <1>3
  <2>2. e \in Completions /\ completion'[e] = completion[e]
    BY <1>2, <2>1
  <2> QED
    BY <1>0, <2>1, <2>2 DEF ArmedOnes
<1>5. ASSUME NEW e \in Completions, completion'[e].state = "Armed"
      PROVE  /\ completion'[e].owner \in Lists
             /\ e \in Elements(completions'[completion'[e].owner])
  <2> PICK l : l = completion[e].owner
    OBVIOUS
  <2>1. e # c
    BY <1>5
  <2>2. completion'[e].owner = l /\ completion[e].state = "Armed"
    BY <1>5, <2>1
  <2>3. l \in Lists /\ e \in Elements(completions[l])
    BY <1>0, <2>2 DEF ArmedOnes
  <2> QED
    BY <1>3, <2>1, <2>2, <2>3
<1>6. ASSUME NEW e \in Completions
      PROVE  /\ completion'[e].owner # Nobody => completion'[e].of = completion'[e].owner
             /\ completion'[e].state = "None" => completion'[e].owner = Nobody
             /\ completion'[e].state = "Armed" /\ completion'[e].owner \in Tasks =>
                  outcome'[completion'[e].owner] = "None"
             /\ completion'[e].state = "Armed" /\ completion'[e].owner = "group" =>
                  group'.closed /\ group'.active # 0
             /\ completion'[e].state = "Ready" /\ completion'[e].of = "group" =>
                  group'.closed /\ group'.active = 0
  <2>1. CASE e = c
    BY <1>0, <2>1 DEF ArmedOnes
  <2>2. CASE e # c
    <3>1. completion'[e] = completion[e]
      BY <2>2
    <3> QED
      BY <1>0, <3>1 DEF ArmedOnes
  <2> QED
    BY <2>1, <2>2
<1>7. ArmedOnes'
  BY <1>3, <1>4, <1>5, <1>6 DEF ArmedOnes, OneEach, Elements
<1> QED
  BY <1>3, <1>7

\* What completion_detach goes on to do with an armed completion, as operations at levels.
DetachPlan(p, c, j) ==
    /\ p \in Seq(GroupOps)
    /\ \A d, k, a : Has(p, d, k, a) <=>
         a = c /\ ((k = "release" /\ d = j) \/ (j = 1 /\ k = "drop" /\ d = 0))

\* These are the sequences completion_detach and completion_release leave.
LEMMA DetachPlans ==
    ASSUME GroupConstantsOK, NEW c \in Completions, NEW release \in BOOLEAN
    PROVE  DetachPlan(<< <<"release", c>> >> \o (IF release THEN << <<"drop", c>> >> ELSE <<>>), c,
                      IF release THEN 1 ELSE 0)
<1> DEFINE q == <<"release", c>>
           v == <<"drop", c>>
           p == <<q>> \o (IF release THEN <<v>> ELSE <<>>)
<1>1. q \in GroupOps /\ v \in GroupOps
  BY OpArgs, GroupNames
<1>2. CASE ~release
  <2>1. p = <<q>>
    BY <1>2
  <2> DEFINE s == << <<"release", c>> >>
  <2>2. \A d, k, a : Has(s, d, k, a) <=> d = 0 /\ k = "release" /\ a = c
    BY HasOne
  <2>3. p \in Seq(GroupOps) /\ p = s
    BY <1>1, <2>1
  <2> HIDE DEF p, s
  <2>4. DetachPlan(p, c, 0)
    BY <2>2, <2>3 DEF DetachPlan
  <2> QED
    BY <1>2, <2>4 DEF p
<1>3. CASE release
  <2>0. p = <<q>> \o <<v>>
    BY <1>3
  <2>1. <<q>> \o <<v>> = <<q, v>>
    BY JoinTwo
  <2> DEFINE s == << <<"release", c>>, <<"drop", c>> >>
  <2>2. \A d, k, a : Has(s, d, k, a) <=> \/ d = 0 /\ k = "drop" /\ a = c
                                         \/ d = 1 /\ k = "release" /\ a = c
    BY HasTwo
  <2>3. p \in Seq(GroupOps) /\ p = s
    BY <1>1, <2>0, <2>1
  <2> HIDE DEF p, s
  <2>4. DetachPlan(p, c, 1)
    BY <2>2, <2>3 DEF DetachPlan
  <2> QED
    BY <1>3, <2>4 DEF p
<1> QED
  BY <1>2, <1>3

\* completion_detach and completion_release of an armed completion.
Detaches(x, c, p, j) ==
    /\ todo[x] = <<>> /\ c \in holds[x] /\ completion[c].state = "Armed" /\ j \in {0, 1}
    /\ completions' = [completions EXCEPT ![completion[c].owner] = Without(@, c)]
    /\ completion' = [completion EXCEPT ![c].state = "Detached"]
    /\ todo' = [todo EXCEPT ![x] = p] /\ DetachPlan(p, c, j)
    /\ holds' = IF j = 1 THEN [holds EXCEPT ![x] = @ \ {c}] ELSE holds
    /\ UNCHANGED <<cancelled, ended, outcome, group, member, taskMembers>>
    /\ UNCHANGED <<refs, freed, attached, expected>>

\* It leaves its list, and its release callback is due.
LEMMA DetachStep ==
    ASSUME GroupConstantsOK, GroupInv, NEW x \in Clients, NEW c \in Completions, NEW p, NEW j,
           Detaches(x, c, p, j)
    PROVE  GroupInv'
<1>0. /\ GroupTyped /\ MemberList /\ MemberOwners /\ Endings /\ Recording /\ ArmedOnes
      /\ Callbacks /\ Asking /\ Borrowing /\ Balanced /\ x \in Threads
      /\ completion \in [Completions -> CompletionRecord]
  BY GroupNames DEF GroupInv, GroupTyped
<1> PICK o : o = completion[c].owner
  OBVIOUS
<1>1. /\ todo[x] = <<>> /\ c \in holds[x] /\ completion[c].state = "Armed" /\ j \in {0, 1}
      /\ completions' = [completions EXCEPT ![o] = Without(@, c)]
      /\ completion' = [completion EXCEPT ![c].state = "Detached"]
      /\ todo' = [todo EXCEPT ![x] = p] /\ DetachPlan(p, c, j)
      /\ holds' = IF j = 1 THEN [holds EXCEPT ![x] = @ \ {c}] ELSE holds
      /\ UNCHANGED <<cancelled, ended, outcome, group, member, taskMembers>>
      /\ UNCHANGED <<refs, freed, attached, expected>>
  BY DEF Detaches
<1> DEFINE r == [completion[c] EXCEPT !.state = "Detached"]
<1>2. /\ completion' = [completion EXCEPT ![c] = r]
      /\ r \in CompletionRecord /\ r.state = "Detached" /\ r.owner = completion[c].owner
      /\ r.of = completion[c].of /\ r.woke = completion[c].woke
      /\ r.released = completion[c].released
  BY <1>0, <1>1 DEF CompletionRecord
<1> HIDE DEF r
<1>3. /\ completion' \in [Completions -> CompletionRecord] /\ completion'[c] = r
      /\ \A e \in Completions : e # c => completion'[e] = completion[e]
  BY <1>0, <1>2, CompletionSet
<1>4. todo' \in [Threads -> Seq(GroupOps)] /\ Starts(x, p)
  BY <1>0, <1>1, StackStart DEF DetachPlan
<1>5. /\ \A d, k, a : ~At(x, d, k, a)
      /\ \A y, d, k, a : At(y, d, k, a)' <=>
           \/ At(y, d, k, a)
           \/ y = x /\ a = c /\ ((k = "release" /\ d = j) \/ (j = 1 /\ k = "drop" /\ d = 0))
  BY <1>1, <1>4 DEF DetachPlan, Starts
<1>6. /\ \A k : k # "drop" /\ k # "release" => \A y, d, a : At(y, d, k, a)' <=> At(y, d, k, a)
      /\ \A k, a : Awaits(k, a) => Awaits(k, a)'
  BY <1>5 DEF Awaits
<1>7. /\ o \in Lists /\ o # Nobody /\ completion[c].owner # Nobody
      /\ completion[c].woke = 0 /\ completion[c].released = 0
  BY <1>0, <1>1, GroupNames DEF ArmedOnes, Callbacks
<1>8. ArmedOnes' /\ completions' \in [Lists -> Seq(Completions)]
  <2>1. completion'[c].state = "Detached" /\ completion'[c].owner = o
        /\ completion'[c].of = completion[c].of
    BY <1>2, <1>3
  <2> QED
    BY <1>1, <1>3, <2>1, DetachLists
<1>9. Balanced' /\ holds' \in [Clients -> SUBSET Objects]
  <2>1. \A d : ~Frees(x, d, c)
    BY <1>5 DEF Frees
  <2>2. \A y, d, a : Frees(y, d, a)' <=>
          Frees(y, d, a) \/ (y = x /\ a = c /\ (d = 0 \/ (j = 1 /\ d = 1)))
    BY <1>1, <1>5 DEF Frees
  <2>3. /\ completion'[c].state = "Detached"
        /\ \A e \in Completions : completion'[e].owner = completion[e].owner
        /\ \A e \in Completions : e # c => completion'[e].state = completion[e].state
    BY <1>2, <1>3
  <2> QED
    BY <1>0, <1>1, <2>1, <2>2, <2>3, DetachCounts
<1>10. GroupTyped'
  BY <1>0, <1>1, <1>3, <1>4, <1>8, <1>9 DEF GroupTyped
<1>11. MemberList' /\ Recording'
  BY <1>0, <1>1, MemberListKept, RecordingKept
<1>12. MemberOwners'
  BY <1>0, <1>1, <1>6, MemberOwnersKept
<1>13. Endings'
  BY <1>0, <1>1, <1>6, EndingsKept
<1>14. Asking'
  BY <1>0, <1>1, <1>6, AskingKept
<1>15. Borrowing'
  <2>1. \A y \in Clients : y # x => holds'[y] = holds[y]
    BY <1>0, <1>1 DEF GroupTyped
  <2>2. \A d, a : \A k \in {"cancel", "requestCancel", "cancelNext"} : ~Has(p, d, k, a)
    BY <1>1 DEF DetachPlan
  <2> QED
    BY <1>0, <1>4, <2>1, <2>2, BorrowingStart
<1>16. Callbacks'
  <2>0. \A y, d, e : At(y, d, "wake", e) \/ At(y, d, "release", e) =>
          e \in Completions /\ e # c /\ completion'[e] = completion[e]
    <3> SUFFICES ASSUME NEW y, NEW d, NEW e, NEW k \in {"wake", "release"}, At(y, d, k, e)
                 PROVE  e \in Completions /\ e # c
      BY <1>3
    <3>1. <<k, e>> \in GroupOps
      BY <1>0, AtType
    <3>2. completion[e].state # "Armed"
      BY <1>0 DEF Callbacks
    <3> QED
      BY <1>1, <3>1, <3>2, OpArgs
  <2>1. \A y, d, e : CallsBack(y, d, e)' <=> CallsBack(y, d, e) \/ (y = x /\ d = j /\ e = c)
    BY <1>5 DEF CallsBack
  <2>2. \A y, d : ~CallsBack(y, d, c)
    BY <2>0 DEF CallsBack
  <2>3. \A y, z, d, e, a : CallsBack(y, d, a)' /\ CallsBack(z, e, a)' => y = z /\ d = e
    BY <1>0, <2>1, <2>2 DEF Callbacks
  <2>4. \A y, d, e : At(y, d, "wake", e)' =>
         /\ completion'[e].state = "Ready" /\ completion'[e].owner # Nobody
         /\ completion'[e].woke = 0 /\ completion'[e].released = 0
    BY <1>0, <1>6, <2>0 DEF Callbacks
  <2>5. ASSUME NEW y, NEW d, NEW e, At(y, d, "release", e)'
        PROVE  /\ completion'[e].owner # Nobody /\ completion'[e].released = 0
               /\ \/ completion'[e].state = "Ready" /\ completion'[e].woke = 1
                  \/ completion'[e].state = "Detached" /\ completion'[e].woke = 0
    <3>1. CASE At(y, d, "release", e)
      BY <1>0, <2>0, <3>1 DEF Callbacks
    <3>2. CASE e = c
      BY <1>2, <1>3, <1>7, <3>2
    <3> QED
      BY <1>5, <2>5, <3>1, <3>2
  <2>6. ASSUME NEW e \in Completions
        PROVE  /\ completion'[e].owner = Nobody \/ completion'[e].state = "Armed" =>
                    completion'[e].woke = 0 /\ completion'[e].released = 0
               /\ completion'[e].owner # Nobody /\ completion'[e].state \in {"Ready", "Detached"} =>
                    \/ Awaits("wake", e)' \/ Awaits("release", e)'
                    \/ /\ completion'[e].released = 1
                       /\ completion'[e].woke = IF completion'[e].state = "Ready" THEN 1 ELSE 0
    <3>1. CASE e = c
      <4>1. At(x, j, "release", c)' /\ j \in Nat
        BY <1>1, <1>5
      <4>2. Awaits("release", c)'
        BY <1>0, <4>1 DEF Awaits
      <4> QED
        BY <1>2, <1>3, <1>7, <3>1, <4>2
    <3>2. CASE e # c
      <4>1. completion'[e] = completion[e]
        BY <1>3, <3>2
      <4> QED
        BY <1>0, <1>6, <4>1 DEF Callbacks
    <3> QED
      BY <3>1, <3>2
  <2> QED
    BY <2>3, <2>4, <2>5, <2>6 DEF Callbacks
<1> QED
  BY <1>8, <1>9, <1>10, <1>11, <1>12, <1>13, <1>14, <1>15, <1>16 DEF GroupInv

\* completion_detach and completion_release.
LEMMA CompletionDetachStep ==
    ASSUME GroupConstantsOK, GroupInv, NEW x \in Clients, NEW c \in Completions,
           NEW release \in BOOLEAN, CompletionDetach(x, c, release)
    PROVE  GroupInv'
<1>0. GroupTyped /\ ArmedOnes /\ x \in Threads
  BY GroupNames DEF GroupInv
<1> DEFINE o == completion[c].owner
           last == IF release THEN << <<"drop", c>> >> ELSE <<>>
           j == IF release THEN 1 ELSE 0
           armed == o # Nobody /\ completion[c].state = "Armed" /\ c \in Elements(completions[o])
<1>1. /\ todo[x] = <<>> /\ c \in holds[x]
      /\ IF armed
         THEN /\ completions' = [completions EXCEPT ![o] = Without(@, c)]
              /\ completion' = [completion EXCEPT ![c].state = "Detached"]
              /\ todo' = [todo EXCEPT ![x] = << <<"release", c>> >> \o last]
         ELSE /\ todo' = [todo EXCEPT ![x] = last]
              /\ UNCHANGED <<completions, completion>>
      /\ holds' = IF release THEN [holds EXCEPT ![x] = @ \ {c}] ELSE holds
      /\ UNCHANGED <<cancelled, ended, outcome, group, member, taskMembers>>
      /\ UNCHANGED <<refs, freed, attached, expected>>
  BY DEF CompletionDetach, Idle, Do, taskVars, groupVars,
         history
<1>2. CASE armed
  <2>1. DetachPlan(<< <<"release", c>> >> \o last, c, j)
    BY DetachPlans
  <2>2. holds' = IF j = 1 THEN [holds EXCEPT ![x] = @ \ {c}] ELSE holds
    BY <1>1
  <2>3. j \in {0, 1}
    OBVIOUS
  <2> PICK p : p = << <<"release", c>> >> \o last
    OBVIOUS
  <2> HIDE DEF last, j
  <2>4. Detaches(x, c, p, j)
    BY <1>1, <1>2, <2>1, <2>2, <2>3 DEF Detaches
  <2> QED
    BY <2>4, DetachStep
<1>3. CASE ~armed
  <2>1. CASE release
    <3>1. GivesUp(x, c)
      BY <1>1, <1>3, <2>1 DEF GivesUp, First
    <3> QED
      BY <3>1, GiveUpStep
  <2>2. CASE ~release
    <3>1. todo' = todo
      BY <1>0, <1>1, <1>3, <2>2 DEF GroupTyped
    <3> QED
      BY <1>1, <1>3, <2>2, <3>1, GroupStutters
  <2> QED
    BY <2>1, <2>2
<1> QED
  BY <1>2, <1>3

-----------------------------------------------------------------------------
(* Members are cancelled *)

\* task_group_request_cancel has asked every member.
LEMMA CancelDoneStep ==
    ASSUME GroupConstantsOK, GroupInv, NEW x \in Threads, Due(x, "cancelNext"),
           Unsent = {}, Pop(x),
           UNCHANGED <<cancelled, ended, outcome, completions, group, member, taskMembers>>,
           UNCHANGED <<completion, refs, freed, holds, attached, expected>>
    PROVE  GroupInv'
<1>0. GroupTyped /\ MemberList /\ Callbacks /\ Asking /\ Borrowing /\ Balanced
  BY DEF GroupInv
<1> PICK g : g = Arg(x)
  OBVIOUS
<1> PICK n : n = Top(x)
  OBVIOUS
<1>1. Popped1(x, n, "cancelNext", g)
  BY <1>0, StackPop
<1>2. /\ todo' \in [Threads -> Seq(GroupOps)]
      /\ \A k : k # "cancelNext" => \A y, d, a : At(y, d, k, a)' <=> At(y, d, k, a)
      /\ \A k, a : k # "cancelNext" /\ Awaits(k, a) => Awaits(k, a)'
  BY <1>1 DEF Popped1
<1>3. Borrowing'
  BY <1>0, <1>1 DEF Popped1
<1>4. GroupTyped'
  BY <1>0, <1>2 DEF GroupTyped
<1>5. MemberList' /\ MemberOwners' /\ Endings' /\ Recording' /\ ArmedOnes'
  BY <1>2, GroupStill
<1>6. Callbacks'
  BY <1>0, <1>2, CallbacksKept
<1>7. Balanced'
  <2>1. \A y, d, o : Frees(y, d, o)' <=> Frees(y, d, o)
    BY <1>2 DEF Frees
  <2> QED
    BY <1>0, <2>1, BalancedSame
<1>8. Asking'
  <2>1. \A m \in Members : member[m].task # Nobody => member[m].sent
    BY <1>0 DEF MemberList, Elements, Unsent
  <2>2. ASSUME NEW m \in Members, member[m].sent
        PROVE  \/ cancelled[member[m].task] \/ ended[member[m].task] # "None"
               \/ Awaits("cancel", member[m].task)'
    <3> PICK u : u = member[m].task
      OBVIOUS
    <3>1. cancelled[u] \/ ended[u] # "None" \/ Awaits("cancel", u)
      BY <1>0, <2>2 DEF Asking
    <3>2. Awaits("cancel", u)' => Awaits("cancel", member[m].task)'
      BY DEF Awaits, At
    <3> QED
      BY <1>2, <3>1, <3>2
  <2> QED
    BY <2>1, <2>2 DEF Asking
<1> QED
  BY <1>3, <1>4, <1>5, <1>6, <1>7, <1>8 DEF GroupInv

\* A member it has not asked: its task is retained, cancelled and released.
Asks(x, m, t) ==
    /\ m \in Members /\ t = member[m].task /\ t # Nobody /\ ~member[m].sent
    /\ member' = [member EXCEPT ![m].sent = TRUE]
    /\ refs' = [refs EXCEPT ![t] = @ + 1]
    /\ todo' = [todo EXCEPT ![x] = << <<"cancel", t>>, <<"drop", t>> >> \o todo[x]]
    /\ UNCHANGED <<cancelled, ended, outcome, completions, group, taskMembers>>
    /\ UNCHANGED <<completion, freed, holds, attached, expected>>

\* It is asked, and the thread keeps it for as long as that takes.
LEMMA AskStep ==
    ASSUME GroupConstantsOK, GroupInv, NEW x \in Threads, NEW m, NEW t, Asks(x, m, t)
    PROVE  GroupInv'
<1>0. GroupTyped /\ MemberList /\ Callbacks /\ Asking /\ Borrowing /\ Balanced
  BY DEF GroupInv
<1>1. /\ m \in Members /\ t = member[m].task /\ t # Nobody /\ ~member[m].sent
      /\ member' = [member EXCEPT ![m].sent = TRUE]
      /\ refs' = [refs EXCEPT ![t] = @ + 1]
      /\ todo' = [todo EXCEPT ![x] = << <<"cancel", t>>, <<"drop", t>> >> \o todo[x]]
      /\ UNCHANGED <<cancelled, ended, outcome, completions, group, taskMembers>>
      /\ UNCHANGED <<completion, freed, holds, attached, expected>>
  BY DEF Asks
<1>2. t \in Tasks /\ t \in Objects /\ refs[t] >= 1 /\ refs[t] \in Nat
  BY <1>0, <1>1, Referenced, GroupNames
<1> DEFINE p == << <<"cancel", t>>, <<"drop", t>> >>
<1>3. p \in Seq(GroupOps)
  <2>1. <<"cancel", t>> \in GroupOps /\ <<"drop", t>> \in GroupOps
    BY <1>2, OpArgs
  <2> QED
    BY <2>1
<1>4. \A d, k, a : Has(p, d, k, a) <=>
        (d = 0 /\ k = "drop" /\ a = t) \/ (d = 1 /\ k = "cancel" /\ a = t)
  BY HasTwo
<1> HIDE DEF p
<1> PICK n : n = Len(todo[x])
  OBVIOUS
<1>5. todo' \in [Threads -> Seq(GroupOps)] /\ Pushes(x, n, p)
  BY <1>0, <1>1, <1>3, StackPush DEF p
<1>6. /\ n \in Nat /\ n + 1 \in Nat /\ \A d, k, a : At(x, d, k, a) => d < n
      /\ \A y, d, k, a : At(y, d, k, a)' <=>
           \/ At(y, d, k, a)
           \/ y = x /\ a = t /\ ((d = n /\ k = "drop") \/ (d = n + 1 /\ k = "cancel"))
  <2>1. n \in Nat /\ n + 1 \in Nat /\ \A d, k, a : At(x, d, k, a) => d < n
    BY <1>5 DEF Pushes
  <2>2. ASSUME NEW y, NEW d, NEW k, NEW a
        PROVE  At(y, d, k, a)' <=>
                 \/ At(y, d, k, a)
                 \/ y = x /\ a = t /\ ((d = n /\ k = "drop") \/ (d = n + 1 /\ k = "cancel"))
    <3>1. At(y, d, k, a)' <=>
            At(y, d, k, a) \/ (y = x /\ d \in Nat /\ d >= n /\ Has(p, d - n, k, a))
      BY <1>5 DEF Pushes
    <3>2. /\ d \in Nat /\ d >= n /\ d - n = 0 <=> d = n
          /\ d \in Nat /\ d >= n /\ d - n = 1 <=> d = n + 1
      BY <2>1
    <3>3. Has(p, d - n, k, a) <=>
            (d - n = 0 /\ k = "drop" /\ a = t) \/ (d - n = 1 /\ k = "cancel" /\ a = t)
      BY <1>4
    <3> QED
      BY <3>1, <3>2, <3>3
  <2> QED
    BY <2>1, <2>2
<1>7. /\ \A k : k # "drop" /\ k # "cancel" => \A y, d, a : At(y, d, k, a)' <=> At(y, d, k, a)
      /\ \A k, a : Awaits(k, a) => Awaits(k, a)'
      /\ Awaits("cancel", t)'
  <2>1. At(x, n + 1, "cancel", t)'
    BY <1>6
  <2> QED
    BY <1>6, <2>1 DEF Awaits
<1>8. Borrowing'
  <2>1. \A d, a : \A k \in {"cancel", "requestCancel", "cancelNext"} : Has(p, d, k, a) =>
             \E e \in Nat : e < d /\ Has(p, e, "drop", a)
    BY <1>4
  <2> QED
    BY <1>0, <1>1, <1>5, <2>1, BorrowingPush
<1> DEFINE r == [member[m] EXCEPT !.sent = TRUE]
<1>9. /\ member' = [member EXCEPT ![m] = r] /\ r \in MemberRecord
      /\ r.task = member[m].task /\ r.expect = member[m].expect /\ r.sent
  BY <1>0, <1>1 DEF GroupTyped, MemberRecord
<1> HIDE DEF r
<1>10. /\ member' \in [Members -> MemberRecord] /\ member'[m] = r
       /\ \A l \in Members : l # m => member'[l] = member[l]
  BY <1>0, <1>1, <1>9 DEF GroupTyped
<1>11. \A l \in Members : member'[l].task = member[l].task /\ member'[l].expect = member[l].expect
  BY <1>9, <1>10
<1>12. refs' \in [Objects -> Nat] /\ refs'[t] = refs[t] + 1
       /\ \A o \in Objects : o # t => refs'[o] = refs[o]
  BY <1>0, <1>1, <1>2 DEF GroupTyped
<1>13. GroupTyped'
  BY <1>0, <1>1, <1>5, <1>10, <1>12 DEF GroupTyped
<1>14. MemberList' /\ MemberOwners' /\ Endings' /\ Recording' /\ ArmedOnes'
  BY <1>1, <1>7, <1>11, GroupStill
<1>15. Callbacks'
  BY <1>0, <1>1, <1>7, CallbacksKept
<1>16. Asking'
  <2>1. ASSUME NEW l \in Members, member'[l].sent
        PROVE  \/ cancelled[member'[l].task] \/ ended[member'[l].task] # "None"
               \/ Awaits("cancel", member[l].task)'
    <3> PICK u : u = member[l].task
      OBVIOUS
    <3>1. member'[l].task = u
      BY <1>11
    <3>2. Awaits("cancel", u)' => Awaits("cancel", member[l].task)'
      BY <3>1 DEF Awaits, At
    <3>3. CASE l = m
      BY <1>1, <1>7, <3>2, <3>3
    <3>4. CASE l # m
      <4>1. cancelled[u] \/ ended[u] # "None" \/ Awaits("cancel", u)
        BY <1>0, <1>10, <2>1, <3>4 DEF Asking
      <4> QED
        BY <1>7, <3>1, <3>2, <4>1
    <3> QED
      BY <3>3, <3>4
  <2>2. ASSUME NEW l \in Members, group.cancelRequested, member'[l].task # Nobody, ~member'[l].sent
        PROVE  Awaits("cancelNext", "group")'
    <3>1. l # m
      BY <1>9, <1>10, <2>2
    <3> QED
      BY <1>0, <1>7, <1>10, <2>2, <3>1 DEF Asking
  <2> QED
    BY <1>1, <2>1, <2>2 DEF Asking
<1>17. ASSUME NEW o \in Objects
       PROVE  /\ IsFiniteSet(Releasing(o))' /\ refs'[o] = Owners(o)'
              /\ refs'[o] = refs[o] \/ (refs[o] >= 1 /\ refs'[o] = refs[o] + 1)
  <2>1. IsFiniteSet(Releasing(o)) /\ refs[o] = Owners(o) /\ refs[o] \in Nat
    BY <1>0 DEF Balanced, GroupTyped
  <2>2. CASE o # t
    <3>1. \A y, d : Frees(y, d, o)' <=> Frees(y, d, o)
      BY <1>6, <2>2 DEF Frees
    <3>2. Releasing(o)' = Releasing(o)
      BY <3>1, ReleasingSame
    <3>3. Kept(o)' = Kept(o)
      BY <1>1 DEF Kept
    <3>4. Owners(o)' = Owners(o)
      BY <1>1, <1>11, <3>2, <3>3, OwnersSame
    <3> QED
      BY <1>12, <2>1, <2>2, <3>2, <3>4
  <2>3. CASE o = t
    <3>1. \A y, d : Frees(y, d, o)' <=> Frees(y, d, o) \/ (y = x /\ d = n)
      BY <1>6, <2>3 DEF Frees
    <3>2. ~Frees(x, n, o)
      BY <1>6 DEF Frees
    <3>3. IsFiniteSet(Releasing(o))' /\ Cardinality(Releasing(o))' = Cardinality(Releasing(o)) + 1
      BY <1>6, <2>1, <3>1, <3>2, ReleasingGain
    <3>4. /\ Cardinality(Handed(o)) \in Nat /\ Cardinality(Joins(o)) \in Nat
          /\ Cardinality(Observing(o)) \in Nat /\ Kept(o) \in {0, 1}
      BY <2>1, OwnerNumbers
    <3>5. Joins(o)' = Joins(o)
      BY <1>11, JoinsSame
    <3>6. Observing(o)' = Observing(o)
      BY <1>1, ObservingSame
    <3>7. Handed(o)' = Handed(o) /\ Kept(o)' = Kept(o)
      BY <1>1 DEF Handed, Kept
    <3>8. /\ Cardinality(Handed(o))' = Cardinality(Handed(o)) + 0
          /\ Cardinality(Joins(o))' = Cardinality(Joins(o)) + 0
          /\ Cardinality(Observing(o))' = Cardinality(Observing(o)) + 0
          /\ Kept(o)' = Kept(o) + 0
      BY <3>4, <3>5, <3>6, <3>7
    <3>9. Owners(o)' = Owners(o) + (0 + 1 + 0 + 0 + 0)
      BY <2>1, <3>3, <3>8, OwnersMoved
    <3> QED
      BY <1>2, <1>12, <2>1, <2>3, <3>3, <3>9
  <2> QED
    BY <2>2, <2>3
<1>18. Balanced'
  BY <1>0, <1>1, <1>17, BalancedKept
<1> QED
  BY <1>8, <1>13, <1>14, <1>15, <1>16, <1>18 DEF GroupInv

\* One pass of the loop of task_group_request_cancel.
LEMMA CancelNextStep ==
    ASSUME GroupConstantsOK, GroupInv, NEW x \in Threads, CancelNext(x)
    PROVE  GroupInv'
<1>0. GroupTyped /\ MemberList
  BY DEF GroupInv
<1>1. CASE /\ Due(x, "cancelNext") /\ Unsent = {}
           /\ todo' = [todo EXCEPT ![x] = Tail(todo[x])] /\ UNCHANGED <<member, refs>>
           /\ UNCHANGED <<cancelled, ended, outcome, completions, group, taskMembers>>
           /\ UNCHANGED <<completion, freed, holds, attached, expected>>
  <2>1. Pop(x)
    BY <1>1 DEF Pop
  <2> QED
    BY <1>1, <2>1, CancelDoneStep
<1>2. ASSUME NEW i \in Unsent,
             member' = [member EXCEPT ![group.members[i]].sent = TRUE],
             refs' = [refs EXCEPT ![member[group.members[i]].task] = @ + 1],
             todo' = [todo EXCEPT ![x] = << <<"cancel", member[group.members[i]].task>>,
                                            <<"drop", member[group.members[i]].task>> >> \o todo[x]],
             UNCHANGED <<cancelled, ended, outcome, completions, group, taskMembers>>,
             UNCHANGED <<completion, freed, holds, attached, expected>>
      PROVE  GroupInv'
  <2> PICK m : m = group.members[i]
    OBVIOUS
  <2> PICK t : t = member[m].task
    OBVIOUS
  <2>1. i \in DOMAIN group.members /\ ~member[m].sent
    BY DEF Unsent
  <2>2. m \in Elements(group.members) /\ m \in Members
    <3>1. group.members \in Seq(Members)
      BY <1>0 DEF GroupTyped, GroupRecord
    <3> QED
      BY <2>1, <3>1, LenProperties DEF Elements
  <2>3. t # Nobody
    BY <1>0, <2>2 DEF MemberList
  <2>4. Asks(x, m, t)
    BY <1>2, <2>1, <2>2, <2>3 DEF Asks
  <2> QED
    BY <2>4, AskStep
<1> QED
  BY <1>1, <1>2 DEF CancelNext, Do, taskVars, history

-----------------------------------------------------------------------------
(* A child is attached *)

\* The flags that a recorded outcome sets, and the fields it leaves alone.
LEMMA RecordedFields ==
    ASSUME NEW g \in GroupRecord, NEW expect \in BOOLEAN, NEW s
    PROVE  /\ Recorded(g, expect, s) \in GroupRecord
           /\ Recorded(g, expect, s).members = g.members
           /\ Recorded(g, expect, s).active = g.active
           /\ Recorded(g, expect, s).closed = g.closed
           /\ Recorded(g, expect, s).cancelRequested = g.cancelRequested
           /\ Recorded(g, expect, s).implicitCancelled <=>
                g.implicitCancelled \/ (expect /\ s = "Cancelled")
           /\ Recorded(g, expect, s).implicitFailed <=>
                g.implicitFailed \/ (expect /\ s = "Failed")
  BY DEF Recorded, GroupRecord

\* A child that has ended.
AttachesEnded(x, t, expect) ==
    /\ outcome[t] # "None" /\ group' = Recorded(group, expect, outcome[t])
    /\ attached' = attached \cup {t}
    /\ expected' = IF expect THEN expected \cup {t} ELSE expected
    /\ UNCHANGED <<cancelled, ended, outcome, completions, member, taskMembers>>
    /\ UNCHANGED <<completion, refs, freed, holds, todo>>

\* It only leaves its outcome.
LEMMA AttachEndedStep ==
    ASSUME GroupConstantsOK, GroupInv, NEW x \in Clients, NEW t \in Tasks, NEW expect \in BOOLEAN,
           AttachesEnded(x, t, expect)
    PROVE  GroupInv'
<1>0. /\ GroupTyped /\ MemberList /\ MemberOwners /\ Endings /\ Recording /\ ArmedOnes
      /\ Callbacks /\ Asking /\ Borrowing /\ Balanced
  BY DEF GroupInv
<1>1. /\ outcome[t] # "None" /\ group' = Recorded(group, expect, outcome[t])
      /\ attached' = attached \cup {t}
      /\ expected' = IF expect THEN expected \cup {t} ELSE expected
      /\ UNCHANGED <<cancelled, ended, outcome, completions, member, taskMembers>>
      /\ UNCHANGED <<completion, refs, freed, holds, todo>>
  BY DEF AttachesEnded
<1>2. /\ group' \in GroupRecord /\ group'.members = group.members /\ group'.active = group.active
      /\ group'.closed = group.closed /\ group'.cancelRequested = group.cancelRequested
      /\ group'.implicitCancelled <=> group.implicitCancelled \/ (expect /\ outcome[t] = "Cancelled")
      /\ group'.implicitFailed <=> group.implicitFailed \/ (expect /\ outcome[t] = "Failed")
  <2>1. group \in GroupRecord
    BY <1>0 DEF GroupTyped
  <2> QED
    BY <1>1, <2>1, RecordedFields
<1>3. \A y, d, k, a : At(y, d, k, a)' <=> At(y, d, k, a)
  BY <1>1 DEF At
<1>4. \A k, a : Awaits(k, a) => Awaits(k, a)'
  BY <1>3 DEF Awaits
<1>5. GroupTyped'
  BY <1>0, <1>1, <1>2 DEF GroupTyped
<1>6. MemberList'
  BY <1>0, <1>1, <1>2, MemberListKept
<1>7. MemberOwners'
  BY <1>0, <1>1, <1>3, MemberOwnersKept
<1>8. Endings'
  BY <1>0, <1>1, <1>3, EndingsKept
<1>9. ArmedOnes'
  BY <1>0, <1>1, <1>2, ArmedKept
<1>10. Callbacks'
  BY <1>0, <1>1, <1>3, CallbacksKept
<1>11. Asking'
  BY <1>0, <1>1, <1>2, <1>4, AskingKept
<1>12. Borrowing'
  BY <1>0, <1>1, BorrowingKept
<1>13. Balanced'
  <2>1. \A y, d, o : Frees(y, d, o)' <=> Frees(y, d, o)
    BY <1>3 DEF Frees
  <2> QED
    BY <1>0, <1>1, <2>1, BalancedSame
<1>14. Recording'
  <2>1. expected' \subseteq attached' /\ attached' \subseteq Tasks /\ expected \subseteq expected'
    BY <1>0, <1>1 DEF Recording
  <2>2. \A u \in attached' : outcome[u] # "None" \/ \E m \in Members : member[m].task = u
    BY <1>0, <1>1 DEF Recording
  <2>3. ASSUME NEW u \in expected'
        PROVE  \/ \E m \in Members : member[m].task = u /\ member[m].expect
               \/ /\ outcome[u] # "None"
                  /\ outcome[u] = "Cancelled" => group'.implicitCancelled
                  /\ outcome[u] = "Failed" => group'.implicitFailed
    <3>1. CASE u \in expected
      BY <1>0, <1>2, <3>1 DEF Recording
    <3>2. CASE u \notin expected
      <4>1. u = t /\ expect
        BY <1>1, <3>2
      <4> QED
        BY <1>1, <1>2, <4>1
    <3> QED
      BY <3>1, <3>2
  <2>4. \A m \in Members : member[m].expect => member[m].task \in expected'
    BY <1>0, <2>1 DEF Recording
  <2>5. expect => t \in expected'
    BY <1>1
  <2>6. group'.implicitCancelled => \E u \in expected' : outcome[u] = "Cancelled"
    BY <1>0, <1>2, <2>1, <2>5 DEF Recording
  <2>7. group'.implicitFailed => \E u \in expected' : outcome[u] = "Failed"
    BY <1>0, <1>2, <2>1, <2>5 DEF Recording
  <2> QED
    BY <1>1, <2>1, <2>2, <2>3, <2>4, <2>6, <2>7 DEF Recording
<1> QED
  BY <1>5, <1>6, <1>7, <1>8, <1>9, <1>10, <1>11, <1>12, <1>13, <1>14 DEF GroupInv

\* A child that runs gets a member; a late one is cancelled.
AttachesRunning(x, t, m, expect) ==
    /\ todo[x] = <<>> /\ t \in holds[x] /\ "group" \in holds[x]
    /\ member[m].task = Nobody /\ ~group.closed /\ outcome[t] = "None"
    /\ attached' = attached \cup {t}
    /\ expected' = IF expect THEN expected \cup {t} ELSE expected
    /\ group' = [group EXCEPT !.members = <<m>> \o @, !.active = @ + 1]
    /\ taskMembers' = [taskMembers EXCEPT ![t] = <<m>> \o @]
    /\ member' = [member EXCEPT ![m] = [task |-> t, expect |-> expect,
                                        sent |-> group.cancelRequested]]
    /\ refs' = [refs EXCEPT ![t] = @ + 1, !["group"] = @ + 1]
    /\ todo' = [todo EXCEPT ![x] = LateCancel(t)]
    /\ UNCHANGED <<cancelled, ended, outcome, completions, completion, freed, holds>>

\* The owners it gains: the member's references to the task and to the group.
LEMMA AttachCounts ==
    ASSUME GroupConstantsOK, GroupTyped, Balanced, UNCHANGED <<outcome, completion, freed, holds>>,
           NEW x \in Clients, NEW t \in Tasks, NEW m \in Members,
           t \in holds[x], "group" \in holds[x],
           member[m].task = Nobody, member'[m].task = t,
           \A l \in Members : l # m => member'[l].task = member[l].task,
           refs' = [refs EXCEPT ![t] = @ + 1, !["group"] = @ + 1],
           \A y, d, o : Frees(y, d, o)' <=> Frees(y, d, o)
    PROVE  Balanced' /\ refs' \in [Objects -> Nat]
<1>0. t \in Objects /\ "group" \in Objects /\ t # "group"
  BY GroupNames
<1>1. /\ refs' \in [Objects -> Nat] /\ refs[t] >= 1 /\ refs["group"] >= 1
      /\ \A o \in Objects : refs'[o] = refs[o] + (IF o \in {t, "group"} THEN 1 ELSE 0)
  <2>1. refs[t] >= 1 /\ refs["group"] >= 1
    BY Referenced
  <2>2. refs \in [Objects -> Nat]
    BY DEF GroupTyped
  <2>3. refs' \in [Objects -> Nat]
    BY <1>0, <2>2
  <2>4. \A o \in Objects : refs'[o] = refs[o] + (IF o \in {t, "group"} THEN 1 ELSE 0)
    BY <1>0, <2>2
  <2> QED
    BY <2>1, <2>3, <2>4
<1>2. ASSUME NEW o \in Objects
      PROVE  /\ IsFiniteSet(Releasing(o))' /\ refs'[o] = Owners(o)'
             /\ refs'[o] = refs[o] \/ (refs[o] >= 1 /\ refs'[o] = refs[o] + 1)
  <2>1. /\ IsFiniteSet(Releasing(o)) /\ refs[o] = Owners(o) /\ refs[o] \in Nat
        /\ Cardinality(Handed(o)) \in Nat /\ Cardinality(Releasing(o)) \in Nat
        /\ Cardinality(Observing(o)) \in Nat /\ Kept(o) \in {0, 1}
    BY OwnerNumbers DEF Balanced, GroupTyped
  <2> DEFINE k == IF o \in {t, "group"} THEN 1 ELSE 0
  <2>2. Cardinality(Joins(o))' = Cardinality(Joins(o)) + k
    BY JoinsGain
  <2>3. Releasing(o)' = Releasing(o)
    BY ReleasingSame
  <2>4. Observing(o)' = Observing(o)
    BY ObservingSame
  <2>5. Handed(o)' = Handed(o) /\ Kept(o)' = Kept(o)
    BY DEF Handed, Kept
  <2>6. k \in {0, 1} /\ refs'[o] = refs[o] + k /\ (k = 1 => refs[o] >= 1)
    BY <1>1
  <2> HIDE DEF k
  <2>7. /\ Cardinality(Handed(o))' = Cardinality(Handed(o)) + 0
        /\ Cardinality(Releasing(o))' = Cardinality(Releasing(o)) + 0
        /\ Cardinality(Observing(o))' = Cardinality(Observing(o)) + 0
        /\ Kept(o)' = Kept(o) + 0 /\ k \in Int /\ 0 \in Int
    BY <2>1, <2>3, <2>4, <2>5, <2>6
  <2>8. Owners(o)' = Owners(o) + (0 + 0 + k + 0 + 0)
    BY <2>1, <2>2, <2>7, OwnersMoved
  <2> QED
    BY <2>1, <2>3, <2>6, <2>8
<1> QED
  BY <1>1, <1>2, BalancedKept

\* The lists of the group and of the task with a new member.
LEMMA AttachLists ==
    ASSUME GroupConstantsOK, GroupInv, NEW t \in Tasks, NEW m \in Members,
           member[m].task = Nobody, outcome[t] = "None", member'[m].task = t,
           \A l \in Members : l # m => member'[l] = member[l],
           group'.members = <<m>> \o group.members, group'.active = group.active + 1,
           taskMembers' = [taskMembers EXCEPT ![t] = <<m>> \o @], outcome' = outcome,
           \A y, d, a : At(y, d, "member", a)' <=> At(y, d, "member", a)
    PROVE  /\ MemberList' /\ MemberOwners'
           /\ group'.members \in Seq(Members) /\ group'.active \in Nat
           /\ taskMembers' \in [Tasks -> Seq(Members)]
<1>0. /\ GroupTyped /\ MemberList /\ MemberOwners /\ t # Nobody
      /\ group.members \in Seq(Members) /\ group.active \in Nat
      /\ taskMembers \in [Tasks -> Seq(Members)]
  BY GroupNames DEF GroupInv, GroupTyped, GroupRecord
<1>1. m \notin Elements(group.members)
  BY <1>0 DEF MemberList
<1>2. \A u \in Tasks : m \notin Elements(taskMembers[u])
  BY <1>0, GroupNames DEF MemberOwners
<1>3. \A y, d : ~At(y, d, "member", m)
  BY <1>0, GroupNames DEF MemberOwners
<1>4. /\ group'.members \in Seq(Members) /\ OneEach(group'.members)
      /\ Len(group'.members) = Len(group.members) + 1
      /\ \A v : v \in Elements(group'.members) <=> v = m \/ v \in Elements(group.members)
  <2> DEFINE s == group.members
             z == <<m>> \o s
  <2>1. s \in Seq(Members) /\ OneEach(s) /\ m \notin Elements(s)
    BY <1>0, <1>1 DEF MemberList
  <2>2. group'.members = z
    OBVIOUS
  <2> HIDE DEF s
  <2>3. z \in Seq(Members) /\ OneEach(z) /\ Len(z) = Len(s) + 1
        /\ \A v : v \in Elements(z) <=> v = m \/ v \in Elements(s)
    BY <2>1, ListCons
  <2> HIDE DEF z
  <2> QED
    BY <2>2, <2>3 DEF s
<1>5. MemberList'
  <2>1. group'.active = Len(group'.members) /\ group'.active \in Nat
    BY <1>0, <1>4 DEF MemberList
  <2>2. \A l \in Members : l \in Elements(group'.members) <=> member'[l].task # Nobody
    BY <1>0, <1>4 DEF MemberList
  <2> QED
    BY <1>4, <2>1, <2>2 DEF MemberList, OneEach, Elements
<1>6. /\ taskMembers' \in [Tasks -> Seq(Members)]
      /\ \A u \in Tasks : OneEach(taskMembers'[u])
      /\ \A u \in Tasks : \A v : v \in Elements(taskMembers'[u]) <=>
           (u = t /\ v = m) \/ v \in Elements(taskMembers[u])
  <2> DEFINE s == taskMembers[t]
             z == <<m>> \o s
  <2>1. s \in Seq(Members) /\ OneEach(s) /\ m \notin Elements(s)
    BY <1>0, <1>2 DEF MemberOwners
  <2>2. taskMembers' = [taskMembers EXCEPT ![t] = z]
    OBVIOUS
  <2> HIDE DEF s
  <2>3. z \in Seq(Members) /\ OneEach(z)
        /\ \A v : v \in Elements(z) <=> v = m \/ v \in Elements(s)
    BY <2>1, ListCons
  <2> HIDE DEF z
  <2>4. taskMembers' \in [Tasks -> Seq(Members)] /\ taskMembers'[t] = z
        /\ \A u \in Tasks : u # t => taskMembers'[u] = taskMembers[u]
    BY <1>0, <2>2, <2>3
  <2>5. \A u \in Tasks : OneEach(taskMembers'[u])
    BY <1>0, <2>3, <2>4 DEF MemberOwners
  <2> QED
    BY <2>3, <2>4, <2>5 DEF s
<1>7. \A u \in Tasks : \A v \in Elements(taskMembers[u]) : v \in Members /\ v # m
  <2> SUFFICES ASSUME NEW u \in Tasks, NEW v \in Elements(taskMembers[u]) PROVE v \in Members
    BY <1>2
  <2>1. taskMembers[u] \in Seq(Members)
    BY <1>0
  <2> QED
    BY <2>1, LenProperties DEF Elements
<1>8. \A u \in Tasks : \A v \in Elements(taskMembers'[u]) :
         member'[v].task = u /\ outcome'[u] = "None"
  <2> SUFFICES ASSUME NEW u \in Tasks, NEW v \in Elements(taskMembers'[u])
               PROVE  member'[v].task = u /\ outcome'[u] = "None"
    OBVIOUS
  <2>1. CASE u = t /\ v = m
    BY <2>1
  <2>2. CASE v \in Elements(taskMembers[u])
    <3>1. member'[v] = member[v]
      BY <1>7, <2>2
    <3> QED
      BY <1>0, <2>2, <3>1 DEF MemberOwners
  <2> QED
    BY <1>6, <2>1, <2>2
<1>9. \A y, d, v : At(y, d, "member", v) => v \in Members /\ v # m
  <2> SUFFICES ASSUME NEW y, NEW d, NEW v, At(y, d, "member", v) PROVE v \in Members
    BY <1>3
  <2>1. <<"member", v>> \in GroupOps
    BY <1>0, AtType
  <2> QED
    BY <2>1, OpArgs
<1>10. \A y, d, v : At(y, d, "member", v)' =>
         member'[v].task \in Tasks /\ outcome'[member'[v].task] # "None"
  BY <1>0, <1>9 DEF MemberOwners
<1>11. \A y, z, d, e, v : At(y, d, "member", v)' /\ At(z, e, "member", v)' => y = z /\ d = e
  BY <1>0 DEF MemberOwners
<1>12. \A v : Awaits("member", v)' <=> Awaits("member", v)
  BY DEF Awaits
<1>13. ASSUME NEW v \in Members, member'[v].task # Nobody
       PROVE  v \in Elements(taskMembers'[member'[v].task]) \/ Awaits("member", v)'
  <2>1. CASE v = m
    BY <1>6, <2>1
  <2>2. CASE v # m
    <3> PICK u : u = member[v].task
      OBVIOUS
    <3>1. member'[v].task = u /\ u \in Tasks
      BY <1>0, <1>13, <2>2 DEF GroupTyped, MemberRecord
    <3>2. v \in Elements(taskMembers[u]) \/ Awaits("member", v)
      BY <1>0, <1>13, <2>2, <3>1 DEF MemberOwners
    <3> QED
      BY <1>6, <1>12, <3>1, <3>2
  <2> QED
    BY <2>1, <2>2
<1>14. MemberOwners'
  BY <1>6, <1>8, <1>10, <1>11, <1>13 DEF MemberOwners, OneEach, Elements
<1> QED
  BY <1>0, <1>4, <1>5, <1>6, <1>14

\* It records nothing yet.
LEMMA AttachRecording ==
    ASSUME GroupConstantsOK, GroupInv, NEW t \in Tasks, NEW m \in Members, NEW expect \in BOOLEAN,
           member[m].task = Nobody, member'[m].task = t, member'[m].expect = expect,
           \A l \in Members : l # m => member'[l] = member[l],
           group'.implicitCancelled = group.implicitCancelled,
           group'.implicitFailed = group.implicitFailed, outcome' = outcome,
           attached' = attached \cup {t},
           expected' = (IF expect THEN expected \cup {t} ELSE expected)
    PROVE  Recording'
<1>0. Recording /\ Nobody \notin Tasks /\ expected \subseteq Tasks /\ attached \subseteq Tasks
  BY GroupNames DEF GroupInv, Recording
<1>1. expected' \subseteq attached' /\ attached' \subseteq Tasks /\ expected \subseteq expected'
  BY <1>0 DEF Recording
<1>2. ASSUME NEW u \in attached'
      PROVE  outcome[u] # "None" \/ \E l \in Members : member'[l].task = u
  <2>1. CASE u = t
    BY <2>1
  <2>2. CASE u # t
    <3>1. u \in attached /\ u # Nobody
      BY <1>0, <2>2
    <3>2. CASE outcome[u] # "None"
      BY <3>2
    <3>3. ASSUME NEW l \in Members, member[l].task = u PROVE member'[l].task = u
      BY <3>1, <3>3
    <3> QED
      BY <1>0, <3>1, <3>2, <3>3 DEF Recording
  <2> QED
    BY <2>1, <2>2
<1>3. ASSUME NEW u \in expected'
      PROVE  \/ \E l \in Members : member'[l].task = u /\ member'[l].expect
             \/ /\ outcome[u] # "None"
                /\ outcome[u] = "Cancelled" => group'.implicitCancelled
                /\ outcome[u] = "Failed" => group'.implicitFailed
  <2>1. CASE u \notin expected
    <3>1. u = t /\ expect
      BY <2>1
    <3> QED
      BY <3>1
  <2>2. CASE u \in expected
    <3>1. u # Nobody
      BY <1>0, <2>2
    <3>2. ASSUME NEW l \in Members, member[l].task = u, member[l].expect
          PROVE  member'[l].task = u /\ member'[l].expect
      BY <3>1, <3>2
    <3> QED
      BY <1>0, <2>2, <3>2 DEF Recording
  <2> QED
    BY <2>1, <2>2
<1>4. ASSUME NEW l \in Members, member'[l].expect PROVE member'[l].task \in expected'
  <2>1. CASE l = m
    BY <1>4, <2>1
  <2>2. CASE l # m
    BY <1>0, <1>1, <1>4, <2>2 DEF Recording
  <2> QED
    BY <2>1, <2>2
<1>5. /\ group'.implicitCancelled => \E u \in expected' : outcome[u] = "Cancelled"
      /\ group'.implicitFailed => \E u \in expected' : outcome[u] = "Failed"
  BY <1>0, <1>1 DEF Recording
<1> QED
  BY <1>1, <1>2, <1>3, <1>4, <1>5 DEF Recording

\* A running child.
LEMMA AttachRunningStep ==
    ASSUME GroupConstantsOK, GroupInv, NEW x \in Clients, NEW t \in Tasks, NEW m \in Members,
           NEW expect \in BOOLEAN, AttachesRunning(x, t, m, expect)
    PROVE  GroupInv'
<1>0. /\ GroupTyped /\ MemberList /\ MemberOwners /\ Endings /\ Recording /\ ArmedOnes
      /\ Callbacks /\ Asking /\ Borrowing /\ Balanced /\ x \in Threads
  BY GroupNames DEF GroupInv
<1>1. /\ todo[x] = <<>> /\ t \in holds[x] /\ "group" \in holds[x]
      /\ member[m].task = Nobody /\ ~group.closed /\ outcome[t] = "None"
      /\ attached' = attached \cup {t}
      /\ expected' = IF expect THEN expected \cup {t} ELSE expected
      /\ group' = [group EXCEPT !.members = <<m>> \o @, !.active = @ + 1]
      /\ taskMembers' = [taskMembers EXCEPT ![t] = <<m>> \o @]
      /\ member' = [member EXCEPT ![m] = [task |-> t, expect |-> expect,
                                          sent |-> group.cancelRequested]]
      /\ refs' = [refs EXCEPT ![t] = @ + 1, !["group"] = @ + 1]
      /\ todo' = [todo EXCEPT ![x] = LateCancel(t)]
      /\ UNCHANGED <<cancelled, ended, outcome, completions, completion, freed, holds>>
  BY DEF AttachesRunning
<1>2. group.cancelRequested \in BOOLEAN /\ group \in GroupRecord
      /\ member \in [Members -> MemberRecord]
  BY <1>0 DEF GroupTyped, GroupRecord
<1>3. /\ group'.members = <<m>> \o group.members /\ group'.active = group.active + 1
      /\ group'.closed = group.closed /\ group'.cancelRequested = group.cancelRequested
      /\ group'.implicitCancelled = group.implicitCancelled
      /\ group'.implicitFailed = group.implicitFailed
  BY <1>1, <1>2 DEF GroupRecord
<1>4. /\ member' \in [Members -> MemberRecord] /\ member'[m].task = t
      /\ member'[m].expect = expect /\ member'[m].sent = group.cancelRequested
      /\ \A l \in Members : l # m => member'[l] = member[l]
  <2> DEFINE r == [task |-> t, expect |-> expect, sent |-> group.cancelRequested]
  <2>1. r \in MemberRecord /\ r.task = t /\ r.expect = expect /\ r.sent = group.cancelRequested
    BY <1>2 DEF MemberRecord
  <2>2. member' = [member EXCEPT ![m] = r]
    BY <1>1
  <2> HIDE DEF r
  <2> QED
    BY <1>2, <2>1, <2>2
<1>5. /\ todo' \in [Threads -> Seq(GroupOps)]
      /\ \A k : k # "cancel" => \A y, d, a : At(y, d, k, a)' <=> At(y, d, k, a)
      /\ \A k, a : Awaits(k, a) => Awaits(k, a)'
      /\ group.cancelRequested => Awaits("cancel", t)'
      /\ Borrowing'
  <2>1. CASE group.cancelRequested
    <3>1. First(x, "cancel", t)
      BY <1>1, <2>1 DEF First, LateCancel
    <3>2. <<"cancel", t>> \in GroupOps
      BY OpArgs
    <3>3. Begun(x, "cancel", t)
      BY <1>0, <3>1, <3>2, StackFirst
    <3>4. Borrowing'
      BY <1>0, <1>1, <3>3 DEF Begun
    <3> QED
      BY <3>3, <3>4 DEF Begun
  <2>2. CASE ~group.cancelRequested
    <3>1. LateCancel(t) = <<>>
      BY <2>2 DEF LateCancel
    <3>2. todo' = todo
      BY <1>0, <1>1, <3>1 DEF GroupTyped
    <3>3. \A y, d, k, a : At(y, d, k, a)' <=> At(y, d, k, a)
      BY <3>2 DEF At
    <3>4. \A k, a : Awaits(k, a) => Awaits(k, a)'
      BY <3>3 DEF Awaits
    <3>5. Borrowing'
      BY <1>0, <1>1, <3>2, BorrowingKept
    <3> QED
      BY <1>0, <2>2, <3>2, <3>3, <3>4, <3>5 DEF GroupTyped
  <2> QED
    BY <2>1, <2>2
<1>6. /\ MemberList' /\ MemberOwners' /\ group'.members \in Seq(Members) /\ group'.active \in Nat
      /\ taskMembers' \in [Tasks -> Seq(Members)]
  BY <1>1, <1>3, <1>4, <1>5, AttachLists
<1>7. group' \in GroupRecord
  <2> DEFINE s == <<m>> \o group.members
             a == group.active + 1
  <2>1. s \in Seq(Members) /\ a \in Nat
    BY <1>3, <1>6
  <2>2. group' = [group EXCEPT !.members = s, !.active = a]
    BY <1>1
  <2> HIDE DEF s, a
  <2> QED
    BY <1>2, <2>1, <2>2 DEF GroupRecord
<1>8. Recording'
  BY <1>1, <1>3, <1>4, AttachRecording
<1>9. Balanced' /\ refs' \in [Objects -> Nat]
  <2>1. \A y, d, o : Frees(y, d, o)' <=> Frees(y, d, o)
    BY <1>5 DEF Frees
  <2> QED
    BY <1>0, <1>1, <1>4, <2>1, AttachCounts
<1>10. GroupTyped'
  BY <1>0, <1>1, <1>4, <1>5, <1>6, <1>7, <1>9 DEF GroupTyped
<1>11. Endings'
  BY <1>0, <1>1, <1>5, EndingsKept
<1>12. Callbacks'
  BY <1>0, <1>1, <1>5, CallbacksKept
<1>13. ArmedOnes'
  <2>1. \A c \in Completions :
          /\ ~(completion[c].state = "Armed" /\ completion[c].owner = "group")
          /\ ~(completion[c].state = "Ready" /\ completion[c].of = "group")
    BY <1>0, <1>1 DEF ArmedOnes
  <2> QED
    BY <1>0, <1>1, <2>1 DEF ArmedOnes, OneEach, Elements
<1>14. Asking'
  <2>1. ASSUME NEW l \in Members, member'[l].sent
        PROVE  \/ cancelled[member'[l].task] \/ ended[member'[l].task] # "None"
               \/ Awaits("cancel", member[l].task)'
    <3> PICK u : u = member'[l].task
      OBVIOUS
    <3>1. Awaits("cancel", u)' => Awaits("cancel", member[l].task)'
      BY DEF Awaits, At
    <3>2. CASE l = m
      BY <1>4, <1>5, <2>1, <3>1, <3>2
    <3>3. CASE l # m
      <4>1. member'[l] = member[l]
        BY <1>4, <3>3
      <4>2. cancelled[u] \/ ended[u] # "None" \/ Awaits("cancel", u)
        BY <1>0, <2>1, <4>1 DEF Asking
      <4> QED
        BY <1>5, <3>1, <4>2
    <3> QED
      BY <3>2, <3>3
  <2>2. ASSUME NEW l \in Members, group'.cancelRequested, member'[l].task # Nobody, ~member'[l].sent
        PROVE  Awaits("cancelNext", "group")'
    <3>1. l # m
      BY <1>3, <1>4, <2>2
    <3> QED
      BY <1>0, <1>3, <1>4, <1>5, <2>2, <3>1 DEF Asking
  <2> QED
    BY <1>1, <2>1, <2>2 DEF Asking
<1> QED
  BY <1>5, <1>6, <1>8, <1>9, <1>10, <1>11, <1>12, <1>13, <1>14 DEF GroupInv

\* task_group_attach.
LEMMA AttachStep ==
    ASSUME GroupConstantsOK, GroupInv, NEW x \in Clients, NEW t \in Tasks, NEW m \in Members,
           NEW expect \in BOOLEAN, Attach(x, t, m, expect)
    PROVE  GroupInv'
<1>1. CASE Published(t)
  <2>1. AttachesEnded(x, t, expect)
    BY <1>1 DEF AttachesEnded, Attach, Published, AttachEnded, taskVars
  <2> QED
    BY <2>1, AttachEndedStep
<1>2. CASE ~Published(t)
  <2>1. AttachesRunning(x, t, m, expect)
    BY <1>2 DEF AttachesRunning, Attach, Published, Idle, Do, taskVars
  <2> QED
    BY <2>1, AttachRunningStep
<1> QED
  BY <1>1, <1>2

-----------------------------------------------------------------------------
(* References are dropped *)

\* One reference less, and one owner.
LEMMA BalancedDrop ==
    ASSUME GroupConstantsOK, GroupTyped, Balanced, completion' = completion,
           NEW o \in Objects, refs[o] >= 1, refs' = [refs EXCEPT ![o] = @ - 1],
           freed' = (IF refs[o] = 1 THEN freed \cup {o} ELSE freed),
           \A q \in Objects :
             IsFiniteSet(Releasing(q))' /\ Owners(q)' = Owners(q) - (IF q = o THEN 1 ELSE 0)
    PROVE  Balanced' /\ refs' \in [Objects -> Nat] /\ freed' \subseteq Objects
<1>0. refs \in [Objects -> Nat] /\ freed \subseteq Objects
  BY DEF GroupTyped
<1>1. refs[o] \in Nat /\ refs[o] - 1 \in Nat
  BY <1>0
<1>2. /\ refs' \in [Objects -> Nat] /\ refs'[o] = refs[o] - 1
      /\ \A q \in Objects : q # o => refs'[q] = refs[q]
  BY <1>0, <1>1
<1>3. \A q \in Objects : Created(q)' <=> Created(q)
  BY DEF Created
<1>4. o \notin freed /\ Created(o)
  BY Referenced
<1>5. ASSUME NEW q \in Objects
      PROVE  /\ refs'[q] = Owners(q)' /\ (q \in freed' <=> refs'[q] = 0 /\ Created(q)')
             /\ ~Created(q)' => refs'[q] = 0
  <2>1. refs[q] = Owners(q) /\ (q \in freed <=> refs[q] = 0 /\ Created(q))
        /\ (~Created(q) => refs[q] = 0)
    BY DEF Balanced
  <2>2. CASE q = o
    <3>1. refs'[o] = 0 <=> refs[o] = 1
      BY <1>1, <1>2
    <3>2. o \in freed' <=> refs[o] = 1
      BY <1>4
    <3>3. Owners(q)' = refs[o] - 1
      BY <2>1, <2>2
    <3> QED
      BY <1>2, <1>3, <1>4, <2>2, <3>1, <3>2, <3>3
  <2>3. CASE q # o
    <3>1. Owners(q)' = Owners(q)
      <4>1. Owners(q) \in Nat
        BY <1>0, <2>1
      <4> QED
        BY <2>3, <4>1
    <3>2. q \in freed' <=> q \in freed
      BY <2>3
    <3> QED
      BY <1>2, <1>3, <2>1, <2>3, <3>1, <3>2
  <2> QED
    BY <2>2, <2>3
<1>6. freed' \subseteq Objects
  BY <1>0
<1>7. \A q \in Objects : IsFiniteSet(Releasing(q))'
  OBVIOUS
<1> QED
  BY <1>2, <1>5, <1>6, <1>7 DEF Balanced

\* A drop: the pending release is done; with i = 1 a completion is freed, and what it
\* observed is to be dropped instead.
Drops(x, n, o, u, i) ==
    /\ UNCHANGED <<outcome, member, completion, holds>>
    /\ x \in Threads /\ n \in Nat /\ o \in Objects /\ i \in {0, 1}
    /\ Frees(x, n, o) /\ refs' = [refs EXCEPT ![o] = @ - 1]
    /\ freed' = (IF refs[o] = 1 THEN freed \cup {o} ELSE freed)
    /\ i = 1 => /\ u # o /\ u \in Lists /\ refs[o] = 1 /\ o \in Completions
                /\ completion[o].owner = u /\ ~Frees(x, n, u)
    /\ i = 0 /\ refs[o] = 1 /\ o \in Completions => completion[o].owner = Nobody
    /\ \A y, d, q : Frees(y, d, q)' <=>
         (Frees(y, d, q) /\ ~(y = x /\ d = n /\ q = o)) \/ (i = 1 /\ y = x /\ d = n /\ q = u)

\* The owners after it.
LEMMA DropCounts ==
    ASSUME GroupConstantsOK, GroupTyped, Balanced, NEW x, NEW n, NEW o, NEW u, NEW i,
           Drops(x, n, o, u, i)
    PROVE  Balanced' /\ refs' \in [Objects -> Nat] /\ freed' \subseteq Objects
<1> USE DEF Drops
<1>0. refs[o] >= 1 /\ o \notin freed /\ Nobody \notin Objects
  BY Referenced, GroupNames
<1>1. ASSUME NEW q \in Objects
      PROVE  /\ IsFiniteSet(Releasing(q))'
             /\ Owners(q)' = Owners(q) - (IF q = o THEN 1 ELSE 0)
  <2>1. /\ IsFiniteSet(Releasing(q)) /\ Cardinality(Releasing(q)) \in Nat
        /\ Cardinality(Handed(q)) \in Nat /\ Cardinality(Joins(q)) \in Nat
        /\ Cardinality(Observing(q)) \in Nat /\ Kept(q) \in {0, 1} /\ Owners(q) \in Nat
    BY OwnerNumbers DEF Balanced
  <2> DEFINE k == IF q = o THEN 1 ELSE 0
             b == IF i = 1 /\ q = u THEN 1 ELSE 0
  <2>2. /\ IsFiniteSet(Releasing(q))'
        /\ Cardinality(Releasing(q))' = Cardinality(Releasing(q)) + (b - k)
    <3>1. CASE q = o
      <4>1. \A y, d : Frees(y, d, q)' <=> Frees(y, d, q) /\ ~(y = x /\ d = n)
        BY <3>1
      <4>2. /\ IsFiniteSet(Releasing(q))'
            /\ Cardinality(Releasing(q))' = Cardinality(Releasing(q)) - 1
        BY <2>1, <3>1, <4>1, ReleasingLoss
      <4>3. k = 1 /\ b = 0
        BY <3>1
      <4> QED
        BY <2>1, <4>2, <4>3
    <3>2. CASE q # o /\ i = 1 /\ q = u
      <4>1. \A y, d : Frees(y, d, q)' <=> Frees(y, d, q) \/ (y = x /\ d = n)
        BY <3>2
      <4>2. /\ IsFiniteSet(Releasing(q))'
            /\ Cardinality(Releasing(q))' = Cardinality(Releasing(q)) + 1
        BY <2>1, <3>2, <4>1, ReleasingGain
      <4>3. k = 0 /\ b = 1
        BY <3>2
      <4> QED
        BY <2>1, <4>2, <4>3
    <3>3. CASE q # o /\ ~(i = 1 /\ q = u)
      <4>1. \A y, d : Frees(y, d, q)' <=> Frees(y, d, q)
        BY <3>3
      <4>2. Releasing(q)' = Releasing(q)
        BY <4>1, ReleasingSame
      <4>3. k = 0 /\ b = 0
        BY <3>3
      <4> QED
        BY <2>1, <4>2, <4>3
    <3> QED
      BY <3>1, <3>2, <3>3
  <2>3. Joins(q)' = Joins(q)
    BY JoinsSame
  <2>4. Handed(q)' = Handed(q) /\ Kept(q)' = Kept(q)
    BY DEF Handed, Kept
  <2>5. Cardinality(Observing(q))' = Cardinality(Observing(q)) - b
    <3>1. CASE i = 1
      <4>1. freed' = freed \cup {o} /\ o \in Completions /\ completion[o].owner = u
        BY <3>1
      <4>2. Cardinality(Observing(q))' = Cardinality(Observing(q)) - (IF q = u THEN 1 ELSE 0)
        BY <1>0, <4>1, ObservingLoss
      <4> QED
        BY <3>1, <4>2
    <3>2. CASE i = 0
      <4>1. Observing(q)' = Observing(q)
        <5>1. CASE refs[o] = 1 /\ o \in Completions
          <6>1. completion[o].owner = Nobody /\ q # Nobody /\ freed' = freed \cup {o}
            BY <1>0, <3>2, <5>1
          <6> QED
            BY <6>1 DEF Observing
        <5>2. CASE ~(refs[o] = 1 /\ o \in Completions)
          <6>1. freed' \cap Completions = freed \cap Completions
            BY <5>2
          <6> QED
            BY <6>1 DEF Observing
        <5> QED
          BY <5>1, <5>2
      <4>2. b = 0
        BY <3>2
      <4> QED
        BY <2>1, <4>1, <4>2
    <3> QED
      BY <3>1, <3>2
  <2>6. k \in {0, 1} /\ b \in {0, 1}
    OBVIOUS
  <2>7. Owners(q)' = Owners(q) + (0 + (b - k) + 0 + (0 - b) + 0)
    <3> HIDE DEF k, b, Drops
    <3> DEFINE dr == b - k
               db == 0 - b
    <3>1. dr \in Int /\ db \in Int /\ 0 \in Int
      BY <2>6
    <3>2. /\ Cardinality(Handed(q))' = Cardinality(Handed(q)) + 0
          /\ Cardinality(Releasing(q))' = Cardinality(Releasing(q)) + dr
          /\ Cardinality(Joins(q))' = Cardinality(Joins(q)) + 0
          /\ Cardinality(Observing(q))' = Cardinality(Observing(q)) + db
          /\ Kept(q)' = Kept(q) + 0
      BY <2>1, <2>2, <2>3, <2>4, <2>5, <2>6
    <3> HIDE DEF dr, db
    <3>3. Owners(q)' = Owners(q) + (0 + dr + 0 + db + 0)
      BY <2>1, <3>1, <3>2, OwnersMoved
    <3> QED
      BY <3>3 DEF dr, db
  <2>8. Owners(q)' = Owners(q) - k
    <3> HIDE DEF k, b
    <3> QED
      BY <2>1, <2>6, <2>7
  <2> QED
    BY <2>2, <2>8
<1> QED
  BY <1>0, <1>1, BalancedDrop

\* One reference less; the last one frees the object.
LEMMA DropStep ==
    ASSUME GroupConstantsOK, GroupInv, NEW x \in Threads, Drop(x)
    PROVE  GroupInv'
<1>0. GroupTyped /\ ArmedOnes /\ Callbacks /\ Borrowing /\ Balanced
  BY DEF GroupInv
<1> PICK o : o = Arg(x)
  OBVIOUS
<1> PICK n : n = Top(x)
  OBVIOUS
<1>1. /\ Due(x, "drop") /\ refs' = [refs EXCEPT ![o] = @ - 1]
      /\ IF refs[o] = 1
         THEN /\ freed' = freed \cup {o}
              /\ todo' = [todo EXCEPT ![x] = OwnerRelease(o) \o Tail(todo[x])]
         ELSE todo' = [todo EXCEPT ![x] = Tail(todo[x])] /\ freed' = freed
      /\ UNCHANGED <<cancelled, ended, outcome, completions, group, member, taskMembers>>
      /\ UNCHANGED <<completion, holds, attached, expected>>
  BY DEF Drop, Do, taskVars, groupVars, history
<1>2. o \in Objects
  <2>1. <<"drop", o>> \in GroupOps
    BY <1>0, <1>1, DueOp
  <2> QED
    BY <2>1, OpArgs
<1>3. freed' = (IF refs[o] = 1 THEN freed \cup {o} ELSE freed)
  BY <1>1
<1>4. /\ todo' \in [Threads -> Seq(GroupOps)] /\ Borrowing'
      /\ \A k : k # "drop" => \A y, d, a : At(y, d, k, a)' <=> At(y, d, k, a)
      /\ \A k, a : k # "drop" /\ Awaits(k, a) => Awaits(k, a)'
      /\ Balanced' /\ refs' \in [Objects -> Nat] /\ freed' \subseteq Objects
  <2>1. CASE refs[o] = 1 /\ o \in Completions /\ completion[o].owner # Nobody
    <3> PICK u : u = completion[o].owner
      OBVIOUS
    <3>1. u \in Lists /\ u # o /\ <<"drop", u>> \in GroupOps
      <4>1. u \in Lists
        BY <1>0, <2>1 DEF GroupTyped, CompletionRecord
      <4> QED
        BY <2>1, <4>1, GroupNames, OpArgs
    <3>2. Swap(x, "drop", u)
      BY <1>1, <2>1 DEF Swap, OwnerRelease
    <3>3. Swapped(x, n, "drop", o, "drop", u)
      BY <1>0, <1>1, <3>1, <3>2, StackOne
    <3>4. /\ n \in Nat /\ At(x, n, "drop", o)
          /\ \A k, a : At(x, n, k, a) => k = "drop" /\ a = o
          /\ \A y, d, k, a : At(y, d, k, a)' <=>
               (At(y, d, k, a) /\ ~(y = x /\ d = n)) \/ (y = x /\ d = n /\ k = "drop" /\ a = u)
      BY <3>3 DEF Swapped
    <3>5. Borrowing'
      BY <1>0, <1>1, <3>3 DEF Swapped
    <3>6. /\ Frees(x, n, o) /\ ~Frees(x, n, u)
          /\ \A y, d, q : Frees(y, d, q)' <=>
               (Frees(y, d, q) /\ ~(y = x /\ d = n /\ q = o)) \/ (y = x /\ d = n /\ q = u)
      BY <3>1, <3>4 DEF Frees
    <3> PICK i : i = 1
      OBVIOUS
    <3>7. \A y, d, q : Frees(y, d, q)' <=>
            \/ Frees(y, d, q) /\ ~(y = x /\ d = n /\ q = o)
            \/ i = 1 /\ y = x /\ d = n /\ q = u
      BY <3>6
    <3>8. Drops(x, n, o, u, i)
      BY <1>1, <1>2, <1>3, <2>1, <3>1, <3>4, <3>6, <3>7 DEF Drops
    <3>9. Balanced' /\ refs' \in [Objects -> Nat] /\ freed' \subseteq Objects
      BY <1>0, <3>8, DropCounts
    <3> QED
      BY <3>3, <3>5, <3>9 DEF Swapped
  <2>2. CASE ~(refs[o] = 1 /\ o \in Completions /\ completion[o].owner # Nobody)
    <3>1. Pop(x)
      <4>1. CASE refs[o] = 1
        <5>1. OwnerRelease(o) = <<>>
          BY <2>2, <4>1 DEF OwnerRelease
        <5>2. Tail(todo[x]) \in Seq(GroupOps)
          <6>1. todo[x] \in Seq(GroupOps) /\ todo[x] # <<>>
            BY <1>0, <1>1 DEF GroupTyped, Due
          <6> QED
            BY <6>1, HeadTailProperties
        <5>3. <<>> \o Tail(todo[x]) = Tail(todo[x])
          BY <5>2, ConcatEmptySeq
        <5> QED
          BY <1>1, <4>1, <5>1, <5>3 DEF Pop
      <4>2. CASE refs[o] # 1
        BY <1>1, <4>2 DEF Pop
      <4> QED
        BY <4>1, <4>2
    <3>2. Popped1(x, n, "drop", o)
      BY <1>0, <1>1, <3>1, StackPop
    <3>3. /\ n \in Nat /\ At(x, n, "drop", o)
          /\ \A k, a : At(x, n, k, a) => k = "drop" /\ a = o
          /\ \A y, d, k, a : At(y, d, k, a)' <=> At(y, d, k, a) /\ ~(y = x /\ d = n)
      BY <3>2 DEF Popped1
    <3>4. Borrowing'
      BY <1>0, <1>1, <3>2 DEF Popped1
    <3>5. /\ Frees(x, n, o)
          /\ \A y, d, q : Frees(y, d, q)' <=> Frees(y, d, q) /\ ~(y = x /\ d = n /\ q = o)
      BY <3>3 DEF Frees
    <3> PICK i : i = 0
      OBVIOUS
    <3> PICK u : u = Nobody
      OBVIOUS
    <3>6. \A y, d, q : Frees(y, d, q)' <=>
            \/ Frees(y, d, q) /\ ~(y = x /\ d = n /\ q = o)
            \/ i = 1 /\ y = x /\ d = n /\ q = u
      BY <3>5
    <3>7. Drops(x, n, o, u, i)
      BY <1>1, <1>2, <1>3, <2>2, <3>3, <3>5, <3>6 DEF Drops
    <3>8. Balanced' /\ refs' \in [Objects -> Nat] /\ freed' \subseteq Objects
      BY <1>0, <3>7, DropCounts
    <3> QED
      BY <3>2, <3>4, <3>8 DEF Popped1
  <2> QED
    BY <2>1, <2>2
<1>5. GroupTyped'
  BY <1>0, <1>1, <1>4 DEF GroupTyped
<1>6. MemberList' /\ MemberOwners' /\ Endings' /\ Recording' /\ ArmedOnes' /\ Asking'
  BY <1>1, <1>4, GroupQuiet
<1>7. Callbacks'
  BY <1>0, <1>1, <1>4, CallbacksKept
<1> QED
  BY <1>4, <1>5, <1>6, <1>7 DEF GroupInv

-----------------------------------------------------------------------------
(* Rows of operations *)

\* The operations of p are those of E, each once.
Lays(p, E) ==
    /\ p \in Seq(GroupOps)
    /\ \A d, k, a : Has(p, d, k, a) => d \in Nat /\ d < Len(p) /\ <<k, a>> \in E
    /\ \A k, a : <<k, a>> \in E => \E d \in Nat : Has(p, d, k, a)
    /\ \A d, e, k, a : Has(p, d, k, a) /\ Has(p, e, k, a) => d = e

\* One operation.
LEMMA LaysOne ==
    ASSUME NEW l, NEW b, <<l, b>> \in GroupOps
    PROVE  Lays(<< <<l, b>> >>, {<<l, b>>})
<1> DEFINE p == << <<l, b>> >>
<1>1. \A d, k, a : Has(p, d, k, a) <=> d = 0 /\ k = l /\ a = b
  BY HasOne
<1>2. p \in Seq(GroupOps) /\ Len(p) = 1
  OBVIOUS
<1> HIDE DEF p
<1>3. \A k, a : <<k, a>> \in {<<l, b>>} <=> k = l /\ a = b
  OBVIOUS
<1>4. Lays(p, {<<l, b>>})
  BY <1>1, <1>2, <1>3 DEF Lays
<1> QED
  BY <1>4 DEF p

\* The same operation for each value of a list.
LEMMA LaysRow ==
    ASSUME NEW S, NEW s \in Seq(S), OneEach(s), NEW l, \A v \in S : <<l, v>> \in GroupOps
    PROVE  Lays([i \in DOMAIN s |-> <<l, s[i]>>], {l} \X Elements(s))
<1> DEFINE p == [i \in DOMAIN s |-> <<l, s[i]>>]
           n == Len(s)
<1>1. n \in Nat /\ DOMAIN s = 1..n /\ \A i \in 1..n : s[i] \in S
  BY LenProperties
<1>2. DOMAIN p = 1..n /\ \A i \in 1..n : p[i] = <<l, s[i]>> /\ p[i] \in GroupOps
  BY <1>1
<1> HIDE DEF n
<1>3. p \in Seq(GroupOps) /\ Len(p) = n
  <2>1. p \in [1..n -> GroupOps]
    BY <1>1, <1>2
  <2>2. p \in Seq(GroupOps)
    BY <1>1, <2>1
  <2>3. Len(p) \in Nat /\ DOMAIN p = 1..Len(p)
    BY <2>2, LenProperties
  <2> HIDE DEF p
  <2> QED
    BY <1>1, <1>2, <2>2, <2>3
<1> HIDE DEF p
<1>4. ASSUME NEW d, NEW k, NEW a
      PROVE  Has(p, d, k, a) <=> d \in Nat /\ d < n /\ k = l /\ a = s[n - d]
  <2>1. CASE d \in Nat /\ d < n
    <3>1. n - d \in 1..n
      BY <1>1, <2>1
    <3>2. p[n - d] = <<l, s[n - d]>>
      BY <1>2, <3>1
    <3> DEFINE e == s[n - d]
    <3>3. Has(p, d, k, a) <=> <<l, e>> = <<k, a>>
      BY <1>3, <2>1, <3>2 DEF Has, Level
    <3> HIDE DEF e
    <3>4. Has(p, d, k, a) <=> k = l /\ a = e
      BY <3>3
    <3> QED
      BY <2>1, <3>4 DEF e
  <2>2. CASE ~(d \in Nat /\ d < n)
    BY <1>3, <2>2 DEF Has, Level
  <2> QED
    BY <2>1, <2>2
<1>5. \A d, k, a : Has(p, d, k, a) => d \in Nat /\ d < Len(p) /\ <<k, a>> \in {l} \X Elements(s)
  <2> SUFFICES ASSUME NEW d, NEW k, NEW a, Has(p, d, k, a)
               PROVE  d \in Nat /\ d < Len(p) /\ k = l /\ a \in Elements(s)
    OBVIOUS
  <2>1. d \in Nat /\ d < n /\ k = l /\ a = s[n - d] /\ n - d \in 1..n
    BY <1>1, <1>4
  <2> QED
    BY <1>1, <1>3, <2>1 DEF Elements
<1>6. ASSUME NEW k, NEW a, <<k, a>> \in {l} \X Elements(s) PROVE \E d \in Nat : Has(p, d, k, a)
  <2>1. PICK i \in 1..n : a = s[i]
    BY <1>1, <1>6 DEF Elements
  <2>2. n - i \in Nat /\ n - i < n /\ n - (n - i) = i /\ k = l
    BY <1>1, <1>6
  <2>3. Has(p, n - i, k, a)
    BY <1>4, <2>1, <2>2
  <2> QED
    BY <2>2, <2>3
<1>7. ASSUME NEW d, NEW e, NEW k, NEW a, Has(p, d, k, a), Has(p, e, k, a) PROVE d = e
  <2>1. d \in Nat /\ e \in Nat /\ n - d \in 1..n /\ n - e \in 1..n /\ s[n - d] = s[n - e]
    BY <1>1, <1>4, <1>7
  <2>2. n - d = n - e
    BY <1>1, <2>1 DEF OneEach
  <2> QED
    BY <1>1, <2>1, <2>2
<1>8. Lays(p, {l} \X Elements(s))
  BY <1>3, <1>5, <1>6, <1>7 DEF Lays
<1> QED
  BY <1>8 DEF p

\* Two rows, one after the other.
LEMMA LaysJoin ==
    ASSUME NEW p, NEW E, Lays(p, E), NEW r, NEW F, Lays(r, F), E \cap F = {}
    PROVE  Lays(p \o r, E \cup F)
<1> DEFINE n == Len(r)
           s == p \o r
<1>1. p \in Seq(GroupOps) /\ r \in Seq(GroupOps)
  BY DEF Lays
<1>2. n \in Nat /\ Len(p) \in Nat /\ s \in Seq(GroupOps) /\ Len(s) = Len(p) + n
  BY <1>1, ConcatProperties, LenProperties
<1>3. ASSUME NEW d, NEW k, NEW a
      PROVE  Has(s, d, k, a) <=> Has(r, d, k, a) \/ (d \in Nat /\ d >= n /\ Has(p, d - n, k, a))
  BY <1>1, LevelJoin DEF Has
<1> HIDE DEF s, n
<1>4. \A d, k, a : Has(s, d, k, a) => d \in Nat /\ d < Len(s) /\ <<k, a>> \in E \cup F
  <2> SUFFICES ASSUME NEW d, NEW k, NEW a, Has(s, d, k, a)
               PROVE  d \in Nat /\ d < Len(s) /\ <<k, a>> \in E \cup F
    OBVIOUS
  <2>1. CASE Has(r, d, k, a)
    <3>1. d \in Nat /\ d < n /\ <<k, a>> \in F
      BY <2>1 DEF Lays, n
    <3> QED
      BY <1>2, <3>1
  <2>2. CASE d \in Nat /\ d >= n /\ Has(p, d - n, k, a)
    <3>1. d - n \in Nat /\ d - n < Len(p) /\ <<k, a>> \in E
      BY <2>2 DEF Lays
    <3> QED
      BY <1>2, <2>2, <3>1
  <2> QED
    BY <1>3, <2>1, <2>2
<1>5. ASSUME NEW k, NEW a, <<k, a>> \in E \cup F PROVE \E d \in Nat : Has(s, d, k, a)
  <2>1. CASE <<k, a>> \in F
    <3>1. PICK d \in Nat : Has(r, d, k, a)
      BY <2>1 DEF Lays
    <3> QED
      BY <1>3, <3>1
  <2>2. CASE <<k, a>> \in E
    <3>1. PICK d \in Nat : Has(p, d, k, a)
      BY <2>2 DEF Lays
    <3>2. d + n \in Nat /\ d + n >= n /\ (d + n) - n = d
      BY <1>2
    <3> QED
      BY <1>3, <3>1, <3>2
  <2> QED
    BY <1>5, <2>1, <2>2
<1>6. ASSUME NEW d, NEW e, NEW k, NEW a, Has(s, d, k, a), Has(s, e, k, a) PROVE d = e
  <2>1. \A b : Has(r, b, k, a) => <<k, a>> \in F
    BY DEF Lays
  <2>2. \A b : Has(p, b, k, a) => <<k, a>> \in E
    BY DEF Lays
  <2>3. CASE <<k, a>> \in F
    <3>1. Has(r, d, k, a) /\ Has(r, e, k, a)
      BY <1>3, <1>6, <2>2, <2>3
    <3> QED
      BY <3>1 DEF Lays
  <2>4. CASE <<k, a>> \notin F
    <3>1. d \in Nat /\ e \in Nat /\ Has(p, d - n, k, a) /\ Has(p, e - n, k, a)
      BY <1>3, <1>6, <2>1, <2>4
    <3>2. d - n = e - n
      BY <3>1 DEF Lays
    <3> QED
      BY <1>2, <3>1, <3>2
  <2> QED
    BY <2>3, <2>4
<1>7. Lays(s, E \cup F)
  BY <1>2, <1>4, <1>5, <1>6 DEF Lays
<1> QED
  BY <1>7 DEF s

\* A thread has done its first operation and has those of E in its place.
Laid(x, n, k0, a0, E) ==
    /\ todo' \in [Threads -> Seq(GroupOps)]
    /\ n \in Nat /\ At(x, n, k0, a0)
    /\ \A k, a : At(x, n, k, a) => k = k0 /\ a = a0
    /\ \A d, k, a : At(x, d, k, a) => d <= n
    /\ \A y, d, k, a : At(y, d, k, a) /\ ~(y = x /\ d = n) => At(y, d, k, a)'
    /\ \A y, d, k, a : At(y, d, k, a)' =>
         \/ At(y, d, k, a) /\ ~(y = x /\ d = n)
         \/ y = x /\ d \in Nat /\ d >= n /\ <<k, a>> \in E
    /\ \A k, a : <<k, a>> \in E => \E d \in Nat : d >= n /\ At(x, d, k, a)'
    /\ \A d, e, k, a : d >= n /\ e >= n /\ At(x, d, k, a)' /\ At(x, e, k, a)' => d = e
    /\ \A k : k # k0 /\ (\A a : <<k, a>> \notin E) => \A y, d, a : At(y, d, k, a)' <=> At(y, d, k, a)
    /\ \A k, a : k # k0 /\ Awaits(k, a) => Awaits(k, a)'
    /\ Borrowing /\ holds' = holds
         /\ (\A a : \A k \in {"cancel", "requestCancel", "cancelNext"} : <<k, a>> \notin E)
         => Borrowing'

\* A row of operations in place of the first.
LEMMA StackLays ==
    ASSUME GroupTyped, NEW x \in Threads, NEW k0, Due(x, k0),
           NEW a0, a0 = Arg(x), NEW p, NEW E, Lays(p, E), NEW n, n = Top(x),
           todo' = [todo EXCEPT ![x] = p \o Tail(todo[x])]
    PROVE  Laid(x, n, k0, a0, E)
<1>1. p \in Seq(GroupOps)
  BY DEF Lays
<1>2. /\ todo' \in [Threads -> Seq(GroupOps)]
      /\ n \in Nat /\ At(x, n, k0, a0) /\ <<k0, a0>> \in GroupOps /\ Replaces(x, n, p)
  BY <1>1, StackNext
<1>3. \A k, a : At(x, n, k, a) => k = k0 /\ a = a0
  BY <1>2, AtType
<1>4. /\ \A d, k, a : At(x, d, k, a) => d <= n
      /\ \A y, d, k, a : At(y, d, k, a)' <=>
           \/ At(y, d, k, a) /\ ~(y = x /\ d = n)
           \/ y = x /\ d \in Nat /\ d >= n /\ Has(p, d - n, k, a)
  BY <1>2 DEF Replaces
<1>5. \A y, d, k, a : At(y, d, k, a)' =>
         \/ At(y, d, k, a) /\ ~(y = x /\ d = n)
         \/ y = x /\ d \in Nat /\ d >= n /\ <<k, a>> \in E
  BY <1>4 DEF Lays
<1>6. ASSUME NEW k, NEW a, <<k, a>> \in E PROVE \E d \in Nat : d >= n /\ At(x, d, k, a)'
  <2>1. PICK e \in Nat : Has(p, e, k, a)
    BY <1>6 DEF Lays
  <2>2. e + n \in Nat /\ e + n >= n /\ (e + n) - n = e
    BY <1>2
  <2> QED
    BY <1>4, <2>1, <2>2
<1>7. ASSUME NEW d, NEW e, NEW k, NEW a, d >= n, e >= n, At(x, d, k, a)', At(x, e, k, a)'
      PROVE  d = e
  <2>1. d \in Nat /\ e \in Nat
    BY <1>7 DEF At, Level
  <2>2. ASSUME NEW f \in {d, e} PROVE Has(p, f - n, k, a)
    <3>1. At(x, f, k, a) => f = n
      BY <1>2, <1>4, <1>7, <2>1, <2>2
    <3> QED
      BY <1>4, <1>7, <2>2, <3>1
  <2>3. d - n = e - n
    BY <2>2 DEF Lays
  <2> QED
    BY <1>2, <2>1, <2>3
<1>8. ASSUME NEW k, k # k0, \A a : <<k, a>> \notin E, NEW y, NEW d, NEW a
      PROVE  At(y, d, k, a)' <=> At(y, d, k, a)
  <2>1. At(y, d, k, a)' => At(y, d, k, a)
    BY <1>5, <1>8
  <2>2. At(y, d, k, a) => ~(y = x /\ d = n)
    BY <1>3, <1>8
  <2>3. At(y, d, k, a) => At(y, d, k, a)'
    BY <1>4, <2>2
  <2> QED
    BY <2>1, <2>3
<1>9. ASSUME NEW k, NEW a, k # k0, Awaits(k, a) PROVE Awaits(k, a)'
  BY <1>3, <1>4, <1>9 DEF Awaits
<1>10. ASSUME Borrowing, holds' = holds,
              \A a : \A k \in {"cancel", "requestCancel", "cancelNext"} : <<k, a>> \notin E
       PROVE  Borrowing'
  <2>1. \A d, a : \A k \in {"cancel", "requestCancel", "cancelNext"} : ~Has(p, d, k, a)
    BY <1>10 DEF Lays
  <2> QED
    BY <1>2, <1>10, <2>1, BorrowingNext
<1> QED
  BY <1>2, <1>3, <1>4, <1>5, <1>6, <1>7, <1>8, <1>9, <1>10 DEF Laid

\* What a row of operations adds to the releases of an object that is not the first
\* operation's to release.
LEMMA LaidFrees ==
    ASSUME NEW x \in Threads, NEW n, NEW k0, NEW a0, NEW E, Laid(x, n, k0, a0, E),
           k0 \notin {"wake", "release", "drop"}, NEW o, IsFiniteSet(Releasing(o))
    PROVE  /\ (\A k \in {"wake", "release", "drop"} : <<k, o>> \notin E) =>
                IsFiniteSet(Releasing(o))' /\ Cardinality(Releasing(o))' = Cardinality(Releasing(o))
           /\ (\E l \in {"wake", "release", "drop"} :
                 <<l, o>> \in E /\ \A k \in {"wake", "release", "drop"} : <<k, o>> \in E => k = l) =>
                /\ IsFiniteSet(Releasing(o))'
                /\ Cardinality(Releasing(o))' = Cardinality(Releasing(o)) + 1
<1>1. /\ n \in Nat /\ \A k, a : At(x, n, k, a) => k = k0
      /\ \A d, k, a : At(x, d, k, a) => d <= n
      /\ \A y, d, k, a : At(y, d, k, a) /\ ~(y = x /\ d = n) => At(y, d, k, a)'
      /\ \A y, d, k, a : At(y, d, k, a)' =>
           \/ At(y, d, k, a) /\ ~(y = x /\ d = n)
           \/ y = x /\ d \in Nat /\ d >= n /\ <<k, a>> \in E
      /\ \A k, a : <<k, a>> \in E => \E d \in Nat : d >= n /\ At(x, d, k, a)'
      /\ \A d, e, k, a : d >= n /\ e >= n /\ At(x, d, k, a)' /\ At(x, e, k, a)' => d = e
  BY DEF Laid
<1>2. \A y, d : Frees(y, d, o) => ~(y = x /\ d = n) /\ Frees(y, d, o)'
  BY <1>1 DEF Frees
<1>3. ASSUME \A k \in {"wake", "release", "drop"} : <<k, o>> \notin E
      PROVE  IsFiniteSet(Releasing(o))' /\ Cardinality(Releasing(o))' = Cardinality(Releasing(o))
  <2>1. \A y, d : Frees(y, d, o)' <=> Frees(y, d, o)
    BY <1>1, <1>2, <1>3 DEF Frees
  <2>2. Releasing(o)' = Releasing(o)
    BY <2>1, ReleasingSame
  <2> QED
    BY <2>2
<1>4. ASSUME NEW l \in {"wake", "release", "drop"}, <<l, o>> \in E,
             \A k \in {"wake", "release", "drop"} : <<k, o>> \in E => k = l
      PROVE  /\ IsFiniteSet(Releasing(o))'
             /\ Cardinality(Releasing(o))' = Cardinality(Releasing(o)) + 1
  <2>1. PICK e \in Nat : e >= n /\ At(x, e, l, o)'
    BY <1>1, <1>4
  <2>2. ~Frees(x, e, o)
    <3>1. \A k, a : At(x, e, k, a) => e = n
      BY <1>1, <2>1
    <3> QED
      BY <1>1, <3>1 DEF Frees
  <2>3. Frees(x, e, o)'
    BY <1>4, <2>1 DEF Frees
  <2>4. ASSUME NEW y, NEW d, Frees(y, d, o)' PROVE Frees(y, d, o) \/ (y = x /\ d = e)
    <3>1. PICK k \in {"wake", "release", "drop"} : At(y, d, k, o)'
      BY <2>4 DEF Frees
    <3>2. CASE At(y, d, k, o)
      BY <3>2 DEF Frees
    <3>3. CASE y = x /\ d \in Nat /\ d >= n /\ <<k, o>> \in E
      BY <1>1, <1>4, <2>1, <3>1, <3>3
    <3> QED
      BY <1>1, <3>1, <3>2, <3>3
  <2>5. \A y, d : Frees(y, d, o)' <=> Frees(y, d, o) \/ (y = x /\ d = e)
    BY <1>2, <2>3, <2>4
  <2> QED
    BY <2>2, <2>5, ReleasingGain
<1> QED
  BY <1>3, <1>4

-----------------------------------------------------------------------------
(* Publication *)

\* The completions C that publication makes ready: those in the list of o if it is taken.
Readies(o, C, take) ==
    /\ completions' \in [Lists -> Seq(Completions)]
    /\ \A u \in Lists : completions'[u] = IF u = o /\ take THEN <<>> ELSE completions[u]
    /\ \A c : c \in C <=> take /\ c \in Elements(completions[o])
    /\ C \subseteq Completions
    /\ completion' \in [Completions -> CompletionRecord]
    /\ \A c \in Completions : /\ completion'[c].state = IF c \in C THEN "Ready" ELSE completion[c].state
                              /\ completion'[c].owner = completion[c].owner
                              /\ completion'[c].of = completion[c].of
                              /\ completion'[c].woke = completion[c].woke
                              /\ completion'[c].released = completion[c].released

\* It does so when it empties the list and marks what was in it.
LEMMA ReadyOnes ==
    ASSUME GroupTyped, NEW o \in Lists, NEW take \in BOOLEAN, NEW cs,
           cs = IF take THEN completions[o] ELSE <<>>, completion' = Ready(cs),
           completions' = [completions EXCEPT ![o] = IF take THEN <<>> ELSE @]
    PROVE  Readies(o, Elements(cs), take)
<1>0. /\ completions \in [Lists -> Seq(Completions)] /\ <<>> \in Seq(Completions)
      /\ completion \in [Completions -> CompletionRecord]
  BY DEF GroupTyped
<1>1. /\ completions' \in [Lists -> Seq(Completions)]
      /\ \A u \in Lists : completions'[u] = IF u = o /\ take THEN <<>> ELSE completions[u]
  BY <1>0
<1>2. \A v : v \notin Elements(<<>>)
  BY DEF Elements
<1> DEFINE C == Elements(cs)
<1>3. \A c : c \in C <=> take /\ c \in Elements(completions[o])
  BY <1>2
<1>4. C \subseteq Completions
  <2>1. cs \in Seq(Completions)
    BY <1>0
  <2> QED
    BY <2>1, LenProperties DEF Elements
<1>5. ASSUME NEW c \in Completions
      PROVE  /\ completion'[c] \in CompletionRecord
             /\ completion'[c].state = IF c \in C THEN "Ready" ELSE completion[c].state
             /\ completion'[c].owner = completion[c].owner
             /\ completion'[c].of = completion[c].of
             /\ completion'[c].woke = completion[c].woke
             /\ completion'[c].released = completion[c].released
  <2> DEFINE r == [completion[c] EXCEPT !.state = "Ready"]
  <2>1. completion[c] \in CompletionRecord
    BY <1>0
  <2>2. /\ r \in CompletionRecord /\ r.state = "Ready" /\ r.owner = completion[c].owner
        /\ r.of = completion[c].of /\ r.woke = completion[c].woke
        /\ r.released = completion[c].released
    BY <2>1 DEF CompletionRecord
  <2>3. completion'[c] = IF c \in C THEN r ELSE completion[c]
    BY DEF Ready
  <2> HIDE DEF r, C
  <2> QED
    BY <2>1, <2>2, <2>3
<1>6. completion' \in [Completions -> CompletionRecord]
  <2>1. completion' = [c \in Completions |-> completion'[c]]
    BY DEF Ready
  <2> QED
    BY <1>5, <2>1
<1> HIDE DEF C
<1>7. Readies(o, C, take)
  BY <1>1, <1>3, <1>4, <1>5, <1>6 DEF Readies
<1> QED
  BY <1>7 DEF C

\* The armed completions are those still in a list.
LEMMA ReadyArmed ==
    ASSUME GroupTyped, ArmedOnes, NEW o \in Lists, NEW C, NEW take \in BOOLEAN,
           Readies(o, C, take),
           \A t \in Tasks : outcome'[t] = outcome[t] \/ (t = o /\ take),
           \A c \in Completions : completion'[c].state = "Armed" /\ completion[c].owner = "group" =>
             group'.closed /\ group'.active # 0,
           \A c \in Completions : completion'[c].state = "Ready" /\ completion[c].of = "group" =>
             group'.closed /\ group'.active = 0
    PROVE  ArmedOnes'
<1> USE DEF Readies
<1>1. \A u \in Lists : OneEach(completions'[u])
  <2>1. OneEach(<<>>)
    BY DEF OneEach
  <2> QED
    BY <2>1 DEF ArmedOnes
<1>2. \A v : v \notin Elements(<<>>)
  BY DEF Elements
<1>3. ASSUME NEW u \in Lists, NEW c \in Elements(completions'[u])
      PROVE  completion'[c].state = "Armed" /\ completion'[c].owner = u
  <2>1. ~(u = o /\ take) /\ c \in Elements(completions[u])
    BY <1>2, <1>3
  <2>2. completion[c].state = "Armed" /\ completion[c].owner = u
    BY <2>1 DEF ArmedOnes
  <2>3. c \in Completions
    <3>1. completions[u] \in Seq(Completions)
      BY DEF GroupTyped
    <3> QED
      BY <2>1, <3>1, LenProperties DEF Elements
  <2>4. c \notin C
    <3>1. c \in C => take /\ completion[c].owner = o
      BY DEF ArmedOnes
    <3> QED
      BY <2>1, <2>2, <3>1
  <2> QED
    BY <2>2, <2>3, <2>4
<1>4. ASSUME NEW c \in Completions, completion'[c].state = "Armed"
      PROVE  /\ completion'[c].owner \in Lists
             /\ c \in Elements(completions'[completion'[c].owner])
             /\ completion'[c].owner \in Tasks => outcome'[completion'[c].owner] = "None"
  <2> PICK u : u = completion[c].owner
    OBVIOUS
  <2>1. c \notin C /\ completion[c].state = "Armed" /\ completion'[c].owner = u
    BY <1>4
  <2>2. u \in Lists /\ c \in Elements(completions[u])
        /\ (u \in Tasks => outcome[u] = "None")
    BY <2>1 DEF ArmedOnes
  <2>3. ~(u = o /\ take)
    BY <2>1, <2>2
  <2>4. completions'[u] = completions[u] /\ (u \in Tasks => outcome'[u] = outcome[u])
    BY <2>2, <2>3
  <2> QED
    BY <2>1, <2>2, <2>4
<1>5. \A c \in Completions :
        /\ completion'[c].owner # Nobody => completion'[c].of = completion'[c].owner
        /\ completion'[c].state = "None" => completion'[c].owner = Nobody
        /\ completion'[c].state = "Armed" /\ completion'[c].owner = "group" =>
             group'.closed /\ group'.active # 0
        /\ completion'[c].state = "Ready" /\ completion'[c].of = "group" =>
             group'.closed /\ group'.active = 0
  BY DEF ArmedOnes
<1> QED
  BY <1>1, <1>3, <1>4, <1>5 DEF ArmedOnes, OneEach, Elements

\* They are woken by the thread that publishes.
LEMMA ReadyCallbacks ==
    ASSUME GroupConstantsOK, GroupTyped, ArmedOnes, Callbacks, NEW o \in Lists, NEW C,
           NEW take \in BOOLEAN, Readies(o, C, take),
           NEW x, NEW n, NEW k0, NEW a0, NEW E, Laid(x, n, k0, a0, E), k0 \notin {"wake", "release"},
           \A c : <<"wake", c>> \in E <=> c \in C, \A c : <<"release", c>> \notin E
    PROVE  Callbacks'
<1>0. /\ \A y, d, k, a : At(y, d, k, a)' =>
           \/ At(y, d, k, a) /\ ~(y = x /\ d = n)
           \/ y = x /\ d \in Nat /\ d >= n /\ <<k, a>> \in E
      /\ \A k, a : <<k, a>> \in E => \E d \in Nat : d >= n /\ At(x, d, k, a)'
      /\ \A d, e, k, a : d >= n /\ e >= n /\ At(x, d, k, a)' /\ At(x, e, k, a)' => d = e
      /\ \A k : k # k0 /\ (\A a : <<k, a>> \notin E) => \A y, d, a : At(y, d, k, a)' <=> At(y, d, k, a)
      /\ \A k, a : k # k0 /\ Awaits(k, a) => Awaits(k, a)'
      /\ At(x, n, k0, a0)
  BY DEF Laid
<1>1. /\ C \subseteq Completions
      /\ \A c \in Completions : /\ completion'[c].state = IF c \in C THEN "Ready" ELSE completion[c].state
                                /\ completion'[c].owner = completion[c].owner
                                /\ completion'[c].woke = completion[c].woke
                                /\ completion'[c].released = completion[c].released
  BY DEF Readies
<1>2. \A c \in C : completion[c].state = "Armed" /\ completion[c].owner # Nobody
                   /\ completion[c].woke = 0 /\ completion[c].released = 0
  <2>1. \A c \in C : completion[c].state = "Armed" /\ completion[c].owner = o
    BY DEF Readies, ArmedOnes
  <2>2. o # Nobody
    BY GroupNames
  <2> QED
    BY <1>1, <2>1, <2>2 DEF Callbacks
<1>3. \A y, d, c : CallsBack(y, d, c) => c \in Completions /\ c \notin C
  <2>1. \A y, d, k, a : At(y, d, k, a) /\ k \in {"wake", "release"} => a \in Completions
    BY AtType, OpArgs
  <2>2. \A y, d, c : CallsBack(y, d, c) => completion[c].state # "Armed"
    BY DEF CallsBack, Callbacks
  <2> QED
    BY <1>2, <2>1, <2>2 DEF CallsBack
<1>4. \A y, d, c : At(y, d, "release", c)' <=> At(y, d, "release", c)
  BY <1>0
<1>5. \A y, d, c : At(y, d, "wake", c)' =>
         At(y, d, "wake", c) \/ (y = x /\ d \in Nat /\ d >= n /\ c \in C)
  BY <1>0
<1>6. ASSUME NEW y, NEW z, NEW d, NEW e, NEW c, CallsBack(y, d, c)', CallsBack(z, e, c)'
      PROVE  y = z /\ d = e
  <2>1. CASE c \in C
    <3>1. /\ At(y, d, "wake", c)' /\ y = x /\ d >= n
          /\ At(z, e, "wake", c)' /\ z = x /\ e >= n
      BY <1>3, <1>4, <1>5, <1>6, <2>1 DEF CallsBack
    <3> QED
      BY <1>0, <3>1
  <2>2. CASE c \notin C
    <3>1. CallsBack(y, d, c) /\ CallsBack(z, e, c)
      BY <1>4, <1>5, <1>6, <2>2 DEF CallsBack
    <3> QED
      BY <3>1 DEF Callbacks
  <2> QED
    BY <2>1, <2>2
<1>7. ASSUME NEW y, NEW d, NEW c, At(y, d, "wake", c)'
      PROVE  /\ completion'[c].state = "Ready" /\ completion'[c].owner # Nobody
             /\ completion'[c].woke = 0 /\ completion'[c].released = 0
  <2>1. CASE c \in C
    BY <1>1, <1>2, <2>1
  <2>2. CASE c \notin C
    <3>1. At(y, d, "wake", c)
      BY <1>5, <1>7, <2>2
    <3>2. c \in Completions
      BY <1>3, <3>1 DEF CallsBack
    <3> QED
      BY <1>1, <2>2, <3>1, <3>2 DEF Callbacks
  <2> QED
    BY <2>1, <2>2
<1>8. ASSUME NEW y, NEW d, NEW c, At(y, d, "release", c)'
      PROVE  /\ completion'[c].owner # Nobody /\ completion'[c].released = 0
             /\ \/ completion'[c].state = "Ready" /\ completion'[c].woke = 1
                \/ completion'[c].state = "Detached" /\ completion'[c].woke = 0
  <2>1. At(y, d, "release", c)
    BY <1>4, <1>8
  <2>2. c \in Completions /\ c \notin C
    BY <1>3, <2>1 DEF CallsBack
  <2> QED
    BY <1>1, <2>1, <2>2 DEF Callbacks
<1>9. \A c \in Completions : completion'[c].owner = Nobody \/ completion'[c].state = "Armed" =>
         completion'[c].woke = 0 /\ completion'[c].released = 0
  BY <1>1, <1>2 DEF Callbacks
<1>10. ASSUME NEW c \in Completions, completion'[c].owner # Nobody,
              completion'[c].state \in {"Ready", "Detached"}
       PROVE  \/ Awaits("wake", c)' \/ Awaits("release", c)'
              \/ /\ completion'[c].released = 1
                 /\ completion'[c].woke = IF completion'[c].state = "Ready" THEN 1 ELSE 0
  <2>1. CASE c \in C
    <3>1. \E d \in Nat : At(x, d, "wake", c)'
      BY <1>0, <2>1
    <3>2. x \in Threads
      BY <1>0 DEF At
    <3> QED
      BY <3>1, <3>2 DEF Awaits
  <2>2. CASE c \notin C
    <3>1. \/ Awaits("wake", c) \/ Awaits("release", c)
          \/ /\ completion[c].released = 1
             /\ completion[c].woke = IF completion[c].state = "Ready" THEN 1 ELSE 0
      BY <1>1, <1>10, <2>2 DEF Callbacks
    <3> QED
      BY <1>0, <1>1, <2>2, <3>1
  <2> QED
    BY <2>1, <2>2
<1> QED
  BY <1>6, <1>7, <1>8, <1>9, <1>10 DEF Callbacks

\* Owners of the objects in F hand their reference on to a pending release; those of J were
\* members.
LEMMA BalancedHandedOn ==
    ASSUME GroupConstantsOK, GroupTyped, Balanced, UNCHANGED <<refs, freed, holds>>,
           \A c \in Completions : /\ completion'[c].owner = completion[c].owner
                                  /\ completion'[c].state = "None" <=> completion[c].state = "None",
           NEW F, NEW J, J \subseteq F,
           \A q \in Objects :
             /\ IsFiniteSet(Releasing(q))'
             /\ Cardinality(Releasing(q))' = Cardinality(Releasing(q)) + (IF q \in F THEN 1 ELSE 0)
             /\ Cardinality(Joins(q))' = Cardinality(Joins(q)) - (IF q \in J THEN 1 ELSE 0)
             /\ Kept(q) = (IF q \in F \ J THEN 1 ELSE Kept(q)')
             /\ q \in F \ J => Kept(q)' = 0
    PROVE  Balanced'
<1>1. ASSUME NEW q \in Objects PROVE refs'[q] = Owners(q)'
  <2>1. /\ IsFiniteSet(Releasing(q)) /\ refs[q] = Owners(q) /\ Owners(q) \in Nat
        /\ Cardinality(Handed(q)) \in Nat /\ Cardinality(Releasing(q)) \in Nat
        /\ Cardinality(Joins(q)) \in Nat /\ Cardinality(Observing(q)) \in Nat /\ Kept(q) \in {0, 1}
    BY OwnerNumbers DEF Balanced
  <2> DEFINE f == IF q \in F THEN 1 ELSE 0
             j == IF q \in J THEN 0 - 1 ELSE 0
             k == IF q \in F \ J THEN 0 - 1 ELSE 0
  <2>2. f \in Int /\ j \in Int /\ k \in Int /\ f + j + k = 0 /\ 0 \in Int
    OBVIOUS
  <2>3. Cardinality(Releasing(q))' = Cardinality(Releasing(q)) + f
    OBVIOUS
  <2>4. Cardinality(Joins(q))' = Cardinality(Joins(q)) + j
    BY <2>1
  <2>5. Kept(q)' = Kept(q) + k
    BY <2>1
  <2>6. Handed(q)' = Handed(q)
    BY DEF Handed
  <2>7. Observing(q)' = Observing(q)
    BY ObservingSame
  <2> HIDE DEF f, j, k
  <2>8. /\ Cardinality(Handed(q))' = Cardinality(Handed(q)) + 0
        /\ Cardinality(Observing(q))' = Cardinality(Observing(q)) + 0
    BY <2>1, <2>6, <2>7
  <2>9. Owners(q)' = Owners(q) + (0 + f + j + 0 + k)
    BY <2>1, <2>2, <2>3, <2>4, <2>5, <2>8, OwnersMoved
  <2> QED
    BY <2>1, <2>2, <2>9
<1> QED
  BY <1>1, BalancedKept

\* What publication has to do for the waiters and the members it takes, and for the worker.
PublishOps(t) ==
    ({"wake"} \X Elements(completions[t])) \cup ({"member"} \X Elements(taskMembers[t]))
      \cup {<<"drop", t>>}

\* The operations of publication, by kind.
LEMMA PublishKinds ==
    ASSUME NEW t
    PROVE  \A k, a : <<k, a>> \in PublishOps(t) <=>
             \/ k = "wake" /\ a \in Elements(completions[t])
             \/ k = "member" /\ a \in Elements(taskMembers[t])
             \/ k = "drop" /\ a = t
  BY DEF PublishOps

\* publish_terminal leaves its worker with them.
LEMMA PublishPlan ==
    ASSUME GroupConstantsOK, GroupTyped, ArmedOnes, MemberOwners, Endings,
           NEW w \in Threads, Publish(w), NEW t, t = Arg(w), NEW n, n = Top(w)
    PROVE  t \in Tasks /\ Laid(w, n, "publish", t, PublishOps(t))
<1>0. /\ Due(w, "publish")
      /\ todo' = [todo EXCEPT ![w] =
                    Wakes(completions[t])
                      \o [i \in DOMAIN taskMembers[t] |-> <<"member", taskMembers[t][i]>>]
                      \o << <<"drop", t>> >>]
  BY DEF Publish, Do
<1>1. t \in Tasks
  <2>1. <<"publish", t>> \in GroupOps
    BY <1>0, DueOp
  <2> QED
    BY <2>1, OpArgs
<1> DEFINE s == todo[w]
<1>2. s \in Seq(GroupOps) /\ s # <<>> /\ Head(s)[1] = "publish" /\ Head(s)[2] = t
  BY <1>0 DEF GroupTyped, Due, Arg
<1>3. /\ Head(s) \in GroupOps /\ Tail(s) \in Seq(GroupOps) /\ n \in Nat /\ Len(Tail(s)) = n
      /\ Level(s, n, Head(s))
  BY <1>2, LevelTail DEF Top
<1>4. At(w, n, "publish", t)
  <2>1. Head(s) = <<"publish", t>>
    BY <1>2, <1>3, OpArgs
  <2> QED
    BY <1>3, <2>1 DEF At
<1>5. n = 0
  BY <1>4 DEF Endings
<1>6. Tail(s) = <<>>
  <2> DEFINE r == Tail(s)
  <2>1. r \in Seq(GroupOps) /\ Len(r) = 0
    BY <1>3, <1>5
  <2> HIDE DEF r
  <2>2. r = <<>>
    BY <2>1, EmptySeq
  <2> QED
    BY <2>2 DEF r
<1> DEFINE C == Elements(completions[t])
           M == Elements(taskMembers[t])
           p == Wakes(completions[t])
           q == [i \in DOMAIN taskMembers[t] |-> <<"member", taskMembers[t][i]>>]
           z == << <<"drop", t>> >>
<1>7. Lays(p, {"wake"} \X C)
  <2>1. completions[t] \in Seq(Completions) /\ OneEach(completions[t])
    BY <1>1, GroupNames DEF GroupTyped, ArmedOnes
  <2>2. \A v \in Completions : <<"wake", v>> \in GroupOps
    BY OpArgs
  <2>3. Lays([i \in DOMAIN completions[t] |-> <<"wake", completions[t][i]>>], {"wake"} \X C)
    BY <2>1, <2>2, LaysRow
  <2> QED
    BY <2>3 DEF Wakes
<1>8. Lays(q, {"member"} \X M)
  <2>1. taskMembers[t] \in Seq(Members) /\ OneEach(taskMembers[t])
    BY <1>1 DEF GroupTyped, MemberOwners
  <2>2. \A v \in Members : <<"member", v>> \in GroupOps
    BY OpArgs
  <2> QED
    BY <2>1, <2>2, LaysRow
<1>9. Lays(z, {<<"drop", t>>})
  <2>1. <<"drop", t>> \in GroupOps
    BY <1>1, OpArgs, GroupNames
  <2> QED
    BY <2>1, LaysOne
<1>10. ({"wake"} \X C) \cap ({"member"} \X M) = {}
       /\ (({"wake"} \X C) \cup ({"member"} \X M)) \cap {<<"drop", t>>} = {}
  OBVIOUS
<1>11. todo' = [todo EXCEPT ![w] = p \o q \o z]
  BY <1>0
<1>12. PublishOps(t) = (({"wake"} \X C) \cup ({"member"} \X M)) \cup {<<"drop", t>>}
  BY DEF PublishOps
<1> DEFINE A == {"wake"} \X C
           B == {"member"} \X M
           D == {<<"drop", t>>}
<1> HIDE DEF p, q, z, A, B, D
<1>13. Lays(p, A) /\ Lays(q, B) /\ Lays(z, D) /\ A \cap B = {} /\ (A \cup B) \cap D = {}
  BY <1>7, <1>8, <1>9, <1>10 DEF A, B, D
<1>14. Lays(p \o q, A \cup B)
  BY <1>13, LaysJoin
<1> DEFINE pq == p \o q
           AB == A \cup B
<1>15. Lays(pq, AB) /\ AB \cap D = {}
  BY <1>13, <1>14
<1> HIDE DEF pq, AB
<1>16. Lays(pq \o z, AB \cup D)
  BY <1>13, <1>15, LaysJoin
<1> DEFINE row == pq \o z
           E == AB \cup D
<1>17. row \in Seq(GroupOps) /\ E = PublishOps(t) /\ Lays(row, E)
       /\ todo' = [todo EXCEPT ![w] = row]
  BY <1>11, <1>12, <1>16 DEF Lays, pq, AB, A, B, D
<1> HIDE DEF row, E
<1>18. row \o Tail(s) = row
  BY <1>6, <1>17, ConcatEmptySeq
<1>19. todo' = [todo EXCEPT ![w] = row \o Tail(todo[w])]
  BY <1>17, <1>18
<1>20. Laid(w, n, "publish", t, E)
  BY <1>0, <1>17, <1>19, StackLays
<1> QED
  BY <1>1, <1>17, <1>20

\* What publication changes.
Publishes(w, n, t) ==
    /\ Laid(w, n, "publish", t, PublishOps(t))
    /\ Readies(t, Elements(completions[t]), TRUE)
    /\ outcome' = [outcome EXCEPT ![t] = ended[t]]
    /\ taskMembers' = [taskMembers EXCEPT ![t] = <<>>]
    /\ UNCHANGED <<cancelled, ended, group, member, refs, freed, holds, attached, expected>>

\* The members of the task go over to its worker.
LEMMA PublishMembers ==
    ASSUME GroupConstantsOK, GroupTyped, MemberOwners, Endings,
           NEW w \in Threads, NEW n, NEW t \in Tasks, Publishes(w, n, t)
    PROVE  MemberOwners' /\ Endings'
<1>0. /\ At(w, n, "publish", t)
      /\ \A y, d, k, a : At(y, d, k, a)' =>
           \/ At(y, d, k, a) /\ ~(y = w /\ d = n)
           \/ y = w /\ d \in Nat /\ d >= n /\ <<k, a>> \in PublishOps(t)
      /\ \A k, a : <<k, a>> \in PublishOps(t) => \E d \in Nat : d >= n /\ At(w, d, k, a)'
      /\ \A d, e, k, a : d >= n /\ e >= n /\ At(w, d, k, a)' /\ At(w, e, k, a)' => d = e
      /\ \A k, a : k # "publish" /\ Awaits(k, a) => Awaits(k, a)'
  BY DEF Publishes, Laid
<1>1. /\ outcome' = [outcome EXCEPT ![t] = ended[t]] /\ taskMembers' = [taskMembers EXCEPT ![t] = <<>>]
      /\ UNCHANGED <<ended, member>>
  BY DEF Publishes
<1> DEFINE M == Elements(taskMembers[t])
<1>2. /\ \A d, m : <<d, m>> \in PublishOps(t) /\ d = "member" <=> d = "member" /\ m \in M
      /\ \A a : <<"publish", a>> \notin PublishOps(t)
  BY PublishKinds
<1>3. outcome[t] = "None" /\ ended[t] # "None" /\ n = 0
  BY <1>0 DEF Endings
<1>4. /\ outcome'[t] = ended[t] /\ \A u \in Tasks : u # t => outcome'[u] = outcome[u]
      /\ taskMembers'[t] = <<>> /\ \A u \in Tasks : u # t => taskMembers'[u] = taskMembers[u]
  BY <1>1 DEF GroupTyped
<1>5. \A u \in Tasks : OneEach(taskMembers'[u])
  <2>1. OneEach(<<>>)
    BY DEF OneEach
  <2> QED
    BY <1>4, <2>1 DEF MemberOwners
<1>6. \A v : v \notin Elements(<<>>)
  BY DEF Elements
<1>7. \A u \in Tasks : \A m \in Elements(taskMembers'[u]) :
         member'[m].task = u /\ outcome'[u] = "None"
  BY <1>1, <1>4, <1>6 DEF MemberOwners
<1>8. \A m \in M : member[m].task = t
  BY DEF MemberOwners
<1>9. \A x, d, m : At(x, d, "member", m) =>
        member[m].task \in Tasks /\ outcome[member[m].task] # "None" /\ member[m].task # t
  BY <1>3 DEF MemberOwners
<1>10. \A x, d, m : At(x, d, "member", m)' =>
         At(x, d, "member", m) \/ (x = w /\ d \in Nat /\ d >= n /\ m \in M)
  BY <1>0, <1>2
<1>11. ASSUME NEW x, NEW d, NEW m, At(x, d, "member", m)'
       PROVE  member'[m].task \in Tasks /\ outcome'[member'[m].task] # "None"
  <2>1. CASE m \in M
    BY <1>1, <1>3, <1>4, <1>8, <2>1
  <2>2. CASE m \notin M
    BY <1>1, <1>4, <1>9, <1>10, <1>11, <2>2
  <2> QED
    BY <2>1, <2>2
<1>12. ASSUME NEW x, NEW y, NEW d, NEW e, NEW m, At(x, d, "member", m)', At(y, e, "member", m)'
       PROVE  x = y /\ d = e
  <2>1. CASE m \in M
    <3>1. x = w /\ y = w /\ d >= n /\ e >= n
      BY <1>8, <1>9, <1>10, <1>12, <2>1
    <3> QED
      BY <1>0, <1>12, <3>1
  <2>2. CASE m \notin M
    BY <1>10, <1>12, <2>2 DEF MemberOwners
  <2> QED
    BY <2>1, <2>2
<1>13. ASSUME NEW m \in Members, member'[m].task # Nobody
       PROVE  m \in Elements(taskMembers'[member'[m].task]) \/ Awaits("member", m)'
  <2>1. CASE m \in M
    <3>1. \E d \in Nat : At(w, d, "member", m)'
      BY <1>0, <1>2, <2>1
    <3> QED
      BY <3>1 DEF Awaits
  <2>2. CASE m \notin M
    <3> PICK u : u = member[m].task
      OBVIOUS
    <3>1. u \in Tasks /\ member'[m].task = u
      BY <1>1, <1>13 DEF GroupTyped, MemberRecord
    <3>2. m \in Elements(taskMembers[u]) \/ Awaits("member", m)
      BY <1>1, <1>13 DEF MemberOwners
    <3>3. CASE Awaits("member", m)
      BY <1>0, <3>3
    <3>4. CASE m \in Elements(taskMembers[u])
      BY <1>4, <2>2, <3>1, <3>4
    <3> QED
      BY <3>2, <3>3, <3>4
  <2> QED
    BY <2>1, <2>2
<1>14. MemberOwners'
  BY <1>5, <1>7, <1>11, <1>12, <1>13 DEF MemberOwners, OneEach, Elements
<1>15. \A x, d, u : At(x, d, "publish", u)' => At(x, d, "publish", u) /\ ~(x = w /\ d = n)
  BY <1>0, <1>2
<1>16. ASSUME NEW x, NEW d, NEW u, At(x, d, "publish", u)'
       PROVE  d = 0 /\ ended'[u] # "None" /\ outcome'[u] = "None"
  <2>1. At(x, d, "publish", u) /\ ~(x = w /\ d = n)
    BY <1>15, <1>16
  <2>2. d = 0 /\ ended[u] # "None" /\ outcome[u] = "None"
    BY <2>1 DEF Endings
  <2>3. u \in Tasks
    <3>1. <<"publish", u>> \in GroupOps
      BY <2>1, AtType
    <3> QED
      BY <3>1, OpArgs
  <2>4. u # t
    BY <1>0, <1>3, <2>1, <2>2 DEF Endings
  <2> QED
    BY <1>1, <1>4, <2>2, <2>3, <2>4
<1>17. \A x, y, d, e, u : At(x, d, "publish", u)' /\ At(y, e, "publish", u)' => x = y
  BY <1>15 DEF Endings
<1>18. \A u \in Tasks : outcome'[u] \in {"None", ended'[u]}
  BY <1>1, <1>4 DEF Endings
<1>19. Endings'
  BY <1>16, <1>17, <1>18 DEF Endings
<1> QED
  BY <1>14, <1>19

\* The references it hands on: its own to the task, those of the list to the completions.
LEMMA PublishCounts ==
    ASSUME GroupConstantsOK, GroupTyped, ArmedOnes, Endings, Balanced,
           NEW w \in Threads, NEW n, NEW t \in Tasks, Publishes(w, n, t)
    PROVE  Balanced'
<1> DEFINE C == Elements(completions[t])
           E == PublishOps(t)
           F == C \cup {t}
<1>1. /\ Laid(w, n, "publish", t, E) /\ Readies(t, C, TRUE)
      /\ outcome' = [outcome EXCEPT ![t] = ended[t]]
      /\ UNCHANGED <<member, refs, freed, holds>>
  BY DEF Publishes
<1>2. /\ \A k, a : <<k, a>> \in E /\ k \in {"wake", "release", "drop"} =>
           (k = "wake" /\ a \in C) \/ (k = "drop" /\ a = t)
      /\ \A a \in C : <<"wake", a>> \in E
      /\ <<"drop", t>> \in E
  BY PublishKinds
<1>3. /\ C \subseteq Completions
      /\ \A c \in Completions : /\ completion'[c].state = IF c \in C THEN "Ready" ELSE completion[c].state
                                /\ completion'[c].owner = completion[c].owner
  BY <1>1 DEF Readies
<1>4. \A c \in C : completion[c].state = "Armed"
  BY GroupNames DEF ArmedOnes
<1>5. outcome[t] = "None" /\ ended[t] # "None"
  BY <1>1 DEF Laid, Endings
<1>6. outcome'[t] = ended[t] /\ \A u \in Tasks : u # t => outcome'[u] = outcome[u]
  BY <1>1 DEF GroupTyped
<1> HIDE DEF C, E
<1>7. \A c \in Completions : c \notin Tasks
  BY GroupNames
<1>8. ASSUME NEW q \in Objects
      PROVE  /\ IsFiniteSet(Releasing(q))'
             /\ Cardinality(Releasing(q))' = Cardinality(Releasing(q)) + (IF q \in F THEN 1 ELSE 0)
             /\ Cardinality(Joins(q))' = Cardinality(Joins(q)) - (IF q \in {} THEN 1 ELSE 0)
             /\ Kept(q) = (IF q \in F \ {} THEN 1 ELSE Kept(q)')
             /\ q \in F \ {} => Kept(q)' = 0
  <2>1. IsFiniteSet(Releasing(q)) /\ Cardinality(Releasing(q)) \in Nat /\ Cardinality(Joins(q)) \in Nat
    BY OwnerNumbers DEF Balanced
  <2>2. /\ IsFiniteSet(Releasing(q))'
        /\ Cardinality(Releasing(q))' = Cardinality(Releasing(q)) + (IF q \in F THEN 1 ELSE 0)
    <3>1. CASE q \in F
      <4>1. \E l \in {"wake", "release", "drop"} :
              <<l, q>> \in E /\ \A k \in {"wake", "release", "drop"} : <<k, q>> \in E => k = l
        BY <1>2, <1>3, <1>7, <3>1
      <4> QED
        BY <1>1, <2>1, <3>1, <4>1, LaidFrees
    <3>2. CASE q \notin F
      <4>1. \A k \in {"wake", "release", "drop"} : <<k, q>> \notin E
        BY <1>2, <3>2
      <4>2. IsFiniteSet(Releasing(q))' /\ Cardinality(Releasing(q))' = Cardinality(Releasing(q))
        BY <1>1, <2>1, <4>1, LaidFrees
      <4> QED
        BY <2>1, <3>2, <4>2
    <3> QED
      BY <3>1, <3>2
  <2>3. Joins(q)' = Joins(q)
    BY <1>1, JoinsSame
  <2>4. CASE q \in F
    <3>1. Kept(q) = 1
      BY <1>3, <1>4, <1>5, <2>4 DEF Kept
    <3>2. Kept(q)' = 0
      BY <1>3, <1>5, <1>6, <1>7, <2>4 DEF Kept
    <3> QED
      BY <2>1, <2>2, <2>3, <2>4, <3>1, <3>2
  <2>5. CASE q \notin F
    <3>1. Kept(q)' = Kept(q)
      BY <1>3, <1>6, <2>5 DEF Kept
    <3> QED
      BY <2>1, <2>2, <2>3, <2>5, <3>1
  <2> QED
    BY <2>4, <2>5
<1>9. \A c \in Completions : /\ completion'[c].owner = completion[c].owner
                             /\ completion'[c].state = "None" <=> completion[c].state = "None"
  BY <1>3, <1>4
<1> DEFINE J == {}
<1>10. J \subseteq F
  OBVIOUS
<1>11. \A q \in Objects :
         /\ IsFiniteSet(Releasing(q))'
         /\ Cardinality(Releasing(q))' = Cardinality(Releasing(q)) + (IF q \in F THEN 1 ELSE 0)
         /\ Cardinality(Joins(q))' = Cardinality(Joins(q)) - (IF q \in J THEN 1 ELSE 0)
         /\ Kept(q) = (IF q \in F \ J THEN 1 ELSE Kept(q)')
         /\ q \in F \ J => Kept(q)' = 0
  BY <1>8
<1> HIDE DEF F, J
<1> QED
  BY <1>1, <1>9, <1>10, <1>11, BalancedHandedOn

\* publish_terminal's critical section.
LEMMA PublishTerminalStep ==
    ASSUME GroupConstantsOK, GroupInv, NEW w \in Threads, Publish(w)
    PROVE  GroupInv'
<1>0. /\ GroupTyped /\ MemberList /\ MemberOwners /\ Endings /\ Recording /\ ArmedOnes
      /\ Callbacks /\ Asking /\ Borrowing /\ Balanced
  BY DEF GroupInv
<1> PICK t : t = Arg(w)
  OBVIOUS
<1> PICK n : n = Top(w)
  OBVIOUS
<1> DEFINE C == Elements(completions[t])
           E == PublishOps(t)
<1>1. /\ outcome' = [outcome EXCEPT ![t] = ended[t]]
      /\ completion' = Ready(completions[t])
      /\ completions' = [completions EXCEPT ![t] = <<>>]
      /\ taskMembers' = [taskMembers EXCEPT ![t] = <<>>]
      /\ UNCHANGED <<cancelled, ended, group, member, refs, freed, holds, attached, expected>>
  BY DEF Publish, lifetime, history
<1>2. t \in Tasks /\ Laid(w, n, "publish", t, E)
  BY <1>0, PublishPlan
<1>3. t \in Lists /\ t # "group" /\ t # Nobody
  BY <1>2, GroupNames
<1> PICK take : take = TRUE
  OBVIOUS
<1>4. Readies(t, C, take)
  <2> PICK cs : cs = completions[t]
    OBVIOUS
  <2>1. /\ cs = IF take THEN completions[t] ELSE <<>>
        /\ completion' = Ready(cs) /\ take \in BOOLEAN
        /\ completions' = [completions EXCEPT ![t] = IF take THEN <<>> ELSE @]
    BY <1>1
  <2>2. Readies(t, Elements(cs), take)
    BY <1>0, <1>3, <2>1, ReadyOnes
  <2> QED
    BY <2>2
<1>5. Publishes(w, n, t)
  BY <1>1, <1>2, <1>4 DEF Publishes
<1>6. MemberOwners' /\ Endings'
  BY <1>0, <1>2, <1>5, PublishMembers
<1>7. Balanced'
  BY <1>0, <1>2, <1>5, PublishCounts
<1>8. /\ \A c : <<"wake", c>> \in E <=> c \in C
      /\ \A c : <<"release", c>> \notin E
      /\ \A a : \A k \in {"cancel", "requestCancel", "cancelNext"} : <<k, a>> \notin E
  BY PublishKinds
<1>9. /\ C \subseteq Completions
      /\ \A c \in Completions : /\ completion'[c].state = IF c \in C THEN "Ready" ELSE completion[c].state
                                /\ completion'[c].owner = completion[c].owner
                                /\ completion'[c].of = completion[c].of
  BY <1>4 DEF Readies
<1>10. /\ outcome' \in [Tasks -> Steps \cup {"None"}] /\ outcome'[t] = ended[t]
       /\ \A u \in Tasks : u # t => outcome'[u] = outcome[u]
  BY <1>0, <1>1, <1>2 DEF GroupTyped
<1>11. outcome[t] = "None" /\ ended[t] # "None"
  BY <1>0, <1>2 DEF Laid, Endings
<1> HIDE DEF E
<1>12. GroupTyped'
  <2>1. taskMembers' \in [Tasks -> Seq(Members)]
    BY <1>0, <1>1, <1>2 DEF GroupTyped
  <2> QED
    BY <1>0, <1>1, <1>2, <1>4, <1>10, <2>1 DEF GroupTyped, Readies, Laid
<1>13. Callbacks'
  <2>1. take \in BOOLEAN /\ "publish" \notin {"wake", "release"}
    OBVIOUS
  <2> HIDE DEF C
  <2> QED
    BY <1>0, <1>2, <1>3, <1>4, <1>8, <2>1, ReadyCallbacks
<1>14. Borrowing'
  BY <1>0, <1>1, <1>2, <1>8 DEF Laid
<1>15. MemberList'
  BY <1>0, <1>1, MemberListKept
<1>16. Asking'
  <2>1. \A k, a : k # "publish" /\ Awaits(k, a) => Awaits(k, a)'
    BY <1>2 DEF Laid
  <2> QED
    BY <1>0, <1>1, <2>1, AskingKept
<1>17. ArmedOnes'
  <2>1. \A c \in C : completion[c].of # "group" /\ completion[c].state = "Armed"
    BY <1>0, <1>3, <1>9 DEF ArmedOnes
  <2>2. \A c \in Completions : completion'[c].state = "Armed" /\ completion[c].owner = "group" =>
          group'.closed /\ group'.active # 0
    BY <1>0, <1>1, <1>9 DEF ArmedOnes
  <2>3. \A c \in Completions : completion'[c].state = "Ready" /\ completion[c].of = "group" =>
          group'.closed /\ group'.active = 0
    BY <1>0, <1>1, <1>9, <2>1 DEF ArmedOnes
  <2>4. \A u \in Tasks : outcome'[u] = outcome[u] \/ (u = t /\ take)
    BY <1>10
  <2> HIDE DEF C
  <2> QED
    BY <1>0, <1>3, <1>4, <2>2, <2>3, <2>4, ReadyArmed
<1>18. Recording'
  <2>1. \A u \in Tasks : outcome[u] # "None" => outcome'[u] = outcome[u]
    BY <1>10, <1>11
  <2>2. expected \subseteq attached /\ attached \subseteq Tasks
    BY <1>0 DEF Recording
  <2>3. \A u \in attached : outcome'[u] # "None" \/ \E m \in Members : member[m].task = u
    BY <1>0, <2>1, <2>2 DEF Recording
  <2>4. ASSUME NEW u \in expected
        PROVE  \/ \E m \in Members : member[m].task = u /\ member[m].expect
               \/ /\ outcome'[u] # "None"
                  /\ outcome'[u] = "Cancelled" => group.implicitCancelled
                  /\ outcome'[u] = "Failed" => group.implicitFailed
    BY <1>0, <2>1, <2>2 DEF Recording
  <2>5. \A m \in Members : member[m].expect => member[m].task \in expected
    BY <1>0 DEF Recording
  <2>6. group.implicitCancelled => \E u \in expected : outcome'[u] = "Cancelled"
    BY <1>0, <2>1, <2>2 DEF Recording
  <2>7. group.implicitFailed => \E u \in expected : outcome'[u] = "Failed"
    BY <1>0, <2>1, <2>2 DEF Recording
  <2> QED
    BY <1>1, <2>2, <2>3, <2>4, <2>5, <2>6, <2>7 DEF Recording
<1> QED
  BY <1>6, <1>7, <1>12, <1>13, <1>14, <1>15, <1>16, <1>17, <1>18 DEF GroupInv

\* What is left to do for a member: the waiters it takes along, its task, its group.
LeaveOps(C, t) == ({"wake"} \X C) \cup ({<<"drop", t>>} \cup {<<"drop", "group">>})

\* These operations, by kind.
LEMMA LeaveKinds ==
    ASSUME NEW C, NEW t
    PROVE  \A k, a : <<k, a>> \in LeaveOps(C, t) <=>
             (k = "wake" /\ a \in C) \/ (k = "drop" /\ a \in {t, "group"})
  BY DEF LeaveOps

\* As a row.
LEMMA LeaveRow ==
    ASSUME GroupConstantsOK, NEW cs \in Seq(Completions), OneEach(cs), NEW t \in Tasks
    PROVE  Lays(Wakes(cs) \o << <<"drop", t>>, <<"drop", "group">> >>,
                LeaveOps(Elements(cs), t))
<1> DEFINE C == Elements(cs)
           A == {"wake"} \X C
           B == {<<"drop", t>>}
           D == {<<"drop", "group">>}
           u == <<"drop", t>>
           v == <<"drop", "group">>
<1>1. u \in GroupOps /\ v \in GroupOps /\ t # "group"
  BY OpArgs, GroupNames
<1>2. Lays(<<u>>, B) /\ Lays(<<v>>, D)
  BY <1>1, LaysOne
<1>3. Lays(Wakes(cs), A)
  <2>1. \A c \in Completions : <<"wake", c>> \in GroupOps
    BY OpArgs
  <2>2. Lays([i \in DOMAIN cs |-> <<"wake", cs[i]>>], A)
    BY <2>1, LaysRow
  <2> QED
    BY <2>2 DEF Wakes
<1>4. B \cap D = {} /\ A \cap (B \cup D) = {}
  BY <1>1
<1>5. LeaveOps(C, t) = A \cup (B \cup D)
  BY DEF LeaveOps
<1> HIDE DEF A, B, D, u, v
<1>6. Lays(<<u>> \o <<v>>, B \cup D)
  BY <1>2, <1>4, LaysJoin
<1> DEFINE p == Wakes(cs)
           r == <<u, v>>
           G == B \cup D
<1>7. Lays(p, A) /\ Lays(r, G) /\ A \cap G = {}
  BY <1>3, <1>4, <1>6, JoinTwo
<1> HIDE DEF p, r, G
<1>8. Lays(p \o r, A \cup G)
  BY <1>7, LaysJoin
<1> QED
  BY <1>5, <1>8 DEF p, r, G, u, v

\* A member leaves the group and takes the completions C along, if it is the last one.
Leaves(w, n, m, t, C, take) ==
    /\ m \in Members /\ t \in Tasks /\ member[m].task = t /\ outcome[t] # "None"
    /\ take \in BOOLEAN /\ (take <=> group'.closed /\ group'.active = 0)
    /\ Laid(w, n, "member", m, LeaveOps(C, t)) /\ Readies("group", C, take)
    /\ group' \in GroupRecord
    /\ m \in Elements(group.members)
    /\ group'.members = Without(group.members, m) /\ group'.active = group.active - 1
    /\ group'.closed = group.closed /\ group'.cancelRequested = group.cancelRequested
    /\ group'.implicitCancelled <=>
         group.implicitCancelled \/ (member[m].expect /\ outcome[t] = "Cancelled")
    /\ group'.implicitFailed <=>
         group.implicitFailed \/ (member[m].expect /\ outcome[t] = "Failed")
    /\ member' \in [Members -> MemberRecord]
    /\ member'[m].task = Nobody /\ ~member'[m].expect /\ ~member'[m].sent
    /\ \A l \in Members : l # m => member'[l] = member[l]
    /\ UNCHANGED <<cancelled, ended, outcome, taskMembers, refs, freed, holds, attached, expected>>

\* So does one pass of group_publish_terminal_members.
LEMMA LeavePlan ==
    ASSUME GroupConstantsOK, GroupTyped, MemberList, MemberOwners, ArmedOnes,
           NEW w \in Threads, PublishMember(w)
    PROVE  \E n, m, t, C, take : Leaves(w, n, m, t, C, take)
<1> PICK m : m = Arg(w)
  OBVIOUS
<1> PICK n : n = Top(w)
  OBVIOUS
<1> PICK t : t = member[m].task
  OBVIOUS
<1> DEFINE left == [group EXCEPT !.members = Without(@, m), !.active = @ - 1]
           g == Recorded(left, member[m].expect, outcome[t])
<1>1. Due(w, "member")
  BY DEF PublishMember
<1>2. m \in Members
  <2>1. <<"member", m>> \in GroupOps
    BY <1>1, DueOp
  <2> QED
    BY <2>1, OpArgs
<1>3. t \in Tasks /\ outcome[t] # "None"
  <2> DEFINE s == todo[w]
  <2>1. s \in Seq(GroupOps) /\ s # <<>> /\ Head(s)[1] = "member" /\ Head(s)[2] = m
    BY <1>1 DEF GroupTyped, Due, Arg
  <2>2. Head(s) \in GroupOps /\ Level(s, n, Head(s))
    BY <2>1, LevelTail DEF Top
  <2>3. Head(s) = <<"member", m>>
    BY <2>1, <2>2, OpArgs
  <2>4. At(w, n, "member", m)
    BY <2>2, <2>3 DEF At
  <2> QED
    BY <2>4 DEF MemberOwners
<1>4. m \in Elements(group.members)
  <2>1. t # Nobody
    BY <1>3, GroupNames
  <2> QED
    BY <1>2, <2>1 DEF MemberList
<1> DEFINE ms == Without(group.members, m)
<1>5. group \in GroupRecord /\ ms \in Seq(Members) /\ group.active \in Nat /\ group.active - 1 \in Nat
  <2>1. group \in GroupRecord
    BY DEF GroupTyped
  <2>2. group.members \in Seq(Members) /\ group.active \in Nat
    BY <2>1 DEF GroupRecord
  <2>3. OneEach(group.members) /\ group.active = Len(group.members)
    BY DEF MemberList
  <2>4. ms \in Seq(Members) /\ Len(group.members) - 1 \in Nat
    BY <1>4, <2>2, <2>3, ListWithout
  <2> QED
    BY <2>1, <2>2, <2>3, <2>4
<1> HIDE DEF ms
<1>6. /\ left \in GroupRecord /\ left.members = ms /\ left.active = group.active - 1
      /\ left.closed = group.closed /\ left.cancelRequested = group.cancelRequested
      /\ left.implicitCancelled = group.implicitCancelled
      /\ left.implicitFailed = group.implicitFailed
  <2>1. left = [group EXCEPT !.members = ms, !.active = group.active - 1]
    BY DEF ms
  <2> HIDE DEF left
  <2> QED
    BY <1>5, <2>1 DEF GroupRecord
<1>7. member[m].expect \in BOOLEAN
  BY <1>2 DEF GroupTyped, MemberRecord
<1>8. /\ g \in GroupRecord /\ g.members = ms /\ g.active = group.active - 1
      /\ g.closed = group.closed /\ g.cancelRequested = group.cancelRequested
      /\ g.implicitCancelled <=>
           group.implicitCancelled \/ (member[m].expect /\ outcome[t] = "Cancelled")
      /\ g.implicitFailed <=>
           group.implicitFailed \/ (member[m].expect /\ outcome[t] = "Failed")
  <2> HIDE DEF left
  <2> QED
    BY <1>6, <1>7, RecordedFields
<1> DEFINE cs == Taken(g)
<1>9. /\ group' = g /\ member' = [member EXCEPT ![m] = NoMember]
      /\ completion' = Ready(cs)
      /\ completions' = [completions EXCEPT !["group"] = IF cs = <<>> THEN @ ELSE <<>>]
      /\ todo' = [todo EXCEPT ![w] =
                    Wakes(cs) \o << <<"drop", t>>, <<"drop", "group">> >> \o Tail(todo[w])]
      /\ UNCHANGED <<cancelled, ended, outcome, taskMembers, refs, freed, holds, attached, expected>>
  BY <1>4 DEF PublishMember, Do, MemberReleases, taskVars, lifetime,
              history
<1> HIDE DEF g
<1> DEFINE take == g.closed /\ g.active = 0
<1>10. take \in BOOLEAN /\ cs = (IF take THEN completions["group"] ELSE <<>>)
  BY <1>8 DEF Taken, GroupRecord
<1>11. completions' = [completions EXCEPT !["group"] = IF take THEN <<>> ELSE @]
  <2>1. completions["group"] = (IF take /\ cs = <<>> THEN <<>> ELSE completions["group"])
    BY <1>10
  <2> QED
    BY <1>9, <1>10, <2>1
<1>12. take <=> group'.closed /\ group'.active = 0
  BY <1>9
<1>13. "group" \in Lists
  BY GroupNames
<1> HIDE DEF cs, take
<1>14. Readies("group", Elements(cs), take)
  BY <1>9, <1>10, <1>11, <1>13, ReadyOnes
<1>15. cs \in Seq(Completions) /\ OneEach(cs)
  <2>1. completions["group"] \in Seq(Completions) /\ OneEach(completions["group"])
    BY <1>13 DEF GroupTyped, ArmedOnes
  <2>2. <<>> \in Seq(Completions) /\ OneEach(<<>>)
    BY DEF OneEach
  <2> QED
    BY <1>10, <2>1, <2>2
<1> DEFINE C == Elements(cs)
           E == LeaveOps(C, t)
           p == Wakes(cs) \o << <<"drop", t>>, <<"drop", "group">> >>
<1>16. Lays(p, E)
  BY <1>3, <1>15, LeaveRow
<1>17. todo' = [todo EXCEPT ![w] = p \o Tail(todo[w])]
  BY <1>9
<1> HIDE DEF p, E, C
<1>18. Laid(w, n, "member", m, E)
  BY <1>1, <1>16, <1>17, StackLays
<1>19. /\ member' \in [Members -> MemberRecord]
       /\ member'[m].task = Nobody /\ ~member'[m].expect /\ ~member'[m].sent
       /\ \A l \in Members : l # m => member'[l] = member[l]
  <2> DEFINE r == NoMember
  <2>1. r \in MemberRecord /\ r.task = Nobody /\ ~r.expect /\ ~r.sent
    BY DEF NoMember, MemberRecord
  <2>2. member' = [member EXCEPT ![m] = r]
    BY <1>9
  <2> HIDE DEF r
  <2> QED
    BY <1>2, <2>1, <2>2 DEF GroupTyped
<1>20. Leaves(w, n, m, t, C, take)
  BY <1>2, <1>3, <1>4, <1>8, <1>9, <1>10, <1>12, <1>14, <1>18, <1>19 DEF Leaves, C, E, ms
<1> QED
  BY <1>20

\* The record is free again, and is nowhere any more.
LEMMA LeaveLists ==
    ASSUME GroupConstantsOK, GroupTyped, MemberList, MemberOwners, Endings,
           NEW w, NEW n, NEW m, NEW t, NEW C, NEW take, Leaves(w, n, m, t, C, take)
    PROVE  MemberList' /\ MemberOwners' /\ Endings'
<1>0. /\ m \in Members /\ t \in Tasks /\ member[m].task = t /\ outcome[t] # "None"
      /\ m \in Elements(group.members)
      /\ group'.members = Without(group.members, m) /\ group'.active = group.active - 1
      /\ member'[m].task = Nobody
      /\ \A l \in Members : l # m => member'[l] = member[l]
      /\ UNCHANGED <<ended, outcome, taskMembers>>
  BY DEF Leaves
<1>1. /\ At(w, n, "member", m)
      /\ \A k, a : At(w, n, k, a) => k = "member" /\ a = m
      /\ \A y, d, k, a : At(y, d, k, a) /\ ~(y = w /\ d = n) => At(y, d, k, a)'
      /\ \A y, d, k, a : At(y, d, k, a)' =>
           \/ At(y, d, k, a) /\ ~(y = w /\ d = n)
           \/ y = w /\ d \in Nat /\ d >= n /\ <<k, a>> \in LeaveOps(C, t)
      /\ \A k : k # "member" /\ (\A a : <<k, a>> \notin LeaveOps(C, t)) =>
           \A y, d, a : At(y, d, k, a)' <=> At(y, d, k, a)
  BY DEF Leaves, Laid
<1>2. \A a : <<"member", a>> \notin LeaveOps(C, t) /\ <<"publish", a>> \notin LeaveOps(C, t)
  BY LeaveKinds
<1>3. \A y, d, l : At(y, d, "member", l)' <=> At(y, d, "member", l) /\ l # m
  <2>1. \A y, d, l : At(y, d, "member", l)' => At(y, d, "member", l) /\ ~(y = w /\ d = n)
    BY <1>1, <1>2
  <2>2. \A y, d : At(y, d, "member", m) => y = w /\ d = n
    BY <1>1 DEF MemberOwners
  <2>3. \A y, d, l : At(y, d, "member", l) /\ l # m => ~(y = w /\ d = n)
    BY <1>1
  <2> QED
    BY <1>1, <2>1, <2>2, <2>3
<1>4. Endings'
  <2>1. \A x, d, u : At(x, d, "publish", u)' <=> At(x, d, "publish", u)
    BY <1>1, <1>2
  <2> QED
    BY <1>0, <2>1, EndingsKept
<1>5. MemberList'
  <2> DEFINE s == group.members
             r == group'.members
  <2>1. s \in Seq(Members) /\ OneEach(s) /\ group.active = Len(s)
        /\ \A l \in Members : l \in Elements(s) <=> member[l].task # Nobody
    BY DEF GroupTyped, GroupRecord, MemberList
  <2>2. /\ OneEach(r) /\ Len(r) = Len(s) - 1
        /\ \A l : l \in Elements(r) <=> l # m /\ l \in Elements(s)
    <3>1. r = Without(s, m) /\ m \in Elements(s)
      BY <1>0
    <3>2. /\ OneEach(Without(s, m)) /\ Len(Without(s, m)) = Len(s) - 1
          /\ \A l : l \in Elements(Without(s, m)) <=> l # m /\ l \in Elements(s)
      BY <2>1, <3>1, ListWithout
    <3> QED
      BY <3>1, <3>2
  <2>3. group'.active = Len(r)
    BY <1>0, <2>1, <2>2
  <2>4. \A l \in Members : l \in Elements(r) <=> member'[l].task # Nobody
    <3> HIDE DEF r, s
    <3> QED
      BY <1>0, <2>1, <2>2
  <2> QED
    BY <2>2, <2>3, <2>4 DEF MemberList, OneEach, Elements
<1>6. \A u \in Tasks : OneEach(taskMembers'[u])
  BY <1>0 DEF MemberOwners
<1>7. ASSUME NEW u \in Tasks, NEW l \in Elements(taskMembers[u])
      PROVE  member'[l].task = u /\ outcome'[u] = "None"
  <2>1. member[l].task = u /\ outcome[u] = "None"
    BY DEF MemberOwners
  <2>2. l # m
    BY <1>0, <2>1
  <2>3. l \in Members
    <3>1. taskMembers[u] \in Seq(Members)
      BY DEF GroupTyped
    <3> QED
      BY <3>1, LenProperties DEF Elements
  <2> QED
    BY <1>0, <2>1, <2>2, <2>3
<1>8. ASSUME NEW x, NEW d, NEW l, At(x, d, "member", l)'
      PROVE  member'[l].task \in Tasks /\ outcome'[member'[l].task] # "None"
  <2>1. At(x, d, "member", l) /\ l # m
    BY <1>3, <1>8
  <2>2. l \in Members
    <3>1. <<"member", l>> \in GroupOps
      BY <2>1, AtType
    <3> QED
      BY <3>1, OpArgs
  <2> QED
    BY <1>0, <2>1, <2>2 DEF MemberOwners
<1>9. \A x, y, d, e, l : At(x, d, "member", l)' /\ At(y, e, "member", l)' => x = y /\ d = e
  BY <1>3 DEF MemberOwners
<1>10. ASSUME NEW l \in Members, member'[l].task # Nobody
       PROVE  l \in Elements(taskMembers[member'[l].task]) \/ Awaits("member", l)'
  <2>1. l # m /\ member'[l] = member[l]
    BY <1>0, <1>10
  <2>2. l \in Elements(taskMembers[member[l].task]) \/ Awaits("member", l)
    BY <1>10, <2>1 DEF MemberOwners
  <2>3. Awaits("member", l) => Awaits("member", l)'
    BY <1>3, <2>1 DEF Awaits
  <2> QED
    BY <2>1, <2>2, <2>3
<1>11. MemberOwners'
  BY <1>0, <1>6, <1>7, <1>8, <1>9, <1>10 DEF MemberOwners, OneEach, Elements
<1> QED
  BY <1>4, <1>5, <1>11

\* Its outcome is recorded, and what was to be cancelled still is.
LEMMA LeaveRecording ==
    ASSUME GroupConstantsOK, GroupTyped, Recording, Asking,
           NEW w, NEW n, NEW m, NEW t, NEW C, NEW take, Leaves(w, n, m, t, C, take)
    PROVE  Recording' /\ Asking'
<1>0. /\ m \in Members /\ t \in Tasks /\ member[m].task = t /\ outcome[t] # "None"
      /\ group'.cancelRequested = group.cancelRequested
      /\ group'.implicitCancelled <=>
           group.implicitCancelled \/ (member[m].expect /\ outcome[t] = "Cancelled")
      /\ group'.implicitFailed <=>
           group.implicitFailed \/ (member[m].expect /\ outcome[t] = "Failed")
      /\ member'[m].task = Nobody /\ ~member'[m].expect /\ ~member'[m].sent
      /\ \A l \in Members : l # m => member'[l] = member[l]
      /\ UNCHANGED <<cancelled, ended, outcome, attached, expected>>
  BY DEF Leaves
<1>1. expected \subseteq attached /\ attached \subseteq Tasks
  BY DEF Recording
<1>2. ASSUME NEW u \in attached PROVE outcome[u] # "None" \/ \E l \in Members : member'[l].task = u
  <2>1. CASE u = t
    BY <1>0, <2>1
  <2>2. CASE u # t
    BY <1>0, <2>2 DEF Recording
  <2> QED
    BY <2>1, <2>2
<1>3. ASSUME NEW u \in expected
      PROVE  \/ \E l \in Members : member'[l].task = u /\ member'[l].expect
             \/ /\ outcome[u] # "None"
                /\ outcome[u] = "Cancelled" => group'.implicitCancelled
                /\ outcome[u] = "Failed" => group'.implicitFailed
  <2>1. CASE \E l \in Members : member[l].task = u /\ member[l].expect
    <3>1. PICK l \in Members : member[l].task = u /\ member[l].expect
      BY <2>1
    <3>2. CASE l = m
      BY <1>0, <3>1, <3>2
    <3>3. CASE l # m
      BY <1>0, <3>1, <3>3
    <3> QED
      BY <3>2, <3>3
  <2>2. CASE ~\E l \in Members : member[l].task = u /\ member[l].expect
    BY <1>0, <2>2 DEF Recording
  <2> QED
    BY <2>1, <2>2
<1>4. \A l \in Members : member'[l].expect => member'[l].task \in expected
  BY <1>0 DEF Recording
<1>5. member[m].expect => t \in expected
  BY <1>0 DEF Recording
<1>6. group'.implicitCancelled => \E u \in expected : outcome[u] = "Cancelled"
  BY <1>0, <1>5 DEF Recording
<1>7. group'.implicitFailed => \E u \in expected : outcome[u] = "Failed"
  BY <1>0, <1>5 DEF Recording
<1>8. Recording'
  BY <1>0, <1>1, <1>2, <1>3, <1>4, <1>6, <1>7 DEF Recording
<1>9. \A k, a : k # "member" /\ Awaits(k, a) => Awaits(k, a)'
  BY DEF Leaves, Laid
<1>10. ASSUME NEW l \in Members, member'[l].sent
       PROVE  \/ cancelled'[member'[l].task] \/ ended'[member'[l].task] # "None"
              \/ Awaits("cancel", member[l].task)'
  <2> PICK u : u = member[l].task
    OBVIOUS
  <2>1. l # m /\ member'[l].task = u /\ member[l].sent
    BY <1>0, <1>10
  <2>2. cancelled[u] \/ ended[u] # "None" \/ Awaits("cancel", u)
    BY <2>1 DEF Asking
  <2>3. Awaits("cancel", u)' => Awaits("cancel", member[l].task)'
    BY <2>1 DEF Awaits, At
  <2> QED
    BY <1>0, <1>9, <2>1, <2>2, <2>3
<1>11. \A l \in Members : group'.cancelRequested /\ member'[l].task # Nobody /\ ~member'[l].sent =>
         Awaits("cancelNext", "group")'
  BY <1>0, <1>9 DEF Asking
<1>12. Asking'
  BY <1>10, <1>11 DEF Asking
<1> QED
  BY <1>8, <1>12

\* The references it hands on: the member's to its task and its group, those of the list.
LEMMA LeaveCounts ==
    ASSUME GroupConstantsOK, GroupTyped, ArmedOnes, Balanced, NEW w \in Threads,
           NEW n, NEW m, NEW t, NEW C, NEW take, Leaves(w, n, m, t, C, take)
    PROVE  Balanced'
<1> DEFINE E == LeaveOps(C, t)
           J == {t, "group"}
           F == C \cup J
<1>1. /\ Laid(w, n, "member", m, E) /\ Readies("group", C, take)
      /\ m \in Members /\ t \in Tasks /\ member[m].task = t /\ member'[m].task = Nobody
      /\ \A l \in Members : l # m => member'[l].task = member[l].task
      /\ UNCHANGED <<outcome, refs, freed, holds>>
  BY DEF Leaves
<1>2. \A k, a : <<k, a>> \in E <=> (k = "wake" /\ a \in C) \/ (k = "drop" /\ a \in J)
  BY LeaveKinds
<1>3. /\ C \subseteq Completions
      /\ \A c \in Completions : /\ completion'[c].state = IF c \in C THEN "Ready" ELSE completion[c].state
                                /\ completion'[c].owner = completion[c].owner
  BY <1>1 DEF Readies
<1>4. \A c \in C : completion[c].state = "Armed"
  BY <1>1, GroupNames DEF ArmedOnes, Readies
<1>5. \A c \in Completions : c \notin Tasks /\ c \notin J
  BY <1>1, GroupNames
<1>6. J \subseteq F /\ F \ J = C
  BY <1>3, <1>5
<1>7. \A q : Cardinality(Joins(q))' = Cardinality(Joins(q)) - (IF q \in J THEN 1 ELSE 0)
  BY <1>1, JoinsLoss
<1>8. \A q : q \in F <=> q \in C \/ q \in J
  OBVIOUS
<1> HIDE DEF E, J, F
<1>9. ASSUME NEW q \in Objects
      PROVE  /\ IsFiniteSet(Releasing(q))'
             /\ Cardinality(Releasing(q))' = Cardinality(Releasing(q)) + (IF q \in F THEN 1 ELSE 0)
             /\ Kept(q) = (IF q \in F \ J THEN 1 ELSE Kept(q)')
             /\ q \in F \ J => Kept(q)' = 0
  <2>1. IsFiniteSet(Releasing(q)) /\ Cardinality(Releasing(q)) \in Nat
    BY OwnerNumbers DEF Balanced
  <2>2. /\ IsFiniteSet(Releasing(q))'
        /\ Cardinality(Releasing(q))' = Cardinality(Releasing(q)) + (IF q \in F THEN 1 ELSE 0)
    <3>1. CASE q \in F
      <4>1. \E l \in {"wake", "release", "drop"} :
              <<l, q>> \in E /\ \A k \in {"wake", "release", "drop"} : <<k, q>> \in E => k = l
        BY <1>2, <1>3, <1>5, <1>8, <3>1
      <4> QED
        BY <1>1, <2>1, <3>1, <4>1, LaidFrees
    <3>2. CASE q \notin F
      <4>1. \A k \in {"wake", "release", "drop"} : <<k, q>> \notin E
        BY <1>2, <1>8, <3>2
      <4>2. IsFiniteSet(Releasing(q))' /\ Cardinality(Releasing(q))' = Cardinality(Releasing(q))
        BY <1>1, <2>1, <4>1, LaidFrees
      <4> QED
        BY <2>1, <3>2, <4>2
    <3> QED
      BY <3>1, <3>2
  <2>3. CASE q \in C
    <3>1. Kept(q) = 1 /\ Kept(q)' = 0
      BY <1>3, <1>4, <1>5, <2>3 DEF Kept
    <3> QED
      BY <1>6, <2>2, <2>3, <3>1
  <2>4. CASE q \notin C
    <3>1. Kept(q)' = Kept(q)
      BY <1>1, <1>3, <2>4 DEF Kept
    <3> QED
      BY <1>6, <2>2, <2>4, <3>1
  <2> QED
    BY <2>3, <2>4
<1>10. \A c \in Completions : /\ completion'[c].owner = completion[c].owner
                              /\ completion'[c].state = "None" <=> completion[c].state = "None"
  BY <1>3, <1>4
<1> QED
  BY <1>1, <1>6, <1>7, <1>9, <1>10, BalancedHandedOn

\* One pass of group_publish_terminal_members.
LEMMA PublishMemberStep ==
    ASSUME GroupConstantsOK, GroupInv, NEW w \in Threads, PublishMember(w)
    PROVE  GroupInv'
<1>0. /\ GroupTyped /\ MemberList /\ MemberOwners /\ Endings /\ Recording /\ ArmedOnes
      /\ Callbacks /\ Asking /\ Borrowing /\ Balanced
  BY DEF GroupInv
<1>1. PICK n, m, t, C, take : Leaves(w, n, m, t, C, take)
  BY <1>0, LeavePlan
<1> DEFINE E == LeaveOps(C, t)
<1>2. /\ take \in BOOLEAN /\ (take <=> group'.closed /\ group'.active = 0)
      /\ Laid(w, n, "member", m, E) /\ Readies("group", C, take)
      /\ group' \in GroupRecord /\ member' \in [Members -> MemberRecord]
      /\ m \in Elements(group.members) /\ group'.closed = group.closed
      /\ UNCHANGED <<cancelled, ended, outcome, taskMembers, refs, freed, holds, attached, expected>>
  BY <1>1 DEF Leaves
<1>3. /\ \A c : <<"wake", c>> \in E <=> c \in C
      /\ \A c : <<"release", c>> \notin E
      /\ \A a : \A k \in {"cancel", "requestCancel", "cancelNext"} : <<k, a>> \notin E
  BY LeaveKinds
<1> HIDE DEF E
<1>4. "group" \in Lists
  BY GroupNames
<1>5. MemberList' /\ MemberOwners' /\ Endings'
  BY <1>0, <1>1, LeaveLists
<1>6. Recording' /\ Asking'
  BY <1>0, <1>1, LeaveRecording
<1>7. Balanced'
  BY <1>0, <1>1, LeaveCounts
<1>8. Borrowing'
  BY <1>0, <1>2, <1>3 DEF Laid
<1>9. Callbacks'
  <2>1. "member" \notin {"wake", "release"}
    OBVIOUS
  <2> QED
    BY <1>0, <1>2, <1>3, <1>4, <2>1, ReadyCallbacks
<1>10. GroupTyped'
  BY <1>0, <1>2 DEF GroupTyped, Readies, Laid
<1>11. ArmedOnes'
  <2>1. /\ \A c : c \in C <=> take /\ c \in Elements(completions["group"])
        /\ \A c \in Completions : /\ completion'[c].state = IF c \in C THEN "Ready" ELSE completion[c].state
    BY <1>2 DEF Readies
  <2>2. ASSUME NEW c \in Completions, completion'[c].state = "Armed", completion[c].owner = "group"
        PROVE  group'.closed /\ group'.active # 0
    <3>1. c \notin C /\ completion[c].state = "Armed"
      BY <2>1, <2>2
    <3>2. c \in Elements(completions["group"]) /\ group.closed
      BY <1>0, <2>2, <3>1 DEF ArmedOnes
    <3> QED
      BY <1>2, <2>1, <3>1, <3>2
  <2>3. group.active # 0
    <3>1. group.members \in Seq(Members) /\ group.active = Len(group.members)
      BY <1>0 DEF GroupTyped, GroupRecord, MemberList
    <3>2. Len(group.members) \in Nat /\ DOMAIN group.members = 1..Len(group.members)
      BY <3>1, LenProperties
    <3>3. DOMAIN group.members # {}
      BY <1>2 DEF Elements
    <3> QED
      BY <3>1, <3>2, <3>3
  <2>4. \A c \in Completions : completion'[c].state = "Ready" /\ completion[c].of = "group" =>
          group'.closed /\ group'.active = 0
    BY <1>0, <1>2, <2>1, <2>3 DEF ArmedOnes
  <2>5. \A u \in Tasks : outcome'[u] = outcome[u] \/ (u = "group" /\ take)
    BY <1>2
  <2> QED
    BY <1>0, <1>2, <1>4, <2>2, <2>4, <2>5, ReadyArmed
<1> QED
  BY <1>5, <1>6, <1>7, <1>8, <1>9, <1>10, <1>11 DEF GroupInv

-----------------------------------------------------------------------------
(* The inductive invariant *)

\* Nothing to do, no member, no completion: every reference is a handle's, or the one that a
\* task's publication will drop.
LEMMA GroupInitially ==
    ASSUME GroupConstantsOK, Init
    PROVE  GroupInv
<1>0. /\ cancelled = [t \in Tasks |-> FALSE] /\ ended = [t \in Tasks |-> "None"]
      /\ outcome = [t \in Tasks |-> "None"]
      /\ completions = [o \in Tasks \cup {"group"} |-> <<>>]
      /\ taskMembers = [t \in Tasks |-> <<>>]
      /\ group = [closed |-> FALSE, cancelRequested |-> FALSE, implicitCancelled |-> FALSE,
                  implicitFailed |-> FALSE, members |-> <<>>, active |-> 0]
      /\ member = [m \in Members |-> NoMember]
      /\ freed = {} /\ holds = Handles /\ todo = [x \in Threads |-> <<>>]
      /\ attached = {} /\ expected = {}
  BY DEF Init
<1>1. /\ completion \in [Completions -> CompletionRecord]
      /\ \A c \in Completions : /\ completion[c].state = "None" /\ completion[c].owner = Nobody
                                /\ completion[c].of = Nobody
                                /\ completion[c].woke = 0 /\ completion[c].released = 0
  <2> DEFINE r == [state |-> "None", owner |-> Nobody, of |-> Nobody, woke |-> 0, released |-> 0]
  <2>1. /\ r \in CompletionRecord /\ r.state = "None" /\ r.owner = Nobody /\ r.of = Nobody
        /\ r.woke = 0 /\ r.released = 0
    BY DEF CompletionRecord
  <2>2. completion = [c \in Completions |-> r]
    BY DEF Init
  <2> HIDE DEF r
  <2> QED
    BY <2>1, <2>2
<1>2. \A o \in Objects :
        refs[o] = Cardinality({x \in Clients : o \in Handles[x]}) + (IF o \in Tasks THEN 1 ELSE 0)
  BY DEF Init, Cardinality, Cardinality
<1>3. refs = [o \in Objects |-> refs[o]]
  BY DEF Init
<1>4. /\ \A x \in Clients : Handles[x] \subseteq Tasks \cup {"group"}
      /\ Handles \in [Clients -> SUBSET Objects]
      /\ \E x \in Clients : "group" \in Handles[x]
      /\ IsFiniteSet(Clients)
  BY DEF GroupConstantsOK, ConstantsOK, Objects
<1>5. \A x, d, k, a : ~At(x, d, k, a)
  BY <1>0, LevelNone DEF At
<1>6. \A o : Releasing(o) = {} /\ IsFiniteSet(Releasing(o)) /\ Cardinality(Releasing(o)) = 0
  <2>1. \A o : Releasing(o) = {}
    BY <1>5 DEF Releasing, Frees
  <2> QED
    BY <2>1, FS_EmptySet
<1>7. \A m \in Members : member[m].task = Nobody /\ ~member[m].expect /\ ~member[m].sent
  BY <1>0 DEF NoMember
<1>8. \A o : Cardinality(Joins(o)) = 0
  <2>1. \A o : Joins(o) = {}
    BY <1>7 DEF Joins
  <2> QED
    BY <2>1, FS_EmptySet
<1>9. \A o \in Objects : Cardinality(Observing(o)) = 0
  <2>1. \A o \in Objects : Observing(o) = {}
    BY <1>1, GroupNames DEF Observing
  <2> QED
    BY <2>1, FS_EmptySet
<1>10. \A o \in Objects : Kept(o) = IF o \in Tasks THEN 1 ELSE 0
  BY <1>0, <1>1 DEF Kept
<1>11. ASSUME NEW o \in Objects
       PROVE  /\ Cardinality(Handed(o)) \in Nat
              /\ refs[o] = Cardinality(Handed(o)) + (IF o \in Tasks THEN 1 ELSE 0)
              /\ Handed(o) = {} => Cardinality(Handed(o)) = 0
              /\ Handed(o) # {} => Cardinality(Handed(o)) # 0
  <2>1. IsFiniteSet(Handed(o))
    <3>1. Handed(o) \subseteq Clients
      BY DEF Handed
    <3> QED
      BY <1>4, <3>1, FS_Subset
  <2>2. refs[o] = Cardinality(Handed(o)) + (IF o \in Tasks THEN 1 ELSE 0)
    BY <1>0, <1>2 DEF Handed
  <2> QED
    BY <2>1, <2>2, FS_CardinalityType, FS_EmptySet
<1>12. ASSUME NEW o \in Objects
       PROVE  /\ refs[o] \in Nat /\ refs[o] = Owners(o)
              /\ o \in freed <=> refs[o] = 0 /\ Created(o)
              /\ ~Created(o) => refs[o] = 0
  <2>1. refs[o] = Owners(o)
    <3> DEFINE h == Cardinality(Handed(o))
               b == IF o \in Tasks THEN 1 ELSE 0
    <3>1. Owners(o) = h + 0 + 0 + 0 + b /\ h \in Nat /\ refs[o] = h + b
      BY <1>6, <1>8, <1>9, <1>10, <1>11 DEF Owners
    <3>2. b \in Nat
      OBVIOUS
    <3> HIDE DEF h, b
    <3> QED
      BY <3>1, <3>2
  <2>2. CASE o \in Tasks
    <3>1. Created(o) /\ refs[o] # 0 /\ refs[o] \in Nat
      BY <1>11, <2>2, GroupNames DEF Created
    <3> QED
      BY <1>0, <2>1, <3>1
  <2>3. CASE o = "group"
    <3>1. Created(o) /\ o \notin Tasks
      BY <2>3, GroupNames DEF Created
    <3>2. Handed(o) # {}
      BY <1>0, <1>4, <2>3 DEF Handed
    <3> QED
      BY <1>0, <1>11, <2>1, <3>1, <3>2
  <2>4. CASE o \in Completions
    <3>1. ~Created(o) /\ o \notin Tasks /\ o # "group"
      BY <1>1, <2>4, GroupNames DEF Created
    <3>2. Handed(o) = {}
      BY <1>0, <1>4, <3>1 DEF Handed
    <3> QED
      BY <1>0, <1>11, <2>1, <3>1, <3>2
  <2> QED
    BY <2>2, <2>3, <2>4, GroupNames
<1>13. Balanced
  BY <1>6, <1>12 DEF Balanced
<1>14. refs \in [Objects -> Nat]
  BY <1>3, <1>12
<1>15. GroupTyped
  <2>1. group \in GroupRecord
    BY <1>0 DEF GroupRecord
  <2>2. member \in [Members -> MemberRecord]
    BY <1>0 DEF NoMember, MemberRecord
  <2>3. completions \in [Lists -> Seq(Completions)]
    BY <1>0 DEF Lists
  <2> QED
    BY <1>0, <1>1, <1>4, <1>14, <2>1, <2>2, <2>3 DEF GroupTyped
<1>16. \A v : v \notin Elements(<<>>)
  BY DEF Elements
<1>17. OneEach(<<>>) /\ Len(<<>>) = 0
  BY DEF OneEach
<1>18. MemberList
  BY <1>0, <1>7, <1>16, <1>17 DEF MemberList
<1>19. MemberOwners
  BY <1>0, <1>5, <1>7, <1>16, <1>17 DEF MemberOwners
<1>20. Endings
  BY <1>0, <1>5 DEF Endings
<1>21. Recording
  BY <1>0, <1>7 DEF Recording
<1>22. ArmedOnes
  BY <1>0, <1>1, <1>16, <1>17, GroupNames DEF ArmedOnes, Lists
<1>23. Callbacks
  BY <1>1, <1>5 DEF Callbacks, CallsBack
<1>24. Asking
  BY <1>7 DEF Asking
<1>25. Borrowing
  BY <1>5 DEF Borrowing
<1> QED
  BY <1>13, <1>15, <1>18, <1>19, <1>20, <1>21, <1>22, <1>23, <1>24, <1>25 DEF GroupInv

\* Every step keeps it: one case per action.
LEMMA GroupInductive ==
    ASSUME GroupConstantsOK, GroupInv, [Next]_vars
    PROVE  GroupInv'
<1>1. CASE UNCHANGED vars
  BY <1>1, GroupStutters DEF vars, taskVars, groupVars, lifetime,
                             history
<1>2. ASSUME NEW x \in Threads, Inside(x) PROVE GroupInv'
  <2>1. CASE WakeCallback(x)
    BY <2>1, WakeCallbackStep
  <2>2. CASE ReleaseCallback(x)
    BY <2>2, ReleaseCallbackStep
  <2>3. CASE Drop(x)
    BY <2>3, DropStep
  <2>4. CASE MarkRequested(x)
    BY <2>4, MarkRequestedStep
  <2>5. CASE CancelNext(x)
    BY <2>5, CancelNextStep
  <2>6. CASE CancelTask(x)
    BY <2>6, CancelTaskStep
  <2>7. CASE Publish(x)
    BY <2>7, PublishTerminalStep
  <2>8. CASE PublishMember(x)
    BY <2>8, PublishMemberStep
  <2> QED
    BY <1>2, <2>1, <2>2, <2>3, <2>4, <2>5, <2>6, <2>7, <2>8 DEF Inside
<1>3. ASSUME NEW x \in Clients, Call(x) PROVE GroupInv'
  <2>1. ASSUME NEW c \in Completions, GroupCompletionArm(x, c) PROVE GroupInv'
    BY <2>1, GroupCompletionArmStep
  <2>2. ASSUME NEW c \in Completions, NEW t \in Tasks, CompletionArm(x, c, t) PROVE GroupInv'
    BY <2>2, CompletionArmStep
  <2>3. ASSUME NEW c \in Completions, NEW release \in BOOLEAN,
               CompletionDetach(x, c, release)
        PROVE  GroupInv'
    BY <2>3, CompletionDetachStep
  <2>4. ASSUME NEW t \in Tasks, TaskRelease(x, t) PROVE GroupInv'
    BY <2>4, TaskReleaseStep
  <2>5. ASSUME NEW t \in Tasks, NEW m \in Members, NEW expect \in BOOLEAN,
               Attach(x, t, m, expect)
        PROVE  GroupInv'
    BY <2>5, AttachStep
  <2>6. ASSUME NEW cancel \in BOOLEAN, NEW release \in BOOLEAN, GroupClose(x, cancel, release)
        PROVE  GroupInv'
    BY <2>6, GroupCloseStep
  <2>7. CASE GroupRequestCancel(x)
    BY <2>7, GroupRequestCancelStep
  <2> QED
    BY <1>3, <2>1, <2>2, <2>3, <2>4, <2>5, <2>6, <2>7 DEF Call
<1>4. ASSUME NEW w \in Workers, NEW t \in Tasks, End(w, t) PROVE GroupInv'
  <2>1. PICK s \in Steps : Commit(w, t, s)
    BY <1>4 DEF End
  <2> QED
    BY <2>1, CommitStep
<1> QED
  BY <1>1, <1>2, <1>3, <1>4 DEF Next

\* The invariant of completions and task groups holds in every state: references are counted,
\* members and waiters are each in one place, callbacks are each made once.
THEOREM GroupInvariant ==
    ASSUME GroupConstantsOK
    PROVE  Spec => []GroupInv
<1>1. Init => GroupInv
  BY GroupInitially
<1>2. GroupInv /\ [Next]_vars => GroupInv'
  BY GroupInductive
<1> QED
  BY <1>1, <1>2, PTL DEF Spec

-----------------------------------------------------------------------------
(* What the invariant implies *)

\* An operation at a level is one of the sequence.
LEMMA AtElement ==
    ASSUME GroupTyped, NEW x, NEW d, NEW k, NEW a, At(x, d, k, a)
    PROVE  <<k, a>> \in Elements(todo[x])
<1> DEFINE s == todo[x]
           v == <<k, a>>
<1>1. s \in Seq(GroupOps) /\ d \in Nat /\ d < Len(s) /\ s[Len(s) - d] = v
  BY DEF At, Level, GroupTyped
<1>2. Len(s) \in Nat /\ DOMAIN s = 1..Len(s)
  BY <1>1, LenProperties
<1> HIDE DEF s, v
<1>3. Len(s) - d \in DOMAIN s
  BY <1>1, <1>2
<1>4. v \in Elements(s)
  BY <1>1, <1>3 DEF Elements
<1> QED
  BY <1>4 DEF s, v

\* A group with no active member has no member record in use.
LEMMA NoneActive ==
    ASSUME GroupTyped, MemberList, group.active = 0
    PROVE  \A m \in Members : member[m].task = Nobody
<1>1. group.members \in Seq(Members) /\ Len(group.members) = 0
  BY DEF GroupTyped, GroupRecord, MemberList
<1>2. group.members = <<>>
  BY <1>1, EmptySeq
<1>3. \A m : m \notin Elements(group.members)
  BY <1>2 DEF Elements
<1> QED
  BY <1>3 DEF MemberList

\* A drained group has seen every child end and has recorded what it had to.
LEMMA DrainSound ==
    ASSUME GroupConstantsOK, GroupInv
    PROVE  DrainExact
<1>0. GroupTyped /\ MemberList /\ Recording /\ ArmedOnes
  BY DEF GroupInv
<1>1. \A t \in Tasks : t # Nobody
  BY GroupNames
<1>2. expected \subseteq attached /\ attached \subseteq Tasks
  BY <1>0 DEF Recording
<1>3. ASSUME group.active = 0
      PROVE  /\ \A t \in attached : outcome[t] # "None"
             /\ \A t \in expected : /\ outcome[t] = "Cancelled" => group.implicitCancelled
                                    /\ outcome[t] = "Failed" => group.implicitFailed
  <2>1. \A m \in Members : member[m].task = Nobody
    BY <1>0, <1>3, NoneActive
  <2> QED
    BY <1>0, <1>1, <1>2, <2>1 DEF Recording
<1>4. ReadyIsDrained
  BY <1>0, <1>3 DEF ArmedOnes, ReadyIsDrained
<1>5. OutcomeComplete
  BY <1>0, <1>3 DEF Recording, OutcomeComplete
<1> QED
  BY <1>4, <1>5 DEF DrainExact

\* The types of the model.
LEMMA GroupTypesSound ==
    ASSUME GroupConstantsOK, GroupInv
    PROVE  TypeOK
<1>0. GroupTyped /\ Recording
  BY DEF GroupInv
<1> DEFINE T == {"wake", "release", "drop", "publish", "member", "cancel",
                 "requestCancel", "cancelNext"} \X (Objects \cup Members)
<1>1. GroupOps \subseteq T
  BY DEF GroupOps, Objects
<1>2. ASSUME NEW x \in Threads, NEW i \in DOMAIN todo[x] PROVE todo[x][i] \in T
  <2>1. todo[x] \in Seq(GroupOps)
    BY <1>0 DEF GroupTyped
  <2>2. todo[x][i] \in GroupOps
    BY <2>1, LenProperties, ElementOfSeq
  <2> QED
    BY <1>1, <2>2
<1>3. expected \subseteq attached /\ attached \subseteq Tasks
  BY <1>0 DEF Recording
<1> QED
  BY <1>0, <1>2, <1>3 DEF GroupTyped, GroupRecord, MemberRecord, CompletionRecord, TypeOK

\* A freed object has no owner left.
LEMMA FreedUnowned ==
    ASSUME GroupConstantsOK, GroupInv, NEW o \in freed
    PROVE  /\ o \in Objects /\ Created(o)
           /\ \A x, d : ~Frees(x, d, o)
           /\ o \in Completions => completion[o].state # "Armed"
<1>0. GroupTyped /\ Balanced
  BY DEF GroupInv
<1>1. o \in Objects /\ refs[o] = 0 /\ Created(o)
  BY <1>0 DEF GroupTyped, Balanced
<1>2. \A x, d : ~Frees(x, d, o)
  <2>1. \A x, d, q : Frees(x, d, q) => refs[q] >= 1
    BY <1>0, Referenced
  <2> QED
    BY <1>1, <2>1
<1>3. o \in Completions => completion[o].state # "Armed"
  <2>1. \A c \in Completions : completion[c].state = "Armed" => refs[c] >= 1
    BY <1>0, Referenced
  <2> QED
    BY <1>1, <2>1
<1> QED
  BY <1>1, <1>2, <1>3

\* Callbacks are made once.
LEMMA CallbacksSound ==
    ASSUME GroupConstantsOK, GroupInv
    PROVE  CallbacksOnce
<1>0. GroupTyped /\ ArmedOnes /\ Callbacks
  BY DEF GroupInv
<1> SUFFICES ASSUME NEW c \in Completions
             PROVE  /\ completion[c].woke <= 1 /\ completion[c].released <= 1
                    /\ completion[c].state \in {"Armed", "Detached"} => completion[c].woke = 0
                    /\ c \in freed =>
                         /\ completion[c].released = 1 <=> completion[c].owner # Nobody
                         /\ completion[c].woke = 1 <=>
                              completion[c].owner # Nobody /\ completion[c].state = "Ready"
  BY DEF CallbacksOnce
<1>1. /\ completion[c].state \in {"None", "Armed", "Ready", "Detached"}
      /\ completion[c].state = "None" => completion[c].owner = Nobody
  BY <1>0 DEF GroupTyped, CompletionRecord, ArmedOnes
<1>2. Awaits("wake", c) => /\ completion[c].state = "Ready"
                           /\ completion[c].woke = 0 /\ completion[c].released = 0
  BY <1>0 DEF Callbacks, Awaits
<1>3. Awaits("release", c) =>
        /\ completion[c].released = 0
        /\ \/ completion[c].state = "Ready" /\ completion[c].woke = 1
           \/ completion[c].state = "Detached" /\ completion[c].woke = 0
  BY <1>0 DEF Callbacks, Awaits
<1>4. CASE completion[c].owner = Nobody \/ completion[c].state = "Armed"
  <2>1. completion[c].woke = 0 /\ completion[c].released = 0
    BY <1>0, <1>4 DEF Callbacks
  <2>2. c \in freed => completion[c].state # "Armed"
    BY FreedUnowned
  <2> QED
    BY <1>4, <2>1, <2>2
<1>5. CASE completion[c].owner # Nobody /\ completion[c].state # "Armed"
  <2>1. completion[c].state \in {"Ready", "Detached"}
    BY <1>1, <1>5
  <2>2. \/ Awaits("wake", c) \/ Awaits("release", c)
        \/ /\ completion[c].released = 1
           /\ completion[c].woke = IF completion[c].state = "Ready" THEN 1 ELSE 0
    BY <1>0, <1>5, <2>1 DEF Callbacks
  <2>3. c \in freed => ~Awaits("wake", c) /\ ~Awaits("release", c)
    BY FreedUnowned DEF Frees, Awaits
  <2> QED
    BY <1>2, <1>3, <1>5, <2>1, <2>2, <2>3
<1> QED
  BY <1>4, <1>5

\* A requested cancellation reaches every member.
LEMMA CancelSound ==
    ASSUME GroupConstantsOK, GroupInv
    PROVE  CancelReaches
<1>0. GroupTyped /\ MemberList /\ Asking
  BY DEF GroupInv
<1>1. ASSUME NEW m \in Elements(group.members), NEW t, t = member[m].task, group.cancelRequested
      PROVE  \/ cancelled[t] \/ ended[t] # "None"
             \/ \E x \in Threads :
                  \/ <<"cancel", t>> \in Elements(todo[x])
                  \/ ~member[m].sent /\ <<"cancelNext", "group">> \in Elements(todo[x])
  <2>1. m \in Members
    <3>1. group.members \in Seq(Members)
      BY <1>0 DEF GroupTyped, GroupRecord
    <3> QED
      BY <3>1, LenProperties DEF Elements
  <2>2. t # Nobody
    BY <1>0, <1>1, <2>1 DEF MemberList
  <2>3. CASE member[m].sent
    <3>1. cancelled[t] \/ ended[t] # "None" \/ Awaits("cancel", t)
      BY <1>0, <1>1, <2>1, <2>3 DEF Asking
    <3>2. ASSUME Awaits("cancel", t)
          PROVE  \E x \in Threads : <<"cancel", t>> \in Elements(todo[x])
      BY <1>0, <3>2, AtElement DEF Awaits
    <3> QED
      BY <3>1, <3>2
  <2>4. CASE ~member[m].sent
    <3>1. Awaits("cancelNext", "group")
      BY <1>0, <1>1, <2>1, <2>2, <2>4 DEF Asking
    <3>2. \E x \in Threads : <<"cancelNext", "group">> \in Elements(todo[x])
      BY <1>0, <3>1, AtElement DEF Awaits
    <3> QED
      BY <2>4, <3>2
  <2> QED
    BY <2>3, <2>4
<1> QED
  BY <1>1 DEF CancelReaches

\* Nothing freed is used.
LEMMA UseSound ==
    ASSUME GroupConstantsOK, GroupInv
    PROVE  NoUseAfterFree
<1>0. /\ GroupTyped /\ MemberList /\ MemberOwners /\ Endings /\ ArmedOnes /\ Borrowing /\ Balanced
  BY DEF GroupInv
<1>1. /\ \A x \in Clients : \A o \in holds[x] : o \in Objects /\ refs[o] >= 1
      /\ \A x, d, o : Frees(x, d, o) => o \in Objects /\ refs[o] >= 1
      /\ \A m \in Members : member[m].task # Nobody =>
           member[m].task \in Tasks /\ refs[member[m].task] >= 1 /\ refs["group"] >= 1
      /\ \A c \in Completions : c \notin freed /\ completion[c].owner # Nobody =>
           completion[c].owner \in Lists /\ refs[completion[c].owner] >= 1
      /\ \A t \in Tasks : outcome[t] = "None" => refs[t] >= 1
      /\ \A c \in Completions : completion[c].state = "Armed" => refs[c] >= 1
      /\ \A o \in Objects : refs[o] >= 1 => o \notin freed
  BY <1>0, Referenced
<1>2. /\ Nobody \notin Objects /\ Nobody \notin Lists /\ "group" \in Objects
      /\ Tasks \subseteq Objects /\ \A t \in Tasks : t # Nobody
      /\ Lists \subseteq Objects /\ Completions \subseteq Objects
  BY GroupNames
<1>3. freed \subseteq Objects
  BY <1>0 DEF GroupTyped
<1>4. \A m \in Members : member[m].task # Nobody => member[m].task \notin freed /\ "group" \notin freed
  BY <1>1, <1>2
<1>5. ASSUME NEW x \in Threads PROVE Touches(x) \cap freed = {}
  <2>1. CASE todo[x] = <<>>
    <3>1. Touches(x) = IF x \in Clients THEN holds[x] ELSE {}
      BY <2>1 DEF Touches
    <3> QED
      BY <1>1, <3>1
  <2>2. CASE todo[x] # <<>>
    <3> DEFINE s == todo[x]
    <3>1. s \in Seq(GroupOps)
      BY <1>0 DEF GroupTyped
    <3>2. PICK n : n = Len(s) - 1
      OBVIOUS
    <3>3. Head(s) \in GroupOps /\ Level(s, n, Head(s))
      BY <2>2, <3>1, <3>2, LevelTail
    <3>4. PICK k, a : Head(s) = <<k, a>>
      BY <3>3, OpArgs
    <3>5. At(x, n, k, a) /\ <<k, a>> \in GroupOps
      BY <3>3, <3>4 DEF At
    <3>6. Head(s)[1] = k /\ Head(s)[2] = a
      BY <3>4
    <3>7. Touches(x) = IF k = "member" THEN {"group", member[a].task} ELSE {a}
      BY <2>2, <3>6 DEF Touches, Due, Arg
    <3>8. CASE k = "member"
      <4>1. a \in Members
        BY <3>5, <3>8, OpArgs
      <4>2. member[a].task \in Tasks
        BY <1>0, <3>5, <3>8 DEF MemberOwners
      <4>3. member[a].task \notin freed /\ "group" \notin freed
        BY <1>2, <1>4, <4>1, <4>2
      <4> QED
        BY <3>7, <3>8, <4>3
    <3>9. CASE k \in {"wake", "release", "drop"}
      <4>1. Frees(x, n, a)
        BY <3>5, <3>9 DEF Frees
      <4>2. a \notin freed
        BY <1>1, <4>1
      <4> QED
        BY <3>7, <3>9, <4>2
    <3>10. CASE k = "publish"
      <4>1. a \in Tasks
        BY <3>5, <3>10, OpArgs
      <4>2. outcome[a] = "None"
        BY <1>0, <3>5, <3>10 DEF Endings
      <4>3. a \notin freed
        BY <1>1, <1>2, <4>1, <4>2
      <4> QED
        BY <3>7, <3>10, <4>3
    <3>11. CASE k \in {"cancel", "requestCancel", "cancelNext"}
      <4>1. \/ x \in Clients /\ a \in holds[x]
            \/ \E e \in Nat : e < n /\ At(x, e, "drop", a)
        BY <1>0, <3>5, <3>11 DEF Borrowing
      <4>2. (\E e \in Nat : At(x, e, "drop", a)) => a \notin freed
        <5>1. \A e : At(x, e, "drop", a) => Frees(x, e, a)
          BY DEF Frees
        <5> QED
          BY <1>1, <5>1
      <4>3. a \notin freed
        BY <1>1, <4>1, <4>2
      <4> QED
        BY <3>7, <3>11, <4>3
    <3>12. k \in {"wake", "release", "drop", "publish", "member", "cancel", "requestCancel",
                  "cancelNext"}
      BY <3>5, OpArgs
    <3> QED
      BY <3>8, <3>9, <3>10, <3>11, <3>12
  <2> QED
    BY <2>1, <2>2
<1>6. ASSUME NEW o \in Lists, completions[o] # <<>>
      PROVE  ({o} \cup Elements(completions[o])) \cap freed = {}
  <2>1. completions[o] \in Seq(Completions)
    BY <1>0 DEF GroupTyped
  <2>2. Elements(completions[o]) \subseteq Completions
    BY <2>1, LenProperties DEF Elements
  <2>3. Elements(completions[o]) # {}
    <3>1. Len(completions[o]) \in Nat /\ Len(completions[o]) # 0
          /\ DOMAIN completions[o] = 1..Len(completions[o])
      BY <1>6, <2>1, EmptySeq, LenProperties
    <3>2. 1 \in DOMAIN completions[o]
      BY <3>1
    <3> QED
      BY <3>2 DEF Elements
  <2>4. \A c \in Elements(completions[o]) :
          completion[c].state = "Armed" /\ completion[c].owner = o
    BY <1>0 DEF ArmedOnes
  <2>5. \A c \in Elements(completions[o]) : c \notin freed
    BY <1>1, <1>2, <2>2, <2>4
  <2>6. o \notin freed
    <3>1. PICK c \in Elements(completions[o]) : TRUE
      BY <2>3
    <3>2. c \in Completions /\ c \notin freed /\ completion[c].owner = o /\ o # Nobody
      BY <1>2, <2>2, <2>4, <2>5, <3>1
    <3>3. refs[o] >= 1
      BY <1>1, <3>2
    <3> QED
      BY <1>1, <1>2, <3>3
  <2> QED
    BY <2>5, <2>6
<1>7. ASSUME NEW m \in Elements(group.members) PROVE {"group", member[m].task} \cap freed = {}
  <2>1. m \in Members
    <3>1. group.members \in Seq(Members)
      BY <1>0 DEF GroupTyped, GroupRecord
    <3> QED
      BY <3>1, LenProperties DEF Elements
  <2>2. member[m].task # Nobody
    BY <1>0, <2>1 DEF MemberList
  <2> QED
    BY <1>4, <2>1, <2>2
<1>8. ASSUME NEW c \in Completions, c \notin freed PROVE completion[c].owner \notin freed
  BY <1>1, <1>2, <1>3, <1>8
<1> QED
  BY <1>5, <1>6, <1>7, <1>8 DEF NoUseAfterFree

\* Nothing is left over.
LEMMA LeakSound ==
    ASSUME GroupConstantsOK, GroupInv
    PROVE  NoLeak
<1> SUFFICES ASSUME \A x \in Threads : todo[x] = <<>>,
                    \A x \in Clients : holds[x] = {},
                    \A t \in Tasks : outcome[t] # "None"
             PROVE  freed = {"group"} \cup Tasks
                              \cup {c \in Completions : completion[c].state # "None"}
  BY DEF NoLeak, Idle
<1>0. /\ GroupTyped /\ MemberList /\ MemberOwners /\ ArmedOnes /\ Balanced
  BY DEF GroupInv
<1>1. \A x, d, k, a : ~At(x, d, k, a)
  BY LevelNone DEF At
<1>2. \A t \in Tasks : t # Nobody /\ t \notin Completions
  BY GroupNames
<1>3. \A m \in Members : member[m].task = Nobody
  <2> SUFFICES ASSUME NEW m \in Members, member[m].task # Nobody PROVE FALSE
    OBVIOUS
  <2>1. member[m].task \in Tasks
    BY <1>0 DEF GroupTyped, MemberRecord
  <2>2. m \in Elements(taskMembers[member[m].task])
    BY <1>0, <1>1 DEF MemberOwners, Awaits
  <2> QED
    BY <1>0, <2>1, <2>2 DEF MemberOwners
<1>4. \A c \in Completions : completion[c].state # "Armed"
  <2> SUFFICES ASSUME NEW c \in Completions, completion[c].state = "Armed" PROVE FALSE
    OBVIOUS
  <2>1. completion[c].owner = "group" /\ group.active # 0
    BY <1>0, GroupNames DEF ArmedOnes
  <2>2. group.members \in Seq(Members) /\ group.active = Len(group.members)
    BY <1>0 DEF GroupTyped, GroupRecord, MemberList
  <2>3. Len(group.members) \in Nat /\ DOMAIN group.members = 1..Len(group.members)
    BY <2>2, LenProperties
  <2>4. 1 \in DOMAIN group.members /\ group.members[1] \in Members
    BY <2>1, <2>2, <2>3, ElementOfSeq
  <2>5. group.members[1] \in Elements(group.members)
    BY <2>4 DEF Elements
  <2> QED
    BY <1>0, <1>3, <2>4, <2>5 DEF MemberList
<1>5. ASSUME NEW o \in Objects, Observing(o) = {}, Created(o) PROVE o \in freed
  <2>1. IsFiniteSet(Releasing(o))
    BY <1>0 DEF Balanced
  <2>2. Handed(o) = {} /\ Releasing(o) = {} /\ Joins(o) = {}
    BY <1>1, <1>3 DEF Handed, Releasing, Frees, Joins
  <2>3. Kept(o) = 0
    BY <1>4 DEF Kept
  <2>4. Owners(o) = 0
    BY <1>5, <2>1, <2>2, <2>3, OwnerNumbers
  <2> QED
    BY <1>0, <1>5, <2>4 DEF Balanced
<1>6. ASSUME NEW c \in Completions, completion[c].state # "None" PROVE c \in freed
  <2>1. c \in Objects /\ Created(c)
    BY <1>6, GroupNames DEF Created
  <2>2. Observing(c) = {}
    <3>1. \A e \in Completions : completion[e].owner \in Lists \cup {Nobody}
      BY <1>0 DEF GroupTyped, CompletionRecord
    <3>2. c \notin Lists /\ c # Nobody
      BY GroupNames
    <3> QED
      BY <3>1, <3>2 DEF Observing
  <2> QED
    BY <1>5, <2>1, <2>2
<1>7. ASSUME NEW o \in Lists PROVE o \in freed
  <2>1. o \in Objects /\ o \notin Completions /\ o # Nobody
    BY <1>2, GroupNames
  <2>2. Created(o)
    BY <2>1 DEF Created
  <2>3. Observing(o) = {}
    BY <1>0, <1>6, <2>1 DEF Observing, ArmedOnes
  <2> QED
    BY <1>5, <2>1, <2>2, <2>3
<1>8. \A o \in freed : o \in Objects /\ Created(o)
  BY FreedUnowned
<1>9. \A o \in freed : o \in Tasks \/ o = "group" \/ (o \in Completions /\ completion[o].state # "None")
  BY <1>8, GroupNames DEF Created
<1>10. \A t \in Tasks : t \in freed
  BY <1>7, GroupNames
<1>11. "group" \in freed
  BY <1>7, GroupNames
<1> QED
  BY <1>6, <1>9, <1>10, <1>11

\* A group that reports ready has no member left and an outcome of them all, for any number of
\* tasks, members, completions and threads (DrainExact).
THEOREM DrainHolds ==
    ASSUME GroupConstantsOK
    PROVE  Spec => []DrainExact
<1>1. GroupInv => DrainExact
  BY DrainSound
<1> QED
  BY <1>1, GroupInvariant, PTL

\* Completions and groups shared by threads are safe: types, callbacks once, a cancellation that
\* reaches every member, nothing used after it is freed, nothing left over (SharingSafe).
THEOREM SharingHolds ==
    ASSUME GroupConstantsOK
    PROVE  Spec => []SharingSafe
<1>1. GroupInv => SharingSafe
  BY GroupTypesSound, CallbacksSound, CancelSound, UseSound, LeakSound DEF SharingSafe
<1> QED
  BY <1>1, GroupInvariant, PTL
=============================================================================
