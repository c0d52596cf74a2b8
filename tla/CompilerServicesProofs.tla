----------------------- MODULE CompilerServicesProofs -----------------------
(***************************************************************************)
(* Safety of the compiler's services, for any number of threads, requests  *)
(* and artifacts, in four parts.                                           *)
(*                                                                         *)
(* The load executor, with any consumers, workers and loads: the queue     *)
(* keeps to its limit, nothing is queued or running once drain has         *)
(* returned, and a specialization is loaded once.  The argument is about   *)
(* the consumers: whoever is submitting the load of a specialization holds *)
(* specialization_mutex and has found no future for it, and whoever has    *)
(* submitted one has left a future; about the workers: active is the       *)
(* number of workers that have a load; and about the owner: once it has    *)
(* left the compilation nobody pushes any more, either because the         *)
(* cancellation is requested or because all consumers are done, so that    *)
(* what drain saw stays true.                                              *)
(*                                                                         *)
(* The artifact store the loads read from: every root and lease keeps all  *)
(* it leads to, whatever builds publish, collect or leave behind when they *)
(* die.                                                                    *)
(*                                                                         *)
(* The pool that works through the packages of a request: no package is    *)
(* taken before its dependencies, and what a request returns is what its   *)
(* sources give.                                                           *)
(*                                                                         *)
(* The language server: each query is in one place until its one answer,   *)
(* and the answer is of the documents the query was asked about.           *)
(***************************************************************************)
EXTENDS ArtifactLoadExecutor, FiniteSetTheorems, SequenceTheorems, WellFoundedInduction, TLAPS

\* What the proofs assume of the constants: finitely many workers, at least one load of
\* each consumer, and exactly one of a consumer that asks for a specialization.
ConstantsOK ==
    /\ IsFiniteSet(Workers)
    /\ QueueLimit \in Nat
    /\ Batch \in [Consumers -> Nat \ {0}]
    /\ \A c \in Consumers : Key[c] # NoKey => Batch[c] = 1

ConsumerPc == {"idle", "submit", "asleep", "woken", "pushed", "await", "done"}
SubmitPc == {"submit", "asleep", "woken", "pushed"}
WorkerPc == {"awake", "asleep", "popped", "run", "ran", "finished", "exited"}
LoadPc == {"popped", "run", "ran"}
QuietPc == {"drained", "stopping", "joining", "destroyed"}

\* The consumers: where they are, what they have left to submit, and what the submitter
\* of a specialization may rely on.
Consuming ==
    /\ cpc \in [Consumers -> ConsumerPc]
    /\ next \in [Consumers -> Nat \ {0}]
    /\ future \in [Keys -> Loads \cup {NoLoad}]
    /\ \A c \in Consumers : cpc[c] \in SubmitPc \cup {"idle"} => next[c] <= Batch[c]
    /\ \A c \in Consumers : Key[c] # NoKey /\ cpc[c] \in SubmitPc =>
         specLock = <<c, 1>> /\ future[Key[c]] = NoLoad
    /\ \A c \in Consumers : Key[c] # NoKey /\ next[c] > 1 => future[Key[c]] # NoLoad

\* The queue and the workers: active counts the workers that have a load.
Carrying == {w \in Workers : wpc[w] \in LoadPc}
Working ==
    /\ tasks \in Seq(Loads) /\ Len(tasks) <= QueueLimit
    /\ pending \in Seq(Loads)
    /\ completed \subseteq Loads
    /\ wpc \in [Workers -> WorkerPc]
    /\ taken \in [Workers -> Loads \cup {NoLoad}]
    /\ \A w \in Workers : IF wpc[w] \in LoadPc THEN taken[w] \in Loads ELSE taken[w] = NoLoad
    /\ active = Cardinality(Carrying)

\* The owner: nobody submits behind it, and what drain saw stays true.
Owning ==
    /\ opc # "compiling" => requested \/ \A c \in Consumers : cpc[c] = "done"
    /\ opc \in QuietPc => tasks = <<>> /\ Carrying = {}

IInv == Consuming /\ Working /\ Owning

-----------------------------------------------------------------------------
(* Facts about loads *)

\* No load is the value that stands for none.
LEMMA LoadFacts ==
    ASSUME ConstantsOK
    PROVE  /\ NoLoad \notin Loads
           /\ \A c \in Consumers : \A i \in 1..Batch[c] : <<c, i>> \in Loads
           /\ \A c \in Consumers : <<c, 1>> \in Loads
           /\ \A c \in Consumers : Key[c] # NoKey => Key[c] \in Keys
<1>1. ASSUME NEW c \in Consumers, NEW i \in 1..Batch[c] PROVE <<c, i>> \in Loads
  <2>1. Batch[c] \in Nat
    BY DEF ConstantsOK
  <2>2. <<c, i>> \in Consumers \X Nat /\ <<c, i>>[1] = c /\ <<c, i>>[2] = i
    BY <2>1
  <2> QED
    BY <2>2 DEF Loads
<1>2. \A c \in Consumers : 1 \in 1..Batch[c]
  BY DEF ConstantsOK
<1>3. NoLoad \notin Loads
  BY DEF NoLoad, Loads
<1> QED
  BY <1>1, <1>2, <1>3 DEF Keys

\* What the number of workers with a load becomes when one of them moves.
LEMMA Carried ==
    ASSUME ConstantsOK, wpc \in [Workers -> WorkerPc], NEW w \in Workers, NEW to,
           wpc' = [wpc EXCEPT ![w] = to]
    PROVE  /\ Cardinality(Carrying) \in Nat
           /\ (wpc[w] \in LoadPc <=> to \in LoadPc) => Carrying' = Carrying
           /\ wpc[w] \notin LoadPc /\ to \in LoadPc =>
                Cardinality(Carrying') = Cardinality(Carrying) + 1
           /\ wpc[w] \in LoadPc /\ to \notin LoadPc =>
                Cardinality(Carrying') = Cardinality(Carrying) - 1
<1>1. IsFiniteSet(Carrying)
  BY FS_Subset DEF ConstantsOK, Carrying
<1>2. wpc'[w] = to /\ \A v \in Workers \ {w} : wpc'[v] = wpc[v]
  OBVIOUS
<1>3. (wpc[w] \in LoadPc <=> to \in LoadPc) => Carrying' = Carrying
  BY <1>2 DEF Carrying
<1>4. wpc[w] \notin LoadPc /\ to \in LoadPc => Carrying' = Carrying \cup {w} /\ w \notin Carrying
  BY <1>2 DEF Carrying
<1>5. wpc[w] \in LoadPc /\ to \notin LoadPc => Carrying' = Carrying \ {w} /\ w \in Carrying
  BY <1>2 DEF Carrying
<1> QED
  BY <1>1, <1>3, <1>4, <1>5, FS_CardinalityType, FS_AddElement, FS_RemoveElement

-----------------------------------------------------------------------------
(* The consumers *)

\* A submission ends: the future of a specialization is there before its mutex is free.
LEMMA SubmissionEnds ==
    ASSUME ConstantsOK, Consuming, NEW c \in Consumers, cpc[c] \in SubmitPc, Submitted(c)
    PROVE  Consuming'
<1>0. /\ cpc \in [Consumers -> ConsumerPc] /\ next \in [Consumers -> Nat \ {0}]
      /\ future \in [Keys -> Loads \cup {NoLoad}]
  BY DEF Consuming
<1>1. /\ next' = [next EXCEPT ![c] = next[c] + 1]
      /\ cpc' = [cpc EXCEPT ![c] = IF next[c] = Batch[c] THEN "await" ELSE "submit"]
  BY DEF Submitted
<1>2. Batch[c] \in Nat /\ next[c] \in Nat \ {0} /\ next[c] <= Batch[c]
  BY <1>0 DEF Consuming, ConstantsOK
<1>3. cpc' \in [Consumers -> ConsumerPc] /\ next' \in [Consumers -> Nat \ {0}]
  BY <1>0, <1>1, <1>2 DEF ConsumerPc
<1>4. \A d \in Consumers \ {c} : cpc'[d] = cpc[d] /\ next'[d] = next[d]
  BY <1>0, <1>1
<1>5. /\ next'[c] = next[c] + 1
      /\ cpc'[c] = IF next[c] = Batch[c] THEN "await" ELSE "submit"
  BY <1>0, <1>1
<1>6. \A d \in Consumers : cpc'[d] \in SubmitPc \cup {"idle"} => next'[d] <= Batch[d]
  <2>1. cpc'[c] \in SubmitPc \cup {"idle"} => next'[c] <= Batch[c]
    BY <1>2, <1>5 DEF SubmitPc
  <2> QED
    BY <1>4, <2>1 DEF Consuming
<1>7. CASE Key[c] = NoKey
  <2>1. UNCHANGED <<future, specLock>>
    BY <1>7 DEF Submitted
  <2>2. \A d \in Consumers : Key[d] # NoKey => cpc'[d] = cpc[d] /\ next'[d] = next[d]
    BY <1>4, <1>7
  <2> QED
    BY <1>0, <1>3, <1>6, <2>1, <2>2 DEF Consuming
<1>8. CASE Key[c] # NoKey
  <2>1. /\ future' = [future EXCEPT ![Key[c]] = <<c, 1>>]
        /\ Key[c] \in Keys /\ <<c, 1>> \in Loads /\ NoLoad \notin Loads
    BY <1>8, LoadFacts DEF Submitted
  <2>2. future' \in [Keys -> Loads \cup {NoLoad}] /\ future'[Key[c]] # NoLoad
    BY <1>0, <2>1
  <2>3. \A k \in Keys : future[k] # NoLoad => future'[k] # NoLoad
    BY <1>0, <2>1, <2>2
  <2>4. specLock = <<c, 1>>
    BY <1>8 DEF Consuming
  <2>5. ASSUME NEW d \in Consumers, Key[d] # NoKey, cpc'[d] \in SubmitPc PROVE FALSE
    <3>1. Batch[c] = 1 /\ next[c] = 1
      BY <1>2, <1>8 DEF ConstantsOK
    <3>2. d # c
      BY <1>5, <2>5, <3>1 DEF SubmitPc
    <3>3. specLock = <<d, 1>>
      BY <1>4, <2>5, <3>2 DEF Consuming
    <3> QED
      BY <2>4, <3>2, <3>3
  <2>6. ASSUME NEW d \in Consumers, Key[d] # NoKey, next'[d] > 1 PROVE future'[Key[d]] # NoLoad
    <3>1. CASE d = c
      BY <2>2, <3>1
    <3>2. CASE d # c
      <4>1. Key[d] \in Keys /\ future[Key[d]] # NoLoad
        BY <1>4, <2>6, <3>2, LoadFacts DEF Consuming
      <4> QED
        BY <2>3, <4>1
    <3> QED
      BY <3>1, <3>2
  <2> QED
    BY <1>3, <1>6, <2>2, <2>5, <2>6 DEF Consuming
<1> QED
  BY <1>7, <1>8

\* A consumer moves without submitting anything.
LEMMA ConsumerMoves ==
    ASSUME ConstantsOK, Consuming, NEW c \in Consumers, NEW to \in ConsumerPc,
           cpc' = [cpc EXCEPT ![c] = to], UNCHANGED <<next, future, specLock>>,
           to \in SubmitPc \cup {"idle"} => cpc[c] \in SubmitPc \cup {"idle"},
           to \in SubmitPc /\ Key[c] # NoKey => cpc[c] \in SubmitPc
    PROVE  Consuming'
<1>1. cpc \in [Consumers -> ConsumerPc]
  BY DEF Consuming
<1>2. cpc' \in [Consumers -> ConsumerPc] /\ cpc'[c] = to
      /\ \A d \in Consumers \ {c} : cpc'[d] = cpc[d]
  BY <1>1
<1> QED
  BY <1>2 DEF Consuming

\* space.notify_all wakes submitters; they stay submitters.
LEMMA SpaceNotified ==
    ASSUME Consuming, cpc' = WakeSpace, UNCHANGED <<next, future, specLock>>
    PROVE  Consuming'
<1>1. cpc \in [Consumers -> ConsumerPc]
  BY DEF Consuming
<1>2. \A d \in Consumers : cpc'[d] = IF cpc[d] = "asleep" THEN "woken" ELSE cpc[d]
  BY DEF WakeSpace
<1>3. cpc' \in [Consumers -> ConsumerPc]
  BY <1>1 DEF WakeSpace, ConsumerPc
<1>4. \A d \in Consumers : /\ cpc'[d] \in SubmitPc <=> cpc[d] \in SubmitPc
                           /\ cpc'[d] = "idle" <=> cpc[d] = "idle"
  BY <1>2 DEF SubmitPc
<1> QED
  BY <1>3, <1>4 DEF Consuming

\* Every step keeps the consumers' part of the invariant.
LEMMA ConsumingKept ==
    ASSUME ConstantsOK, Consuming, [Next]_vars
    PROVE  Consuming'
<1>1. CASE UNCHANGED consumerVars
  BY <1>1 DEF consumerVars, Consuming
<1>2. CASE cpc' = WakeSpace /\ UNCHANGED <<next, future, specLock>>
  BY <1>2, SpaceNotified
<1>3. ASSUME NEW c \in Consumers, Start(c) PROVE Consuming'
  <2>1. /\ cpc[c] = "idle" /\ UNCHANGED <<next, future>>
        /\ Key[c] # NoKey => specLock = NoLoad
    BY <1>3 DEF Start
  <2>2. CASE Key[c] # NoKey /\ future[Key[c]] # NoLoad
    <3>1. cpc' = [cpc EXCEPT ![c] = "await"] /\ UNCHANGED specLock
      BY <1>3, <2>2 DEF Start
    <3> QED
      BY <2>1, <3>1, ConsumerMoves DEF ConsumerPc, SubmitPc
  <2>3. CASE Key[c] = NoKey
    <3>1. cpc' = [cpc EXCEPT ![c] = "submit"] /\ UNCHANGED specLock
      BY <1>3, <2>3 DEF Start
    <3> QED
      BY <2>1, <2>3, <3>1, ConsumerMoves DEF ConsumerPc, SubmitPc
  <2>4. CASE Key[c] # NoKey /\ future[Key[c]] = NoLoad
    <3>1. cpc' = [cpc EXCEPT ![c] = "submit"] /\ specLock' = <<c, 1>>
      BY <1>3, <2>4 DEF Start
    <3>2. ASSUME NEW d \in Consumers, Key[d] # NoKey, cpc[d] \in SubmitPc PROVE FALSE
      <4>1. specLock = <<d, 1>>
        BY <3>2 DEF Consuming
      <4> QED
        BY <2>1, <2>4, <4>1, LoadFacts
    <3>3. cpc' \in [Consumers -> ConsumerPc] /\ cpc'[c] = "submit"
          /\ \A d \in Consumers \ {c} : cpc'[d] = cpc[d]
      BY <3>1 DEF Consuming, ConsumerPc
    <3>4. \A d \in Consumers : Key[d] # NoKey /\ cpc'[d] \in SubmitPc =>
                                 specLock' = <<d, 1>> /\ future'[Key[d]] = NoLoad
      BY <2>1, <2>4, <3>1, <3>2, <3>3
    <3>5. \A d \in Consumers : cpc'[d] \in SubmitPc \cup {"idle"} => next'[d] <= Batch[d]
      BY <2>1, <3>3 DEF Consuming
    <3> QED
      BY <2>1, <3>3, <3>4, <3>5 DEF Consuming
  <2> QED
    BY <2>2, <2>3, <2>4
<1>4. ASSUME NEW c \in Consumers, SubmitSleep(c) \/ SubmitPush(c) \/ Await(c) PROVE Consuming'
  <2>1. PICK to \in {"asleep", "pushed", "done"} :
          /\ cpc' = [cpc EXCEPT ![c] = to] /\ UNCHANGED <<next, future, specLock>>
          /\ to # "done" => cpc[c] \in {"submit", "woken"}
    BY <1>4 DEF SubmitSleep, SubmitPush, Submitting, Await
  <2> QED
    BY <2>1, ConsumerMoves DEF ConsumerPc, SubmitPc
<1>5. ASSUME NEW c \in Consumers, SubmitCancelled(c) \/ SubmitNotify(c) PROVE Consuming'
  <2>1. Submitted(c) /\ cpc[c] \in SubmitPc
    BY <1>5 DEF SubmitCancelled, SubmitNotify, Submitting, SubmitPc
  <2> QED
    BY <2>1, SubmissionEnds
<1>6. ASSUME NEW w \in Workers, WorkerStep(w) PROVE Consuming'
  <2>1. UNCHANGED consumerVars \/ (cpc' = WakeSpace /\ UNCHANGED <<next, future, specLock>>)
    BY <1>6 DEF WorkerStep, WorkerSleep, WorkerExit, WorkerPop, WorkerSpace, WorkerRun,
                WorkerFinish, WorkerDrained, consumerVars
  <2> QED
    BY <1>1, <1>2, <2>1
<1>7. CASE OwnerStep \/ CancelRequest \/ CancelOutside \/ Done \/ UNCHANGED vars
  <2>1. UNCHANGED consumerVars \/ (cpc' = WakeSpace /\ UNCHANGED <<next, future, specLock>>)
    BY <1>7 DEF OwnerStep, CancelSwap, CancelOne, CancelNotify, DrainBegin, Drain, Destroy,
                DestroyNotify, Join, CancelRequest, CancelOutside, Done, vars, consumerVars
  <2> QED
    BY <1>1, <1>2, <2>1
<1> QED
  BY <1>3, <1>4, <1>5, <1>6, <1>7 DEF Next, ConsumerStep

-----------------------------------------------------------------------------
(* The queue and the workers *)

\* Head and tail of a queue of loads.
LEMMA Popped ==
    ASSUME NEW q \in Seq(Loads), q # <<>>
    PROVE  Head(q) \in Loads /\ Tail(q) \in Seq(Loads) /\ Len(Tail(q)) = Len(q) - 1
  BY HeadTailProperties

\* A worker that moves without a load changing hands.
LEMMA WorkerMoves ==
    ASSUME ConstantsOK, Working, NEW w \in Workers, NEW to \in WorkerPc,
           wpc' = [wpc EXCEPT ![w] = to], wpc[w] \in LoadPc <=> to \in LoadPc,
           UNCHANGED <<tasks, active, taken, pending>>, completed' \subseteq Loads
    PROVE  Working' /\ Carrying' = Carrying
<1>0. wpc \in [Workers -> WorkerPc]
  BY DEF Working
<1>1. wpc' \in [Workers -> WorkerPc] /\ wpc'[w] = to /\ \A v \in Workers \ {w} : wpc'[v] = wpc[v]
  BY <1>0
<1>2. Carrying' = Carrying
  BY <1>0, Carried
<1>3. \A v \in Workers : wpc'[v] \in LoadPc <=> wpc[v] \in LoadPc
  BY <1>1
<1> QED
  BY <1>1, <1>2, <1>3 DEF Working

\* Workers that are woken, if any, have no load.
LEMMA WorkersWoken ==
    ASSUME Working, wpc' \in [Workers -> WorkerPc],
           \A w \in Workers : wpc'[w] = wpc[w] \/ (wpc[w] = "asleep" /\ wpc'[w] = "awake"),
           UNCHANGED <<active, taken>>,
           tasks' \in Seq(Loads), Len(tasks') <= QueueLimit, pending' \in Seq(Loads),
           completed' \subseteq Loads
    PROVE  Working' /\ Carrying' = Carrying
<1>1. \A w \in Workers : wpc'[w] \in LoadPc <=> wpc[w] \in LoadPc
  BY DEF LoadPc
<1>2. Carrying' = Carrying
  BY <1>1 DEF Carrying
<1> QED
  BY <1>1, <1>2 DEF Working

\* Every step keeps the workers' part; only a worker that pops, and one that finishes,
\* changes who carries a load.
LEMMA WorkingKept ==
    ASSUME ConstantsOK, Consuming, Working, [Next]_vars
    PROVE  /\ Working'
           /\ Carrying' = Carrying \/ \E w \in Workers : WorkerPop(w) \/ WorkerFinish(w)
<1>0. /\ tasks \in Seq(Loads) /\ Len(tasks) <= QueueLimit /\ pending \in Seq(Loads)
      /\ completed \subseteq Loads /\ wpc \in [Workers -> WorkerPc]
      /\ taken \in [Workers -> Loads \cup {NoLoad}]
      /\ \A w \in Workers : IF wpc[w] \in LoadPc THEN taken[w] \in Loads ELSE taken[w] = NoLoad
      /\ active = Cardinality(Carrying)
  BY DEF Working
<1> DEFINE Goal == /\ Working'
                   /\ Carrying' = Carrying \/ \E w \in Workers : WorkerPop(w) \/ WorkerFinish(w)
<1>s. ASSUME NEW c \in Consumers, cpc[c] \in SubmitPc PROVE <<c, next[c]>> \in Loads
  <2>1. next[c] \in 1..Batch[c]
    BY <1>s DEF Consuming, ConstantsOK
  <2> QED
    BY <2>1, LoadFacts
<1>1. ASSUME NEW c \in Consumers, Start(c) \/ SubmitSleep(c) \/ Await(c) PROVE Goal
  <2>1. UNCHANGED <<queueVars, completed, workerVars, pending>>
    BY <1>1 DEF Start, SubmitSleep, Await, ownerVars
  <2> QED
    BY <1>0, <2>1, WorkersWoken DEF queueVars, workerVars
<1>2. ASSUME NEW c \in Consumers, SubmitCancelled(c) PROVE Goal
  <2>1. /\ cpc[c] \in SubmitPc /\ UNCHANGED <<queueVars, workerVars, pending>>
        /\ completed' = completed \cup {<<c, next[c]>>}
    BY <1>2 DEF SubmitCancelled, Submitting, SubmitPc, Completed, ownerVars
  <2>2. completed' \subseteq Loads
    BY <1>0, <1>s, <2>1
  <2> QED
    BY <1>0, <2>1, <2>2, WorkersWoken DEF queueVars, workerVars
<1>3. ASSUME NEW c \in Consumers, SubmitPush(c) PROVE Goal
  <2>1. /\ cpc[c] \in SubmitPc /\ UNCHANGED <<active, completed, workerVars, pending>>
        /\ tasks' = Append(tasks, <<c, next[c]>>) /\ Len(tasks) < QueueLimit
    BY <1>3 DEF SubmitPush, Submitting, SubmitPc, ownerVars
  <2>2. tasks' \in Seq(Loads) /\ Len(tasks') = Len(tasks) + 1
    BY <1>0, <1>s, <2>1, AppendProperties
  <2>3. Len(tasks') <= QueueLimit
    BY <1>0, <2>1, <2>2, LenProperties DEF ConstantsOK
  <2> QED
    BY <1>0, <2>1, <2>2, <2>3, WorkersWoken DEF workerVars
<1>4. ASSUME NEW c \in Consumers, SubmitNotify(c) PROVE Goal
  <2>1. /\ UNCHANGED <<queueVars, completed, taken, pending>>
        /\ \/ UNCHANGED wpc
           \/ \E w \in Workers : wpc[w] = "asleep" /\ wpc' = [wpc EXCEPT ![w] = "awake"]
    BY <1>4 DEF SubmitNotify, ownerVars
  <2>2. /\ wpc' \in [Workers -> WorkerPc]
        /\ \A w \in Workers : wpc'[w] = wpc[w] \/ (wpc[w] = "asleep" /\ wpc'[w] = "awake")
    BY <1>0, <2>1 DEF WorkerPc
  <2> QED
    BY <1>0, <2>1, <2>2, WorkersWoken DEF queueVars
<1>5. ASSUME NEW w \in Workers,
             WorkerSleep(w) \/ WorkerExit(w) \/ WorkerSpace(w) \/ WorkerDrained(w)
      PROVE  Goal
  <2>1. /\ UNCHANGED <<tasks, active, taken, pending, completed>>
        /\ \E to \in WorkerPc : /\ wpc' = [wpc EXCEPT ![w] = to]
                                /\ wpc[w] \in LoadPc <=> to \in LoadPc
    BY <1>5 DEF WorkerSleep, WorkerExit, WorkerSpace, WorkerDrained, WorkerPc, LoadPc,
                queueVars, ownerVars
  <2> QED
    BY <1>0, <2>1, WorkerMoves
<1>6. ASSUME NEW w \in Workers, WorkerRun(w) PROVE Goal
  <2>1. /\ UNCHANGED <<tasks, active, taken, pending>> /\ wpc[w] = "run"
        /\ completed' = completed \cup {taken[w]} /\ wpc' = [wpc EXCEPT ![w] = "ran"]
    BY <1>6 DEF WorkerRun, Completed, queueVars, ownerVars
  <2>2. completed' \subseteq Loads
    BY <1>0, <2>1 DEF LoadPc
  <2> QED
    BY <1>0, <2>1, <2>2, WorkerMoves DEF WorkerPc, LoadPc
<1>7. ASSUME NEW w \in Workers, WorkerPop(w) PROVE Goal
  <2>1. /\ wpc[w] = "awake" /\ tasks # <<>>
        /\ taken' = [taken EXCEPT ![w] = Head(tasks)] /\ tasks' = Tail(tasks)
        /\ active' = active + 1 /\ wpc' = [wpc EXCEPT ![w] = "popped"]
        /\ UNCHANGED <<completed, pending>>
    BY <1>7 DEF WorkerPop, ownerVars
  <2>2. /\ Head(tasks) \in Loads /\ tasks' \in Seq(Loads)
        /\ Len(tasks') = Len(tasks) - 1
    BY <1>0, <2>1, Popped
  <2>3. Len(tasks') <= QueueLimit
    BY <1>0, <2>2, LenProperties DEF ConstantsOK
  <2>l. wpc[w] \notin LoadPc /\ "popped" \in LoadPc
    BY <2>1 DEF LoadPc
  <2>4. Cardinality(Carrying') = Cardinality(Carrying) + 1
    BY <1>0, <2>1, <2>l, Carried
  <2>5. /\ wpc' \in [Workers -> WorkerPc] /\ taken' \in [Workers -> Loads \cup {NoLoad}]
        /\ \A v \in Workers :
             IF wpc'[v] \in LoadPc THEN taken'[v] \in Loads ELSE taken'[v] = NoLoad
    BY <1>0, <2>1, <2>2 DEF WorkerPc, LoadPc
  <2>6. active' = Cardinality(Carrying')
    BY <1>0, <2>1, <2>4
  <2>7. Working'
    BY <1>0, <2>1, <2>2, <2>3, <2>5, <2>6 DEF Working
  <2> QED
    BY <1>7, <2>7
<1>8. ASSUME NEW w \in Workers, WorkerFinish(w) PROVE Goal
  <2>1. /\ wpc[w] = "ran" /\ taken' = [taken EXCEPT ![w] = NoLoad]
        /\ active' = active - 1 /\ wpc' = [wpc EXCEPT ![w] = "finished"]
        /\ UNCHANGED <<tasks, completed, pending>>
    BY <1>8 DEF WorkerFinish, ownerVars
  <2>l. wpc[w] \in LoadPc /\ "finished" \notin LoadPc
    BY <2>1 DEF LoadPc
  <2>2. Cardinality(Carrying') = Cardinality(Carrying) - 1
    BY <1>0, <2>1, <2>l, Carried
  <2>3. /\ wpc' \in [Workers -> WorkerPc] /\ taken' \in [Workers -> Loads \cup {NoLoad}]
        /\ \A v \in Workers :
             IF wpc'[v] \in LoadPc THEN taken'[v] \in Loads ELSE taken'[v] = NoLoad
    BY <1>0, <2>1 DEF WorkerPc, LoadPc
  <2>4. active' = Cardinality(Carrying')
    BY <1>0, <2>1, <2>2
  <2>5. Working'
    BY <1>0, <2>1, <2>3, <2>4 DEF Working
  <2> QED
    BY <1>8, <2>5
<1>9. CASE \/ CancelRequest \/ DrainBegin \/ Drain \/ Destroy \/ Join \/ CancelOutside \/ Done
           \/ UNCHANGED vars
  <2>1. UNCHANGED <<tasks, active, completed, workerVars, pending>>
    BY <1>9 DEF CancelRequest, DrainBegin, Drain, Destroy, Join, CancelOutside, Done, vars,
                queueVars, ownerVars
  <2> QED
    BY <1>0, <2>1, WorkersWoken DEF workerVars
<1>10. CASE CancelSwap
  <2>1. pending' = tasks /\ tasks' = <<>> /\ UNCHANGED <<active, completed, workerVars>>
    BY <1>10 DEF CancelSwap
  <2>2. tasks' \in Seq(Loads) /\ Len(tasks') <= QueueLimit
    BY <2>1 DEF ConstantsOK
  <2> QED
    BY <1>0, <2>1, <2>2, WorkersWoken DEF workerVars
<1>11. CASE CancelOne
  <2>1. /\ pending # <<>> /\ completed' = completed \cup {Head(pending)}
        /\ pending' = Tail(pending) /\ UNCHANGED <<tasks, active, workerVars>>
    BY <1>11 DEF CancelOne, Completed, queueVars
  <2>2. Head(pending) \in Loads /\ pending' \in Seq(Loads)
    BY <1>0, <2>1, Popped
  <2>3. completed' \subseteq Loads
    BY <1>0, <2>1, <2>2
  <2> QED
    BY <1>0, <2>1, <2>2, <2>3, WorkersWoken DEF workerVars
<1>12. CASE CancelNotify \/ DestroyNotify
  <2>1. /\ wpc' = [w \in Workers |-> IF wpc[w] = "asleep" THEN "awake" ELSE wpc[w]]
        /\ UNCHANGED <<tasks, active, completed, taken, pending>>
    BY <1>12 DEF CancelNotify, DestroyNotify, queueVars
  <2>2. /\ wpc' \in [Workers -> WorkerPc]
        /\ \A w \in Workers : wpc'[w] = wpc[w] \/ (wpc[w] = "asleep" /\ wpc'[w] = "awake")
    BY <1>0, <2>1 DEF WorkerPc
  <2> QED
    BY <1>0, <2>1, <2>2, WorkersWoken
<1> QED
  BY <1>1, <1>2, <1>3, <1>4, <1>5, <1>6, <1>7, <1>8, <1>9, <1>10, <1>11, <1>12
     DEF Next, ConsumerStep, WorkerStep, OwnerStep

-----------------------------------------------------------------------------
(* The owner *)

\* A consumer that is done stays done.
LEMMA DoneStays ==
    ASSUME Consuming, [Next]_vars, \A c \in Consumers : cpc[c] = "done"
    PROVE  \A c \in Consumers : cpc'[c] = "done"
<1>1. \A c \in Consumers : ~ConsumerStep(c)
  BY DEF ConsumerStep, Start, SubmitSleep, SubmitCancelled, SubmitPush, SubmitNotify, Await,
         Submitting
<1>2. cpc' = cpc \/ cpc' = WakeSpace
  <2>1. ASSUME NEW w \in Workers, WorkerStep(w) PROVE cpc' = cpc \/ cpc' = WakeSpace
    BY <2>1 DEF WorkerStep, WorkerSleep, WorkerExit, WorkerPop, WorkerSpace, WorkerRun,
                WorkerFinish, WorkerDrained, consumerVars
  <2>2. CASE OwnerStep \/ CancelRequest \/ CancelOutside \/ Done \/ UNCHANGED vars
    BY <2>2 DEF OwnerStep, CancelSwap, CancelOne, CancelNotify, DrainBegin, Drain, Destroy,
                DestroyNotify, Join, CancelRequest, CancelOutside, Done, vars, consumerVars
  <2> QED
    BY <1>1, <2>1, <2>2 DEF Next
<1> QED
  BY <1>2 DEF WakeSpace

\* The owner leaves the compilation with a request or behind the last consumer, and finds
\* the executor quiet when drain returns.
LEMMA OwningKept ==
    ASSUME ConstantsOK, IInv, [Next]_vars
    PROVE  Owning'
<1>0. Consuming /\ Working /\ Owning
  BY DEF IInv
<1>1. Carrying' = Carrying \/ \E w \in Workers : WorkerPop(w) \/ WorkerFinish(w)
  BY <1>0, WorkingKept
<1>2. requested => requested'
  BY DEF Next, ConsumerStep, WorkerStep, OwnerStep, Start, SubmitSleep, SubmitCancelled,
         SubmitPush, SubmitNotify, Await, WorkerSleep, WorkerExit, WorkerPop, WorkerSpace,
         WorkerRun, WorkerFinish, WorkerDrained, CancelSwap, CancelOne, CancelNotify,
         DrainBegin, Drain, Destroy, DestroyNotify, Join, CancelRequest, CancelOutside, Done,
         cancelVars, vars
<1>3. \/ opc' = opc \/ CancelRequest \/ DrainBegin
      \/ opc # "compiling" /\ (opc' \in QuietPc => opc \in QuietPc \/ Drain)
  <2>1. ASSUME NEW c \in Consumers, ConsumerStep(c) PROVE opc' = opc
    BY <2>1 DEF ConsumerStep, Start, SubmitSleep, SubmitCancelled, SubmitPush, SubmitNotify,
                Await, ownerVars
  <2>2. ASSUME NEW w \in Workers, WorkerStep(w)
        PROVE  opc' = opc \/ (opc = "asleep" /\ opc' = "drain")
    BY <2>2 DEF WorkerStep, WorkerSleep, WorkerExit, WorkerPop, WorkerSpace, WorkerRun,
                WorkerFinish, WorkerDrained, ownerVars
  <2>3. CASE CancelSwap \/ CancelOne \/ CancelNotify
    BY <2>3 DEF CancelSwap, CancelOne, CancelNotify, QuietPc
  <2>4. CASE Destroy \/ DestroyNotify \/ Join
    BY <2>4 DEF Destroy, DestroyNotify, Join, QuietPc
  <2>5. CASE Drain
    BY <2>5 DEF Drain
  <2>6. CASE CancelOutside \/ Done \/ UNCHANGED vars
    BY <2>6 DEF CancelOutside, Done, vars, ownerVars
  <2> QED
    BY <2>1, <2>2, <2>3, <2>4, <2>5, <2>6 DEF Next, OwnerStep, QuietPc
<1>4. opc' # "compiling" => requested' \/ \A c \in Consumers : cpc'[c] = "done"
  <2>1. CASE CancelRequest
    BY <2>1 DEF CancelRequest
  <2>2. CASE DrainBegin
    BY <2>2 DEF DrainBegin, consumerVars
  <2>3. CASE opc # "compiling"
    BY <1>0, <1>2, <2>3, DoneStays DEF Owning
  <2> QED
    BY <1>3, <2>1, <2>2, <2>3
<1>5. opc' \in QuietPc => tasks' = <<>> /\ Carrying' = {}
  <2> SUFFICES ASSUME opc' \in QuietPc PROVE tasks' = <<>> /\ Carrying' = {}
    OBVIOUS
  <2>1. CASE Drain
    <3>1. tasks = <<>> /\ active = 0 /\ UNCHANGED <<tasks, wpc>>
      BY <2>1 DEF Drain, QuietPc, queueVars, workerVars
    <3>2. IsFiniteSet(Carrying) /\ Cardinality(Carrying) = 0
      BY <1>0, <3>1, FS_Subset DEF ConstantsOK, Carrying, Working
    <3>3. Carrying = {}
      BY <3>2, FS_EmptySet
    <3> QED
      BY <3>1, <3>3 DEF Carrying
  <2>2. CASE opc \in QuietPc
    <3>1. tasks = <<>> /\ Carrying = {} /\ (requested \/ \A c \in Consumers : cpc[c] = "done")
      BY <1>0, <2>2 DEF Owning, QuietPc
    <3>2. \A c \in Consumers : ~SubmitPush(c)
      BY <3>1 DEF SubmitPush, Submitting, cancelled
    <3>3. \A w \in Workers : ~WorkerPop(w) /\ ~WorkerFinish(w)
      <4>1. \A w \in Workers : wpc[w] # "ran"
        BY <3>1 DEF Carrying, LoadPc
      <4> QED
        BY <3>1, <4>1 DEF WorkerPop, WorkerFinish
    <3>4. tasks' = tasks \/ tasks' = <<>>
      <4>1. ASSUME NEW c \in Consumers, ConsumerStep(c) PROVE tasks' = tasks
        BY <3>2, <4>1 DEF ConsumerStep, Start, SubmitSleep, SubmitCancelled, SubmitNotify,
                          Await, queueVars
      <4>2. ASSUME NEW w \in Workers, WorkerStep(w) PROVE tasks' = tasks
        BY <3>3, <4>2 DEF WorkerStep, WorkerSleep, WorkerExit, WorkerSpace, WorkerRun,
                          WorkerDrained, queueVars
      <4>3. CASE OwnerStep \/ CancelRequest \/ CancelOutside \/ Done \/ UNCHANGED vars
        BY <4>3 DEF OwnerStep, CancelSwap, CancelOne, CancelNotify, DrainBegin, Drain,
                    Destroy, DestroyNotify, Join, CancelRequest, CancelOutside, Done, vars,
                    queueVars
      <4> QED
        BY <4>1, <4>2, <4>3 DEF Next
    <3> QED
      BY <1>1, <3>1, <3>3, <3>4
  <2>3. ~CancelRequest /\ ~DrainBegin
    BY DEF CancelRequest, DrainBegin, QuietPc
  <2> QED
    BY <1>3, <2>1, <2>2, <2>3
<1> QED
  BY <1>4, <1>5 DEF Owning

-----------------------------------------------------------------------------
\* The inductive invariant holds throughout: of consumers, workers and owner.
THEOREM Invariant == ASSUME ConstantsOK PROVE Spec => []IInv
<1>1. Init => IInv
  <2> SUFFICES ASSUME Init PROVE IInv
    OBVIOUS
  <2>1. Consuming
    BY DEF Init, Consuming, ConsumerPc, SubmitPc, ConstantsOK
  <2>2. Carrying = {}
    BY DEF Init, Carrying, LoadPc
  <2>3. Working
    BY <2>2, FS_EmptySet DEF Init, Working, WorkerPc, LoadPc, ConstantsOK
  <2>4. Owning
    BY DEF Init, Owning, QuietPc
  <2> QED
    BY <2>1, <2>3, <2>4 DEF IInv
<1>2. IInv /\ [Next]_vars => IInv'
  BY ConsumingKept, WorkingKept, OwningKept DEF IInv
<1> QED
  BY <1>1, <1>2, PTL DEF Spec

\* Through submissions, cancellation and destruction the queue keeps to queue_limit, drain
\* returns only to a quiet executor that stays quiet, and loadSpecialization submits each
\* specialization once.
THEOREM SafeLoads == ASSUME ConstantsOK PROVE Spec => []LoadSafety
<1>1. IInv => LoadSafety
  <2> SUFFICES ASSUME IInv PROVE LoadSafety
    OBVIOUS
  <2>0. Consuming /\ Working /\ Owning
    BY DEF IInv
  <2>1. active \in 0..Cardinality(Workers)
    <3>1. /\ Cardinality(Carrying) <= Cardinality(Workers)
          /\ Cardinality(Carrying) \in Nat /\ Cardinality(Workers) \in Nat
      BY FS_Subset, FS_CardinalityType DEF ConstantsOK, Carrying
    <3> QED
      BY <2>0, <3>1 DEF Working
  <2>2. \A i \in 1..Len(tasks) : tasks[i] \in Loads
    BY <2>0, ElementOfSeq DEF Working
  <2>3. TypeOK
    BY <2>0, <2>1, <2>2 DEF TypeOK, Consuming, Working, ConsumerPc, WorkerPc
  <2>4. DrainedIsQuiet
    BY <2>0 DEF DrainedIsQuiet, Owning, Working, QuietPc, Carrying
  <2>5. LoadedOnce
    BY <2>0 DEF LoadedOnce, Consuming, SubmitPc
  <2> QED
    BY <2>3, <2>4, <2>5 DEF LoadSafety
<1> QED
  BY <1>1, Invariant, PTL

-----------------------------------------------------------------------------
(* The artifact store                                                      *)
(*                                                                         *)
(* The store that loads read from, with any number of builds of any number *)
(* of sessions.  The argument: writing and sweeping are done by the holder *)
(* of the store lock only.  What a build does not supply is a component,   *)
(* which publish looks for under the lock, or a nominal artifact of the    *)
(* root the build started from, which is still the session's root then and *)
(* therefore whole.  What a sweep takes is neither a root's nor a lease's  *)
(* when it begins, and as long as it has the lock no root or lease comes.  *)

CONSTANTS Builds, Sessions, SessionOf, Manifests, Objects, Components, Nominals, Refers,
          Roots, InitialRoots, None

VARIABLES files, ref, record, locked, storeLock, build, observed, root, supplied, undone

Store == INSTANCE ArtifactStore WITH pc <- build, todo <- undone

\* What the proofs assume of the constants.  That a root leads to artifacts only is what
\* the recursion of ClosureOf gives for references without a cycle.
StoreConstantsOK ==
    /\ SessionOf \in [Builds -> Sessions]
    /\ InitialRoots \subseteq Roots \cup {None}
    /\ None \notin Builds /\ None \notin Roots
    /\ \A m \in Roots : Store!ClosureOf[m] \subseteq Store!Artifacts

BuildPc == {"idle", "compiling", "prepared", "verified", "failing", "writing", "published",
            "sweeping"} \cup Store!Final

StoreTyped ==
    /\ files \subseteq Store!Artifacts /\ undone \subseteq Store!Artifacts
    /\ ref \in [Sessions -> Roots \cup {None}]
    /\ record \in [Builds -> Roots \cup {None}]
    /\ observed \in [Builds -> Roots \cup {None}]
    /\ root \in [Builds -> Roots \cup {None}]
    /\ locked \subseteq Builds
    /\ storeLock \in Builds \cup {None}
    /\ supplied \in [Builds -> SUBSET Store!Artifacts]
    /\ build \in [Builds -> BuildPc]

\* A lease file is locked by a build that is under way and has a root to protect.
Leased ==
    \A b \in locked : /\ record[b] # None
                      /\ build[b] \notin Store!Final \cup {"idle", "published", "sweeping"}

\* Who writes or sweeps has the store lock, and whoever has it writes or sweeps.
Locking ==
    /\ \A b \in Builds : build[b] \in {"writing", "sweeping"} <=> storeLock = b
    /\ storeLock = None => undone = {}

\* What a build that has compiled does not supply.
KeptBy(b) == Store!ClosureOf[root[b]] \ supplied[b]
Prepared(b) ==
    build[b] \in {"prepared", "verified", "writing"} =>
      /\ root[b] \in Roots /\ supplied[b] \subseteq Store!ClosureOf[root[b]]
      /\ KeptBy(b) \subseteq Nominals \cup Components
      /\ KeptBy(b) \cap Nominals \subseteq Store!RootClosure(observed[b])

\* What the writer has still to write is all that its root lacks on disk, and its session
\* has the root it started from.
Writing(b) ==
    build[b] = "writing" =>
      /\ Store!ClosureOf[root[b]] \subseteq files \cup undone
      /\ ref[SessionOf[b]] = observed[b]

\* What the sweeper has still to sweep is nobody's, and everything else is reachable.
Recorded == {record[x] : x \in Builds} \ {None}
Sweeping(b) ==
    build[b] = "sweeping" =>
      /\ undone \cap Store!Marked = {}
      /\ files \subseteq undone \cup Store!Closure(Store!RootsNamed \cup Recorded)

StoreInv ==
    /\ StoreTyped /\ Leased /\ Locking
    /\ Store!RootsIntact /\ Store!LeasesIntact
    /\ \A b \in Builds : Prepared(b) /\ Writing(b) /\ Sweeping(b)

\* The other builds have not moved.
Others(b) ==
    \A d \in Builds \ {b} : /\ build'[d] = build[d] /\ observed'[d] = observed[d]
                            /\ root'[d] = root[d] /\ supplied'[d] = supplied[d]

\* The types of what a build keeps to itself.
LocalsTyped ==
    /\ observed \in [Builds -> Roots \cup {None}] /\ root \in [Builds -> Roots \cup {None}]
    /\ supplied \in [Builds -> SUBSET Store!Artifacts] /\ build \in [Builds -> BuildPc]

\* A build goes on with what it has.
LEMMA GoesOn ==
    ASSUME StoreInv, NEW b \in Builds, NEW l \in BuildPc, Store!Goto(b, l)
    PROVE  /\ build'[b] = l /\ Others(b) /\ LocalsTyped'
           /\ UNCHANGED <<observed, root, supplied>>
<1>1. build' = [build EXCEPT ![b] = l] /\ UNCHANGED <<observed, root, supplied>>
  BY DEF Store!Goto, Store!localVars
<1>2. StoreTyped
  BY DEF StoreInv
<1> QED
  BY <1>1, <1>2 DEF StoreTyped, Others, LocalsTyped

\* A build is over but for what follows publication.
LEMMA IsOver ==
    ASSUME StoreInv, NEW b \in Builds, NEW l \in BuildPc, Store!Leave(b, l)
    PROVE  build'[b] = l /\ Others(b) /\ LocalsTyped'
<1>1. /\ build' = [build EXCEPT ![b] = l] /\ observed' = [observed EXCEPT ![b] = None]
      /\ root' = [root EXCEPT ![b] = None] /\ supplied' = [supplied EXCEPT ![b] = {}]
  BY DEF Store!Leave
<1>2. StoreTyped
  BY DEF StoreInv
<1> QED
  BY <1>1, <1>2 DEF StoreTyped, Others, LocalsTyped

\* What a root leads to, and a lease, is marked.
LEMMA MarksReach ==
    /\ \A s \in Sessions : Store!RootClosure(ref[s]) \subseteq Store!Marked
    /\ \A b \in locked : Store!RootClosure(record[b]) \subseteq Store!Marked
  BY DEF Store!RootClosure, Store!Marked, Store!Closure, Store!RootsNamed, Store!ActiveLeases

\* Fewer leases mark less.
LEMMA FewerMarks ==
    ASSUME UNCHANGED <<ref, record>>, locked' \subseteq locked
    PROVE  Store!Marked' \subseteq Store!Marked
  BY DEF Store!Marked, Store!Closure, Store!RootsNamed, Store!ActiveLeases

\* A step of b concerns b alone if it leaves the disk and what is to be done to it, or if
\* nobody else writes or sweeps.
LEMMA Alone ==
    ASSUME StoreConstantsOK, StoreInv, NEW b \in Builds, Others(b),
           \/ UNCHANGED <<files, ref, record, undone>> /\ locked' \subseteq locked
           \/ storeLock \in {b, None},
           StoreTyped', Leased', Locking', Store!RootsIntact', Store!LeasesIntact',
           Prepared(b)', Writing(b)', Sweeping(b)'
    PROVE  StoreInv'
<1>0. StoreTyped /\ Locking /\ \A d \in Builds : Prepared(d) /\ Writing(d) /\ Sweeping(d)
  BY DEF StoreInv
<1>1. ASSUME NEW d \in Builds \ {b} PROVE Prepared(d)' /\ Writing(d)' /\ Sweeping(d)'
  <2>1. /\ build'[d] = build[d] /\ observed'[d] = observed[d]
        /\ root'[d] = root[d] /\ supplied'[d] = supplied[d]
    BY DEF Others
  <2>2. Prepared(d) /\ Writing(d) /\ Sweeping(d)
    BY <1>0
  <2>3. Prepared(d)'
    BY <2>1, <2>2 DEF Prepared, KeptBy, Store!RootClosure
  <2>4. CASE storeLock \in {b, None}
    <3>1. build'[d] \notin {"writing", "sweeping"}
      BY <1>0, <2>1, <2>4 DEF Locking, StoreConstantsOK
    <3> QED
      BY <2>3, <3>1 DEF Writing, Sweeping
  <2>5. CASE UNCHANGED <<files, ref, record, undone>> /\ locked' \subseteq locked
    <3>1. Writing(d)'
      BY <2>1, <2>2, <2>5 DEF Writing
    <3>2. Store!Marked' \subseteq Store!Marked
      BY <2>5, FewerMarks
    <3>3. (Store!RootsNamed \cup Recorded)' = Store!RootsNamed \cup Recorded
      BY <2>5 DEF Store!RootsNamed, Recorded
    <3>4. Store!Closure(Store!RootsNamed \cup Recorded)' = Store!Closure(Store!RootsNamed \cup Recorded)
      BY <3>3 DEF Store!Closure
    <3>5. Sweeping(d)'
      BY <2>1, <2>2, <2>5, <3>2, <3>4 DEF Sweeping
    <3> QED
      BY <2>3, <3>1, <3>5
  <2> QED
    BY <2>4, <2>5
<1> QED
  BY <1>1 DEF StoreInv

\* acquireLease: the session's root is whole, and from now on leased.
LEMMA Acquires ==
    ASSUME StoreConstantsOK, StoreInv, NEW b \in Builds, Store!Acquire(b)
    PROVE  StoreInv'
<1> DEFINE r == ref[SessionOf[b]]
<1>0. StoreTyped /\ Leased /\ Locking /\ Store!RootsIntact /\ Store!LeasesIntact
  BY DEF StoreInv
<1>1. build[b] = "idle" /\ storeLock = None /\ UNCHANGED <<files, ref, storeLock, undone>>
  BY DEF Store!Acquire
<1>2. r \in Roots \cup {None} /\ Store!RootClosure(r) \subseteq files /\ b \notin locked
  BY <1>0, <1>1 DEF StoreTyped, StoreConstantsOK, Store!RootsIntact, Leased
<1>3. /\ observed' = [observed EXCEPT ![b] = r] /\ record' = [record EXCEPT ![b] = r]
      /\ locked' = locked \cup (IF r = None THEN {} ELSE {b})
      /\ build' = [build EXCEPT ![b] = "compiling"] /\ UNCHANGED <<root, supplied>>
  BY <1>2 DEF Store!Acquire
<1> HIDE DEF r
<1>4. build'[b] = "compiling" /\ Others(b) /\ record'[b] = r
  BY <1>0, <1>3 DEF StoreTyped, Others
<1>5. StoreTyped'
  BY <1>0, <1>1, <1>2, <1>3 DEF StoreTyped, BuildPc
<1>6. \A d \in locked : d # b /\ record'[d] = record[d] /\ build'[d] = build[d]
  BY <1>0, <1>2, <1>3 DEF StoreTyped
<1>7. \A d \in locked' : d \in locked \/ (d = b /\ r # None)
  BY <1>3
<1>8. Leased' /\ Store!LeasesIntact'
  BY <1>0, <1>1, <1>2, <1>4, <1>6, <1>7 DEF Leased, Store!LeasesIntact, Store!RootClosure, Store!Final
<1>9. Locking'
  BY <1>0, <1>1, <1>4 DEF Locking, Others
<1>10. Store!RootsIntact'
  BY <1>0, <1>1 DEF Store!RootsIntact, Store!RootClosure
<1>11. Prepared(b)' /\ Writing(b)' /\ Sweeping(b)'
  BY <1>4 DEF Prepared, Writing, Sweeping
<1> QED
  BY <1>1, <1>4, <1>5, <1>8, <1>9, <1>10, <1>11, Alone

\* A build goes on, or is over, without the store: it was not and is not a holder of its lock.
LEMMA Passes ==
    ASSUME StoreConstantsOK, StoreInv, NEW b \in Builds, NEW l \in BuildPc \ {"idle", "published"},
           l \notin Store!Final, l \notin {"writing", "sweeping"},
           build[b] \notin {"writing", "sweeping"}, build'[b] = l, Others(b), LocalsTyped',
           UNCHANGED <<files, ref, record, locked, storeLock, undone>>, Prepared(b)'
    PROVE  StoreInv'
<1>0. StoreTyped /\ Leased /\ Locking /\ Store!RootsIntact /\ Store!LeasesIntact
  BY DEF StoreInv
<1>1. StoreTyped'
  BY <1>0 DEF StoreTyped, LocalsTyped
<1>2. Leased'
  BY <1>0 DEF Leased, Others, StoreTyped
<1>3. Locking'
  BY <1>0 DEF Locking, Others
<1>4. Store!RootsIntact' /\ Store!LeasesIntact'
  BY <1>0 DEF Store!RootsIntact, Store!LeasesIntact, Store!RootClosure
<1>5. Writing(b)' /\ Sweeping(b)'
  BY DEF Writing, Sweeping
<1> QED
  BY <1>1, <1>2, <1>3, <1>4, <1>5, Alone

\* The compilation, and publish as far as the store lock.
LEMMA Compiles ==
    ASSUME StoreConstantsOK, StoreInv, NEW b \in Builds,
           Store!Compile(b) \/ Store!PublishVerify(b) \/ Store!PublishRefused(b)
    PROVE  StoreInv'
<1>0. StoreTyped /\ Prepared(b)
  BY DEF StoreInv
<1>1. CASE Store!Compile(b)
  <2>1. PICK m \in Roots, kept \in SUBSET (Nominals \cup Components) :
          /\ kept \subseteq Store!ClosureOf[m]
          /\ kept \cap Nominals \subseteq Store!RootClosure(observed[b])
          /\ root' = [root EXCEPT ![b] = m]
          /\ supplied' = [supplied EXCEPT ![b] = Store!ClosureOf[m] \ kept]
    BY <1>1 DEF Store!Compile
  <2>2. /\ build[b] = "compiling" /\ build' = [build EXCEPT ![b] = "prepared"]
        /\ UNCHANGED <<files, ref, record, locked, storeLock, observed, undone>>
    BY <1>1 DEF Store!Compile, Store!diskVars
  <2>3. Store!ClosureOf[m] \subseteq Store!Artifacts
    BY DEF StoreConstantsOK
  <2>4. build'[b] = "prepared" /\ Others(b) /\ LocalsTyped'
    BY <1>0, <2>1, <2>2, <2>3 DEF StoreTyped, Others, LocalsTyped, BuildPc
  <2>5. root'[b] = m /\ supplied'[b] = Store!ClosureOf[m] \ kept /\ observed'[b] = observed[b]
    BY <1>0, <2>1, <2>2 DEF StoreTyped
  <2>6. KeptBy(b)' = kept
    BY <2>1, <2>5 DEF KeptBy
  <2>7. Prepared(b)'
    BY <2>1, <2>5, <2>6 DEF Prepared, Store!RootClosure
  <2> QED
    BY <2>2, <2>4, <2>7, Passes DEF BuildPc, Store!Final
<1>2. CASE Store!Goto(b, "verified") /\ Store!PublishVerify(b)
  <2>1. /\ build[b] = "prepared"
        /\ UNCHANGED <<files, ref, record, locked, storeLock, undone>>
    BY <1>2 DEF Store!PublishVerify, Store!diskVars
  <2>2. /\ build'[b] = "verified" /\ Others(b) /\ LocalsTyped'
        /\ UNCHANGED <<observed, root, supplied>>
    BY <1>2, GoesOn DEF BuildPc
  <2>3. Prepared(b)'
    BY <1>0, <2>1, <2>2 DEF Prepared, KeptBy, Store!RootClosure
  <2> QED
    BY <2>1, <2>2, <2>3, Passes DEF BuildPc, Store!Final
<1>3. CASE Store!Leave(b, "failing") /\ (Store!PublishVerify(b) \/ Store!PublishRefused(b))
  <2>1. /\ build[b] \in {"prepared", "verified"}
        /\ UNCHANGED <<files, ref, record, locked, storeLock, undone>>
    BY <1>3 DEF Store!PublishVerify, Store!PublishRefused, Store!diskVars
  <2>2. build'[b] = "failing" /\ Others(b) /\ LocalsTyped'
    BY <1>3, IsOver DEF BuildPc
  <2>3. Prepared(b)'
    BY <2>2 DEF Prepared
  <2> QED
    BY <2>1, <2>2, <2>3, Passes DEF BuildPc, Store!Final
<1> QED
  BY <1>1, <1>2, <1>3 DEF Store!PublishVerify, Store!PublishRefused

\* publish takes the store lock: what the build does not supply is on disk.
LEMMA Begins ==
    ASSUME StoreConstantsOK, StoreInv, NEW b \in Builds, Store!PublishBegin(b)
    PROVE  StoreInv'
<1>0. /\ StoreTyped /\ Leased /\ Locking /\ Store!RootsIntact /\ Store!LeasesIntact
      /\ Prepared(b)
  BY DEF StoreInv
<1>1. /\ build[b] = "verified" /\ storeLock = None /\ storeLock' = b /\ undone' = supplied[b]
      /\ ref[SessionOf[b]] = observed[b]
      /\ KeptBy(b) \cap Components \subseteq files
      /\ UNCHANGED <<files, ref, record, locked>> /\ Store!Goto(b, "writing")
  BY DEF Store!PublishBegin, Store!Current, Store!Available, Store!Kept, KeptBy, Store!diskVars
<1>2. /\ build'[b] = "writing" /\ Others(b) /\ LocalsTyped'
      /\ UNCHANGED <<observed, root, supplied>>
  BY <1>1, GoesOn DEF BuildPc
<1>3. StoreTyped'
  BY <1>0, <1>1, <1>2 DEF StoreTyped, LocalsTyped
<1>4. Leased'
  BY <1>0, <1>1, <1>2 DEF Leased, Others, StoreTyped, Store!Final
<1>5. Locking'
  BY <1>0, <1>1, <1>2 DEF Locking, Others, StoreConstantsOK
<1>6. Store!RootsIntact' /\ Store!LeasesIntact'
  BY <1>0, <1>1 DEF Store!RootsIntact, Store!LeasesIntact, Store!RootClosure
<1>7. Prepared(b)' /\ Sweeping(b)'
  BY <1>0, <1>1, <1>2 DEF Prepared, KeptBy, Store!RootClosure, Sweeping
<1>8. KeptBy(b) \subseteq files
  <2>1. SessionOf[b] \in Sessions
    BY DEF StoreConstantsOK
  <2>2. Store!RootClosure(observed[b]) \subseteq files
    BY <1>0, <1>1, <2>1 DEF Store!RootsIntact
  <2> QED
    BY <1>0, <1>1, <2>2 DEF Prepared
<1>9. Writing(b)'
  BY <1>1, <1>2, <1>8 DEF Writing, KeptBy
<1> QED
  BY <1>1, <1>2, <1>3, <1>4, <1>5, <1>6, <1>7, <1>9, Alone

\* One file is written.
LEMMA Writes ==
    ASSUME StoreConstantsOK, StoreInv, NEW b \in Builds, Store!PublishWrite(b)
    PROVE  StoreInv'
<1>0. /\ StoreTyped /\ Leased /\ Locking /\ Store!RootsIntact /\ Store!LeasesIntact
      /\ Prepared(b) /\ Writing(b)
  BY DEF StoreInv
<1>1. PICK f \in undone : files' = files \cup {f} /\ undone' = undone \ {f}
  BY DEF Store!PublishWrite, Store!FirstGroup
<1>2. /\ build[b] = "writing"
      /\ UNCHANGED <<ref, record, locked, storeLock, build, observed, root, supplied>>
  BY DEF Store!PublishWrite, Store!localVars
<1>3. storeLock = b /\ Others(b)
  BY <1>0, <1>2 DEF Locking, Others
<1>4. StoreTyped' /\ Leased'
  BY <1>0, <1>1, <1>2 DEF StoreTyped, Leased
<1>5. Locking'
  BY <1>0, <1>1, <1>2 DEF Locking
<1>6. Store!RootsIntact' /\ Store!LeasesIntact'
  BY <1>0, <1>1, <1>2 DEF Store!RootsIntact, Store!LeasesIntact, Store!RootClosure
<1>7. Prepared(b)' /\ Sweeping(b)'
  BY <1>0, <1>2 DEF Prepared, KeptBy, Store!RootClosure, Sweeping
<1>8. Writing(b)'
  BY <1>0, <1>1, <1>2 DEF Writing
<1> QED
  BY <1>3, <1>4, <1>5, <1>6, <1>7, <1>8, Alone

\* The holder gives the store lock back and has no more to do with the store: publish that
\* fails, and the end of a collection.
LEMMA GivesBack ==
    ASSUME StoreConstantsOK, StoreInv, NEW b \in Builds,
           NEW l \in BuildPc \ {"prepared", "verified", "writing", "sweeping"},
           build'[b] = l, Others(b), LocalsTyped', storeLock = b, storeLock' = None, undone' = {},
           locked' \subseteq locked, b \in locked' => l = "failing",
           UNCHANGED <<files, ref, record>>
    PROVE  StoreInv'
<1>0. StoreTyped /\ Leased /\ Locking /\ Store!RootsIntact /\ Store!LeasesIntact
  BY DEF StoreInv
<1>1. StoreTyped'
  BY <1>0 DEF StoreTyped, LocalsTyped
<1>2. Leased'
  BY <1>0 DEF Leased, Others, StoreTyped, Store!Final
<1>3. Locking'
  BY <1>0 DEF Locking, Others, StoreConstantsOK
<1>4. Store!RootsIntact' /\ Store!LeasesIntact'
  BY <1>0 DEF Store!RootsIntact, Store!LeasesIntact, Store!RootClosure
<1>5. Prepared(b)' /\ Writing(b)' /\ Sweeping(b)'
  BY DEF Prepared, Writing, Sweeping
<1> QED
  BY <1>1, <1>2, <1>3, <1>4, <1>5, Alone

\* A build that has published or swept has no lease.
LEMMA Unleased ==
    ASSUME StoreInv, NEW b \in Builds
    PROVE  b \in locked => build[b] \notin Store!Final \cup {"idle", "published", "sweeping"}
  BY DEF StoreInv, Leased

\* publish fails in the middle; the root reference is replaced, and the root it names is
\* whole.
LEMMA Publishes ==
    ASSUME StoreConstantsOK, StoreInv, NEW b \in Builds,
           Store!PublishFail(b) \/ Store!PublishRoot(b)
    PROVE  StoreInv'
<1>0. /\ StoreTyped /\ Leased /\ Locking /\ Store!RootsIntact /\ Store!LeasesIntact
      /\ Prepared(b) /\ Writing(b)
  BY DEF StoreInv
<1>1. CASE Store!PublishFail(b)
  <2>1. /\ build[b] = "writing" /\ storeLock' = None /\ undone' = {} /\ Store!Leave(b, "failing")
        /\ UNCHANGED <<files, ref, record, locked>>
    BY <1>1 DEF Store!PublishFail, Store!diskVars
  <2>2. storeLock = b
    BY <1>0, <2>1 DEF Locking
  <2>3. build'[b] = "failing" /\ Others(b) /\ LocalsTyped'
    BY <2>1, IsOver DEF BuildPc
  <2> QED
    BY <2>1, <2>2, <2>3, GivesBack DEF BuildPc
<1>2. CASE Store!PublishRoot(b)
  <2>1. /\ build[b] = "writing" /\ undone = {} /\ ref' = [ref EXCEPT ![SessionOf[b]] = root[b]]
        /\ locked' = locked \ {b} /\ record' = [record EXCEPT ![b] = None]
        /\ storeLock' = None /\ Store!Leave(b, "published") /\ UNCHANGED <<files, undone>>
    BY <1>2 DEF Store!PublishRoot
  <2>2. storeLock = b
    BY <1>0, <2>1 DEF Locking
  <2>3. build'[b] = "published" /\ Others(b) /\ LocalsTyped'
    BY <2>1, IsOver DEF BuildPc
  <2>4. root[b] \in Roots /\ SessionOf[b] \in Sessions /\ Store!ClosureOf[root[b]] \subseteq files
    BY <1>0, <2>1 DEF Prepared, Writing, StoreConstantsOK
  <2>5. StoreTyped'
    BY <1>0, <2>1, <2>3, <2>4 DEF StoreTyped, LocalsTyped
  <2>6. \A d \in locked' : d \in locked /\ d # b /\ record'[d] = record[d]
    BY <1>0, <2>1 DEF StoreTyped
  <2>7. Leased' /\ Store!LeasesIntact'
    BY <1>0, <2>1, <2>3, <2>6 DEF Leased, Others, StoreTyped, Store!LeasesIntact, Store!RootClosure
  <2>8. Locking'
    BY <1>0, <2>1, <2>2, <2>3 DEF Locking, Others, StoreConstantsOK
  <2>9. Store!RootsIntact'
    <3>1. \A s \in Sessions : ref'[s] = IF s = SessionOf[b] THEN root[b] ELSE ref[s]
      BY <1>0, <2>1 DEF StoreTyped
    <3> QED
      BY <1>0, <2>1, <2>4, <3>1 DEF Store!RootsIntact, Store!RootClosure
  <2>10. Prepared(b)' /\ Writing(b)' /\ Sweeping(b)'
    BY <2>3 DEF Prepared, Writing, Sweeping
  <2> QED
    BY <2>2, <2>3, <2>5, <2>7, <2>8, <2>9, <2>10, Alone
<1> QED
  BY <1>1, <1>2

\* A failed build retires its lease; a published one that does not collect is done.
LEMMA Retires ==
    ASSUME StoreConstantsOK, StoreInv, NEW b \in Builds,
           Store!Release(b) \/ Store!CollectSkip(b)
    PROVE  StoreInv'
<1>0. StoreTyped /\ Leased /\ Locking /\ Store!RootsIntact /\ Store!LeasesIntact
  BY DEF StoreInv
<1>1. \E l \in {"failed", "done"} : build'[b] = l /\ Others(b) /\ LocalsTyped'
  BY GoesOn, IsOver DEF BuildPc, Store!Final, Store!Release, Store!CollectSkip
<1>2. /\ storeLock = None /\ UNCHANGED <<files, ref, storeLock, undone>>
      /\ build[b] \in {"failing", "published"}
  BY DEF Store!Release, Store!CollectSkip, Store!diskVars
<1>3. \/ locked' = locked \ {b} /\ record' = [record EXCEPT ![b] = None]
      \/ locked' = locked /\ record' = record /\ b \notin locked
  BY Unleased DEF Store!Release, Store!CollectSkip, Store!diskVars
<1>4. record' \in [Builds -> Roots \cup {None}]
  BY <1>0, <1>3 DEF StoreTyped
<1>5. locked' \subseteq Builds
  BY <1>0, <1>3 DEF StoreTyped
<1>6. StoreTyped'
  BY <1>0, <1>1, <1>2, <1>4, <1>5 DEF StoreTyped, LocalsTyped
<1>7. \A d \in locked' : d \in locked /\ d # b /\ record'[d] = record[d]
  BY <1>0, <1>3 DEF StoreTyped
<1>8. Leased' /\ Store!LeasesIntact'
  BY <1>0, <1>1, <1>2, <1>7 DEF Leased, Others, StoreTyped, Store!LeasesIntact, Store!RootClosure
<1>9. Locking'
  BY <1>0, <1>1, <1>2 DEF Locking, Others
<1>10. Store!RootsIntact'
  BY <1>0, <1>2 DEF Store!RootsIntact, Store!RootClosure
<1>11. Prepared(b)' /\ Writing(b)' /\ Sweeping(b)'
  BY <1>1 DEF Prepared, Writing, Sweeping
<1> QED
  BY <1>1, <1>2, <1>6, <1>8, <1>9, <1>10, <1>11, Alone

\* collect takes the store lock, forgets the leases that nobody holds and marks.
LEMMA Marks ==
    ASSUME StoreConstantsOK, StoreInv, NEW b \in Builds, Store!CollectBegin(b)
    PROVE  StoreInv'
<1>0. StoreTyped /\ Leased /\ Locking /\ Store!RootsIntact /\ Store!LeasesIntact
  BY DEF StoreInv
<1>1. build[b] = "published" /\ storeLock = None /\ UNCHANGED <<files, ref, locked>> /\ b \notin locked
  BY Unleased DEF Store!CollectBegin
<1>2. CASE Store!Goto(b, "done") /\ UNCHANGED <<record, storeLock, undone>>
  <2>1. build'[b] = "done" /\ Others(b) /\ LocalsTyped'
    BY <1>2, GoesOn DEF BuildPc, Store!Final
  <2>2. StoreTyped' /\ Leased'
    BY <1>0, <1>1, <1>2, <2>1 DEF StoreTyped, LocalsTyped, Leased, Others
  <2>3. Locking'
    BY <1>0, <1>1, <1>2, <2>1 DEF Locking, Others
  <2>4. Store!RootsIntact' /\ Store!LeasesIntact'
    BY <1>0, <1>1, <1>2 DEF Store!RootsIntact, Store!LeasesIntact, Store!RootClosure
  <2>5. Prepared(b)' /\ Writing(b)' /\ Sweeping(b)'
    BY <2>1 DEF Prepared, Writing, Sweeping
  <2> QED
    BY <1>1, <2>1, <2>2, <2>3, <2>4, <2>5, Alone
<1>3. CASE /\ record' = [x \in Builds |-> IF x \in locked THEN record[x] ELSE None]
           /\ storeLock' = b /\ undone' = files \ Store!Marked /\ Store!Goto(b, "sweeping")
  <2>1. build'[b] = "sweeping" /\ Others(b) /\ LocalsTyped'
    BY <1>3, GoesOn DEF BuildPc
  <2>2. StoreTyped'
    BY <1>0, <1>1, <1>3, <2>1 DEF StoreTyped, LocalsTyped
  <2>3. \A d \in locked : d \in Builds /\ d # b /\ record'[d] = record[d]
    BY <1>0, <1>1, <1>3 DEF StoreTyped
  <2>4. Leased' /\ Store!LeasesIntact'
    BY <1>0, <1>1, <2>1, <2>3 DEF Leased, Others, Store!LeasesIntact, Store!RootClosure
  <2>5. Locking'
    BY <1>0, <1>1, <1>3, <2>1 DEF Locking, Others, StoreConstantsOK
  <2>6. Store!RootsIntact'
    BY <1>0, <1>1 DEF Store!RootsIntact, Store!RootClosure
  <2>7. Prepared(b)' /\ Writing(b)'
    BY <2>1 DEF Prepared, Writing
  <2>8. Recorded' = Store!ActiveLeases /\ Store!ActiveLeases' = Store!ActiveLeases
    BY <1>1, <1>3, <2>3 DEF Recorded, Store!ActiveLeases
  <2>9. Store!RootsNamed' = Store!RootsNamed
    BY <1>1 DEF Store!RootsNamed
  <2>10. /\ Store!Marked' = Store!Marked
         /\ Store!Closure(Store!RootsNamed \cup Recorded)' = Store!Marked
    BY <2>8, <2>9 DEF Store!Marked, Store!Closure
  <2>11. Sweeping(b)'
    BY <1>1, <1>3, <2>10 DEF Sweeping
  <2> QED
    BY <1>1, <2>1, <2>2, <2>4, <2>5, <2>6, <2>7, <2>11, Alone
<1> QED
  BY <1>2, <1>3 DEF Store!CollectBegin

\* One file is swept: it is nobody's.
LEMMA Sweeps ==
    ASSUME StoreConstantsOK, StoreInv, NEW b \in Builds, Store!CollectSweep(b)
    PROVE  StoreInv'
<1>0. /\ StoreTyped /\ Leased /\ Locking /\ Store!RootsIntact /\ Store!LeasesIntact
      /\ Sweeping(b)
  BY DEF StoreInv
<1>1. PICK f \in undone : files' = files \ {f} /\ undone' = undone \ {f}
  BY DEF Store!CollectSweep, Store!FirstGroup
<1>2. /\ build[b] = "sweeping"
      /\ UNCHANGED <<ref, record, locked, storeLock, build, observed, root, supplied>>
  BY DEF Store!CollectSweep, Store!localVars
<1>3. storeLock = b /\ Others(b)
  BY <1>0, <1>2 DEF Locking, Others
<1>4. StoreTyped' /\ Leased'
  BY <1>0, <1>1, <1>2 DEF StoreTyped, Leased
<1>5. Locking'
  BY <1>0, <1>1, <1>2 DEF Locking
<1>6. f \notin Store!Marked
  BY <1>0, <1>2 DEF Sweeping
<1>7. Store!RootsIntact' /\ Store!LeasesIntact'
  BY <1>0, <1>1, <1>2, <1>6, MarksReach DEF Store!RootsIntact, Store!LeasesIntact, Store!RootClosure
<1>8. Prepared(b)' /\ Writing(b)'
  BY <1>2 DEF Prepared, Writing
<1>9. /\ Store!Marked' \subseteq Store!Marked
      /\ Store!Closure(Store!RootsNamed \cup Recorded)' = Store!Closure(Store!RootsNamed \cup Recorded)
  BY <1>2, FewerMarks DEF Store!Closure, Store!RootsNamed, Recorded
<1>10. Sweeping(b)'
  BY <1>0, <1>1, <1>2, <1>9 DEF Sweeping
<1> QED
  BY <1>3, <1>4, <1>5, <1>7, <1>8, <1>10, Alone

\* A collection ends or gives up.
LEMMA CollectionEnds ==
    ASSUME StoreConstantsOK, StoreInv, NEW b \in Builds, Store!CollectFail(b) \/ Store!CollectEnd(b)
    PROVE  StoreInv'
<1>0. StoreTyped /\ Locking
  BY DEF StoreInv
<1>1. /\ build[b] = "sweeping" /\ storeLock' = None /\ undone' = {} /\ Store!Goto(b, "done")
      /\ UNCHANGED <<files, ref, record, locked>>
  BY DEF Store!CollectFail, Store!CollectEnd, Store!diskVars
<1>2. storeLock = b
  BY <1>0, <1>1 DEF Locking
<1>3. build'[b] = "done" /\ Others(b) /\ LocalsTyped'
  BY <1>1, GoesOn DEF BuildPc, Store!Final
<1>4. b \notin locked'
  BY <1>1, Unleased
<1> QED
  BY <1>1, <1>2, <1>3, <1>4, GivesBack DEF BuildPc, Store!Final

\* The process dies: its locks go, its lease record stays.
LEMMA Crashes ==
    ASSUME StoreConstantsOK, StoreInv, NEW b \in Builds, Store!Crash(b)
    PROVE  StoreInv'
<1>0. StoreTyped /\ Leased /\ Locking /\ Store!RootsIntact /\ Store!LeasesIntact
  BY DEF StoreInv
<1>1. /\ locked' = locked \ {b} /\ storeLock' = IF storeLock = b THEN None ELSE storeLock
      /\ undone' = IF storeLock = b THEN {} ELSE undone
      /\ Store!Leave(b, "dead") /\ UNCHANGED <<files, ref, record>>
  BY DEF Store!Crash, Store!diskVars
<1>2. build'[b] = "dead" /\ Others(b) /\ LocalsTyped'
  BY <1>1, IsOver DEF BuildPc, Store!Final
<1>3. CASE storeLock = b
  BY <1>1, <1>2, <1>3, GivesBack DEF BuildPc, Store!Final
<1>4. CASE storeLock # b
  <2>1. UNCHANGED <<storeLock, undone>>
    BY <1>1, <1>4
  <2>2. StoreTyped' /\ Leased'
    BY <1>0, <1>1, <1>2, <2>1 DEF StoreTyped, LocalsTyped, Leased, Others
  <2>3. Locking'
    BY <1>0, <1>2, <1>4, <2>1 DEF Locking, Others
  <2>4. Store!RootsIntact' /\ Store!LeasesIntact'
    BY <1>0, <1>1 DEF Store!RootsIntact, Store!LeasesIntact, Store!RootClosure
  <2>5. Prepared(b)' /\ Writing(b)' /\ Sweeping(b)'
    BY <1>2 DEF Prepared, Writing, Sweeping
  <2> QED
    BY <1>1, <1>2, <2>1, <2>2, <2>3, <2>4, <2>5, Alone
<1> QED
  BY <1>3, <1>4

\* The invariant holds at first: what earlier builds left is whole.
LEMMA StoreInitially ==
    ASSUME StoreConstantsOK, Store!Init
    PROVE  StoreInv
<1>1. /\ ref \in [Sessions -> InitialRoots]
      /\ files = UNION {Store!RootClosure(ref[s]) : s \in Sessions}
      /\ record = [b \in Builds |-> None] /\ locked = {} /\ storeLock = None
      /\ build = [b \in Builds |-> "idle"] /\ observed = [b \in Builds |-> None]
      /\ root = [b \in Builds |-> None] /\ supplied = [b \in Builds |-> {}] /\ undone = {}
  BY DEF Store!Init
<1>2. \A s \in Sessions : Store!RootClosure(ref[s]) \subseteq Store!Artifacts
  BY <1>1 DEF StoreConstantsOK, Store!RootClosure
<1>3. files \subseteq Store!Artifacts
  BY <1>1, <1>2
<1>4. ref \in [Sessions -> Roots \cup {None}]
  BY <1>1 DEF StoreConstantsOK
<1>5. StoreTyped
  BY <1>1, <1>3, <1>4 DEF StoreTyped, BuildPc
<1>6. Leased /\ Store!LeasesIntact /\ Store!RootsIntact
  BY <1>1 DEF Leased, Store!LeasesIntact, Store!RootsIntact
<1>7. Locking
  BY <1>1 DEF Locking, StoreConstantsOK
<1>8. \A b \in Builds : Prepared(b) /\ Writing(b) /\ Sweeping(b)
  BY <1>1 DEF Prepared, Writing, Sweeping
<1> QED
  BY <1>5, <1>6, <1>7, <1>8 DEF StoreInv

\* No step of a build, and no crash, breaks it.
LEMMA StoreInductive ==
    ASSUME StoreConstantsOK, StoreInv, [Store!Next]_(Store!vars)
    PROVE  StoreInv'
<1>1. CASE UNCHANGED Store!vars
  <2>1. /\ UNCHANGED <<files, ref, record, locked, storeLock, build, observed, root, supplied>>
        /\ undone' = undone
    BY <1>1 DEF Store!vars, Store!diskVars, Store!localVars
  <2>2. StoreTyped' /\ Leased' /\ Locking'
    BY <2>1 DEF StoreInv, StoreTyped, Leased, Locking
  <2>3. Store!RootsIntact' /\ Store!LeasesIntact'
    BY <2>1 DEF StoreInv, Store!RootsIntact, Store!LeasesIntact, Store!RootClosure
  <2>4. /\ Store!Marked' = Store!Marked
        /\ Store!Closure(Store!RootsNamed \cup Recorded)'
             = Store!Closure(Store!RootsNamed \cup Recorded)
    BY <2>1 DEF Store!Marked, Store!Closure, Store!RootsNamed, Store!ActiveLeases, Recorded
  <2>5. ASSUME NEW b \in Builds PROVE Prepared(b)' /\ Writing(b)' /\ Sweeping(b)'
    <3>1. Prepared(b) /\ Writing(b) /\ Sweeping(b)
      BY DEF StoreInv
    <3> QED
      BY <2>1, <2>4, <3>1 DEF Prepared, Writing, Sweeping, KeptBy, Store!RootClosure
  <2> QED
    BY <2>2, <2>3, <2>5 DEF StoreInv
<1>2. CASE \E b \in Builds : \/ Store!Step(b) \/ Store!PublishFail(b) \/ Store!CollectFail(b)
                             \/ Store!Crash(b)
  <2> SUFFICES ASSUME NEW b \in Builds,
                      \/ Store!Step(b) \/ Store!PublishFail(b) \/ Store!CollectFail(b)
                      \/ Store!Crash(b)
               PROVE  StoreInv'
    BY <1>2
  <2>1. CASE Store!Acquire(b)
    BY <2>1, Acquires
  <2>2. CASE Store!Compile(b) \/ Store!PublishVerify(b) \/ Store!PublishRefused(b)
    BY <2>2, Compiles
  <2>3. CASE Store!PublishBegin(b)
    BY <2>3, Begins
  <2>4. CASE Store!PublishWrite(b)
    BY <2>4, Writes
  <2>5. CASE Store!PublishFail(b) \/ Store!PublishRoot(b)
    BY <2>5, Publishes
  <2>6. CASE Store!Release(b) \/ Store!CollectSkip(b)
    BY <2>6, Retires
  <2>7. CASE Store!CollectBegin(b)
    BY <2>7, Marks
  <2>8. CASE Store!CollectSweep(b)
    BY <2>8, Sweeps
  <2>9. CASE Store!CollectFail(b) \/ Store!CollectEnd(b)
    BY <2>9, CollectionEnds
  <2>10. CASE Store!Crash(b)
    BY <2>10, Crashes
  <2> QED
    BY <2>1, <2>2, <2>3, <2>4, <2>5, <2>6, <2>7, <2>8, <2>9, <2>10 DEF Store!Step
<1>3. CASE Store!Finished
  BY <1>1, <1>3 DEF Store!Finished
<1> QED
  BY <1>1, <1>2, <1>3 DEF Store!Next

\* What the invariant says of a state of the store.
LEMMA StoreImplied ==
    ASSUME StoreConstantsOK, StoreInv
    PROVE  Store!StoreState
<1>0. /\ StoreTyped /\ Leased /\ Store!RootsIntact /\ Store!LeasesIntact
      /\ \A b \in Builds : Sweeping(b)
  BY DEF StoreInv
<1>1. Store!TypeOK
  BY <1>0 DEF Store!TypeOK, StoreTyped, Leased, BuildPc
<1>2. Store!CollectionIsComplete
  BY <1>0 DEF Store!CollectionIsComplete, Sweeping, Recorded
<1> QED
  BY <1>0, <1>1, <1>2 DEF Store!StoreState

\* A step replaces a root only for a build that started from it.
LEMMA RootsReplaced ==
    ASSUME StoreConstantsOK, StoreInv, [Store!Next]_(Store!vars),
           NEW s \in Sessions, ref'[s] # ref[s]
    PROVE  \E b \in Builds : /\ SessionOf[b] = s /\ build[b] = "writing"
                             /\ observed[b] = ref[s] /\ root[b] = ref'[s]
<1>0. StoreTyped /\ \A b \in Builds : Writing(b)
  BY DEF StoreInv
<1>1. ref' # ref
  OBVIOUS
<1>2. PICK b \in Builds : Store!PublishRoot(b)
  BY <1>1 DEF Store!Next, Store!Step, Store!Acquire, Store!Compile, Store!PublishVerify,
              Store!PublishBegin, Store!PublishRefused, Store!PublishWrite, Store!PublishFail,
              Store!Release, Store!CollectBegin, Store!CollectSkip, Store!CollectSweep,
              Store!CollectFail, Store!CollectEnd, Store!Crash, Store!Finished, Store!vars,
              Store!diskVars
<1>3. build[b] = "writing" /\ ref' = [ref EXCEPT ![SessionOf[b]] = root[b]]
  BY <1>2 DEF Store!PublishRoot
<1>4. SessionOf[b] = s /\ ref'[s] = root[b]
  BY <1>0, <1>3 DEF StoreTyped
<1> QED
  BY <1>0, <1>3, <1>4 DEF Writing

\* The invariant of the store holds throughout: who writes or sweeps has the lock, what a
\* build does not supply is kept, and what is swept is nobody's.
THEOREM StoreInvariant == ASSUME StoreConstantsOK PROVE Store!Spec => []StoreInv
<1>1. Store!Init => StoreInv
  BY StoreInitially
<1>2. StoreInv /\ [Store!Next]_(Store!vars) => StoreInv'
  BY StoreInductive
<1> QED
  BY <1>1, <1>2, PTL DEF Store!Spec

\* Whatever any number of builds publish, collect or leave behind when they die, all that
\* a session's root or a held lease leads to is on disk, a finished collection leaves only
\* what a root or a lease record leads to, and a root is replaced only by a build that
\* started from it (acquireLease, publish, collect, probeLease).
THEOREM StoreHolds == ASSUME StoreConstantsOK PROVE Store!Spec => Store!StoreExact
<1>1. StoreInv => Store!StoreState
  BY StoreImplied
<1>2. StoreInv /\ [Store!Next]_(Store!vars)
        => [\A s \in Sessions : ref'[s] # ref[s] =>
              \E b \in Builds : /\ SessionOf[b] = s /\ build[b] = "writing"
                                /\ observed[b] = ref[s] /\ root[b] = ref'[s]]_(Store!vars)
  BY RootsReplaced
<1> QED
  BY <1>1, <1>2, StoreInvariant, PTL DEF Store!Spec, Store!StoreExact, Store!NoLostPublication

-----------------------------------------------------------------------------
(* The package pool                                                        *)
(*                                                                         *)
(* The pool that checks or builds packages, with any number of packages,   *)
(* workers, requests and versions.  The argument: a package's count of     *)
(* dependencies to wait for is the number of those that have not           *)
(* succeeded, so that whoever works on a package finds all their sessions, *)
(* and these are final until the request is over.  What a worker makes of  *)
(* them, or finds in the cache under their digests, is therefore what the  *)
(* sources give.  A worker that has left had a reason, which stays.        *)

CONSTANTS Packages, Dependencies, Checkers, Versions, Requests, Capacity

VARIABLES request, kind, source, superseded, state, remaining, ready, results,
          completed_count, stop, checker, package, result, cache, status

Check == INSTANCE PackageCheck WITH
    Workers <- Checkers, cancelled <- superseded, pc <- checker, index <- package

\* What the proofs assume of the constants: packages and versions are numbered, and the
\* artifacts are defined, which the recursion gives for dependencies without a cycle
\* (verify refuses others).
CheckConstantsOK ==
    /\ IsFiniteSet(Packages) /\ Packages \subseteq Nat /\ None \notin Packages
    /\ Dependencies \in [Packages -> SUBSET Packages]
    /\ Versions \subseteq Nat /\ Versions # {}
    /\ Requests \in Nat /\ Capacity \in Nat
    /\ \A src \in [Packages -> Versions], p \in Packages :
         Check!ArtifactsOf(src)[p] =
           [package |-> p, source |-> src[p],
            dependencies |-> {Check!ArtifactsOf(src)[d] : d \in Dependencies[p]}]

BusyPc == {"query", "compile", "finish"}
IdlePc == {"none", "wait", "asleep", "notify", "returned"}

PoolTyped ==
    /\ request \in 0 .. Requests /\ kind \in {"check", "build"}
    /\ source \in [Packages -> Versions] /\ superseded \in BOOLEAN /\ stop \in BOOLEAN
    /\ status \in {"none", "running", "Succeeded", "Failed", "Cancelled"}
    /\ checker \in [Checkers -> BusyPc \cup IdlePc]
    /\ package \in [Checkers -> Packages \cup {None}]
    /\ DOMAIN result = Checkers

\* The graph: what each package waits for is counted, and one that was handed out waits
\* for nothing.  Packages are blocked only when the request is over.
WaitsFor(p) == {d \in Dependencies[p] : state[d] # "Succeeded"}
Graph ==
    /\ state \in [Packages -> Check!States]
    /\ ready = {p \in Packages : state[p] = "Ready"}
    /\ DOMAIN remaining = Packages
    /\ \A p \in Packages : remaining[p] = Cardinality(WaitsFor(p))
    /\ \A p \in Packages : state[p] \notin {"Pending", "Blocked"} => WaitsFor(p) = {}
    /\ status = "running" => \A p \in Packages : state[p] # "Blocked"
    /\ DOMAIN results = Packages
    /\ \A p \in Packages : results[p] # None <=> state[p] = "Succeeded"

\* A worker with a package is alone with it, and works for a request that is running.
Pool ==
    /\ \A w \in Checkers : checker[w] \in BusyPc =>
         /\ package[w] \in Packages /\ state[package[w]] = "Running"
         /\ \A v \in Checkers : checker[v] \in BusyPc /\ package[v] = package[w] => v = w
    /\ \A w \in Checkers : checker[w] \notin {"none", "returned"} => status = "running"

\* The counters, and the reason of those who have left.
Finished == {p \in Packages : state[p] \in {"Succeeded", "Failed"}}
Tally ==
    /\ completed_count = Cardinality(Finished)
    /\ stop <=> \E p \in Packages : state[p] = "Failed"
    /\ \A w \in Checkers : checker[w] = "returned" => Check!Over

\* What a worker has made or found is what the sources give, and a cache entry is what its
\* key says.
Current ==
    /\ Check!SessionsCurrent
    /\ \A w \in Checkers : checker[w] = "compile" => result[w] = None
    /\ \A w \in Checkers : checker[w] = "finish" =>
         result[w] \in {None, Check!ArtifactsOf(source)[package[w]]}
Sound(c) ==
    /\ \E S : c \in Seq(S)
    /\ Len(c) <= Capacity
    /\ \A n \in DOMAIN c : c[n][2] = c[n][1]

PoolInv == PoolTyped /\ Graph /\ Pool /\ Tally /\ Current /\ Sound(cache) /\ Check!StatusHonest

-----------------------------------------------------------------------------
\* A set of numbers that is not empty has a least one.
LEMMA Least ==
    ASSUME NEW S, S \subseteq Nat, S # {}
    PROVE  Check!Min(S) \in S /\ \A y \in S : Check!Min(S) <= y
<1>1. \E R : IsWellFoundedOn(R, Nat) /\ \A y, x \in Nat : y < x => <<y, x>> \in R
  <2>1. \A y, x \in Nat : y < x => <<y, x>> \in OpToRel(<, Nat)
    BY DEF OpToRel
  <2> QED
    BY <2>1, NatLessThanWellFounded, Zenon
<1>2. PICK R : IsWellFoundedOn(R, Nat) /\ \A y, x \in Nat : y < x => <<y, x>> \in R
  BY <1>1
<1>3. \E x \in S : \A y \in S : ~(<<y, x>> \in R)
  <2>1. IsWellFoundedOn(R, Nat)
    BY <1>2
  <2> QED
    BY <2>1, WFMin, Zenon
<1>4. PICK x \in S : \A y \in S : ~(<<y, x>> \in R)
  BY <1>3
<1>5. \A y \in S : x <= y
  <2> SUFFICES ASSUME NEW y \in S PROVE x <= y
    OBVIOUS
  <2>1. x \in Nat /\ y \in Nat
    OBVIOUS
  <2>2. ~(y < x)
    BY <1>2, <1>4, <2>1, Zenon
  <2> QED
    BY <2>1, <2>2
<1> QED
  BY <1>4, <1>5 DEF Check!Min

\* The cache: moving an entry to the front, or putting a new one there, keeps it sound.
LEMMA Fronted ==
    ASSUME NEW S, cache \in Seq(S), NEW e \in S, NEW n \in DOMAIN cache
    PROVE  /\ Check!InFront(e, n) \in Seq(S)
           /\ Len(Check!InFront(e, n)) = Len(cache)
           /\ \A i \in DOMAIN Check!InFront(e, n) :
                \/ Check!InFront(e, n)[i] = e
                \/ \E j \in DOMAIN cache : Check!InFront(e, n)[i] = cache[j]
<1> DEFINE a == SubSeq(cache, 1, n - 1)
           b == SubSeq(cache, n + 1, Len(cache))
           ea == <<e>> \o a
           c == ea \o b
<1>0. Len(cache) \in Nat /\ DOMAIN cache = 1 .. Len(cache) /\ n \in 1 .. Len(cache)
  BY LenProperties
<1>1. /\ a \in Seq(S) /\ Len(a) = n - 1
      /\ \A i \in 1 .. (n - 1) : a[i] = cache[i]
  <2>1. 1 \in 1 .. Len(cache) + 1 /\ n - 1 \in 1 - 1 .. Len(cache)
    BY <1>0
  <2>2. /\ a \in Seq(S) /\ Len(a) = IF 1 <= n - 1 THEN (n - 1) - 1 + 1 ELSE 0
        /\ \A i \in 1 .. (n - 1) - 1 + 1 : a[i] = cache[1 + i - 1]
    BY <2>1, SubSeqProperties
  <2> HIDE DEF a
  <2> QED
    BY <1>0, <2>2
<1>2. /\ b \in Seq(S) /\ Len(b) = Len(cache) - n
      /\ \A i \in 1 .. (Len(cache) - n) : b[i] = cache[n + i]
  <2>1. n + 1 \in 1 .. Len(cache) + 1 /\ Len(cache) \in (n + 1) - 1 .. Len(cache)
    BY <1>0
  <2>2. /\ b \in Seq(S) /\ Len(b) = IF n + 1 <= Len(cache) THEN Len(cache) - (n + 1) + 1 ELSE 0
        /\ \A i \in 1 .. Len(cache) - (n + 1) + 1 : b[i] = cache[(n + 1) + i - 1]
    BY <2>1, SubSeqProperties
  <2> HIDE DEF b
  <2>3. Len(b) = Len(cache) - n
    BY <1>0, <2>2
  <2>4. ASSUME NEW i \in 1 .. (Len(cache) - n) PROVE b[i] = cache[n + i]
    <3>1. i \in 1 .. Len(cache) - (n + 1) + 1 /\ (n + 1) + i - 1 = n + i
      BY <1>0
    <3> QED
      BY <2>2, <3>1
  <2> QED
    BY <2>2, <2>3, <2>4
<1>3. <<e>> \in Seq(S) /\ Len(<<e>>) = 1
  OBVIOUS
<1> HIDE DEF a, b
<1>4. /\ ea \in Seq(S) /\ Len(ea) = n
      /\ ea[1] = e /\ \A i \in 2 .. n : ea[i] = a[i - 1]
  <2>1. /\ ea \in Seq(S) /\ Len(ea) = Len(<<e>>) + Len(a)
        /\ \A i \in 1 .. Len(<<e>>) + Len(a) :
             ea[i] = IF i <= Len(<<e>>) THEN <<e>>[i] ELSE a[i - Len(<<e>>)]
    BY <1>1, <1>3, ConcatProperties
  <2> HIDE DEF ea
  <2> QED
    BY <1>0, <1>1, <1>3, <2>1
<1> HIDE DEF ea
<1>5. /\ c \in Seq(S) /\ Len(c) = Len(cache)
      /\ \A i \in 1 .. Len(cache) : c[i] = IF i <= n THEN ea[i] ELSE b[i - n]
  <2>1. /\ c \in Seq(S) /\ Len(c) = Len(ea) + Len(b)
        /\ \A i \in 1 .. Len(ea) + Len(b) : c[i] = IF i <= Len(ea) THEN ea[i] ELSE b[i - Len(ea)]
    BY <1>2, <1>4, ConcatProperties
  <2> HIDE DEF c
  <2> QED
    BY <1>0, <1>2, <1>4, <2>1
<1>6. c = Check!InFront(e, n)
  BY DEF c, ea, a, b, Check!InFront
<1> HIDE DEF c
<1>7. ASSUME NEW i \in DOMAIN c PROVE c[i] = e \/ \E j \in DOMAIN cache : c[i] = cache[j]
  <2>0. i \in 1 .. Len(cache)
    BY <1>5, LenProperties
  <2>1. CASE i = 1
    BY <1>0, <1>4, <1>5, <2>1
  <2>2. CASE i \in 2 .. n
    <3>1. c[i] = cache[i - 1]
      BY <1>0, <1>1, <1>4, <1>5, <2>0, <2>2
    <3> QED
      BY <1>0, <2>2, <3>1
  <2>3. CASE i > n
    <3>1. i - n \in 1 .. (Len(cache) - n) /\ n + (i - n) = i
      BY <1>0, <2>0, <2>3
    <3>2. c[i] = b[i - n]
      BY <1>0, <1>5, <2>0, <2>3
    <3>3. b[i - n] = cache[n + (i - n)]
      BY <1>2, <3>1
    <3> QED
      BY <1>0, <2>0, <3>1, <3>2, <3>3
  <2> QED
    BY <1>0, <2>0, <2>1, <2>2, <2>3
<1> QED
  BY <1>5, <1>6, <1>7

\* A hit moves its entry to the front.
LEMMA TouchSound ==
    ASSUME Sound(cache), NEW n \in DOMAIN cache
    PROVE  Sound(Check!Touched(n))
<1>1. PICK S : cache \in Seq(S)
  BY DEF Sound
<1>2. cache[n] \in S
  BY <1>1
<1> DEFINE c == Check!InFront(cache[n], n)
<1>3. /\ c \in Seq(S) /\ Len(c) = Len(cache)
      /\ \A i \in DOMAIN c : c[i] = cache[n] \/ \E j \in DOMAIN cache : c[i] = cache[j]
  BY <1>1, <1>2, Fronted
<1>4. c = Check!Touched(n)
  BY DEF Check!Touched
<1> HIDE DEF c
<1> QED
  BY <1>3, <1>4 DEF Sound

\* So does an insertion, which evicts what exceeds the capacity.
LEMMA InsertSound ==
    ASSUME Sound(cache), Capacity \in Nat, NEW key
    PROVE  Sound(Check!Inserted(key, key))
<1>1. PICK S : cache \in Seq(S)
  BY DEF Sound
<1> DEFINE e == <<key, key>>
           T == S \cup {e}
<1>2. cache \in Seq(T) /\ e \in T /\ e[2] = e[1]
  BY <1>1
<1>3. Len(cache) \in Nat /\ DOMAIN cache = 1 .. Len(cache)
  BY <1>1, LenProperties
<1> HIDE DEF e, T
<1>4. CASE Check!Cached(key) # {}
  <2> DEFINE n == Check!Min(Check!Cached(key))
             c == Check!InFront(e, n)
  <2>1. Check!Cached(key) \subseteq DOMAIN cache /\ Check!Cached(key) \subseteq Nat
    BY <1>3 DEF Check!Cached
  <2>2. n \in DOMAIN cache
    BY <1>4, <2>1, Least
  <2>3. Check!Inserted(key, key) = c
    BY <1>4 DEF Check!Inserted, e
  <2> HIDE DEF n
  <2>4. /\ c \in Seq(T) /\ Len(c) = Len(cache)
        /\ \A i \in DOMAIN c : c[i] = e \/ \E j \in DOMAIN cache : c[i] = cache[j]
    BY <1>2, <2>2, Fronted
  <2> HIDE DEF c
  <2> QED
    BY <1>2, <2>3, <2>4 DEF Sound
<1>5. CASE Check!Cached(key) = {}
  <2> DEFINE m == Check!Min({Len(cache) + 1, Capacity})
             all == <<e>> \o cache
             c == SubSeq(all, 1, m)
  <2>1. m \in {Len(cache) + 1, Capacity} /\ \A y \in {Len(cache) + 1, Capacity} : m <= y
    BY <1>3, Least
  <2>2. Check!Inserted(key, key) = c
    BY <1>5 DEF Check!Inserted, e
  <2> HIDE DEF m
  <2>3. m \in Nat /\ m <= Len(cache) + 1 /\ m <= Capacity
    BY <1>3, <2>1
  <2>4. <<e>> \in Seq(T) /\ Len(<<e>>) = 1
    BY <1>2
  <2>5. /\ all \in Seq(T) /\ Len(all) = Len(<<e>>) + Len(cache)
        /\ \A i \in 1 .. Len(<<e>>) + Len(cache) :
             all[i] = IF i <= Len(<<e>>) THEN <<e>>[i] ELSE cache[i - Len(<<e>>)]
    BY <1>2, <2>4, ConcatProperties
  <2> HIDE DEF all
  <2>6. Len(all) = Len(cache) + 1
    BY <1>3, <2>4, <2>5
  <2>7. /\ c \in Seq(T) /\ Len(c) = IF 1 <= m THEN m - 1 + 1 ELSE 0
        /\ \A i \in 1 .. m - 1 + 1 : c[i] = all[1 + i - 1]
    <3>1. 1 \in 1 .. Len(all) + 1 /\ m \in 1 - 1 .. Len(all)
      BY <1>3, <2>3, <2>6
    <3> QED
      BY <2>5, <3>1, SubSeqProperties
  <2> HIDE DEF c
  <2>8. Len(c) = m /\ DOMAIN c = 1 .. m
    BY <2>3, <2>7, LenProperties
  <2>9. ASSUME NEW i \in DOMAIN c PROVE c[i][2] = c[i][1]
    <3>1. i \in 1 .. m /\ c[i] = all[i]
      BY <2>3, <2>7, <2>8, <2>9
    <3>2. CASE i = 1
      BY <1>2, <1>3, <2>3, <2>4, <2>5, <3>1, <3>2
    <3>3. CASE i # 1
      <4>1. i - 1 \in DOMAIN cache /\ all[i] = cache[i - 1]
        BY <1>3, <2>3, <2>4, <2>5, <3>1, <3>3
      <4> QED
        BY <3>1, <4>1 DEF Sound
    <3> QED
      BY <3>2, <3>3
  <2> QED
    BY <2>2, <2>3, <2>7, <2>8, <2>9 DEF Sound
<1> QED
  BY <1>4, <1>5

-----------------------------------------------------------------------------
\* The size of a set is the same in the module and here.
LEMMA SizeOf == \A S : Check!Cardinality(S) = Cardinality(S)
  BY DEF Check!Cardinality, Cardinality

\* A graph as it is laid out for a request: nothing has succeeded.
LEMMA NewGraph ==
    ASSUME CheckConstantsOK
    PROVE  /\ Check!GraphState \in [Packages -> {"Ready", "Pending"}]
           /\ \A p \in Packages : /\ Dependencies[p] \subseteq Packages
                                  /\ Check!GraphState[p] # "Pending" => Dependencies[p] = {}
                                  /\ {d \in Dependencies[p] : Check!GraphState[d] # "Succeeded"}
                                       = Dependencies[p]
           /\ {p \in Packages : Check!GraphState[p] \in {"Succeeded", "Failed"}} = {}
<1>1. Dependencies \in [Packages -> SUBSET Packages]
  BY DEF CheckConstantsOK
<1>2. /\ Check!GraphState \in [Packages -> {"Ready", "Pending"}]
      /\ \A p \in Packages : Check!GraphState[p] # "Pending" => Dependencies[p] = {}
  BY DEF Check!GraphState
<1> QED
  BY <1>1, <1>2

\* Before the first request.
LEMMA PoolInitially ==
    ASSUME CheckConstantsOK, Check!Init
    PROVE  PoolInv
<1>1. Check!Min(Versions) \in Versions
  BY Least DEF CheckConstantsOK
<1>2. PoolTyped
  <2>1. /\ request = 0 /\ kind = "check" /\ superseded = FALSE /\ stop = FALSE
        /\ source = [p \in Packages |-> Check!Min(Versions)]
        /\ checker = [w \in Checkers |-> "none"] /\ package = [w \in Checkers |-> None]
        /\ result = [w \in Checkers |-> None] /\ status = "none"
    BY DEF Check!Init
  <2>2. 0 \in 0 .. Requests
    BY DEF CheckConstantsOK
  <2> QED
    BY <1>1, <2>1, <2>2 DEF PoolTyped, BusyPc, IdlePc
<1>3. Graph
  <2>1. state = Check!GraphState /\ results = [p \in Packages |-> None]
    BY DEF Check!Init
  <2>2. /\ DOMAIN remaining = Packages
        /\ \A p \in Packages : remaining[p] = Cardinality(Dependencies[p])
    BY SizeOf DEF Check!Init
  <2>4. status = "none"
    BY DEF Check!Init
  <2>3. ready = {p \in Packages : state[p] = "Ready"}
    BY DEF Check!Init
  <2>5. \A p \in Packages : WaitsFor(p) = Dependencies[p]
    BY <2>1, NewGraph DEF WaitsFor
  <2>6. /\ state \in [Packages -> Check!States]
        /\ \A p \in Packages : state[p] # "Pending" => Dependencies[p] = {}
        /\ \A p \in Packages : state[p] \in {"Ready", "Pending"}
    BY <2>1, NewGraph DEF Check!States
  <2> QED
    BY <2>1, <2>2, <2>3, <2>4, <2>5, <2>6 DEF Graph
<1>4. Pool /\ Check!StatusHonest
  BY DEF Check!Init, Pool, BusyPc, Check!StatusHonest
<1>5. Tally
  <2>1. state = Check!GraphState /\ completed_count = 0 /\ stop = FALSE
        /\ checker = [w \in Checkers |-> "none"]
    BY DEF Check!Init
  <2> QED
    BY <2>1, NewGraph, FS_EmptySet DEF Tally, Finished
<1>6. Current
  BY DEF Check!Init, Current, Check!SessionsCurrent
<1>7. Sound(cache)
  <2>1. cache = <<>>
    BY DEF Check!Init
  <2>2. cache \in Seq({}) /\ Len(cache) = 0 /\ DOMAIN cache = {}
    BY <2>1
  <2> QED
    BY <2>2 DEF Sound, CheckConstantsOK
<1> QED
  BY <1>2, <1>3, <1>4, <1>5, <1>6, <1>7 DEF PoolInv

\* A request begins: the graph and the results are new, the cache stays.
LEMMA RequestBegins ==
    ASSUME CheckConstantsOK, PoolInv, NEW k \in {"check", "build"}, Check!Begin(k)
    PROVE  PoolInv'
<1>1. PoolTyped'
  <2>1. /\ request < Requests /\ request' = request + 1 /\ kind' = k
        /\ superseded' = FALSE /\ stop' = FALSE /\ status' = "running"
        /\ checker' = [w \in Checkers |-> "none"] /\ package' = [w \in Checkers |-> None]
        /\ result' = [w \in Checkers |-> None]
    BY DEF Check!Begin
  <2>2. PoolTyped /\ Requests \in Nat
    BY DEF PoolInv, CheckConstantsOK
  <2>3. request' \in 0 .. Requests
    BY <2>1, <2>2 DEF PoolTyped
  <2>4. source' \in [Packages -> Versions]
    <3>1. PICK p \in Packages, v \in Versions : source' = [source EXCEPT ![p] = v]
      BY DEF Check!Begin
    <3> QED
      BY <2>2, <3>1 DEF PoolTyped
  <2> QED
    BY <2>1, <2>3, <2>4 DEF PoolTyped, BusyPc, IdlePc
<1>2. Graph'
  <2>1. state' = Check!GraphState /\ results' = [p \in Packages |-> None]
    BY DEF Check!Begin
  <2>2. /\ DOMAIN remaining' = Packages
        /\ \A p \in Packages : remaining'[p] = Cardinality(Dependencies[p])
    BY SizeOf DEF Check!Begin
  <2>3. ready' = {p \in Packages : state'[p] = "Ready"}
    BY DEF Check!Begin
  <2>5. \A p \in Packages : WaitsFor(p)' = Dependencies[p]
    BY <2>1, NewGraph DEF WaitsFor
  <2>6. /\ state' \in [Packages -> Check!States]
        /\ \A p \in Packages : state'[p] # "Pending" => Dependencies[p] = {}
        /\ \A p \in Packages : state'[p] \in {"Ready", "Pending"}
    BY <2>1, NewGraph DEF Check!States
  <2> QED
    BY <2>1, <2>2, <2>3, <2>5, <2>6 DEF Graph
<1>3. Pool' /\ Check!StatusHonest'
  BY DEF Check!Begin, Pool, BusyPc, Check!StatusHonest
<1>4. Tally'
  <2>1. state' = Check!GraphState /\ completed_count' = 0 /\ stop' = FALSE
        /\ checker' = [w \in Checkers |-> "none"]
    BY DEF Check!Begin
  <2> QED
    BY <2>1, NewGraph, FS_EmptySet DEF Tally, Finished
<1>5. Current'
  BY DEF Check!Begin, Current, Check!SessionsCurrent
<1>6. Sound(cache)'
  <2>1. cache' = cache /\ Sound(cache)
    BY DEF Check!Begin, PoolInv
  <2> QED
    BY <2>1 DEF Sound
<1> QED
  BY <1>1, <1>2, <1>3, <1>4, <1>5, <1>6 DEF PoolInv

\* The workers start, or the request returns before they do.
LEMMA Starts ==
    ASSUME CheckConstantsOK, PoolInv, Check!Start
    PROVE  PoolInv'
<1>0. /\ PoolTyped /\ Graph /\ Pool /\ Tally /\ Current /\ Sound(cache)
      /\ status = "running" /\ \A w \in Checkers : checker[w] = "none"
      /\ UNCHANGED <<request, kind, source, superseded, state, remaining, ready, results,
                     completed_count, stop, package, result, cache>>
      /\ \/ superseded /\ status' = "Cancelled" /\ checker' = checker
         \/ status' = "Failed" /\ checker' = checker
         \/ checker' = [w \in Checkers |-> "wait"] /\ status' = status
  BY DEF PoolInv, Check!Start, Check!graph
<1>1. PoolTyped'
  BY <1>0 DEF PoolTyped, BusyPc, IdlePc
<1>2. Graph'
  BY <1>0 DEF Graph, WaitsFor
<1>3. Pool'
  BY <1>0 DEF Pool, BusyPc
<1>4. Tally'
  BY <1>0 DEF Tally, Finished
<1>5. Current'
  BY <1>0 DEF Current, Check!SessionsCurrent
<1>6. Sound(cache)'
  BY <1>0 DEF Sound
<1>7. Check!StatusHonest'
  BY <1>0 DEF Check!StatusHonest
<1> QED
  BY <1>1, <1>2, <1>3, <1>4, <1>5, <1>6, <1>7 DEF PoolInv

\* A check is superseded.
LEMMA Cancels ==
    ASSUME CheckConstantsOK, PoolInv, Check!Cancel
    PROVE  PoolInv'
<1>0. /\ PoolTyped /\ Graph /\ Pool /\ Tally /\ Current /\ Sound(cache)
      /\ status = "running" /\ superseded' = TRUE
      /\ UNCHANGED <<request, kind, source, state, remaining, ready, results,
                     completed_count, stop, checker, package, result, cache, status>>
  BY DEF PoolInv, Check!Cancel, Check!graph
<1>1. PoolTyped'
  BY <1>0 DEF PoolTyped
<1>2. Graph'
  BY <1>0 DEF Graph, WaitsFor
<1>3. Pool'
  BY <1>0 DEF Pool
<1>4. Tally'
  BY <1>0 DEF Tally, Finished, Check!Over
<1>5. Current'
  BY <1>0 DEF Current, Check!SessionsCurrent
<1>6. Sound(cache)'
  BY <1>0 DEF Sound
<1>7. Check!StatusHonest'
  BY <1>0 DEF Check!StatusHonest
<1> QED
  BY <1>1, <1>2, <1>3, <1>4, <1>5, <1>6, <1>7 DEF PoolInv

\* A worker that found the pool at work goes to sleep, or one that slept is woken.
LEMMA Rests ==
    ASSUME CheckConstantsOK, PoolInv, status = "running",
           UNCHANGED <<Check!pool, Check!shared, Check!graph, package, result, cache>>,
           DOMAIN checker' = Checkers,
           \A w \in Checkers : \/ checker'[w] = checker[w]
                               \/ checker'[w] \in {"wait", "asleep"} /\ checker[w] # "none"
                               \/ checker'[w] = "returned" /\ Check!Over,
           checker' = [w \in Checkers |-> checker'[w]]
    PROVE  PoolInv'
<1>0. /\ PoolTyped /\ Graph /\ Pool /\ Tally /\ Current /\ Sound(cache)
      /\ UNCHANGED <<request, kind, source, superseded, state, remaining, ready, results,
                     completed_count, stop, package, result, cache, status>>
  BY DEF PoolInv, Check!pool, Check!shared, Check!graph
<1>1. PoolTyped'
  BY <1>0 DEF PoolTyped, BusyPc, IdlePc
<1>2. Graph'
  BY <1>0 DEF Graph, WaitsFor
<1>3. Pool'
  BY <1>0 DEF Pool, BusyPc
<1>4. Tally'
  <2>1. Finished' = Finished /\ Check!Over' = Check!Over
    BY <1>0 DEF Finished, Check!Over
  <2> QED
    BY <1>0, <2>1 DEF Tally
<1>5. Current'
  BY <1>0 DEF Current, Check!SessionsCurrent
<1>6. Sound(cache)'
  BY <1>0 DEF Sound
<1>7. Check!StatusHonest'
  BY <1>0 DEF Check!StatusHonest
<1> QED
  BY <1>1, <1>2, <1>3, <1>4, <1>5, <1>6, <1>7 DEF PoolInv

\* A worker takes the least ready package.
LEMMA Takes ==
    ASSUME CheckConstantsOK, PoolInv, NEW w \in Checkers, checker[w] = "wait",
           Check!hasReadyQuery, Check!takeReadyQuery(w), Check!Goto(w, "query"),
           UNCHANGED <<Check!pool, Check!shared, result, cache>>
    PROVE  PoolInv'
<1> DEFINE p == Check!Min(ready)
<1>0. /\ PoolTyped /\ Graph /\ Pool /\ Tally /\ Current /\ Sound(cache) /\ status = "running"
      /\ UNCHANGED <<request, kind, source, superseded, remaining, results,
                     completed_count, stop, result, cache, status>>
  BY DEF PoolInv, Check!pool, Check!shared, Check!takeReadyQuery, Pool
<1>1. p \in ready
  <2>1. ready # {} /\ ready \subseteq Nat
    BY <1>0 DEF Check!hasReadyQuery, Graph, CheckConstantsOK
  <2> QED
    BY <2>1, Least
<1>2. /\ package' = [package EXCEPT ![w] = p] /\ ready' = ready \ {p}
      /\ state' = [state EXCEPT ![p] = "Running"] /\ checker' = [checker EXCEPT ![w] = "query"]
  BY DEF Check!takeReadyQuery, Check!Goto
<1> HIDE DEF p
<1>3. p \in Packages /\ state[p] = "Ready"
  BY <1>0, <1>1 DEF Graph
<1>4. PoolTyped'
  BY <1>0, <1>2, <1>3 DEF PoolTyped, BusyPc
<1>5. /\ state' \in [Packages -> Check!States] /\ state'[p] = "Running"
      /\ \A q \in Packages \ {p} : state'[q] = state[q]
  BY <1>0, <1>2, <1>3 DEF Graph, Check!States
<1>6. Graph'
  <2>1. \A q \in Packages : WaitsFor(q)' = WaitsFor(q)
    BY <1>3, <1>5 DEF WaitsFor, CheckConstantsOK
  <2>2. ready' = {q \in Packages : state'[q] = "Ready"}
    BY <1>0, <1>2, <1>3, <1>5 DEF Graph
  <2> QED
    BY <1>0, <1>3, <1>5, <2>1, <2>2 DEF Graph
<1>7. Pool'
  BY <1>0, <1>2, <1>3, <1>5 DEF Pool, PoolTyped, BusyPc
<1>8. Tally'
  <2>1. Finished' = Finished /\ Check!Over' = Check!Over
    BY <1>0, <1>3, <1>5 DEF Finished, Check!Over
  <2>2. (\E q \in Packages : state'[q] = "Failed") <=> \E q \in Packages : state[q] = "Failed"
    BY <1>3, <1>5
  <2>3. \A v \in Checkers : checker'[v] = "returned" => checker[v] = "returned"
    BY <1>0, <1>2 DEF PoolTyped
  <2> QED
    BY <1>0, <2>1, <2>2, <2>3 DEF Tally
<1>9. Current'
  BY <1>0, <1>2 DEF Current, Check!SessionsCurrent, PoolTyped
<1>10. Sound(cache)' /\ Check!StatusHonest'
  BY <1>0 DEF Sound, Check!StatusHonest
<1> QED
  BY <1>4, <1>6, <1>7, <1>8, <1>9, <1>10 DEF PoolInv

\* The steps of a worker at the condition variable.
LEMMA Waits ==
    ASSUME CheckConstantsOK, PoolInv, NEW w \in Checkers,
           Check!Wait(w) \/ Check!Notify(w) \/ Check!SpuriousWake(w)
    PROVE  PoolInv'
<1>0. PoolTyped /\ Pool
  BY DEF PoolInv
<1>1. status = "running"
  BY <1>0 DEF Pool, Check!Wait, Check!Notify, Check!SpuriousWake
<1>2. CASE /\ Check!Wait(w) /\ Check!hasReadyQuery /\ Check!takeReadyQuery(w)
           /\ Check!Goto(w, "query")
  BY <1>2, Takes DEF Check!Wait
<1>3. CASE /\ Check!Wait(w) /\ Check!Over /\ Check!Goto(w, "returned")
           /\ UNCHANGED <<Check!graph, package>>
  <2>1. checker' = [checker EXCEPT ![w] = "returned"]
    BY <1>3 DEF Check!Goto
  <2>2. UNCHANGED <<Check!pool, Check!shared, Check!graph, package, result, cache>>
    BY <1>3 DEF Check!Wait
  <2> QED
    BY <1>0, <1>1, <1>3, <2>1, <2>2, Rests DEF PoolTyped
<1>4. CASE Check!Wait(w) /\ Check!Goto(w, "asleep") /\ UNCHANGED <<Check!graph, package>>
  <2>1. checker' = [checker EXCEPT ![w] = "asleep"] /\ checker[w] = "wait"
    BY <1>4 DEF Check!Goto, Check!Wait
  <2>2. UNCHANGED <<Check!pool, Check!shared, Check!graph, package, result, cache>>
    BY <1>4 DEF Check!Wait
  <2> QED
    BY <1>0, <1>1, <2>1, <2>2, Rests DEF PoolTyped
<1>5. CASE Check!Notify(w)
  <2>1. /\ checker[w] = "notify"
        /\ checker' = [v \in Checkers |-> IF v = w \/ checker[v] = "asleep" THEN "wait"
                                          ELSE checker[v]]
        /\ UNCHANGED <<Check!pool, Check!shared, Check!graph, package, result, cache>>
    BY <1>5 DEF Check!Notify
  <2> QED
    BY <1>1, <2>1, Rests
<1>6. CASE Check!SpuriousWake(w)
  <2>1. /\ checker[w] = "asleep" /\ checker' = [checker EXCEPT ![w] = "wait"]
        /\ UNCHANGED <<Check!pool, Check!shared, Check!graph, package, result, cache>>
    BY <1>6 DEF Check!SpuriousWake, Check!Goto
  <2> QED
    BY <1>0, <1>1, <2>1, Rests DEF PoolTyped
<1> QED
  BY <1>2, <1>3, <1>4, <1>5, <1>6 DEF Check!Wait

\* What a worker has in hand is made from sessions that are there, and is what the sources
\* give.
LEMMA FromDependencies ==
    ASSUME CheckConstantsOK, PoolInv, NEW w \in Checkers, checker[w] \in BusyPc
    PROVE  /\ \A d \in Dependencies[package[w]] : d \in Packages /\ results[d] # None
           /\ Check!CheckArtifact(package[w]) = Check!ArtifactsOf(source)[package[w]]
           /\ Check!checkCacheKey(package[w]) = Check!CheckArtifact(package[w])
<1> DEFINE p == package[w]
<1>0. Graph /\ Pool /\ Current /\ source \in [Packages -> Versions]
  BY DEF PoolInv, PoolTyped
<1>1. p \in Packages /\ WaitsFor(p) = {}
  BY <1>0 DEF Graph, Pool
<1>2. \A d \in Dependencies[p] : d \in Packages /\ results[d] # None
  BY <1>0, <1>1 DEF Graph, WaitsFor, CheckConstantsOK
<1>3. \A d \in Dependencies[p] : results[d] = Check!ArtifactsOf(source)[d]
  BY <1>0, <1>2 DEF Current, Check!SessionsCurrent
<1>4. {results[d] : d \in Dependencies[p]} = {Check!ArtifactsOf(source)[d] : d \in Dependencies[p]}
  BY <1>3
<1>5. Check!ArtifactsOf(source)[p] =
        [package |-> p, source |-> source[p],
         dependencies |-> {Check!ArtifactsOf(source)[d] : d \in Dependencies[p]}]
  BY <1>0, <1>1 DEF CheckConstantsOK
<1>6. Check!CheckArtifact(p) =
        [package |-> p, source |-> source[p], dependencies |-> {results[d] : d \in Dependencies[p]}]
  BY DEF Check!CheckArtifact
<1>7. Check!checkCacheKey(p) = Check!CheckArtifact(p)
  BY DEF Check!CheckArtifact, Check!checkCacheKey
<1> QED
  BY <1>2, <1>4, <1>5, <1>6, <1>7, Zenon

\* A worker goes on with its package to compile or to finish it.
LEMMA Proceeds ==
    ASSUME CheckConstantsOK, PoolInv, NEW w \in Checkers, checker[w] \in {"query", "compile"},
           NEW to \in {"compile", "finish"}, checker' = [checker EXCEPT ![w] = to],
           DOMAIN result' = Checkers, \A v \in Checkers \ {w} : result'[v] = result[v],
           to = "compile" => result'[w] = None,
           to = "finish" => result'[w] \in {None, Check!ArtifactsOf(source)[package[w]]},
           Sound(cache'),
           UNCHANGED <<Check!pool, Check!graph, Check!shared, package>>
    PROVE  PoolInv'
<1>0. /\ PoolTyped /\ Graph /\ Pool /\ Tally /\ Current /\ status = "running"
      /\ UNCHANGED <<request, kind, source, superseded, state, remaining, ready, results,
                     completed_count, stop, package, status>>
  BY DEF PoolInv, Check!pool, Check!shared, Check!graph, Pool
<1>1. PoolTyped'
  BY <1>0 DEF PoolTyped, BusyPc
<1>2. Graph'
  BY <1>0 DEF Graph, WaitsFor
<1>3. Pool'
  BY <1>0 DEF Pool, PoolTyped, BusyPc
<1>4. Tally'
  <2>1. Finished' = Finished /\ Check!Over' = Check!Over
    BY <1>0 DEF Finished, Check!Over
  <2>2. \A v \in Checkers : checker'[v] = "returned" => checker[v] = "returned"
    BY <1>0 DEF PoolTyped
  <2> QED
    BY <1>0, <2>1, <2>2 DEF Tally
<1>5. Current'
  <2>1. Check!SessionsCurrent'
    BY <1>0 DEF Current, Check!SessionsCurrent
  <2>2. /\ checker'[w] = to /\ \A v \in Checkers \ {w} : checker'[v] = checker[v]
    BY <1>0 DEF PoolTyped
  <2> QED
    BY <1>0, <2>1, <2>2 DEF Current
<1>6. Check!StatusHonest'
  BY <1>0 DEF Check!StatusHonest
<1>7. Sound(cache)'
  BY DEF Sound
<1> QED
  BY <1>1, <1>2, <1>3, <1>4, <1>5, <1>6, <1>7 DEF PoolInv

\* A worker looks its package up.
LEMMA Queries ==
    ASSUME CheckConstantsOK, PoolInv, NEW w \in Checkers, Check!Query(w)
    PROVE  PoolInv'
<1> DEFINE hits == IF kind = "check" THEN Check!Cached(Check!checkCacheKey(package[w])) ELSE {}
<1>0. /\ PoolTyped /\ Sound(cache) /\ checker[w] = "query"
      /\ UNCHANGED <<Check!pool, Check!graph, Check!shared, package>>
  BY DEF PoolInv, Check!Query
<1>1. CASE \E n \in hits : /\ result' = [result EXCEPT ![w] = cache[n][2]]
                           /\ cache' = Check!Touched(n) /\ Check!Goto(w, "finish")
  <2>1. PICK n \in hits : /\ result' = [result EXCEPT ![w] = cache[n][2]]
                          /\ cache' = Check!Touched(n) /\ Check!Goto(w, "finish")
    BY <1>1
  <2>2. n \in DOMAIN cache /\ cache[n][1] = Check!checkCacheKey(package[w])
    BY <2>1 DEF Check!Cached
  <2>3. cache[n][2] = Check!ArtifactsOf(source)[package[w]]
    BY <1>0, <2>2, FromDependencies DEF Sound, BusyPc
  <2>4. Sound(cache')
    BY <1>0, <2>1, <2>2, TouchSound
  <2>5. /\ DOMAIN result' = Checkers /\ \A v \in Checkers \ {w} : result'[v] = result[v]
        /\ result'[w] = Check!ArtifactsOf(source)[package[w]]
    BY <1>0, <2>1, <2>3 DEF PoolTyped
  <2>6. checker' = [checker EXCEPT ![w] = "finish"]
    BY <2>1 DEF Check!Goto
  <2> QED
    BY <1>0, <2>4, <2>5, <2>6, Proceeds
<1>2. CASE /\ hits = {} /\ result' = [result EXCEPT ![w] = None]
           /\ Check!Goto(w, IF superseded THEN "finish" ELSE "compile") /\ cache' = cache
  <2>1. /\ DOMAIN result' = Checkers /\ \A v \in Checkers \ {w} : result'[v] = result[v]
        /\ result'[w] = None
    BY <1>0, <1>2 DEF PoolTyped
  <2>2. Sound(cache')
    BY <1>0, <1>2
  <2>3. CASE superseded
    <3>1. checker' = [checker EXCEPT ![w] = "finish"]
      BY <1>2, <2>3 DEF Check!Goto
    <3> QED
      BY <1>0, <2>1, <2>2, <3>1, Proceeds
  <2>4. CASE ~superseded
    <3>1. checker' = [checker EXCEPT ![w] = "compile"]
      BY <1>2, <2>4 DEF Check!Goto
    <3> QED
      BY <1>0, <2>1, <2>2, <3>1, Proceeds
  <2> QED
    BY <2>3, <2>4
<1> QED
  BY <1>1, <1>2 DEF Check!Query

\* A worker compiles its package.
LEMMA PackageCompiles ==
    ASSUME CheckConstantsOK, PoolInv, NEW w \in Checkers, Check!Compile(w)
    PROVE  PoolInv'
<1> DEFINE artifact == Check!CheckArtifact(package[w])
           key == Check!checkCacheKey(package[w])
<1>0. /\ PoolTyped /\ Current /\ Sound(cache) /\ checker[w] = "compile"
      /\ checker' = [checker EXCEPT ![w] = "finish"]
      /\ UNCHANGED <<Check!pool, Check!graph, Check!shared, package>>
  BY DEF PoolInv, Check!Compile, Check!Goto
<1>1. artifact = Check!ArtifactsOf(source)[package[w]] /\ key = artifact
  BY <1>0, FromDependencies DEF BusyPc
<1>2. CASE UNCHANGED <<result, cache>>
  <2>1. /\ DOMAIN result' = Checkers /\ \A v \in Checkers \ {w} : result'[v] = result[v]
        /\ result'[w] = None
    BY <1>0, <1>2 DEF PoolTyped, Current
  <2>2. Sound(cache')
    BY <1>0, <1>2
  <2> QED
    BY <1>0, <2>1, <2>2, Proceeds
<1>3. CASE /\ result' = [result EXCEPT ![w] = artifact]
           /\ cache' = IF kind = "check" /\ ~superseded
                       THEN Check!Inserted(key, artifact) ELSE cache
  <2>1. Sound(Check!Inserted(key, artifact))
    BY <1>0, <1>1, InsertSound DEF CheckConstantsOK
  <2>2. Sound(cache')
    BY <1>0, <1>3, <2>1
  <2>3. /\ DOMAIN result' = Checkers /\ \A v \in Checkers \ {w} : result'[v] = result[v]
        /\ result'[w] = Check!ArtifactsOf(source)[package[w]]
    BY <1>0, <1>1, <1>3 DEF PoolTyped
  <2> HIDE DEF artifact, key
  <2> QED
    BY <1>0, <2>2, <2>3, Proceeds
<1> QED
  BY <1>2, <1>3 DEF Check!Compile

-----------------------------------------------------------------------------
\* A package that succeeds is one less to wait for, for each of its dependents; those for
\* which it was the last are ready.
LEMMA SucceededStep ==
    ASSUME CheckConstantsOK, Graph, status = "running", NEW p \in Packages,
           state[p] = "Running", Check!markSucceeded(p)
    PROVE  /\ state' \in [Packages -> Check!States] /\ state'[p] = "Succeeded"
           /\ \A q \in Packages \ {p} : \/ state'[q] = state[q]
                                        \/ state[q] = "Pending" /\ state'[q] = "Ready"
           /\ ready' = {q \in Packages : state'[q] = "Ready"}
           /\ DOMAIN remaining' = Packages
           /\ \A q \in Packages : remaining'[q] = Cardinality(WaitsFor(q)')
           /\ \A q \in Packages : state'[q] \notin {"Pending", "Blocked"} => WaitsFor(q)' = {}
<1> DEFINE left == [d \in Packages |-> remaining[d] - IF d \in Check!Dependents(p) THEN 1 ELSE 0]
           freed == {d \in Check!Dependents(p) : left[d] = 0}
<1>1. /\ remaining' = left /\ ready' = ready \cup freed
      /\ state' = [d \in Packages |-> IF d = p THEN "Succeeded"
                                      ELSE IF d \in freed THEN "Ready" ELSE state[d]]
  BY DEF Check!markSucceeded
<1>2. \A q \in Packages : /\ IsFiniteSet(WaitsFor(q)) /\ Dependencies[q] \subseteq Packages
                          /\ Cardinality(WaitsFor(q)) \in Nat
                          /\ remaining[q] = Cardinality(WaitsFor(q))
  <2> SUFFICES ASSUME NEW q \in Packages
               PROVE  /\ IsFiniteSet(WaitsFor(q)) /\ Dependencies[q] \subseteq Packages
                      /\ Cardinality(WaitsFor(q)) \in Nat /\ remaining[q] = Cardinality(WaitsFor(q))
    OBVIOUS
  <2>1. /\ WaitsFor(q) \subseteq Packages /\ IsFiniteSet(Packages)
        /\ Dependencies[q] \subseteq Packages
    BY DEF WaitsFor, CheckConstantsOK
  <2>2. IsFiniteSet(WaitsFor(q))
    BY <2>1, FS_Subset
  <2> QED
    BY <2>1, <2>2, FS_CardinalityType DEF Graph
<1>3. \A q \in Check!Dependents(p) : /\ q \in Packages /\ p \in WaitsFor(q)
                                     /\ state[q] = "Pending" /\ q # p
  BY DEF Check!Dependents, WaitsFor, Graph, Check!States
<1>4. \A q \in Packages : q \notin Check!Dependents(p) => p \notin Dependencies[q]
  BY DEF Check!Dependents
<1> HIDE DEF freed, left
<1>5. freed \subseteq Check!Dependents(p) /\ \A q \in freed : left[q] = 0
  BY DEF freed
<1>6. /\ state' \in [Packages -> Check!States] /\ state'[p] = "Succeeded"
      /\ \A q \in Packages \ {p} : state'[q] = IF q \in freed THEN "Ready" ELSE state[q]
  BY <1>1 DEF Graph, Check!States
<1>7. \A q \in Packages \ {p} : \/ state'[q] = state[q]
                                \/ state[q] = "Pending" /\ state'[q] = "Ready"
  BY <1>3, <1>5, <1>6
<1>8. ready' = {q \in Packages : state'[q] = "Ready"}
  <2>1. \A q : q \in ready' <=> q \in Packages /\ state'[q] = "Ready"
    BY <1>1, <1>3, <1>5, <1>6 DEF Graph
  <2> QED
    BY <2>1
<1>9. \A q \in Packages : WaitsFor(q)' = WaitsFor(q) \ {p}
  <2>1. \A d \in Packages : state'[d] # "Succeeded" <=> state[d] # "Succeeded" /\ d # p
    BY <1>6, <1>7
  <2> QED
    BY <1>2, <2>1 DEF WaitsFor
<1>10. ASSUME NEW q \in Packages
       PROVE  /\ remaining'[q] = Cardinality(WaitsFor(q)')
              /\ q \in freed => WaitsFor(q)' = {}
  <2>0. /\ remaining'[q] = left[q]
        /\ left[q] = remaining[q] - IF q \in Check!Dependents(p) THEN 1 ELSE 0
    BY <1>1 DEF left
  <2>1. CASE q \in Check!Dependents(p)
    <3>1. IsFiniteSet(WaitsFor(q)) /\ p \in WaitsFor(q)
      BY <1>2, <1>3, <2>1
    <3>2. /\ IsFiniteSet(WaitsFor(q) \ {p})
          /\ Cardinality(WaitsFor(q) \ {p}) = Cardinality(WaitsFor(q)) - 1
      BY <3>1, FS_RemoveElement
    <3>3. left[q] = Cardinality(WaitsFor(q)')
      BY <1>2, <1>9, <2>0, <2>1, <3>2
    <3>4. left[q] = 0 => WaitsFor(q)' = {}
      BY <1>9, <3>2, <3>3, FS_EmptySet
    <3> QED
      BY <1>5, <2>0, <3>3, <3>4
  <2>2. CASE q \notin Check!Dependents(p)
    <3>1. WaitsFor(q)' = WaitsFor(q)
      BY <1>4, <1>9, <2>2 DEF WaitsFor
    <3> QED
      BY <1>2, <1>5, <2>0, <2>2, <3>1
  <2> QED
    BY <2>1, <2>2
<1>11. ASSUME NEW q \in Packages, state'[q] \notin {"Pending", "Blocked"} PROVE WaitsFor(q)' = {}
  <2>1. CASE q \in freed
    BY <1>10, <2>1
  <2>2. CASE q \notin freed
    <3>1. state[q] \notin {"Pending", "Blocked"}
      BY <1>6, <1>11, <2>2
    <3> QED
      BY <1>9, <3>1 DEF Graph
  <2> QED
    BY <2>1, <2>2
<1>12. DOMAIN remaining' = Packages
  BY <1>1 DEF left
<1> QED
  BY <1>6, <1>7, <1>8, <1>10, <1>11, <1>12

\* A worker enters its result.
LEMMA Enters ==
    ASSUME CheckConstantsOK, PoolInv, NEW w \in Checkers, Check!Finish(w)
    PROVE  PoolInv'
<1> DEFINE p == package[w]
<1>0. /\ PoolTyped /\ Graph /\ Pool /\ Tally /\ Current /\ Sound(cache)
      /\ checker[w] = "finish" /\ checker' = [checker EXCEPT ![w] = "notify"]
      /\ results' = [results EXCEPT ![p] = result[w]] /\ completed_count' = completed_count + 1
      /\ UNCHANGED <<request, kind, source, superseded, status, package, result, cache>>
  BY DEF PoolInv, Check!Finish, Check!Goto, Check!pool
<1>1. p \in Packages /\ state[p] = "Running" /\ status = "running"
  BY <1>0 DEF Pool, BusyPc
<1>2. /\ result[w] # None => Check!markSucceeded(p) /\ stop' = stop
      /\ result[w] = None => Check!markFailed(p) /\ stop' = TRUE
  BY DEF Check!Finish
<1>3. \A v \in Checkers \ {w} : checker'[v] = checker[v]
  BY <1>0 DEF PoolTyped
<1>4. checker'[w] = "notify"
  BY <1>0 DEF PoolTyped
<1> HIDE DEF p
<1>5. /\ state' \in [Packages -> Check!States]
      /\ state'[p] = IF result[w] # None THEN "Succeeded" ELSE "Failed"
      /\ \A q \in Packages \ {p} : \/ state'[q] = state[q]
                                   \/ state[q] = "Pending" /\ state'[q] = "Ready"
      /\ ready' = {q \in Packages : state'[q] = "Ready"}
      /\ DOMAIN remaining' = Packages
      /\ \A q \in Packages : remaining'[q] = Cardinality(WaitsFor(q)')
      /\ \A q \in Packages : state'[q] \notin {"Pending", "Blocked"} => WaitsFor(q)' = {}
  <2>1. CASE result[w] # None
    BY <1>0, <1>1, <1>2, <2>1, SucceededStep
  <2>2. CASE result[w] = None
    <3>1. state' = [state EXCEPT ![p] = "Failed"] /\ UNCHANGED <<remaining, ready>>
      BY <1>2, <2>2 DEF Check!markFailed
    <3>2. /\ state' \in [Packages -> Check!States] /\ state'[p] = "Failed"
          /\ \A q \in Packages \ {p} : state'[q] = state[q]
      BY <1>0, <1>1, <3>1 DEF Graph, Check!States
    <3>3. \A q \in Packages : WaitsFor(q)' = WaitsFor(q)
      BY <1>1, <3>2 DEF WaitsFor, CheckConstantsOK
    <3>4. ready' = {q \in Packages : state'[q] = "Ready"}
      BY <1>0, <1>1, <3>1, <3>2 DEF Graph
    <3> QED
      BY <1>0, <1>1, <2>2, <3>1, <3>2, <3>3, <3>4 DEF Graph
  <2> QED
    BY <2>1, <2>2
<1>6. PoolTyped'
  BY <1>0, <1>2 DEF PoolTyped, IdlePc
<1>7. Graph'
  <2>1. status' = "running" => \A q \in Packages : state'[q] # "Blocked"
    BY <1>0, <1>1, <1>5 DEF Graph
  <2>2. /\ DOMAIN results' = Packages
        /\ \A q \in Packages : results'[q] # None <=> state'[q] = "Succeeded"
    BY <1>0, <1>1, <1>5 DEF Graph
  <2> QED
    BY <1>5, <2>1, <2>2 DEF Graph
<1>8. Pool'
  <2>1. ASSUME NEW v \in Checkers, checker'[v] \in BusyPc
        PROVE  /\ v # w /\ checker[v] \in BusyPc
               /\ package'[v] \in Packages /\ state'[package'[v]] = "Running"
    <3>1. v # w /\ checker[v] \in BusyPc
      BY <1>3, <1>4, <2>1 DEF BusyPc
    <3>2. package[v] \in Packages /\ state[package[v]] = "Running" /\ package[v] # p
      BY <1>0, <3>1 DEF Pool, BusyPc, p
    <3> QED
      BY <1>0, <1>5, <3>1, <3>2
  <2>2. \A v \in Checkers : checker'[v] \notin {"none", "returned"} => status' = "running"
    BY <1>0, <1>1
  <2>3. ASSUME NEW v \in Checkers, checker'[v] \in BusyPc,
               NEW u \in Checkers, checker'[u] \in BusyPc, package'[u] = package'[v]
        PROVE  u = v
    <3>1. checker[v] \in BusyPc /\ checker[u] \in BusyPc /\ package[u] = package[v]
      BY <1>0, <2>1, <2>3
    <3> QED
      BY <1>0, <3>1 DEF Pool
  <2> QED
    BY <2>1, <2>2, <2>3 DEF Pool
<1>9. Tally'
  <2>1. p \notin Finished /\ Finished \subseteq Packages /\ Finished' = Finished \cup {p}
    BY <1>1, <1>5 DEF Finished
  <2>2. IsFiniteSet(Packages) /\ IsFiniteSet(Finished)
    BY <2>1, FS_Subset DEF CheckConstantsOK
  <2>3. Cardinality(Finished') = Cardinality(Finished) + 1
    BY <2>1, <2>2, FS_AddElement
  <2>4. completed_count # Cardinality(Packages)
    <3>1. Finished # Packages
      BY <1>1, <2>1
    <3>2. Cardinality(Packages) # Cardinality(Finished)
      BY <2>1, <2>2, <3>1, FS_Subset
    <3> QED
      BY <1>0, <3>2 DEF Tally
  <2>5. stop' <=> \E q \in Packages : state'[q] = "Failed"
    <3>1. CASE result[w] # None
      BY <1>0, <1>1, <1>2, <1>5, <3>1 DEF Tally
    <3>2. CASE result[w] = None
      BY <1>1, <1>2, <1>5, <3>2
    <3> QED
      BY <3>1, <3>2
  <2>6. ASSUME NEW v \in Checkers, checker'[v] = "returned" PROVE Check!Over'
    <3>1. checker[v] = "returned"
      BY <1>3, <1>4, <2>6
    <3>2. Check!Over
      BY <1>0, <3>1 DEF Tally
    <3>3. stop \/ superseded
      BY <2>4, <3>2, SizeOf DEF Check!Over
    <3>4. stop => stop'
      BY <1>2
    <3> QED
      BY <1>0, <3>3, <3>4 DEF Check!Over
  <2> QED
    BY <1>0, <2>3, <2>5, <2>6 DEF Tally
<1>10. Current'
  <2>1. result[w] \in {None, Check!ArtifactsOf(source)[p]}
    BY <1>0 DEF Current, p
  <2>2. Check!SessionsCurrent'
    BY <1>0, <1>1, <2>1 DEF Current, Check!SessionsCurrent, Graph
  <2> QED
    BY <1>0, <1>3, <1>4, <2>2 DEF Current
<1>11. Sound(cache)' /\ Check!StatusHonest'
  BY <1>0, <1>1 DEF Sound, Check!StatusHonest
<1> QED
  BY <1>6, <1>7, <1>8, <1>9, <1>10, <1>11 DEF PoolInv

\* The workers are gone and the request returns.
LEMMA Concludes ==
    ASSUME CheckConstantsOK, PoolInv, Check!Conclude
    PROVE  PoolInv'
<1>0. /\ PoolTyped /\ Graph /\ Pool /\ Tally /\ Current /\ Sound(cache)
      /\ status = "running" /\ \A w \in Checkers : checker[w] = "returned"
      /\ status' = IF superseded THEN "Cancelled"
                   ELSE IF stop \/ completed_count # Cardinality(Packages) THEN "Failed"
                   ELSE "Succeeded"
      /\ UNCHANGED <<request, kind, source, superseded, results, completed_count, stop, checker,
                     package, result, cache>>
  BY SizeOf DEF PoolInv, Check!Conclude, Check!shared
<1>1. UNCHANGED <<state, remaining, ready>> \/ Check!blockUnfinished
  BY DEF Check!Conclude, Check!graph
<1>2. /\ state' \in [Packages -> Check!States] /\ remaining' = remaining
      /\ \A p \in Packages : state'[p] = state[p] \/
                             (state[p] \in {"Pending", "Ready"} /\ state'[p] = "Blocked")
      /\ ready' = {p \in Packages : state'[p] = "Ready"}
  <2>1. CASE UNCHANGED <<state, remaining, ready>>
    BY <1>0, <2>1 DEF Graph
  <2>2. CASE Check!blockUnfinished
    <3>1. /\ ready' = {} /\ remaining' = remaining
          /\ state' = [p \in Packages |-> IF state[p] \in {"Pending", "Ready"} THEN "Blocked"
                                          ELSE state[p]]
      BY <2>2 DEF Check!blockUnfinished
    <3> QED
      BY <1>0, <3>1 DEF Graph, Check!States
  <2> QED
    BY <1>1, <2>1, <2>2
<1>3. PoolTyped'
  BY <1>0 DEF PoolTyped
<1>4. Graph'
  <2>1. \A p \in Packages : WaitsFor(p)' = WaitsFor(p)
    BY <1>2 DEF WaitsFor, CheckConstantsOK
  <2>2. status' # "running"
    BY <1>0
  <2>3. \A p \in Packages : results'[p] # None <=> state'[p] = "Succeeded"
    BY <1>0, <1>2 DEF Graph
  <2>4. \A p \in Packages : state'[p] \notin {"Pending", "Blocked"} => WaitsFor(p)' = {}
    BY <1>0, <1>2, <2>1 DEF Graph
  <2> QED
    BY <1>0, <1>2, <2>1, <2>2, <2>3, <2>4 DEF Graph
<1>5. Pool'
  BY <1>0 DEF Pool, BusyPc
<1>6. Tally'
  <2>1. Finished' = Finished /\ Check!Over' = Check!Over
    BY <1>0, <1>2 DEF Finished, Check!Over
  <2>2. (\E p \in Packages : state'[p] = "Failed") <=> \E p \in Packages : state[p] = "Failed"
    BY <1>2
  <2> QED
    BY <1>0, <2>1, <2>2 DEF Tally
<1>7. Current'
  BY <1>0 DEF Current, Check!SessionsCurrent
<1>8. Sound(cache)'
  BY <1>0 DEF Sound
<1>9. Check!StatusHonest'
  <2>1. ASSUME status' = "Succeeded" PROVE \A p \in Packages : state'[p] = "Succeeded"
    <3>1. ~stop /\ completed_count = Cardinality(Packages)
      BY <1>0, <2>1
    <3>2. Finished \subseteq Packages /\ IsFiniteSet(Packages)
          /\ Cardinality(Packages) = Cardinality(Finished)
      BY <1>0, <3>1 DEF Finished, Tally, CheckConstantsOK
    <3>3. Packages = Finished
      BY <3>2, FS_Subset
    <3> QED
      BY <1>0, <1>2, <3>1, <3>3 DEF Finished, Tally
  <2>2. ASSUME status' = "Failed"
        PROVE  \/ \E p \in Packages : state'[p] = "Failed"
               \/ \A w \in Checkers : checker'[w] = "none"
    <3>1. CASE stop
      BY <1>0, <1>2, <3>1 DEF Tally
    <3>2. CASE ~stop
      <4>1. ~superseded /\ ~Check!Over
        BY <1>0, <2>2, <3>2, SizeOf DEF Check!Over
      <4> QED
        BY <1>0, <4>1 DEF Tally
    <3> QED
      BY <3>1, <3>2
  <2>3. status' = "Cancelled" => superseded'
    BY <1>0
  <2> QED
    BY <2>1, <2>2, <2>3 DEF Check!StatusHonest
<1> QED
  BY <1>3, <1>4, <1>5, <1>6, <1>7, <1>8, <1>9 DEF PoolInv

\* Every step keeps the invariant of the pool.
LEMMA PoolInductive ==
    ASSUME CheckConstantsOK, PoolInv, [Check!Next]_(Check!vars)
    PROVE  PoolInv'
<1>1. CASE UNCHANGED Check!vars
  <2>0. /\ PoolTyped /\ Graph /\ Pool /\ Tally /\ Current /\ Sound(cache) /\ Check!StatusHonest
        /\ UNCHANGED <<request, kind, source, superseded, state, remaining, ready, results,
                       completed_count, stop, checker, package, result, cache, status>>
    BY <1>1 DEF PoolInv, Check!vars
  <2>1. PoolTyped' /\ Graph' /\ Pool'
    BY <2>0 DEF PoolTyped, Graph, WaitsFor, Pool
  <2>2. Tally' /\ Current'
    BY <2>0 DEF Tally, Finished, Check!Over, Current, Check!SessionsCurrent
  <2>3. Sound(cache)' /\ Check!StatusHonest'
    BY <2>0 DEF Sound, Check!StatusHonest
  <2> QED
    BY <2>1, <2>2, <2>3 DEF PoolInv
<1>2. ASSUME NEW k \in {"check", "build"}, Check!Begin(k) PROVE PoolInv'
  BY <1>2, RequestBegins
<1>3. CASE Check!Cancel
  BY <1>3, Cancels
<1>4. CASE Check!Start
  BY <1>4, Starts
<1>5. CASE Check!Conclude
  BY <1>5, Concludes
<1>6. ASSUME NEW w \in Checkers, Check!WorkerStep(w) \/ Check!SpuriousWake(w) PROVE PoolInv'
  BY <1>6, Waits, Queries, PackageCompiles, Enters DEF Check!WorkerStep
<1>7. CASE Check!Done
  BY <1>1, <1>7 DEF Check!Done
<1> QED
  BY <1>1, <1>2, <1>3, <1>4, <1>5, <1>6, <1>7 DEF Check!Next

\* The invariant of the pool holds throughout.
THEOREM PoolInvariant == ASSUME CheckConstantsOK PROVE Check!Spec => []PoolInv
<1>1. Check!Init => PoolInv
  BY PoolInitially
<1>2. PoolInv /\ [Check!Next]_(Check!vars) => PoolInv'
  BY PoolInductive
<1> QED
  BY <1>1, <1>2, PTL DEF Check!Spec

\* Whatever the packages, the workers and the order they finish in, a package is worked on
\* by one worker and only when its dependencies have their sessions (takeReadyQuery and
\* markSucceeded against the reads of results outside the mutex).
THEOREM DependenciesHold ==
    ASSUME CheckConstantsOK PROVE Check!Spec => []Check!DependenciesReady
<1>1. PoolInv => Check!DependenciesReady
  <2> SUFFICES ASSUME PoolInv PROVE Check!DependenciesReady
    OBVIOUS
  <2>1. \A w \in Checkers : checker[w] \in {"query", "compile"} =>
          \A d \in Dependencies[package[w]] : results[d] # None
    BY FromDependencies DEF BusyPc
  <2>2. \A w \in Checkers : checker[w] \in {"query", "compile"} =>
          \A v \in Checkers \ {w} : checker[v] \in {"query", "compile", "finish"}
                                      => package[v] # package[w]
    BY DEF PoolInv, Pool, BusyPc
  <2> QED
    BY <2>1, <2>2 DEF Check!DependenciesReady
<1> QED
  BY <1>1, PoolInvariant, PTL

\* Every session of a request is what the sources of its snapshot give, down through all
\* dependencies and through the cache of earlier requests, and the status says what
\* happened (executeNextCheckRequest, checkCacheKey, CompilerPackageQueryCache).
THEOREM RequestsHold ==
    ASSUME CheckConstantsOK PROVE Check!Spec => []Check!RequestSound
<1>1. PoolInv => Check!RequestSound
  <2> SUFFICES ASSUME PoolInv PROVE Check!RequestSound
    OBVIOUS
  <2>0. /\ PoolTyped /\ Graph /\ Pool /\ Tally /\ Current /\ Sound(cache) /\ Check!StatusHonest
    BY DEF PoolInv
  <2>1. completed_count \in 0 .. Check!Cardinality(Packages)
    <3>1. Finished \subseteq Packages /\ IsFiniteSet(Packages)
      BY DEF Finished, CheckConstantsOK
    <3>2. /\ Cardinality(Finished) <= Cardinality(Packages) /\ Cardinality(Finished) \in Nat
          /\ Cardinality(Packages) \in Nat
      BY <3>1, FS_Subset, FS_CardinalityType
    <3> QED
      BY <2>0, <3>2, SizeOf DEF Tally
  <2>2. \A p \in Packages : remaining[p] \in 0 .. Check!Cardinality(Dependencies[p])
    <3> SUFFICES ASSUME NEW p \in Packages
                 PROVE  remaining[p] \in 0 .. Check!Cardinality(Dependencies[p])
      OBVIOUS
    <3>1. WaitsFor(p) \subseteq Dependencies[p] /\ IsFiniteSet(Dependencies[p])
      BY FS_Subset DEF WaitsFor, CheckConstantsOK
    <3>2. /\ Cardinality(WaitsFor(p)) <= Cardinality(Dependencies[p])
          /\ Cardinality(WaitsFor(p)) \in Nat /\ Cardinality(Dependencies[p]) \in Nat
      BY <3>1, FS_Subset, FS_CardinalityType
    <3> QED
      BY <2>0, <3>2, SizeOf DEF Graph
  <2>3. Check!TypeOK
    BY <2>0, <2>1, <2>2 DEF Check!TypeOK, PoolTyped, Graph, BusyPc, IdlePc, Sound
  <2> QED
    BY <2>0, <2>3 DEF Check!RequestSound, Current
<1> QED
  BY <1>1, PoolInvariant, PTL

-----------------------------------------------------------------------------
(* The language server                                                     *)
(*                                                                         *)
(* The server with any documents, queries and edits.  The argument about   *)
(* the queries: each is in one place, and a step moves it to the next; a   *)
(* thread hands over all it has before it takes more.  About the analysis: *)
(* the one the service waits for is the newest request of its coordinator, *)
(* of the current generation, waiting or running uncancelled, so that its  *)
(* completion is accepted and answers all queries that wait.               *)

CONSTANTS Docs, Symbols, Completions, MaxGeneration, MaxRequests

VARIABLES phase, steps, path, asked, query, documents, generation, index, analysis,
          pending_queries, completion_queries, coordinator, worker, todo, registered, early,
          reply, published

Server == INSTANCE LanguageServer

Generations == 0 .. MaxGeneration

\* What the proofs assume of the constants: None is no number, no query and no record.
ServerConstantsOK ==
    /\ MaxGeneration \in Nat /\ None \notin Nat /\ None \notin Server!Queries
    /\ \A i, w : [id |-> i, work |-> w] # None
    /\ \A g, r : [generation |-> g, request |-> r] # None
    /\ \A s, i : [status |-> s, index |-> i] # None

Works == [generation : Generations, versions : [Docs -> Generations],
          query : Server!Queries \cup {None}]
Coordinators ==
    [latest_id : Nat, latest_generation : Generations,
     pending : [id : Nat, work : Works] \cup {None},
     stopping : BOOLEAN, active : BOOLEAN, cancelled : BOOLEAN]
WorkerStates == [pc : {"wait", "run", "callback", "deliver", "ended"}, id : Nat,
                 work : Works \cup {None}, index : Generations \cup {None}]
Results == [status : {"Succeeded", "Failed", "Stale", "Cancelled"},
            index : Generations \cup {None}]
HandlerSteps == {"complete", "diagnose", "cancel", "submit", "register", "clear"}
ExitSteps == {"stop completion", "join completion", "stop analysis", "join analysis"}

ServiceTyped ==
    /\ phase \in {"serving", "shutdown", "exit"}
    /\ asked \in [Server!Queries -> Generations \cup {None}]
    /\ query \in Server!Queries \cup {None}
    /\ generation \in Generations
    /\ index \in Generations \cup {None} /\ (index # None => index <= generation)
    /\ documents \in [Docs -> Generations] /\ published \in [Docs -> Generations]
    /\ analysis \in [generation : Generations, request : Nat] \cup {None}
    /\ pending_queries \subseteq Server!Queries
    /\ completion_queries \subseteq Server!Queries
    /\ completion_queries = {} \/ \E q : completion_queries = {q}
    /\ registered \subseteq Server!Queries
ThreadsTyped ==
    /\ coordinator \in [Server!Kinds -> Coordinators]
    /\ worker \in [Server!Kinds -> WorkerStates]
    /\ todo \in [Server!Threads -> SUBSET (Server!Queries \X Results)]
    /\ early \in [Server!Queries -> Results \cup {None}]
    /\ reply \in [Server!Queries -> Results \cup {None}]

\* The reader: what the rest of its handler is about.
Sections(s) == {s[i] : i \in DOMAIN s}
Reading ==
    /\ steps \in Seq(HandlerSteps \cup ExitSteps)
    /\ phase # "exit" => Sections(steps) \subseteq HandlerSteps
    /\ todo["reader"] # {} => "complete" \in Sections(steps)
    /\ "register" \in Sections(steps) => query \in Server!Queries /\ asked[query] # None

\* The coordinators and their workers: a request holds the documents of its generation.
Dated(work) ==
    /\ work \in Works /\ work.generation <= generation
    /\ work.generation = generation => work.versions = documents
Coordinating ==
    /\ \A k \in Server!Kinds : coordinator[k].pending # None =>
         /\ coordinator[k].pending.id = coordinator[k].latest_id
         /\ coordinator[k].pending.work.generation = coordinator[k].latest_generation
         /\ Dated(coordinator[k].pending.work)
    /\ \A k \in Server!Kinds : worker[k].pc \in {"run", "callback", "deliver"} =>
         Dated(worker[k].work)
    /\ \A k \in Server!Kinds : worker[k].pc = "callback" =>
         worker[k].index \in {None, worker[k].work.generation}
    /\ \A k \in Server!Kinds : todo[k] # {} => worker[k].pc = "deliver"
    /\ phase # "exit" => \A k \in Server!Kinds : ~coordinator[k].stopping

\* The analysis the service waits for.
OnTheWay ==
    LET c == coordinator["analysis"]
        w == worker["analysis"] IN
    /\ analysis.request = c.latest_id /\ c.latest_generation = generation
    /\ \/ c.pending # None
       \/ w.pc \in {"run", "callback"} /\ w.id = c.latest_id
          /\ w.work.generation = generation /\ ~c.cancelled
Awaiting ==
    /\ \A q \in pending_queries : asked[q] = generation
    /\ analysis # None => analysis.generation = generation
    /\ analysis # None /\ phase # "exit" => OnTheWay
    /\ pending_queries # {} /\ phase # "exit" => Server!At("diagnose") \/ analysis # None

\* Where a query is.
HasQuery(S, q) == \E a \in S : a[1] = q
Places(q) ==
    {x \in {"pending"} : q \in pending_queries}
      \cup {x \in {"probed"} : q \in completion_queries}
      \cup {x \in {"early"} : early[q] # None}
      \cup {x \in {"reply"} : reply[q] # None}
      \cup {t \in Server!Threads : HasQuery(todo[t], q)}
Placed ==
    \A q \in Server!Queries : /\ asked[q] = None => Places(q) = {}
                              /\ asked[q] # None => \E x : Places(q) = {x}

\* What results say: nothing of an index, or one of the generation of the query.
Answering ==
    /\ \A t \in Server!Threads : \A a \in todo[t] : a[2].index \in {None, asked[a[1]]}
    /\ \A q \in Server!Queries : early[q] # None => early[q].index \in {None, asked[q]}
    /\ \A q \in Server!Queries : reply[q] # None => reply[q].index \in {None, asked[q]}

ServerInv ==
    ServiceTyped /\ ThreadsTyped /\ Reading /\ Coordinating /\ Awaiting /\ Placed /\ Answering

-----------------------------------------------------------------------------
\* The sections of the rest of a handler.
LEMMA TailSections ==
    ASSUME NEW S, NEW s \in Seq(S), s # <<>>
    PROVE  /\ Tail(s) \in Seq(S) /\ Sections(Tail(s)) \subseteq Sections(s)
           /\ Sections(s) \subseteq {Head(s)} \cup Sections(Tail(s))
           /\ Head(s) \in Sections(s)
           /\ Len(s) = 1 => Sections(Tail(s)) = {}
<1> DEFINE t == Tail(s)
<1>1. /\ Len(s) \in Nat \ {0} /\ DOMAIN s = 1 .. Len(s)
      /\ t \in Seq(S) /\ DOMAIN t = 1 .. (Len(s) - 1)
      /\ \A i \in 1 .. (Len(s) - 1) : t[i] = s[i + 1]
      /\ s[1] = Head(s)
  <2>1. Len(s) \in Nat \ {0} /\ DOMAIN s = 1 .. Len(s)
    BY LenProperties, EmptySeq
  <2>2. t \in Seq(S) /\ Len(t) = Len(s) - 1 /\ \A i \in 1 .. Len(t) : t[i] = s[i + 1]
    BY HeadTailProperties
  <2>3. DOMAIN t = 1 .. Len(t)
    BY <2>2, LenProperties
  <2> QED
    BY <2>1, <2>2, <2>3, HeadTailProperties
<1> HIDE DEF t
<1>2. \A i \in DOMAIN t : i + 1 \in DOMAIN s /\ t[i] = s[i + 1]
  BY <1>1
<1>3. \A j \in DOMAIN s : j = 1 \/ (j - 1 \in DOMAIN t /\ t[j - 1] = s[j])
  BY <1>1
<1>4. Sections(t) \subseteq Sections(s) /\ Sections(s) \subseteq {Head(s)} \cup Sections(t)
  BY <1>1, <1>2, <1>3 DEF Sections
<1>5. 1 \in DOMAIN s
  BY <1>1
<1>6. Len(s) = 1 => DOMAIN t = {}
  BY <1>1
<1> QED
  BY <1>1, <1>4, <1>5, <1>6 DEF t, Sections

\* The sections of two lists.
LEMMA JoinedSections ==
    ASSUME NEW S, NEW s \in Seq(S), NEW t \in Seq(S)
    PROVE  s \o t \in Seq(S) /\ Sections(s \o t) = Sections(s) \cup Sections(t)
<1> DEFINE u == s \o t
<1>1. /\ u \in Seq(S) /\ Len(u) = Len(s) + Len(t)
      /\ \A i \in 1 .. Len(s) + Len(t) : u[i] = IF i <= Len(s) THEN s[i] ELSE t[i - Len(s)]
  BY ConcatProperties
<1> HIDE DEF u
<1>2. /\ Len(s) \in Nat /\ DOMAIN s = 1 .. Len(s) /\ Len(t) \in Nat /\ DOMAIN t = 1 .. Len(t)
      /\ DOMAIN u = 1 .. Len(s) + Len(t)
  BY <1>1, LenProperties
<1>3. \A i \in DOMAIN s : i \in DOMAIN u /\ u[i] = s[i]
  BY <1>1, <1>2
<1>4. \A i \in DOMAIN t : i + Len(s) \in DOMAIN u /\ u[i + Len(s)] = t[i]
  <2> SUFFICES ASSUME NEW i \in DOMAIN t PROVE i + Len(s) \in DOMAIN u /\ u[i + Len(s)] = t[i]
    OBVIOUS
  <2>1. i + Len(s) \in 1 .. Len(s) + Len(t) /\ ~(i + Len(s) <= Len(s)) /\ (i + Len(s)) - Len(s) = i
    BY <1>2
  <2> QED
    BY <1>1, <1>2, <2>1
<1>5. \A i \in DOMAIN u : (i \in DOMAIN s /\ u[i] = s[i]) \/ (i - Len(s) \in DOMAIN t /\ u[i] = t[i - Len(s)])
  BY <1>1, <1>2
<1>6. Sections(u) = Sections(s) \cup Sections(t)
  BY <1>3, <1>4, <1>5 DEF Sections
<1> QED
  BY <1>1, <1>6 DEF u

\* The sections a handler may have.
LEMMA ShortSections ==
    /\ Sections(<<>>) = {}
    /\ \A a : Sections(<<a>>) = {a}
    /\ \A a, b : Sections(<<a, b>>) = {a, b}
    /\ \A a, b, c : Sections(<<a, b, c>>) = {a, b, c}
    /\ \A a, b, c, d : Sections(<<a, b, c, d>>) = {a, b, c, d}
  BY DEF Sections

\* What the operations of a coordinator do to its record.
LEMMA CancelActiveRecord ==
    ASSUME NEW c \in Coordinators
    PROVE  /\ Server!CancelActive(c) \in Coordinators
           /\ Server!CancelActive(c).latest_id = c.latest_id
           /\ Server!CancelActive(c).latest_generation = c.latest_generation
           /\ Server!CancelActive(c).pending = c.pending
           /\ Server!CancelActive(c).stopping = c.stopping
<1> DEFINE b == c.cancelled \/ c.active
<1>1. b \in BOOLEAN
  BY DEF Coordinators
<1>2. Server!CancelActive(c) = [c EXCEPT !.cancelled = b]
  BY Zenon DEF Server!CancelActive
<1> HIDE DEF b
<1> QED
  BY <1>1, <1>2 DEF Coordinators

LEMMA SubmitRecord ==
    ASSUME NEW c \in Coordinators, NEW work \in Works
    PROVE  /\ Server!submit(c, work) \in Coordinators
           /\ Server!submit(c, work).latest_id = c.latest_id + 1
           /\ Server!submit(c, work).latest_generation = work.generation
           /\ Server!submit(c, work).pending = [id |-> c.latest_id + 1, work |-> work]
           /\ Server!submit(c, work).stopping = c.stopping
<1> DEFINE d == Server!CancelActive(c)
           p == [id |-> c.latest_id + 1, work |-> work]
<1>1. /\ d \in Coordinators /\ d.latest_id = c.latest_id /\ d.stopping = c.stopping
  BY CancelActiveRecord
<1>2. p \in [id : Nat, work : Works] /\ d.latest_id + 1 \in Nat /\ work.generation \in Generations
  BY <1>1 DEF Coordinators, Works
<1>3. Server!submit(c, work) =
        [[[d EXCEPT !.latest_id = d.latest_id + 1] EXCEPT !.latest_generation = work.generation]
            EXCEPT !.pending = p]
  BY Zenon DEF Server!submit
<1> HIDE DEF d, p
<1>4. /\ Server!submit(c, work) \in Coordinators
      /\ Server!submit(c, work).latest_id = d.latest_id + 1
      /\ Server!submit(c, work).latest_generation = work.generation
      /\ Server!submit(c, work).pending = p
      /\ Server!submit(c, work).stopping = d.stopping
  BY <1>1, <1>2, <1>3 DEF Coordinators
<1> QED
  BY <1>1, <1>4 DEF p

LEMMA CancelRecord ==
    ASSUME NEW c \in Coordinators
    PROVE  /\ Server!cancelCurrent(c) \in Coordinators
           /\ Server!cancelCurrent(c).pending = None
           /\ Server!cancelCurrent(c).stopping = c.stopping
<1> DEFINE d == Server!CancelActive(c)
<1>1. /\ d \in Coordinators /\ d.latest_id = c.latest_id /\ d.stopping = c.stopping
  BY CancelActiveRecord
<1>2. d.latest_id + 1 \in Nat
  BY <1>1 DEF Coordinators
<1>3. Server!cancelCurrent(c) = [[d EXCEPT !.pending = None] EXCEPT !.latest_id = d.latest_id + 1]
  BY Zenon DEF Server!cancelCurrent
<1> HIDE DEF d
<1> QED
  BY <1>1, <1>2, <1>3 DEF Coordinators

LEMMA StopRecord ==
    ASSUME NEW c \in Coordinators
    PROVE  /\ [Server!CancelActive(c) EXCEPT !.stopping = TRUE, !.pending = None] \in Coordinators
           /\ [Server!CancelActive(c) EXCEPT !.stopping = TRUE, !.pending = None].pending = None
<1> DEFINE d == Server!CancelActive(c)
<1>1. d \in Coordinators
  BY CancelActiveRecord
<1> HIDE DEF d
<1>2. /\ [d EXCEPT !.stopping = TRUE, !.pending = None] \in Coordinators
      /\ [d EXCEPT !.stopping = TRUE, !.pending = None].pending = None
  BY <1>1 DEF Coordinators
<1> QED
  BY <1>2 DEF d

\* The queries stay where they are.
LEMMA Unmoved ==
    ASSUME ServerInv, UNCHANGED <<asked, pending_queries, completion_queries, early, reply, todo>>
    PROVE  Placed' /\ Answering'
<1>1. Placed /\ Answering
  BY DEF ServerInv
<1>2. \A q : Places(q)' = Places(q)
  BY DEF Places, HasQuery
<1>3. Placed'
  BY <1>1, <1>2 DEF Placed
<1>4. Answering'
  BY <1>1 DEF Answering
<1> QED
  BY <1>3, <1>4

\* The reader goes on to the next section of its handler.
LEMMA ReaderLeaves ==
    ASSUME ServerInv, NEW s, Server!At(s), Server!Leave,
           \/ todo'["reader"] = {}
           \/ s # "complete" /\ todo'["reader"] = todo["reader"]
    PROVE  /\ Reading' /\ UNCHANGED <<phase, asked>> /\ query' \in {None, query}
           /\ phase # "exit" => s \in HandlerSteps
<1>0. Reading
  BY DEF ServerInv
<1>1. /\ steps # <<>> /\ Head(steps) = s /\ steps' = Tail(steps) /\ UNCHANGED <<phase, asked>>
      /\ IF Len(steps) = 1 THEN query' = None ELSE query' = query
  BY DEF Server!At, Server!Leave
<1>2. /\ steps' \in Seq(HandlerSteps \cup ExitSteps) /\ Sections(steps') \subseteq Sections(steps)
      /\ Sections(steps) \subseteq {s} \cup Sections(steps')
      /\ s \in Sections(steps)
      /\ Len(steps) = 1 => Sections(steps') = {}
  BY <1>0, <1>1, TailSections DEF Reading
<1>3. phase # "exit" => s \in HandlerSteps /\ Sections(steps') \subseteq HandlerSteps
  BY <1>0, <1>2 DEF Reading
<1>4. todo'["reader"] # {} => "complete" \in Sections(steps')
  BY <1>0, <1>2 DEF Reading
<1>5. "register" \in Sections(steps') => query' \in Server!Queries /\ asked'[query'] # None
  BY <1>0, <1>1, <1>2 DEF Reading
<1>6. Reading'
  BY <1>1, <1>2, <1>3, <1>4, <1>5 DEF Reading
<1> QED
  BY <1>1, <1>3, <1>6

\* A handler begins.
LEMMA ReaderBegins ==
    ASSUME phase' # "exit", steps' \in Seq(HandlerSteps), Sections(steps') \subseteq HandlerSteps,
           todo'["reader"] # {} => "complete" \in Sections(steps'),
           "register" \in Sections(steps') => query' \in Server!Queries /\ asked'[query'] # None
    PROVE  Reading'
<1>1. steps' \in Seq(HandlerSteps \cup ExitSteps)
  OBVIOUS
<1> QED
  BY <1>1 DEF Reading

\* Before the client has sent anything.
LEMMA ServerInitially ==
    ASSUME ServerConstantsOK, Server!Init
    PROVE  ServerInv
<1>0. 0 \in Generations /\ 0 \in Nat
  BY DEF ServerConstantsOK, Generations
<1>1. ServiceTyped
  BY <1>0 DEF Server!Init, ServiceTyped
<1>2. ThreadsTyped
  <2>1. Server!NewCoordinator \in Coordinators
    BY <1>0 DEF Server!NewCoordinator, Coordinators
  <2>2. Server!Idle \in WorkerStates
    BY <1>0 DEF Server!Idle, WorkerStates
  <2> QED
    BY <2>1, <2>2 DEF Server!Init, ThreadsTyped
<1>3. Reading
  <2>1. steps = <<>> /\ todo = [t \in Server!Threads |-> {}]
    BY DEF Server!Init
  <2> QED
    BY <2>1, ShortSections DEF Reading, Server!Threads
<1>4. Coordinating
  <2>1. \A k \in Server!Kinds : coordinator[k].pending = None /\ coordinator[k].stopping = FALSE
    BY DEF Server!Init, Server!NewCoordinator
  <2>2. \A k \in Server!Kinds : worker[k].pc = "wait" /\ todo[k] = {}
    BY DEF Server!Init, Server!Idle, Server!Threads
  <2> QED
    BY <2>1, <2>2 DEF Coordinating
<1>5. Awaiting
  BY DEF Server!Init, Awaiting
<1>6. Placed
  <2>1. \A q \in Server!Queries : Places(q) = {} /\ asked[q] = None
    BY DEF Server!Init, Places, HasQuery
  <2> QED
    BY <2>1 DEF Placed
<1>7. Answering
  BY DEF Server!Init, Answering
<1> QED
  BY <1>1, <1>2, <1>3, <1>4, <1>5, <1>6, <1>7 DEF ServerInv

-----------------------------------------------------------------------------
\* A worker is told to stop, or takes the request that waits.
LEMMA WorkerTakes ==
    ASSUME ServerConstantsOK, ServerInv, NEW k \in Server!Kinds, Server!Take(k)
    PROVE  ServerInv'
<1> DEFINE c == coordinator[k]
<1>0. /\ ServiceTyped /\ ThreadsTyped /\ Reading /\ Coordinating /\ Awaiting
      /\ worker[k].pc = "wait" /\ c \in Coordinators /\ worker[k] \in WorkerStates
      /\ UNCHANGED <<phase, steps, path, asked, query, documents, generation, index, analysis,
                     pending_queries, completion_queries, todo, registered, early, reply,
                     published>>
  BY DEF ServerInv, Server!Take, Server!reader, Server!service, Server!server, ThreadsTyped
<1>1. ServiceTyped' /\ Reading' /\ Placed' /\ Answering'
  <2>1. ServiceTyped' /\ Reading'
    BY <1>0 DEF ServiceTyped, Reading
  <2> QED
    BY <1>0, <2>1, Unmoved
<1>2. CASE c.stopping /\ worker' = [worker EXCEPT ![k].pc = "ended"] /\ coordinator' = coordinator
  <2>1. /\ worker'[k] \in WorkerStates /\ worker'[k].pc = "ended"
        /\ \A j \in Server!Kinds \ {k} : worker'[j] = worker[j]
        /\ worker' \in [Server!Kinds -> WorkerStates]
    BY <1>0, <1>2 DEF ThreadsTyped, WorkerStates
  <2>2. ThreadsTyped'
    BY <1>0, <1>2, <2>1 DEF ThreadsTyped
  <2>3. Coordinating'
    BY <1>0, <1>2, <2>1 DEF Coordinating, Dated
  <2>4. phase = "exit"
    BY <1>0, <1>2 DEF Coordinating
  <2>5. Awaiting'
    BY <1>0, <2>4 DEF Awaiting
  <2> QED
    BY <1>1, <2>2, <2>3, <2>5 DEF ServerInv
<1>3. CASE /\ ~c.stopping /\ c.pending # None
           /\ worker' = [worker EXCEPT ![k] = [pc |-> "run", id |-> c.pending.id,
                                               work |-> c.pending.work, index |-> None]]
           /\ coordinator' = [coordinator EXCEPT ![k].pending = None, ![k].active = TRUE,
                                                 ![k].cancelled = FALSE]
  <2> DEFINE w == [pc |-> "run", id |-> c.pending.id, work |-> c.pending.work, index |-> None]
             r == [[[c EXCEPT !.pending = None] EXCEPT !.active = TRUE] EXCEPT !.cancelled = FALSE]
  <2>1. c.pending \in [id : Nat, work : Works]
    BY <1>0, <1>3 DEF Coordinators
  <2>2. w \in WorkerStates /\ w.pc = "run" /\ w.id = c.pending.id /\ w.work = c.pending.work
    BY <2>1 DEF WorkerStates
  <2>3. /\ r \in Coordinators /\ r.pending = None /\ r.cancelled = FALSE
        /\ r.latest_id = c.latest_id /\ r.latest_generation = c.latest_generation
        /\ r.stopping = c.stopping
    BY <1>0 DEF Coordinators
  <2>4. coordinator' = [coordinator EXCEPT ![k] = r]
    BY <1>0, <1>3 DEF ThreadsTyped
  <2>5. worker' = [worker EXCEPT ![k] = w]
    BY <1>3
  <2> HIDE DEF w, r
  <2>6. /\ worker' \in [Server!Kinds -> WorkerStates] /\ worker'[k] = w
        /\ \A j \in Server!Kinds \ {k} : worker'[j] = worker[j]
        /\ coordinator' \in [Server!Kinds -> Coordinators] /\ coordinator'[k] = r
        /\ \A j \in Server!Kinds \ {k} : coordinator'[j] = coordinator[j]
    BY <1>0, <2>2, <2>3, <2>4, <2>5 DEF ThreadsTyped
  <2>7. ThreadsTyped'
    BY <1>0, <2>6 DEF ThreadsTyped
  <2>8. Dated(c.pending.work) /\ c.pending.id = c.latest_id
        /\ c.pending.work.generation = c.latest_generation
    BY <1>0, <1>3 DEF Coordinating
  <2>9. Coordinating'
    BY <1>0, <2>2, <2>3, <2>6, <2>8 DEF Coordinating, Dated
  <2>10. ASSUME analysis # None, phase # "exit" PROVE OnTheWay'
    <3>1. OnTheWay
      BY <1>0, <2>10 DEF Awaiting
    <3>2. CASE k = "analysis"
      BY <1>0, <2>2, <2>3, <2>6, <2>8, <3>1, <3>2 DEF OnTheWay
    <3>3. CASE k # "analysis"
      BY <1>0, <2>6, <3>1, <3>3 DEF OnTheWay, Server!Kinds
    <3> QED
      BY <3>2, <3>3
  <2>11. Awaiting'
    BY <1>0, <2>10 DEF Awaiting, Server!At
  <2> QED
    BY <1>1, <2>7, <2>9, <2>11 DEF ServerInv
<1> QED
  BY <1>2, <1>3 DEF Server!Take

\* The request has been executed; only the newest goes on to its completion.
LEMMA WorkerRuns ==
    ASSUME ServerConstantsOK, ServerInv, NEW k \in Server!Kinds, Server!Run(k)
    PROVE  ServerInv'
<1> DEFINE c == coordinator[k]
<1>0. /\ ServiceTyped /\ ThreadsTyped /\ Reading /\ Coordinating /\ Awaiting
      /\ worker[k].pc = "run" /\ c \in Coordinators /\ worker[k] \in WorkerStates
      /\ UNCHANGED <<phase, steps, path, asked, query, documents, generation, index, analysis,
                     pending_queries, completion_queries, todo, registered, early, reply,
                     published>>
  BY DEF ServerInv, Server!Run, Server!reader, Server!service, Server!server, ThreadsTyped
<1>1. ServiceTyped' /\ Reading' /\ Placed' /\ Answering'
  <2>1. ServiceTyped' /\ Reading'
    BY <1>0 DEF ServiceTyped, Reading
  <2> QED
    BY <1>0, <2>1, Unmoved
<1>2. PICK i \in {None, worker[k].work.generation} :
        worker' = [worker EXCEPT ![k] =
                      IF Server!Publishes(k) THEN [@ EXCEPT !.pc = "callback", !.index = i]
                      ELSE Server!Idle]
  BY DEF Server!Run
<1>3. Dated(worker[k].work) /\ i \in Generations \cup {None}
  BY <1>0, <1>2 DEF Coordinating, Dated, Works
<1> DEFINE r == [[c EXCEPT !.active = FALSE] EXCEPT !.cancelled = FALSE]
           going == [[worker[k] EXCEPT !.pc = "callback"] EXCEPT !.index = i]
           w == IF Server!Publishes(k) THEN going ELSE Server!Idle
<1>4. /\ r \in Coordinators /\ r.pending = c.pending /\ r.cancelled = FALSE
      /\ r.latest_id = c.latest_id /\ r.latest_generation = c.latest_generation
      /\ r.stopping = c.stopping
  BY <1>0 DEF Coordinators
<1>5. /\ going \in WorkerStates /\ going.pc = "callback" /\ going.index = i
      /\ going.id = worker[k].id /\ going.work = worker[k].work
  BY <1>0, <1>3 DEF WorkerStates
<1>6. Server!Idle \in WorkerStates /\ Server!Idle.pc = "wait"
  BY DEF Server!Idle, WorkerStates
<1>7. coordinator' = [coordinator EXCEPT ![k] = r]
  BY <1>0 DEF Server!Run, ThreadsTyped
<1>8. worker' = [worker EXCEPT ![k] = w]
  BY <1>2, Zenon
<1> HIDE DEF r, going
<1>9. /\ worker' \in [Server!Kinds -> WorkerStates]
      /\ worker'[k] = IF Server!Publishes(k) THEN going ELSE Server!Idle
      /\ \A j \in Server!Kinds \ {k} : worker'[j] = worker[j]
      /\ coordinator' \in [Server!Kinds -> Coordinators] /\ coordinator'[k] = r
      /\ \A j \in Server!Kinds \ {k} : coordinator'[j] = coordinator[j]
  BY <1>0, <1>4, <1>5, <1>6, <1>7, <1>8 DEF ThreadsTyped
<1> HIDE DEF w
<1>10. ThreadsTyped'
  BY <1>0, <1>9 DEF ThreadsTyped
<1>11. Coordinating'
  <2>1. \A j \in Server!Kinds : coordinator'[j].pending = coordinator[j].pending
          /\ coordinator'[j].latest_id = coordinator[j].latest_id
          /\ coordinator'[j].latest_generation = coordinator[j].latest_generation
          /\ coordinator'[j].stopping = coordinator[j].stopping
    BY <1>4, <1>9
  <2>2. \A work : Dated(work)' = Dated(work)
    BY <1>0 DEF Dated
  <2>3. \A j \in Server!Kinds : worker'[j].pc \in {"run", "callback", "deliver"} =>
          Dated(worker'[j].work)
    BY <1>0, <1>3, <1>5, <1>6, <1>9 DEF Coordinating
  <2>4. \A j \in Server!Kinds : worker'[j].pc = "callback" =>
          worker'[j].index \in {None, worker'[j].work.generation}
    BY <1>0, <1>2, <1>5, <1>6, <1>9 DEF Coordinating
  <2>5. \A j \in Server!Kinds : todo'[j] # {} => worker'[j].pc = "deliver"
    BY <1>0, <1>9 DEF Coordinating
  <2> QED
    BY <1>0, <2>1, <2>2, <2>3, <2>4, <2>5 DEF Coordinating
<1>12. ASSUME analysis # None, phase # "exit" PROVE OnTheWay'
  <2>1. OnTheWay
    BY <1>0, <1>12 DEF Awaiting
  <2>2. CASE k = "analysis"
    <3>1. CASE c.pending # None
      BY <1>0, <1>4, <1>9, <2>1, <2>2, <3>1 DEF OnTheWay
    <3>2. CASE c.pending = None
      <4>1. /\ worker[k].id = c.latest_id /\ worker[k].work.generation = generation
            /\ ~c.cancelled /\ c.latest_generation = generation
        BY <2>1, <2>2, <3>2 DEF OnTheWay
      <4>2. ~c.stopping
        BY <1>0, <1>12 DEF Coordinating
      <4>3. Server!Publishes(k)
        BY <4>1, <4>2 DEF Server!Publishes
      <4>4. worker'[k] = going
        BY <1>9, <4>3
      <4> QED
        BY <1>0, <1>4, <1>5, <1>9, <2>1, <2>2, <4>1, <4>4 DEF OnTheWay
    <3> QED
      BY <3>1, <3>2
  <2>3. CASE k # "analysis"
    BY <1>0, <1>9, <2>1, <2>3 DEF OnTheWay, Server!Kinds
  <2> QED
    BY <2>2, <2>3
<1>13. Awaiting'
  BY <1>0, <1>12 DEF Awaiting, Server!At
<1> QED
  BY <1>1, <1>10, <1>11, <1>13 DEF ServerInv

\* A thread hands over what it has to complete: each query goes from it to the client, or
\* to the early results.
LEMMA QueriesCompleted ==
    ASSUME ServerConstantsOK, ServerInv, NEW t \in Server!Threads, Server!completeQuery(t),
           UNCHANGED <<asked, pending_queries, completion_queries>>
    PROVE  /\ registered' \subseteq Server!Queries
           /\ early' \in [Server!Queries -> Results \cup {None}]
           /\ reply' \in [Server!Queries -> Results \cup {None}]
           /\ todo' \in [Server!Threads -> SUBSET (Server!Queries \X Results)]
           /\ todo'[t] = {} /\ \A u \in Server!Threads \ {t} : todo'[u] = todo[u]
           /\ Placed' /\ Answering'
<1> DEFINE given == {a[1] : a \in todo[t]}
           ResultOf(q) == (CHOOSE a \in todo[t] : a[1] = q)[2]
<1>0. ServiceTyped /\ ThreadsTyped /\ Placed /\ Answering
  BY DEF ServerInv
<1>1. /\ reply' = [q \in Server!Queries |-> IF q \in given \cap registered THEN ResultOf(q)
                                            ELSE reply[q]]
      /\ early' = [q \in Server!Queries |-> IF q \in given \ registered THEN ResultOf(q)
                                            ELSE early[q]]
      /\ registered' = registered \ given
      /\ todo' = [todo EXCEPT ![t] = {}]
  BY DEF Server!completeQuery
<1>2. \A q : q \in given <=> HasQuery(todo[t], q)
  BY DEF HasQuery
<1>3. ASSUME NEW q \in Server!Queries, q \in given
      PROVE  ResultOf(q) \in Results /\ ResultOf(q).index \in {None, asked[q]}
  <2> DEFINE a == CHOOSE b \in todo[t] : b[1] = q
  <2>1. \E b \in todo[t] : b[1] = q
    BY <1>3
  <2>2. a \in todo[t] /\ a[1] = q
    BY <2>1
  <2>3. ResultOf(q) = a[2]
    OBVIOUS
  <2> HIDE DEF a
  <2>4. a \in Server!Queries \X Results
    BY <1>0, <2>2 DEF ThreadsTyped
  <2> QED
    BY <1>0, <2>2, <2>3, <2>4 DEF Answering
<1>4. \A q : q \in given => ResultOf(q) # None \/ q \notin Server!Queries
  BY <1>3 DEF Results, ServerConstantsOK
<1> HIDE DEF ResultOf, given
<1>5. /\ todo' \in [Server!Threads -> SUBSET (Server!Queries \X Results)]
      /\ todo'[t] = {} /\ \A u \in Server!Threads \ {t} : todo'[u] = todo[u]
  BY <1>0, <1>1 DEF ThreadsTyped
<1>6. /\ early' \in [Server!Queries -> Results \cup {None}]
      /\ reply' \in [Server!Queries -> Results \cup {None}]
      /\ registered' \subseteq Server!Queries
  BY <1>0, <1>1, <1>3 DEF ThreadsTyped, ServiceTyped
<1>7. ASSUME NEW q \in Server!Queries
      PROVE  /\ asked[q] = None => Places(q)' = {}
             /\ asked[q] # None => \E x : Places(q)' = {x}
  <2>0. /\ asked[q] = None => Places(q) = {}
        /\ asked[q] # None => \E x : Places(q) = {x}
    BY <1>0 DEF Placed
  <2>1. t \notin {"pending", "probed", "early", "reply"}
    BY DEF Server!Threads, Server!Kinds
  <2>2. \A u \in Server!Threads : HasQuery(todo'[u], q) <=> u # t /\ HasQuery(todo[u], q)
    BY <1>5 DEF HasQuery
  <2>3. CASE q \notin given
    <3>1. early'[q] = early[q] /\ reply'[q] = reply[q] /\ ~HasQuery(todo[t], q)
      BY <1>1, <1>2, <2>3
    <3>2. Places(q)' = Places(q)
      BY <2>2, <3>1 DEF Places
    <3> QED
      BY <2>0, <3>2
  <2>4. CASE q \in given
    <3>1. HasQuery(todo[t], q)
      BY <1>2, <2>4
    <3>2. t \in Places(q)
      BY <3>1 DEF Places
    <3>3. asked[q] # None /\ Places(q) = {t}
      BY <2>0, <3>2
    <3>4. /\ q \notin pending_queries /\ q \notin completion_queries
          /\ early[q] = None /\ reply[q] = None
          /\ \A u \in Server!Threads : HasQuery(todo[u], q) => u = t
      BY <2>1, <3>3 DEF Places
    <3>5. CASE q \in registered
      <4>1. reply'[q] # None /\ early'[q] = None
        BY <1>1, <1>4, <2>4, <3>4, <3>5
      <4>2. Places(q)' = {"reply"}
        BY <2>2, <3>4, <4>1 DEF Places
      <4> QED
        BY <3>3, <4>2
    <3>6. CASE q \notin registered
      <4>1. early'[q] # None /\ reply'[q] = None
        BY <1>1, <1>4, <2>4, <3>4, <3>6
      <4>2. Places(q)' = {"early"}
        BY <2>2, <3>4, <4>1 DEF Places
      <4> QED
        BY <3>3, <4>2
    <3> QED
      BY <3>5, <3>6
  <2> QED
    BY <2>3, <2>4
<1>8. Placed'
  BY <1>7 DEF Placed
<1>9. Answering'
  <2>1. \A u \in Server!Threads : \A a \in todo'[u] : a[2].index \in {None, asked[a[1]]}
    BY <1>0, <1>5 DEF Answering
  <2>2. \A q \in Server!Queries : early'[q] # None => early'[q].index \in {None, asked[q]}
    BY <1>0, <1>1, <1>3 DEF Answering
  <2>3. \A q \in Server!Queries : reply'[q] # None => reply'[q].index \in {None, asked[q]}
    BY <1>0, <1>1, <1>3 DEF Answering
  <2> QED
    BY <2>1, <2>2, <2>3 DEF Answering
<1> QED
  BY <1>5, <1>6, <1>8, <1>9

\* The queries in a set of pairs with one result.
LEMMA PairsOf ==
    ASSUME NEW M, NEW r, NEW T, \A a : a \in T <=> \E p \in M : a = <<p, r>>
    PROVE  \A q : HasQuery(T, q) <=> q \in M
<1> SUFFICES ASSUME NEW q PROVE HasQuery(T, q) <=> q \in M
  OBVIOUS
<1>1. ASSUME q \in M PROVE HasQuery(T, q)
  <2>1. <<q, r>> \in T /\ <<q, r>>[1] = q
    BY <1>1
  <2> QED
    BY <2>1, Zenon DEF HasQuery
<1>2. ASSUME HasQuery(T, q) PROVE q \in M
  BY <1>2 DEF HasQuery
<1> QED
  BY <1>1, <1>2

\* A step that gives a thread the queries of T leaves q where it is, or moves it: from the
\* client or from where it waits to where it waits now, or to the thread.
Moved(T, q) ==
    \/ /\ asked'[q] = asked[q] /\ ~HasQuery(T, q)
       /\ q \in pending_queries' <=> q \in pending_queries
       /\ q \in completion_queries' <=> q \in completion_queries
    \/ /\ asked'[q] # None
       /\ asked[q] = None \/ q \in pending_queries \/ q \in completion_queries
       /\ \/ q \in pending_queries' /\ q \notin completion_queries' /\ ~HasQuery(T, q)
          \/ q \notin pending_queries' /\ q \in completion_queries' /\ ~HasQuery(T, q)
          \/ q \notin pending_queries' /\ q \notin completion_queries' /\ HasQuery(T, q)

\* A thread with empty hands takes queries that wait, or a query that was just asked.
LEMMA HandedOver ==
    ASSUME ServerConstantsOK, ServerInv, NEW t \in Server!Threads, todo[t] = {},
           NEW T, T \subseteq Server!Queries \X Results, todo' = [todo EXCEPT ![t] = T],
           UNCHANGED <<early, reply>>,
           \A q \in Server!Queries : asked[q] # None => asked'[q] = asked[q],
           \A q \in Server!Queries : Moved(T, q),
           \A a \in T : a[2].index \in {None, asked'[a[1]]}
    PROVE  /\ todo' \in [Server!Threads -> SUBSET (Server!Queries \X Results)]
           /\ todo'[t] = T /\ \A u \in Server!Threads \ {t} : todo'[u] = todo[u]
           /\ Placed' /\ Answering'
<1>0. ServiceTyped /\ ThreadsTyped /\ Placed /\ Answering
  BY DEF ServerInv
<1>1. /\ todo' \in [Server!Threads -> SUBSET (Server!Queries \X Results)]
      /\ todo'[t] = T /\ \A u \in Server!Threads \ {t} : todo'[u] = todo[u]
  BY <1>0 DEF ThreadsTyped
<1>2. \A u \in Server!Threads : u \notin {"pending", "probed", "early", "reply"}
  BY DEF Server!Threads, Server!Kinds
<1>3. ASSUME NEW q \in Server!Queries
      PROVE  /\ asked'[q] = None => Places(q)' = {}
             /\ asked'[q] # None => \E x : Places(q)' = {x}
  <2>0. /\ asked[q] = None => Places(q) = {}
        /\ asked[q] # None => \E x : Places(q) = {x}
    BY <1>0 DEF Placed
  <2>1. \A u \in Server!Threads :
          HasQuery(todo'[u], q) <=> (u = t /\ HasQuery(T, q)) \/ (u # t /\ HasQuery(todo[u], q))
    BY <1>1
  <2>2. ~HasQuery(todo[t], q)
    BY DEF HasQuery
  <2>3. CASE /\ asked'[q] = asked[q] /\ ~HasQuery(T, q)
             /\ q \in pending_queries' <=> q \in pending_queries
             /\ q \in completion_queries' <=> q \in completion_queries
    <3>1. Places(q)' = Places(q)
      BY <2>1, <2>2, <2>3 DEF Places
    <3> QED
      BY <2>0, <2>3, <3>1
  <2>4. CASE /\ asked'[q] # None
             /\ asked[q] = None \/ q \in pending_queries \/ q \in completion_queries
             /\ \/ q \in pending_queries' /\ q \notin completion_queries' /\ ~HasQuery(T, q)
                \/ q \notin pending_queries' /\ q \in completion_queries' /\ ~HasQuery(T, q)
                \/ q \notin pending_queries' /\ q \notin completion_queries' /\ HasQuery(T, q)
    <3>1. Places(q) \subseteq {"pending"} \/ Places(q) \subseteq {"probed"}
      <4>1. CASE asked[q] = None
        BY <2>0, <4>1
      <4>2. CASE asked[q] # None
        <5>1. "pending" \in Places(q) \/ "probed" \in Places(q)
          BY <2>4, <4>2 DEF Places
        <5> QED
          BY <2>0, <4>2, <5>1
      <4> QED
        BY <4>1, <4>2
    <3>2. /\ early[q] = None /\ reply[q] = None
          /\ \A u \in Server!Threads : ~HasQuery(todo[u], q)
      BY <1>2, <3>1 DEF Places
    <3>3. \A u \in Server!Threads : HasQuery(todo'[u], q) <=> u = t /\ HasQuery(T, q)
      BY <2>1, <3>2
    <3>4. CASE q \in pending_queries' /\ q \notin completion_queries' /\ ~HasQuery(T, q)
      <4>1. Places(q)' = {"pending"}
        BY <3>2, <3>3, <3>4 DEF Places
      <4> QED
        BY <2>4, <4>1
    <3>5. CASE q \notin pending_queries' /\ q \in completion_queries' /\ ~HasQuery(T, q)
      <4>1. Places(q)' = {"probed"}
        BY <3>2, <3>3, <3>5 DEF Places
      <4> QED
        BY <2>4, <4>1
    <3>6. CASE q \notin pending_queries' /\ q \notin completion_queries' /\ HasQuery(T, q)
      <4>1. Places(q)' = {t}
        BY <3>2, <3>3, <3>6 DEF Places
      <4> QED
        BY <2>4, <4>1
    <3> QED
      BY <2>4, <3>4, <3>5, <3>6
  <2> QED
    BY <2>3, <2>4 DEF Moved
<1>4. Placed'
  BY <1>3 DEF Placed
<1>5. ASSUME NEW q \in Server!Queries,
             early[q] # None \/ reply[q] # None \/ \E u \in Server!Threads : HasQuery(todo[u], q)
      PROVE  asked'[q] = asked[q]
  <2>1. Places(q) # {}
    BY <1>5 DEF Places
  <2> QED
    BY <1>0, <2>1 DEF Placed
<1>6. \A u \in Server!Threads : \A a \in todo'[u] : a[2].index \in {None, asked'[a[1]]}
  <2> SUFFICES ASSUME NEW u \in Server!Threads, NEW a \in todo'[u]
               PROVE  a[2].index \in {None, asked'[a[1]]}
    OBVIOUS
  <2>1. CASE u = t
    BY <1>1, <2>1
  <2>2. CASE u # t
    <3>1. a \in todo[u] /\ a \in Server!Queries \X Results
      BY <1>0, <1>1, <2>2 DEF ThreadsTyped
    <3>2. a[1] \in Server!Queries /\ HasQuery(todo[u], a[1])
      BY <3>1 DEF HasQuery
    <3>3. asked'[a[1]] = asked[a[1]]
      BY <1>5, <3>2
    <3> QED
      BY <1>0, <3>1, <3>3 DEF Answering
  <2> QED
    BY <2>1, <2>2
<1>7. Answering'
  BY <1>0, <1>5, <1>6 DEF Answering
<1> QED
  BY <1>1, <1>4, <1>7

\* A worker is done and waits for its next request.
LEMMA WorkerIdle ==
    ASSUME ServerConstantsOK, ServerInv, NEW k \in Server!Kinds,
           worker' = [worker EXCEPT ![k] = Server!Idle]
    PROVE  /\ worker' \in [Server!Kinds -> WorkerStates] /\ worker'[k].pc = "wait"
           /\ \A j \in Server!Kinds \ {k} : worker'[j] = worker[j]
<1>1. Server!Idle \in WorkerStates /\ Server!Idle.pc = "wait"
  BY DEF Server!Idle, WorkerStates
<1>2. worker \in [Server!Kinds -> WorkerStates]
  BY DEF ServerInv, ThreadsTyped
<1> QED
  BY <1>1, <1>2

\* A worker hands over its answers.
LEMMA WorkerDelivers ==
    ASSUME ServerConstantsOK, ServerInv, NEW k \in Server!Kinds, Server!Deliver(k)
    PROVE  ServerInv'
<1>0. /\ ServiceTyped /\ ThreadsTyped /\ Reading /\ Coordinating /\ Awaiting
      /\ worker[k].pc = "deliver" /\ Server!completeQuery(k)
      /\ worker' = [worker EXCEPT ![k] = Server!Idle]
      /\ UNCHANGED <<phase, steps, path, asked, query, documents, generation, index, analysis,
                     pending_queries, completion_queries, coordinator>>
  BY DEF ServerInv, Server!Deliver, Server!reader, Server!service
<1>1. k \in Server!Threads /\ k # "reader" /\ "reader" \in Server!Threads
  BY DEF Server!Threads, Server!Kinds
<1>2. /\ registered' \subseteq Server!Queries
      /\ early' \in [Server!Queries -> Results \cup {None}]
      /\ reply' \in [Server!Queries -> Results \cup {None}]
      /\ todo' \in [Server!Threads -> SUBSET (Server!Queries \X Results)]
      /\ todo'[k] = {} /\ \A u \in Server!Threads \ {k} : todo'[u] = todo[u]
      /\ Placed' /\ Answering'
  BY <1>0, <1>1, QueriesCompleted
<1>3. /\ worker' \in [Server!Kinds -> WorkerStates] /\ worker'[k].pc = "wait"
      /\ \A j \in Server!Kinds \ {k} : worker'[j] = worker[j]
  BY <1>0, WorkerIdle
<1>4. published' \in [Docs -> Generations]
  <2>1. worker[k].work \in Works
    BY <1>0 DEF Coordinating, Dated
  <2>2. worker[k].work.versions \in [Docs -> Generations]
    BY <2>1 DEF Works
  <2>3. published' = [d \in Docs |-> IF k = "analysis" /\ worker[k].work.versions[d] # 0
                                     THEN worker[k].work.versions[d] ELSE published[d]]
    BY DEF Server!Deliver
  <2> QED
    BY <1>0, <2>2, <2>3 DEF ServiceTyped
<1>5. ServiceTyped'
  BY <1>0, <1>2, <1>4 DEF ServiceTyped
<1>6. ThreadsTyped'
  BY <1>0, <1>2, <1>3 DEF ThreadsTyped
<1>7. Reading'
  BY <1>0, <1>1, <1>2 DEF Reading
<1>8. Coordinating'
  <2>1. \A j \in Server!Kinds : j \in Server!Threads
    BY DEF Server!Threads
  <2> QED
    BY <1>0, <1>2, <1>3, <2>1 DEF Coordinating, Dated
<1>9. Awaiting'
  BY <1>0, <1>3 DEF Awaiting, OnTheWay, Server!At, Server!Kinds
<1> QED
  BY <1>2, <1>5, <1>6, <1>7, <1>8, <1>9 DEF ServerInv

\* The analysis is accepted and answers all queries that wait, or is dropped.
LEMMA AnalysisReturns ==
    ASSUME ServerConstantsOK, ServerInv, Server!AnalysisCallback
    PROVE  ServerInv'
<1> DEFINE w == worker["analysis"]
           mine == {q \in pending_queries : asked[q] = w.work.generation}
           res == Server!Result(IF w.index # None THEN "Succeeded" ELSE "Failed", w.index)
           T == {<<q, res>> : q \in mine}
<1>0. /\ ServiceTyped /\ ThreadsTyped /\ Reading /\ Coordinating /\ Awaiting
      /\ w.pc = "callback"
      /\ UNCHANGED <<phase, steps, path, asked, query, coordinator, registered, early, reply,
                     published>>
  BY DEF ServerInv, Server!AnalysisCallback, Server!reader, Server!server
<1>1. /\ "analysis" \in Server!Kinds /\ "analysis" \in Server!Threads /\ "reader" \in Server!Threads
      /\ Server!Kinds \subseteq Server!Threads
  BY DEF Server!Kinds, Server!Threads
<1>2. todo["analysis"] = {} /\ Dated(w.work) /\ w.index \in {None, w.work.generation}
  BY <1>0, <1>1 DEF Coordinating
<1>3. CASE /\ ~Server!Awaited(w) /\ worker' = [worker EXCEPT !["analysis"] = Server!Idle]
           /\ UNCHANGED <<Server!service, todo>>
  <2>1. UNCHANGED <<documents, generation, index, analysis, pending_queries, completion_queries, todo>>
    BY <1>3 DEF Server!service
  <2>2. /\ worker' \in [Server!Kinds -> WorkerStates] /\ worker'["analysis"].pc = "wait"
        /\ \A j \in Server!Kinds \ {"analysis"} : worker'[j] = worker[j]
    BY <1>1, <1>3, WorkerIdle
  <2>3. Placed' /\ Answering'
    BY <1>0, <2>1, Unmoved
  <2>4. ServiceTyped' /\ ThreadsTyped' /\ Reading'
    BY <1>0, <2>1, <2>2 DEF ServiceTyped, ThreadsTyped, Reading
  <2>5. Coordinating'
    BY <1>0, <1>2, <2>1, <2>2 DEF Coordinating, Dated
  <2>6. ASSUME analysis # None, phase # "exit" PROVE OnTheWay'
    <3>1. OnTheWay /\ analysis \in [generation : Generations, request : Nat]
      BY <1>0, <2>6 DEF Awaiting, ServiceTyped
    <3>2. CASE coordinator["analysis"].pending # None
      BY <1>0, <2>1, <3>1, <3>2 DEF OnTheWay
    <3>3. CASE coordinator["analysis"].pending = None
      <4>1. w.id = analysis.request /\ w.work.generation = generation
        BY <3>1, <3>3 DEF OnTheWay
      <4>2. Server!Awaited(w)
        BY <1>2, <2>6, <4>1 DEF Server!Awaited, Dated
      <4> QED
        BY <1>3, <4>2
    <3> QED
      BY <3>2, <3>3
  <2>7. Awaiting'
    BY <1>0, <2>1, <2>6 DEF Awaiting, Server!At
  <2> QED
    BY <2>3, <2>4, <2>5, <2>7 DEF ServerInv
<1>4. CASE /\ Server!Awaited(w) /\ analysis' = None
           /\ index' = IF w.index # None THEN w.index ELSE index
           /\ pending_queries' = pending_queries \ mine
           /\ todo' = [todo EXCEPT !["analysis"] = T]
           /\ worker' = [worker EXCEPT !["analysis"].pc = "deliver"]
           /\ UNCHANGED <<documents, generation, completion_queries>>
  <2>1. /\ worker' \in [Server!Kinds -> WorkerStates] /\ worker'["analysis"].pc = "deliver"
        /\ worker'["analysis"].work = w.work
        /\ \A j \in Server!Kinds \ {"analysis"} : worker'[j] = worker[j]
    BY <1>0, <1>1, <1>4 DEF ThreadsTyped, WorkerStates
  <2>2. w.work.generation = generation
    BY <1>4 DEF Server!Awaited
  <2>3. res \in Results /\ res.index = w.index
    BY <1>2 DEF Server!Result, Results, Dated, Works
  <2> HIDE DEF res
  <2>4. \A q \in pending_queries : asked[q] = generation /\ q \in Server!Queries
    BY <1>0 DEF Awaiting, ServiceTyped
  <2>5. mine = pending_queries /\ pending_queries' = {}
    BY <1>4, <2>2, <2>4
  <2>6. \A q : HasQuery(T, q) <=> q \in pending_queries
    <3> HIDE DEF mine
    <3>1. \A a : a \in T <=> \E p \in mine : a = <<p, res>>
      OBVIOUS
    <3> HIDE DEF T
    <3>2. \A q : HasQuery(T, q) <=> q \in mine
      BY <3>1, PairsOf
    <3> QED
      BY <2>5, <3>2
  <2>7. T \subseteq Server!Queries \X Results /\ \A a \in T : a[2].index \in {None, asked'[a[1]]}
    BY <1>0, <1>2, <2>2, <2>3, <2>4, <2>5
  <2> HIDE DEF T, mine
  <2>8. \A q \in Server!Queries : q \in pending_queries => asked[q] # None /\ q \notin completion_queries
    <3> SUFFICES ASSUME NEW q \in Server!Queries, q \in pending_queries
                 PROVE  asked[q] # None /\ q \notin completion_queries
      OBVIOUS
    <3>1. "pending" \in Places(q) /\ (q \in completion_queries => "probed" \in Places(q))
      BY DEF Places
    <3> QED
      BY <3>1 DEF ServerInv, Placed
  <2>9. \A q \in Server!Queries : Moved(T, q)
    BY <1>0, <1>4, <2>5, <2>6, <2>8 DEF Moved
  <2>10. /\ todo' \in [Server!Threads -> SUBSET (Server!Queries \X Results)]
         /\ todo'["analysis"] = T /\ \A u \in Server!Threads \ {"analysis"} : todo'[u] = todo[u]
         /\ Placed' /\ Answering'
    BY <1>0, <1>1, <1>2, <1>4, <2>7, <2>9, HandedOver
  <2>11. ServiceTyped'
    <3>1. index' \in Generations \cup {None} /\ (index' # None => index' <= generation)
      BY <1>0, <1>2, <1>4 DEF ServiceTyped, Dated, Works
    <3> QED
      BY <1>0, <1>4, <2>5, <3>1 DEF ServiceTyped
  <2>12. ThreadsTyped'
    BY <1>0, <2>1, <2>10 DEF ThreadsTyped
  <2>13. Reading'
    BY <1>0, <1>1, <2>10 DEF Reading
  <2>14. Coordinating'
    BY <1>0, <1>1, <1>2, <1>4, <2>1, <2>10 DEF Coordinating, Dated
  <2>15. Awaiting'
    BY <1>4, <2>5 DEF Awaiting
  <2> QED
    BY <2>10, <2>11, <2>12, <2>13, <2>14, <2>15 DEF ServerInv
<1> QED
  BY <1>3, <1>4 DEF Server!AnalysisCallback

\* A completion probe answers its query if that still waits.
LEMMA ProbeReturns ==
    ASSUME ServerConstantsOK, ServerInv, Server!CompletionCallback
    PROVE  ServerInv'
<1> DEFINE w == worker["completion"]
           q0 == w.work.query
           res == IF w.work.generation # asked[q0] THEN Server!Result("Stale", None)
                  ELSE Server!Result(IF w.index # None THEN "Succeeded" ELSE "Failed", w.index)
           T == {<<q0, res>>}
<1>0. /\ ServiceTyped /\ ThreadsTyped /\ Reading /\ Coordinating /\ Awaiting
      /\ w.pc = "callback"
      /\ UNCHANGED <<phase, steps, path, asked, query, documents, generation, index, analysis,
                     pending_queries, coordinator, registered, early, reply, published>>
  BY DEF ServerInv, Server!CompletionCallback, Server!reader, Server!server
<1>1. /\ "completion" \in Server!Kinds /\ "completion" \in Server!Threads
      /\ "reader" \in Server!Threads /\ Server!Kinds \subseteq Server!Threads
      /\ "analysis" \in Server!Kinds
  BY DEF Server!Kinds, Server!Threads
<1>2. todo["completion"] = {} /\ Dated(w.work) /\ w.index \in {None, w.work.generation}
  BY <1>0, <1>1 DEF Coordinating
<1>3. CASE /\ q0 \notin completion_queries
           /\ worker' = [worker EXCEPT !["completion"] = Server!Idle]
           /\ UNCHANGED <<completion_queries, todo>>
  <2>2. /\ worker' \in [Server!Kinds -> WorkerStates] /\ worker'["completion"].pc = "wait"
        /\ \A j \in Server!Kinds \ {"completion"} : worker'[j] = worker[j]
    BY <1>1, <1>3, WorkerIdle
  <2>3. Placed' /\ Answering'
    BY <1>0, <1>3, Unmoved
  <2>4. ServiceTyped' /\ ThreadsTyped' /\ Reading'
    BY <1>0, <1>3, <2>2 DEF ServiceTyped, ThreadsTyped, Reading
  <2>5. Coordinating'
    BY <1>0, <1>2, <1>3, <2>2 DEF Coordinating, Dated
  <2>6. Awaiting'
    BY <1>0, <1>1, <2>2 DEF Awaiting, OnTheWay, Server!At
  <2> QED
    BY <2>3, <2>4, <2>5, <2>6 DEF ServerInv
<1>4. CASE /\ q0 \in completion_queries /\ completion_queries' = completion_queries \ {q0}
           /\ todo' = [todo EXCEPT !["completion"] = T]
           /\ worker' = [worker EXCEPT !["completion"].pc = "deliver"]
  <2>1. /\ worker' \in [Server!Kinds -> WorkerStates] /\ worker'["completion"].pc = "deliver"
        /\ worker'["completion"].work = w.work
        /\ \A j \in Server!Kinds \ {"completion"} : worker'[j] = worker[j]
    BY <1>0, <1>1, <1>4 DEF ThreadsTyped, WorkerStates
  <2>2. q0 \in Server!Queries
    BY <1>0, <1>4 DEF ServiceTyped
  <2>3. res \in Results /\ res.index \in {None, asked[q0]}
    BY <1>2 DEF Server!Result, Results, Dated, Works
  <2> HIDE DEF res
  <2>4. \A q : HasQuery(T, q) <=> q = q0
    BY DEF HasQuery
  <2>5. T \subseteq Server!Queries \X Results /\ \A a \in T : a[2].index \in {None, asked'[a[1]]}
    BY <1>0, <2>2, <2>3
  <2>6. asked[q0] # None /\ q0 \notin pending_queries
    <3>1. "probed" \in Places(q0) /\ (q0 \in pending_queries => "pending" \in Places(q0))
      BY <1>4 DEF Places
    <3> QED
      BY <2>2, <3>1 DEF ServerInv, Placed
  <2> HIDE DEF T
  <2>7. \A q \in Server!Queries : Moved(T, q)
    BY <1>0, <1>4, <2>4, <2>6 DEF Moved
  <2>8. /\ todo' \in [Server!Threads -> SUBSET (Server!Queries \X Results)]
        /\ todo'["completion"] = T
        /\ \A u \in Server!Threads \ {"completion"} : todo'[u] = todo[u]
        /\ Placed' /\ Answering'
    BY <1>0, <1>1, <1>2, <1>4, <2>5, <2>7, HandedOver
  <2>9. ServiceTyped'
    <3>1. completion_queries' = {} \/ \E q : completion_queries' = {q}
      BY <1>0, <1>4 DEF ServiceTyped
    <3> QED
      BY <1>0, <1>4, <3>1 DEF ServiceTyped
  <2>10. ThreadsTyped'
    BY <1>0, <2>1, <2>8 DEF ThreadsTyped
  <2>11. Reading'
    BY <1>0, <1>1, <2>8 DEF Reading
  <2>12. Coordinating'
    BY <1>0, <1>1, <1>2, <1>4, <2>1, <2>8 DEF Coordinating, Dated
  <2>13. Awaiting'
    BY <1>0, <1>1, <2>1 DEF Awaiting, OnTheWay, Server!At
  <2> QED
    BY <2>8, <2>9, <2>10, <2>11, <2>12, <2>13 DEF ServerInv
<1> QED
  BY <1>3, <1>4 DEF Server!CompletionCallback

-----------------------------------------------------------------------------
\* Between two handlers the reader has nothing in its hands.
LEMMA HandsEmpty ==
    ASSUME ServerInv, steps = <<>>
    PROVE  todo["reader"] = {}
  BY ShortSections DEF ServerInv, Reading

\* The section that completes what a handler took, if it took anything.
LEMMA CompletingSections ==
    /\ Server!Completing \in Seq(HandlerSteps) /\ Sections(Server!Completing) \subseteq {"complete"}
    /\ todo'["reader"] # {} => "complete" \in Sections(Server!Completing)
<1>1. CASE todo'["reader"] = {}
  BY <1>1, ShortSections DEF Server!Completing
<1>2. CASE todo'["reader"] # {}
  <2>1. <<"complete">> \in Seq(HandlerSteps)
    BY DEF HandlerSteps
  <2>2. Server!Completing = <<"complete">>
    BY <1>2 DEF Server!Completing
  <2> QED
    BY <2>1, <2>2, ShortSections
<1> QED
  BY <1>1, <1>2

\* A handler that completes what it took, if anything, and goes on to s.
LEMMA HandlerCompletes ==
    ASSUME phase' # "exit", NEW s \in HandlerSteps \ {"register"},
           steps' = Server!Completing \o <<s>>
    PROVE  Reading'
<1> DEFINE c == Server!Completing
           e == <<s>>
<1>1. /\ c \in Seq(HandlerSteps) /\ Sections(c) \subseteq {"complete"}
      /\ todo'["reader"] # {} => "complete" \in Sections(c)
  BY CompletingSections
<1>2. e \in Seq(HandlerSteps) /\ Sections(e) = {s} /\ steps' = c \o e
  BY ShortSections
<1> HIDE DEF c, e
<1>3. c \o e \in Seq(HandlerSteps) /\ Sections(c \o e) = Sections(c) \cup Sections(e)
  BY <1>1, <1>2, JoinedSections
<1>4. steps' \in Seq(HandlerSteps) /\ Sections(steps') = Sections(c) \cup {s}
  BY <1>2, <1>3
<1>5. /\ Sections(steps') \subseteq HandlerSteps /\ "register" \notin Sections(steps')
      /\ todo'["reader"] # {} => "complete" \in Sections(steps')
  BY <1>1, <1>4 DEF HandlerSteps
<1> QED
  BY <1>4, <1>5, ReaderBegins

\* The queries the reader takes with one result, which says nothing of an index.
LEMMA ReaderTakes ==
    ASSUME ServerConstantsOK, ServerInv, steps = <<>>, NEW M, M \subseteq Server!Queries,
           NEW outcome \in {"Stale", "Cancelled"},
           todo' = [todo EXCEPT !["reader"] = {<<q, Server!Result(outcome, None)>> : q \in M}],
           UNCHANGED <<early, reply, asked>>,
           M \subseteq pending_queries \cup completion_queries,
           pending_queries' = pending_queries \ M,
           completion_queries' = completion_queries \ M
    PROVE  /\ todo' \in [Server!Threads -> SUBSET (Server!Queries \X Results)]
           /\ \A u \in Server!Threads \ {"reader"} : todo'[u] = todo[u]
           /\ Placed' /\ Answering'
<1> DEFINE r == Server!Result(outcome, None)
           T == {<<q, r>> : q \in M}
<1>1. r \in Results /\ r.index = None
  BY DEF Server!Result, Results
<1> HIDE DEF r
<1>2. \A q : HasQuery(T, q) <=> q \in M
  <2>1. \A a : a \in T <=> \E p \in M : a = <<p, r>>
    OBVIOUS
  <2> HIDE DEF T
  <2> QED
    BY <2>1, PairsOf
<1>3. T \subseteq Server!Queries \X Results /\ \A a \in T : a[2].index = None
  BY <1>1
<1>4. todo' = [todo EXCEPT !["reader"] = T]
  BY DEF r
<1> HIDE DEF T
<1>5. \A q \in M : asked[q] # None
  <2> SUFFICES ASSUME NEW q \in M PROVE asked[q] # None
    OBVIOUS
  <2>1. Places(q) # {}
    BY DEF Places
  <2> QED
    BY <2>1 DEF ServerInv, Placed
<1>6. \A q \in Server!Queries : Moved(T, q)
  BY <1>2, <1>5 DEF Moved
<1>7. todo["reader"] = {} /\ "reader" \in Server!Threads
  BY HandsEmpty DEF Server!Threads
<1> QED
  BY <1>3, <1>4, <1>6, <1>7, HandedOver

\* Both coordinators cancel what waits and what runs.
LEMMA CancelBoth ==
    ASSUME ServerInv, coordinator' = [k \in Server!Kinds |-> Server!cancelCurrent(coordinator[k])]
    PROVE  /\ coordinator' \in [Server!Kinds -> Coordinators]
           /\ \A k \in Server!Kinds : coordinator'[k].pending = None
                                      /\ coordinator'[k].stopping = coordinator[k].stopping
<1>1. \A k \in Server!Kinds : coordinator[k] \in Coordinators
  BY DEF ServerInv, ThreadsTyped
<1>2. \A k \in Server!Kinds : /\ Server!cancelCurrent(coordinator[k]) \in Coordinators
                              /\ Server!cancelCurrent(coordinator[k]).pending = None
                              /\ Server!cancelCurrent(coordinator[k]).stopping = coordinator[k].stopping
  BY <1>1, CancelRecord
<1> QED
  BY <1>2

\* An edit or a close: everything that waits is taken as stale.
LEMMA Edited ==
    ASSUME ServerConstantsOK, ServerInv, Server!Handles, NEW d \in Docs,
           NEW version \in {0, generation + 1}, Server!apply(d, version)
    PROVE  /\ ServiceTyped' /\ ThreadsTyped' /\ Coordinating' /\ Awaiting' /\ Placed' /\ Answering'
           /\ phase' # "exit"
<1> DEFINE M == pending_queries \cup completion_queries
<1>0. /\ ServiceTyped /\ ThreadsTyped /\ Reading /\ Coordinating /\ Awaiting
      /\ phase = "serving" /\ steps = <<>>
      /\ generation < MaxGeneration /\ generation' = generation + 1
      /\ documents' = [documents EXCEPT ![d] = version]
      /\ analysis' = None /\ pending_queries' = {} /\ completion_queries' = {}
      /\ todo' = [todo EXCEPT !["reader"] = {<<q, Server!Result("Stale", None)>> : q \in M}]
      /\ coordinator' = [k \in Server!Kinds |-> Server!cancelCurrent(coordinator[k])]
      /\ UNCHANGED <<phase, asked, query, index, worker, registered, early, reply, published>>
  BY DEF ServerInv, Server!apply, Server!Handles, Server!server
<1>1. generation \in Nat /\ generation' \in Generations /\ version \in Generations
  BY <1>0 DEF ServiceTyped, Generations, ServerConstantsOK
<1>2. ServiceTyped'
  <2>1. index' # None => index' <= generation'
    BY <1>0, <1>1 DEF ServiceTyped, Generations
  <2> QED
    BY <1>0, <1>1, <2>1 DEF ServiceTyped
<1>3. /\ todo' \in [Server!Threads -> SUBSET (Server!Queries \X Results)]
      /\ \A u \in Server!Threads \ {"reader"} : todo'[u] = todo[u]
      /\ Placed' /\ Answering'
  <2>1. M \subseteq Server!Queries
    BY <1>0 DEF ServiceTyped
  <2>2. pending_queries' = pending_queries \ M /\ completion_queries' = completion_queries \ M
    BY <1>0
  <2> HIDE DEF M
  <2>3. M \subseteq pending_queries \cup completion_queries
    BY DEF M
  <2> QED
    BY <1>0, <2>1, <2>2, <2>3, ReaderTakes
<1>4. /\ coordinator' \in [Server!Kinds -> Coordinators]
      /\ \A k \in Server!Kinds : coordinator'[k].pending = None
                                 /\ coordinator'[k].stopping = coordinator[k].stopping
  BY <1>0, CancelBoth
<1>5. ThreadsTyped'
  BY <1>0, <1>3, <1>4 DEF ThreadsTyped
<1>6. Coordinating'
  <2>1. \A work : Dated(work) => Dated(work)'
    <3> SUFFICES ASSUME NEW work, Dated(work) PROVE Dated(work)'
      OBVIOUS
    <3>1. work.generation \in Nat /\ work.generation < generation'
      BY <1>0, <1>1 DEF Dated, Works, Generations
    <3> QED
      BY <1>1, <3>1 DEF Dated, Generations
  <2>2. \A k \in Server!Kinds : todo'[k] = todo[k]
    BY <1>3 DEF Server!Threads, Server!Kinds
  <2> QED
    BY <1>0, <1>4, <2>1, <2>2 DEF Coordinating
<1>7. Awaiting'
  BY <1>0 DEF Awaiting
<1> QED
  BY <1>0, <1>2, <1>3, <1>5, <1>6, <1>7

\* didOpen, didChange and didClose.
LEMMA DocumentEdited ==
    ASSUME ServerConstantsOK, ServerInv, NEW d \in Docs,
           Server!didOpen(d) \/ Server!didChange(d) \/ Server!didClose(d)
    PROVE  ServerInv'
<1>1. CASE Server!didOpen(d) \/ Server!didChange(d)
  <2>1. /\ Server!Handles /\ Server!apply(d, generation + 1)
        /\ steps' = Server!Completing \o <<"diagnose">>
    BY <1>1 DEF Server!didOpen, Server!didChange
  <2>2. /\ ServiceTyped' /\ ThreadsTyped' /\ Coordinating' /\ Awaiting' /\ Placed' /\ Answering'
        /\ phase' # "exit"
    BY <2>1, Edited
  <2>3. Reading'
    BY <2>1, <2>2, HandlerCompletes DEF HandlerSteps
  <2> QED
    BY <2>2, <2>3 DEF ServerInv
<1>2. CASE Server!didClose(d)
  <2>1. /\ Server!Handles /\ Server!apply(d, 0)
        /\ steps' = Server!Completing \o <<"clear">>
    BY <1>2 DEF Server!didClose
  <2>2. /\ ServiceTyped' /\ ThreadsTyped' /\ Coordinating' /\ Awaiting' /\ Placed' /\ Answering'
        /\ phase' # "exit"
    BY <2>1, Edited
  <2>3. Reading'
    BY <2>1, <2>2, HandlerCompletes DEF HandlerSteps
  <2> QED
    BY <2>2, <2>3 DEF ServerInv
<1> QED
  BY <1>1, <1>2

\* The reader does nothing to the coordinators or to the documents.
LEMMA CoordinatorsKept ==
    ASSUME ServerInv, UNCHANGED <<phase, coordinator, worker, generation, documents>>,
           \A u \in Server!Threads \ {"reader"} : todo'[u] = todo[u]
    PROVE  Coordinating'
<1>1. \A work : Dated(work)' = Dated(work)
  BY DEF Dated
<1>2. \A k \in Server!Kinds : todo'[k] = todo[k]
  BY DEF Server!Threads, Server!Kinds
<1>3. Coordinating
  BY DEF ServerInv
<1> QED
  BY <1>1, <1>2, <1>3 DEF Coordinating

\* A query that was not asked is nowhere.
LEMMA FreshQuery ==
    ASSUME ServerInv, NEW q \in Server!Queries, asked[q] = None
    PROVE  q \notin pending_queries /\ q \notin completion_queries
<1>1. Places(q) = {}
  BY DEF ServerInv, Placed
<1> QED
  BY <1>1 DEF Places

\* A query about symbols is answered from the index, or waits.
LEMMA QueryEnqueued ==
    ASSUME ServerConstantsOK, ServerInv, NEW q \in Symbols, Server!enqueue(q)
    PROVE  ServerInv'
<1>0. /\ ServiceTyped /\ ThreadsTyped /\ Reading /\ Coordinating /\ Awaiting
      /\ phase = "serving" /\ steps = <<>> /\ asked[q] = None
      /\ asked' = [asked EXCEPT ![q] = generation] /\ query' = q
      /\ UNCHANGED <<phase, path, documents, generation, index, analysis, completion_queries,
                     coordinator, worker, registered, early, reply, published>>
  BY DEF ServerInv, Server!enqueue, Server!Handles, Server!server
<1>1. /\ q \in Server!Queries /\ q \notin pending_queries /\ q \notin completion_queries
      /\ todo["reader"] = {} /\ "reader" \in Server!Threads
  BY <1>0, FreshQuery, HandsEmpty DEF Server!Queries, Server!Threads
<1>2. /\ asked' \in [Server!Queries -> Generations \cup {None}]
      /\ asked'[q] = generation /\ generation # None
      /\ \A p \in Server!Queries : p # q => asked'[p] = asked[p]
  BY <1>0, <1>1 DEF ServiceTyped, ServerConstantsOK, Generations
<1>3. CASE /\ index = generation
           /\ todo' = [todo EXCEPT !["reader"] = {<<q, Server!Result("Succeeded", index)>>}]
           /\ steps' = <<"complete", "register">> /\ UNCHANGED pending_queries
  <2> DEFINE r == Server!Result("Succeeded", index)
             T == {<<q, r>>}
  <2>1. r \in Results /\ r.index = generation
    BY <1>0, <1>3 DEF Server!Result, Results, ServiceTyped
  <2>2. todo' = [todo EXCEPT !["reader"] = T]
    BY <1>3
  <2> HIDE DEF r
  <2>3. /\ T \subseteq Server!Queries \X Results /\ \A a \in T : a[2].index \in {None, asked'[a[1]]}
        /\ \A p : HasQuery(T, p) <=> p = q
    BY <1>1, <1>2, <2>1 DEF HasQuery
  <2> HIDE DEF T
  <2>4. /\ todo' \in [Server!Threads -> SUBSET (Server!Queries \X Results)]
        /\ todo'["reader"] = T
        /\ \A u \in Server!Threads \ {"reader"} : todo'[u] = todo[u]
        /\ Placed' /\ Answering'
    <3>1. \A p \in Server!Queries : Moved(T, p)
      BY <1>0, <1>1, <1>2, <1>3, <2>3 DEF Moved
    <3>2. \A p \in Server!Queries : asked[p] # None => asked'[p] = asked[p]
      BY <1>0, <1>2
    <3> QED
      BY <1>0, <1>1, <2>2, <2>3, <3>1, <3>2, HandedOver
  <2>5. ServiceTyped'
    BY <1>0, <1>1, <1>2, <1>3 DEF ServiceTyped
  <2>6. ThreadsTyped'
    BY <1>0, <2>4 DEF ThreadsTyped
  <2>7. Reading'
    <3>1. steps' \in Seq(HandlerSteps) /\ Sections(steps') = {"complete", "register"}
      BY <1>3, ShortSections DEF HandlerSteps
    <3> QED
      BY <1>0, <1>1, <1>2, <3>1, ReaderBegins DEF HandlerSteps
  <2>8. Coordinating'
    BY <1>0, <2>4, CoordinatorsKept
  <2>9. Awaiting'
    <3>1. analysis # None => OnTheWay'
      BY <1>0 DEF Awaiting, OnTheWay
    <3>2. pending_queries # {} => analysis # None
      BY <1>0 DEF Awaiting, Server!At
    <3>3. \A p \in pending_queries : asked'[p] = generation
      BY <1>0, <1>1, <1>2 DEF Awaiting, ServiceTyped
    <3> QED
      BY <1>0, <1>3, <3>1, <3>2, <3>3 DEF Awaiting
  <2> QED
    BY <2>4, <2>5, <2>6, <2>7, <2>8, <2>9 DEF ServerInv
<1>4. CASE /\ pending_queries' = pending_queries \cup {q}
           /\ steps' = <<"diagnose", "register">> /\ UNCHANGED todo
  <2>2. todo' = [todo EXCEPT !["reader"] = {}]
    BY <1>0, <1>1, <1>4 DEF ThreadsTyped
  <2>4. /\ todo' \in [Server!Threads -> SUBSET (Server!Queries \X Results)]
        /\ todo'["reader"] = {}
        /\ \A u \in Server!Threads \ {"reader"} : todo'[u] = todo[u]
        /\ Placed' /\ Answering'
    <3>0. \A p : ~HasQuery({}, p)
      BY DEF HasQuery
    <3>1. \A p \in Server!Queries : Moved({}, p)
      BY <1>0, <1>1, <1>2, <1>4, <3>0 DEF Moved
    <3>2. \A p \in Server!Queries : asked[p] # None => asked'[p] = asked[p]
      BY <1>0, <1>2
    <3>3. {} \subseteq Server!Queries \X Results /\ \A a \in {} : a[2].index \in {None, asked'[a[1]]}
      OBVIOUS
    <3> QED
      BY <1>0, <1>1, <2>2, <3>1, <3>2, <3>3, HandedOver
  <2>5. ServiceTyped'
    BY <1>0, <1>1, <1>2, <1>4 DEF ServiceTyped
  <2>6. ThreadsTyped'
    BY <1>0, <2>4 DEF ThreadsTyped
  <2>7. Reading'
    <3>1. steps' \in Seq(HandlerSteps) /\ Sections(steps') = {"diagnose", "register"}
      BY <1>4, ShortSections DEF HandlerSteps
    <3> QED
      BY <1>0, <1>1, <1>2, <2>4, <3>1, ReaderBegins DEF HandlerSteps
  <2>8. Coordinating'
    BY <1>0, <2>4, CoordinatorsKept
  <2>9. Awaiting'
    <3>1. analysis # None => OnTheWay'
      BY <1>0 DEF Awaiting, OnTheWay
    <3>2. Server!At("diagnose")'
      BY <1>4 DEF Server!At
    <3>3. \A p \in pending_queries' : asked'[p] = generation
      BY <1>0, <1>1, <1>2, <1>4 DEF Awaiting, ServiceTyped
    <3> QED
      BY <1>0, <3>1, <3>2, <3>3 DEF Awaiting
  <2> QED
    BY <2>4, <2>5, <2>6, <2>7, <2>8, <2>9 DEF ServerInv
<1> QED
  BY <1>3, <1>4 DEF Server!enqueue

\* A completion query: the one before is cancelled, and this one has a probe or an answer.
LEMMA CompletionRequested ==
    ASSUME ServerConstantsOK, ServerInv, NEW q \in Completions, Server!requestCompletion(q)
    PROVE  ServerInv'
<1> DEFINE r == Server!Result("Cancelled", None)
           s == Server!Result("Succeeded", None)
           S == {<<p, r>> : p \in completion_queries}
<1>0. /\ ServiceTyped /\ ThreadsTyped /\ Reading /\ Coordinating /\ Awaiting
      /\ phase = "serving" /\ steps = <<>> /\ asked[q] = None
      /\ asked' = [asked EXCEPT ![q] = generation] /\ query' = q
      /\ UNCHANGED <<phase, path, documents, generation, index, analysis, pending_queries,
                     coordinator, worker, registered, early, reply, published>>
  BY DEF ServerInv, Server!requestCompletion, Server!Handles, Server!server
<1>1. /\ q \in Server!Queries /\ q \notin pending_queries /\ q \notin completion_queries
      /\ todo["reader"] = {} /\ "reader" \in Server!Threads
  BY <1>0, FreshQuery, HandsEmpty DEF Server!Queries, Server!Threads
<1>2. /\ asked' \in [Server!Queries -> Generations \cup {None}]
      /\ asked'[q] = generation /\ generation # None
      /\ \A p \in Server!Queries : p # q => asked'[p] = asked[p]
      /\ \A p \in Server!Queries : asked[p] # None => asked'[p] = asked[p]
  BY <1>0, <1>1 DEF ServiceTyped, ServerConstantsOK, Generations
<1>3. r \in Results /\ s \in Results /\ r.index = None /\ s.index = None
  BY DEF Server!Result, Results
<1> HIDE DEF r, s
<1>4. \A p : HasQuery(S, p) <=> p \in completion_queries
  <2>1. \A a : a \in S <=> \E p \in completion_queries : a = <<p, r>>
    OBVIOUS
  <2> HIDE DEF S
  <2> QED
    BY <2>1, PairsOf
<1>5. S \subseteq Server!Queries \X Results /\ \A a \in S : a[2].index = None
  BY <1>0, <1>3 DEF ServiceTyped
<1> HIDE DEF S
<1>6. \A p \in completion_queries : asked[p] # None /\ p \notin pending_queries /\ p \in Server!Queries
  <2> SUFFICES ASSUME NEW p \in completion_queries
               PROVE  asked[p] # None /\ p \notin pending_queries /\ p \in Server!Queries
    OBVIOUS
  <2>0. p \in Server!Queries
    BY <1>0 DEF ServiceTyped
  <2>1. "probed" \in Places(p) /\ (p \in pending_queries => "pending" \in Places(p))
    BY DEF Places
  <2> QED
    BY <2>0, <2>1 DEF ServerInv, Placed
<1>7. Awaiting'
  <2>1. analysis # None => OnTheWay'
    BY <1>0 DEF Awaiting, OnTheWay
  <2>2. pending_queries # {} => analysis # None
    BY <1>0 DEF Awaiting, Server!At
  <2>3. \A p \in pending_queries : asked'[p] = generation
    BY <1>0, <1>1, <1>2 DEF Awaiting, ServiceTyped
  <2> QED
    BY <1>0, <2>1, <2>2, <2>3 DEF Awaiting
<1>8. CASE /\ completion_queries' = {q} /\ todo' = [todo EXCEPT !["reader"] = S]
           /\ steps' = <<"cancel", "submit">> \o Server!Completing \o <<"register">>
  <2>1. /\ todo' \in [Server!Threads -> SUBSET (Server!Queries \X Results)]
        /\ todo'["reader"] = S
        /\ \A u \in Server!Threads \ {"reader"} : todo'[u] = todo[u]
        /\ Placed' /\ Answering'
    <3>1. \A p \in Server!Queries : Moved(S, p)
      BY <1>0, <1>1, <1>2, <1>4, <1>6, <1>8 DEF Moved
    <3>2. \A a \in S : a[2].index \in {None, asked'[a[1]]}
      BY <1>5
    <3> QED
      BY <1>0, <1>1, <1>2, <1>5, <1>8, <3>1, <3>2, HandedOver
  <2>2. ServiceTyped'
    BY <1>0, <1>1, <1>2, <1>8 DEF ServiceTyped
  <2>3. ThreadsTyped'
    BY <1>0, <2>1 DEF ThreadsTyped
  <2>4. Reading'
    <3> DEFINE b == <<"cancel", "submit">>
               c == Server!Completing
               e == <<"register">>
    <3>1. /\ c \in Seq(HandlerSteps) /\ Sections(c) \subseteq {"complete"}
          /\ todo'["reader"] # {} => "complete" \in Sections(c)
      BY CompletingSections
    <3>2. /\ b \in Seq(HandlerSteps) /\ Sections(b) = {"cancel", "submit"}
          /\ e \in Seq(HandlerSteps) /\ Sections(e) = {"register"} /\ steps' = (b \o c) \o e
      BY <1>8, ShortSections DEF HandlerSteps
    <3> HIDE DEF b, c, e
    <3> DEFINE d == b \o c
    <3>3. d \in Seq(HandlerSteps) /\ Sections(d) = Sections(b) \cup Sections(c) /\ steps' = d \o e
      BY <3>1, <3>2, JoinedSections
    <3> HIDE DEF d
    <3>4. d \o e \in Seq(HandlerSteps) /\ Sections(d \o e) = Sections(d) \cup Sections(e)
      BY <3>2, <3>3, JoinedSections
    <3>5. /\ steps' \in Seq(HandlerSteps) /\ Sections(steps') \subseteq HandlerSteps
          /\ todo'["reader"] # {} => "complete" \in Sections(steps')
      BY <3>1, <3>2, <3>3, <3>4 DEF HandlerSteps
    <3> QED
      BY <1>0, <1>1, <1>2, <3>5, ReaderBegins
  <2>5. Coordinating'
    BY <1>0, <2>1, CoordinatorsKept
  <2> QED
    BY <1>7, <2>1, <2>2, <2>3, <2>4, <2>5 DEF ServerInv
<1>9. CASE /\ completion_queries' = {} /\ todo' = [todo EXCEPT !["reader"] = S \cup {<<q, s>>}]
           /\ steps' = <<"cancel", "complete", "register">>
  <2> DEFINE T == S \cup {<<q, s>>}
  <2>0. /\ \A p : HasQuery(T, p) <=> p = q \/ p \in completion_queries
        /\ T \subseteq Server!Queries \X Results
        /\ \A a \in T : a[2].index = None
    <3>1. (\A a : a \in T <=> a \in S \/ a = <<q, s>>) /\ <<q, s>>[1] = q /\ <<q, s>>[2] = s
      OBVIOUS
    <3>2. <<q, s>> \in Server!Queries \X Results
      BY <1>1, <1>3
    <3> DEFINE e == <<q, s>>
    <3> HIDE DEF T, e
    <3>3. (\A a : a \in T <=> a \in S \/ a = e) /\ e[1] = q /\ e[2] = s
      BY <3>1 DEF e
    <3>4. \A p : HasQuery(T, p) <=> HasQuery(S, p) \/ p = q
      BY <3>3, Zenon DEF HasQuery
    <3>5. T \subseteq Server!Queries \X Results
      BY <1>5, <3>2, <3>3, Zenon DEF e
    <3>6. \A a \in T : a[2].index = None
      BY <1>3, <1>5, <3>3
    <3> QED
      BY <1>4, <3>4, <3>5, <3>6
  <2> HIDE DEF T
  <2>1. /\ todo' \in [Server!Threads -> SUBSET (Server!Queries \X Results)]
        /\ \A u \in Server!Threads \ {"reader"} : todo'[u] = todo[u]
        /\ Placed' /\ Answering'
    <3>1. \A p \in Server!Queries : Moved(T, p)
      BY <1>0, <1>1, <1>2, <1>6, <1>9, <2>0 DEF Moved
    <3>2. \A a \in T : a[2].index \in {None, asked'[a[1]]}
      BY <2>0
    <3>3. todo' = [todo EXCEPT !["reader"] = T]
      BY <1>9 DEF T
    <3> QED
      BY <1>0, <1>1, <1>2, <2>0, <3>1, <3>2, <3>3, HandedOver
  <2>2. ServiceTyped'
    BY <1>0, <1>1, <1>2, <1>9 DEF ServiceTyped
  <2>3. ThreadsTyped'
    BY <1>0, <2>1 DEF ThreadsTyped
  <2>4. Reading'
    <3>1. steps' \in Seq(HandlerSteps) /\ Sections(steps') = {"cancel", "complete", "register"}
      BY <1>9, ShortSections DEF HandlerSteps
    <3> QED
      BY <1>0, <1>1, <1>2, <3>1, ReaderBegins DEF HandlerSteps
  <2>5. Coordinating'
    BY <1>0, <2>1, CoordinatorsKept
  <2> QED
    BY <1>7, <2>1, <2>2, <2>3, <2>4, <2>5 DEF ServerInv
<1>10. \/ /\ completion_queries' = {q} /\ todo' = [todo EXCEPT !["reader"] = S]
          /\ steps' = <<"cancel", "submit">> \o Server!Completing \o <<"register">>
       \/ /\ completion_queries' = {} /\ todo' = [todo EXCEPT !["reader"] = S \cup {<<q, s>>}]
          /\ steps' = <<"cancel", "complete", "register">>
  BY Zenon DEF Server!requestCompletion, S, r, s
<1> QED
  BY <1>8, <1>9, <1>10

\* The client cancels a query that waits.
LEMMA QueryCancelled ==
    ASSUME ServerConstantsOK, ServerInv, NEW q \in Server!Queries, Server!cancelRequest(q)
    PROVE  ServerInv'
<1>0. /\ ServiceTyped /\ ThreadsTyped /\ Reading /\ Coordinating /\ Awaiting
      /\ phase = "serving" /\ steps = <<>> /\ q \in pending_queries \cup completion_queries
      /\ pending_queries' = pending_queries \ {q}
      /\ completion_queries' = completion_queries \ {q}
      /\ todo' = [todo EXCEPT !["reader"] = {<<q, Server!Result("Cancelled", None)>>}]
      /\ steps' = <<"complete">>
      /\ \/ coordinator' = coordinator
         \/ coordinator' = [coordinator EXCEPT !["completion"] =
                              Server!cancelCurrent(coordinator["completion"])]
      /\ UNCHANGED <<phase, path, asked, query, documents, generation, index, analysis, worker,
                     registered, early, reply, published>>
  BY DEF ServerInv, Server!cancelRequest, Server!Handles, Server!server
<1>1. /\ todo' \in [Server!Threads -> SUBSET (Server!Queries \X Results)]
      /\ \A u \in Server!Threads \ {"reader"} : todo'[u] = todo[u]
      /\ Placed' /\ Answering'
  <2> DEFINE r == Server!Result("Cancelled", None)
  <2>1. {<<q, r>>} = {<<p, r>> : p \in {q}}
    OBVIOUS
  <2>2. todo' = [todo EXCEPT !["reader"] = {<<p, r>> : p \in {q}}]
    BY <1>0, <2>1, Zenon
  <2>3. {q} \subseteq Server!Queries /\ {q} \subseteq pending_queries \cup completion_queries
    BY <1>0
  <2> QED
    BY <1>0, <2>2, <2>3, ReaderTakes
<1>2. /\ coordinator' \in [Server!Kinds -> Coordinators]
      /\ coordinator'["analysis"] = coordinator["analysis"]
      /\ coordinator' = coordinator \/ coordinator'["completion"].pending = None
      /\ \A k \in Server!Kinds : coordinator'[k].stopping = coordinator[k].stopping
  <2>1. coordinator["completion"] \in Coordinators
    BY <1>0 DEF ThreadsTyped, Server!Kinds
  <2>2. /\ Server!cancelCurrent(coordinator["completion"]) \in Coordinators
        /\ Server!cancelCurrent(coordinator["completion"]).pending = None
        /\ Server!cancelCurrent(coordinator["completion"]).stopping
             = coordinator["completion"].stopping
    BY <2>1, CancelRecord
  <2> QED
    BY <1>0, <2>2 DEF ThreadsTyped, Server!Kinds
<1>3. ServiceTyped'
  <2>1. completion_queries' = {} \/ \E p : completion_queries' = {p}
    BY <1>0 DEF ServiceTyped
  <2> QED
    BY <1>0, <2>1 DEF ServiceTyped
<1>4. ThreadsTyped'
  BY <1>0, <1>1, <1>2 DEF ThreadsTyped
<1>5. Reading'
  <2>1. steps' \in Seq(HandlerSteps) /\ Sections(steps') = {"complete"}
    BY <1>0, ShortSections DEF HandlerSteps
  <2> QED
    BY <1>0, <2>1, ReaderBegins DEF HandlerSteps
<1>6. Coordinating'
  <2>1. \A work : Dated(work)' = Dated(work)
    BY <1>0 DEF Dated
  <2>2. \A k \in Server!Kinds : todo'[k] = todo[k]
    BY <1>1 DEF Server!Threads, Server!Kinds
  <2>3. \A k \in Server!Kinds : coordinator'[k] = coordinator[k] \/ coordinator'[k].pending = None
    BY <1>2 DEF Server!Kinds
  <2> QED
    BY <1>0, <1>2, <2>1, <2>2, <2>3 DEF Coordinating
<1>7. Awaiting'
  <2>1. analysis # None => OnTheWay'
    BY <1>0, <1>2 DEF Awaiting, OnTheWay
  <2>2. pending_queries # {} => analysis # None
    BY <1>0 DEF Awaiting, Server!At
  <2> QED
    BY <1>0, <2>1, <2>2 DEF Awaiting
<1> QED
  BY <1>1, <1>3, <1>4, <1>5, <1>6, <1>7 DEF ServerInv

\* A handler of four sections.
LEMMA FourSections ==
    ASSUME NEW S, NEW a \in S, NEW b \in S, NEW c \in S, NEW d \in S
    PROVE  <<a, b, c, d>> \in Seq(S)
  OBVIOUS

\* The sections of a list are among those it is a list of.
LEMMA SectionsOf ==
    ASSUME NEW S, NEW s \in Seq(S)
    PROVE  Sections(s) \subseteq S
  BY DEF Sections

\* Watched files, the shutdown request and the end of the input.
LEMMA OtherMessages ==
    ASSUME ServerConstantsOK, ServerInv,
           Server!didChangeWatchedFiles \/ Server!shutdown \/ Server!exit
    PROVE  ServerInv'
<1>0. /\ ServiceTyped /\ ThreadsTyped /\ Reading /\ Coordinating /\ Awaiting
      /\ UNCHANGED <<path, asked, query, documents, generation, index, analysis,
                     pending_queries, completion_queries, worker, todo, registered, early,
                     reply, published>>
      /\ phase' \in {"serving", "shutdown", "exit"} /\ steps = <<>>
  BY DEF ServerInv, Server!didChangeWatchedFiles, Server!shutdown, Server!exit, Server!service,
         Server!server, Server!Handles, ServiceTyped
<1>1. ServiceTyped' /\ Placed' /\ Answering'
  BY <1>0, Unmoved DEF ServiceTyped
<1>2. todo["reader"] = {}
  BY <1>0, HandsEmpty
<1>3. \A work : Dated(work)' = Dated(work)
  BY <1>0 DEF Dated
<1>4. CASE Server!didChangeWatchedFiles \/ Server!shutdown
  <2>1. UNCHANGED coordinator /\ phase # "exit" /\ phase' # "exit"
    BY <1>4 DEF Server!didChangeWatchedFiles, Server!shutdown, Server!Handles
  <2>2. ThreadsTyped'
    BY <1>0, <2>1 DEF ThreadsTyped
  <2>3. Reading'
    <3>1. CASE Server!didChangeWatchedFiles
      <4>1. steps' \in Seq(HandlerSteps) /\ Sections(steps') = {"diagnose"}
        BY <3>1, ShortSections DEF Server!didChangeWatchedFiles, HandlerSteps
      <4> QED
        BY <1>0, <1>2, <2>1, <4>1, ReaderBegins DEF HandlerSteps
    <3>2. CASE Server!shutdown
      <4>1. UNCHANGED steps
        BY <3>2 DEF Server!shutdown
      <4> QED
        BY <1>0, <2>1, <4>1 DEF Reading
    <3> QED
      BY <1>4, <3>1, <3>2
  <2>4. Coordinating'
    BY <1>0, <1>3, <2>1 DEF Coordinating
  <2>5. Awaiting'
    <3>1. analysis # None => OnTheWay'
      BY <1>0, <2>1 DEF Awaiting, OnTheWay
    <3>2. pending_queries # {} => analysis # None
      BY <1>0, <2>1 DEF Awaiting, Server!At
    <3> QED
      BY <1>0, <3>1, <3>2 DEF Awaiting
  <2> QED
    BY <1>1, <2>2, <2>3, <2>4, <2>5 DEF ServerInv
<1>5. CASE Server!exit
  <2>1. /\ phase' = "exit"
        /\ coordinator' = [k \in Server!Kinds |-> Server!cancelCurrent(coordinator[k])]
        /\ steps' = <<"stop completion", "join completion", "stop analysis", "join analysis">>
    BY <1>5 DEF Server!exit
  <2>2. /\ coordinator' \in [Server!Kinds -> Coordinators]
        /\ \A k \in Server!Kinds : coordinator'[k].pending = None
    BY <2>1, CancelBoth
  <2>3. ThreadsTyped'
    BY <1>0, <2>2 DEF ThreadsTyped
  <2>4. Reading'
    <3>0. steps' \in Seq(ExitSteps) /\ Sections(steps') \subseteq ExitSteps
      <4>1. /\ "stop completion" \in ExitSteps /\ "join completion" \in ExitSteps
            /\ "stop analysis" \in ExitSteps /\ "join analysis" \in ExitSteps
        BY DEF ExitSteps
      <4>2. steps' \in Seq(ExitSteps)
        BY <2>1, <4>1, FourSections
      <4> QED
        BY <4>2, SectionsOf
    <3>1. steps' \in Seq(HandlerSteps \cup ExitSteps)
      BY <3>0
    <3> QED
      BY <1>0, <1>2, <2>1, <3>0, <3>1 DEF Reading, ExitSteps
  <2>5. Coordinating'
    BY <1>0, <1>3, <2>1, <2>2 DEF Coordinating
  <2>6. Awaiting'
    BY <1>0, <2>1 DEF Awaiting
  <2> QED
    BY <1>1, <2>3, <2>4, <2>5, <2>6 DEF ServerInv
<1> QED
  BY <1>4, <1>5

-----------------------------------------------------------------------------
\* A section that does not touch the analysis.
LEMMA AnalysisKept ==
    ASSUME ServerInv, NEW s, s # "diagnose", Server!At(s),
           UNCHANGED <<phase, asked, pending_queries, analysis, generation, worker>>,
           coordinator'["analysis"] = coordinator["analysis"]
    PROVE  Awaiting'
<1>0. Awaiting /\ ~Server!At("diagnose")
  BY DEF ServerInv, Server!At
<1>1. analysis # None /\ phase # "exit" => OnTheWay'
  BY <1>0 DEF Awaiting, OnTheWay
<1> QED
  BY <1>0, <1>1 DEF Awaiting

\* The reader completes what it took.
LEMMA HandlerCompleted ==
    ASSUME ServerConstantsOK, ServerInv, Server!ReaderCompletes
    PROVE  ServerInv'
<1>0. /\ ServiceTyped /\ ThreadsTyped /\ Server!At("complete") /\ Server!Leave
      /\ Server!completeQuery("reader") /\ UNCHANGED <<phase, asked>>
      /\ UNCHANGED <<documents, generation, index, analysis, pending_queries,
                     completion_queries, coordinator, worker, published>>
  BY DEF ServerInv, Server!ReaderCompletes, Server!service, Server!Leave
<1>1. "reader" \in Server!Threads
  BY DEF Server!Threads
<1>2. /\ registered' \subseteq Server!Queries
      /\ early' \in [Server!Queries -> Results \cup {None}]
      /\ reply' \in [Server!Queries -> Results \cup {None}]
      /\ todo' \in [Server!Threads -> SUBSET (Server!Queries \X Results)]
      /\ todo'["reader"] = {} /\ \A u \in Server!Threads \ {"reader"} : todo'[u] = todo[u]
      /\ Placed' /\ Answering'
  BY <1>0, <1>1, QueriesCompleted
<1>3. Reading' /\ query' \in {None, query}
  BY <1>0, <1>2, ReaderLeaves
<1>4. ServiceTyped'
  BY <1>0, <1>2, <1>3 DEF ServiceTyped
<1>5. ThreadsTyped'
  BY <1>0, <1>2 DEF ThreadsTyped
<1>6. Coordinating'
  BY <1>0, <1>2, CoordinatorsKept
<1>7. Awaiting'
  BY <1>0, AnalysisKept
<1> QED
  BY <1>2, <1>3, <1>4, <1>5, <1>6, <1>7 DEF ServerInv

\* The work of a request is of the documents as they are.
LEMMA WorkDated ==
    ASSUME ServiceTyped, NEW q \in Server!Queries \cup {None}
    PROVE  Server!Work(q) \in Works /\ Dated(Server!Work(q)) /\ Server!Work(q).generation = generation
<1> DEFINE w == Server!Work(q)
<1>1. /\ w \in Works /\ w.generation = generation /\ w.versions = documents
  BY DEF Server!Work, Works, ServiceTyped
<1>2. generation <= generation
  BY DEF ServiceTyped, Generations
<1> QED
  BY <1>1, <1>2 DEF Dated

\* An analysis of this generation is asked for, unless one is on the way.
LEMMA DiagnosticsRequested ==
    ASSUME ServerConstantsOK, ServerInv, Server!requestDiagnostics
    PROVE  ServerInv'
<1>0. /\ ServiceTyped /\ ThreadsTyped /\ Coordinating /\ Awaiting
      /\ Server!At("diagnose") /\ Server!Leave
      /\ UNCHANGED <<phase, asked, documents, generation, index, pending_queries,
                     completion_queries, worker, todo, registered, early, reply, published>>
  BY DEF ServerInv, Server!requestDiagnostics, Server!server, Server!Leave
<1>1. Reading' /\ query' \in {None, query}
  BY <1>0, ReaderLeaves
<1>2. Placed' /\ Answering'
  BY <1>0, Unmoved
<1>3. CASE analysis # None /\ UNCHANGED <<analysis, coordinator>>
  <2>1. ServiceTyped' /\ ThreadsTyped'
    BY <1>0, <1>1, <1>3 DEF ServiceTyped, ThreadsTyped
  <2>2. Coordinating'
    BY <1>0, <1>3, CoordinatorsKept
  <2>3. phase # "exit" => OnTheWay'
    BY <1>0, <1>3 DEF Awaiting, OnTheWay
  <2>4. Awaiting'
    BY <1>0, <1>3, <2>3 DEF Awaiting
  <2> QED
    BY <1>1, <1>2, <2>1, <2>2, <2>4 DEF ServerInv
<1>4. CASE /\ coordinator' = [coordinator EXCEPT !["analysis"] =
                                Server!submit(coordinator["analysis"], Server!Work(None))]
           /\ analysis' = [generation |-> generation,
                           request |-> coordinator'["analysis"].latest_id]
  <2> DEFINE c == coordinator["analysis"]
             w == Server!Work(None)
             r == Server!submit(c, w)
  <2>1. w \in Works /\ Dated(w) /\ w.generation = generation
    BY <1>0, WorkDated
  <2>2. c \in Coordinators
    BY <1>0 DEF ThreadsTyped, Server!Kinds
  <2> HIDE DEF c, w
  <2>3. /\ r \in Coordinators /\ r.latest_id = c.latest_id + 1
        /\ r.latest_generation = w.generation
        /\ r.pending = [id |-> c.latest_id + 1, work |-> w]
        /\ r.stopping = c.stopping
    BY <2>1, <2>2, SubmitRecord
  <2>4. coordinator' = [coordinator EXCEPT !["analysis"] = r]
    BY <1>4 DEF c, w
  <2> HIDE DEF r
  <2>5. /\ coordinator' \in [Server!Kinds -> Coordinators] /\ coordinator'["analysis"] = r
        /\ coordinator'["completion"] = coordinator["completion"]
    BY <1>0, <2>3, <2>4 DEF ThreadsTyped, Server!Kinds
  <2>6. analysis' = [generation |-> generation, request |-> r.latest_id]
    BY <1>4, <2>5
  <2>7. analysis' \in [generation : Generations, request : Nat] /\ analysis' # None
    BY <1>0, <2>3, <2>6 DEF ServiceTyped, Coordinators, ServerConstantsOK
  <2>8. ServiceTyped'
    BY <1>0, <1>1, <2>7 DEF ServiceTyped
  <2>9. ThreadsTyped'
    BY <1>0, <2>5 DEF ThreadsTyped
  <2>10. /\ r.pending # None /\ r.pending.id = r.latest_id /\ r.pending.work = w
    BY <2>3 DEF ServerConstantsOK
  <2>11. Coordinating'
    <3>1. \A work : Dated(work)' = Dated(work)
      BY <1>0 DEF Dated
    <3>2. \A k \in Server!Kinds : k = "analysis" \/ k = "completion"
      BY DEF Server!Kinds
    <3>3. \A k \in Server!Kinds : coordinator'[k].pending # None =>
             /\ coordinator'[k].pending.id = coordinator'[k].latest_id
             /\ coordinator'[k].pending.work.generation = coordinator'[k].latest_generation
             /\ Dated(coordinator'[k].pending.work)
      BY <1>0, <2>1, <2>3, <2>5, <2>10, <3>2 DEF Coordinating
    <3>4. phase # "exit" => \A k \in Server!Kinds : ~coordinator'[k].stopping
      BY <1>0, <2>3, <2>5, <3>2 DEF Coordinating, c
    <3> QED
      BY <1>0, <3>1, <3>3, <3>4 DEF Coordinating
  <2>12. OnTheWay'
    BY <1>0, <2>1, <2>3, <2>5, <2>6, <2>10 DEF OnTheWay
  <2>13. Awaiting'
    BY <1>0, <2>6, <2>7, <2>12 DEF Awaiting
  <2> QED
    BY <1>1, <1>2, <2>8, <2>9, <2>11, <2>13 DEF ServerInv
<1> QED
  BY <1>3, <1>4 DEF Server!requestDiagnostics

\* The probe of the completion before is cancelled, and the new one submitted.
LEMMA ProbeChanged ==
    ASSUME ServerConstantsOK, ServerInv, Server!CancelProbe \/ Server!SubmitProbe
    PROVE  ServerInv'
<1> DEFINE c == coordinator["completion"]
           w == Server!Work(query)
<1>0. /\ ServiceTyped /\ ThreadsTyped /\ Coordinating /\ Server!Leave
      /\ Server!At("cancel") \/ Server!At("submit")
      /\ UNCHANGED <<phase, asked, documents, generation, index, analysis, pending_queries,
                     completion_queries, worker, todo, registered, early, reply, published>>
      /\ \/ coordinator' = [coordinator EXCEPT !["completion"] = Server!cancelCurrent(c)]
         \/ coordinator' = [coordinator EXCEPT !["completion"] = Server!submit(c, w)]
  BY DEF ServerInv, Server!CancelProbe, Server!SubmitProbe, Server!service, Server!server,
         Server!Leave
<1>1. Reading' /\ query' \in {None, query}
  BY <1>0, ReaderLeaves
<1>2. Placed' /\ Answering'
  BY <1>0, Unmoved
<1>3. w \in Works /\ Dated(w)
  BY <1>0, WorkDated DEF ServiceTyped
<1>4. c \in Coordinators
  BY <1>0 DEF ThreadsTyped, Server!Kinds
<1> HIDE DEF w, c
<1>5. PICK r \in Coordinators :
        /\ coordinator' = [coordinator EXCEPT !["completion"] = r]
        /\ r.stopping = c.stopping
        /\ r.pending # None => /\ r.pending.id = r.latest_id
                               /\ r.pending.work.generation = r.latest_generation
                               /\ Dated(r.pending.work)
  <2>1. CASE coordinator' = [coordinator EXCEPT !["completion"] = Server!cancelCurrent(c)]
    BY <1>4, <2>1, CancelRecord
  <2>2. CASE coordinator' = [coordinator EXCEPT !["completion"] = Server!submit(c, w)]
    <3> DEFINE r == Server!submit(c, w)
    <3>1. /\ r \in Coordinators /\ r.latest_id = c.latest_id + 1
          /\ r.latest_generation = w.generation
          /\ r.pending = [id |-> c.latest_id + 1, work |-> w]
          /\ r.stopping = c.stopping
      BY <1>3, <1>4, SubmitRecord
    <3>2. coordinator' = [coordinator EXCEPT !["completion"] = r]
      BY <2>2
    <3> HIDE DEF r
    <3>3. r.pending.id = r.latest_id /\ r.pending.work = w
      BY <3>1
    <3> QED
      BY <1>3, <3>1, <3>2, <3>3
  <2> QED
    BY <1>0, <2>1, <2>2
<1>6. /\ coordinator' \in [Server!Kinds -> Coordinators] /\ coordinator'["completion"] = r
      /\ coordinator'["analysis"] = coordinator["analysis"]
      /\ \A k \in Server!Kinds : k = "analysis" \/ k = "completion"
  BY <1>0, <1>5 DEF ThreadsTyped, Server!Kinds
<1>7. ServiceTyped' /\ ThreadsTyped'
  BY <1>0, <1>1, <1>6 DEF ServiceTyped, ThreadsTyped
<1>8. Coordinating'
  <2>1. \A work : Dated(work)' = Dated(work)
    BY <1>0 DEF Dated
  <2>2. \A k \in Server!Kinds : coordinator'[k].pending # None =>
           /\ coordinator'[k].pending.id = coordinator'[k].latest_id
           /\ coordinator'[k].pending.work.generation = coordinator'[k].latest_generation
           /\ Dated(coordinator'[k].pending.work)
    BY <1>0, <1>5, <1>6 DEF Coordinating
  <2>3. phase # "exit" => \A k \in Server!Kinds : ~coordinator'[k].stopping
    BY <1>0, <1>5, <1>6 DEF Coordinating, c
  <2> QED
    BY <1>0, <2>1, <2>2, <2>3 DEF Coordinating
<1>9. Awaiting'
  BY <1>0, <1>6, AnalysisKept
<1> QED
  BY <1>1, <1>2, <1>7, <1>8, <1>9 DEF ServerInv

\* The query is registered; a result that came early is its answer.
LEMMA QueryRegistered ==
    ASSUME ServerConstantsOK, ServerInv, Server!registerQuery
    PROVE  ServerInv'
<1>0. /\ ServiceTyped /\ ThreadsTyped /\ Coordinating /\ Reading /\ Placed /\ Answering
      /\ Server!Leave /\ Server!At("register")
      /\ UNCHANGED <<phase, asked, documents, generation, index, analysis, pending_queries,
                     completion_queries, coordinator, worker, todo, published>>
  BY DEF ServerInv, Server!registerQuery, Server!service, Server!Leave
<1>1. Reading' /\ query' \in {None, query}
  BY <1>0, ReaderLeaves
<1>2. query \in Server!Queries
  <2>1. steps # <<>> /\ Head(steps) = "register"
    BY <1>0 DEF Server!At
  <2>2. "register" \in Sections(steps)
    BY <1>0, <2>1, TailSections DEF Reading
  <2> QED
    BY <1>0, <2>2 DEF Reading
<1>3. Coordinating' /\ Awaiting'
  BY <1>0, CoordinatorsKept, AnalysisKept
<1>4. CASE /\ early[query] # None /\ reply' = [reply EXCEPT ![query] = early[query]]
           /\ early' = [early EXCEPT ![query] = None] /\ UNCHANGED registered
  <2>1. /\ early' \in [Server!Queries -> Results \cup {None}]
        /\ reply' \in [Server!Queries -> Results \cup {None}]
        /\ reply'[query] = early[query] /\ early'[query] = None
        /\ \A q \in Server!Queries \ {query} : early'[q] = early[q] /\ reply'[q] = reply[q]
    BY <1>0, <1>2, <1>4 DEF ThreadsTyped
  <2>2. ServiceTyped' /\ ThreadsTyped'
    BY <1>0, <1>1, <1>4, <2>1 DEF ServiceTyped, ThreadsTyped
  <2>3. ASSUME NEW q \in Server!Queries
        PROVE  /\ asked'[q] = None => Places(q)' = {}
               /\ asked'[q] # None => \E x : Places(q)' = {x}
    <3>0. /\ asked[q] = None => Places(q) = {}
          /\ asked[q] # None => \E x : Places(q) = {x}
      BY <1>0 DEF Placed
    <3>1. CASE q # query
      <4>1. Places(q)' = Places(q)
        BY <1>0, <2>1, <3>1 DEF Places, HasQuery
      <4> QED
        BY <1>0, <3>0, <4>1
    <3>2. CASE q = query
      <4>1. "early" \in Places(q)
        BY <1>4, <3>2 DEF Places
      <4>2. asked[q] # None /\ Places(q) = {"early"}
        BY <3>0, <4>1
      <4>3. /\ q \notin pending_queries /\ q \notin completion_queries
            /\ \A t \in Server!Threads : ~HasQuery(todo[t], q)
        BY <4>2 DEF Places, Server!Threads, Server!Kinds
      <4>4. Places(q)' = {"reply"}
        BY <1>0, <1>4, <2>1, <3>2, <4>3 DEF Places
      <4> QED
        BY <1>0, <4>2, <4>4
    <3> QED
      BY <3>1, <3>2
  <2>4. Placed'
    BY <2>3 DEF Placed
  <2>5. Answering'
    BY <1>0, <1>2, <1>4, <2>1 DEF Answering
  <2> QED
    BY <1>1, <1>3, <2>2, <2>4, <2>5 DEF ServerInv
<1>5. CASE registered' = registered \cup {query} /\ UNCHANGED <<early, reply>>
  <2>1. Placed' /\ Answering'
    BY <1>0, <1>5, Unmoved
  <2>2. ServiceTyped' /\ ThreadsTyped'
    BY <1>0, <1>1, <1>2, <1>5 DEF ServiceTyped, ThreadsTyped
  <2> QED
    BY <1>1, <1>3, <2>1, <2>2 DEF ServerInv
<1> QED
  BY <1>4, <1>5 DEF Server!registerQuery

\* The diagnostics of a closed document, and the destructors of the coordinators.
LEMMA OtherSections ==
    ASSUME ServerConstantsOK, ServerInv,
           Server!ClearDiagnostics \/ \E k \in Server!Kinds : Server!Stop(k) \/ Server!Join(k)
    PROVE  ServerInv'
<1>0. /\ ServiceTyped /\ ThreadsTyped /\ Coordinating /\ Awaiting /\ Server!Leave
      /\ UNCHANGED <<phase, asked, documents, generation, index, analysis, pending_queries,
                     completion_queries, worker, todo, registered, early, reply>>
  BY DEF ServerInv, Server!ClearDiagnostics, Server!Stop, Server!Join, Server!service,
         Server!server, Server!Leave
<1>1. PICK s \in {"clear"} \cup ExitSteps : Server!At(s)
  BY DEF Server!ClearDiagnostics, Server!Stop, Server!Join, ExitSteps
<1>2. s # "complete" /\ s # "diagnose"
  BY <1>1 DEF ExitSteps
<1>3. /\ Reading' /\ query' \in {None, query}
      /\ phase # "exit" => s \in HandlerSteps
  BY <1>0, <1>1, <1>2, ReaderLeaves
<1>4. Placed' /\ Answering'
  BY <1>0, Unmoved
<1>5. published' \in [Docs -> Generations]
  <2>1. UNCHANGED published \/ published' = [published EXCEPT ![path] = 0]
    BY DEF Server!ClearDiagnostics, Server!Stop, Server!Join
  <2>2. 0 \in Generations
    BY DEF Generations, ServerConstantsOK
  <2> QED
    BY <1>0, <2>1, <2>2 DEF ServiceTyped
<1>6. ServiceTyped'
  BY <1>0, <1>3, <1>5 DEF ServiceTyped
<1>7. CASE UNCHANGED coordinator
  <2>1. ThreadsTyped' /\ Coordinating' /\ Awaiting'
    BY <1>0, <1>1, <1>2, <1>7, CoordinatorsKept, AnalysisKept DEF ThreadsTyped
  <2> QED
    BY <1>3, <1>4, <1>6, <2>1 DEF ServerInv
<1>8. ASSUME NEW k \in Server!Kinds, Server!Stop(k) PROVE ServerInv'
  <2> DEFINE c == coordinator[k]
             r == [Server!CancelActive(c) EXCEPT !.stopping = TRUE, !.pending = None]
  <2>1. c \in Coordinators
    BY <1>0 DEF ThreadsTyped
  <2>2. r \in Coordinators /\ r.pending = None
    BY <2>1, StopRecord
  <2>3. coordinator' = [coordinator EXCEPT ![k] = r]
    BY <1>8, Zenon DEF Server!Stop
  <2> HIDE DEF r
  <2>4. /\ coordinator' \in [Server!Kinds -> Coordinators] /\ coordinator'[k].pending = None
        /\ \A j \in Server!Kinds \ {k} : coordinator'[j] = coordinator[j]
    BY <1>0, <2>2, <2>3 DEF ThreadsTyped
  <2>5. phase = "exit"
    <3>1. /\ "stop analysis" \in ExitSteps /\ "stop completion" \in ExitSteps
          /\ \E x \in {"stop analysis", "stop completion"} : Server!At(x)
      BY <1>8 DEF Server!Stop, ExitSteps
    <3>2. PICK x \in {"stop analysis", "stop completion"} : Server!At(x)
      BY <3>1
    <3>3. phase # "exit" => x \in HandlerSteps
      BY <1>0, <3>2, ReaderLeaves
    <3> QED
      BY <3>2, <3>3 DEF HandlerSteps
  <2>6. ThreadsTyped'
    BY <1>0, <2>4 DEF ThreadsTyped
  <2>7. Coordinating'
    <3>1. \A work : Dated(work)' = Dated(work)
      BY <1>0 DEF Dated
    <3> QED
      BY <1>0, <2>4, <2>5, <3>1 DEF Coordinating
  <2>8. Awaiting'
    BY <1>0, <2>5 DEF Awaiting
  <2> QED
    BY <1>3, <1>4, <1>6, <2>6, <2>7, <2>8 DEF ServerInv
<1> QED
  BY <1>7, <1>8 DEF Server!ClearDiagnostics, Server!Join

-----------------------------------------------------------------------------
\* Every step of the reader and of the workers keeps the invariant.
LEMMA ServerInductive ==
    ASSUME ServerConstantsOK, ServerInv, [Server!Next]_(Server!vars)
    PROVE  ServerInv'
<1>1. ASSUME UNCHANGED Server!vars PROVE ServerInv'
  <2>1. /\ UNCHANGED <<phase, steps, path, asked, query, documents, generation, index, analysis,
                       pending_queries, completion_queries, coordinator, worker, todo,
                       registered, early, reply, published>>
    BY <1>1 DEF Server!vars, Server!reader, Server!service, Server!server
  <2>2. ServiceTyped' /\ ThreadsTyped' /\ Reading'
    BY <2>1 DEF ServerInv, ServiceTyped, ThreadsTyped, Reading
  <2>3. Coordinating'
    BY <2>1, CoordinatorsKept
  <2>4. Awaiting'
    BY <2>1 DEF ServerInv, Awaiting, OnTheWay, Server!At
  <2>5. Placed' /\ Answering'
    BY <2>1, Unmoved
  <2> QED
    BY <2>2, <2>3, <2>4, <2>5 DEF ServerInv
<1>2. CASE Server!Receive
  <2>1. CASE \E d \in Docs : Server!didOpen(d) \/ Server!didChange(d) \/ Server!didClose(d)
    BY <2>1, DocumentEdited
  <2>2. CASE \E q \in Symbols : Server!enqueue(q)
    BY <2>2, QueryEnqueued
  <2>3. CASE \E q \in Completions : Server!requestCompletion(q)
    BY <2>3, CompletionRequested
  <2>4. CASE \E q \in Server!Queries : Server!cancelRequest(q)
    BY <2>4, QueryCancelled
  <2>5. CASE Server!didChangeWatchedFiles \/ Server!shutdown \/ Server!exit
    BY <2>5, OtherMessages
  <2> QED
    BY <1>2, <2>1, <2>2, <2>3, <2>4, <2>5 DEF Server!Receive
<1>3. CASE Server!Continue
  BY <1>3, HandlerCompleted, DiagnosticsRequested, ProbeChanged, QueryRegistered, OtherSections
     DEF Server!Continue
<1>4. CASE \E k \in Server!Kinds : Server!WorkerStep(k)
  BY <1>4, WorkerTakes, WorkerRuns, WorkerDelivers, AnalysisReturns, ProbeReturns
     DEF Server!WorkerStep
<1>5. CASE Server!Done
  BY <1>1, <1>5 DEF Server!Done
<1> QED
  BY <1>1, <1>2, <1>3, <1>4, <1>5 DEF Server!Next

\* The invariant of the language server holds throughout.
THEOREM ServerInvariant == ASSUME ServerConstantsOK PROVE Server!Spec => []ServerInv
<1>1. Server!Init => ServerInv
  BY ServerInitially
<1>2. ServerInv /\ [Server!Next]_(Server!vars) => ServerInv'
  BY ServerInductive
<1> QED
  BY <1>1, <1>2, PTL DEF Server!Spec

\* The size of a set, as the server counts.
LEMMA CountOf == \A S : Server!Cardinality(S) = Cardinality(S)
  BY DEF Server!Cardinality, Cardinality

\* Whatever documents are edited and closed while whatever queries are asked and cancelled,
\* and however the workers' callbacks fall between the sections of the reader's handlers, a
\* query is in one place until its one answer, and one that waits has an analysis of its
\* generation on the way (apply, cancelRequest, registerQuery, requestDiagnostics).
THEOREM QueriesHold == ASSUME ServerConstantsOK PROVE Server!Spec => []Server!QueriesKept
<1>1. ServerInv => Server!QueriesKept
  <2> SUFFICES ASSUME ServerInv PROVE Server!QueriesKept
    OBVIOUS
  <2>0. /\ ServiceTyped /\ ThreadsTyped /\ Coordinating /\ Awaiting /\ Placed
    BY DEF ServerInv
  <2>1. Server!TypeOK
    <3>1. Server!Cardinality(completion_queries) <= 1
      <4>1. CASE completion_queries = {}
        BY <4>1, FS_EmptySet, CountOf
      <4>2. CASE \E q : completion_queries = {q}
        <5>1. Cardinality(completion_queries) = 1
          BY <4>2, FS_Singleton
        <5> QED
          BY <5>1, CountOf
      <4> QED
        BY <2>0, <4>1, <4>2 DEF ServiceTyped
    <3>2. \A k \in Server!Kinds :
            worker[k].pc \in {"wait", "run", "callback", "deliver", "ended"}
      BY <2>0 DEF ThreadsTyped, WorkerStates
    <3>3. index \in (0 .. generation) \cup {None}
      BY <2>0 DEF ServiceTyped, Generations
    <3> QED
      BY <2>0, <3>1, <3>2, <3>3 DEF Server!TypeOK, ServiceTyped, Generations
  <2>2. Server!HeldOnce
    <3> SUFFICES ASSUME NEW q \in Server!Queries, asked[q] # None
                 PROVE  1 = Server!Cardinality({k \in {"pending"} : q \in pending_queries}
                              \union {k \in {"probed"} : q \in completion_queries}
                              \union {k \in {"early"} : early[q] # None}
                              \union {k \in {"reply"} : reply[q] # None}
                              \union {t \in Server!Threads : \E a \in todo[t] : a[1] = q})
      BY DEF Server!HeldOnce
    <3>1. PICK x : Places(q) = {x}
      BY <2>0 DEF Placed
    <3>2. Cardinality(Places(q)) = 1
      BY <3>1, FS_Singleton
    <3>3. Server!Cardinality(Places(q)) = 1
      BY <3>2, CountOf
    <3> QED
      BY <3>3, Zenon DEF Places, HasQuery
  <2>3. Server!QueriesAwaitAnalysis
    <3> SUFFICES ASSUME pending_queries # {}, ~Server!At("diagnose"), phase # "exit"
                 PROVE  LET c == coordinator["analysis"]
                            w == worker["analysis"] IN
                        /\ analysis # None /\ analysis.request = c.latest_id
                        /\ \/ c.pending # None /\ c.pending.id = c.latest_id
                           \/ w.pc \in {"run", "callback"} /\ w.id = c.latest_id
                              /\ w.work.generation = generation /\ ~c.cancelled
      BY DEF Server!QueriesAwaitAnalysis
    <3>1. analysis # None /\ OnTheWay
      BY <2>0 DEF Awaiting
    <3>2. coordinator["analysis"].pending # None =>
            coordinator["analysis"].pending.id = coordinator["analysis"].latest_id
      BY <2>0 DEF Coordinating, Server!Kinds
    <3> QED
      BY <3>1, <3>2 DEF OnTheWay
  <2> QED
    BY <2>1, <2>2, <2>3 DEF Server!QueriesKept
<1> QED
  BY <1>1, ServerInvariant, PTL

\* An answer taken from a symbol index is of the documents as they were when the query was
\* asked, whatever edits fall between the query and its answer (enqueue, the callbacks).
THEOREM AnswersHold == ASSUME ServerConstantsOK PROVE Server!Spec => []Server!AnswersCurrent
<1>1. ServerInv => Server!AnswersCurrent
  BY DEF ServerInv, Answering, Server!AnswersCurrent
<1> QED
  BY <1>1, ServerInvariant, PTL
=============================================================================
