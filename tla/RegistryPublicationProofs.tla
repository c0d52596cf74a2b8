---------------------- MODULE RegistryPublicationProofs ---------------------
(***************************************************************************)
(* What the registry promises its clients through any number of            *)
(* publications, retries, lifecycle changes, collections, failures and     *)
(* crashes of one server: no archive that is served is lost, and the index *)
(* clients fetch agrees with the database.                                 *)
(*                                                                         *)
(* Archives.  A collection may take away an archive only while no variant  *)
(* refers to it, and what it has taken is in the trash of a plan that is   *)
(* not applied, where recovery finds it, until its row is gone too.        *)
(*                                                                         *)
(* Index.  The packages in the remote, at HEAD, staged, in the worktree    *)
(* and in the database form a chain in which nothing is ever taken back; a *)
(* mutation under way is in every link the call has reached.               *)
(***************************************************************************)
EXTENDS RegistryPublication, SequenceTheorems, WellFoundedInduction, TLAPS

\* What the proofs assume of the constants.  One process has the store open: a collection
\* by another one may take away an archive between the copy and the transaction of a
\* publication.  A variant names its release, archives left over are archives, and no
\* entry is the value that stands for none.
ConstantsOK ==
    /\ \E p : Processes = {p}
    /\ \A q \in Requests : q.release \in Releases
    /\ \A q, s \in Requests : q.variant = s.variant => q.release = s.release
    /\ Orphans \subseteq Blobs
    /\ MaxTime \in Nat /\ MaxCalls \in Nat /\ MaxFaults \in Nat
    /\ \A vs, st : NoEntry # [variants |-> vs, state |-> st]

-----------------------------------------------------------------------------
(* The inductive invariant *)

\* The variables that are records or functions have their fields and domains.
Shaped ==
    /\ db = [log |-> db.log, distributed |-> db.distributed, variants |-> db.variants,
             states |-> db.states, blobs |-> db.blobs, points |-> db.points,
             plans |-> db.plans]
    /\ proc = [p \in Processes |-> proc[p]]
    /\ \A p \in Processes :
         proc[p] = [at |-> proc[p].at, m |-> proc[p].m, item |-> proc[p].item,
                    opening |-> proc[p].opening, todo |-> proc[p].todo]
    /\ work = [packages |-> work.packages, checkpoint |-> work.checkpoint,
               snapshot |-> work.snapshot, timestamp |-> work.timestamp]
    /\ work.packages = [r \in Releases |-> work.packages[r]]

\* The types of the tables.
Row == {[id |-> q, release |-> q.release] : q \in Requests}
         \cup [id : Keys, release : Releases, yanked : BOOLEAN]
Plan == [applied : BOOLEAN, blobs : SUBSET Blobs]
Tables ==
    /\ db.log \in Seq(Row)
    /\ db.distributed \subseteq 1..Len(db.log)
    /\ DOMAIN db.variants \subseteq Variants
    /\ DOMAIN db.blobs \subseteq Blobs
    /\ db.plans \in Seq(Plan)
    /\ \A r \in DOMAIN db.states : db.states[r].leaf \in 1..Len(db.log)

Bounded == now \in 0..MaxTime /\ calls \in 0..MaxCalls /\ faults \in 0..MaxFaults

Files ==
    /\ cas \subseteq Blobs /\ temporary \subseteq Blobs
    /\ trash \subseteq (DOMAIN db.plans) \X Blobs
    /\ ArchivesServed

\* The database has what mutation i brought.
Recorded(i) ==
    /\ db.log[i].release \in DOMAIN db.states
    /\ IF "yanked" \in DOMAIN db.log[i]
       THEN db.states[db.log[i].release].leaf >= i
       ELSE /\ db.log[i].id.variant \in DOMAIN db.variants
            /\ ReleaseOf(db.log[i].id.variant) = db.log[i].release
            /\ db.log[i].id.signers \subseteq db.variants[db.log[i].id.variant].signers

\* Entry f takes nothing back of entry e.
Later(e, f) ==
    e # NoEntry =>
      /\ f # NoEntry
      /\ e.state.leaf \in Nat /\ f.state.leaf \in Nat /\ e.state.leaf <= f.state.leaf
      /\ \A x \in e.variants :
           \E y \in f.variants : y.variant = x.variant /\ x.signers \subseteq y.signers

\* The database takes nothing back of entry e of release r.
Committed(r, e) ==
    e # NoEntry =>
      /\ r \in DOMAIN db.states
      /\ e.state.leaf \in Nat /\ e.state.leaf <= db.states[r].leaf
      /\ \A x \in e.variants :
           /\ x.variant \in DOMAIN db.variants /\ ReleaseOf(x.variant) = r
           /\ x.signers \subseteq db.variants[x.variant].signers

Chain ==
    \A r \in Releases :
      /\ Later(remote.packages[r], head.packages[r])
      /\ Later(head.packages[r], staged.packages[r])
      /\ Later(staged.packages[r], work.packages[r])
      /\ Committed(r, work.packages[r])

Index ==
    /\ LoggedOnce
    /\ \A i \in 1..Len(db.log) : Recorded(i)
    /\ Chain
    /\ DistributedIsPublished

\* The archives that have a row are there, or in the trash of a plan that is not applied.
Distributing == {"entry", "seal", "snapshot", "timestamp", "add", "commit", "push",
                 "distributed"}
Sweeping == {"sweep", "delete"}
InTrash == {b \in Blobs : \E g \in DOMAIN db.plans : <<g, b>> \in trash /\ ~db.plans[g].applied}
Rows(p) ==
    /\ proc[p].at = "closed" => DOMAIN db.blobs \subseteq cas \cup InTrash
    /\ proc[p].at \notin Sweeping \cup {"closed"} => DOMAIN db.blobs \subseteq cas
    /\ proc[p].at \in Sweeping =>
         /\ proc[p].item.plan \in DOMAIN db.plans
         /\ proc[p].item =
              [plan |-> proc[p].item.plan, renamed |-> proc[p].item.renamed]
         /\ ~db.plans[proc[p].item.plan].applied
         /\ proc[p].item.renamed \subseteq db.plans[proc[p].item.plan].blobs
         /\ \A b \in proc[p].item.renamed : <<proc[p].item.plan, b>> \in trash /\ ~Referenced(b)
         /\ DOMAIN db.blobs \subseteq cas \cup proc[p].item.renamed
    /\ proc[p].at = "delete" =>
         db.plans[proc[p].item.plan].blobs \subseteq proc[p].item.renamed

\* A call under way: what it publishes is new and has its archive, what it distributes is
\* in the log and in every tree it has reached.
Under(p) ==
    /\ proc[p].todo \subseteq 1..Len(db.log)
    /\ proc[p].at \in Distributing => proc[p].m \in 1..Len(db.log)
    /\ proc[p].at \in {"copy", "transaction"} =>
         proc[p].item \in Requests /\ Logged(proc[p].item) = {}
    /\ proc[p].at = "transaction" => proc[p].item.blob \in cas
Reached(p, tree) == Carries(tree.packages[db.log[proc[p].m].release], proc[p].m)
Progress(p) ==
    /\ proc[p].at = "seal" /\ proc[p].item = "packages" => Reached(p, work)
    /\ proc[p].at \in {"snapshot", "timestamp", "add"} /\ proc[p].item.scope = "packages" =>
         Reached(p, work)
    /\ proc[p].at = "commit" /\ proc[p].item.scope = "packages" => Reached(p, staged)
    /\ proc[p].at = "push" /\ proc[p].item.scope = "packages" => Reached(p, head)
    /\ proc[p].at = "distributed" => Reached(p, remote)

IInv ==
    /\ Shaped /\ Tables /\ Bounded /\ Files /\ Index
    /\ \A p \in Processes : Rows(p) /\ Under(p) /\ Progress(p)

-----------------------------------------------------------------------------
(* Entries *)

\* Later is a preorder on entries, and a later entry carries what an earlier one carries.
LEMMA LaterFacts ==
    ASSUME NEW e, NEW f, NEW g
    PROVE  /\ Later(e, f) => Later(e, e)
           /\ Later(e, f) /\ Later(f, g) => Later(e, g)
           /\ \A i \in Nat : Later(e, f) /\ Carries(e, i) => Carries(f, i)
<1>1. Later(e, f) => Later(e, e)
  BY DEF Later
<1>2. ASSUME Later(e, f), Later(f, g), e # NoEntry PROVE Later(e, g)
  <2>1. /\ g # NoEntry /\ e.state.leaf \in Nat /\ g.state.leaf \in Nat
        /\ e.state.leaf <= g.state.leaf
    BY <1>2 DEF Later
  <2>2. ASSUME NEW x \in e.variants
        PROVE  \E z \in g.variants : z.variant = x.variant /\ x.signers \subseteq z.signers
    <3>1. PICK y \in f.variants : y.variant = x.variant /\ x.signers \subseteq y.signers
      BY <1>2 DEF Later
    <3>2. PICK z \in g.variants : z.variant = y.variant /\ y.signers \subseteq z.signers
      BY <1>2 DEF Later
    <3> QED
      BY <3>1, <3>2
  <2> QED
    BY <2>1, <2>2 DEF Later
<1>3. ASSUME NEW i \in Nat, Later(e, f), Carries(e, i) PROVE Carries(f, i)
  <2>1. e # NoEntry /\ f # NoEntry
    BY <1>3 DEF Later, Carries
  <2>2. CASE "yanked" \in DOMAIN db.log[i]
    <3>1. e.state.leaf >= i /\ e.state.leaf <= f.state.leaf
          /\ e.state.leaf \in Nat /\ f.state.leaf \in Nat
      BY <1>3, <2>1, <2>2 DEF Later, Carries
    <3>2. f.state.leaf >= i
      BY <3>1
    <3> QED
      BY <2>1, <2>2, <3>2 DEF Carries
  <2>3. CASE "yanked" \notin DOMAIN db.log[i]
    <3>1. PICK x \in e.variants : /\ x.variant = db.log[i].id.variant
                                  /\ db.log[i].id.signers \subseteq x.signers
      BY <1>3, <2>3 DEF Carries
    <3>2. PICK y \in f.variants : y.variant = x.variant /\ x.signers \subseteq y.signers
      BY <1>3, <2>1 DEF Later
    <3> QED
      BY <2>1, <2>3, <3>1, <3>2 DEF Carries
  <2> QED
    BY <2>2, <2>3
<1> QED
  BY <1>1, <1>2, <1>3 DEF Later

\* A variant's release is that of every request for it.
LEMMA ReleaseKnown ==
    ASSUME ConstantsOK, NEW q \in Requests
    PROVE  ReleaseOf(q.variant) = q.release /\ q.release \in Releases
           /\ q.variant \in Variants /\ q.blob \in Blobs
  BY DEF ConstantsOK, ReleaseOf, Variants, Blobs

\* The entry rendered from the database takes back nothing of the one in the worktree, and
\* it carries the mutation it is rendered for.
LEMMA Rendered ==
    ASSUME ConstantsOK, IInv, NEW r \in Releases, r \in DOMAIN db.states
    PROVE  /\ Later(work.packages[r], Entry(r)) /\ Committed(r, Entry(r))
           /\ \A i \in 1..Len(db.log) : db.log[i].release = r => Carries(Entry(r), i)
<1> DEFINE vs == {[variant |-> v, signers |-> db.variants[v].signers] :
                    v \in {w \in DOMAIN db.variants : ReleaseOf(w) = r}}
           e == Entry(r)
<1>1. e = [variants |-> vs, state |-> db.states[r]]
  BY DEF Entry
<1>2. e.variants = vs /\ e.state = db.states[r] /\ e # NoEntry
  BY <1>1 DEF ConstantsOK
<1>3. db.states[r].leaf \in Nat
  BY DEF IInv, Tables
<1>4. \A v \in DOMAIN db.variants : ReleaseOf(v) = r =>
        \E y \in e.variants : y.variant = v /\ y.signers = db.variants[v].signers
  <2> SUFFICES ASSUME NEW v \in DOMAIN db.variants, ReleaseOf(v) = r
               PROVE  \E y \in e.variants : y.variant = v /\ y.signers = db.variants[v].signers
    OBVIOUS
  <2> DEFINE y == [variant |-> v, signers |-> db.variants[v].signers]
  <2>1. y \in vs
    OBVIOUS
  <2>2. y.variant = v /\ y.signers = db.variants[v].signers
    OBVIOUS
  <2> QED
    BY <1>2, <2>1, <2>2
<1>5. \A x \in e.variants : /\ x.variant \in DOMAIN db.variants /\ ReleaseOf(x.variant) = r
                            /\ x.signers = db.variants[x.variant].signers
  BY <1>2
<1> HIDE DEF e, vs
<1>6. Committed(r, e)
  BY <1>2, <1>3, <1>5 DEF Committed
<1>7. Later(work.packages[r], e)
  <2>1. Committed(r, work.packages[r])
    BY DEF IInv, Index, Chain
  <2>2. SUFFICES ASSUME work.packages[r] # NoEntry PROVE Later(work.packages[r], e)
    BY DEF Later
  <2>3. ASSUME NEW x \in work.packages[r].variants
        PROVE  \E y \in e.variants : y.variant = x.variant /\ x.signers \subseteq y.signers
    <3>1. /\ x.variant \in DOMAIN db.variants /\ ReleaseOf(x.variant) = r
          /\ x.signers \subseteq db.variants[x.variant].signers
      BY <2>1, <2>2 DEF Committed
    <3> QED
      BY <1>4, <3>1
  <2> QED
    BY <1>2, <1>3, <2>1, <2>2, <2>3 DEF Later, Committed
<1>8. ASSUME NEW i \in 1..Len(db.log), db.log[i].release = r PROVE Carries(e, i)
  <2>1. Recorded(i)
    BY DEF IInv, Index
  <2>2. CASE "yanked" \in DOMAIN db.log[i]
    BY <1>2, <1>8, <2>1, <2>2 DEF Carries, Recorded
  <2>3. CASE "yanked" \notin DOMAIN db.log[i]
    <3>1. /\ db.log[i].id.variant \in DOMAIN db.variants
          /\ ReleaseOf(db.log[i].id.variant) = r
          /\ db.log[i].id.signers \subseteq db.variants[db.log[i].id.variant].signers
      BY <1>8, <2>1, <2>3 DEF Recorded
    <3>2. PICK y \in e.variants : /\ y.variant = db.log[i].id.variant
                                  /\ y.signers = db.variants[db.log[i].id.variant].signers
      BY <1>4, <3>1
    <3> QED
      BY <1>2, <2>3, <3>1, <3>2 DEF Carries
  <2> QED
    BY <2>2, <2>3
<1> QED
  BY <1>6, <1>7, <1>8 DEF e

-----------------------------------------------------------------------------
(* Bounds and shapes *)

\* The clock, the calls and the faults keep to their bounds.
LEMMA BoundedKept ==
    ASSUME ConstantsOK, Bounded, [Next]_vars
    PROVE  Bounded'
<1>1. /\ now' = now \/ (now < MaxTime /\ now' = now + 1)
      /\ calls' = calls \/ (calls < MaxCalls /\ calls' = calls + 1)
      /\ faults' = faults \/ (faults < MaxFaults /\ faults' = faults + 1)
  <2> DEFINE Goal == /\ now' = now \/ (now < MaxTime /\ now' = now + 1)
                     /\ calls' = calls \/ (calls < MaxCalls /\ calls' = calls + 1)
                     /\ faults' = faults \/ (faults < MaxFaults /\ faults' = faults + 1)
  <2>1. ASSUME NEW p \in Processes, Step(p) PROVE Goal
    BY <2>1 DEF Step, open, recover, copyIntoCas, PublishCommit, materialize, WriteEntry,
                SealCheckpoint, SealSnapshot, SealTimestamp, GitAdd, GitCommit, GitPush,
                MarkDistributed, Sweep, DeleteRows, RemoveTrash, bounds
  <2>2. ASSUME NEW p \in Processes, Call(p) PROVE Goal
    BY <2>2 DEF Call, publish, changeReleaseState, resealIndex, createRecoveryPoint,
                planGarbageCollection, releaseRecoveryPoint, extendRecoveryPoint,
                applyGarbageCollection, Called, Retry
  <2>3. ASSUME NEW p \in Processes,
               \/ SealRollback(p) \/ SweepFails(p) \/ CopyFails(p) \/ StepFails(p)
               \/ Crash(p)
        PROVE  Goal
    BY <2>3 DEF SealRollback, SweepFails, CopyFails, StepFails, Crash, Fault, Fail
  <2>4. CASE Tick \/ UNCHANGED vars
    BY <2>4 DEF Tick, vars, bounds
  <2> QED
    BY <2>1, <2>2, <2>3, <2>4 DEF Next
<1> QED
  BY <1>1 DEF Bounded, ConstantsOK

\* A process record with all its fields.
IsProcess(s) ==
    s = [at |-> s.at, m |-> s.m, item |-> s.item, opening |-> s.opening, todo |-> s.todo]

\* A process that is set is the state it is set to; the ways a call ends.
LEMMA Ends ==
    ASSUME IInv, NEW p \in Processes
    PROVE  /\ IsProcess(proc[p])
           /\ \A new : Set(p, new) => proc'[p] = new
           /\ \A where : Go(p, where) =>
                /\ IsProcess(proc'[p]) /\ proc'[p].at = where /\ proc'[p].m = proc[p].m
                /\ proc'[p].item = proc[p].item /\ proc'[p].todo = proc[p].todo
           /\ Set(p, Rest) =>
                IsProcess(proc'[p]) /\ proc'[p].at = "idle" /\ proc'[p].todo = {}
           /\ Set(p, Down) =>
                IsProcess(proc'[p]) /\ proc'[p].at = "closed" /\ proc'[p].todo = {}
           /\ Abort(p) => /\ IsProcess(proc'[p]) /\ proc'[p].at \in {"idle", "closed"}
                          /\ proc'[p].todo = {}
           /\ Return(p) => /\ IsProcess(proc'[p]) /\ proc'[p].at \in {"idle", "recover"}
                           /\ proc'[p].todo \subseteq proc[p].todo
<1>1. IsProcess(proc[p])
  BY DEF IInv, Shaped, IsProcess
<1>2. ASSUME NEW new, Set(p, new) PROVE proc'[p] = new
  BY <1>2 DEF IInv, Shaped, Set
<1>3. ASSUME NEW where, Go(p, where)
      PROVE  /\ IsProcess(proc'[p]) /\ proc'[p].at = where /\ proc'[p].m = proc[p].m
             /\ proc'[p].item = proc[p].item /\ proc'[p].todo = proc[p].todo
  <2>1. proc'[p] = [proc[p] EXCEPT !.at = where]
    BY <1>2, <1>3 DEF Go
  <2> QED
    BY <1>1, <2>1 DEF IsProcess
<1>4. Set(p, Rest) => IsProcess(proc'[p]) /\ proc'[p].at = "idle" /\ proc'[p].todo = {}
  <2>1. IsProcess(Rest) /\ Rest.at = "idle" /\ Rest.todo = {}
    BY DEF Rest, IsProcess
  <2> QED
    BY <1>2, <2>1
<1>5. Set(p, Down) => IsProcess(proc'[p]) /\ proc'[p].at = "closed" /\ proc'[p].todo = {}
  <2>1. IsProcess(Down) /\ Down.at = "closed" /\ Down.todo = {}
    BY DEF Down, IsProcess
  <2> QED
    BY <1>2, <2>1
<1>6. Abort(p) => /\ IsProcess(proc'[p]) /\ proc'[p].at \in {"idle", "closed"}
                  /\ proc'[p].todo = {}
  BY <1>4, <1>5 DEF Abort
<1>7. Return(p) => /\ IsProcess(proc'[p]) /\ proc'[p].at \in {"idle", "recover"}
                   /\ proc'[p].todo \subseteq proc[p].todo
  BY <1>3, <1>4 DEF Return
<1> QED
  BY <1>1, <1>2, <1>3, <1>4, <1>5, <1>6, <1>7

-----------------------------------------------------------------------------
(* Steps that leave the database alone *)

\* One process moves and the database does not change: what is left to show.
LEMMA Kept ==
    ASSUME ConstantsOK, IInv, [Next]_vars, NEW p, Processes = {p}, NEW new, Set(p, new),
           IsProcess(proc'[p]), UNCHANGED db, Files', Chain', DistributedIsPublished',
           work' = [packages |-> work'.packages, checkpoint |-> work'.checkpoint,
                    snapshot |-> work'.snapshot, timestamp |-> work'.timestamp],
           work'.packages = [r \in Releases |-> work'.packages[r]],
           Rows(p)', Under(p)', Progress(p)'
    PROVE  IInv'
<1>1. Shaped'
  <2>1. proc' = [q \in Processes |-> proc'[q]]
    BY DEF IInv, Shaped, Set
  <2>2. \A q \in Processes :
          proc'[q] = [at |-> proc'[q].at, m |-> proc'[q].m, item |-> proc'[q].item,
                      opening |-> proc'[q].opening, todo |-> proc'[q].todo]
    BY DEF IsProcess
  <2> QED
    BY <2>1, <2>2 DEF IInv, Shaped
<1>2. Tables' /\ Bounded'
  BY BoundedKept DEF IInv, Tables
<1>3. LoggedOnce' /\ \A i \in 1..Len(db'.log) : Recorded(i)'
  BY DEF IInv, Index, LoggedOnce, Recorded
<1> QED
  BY <1>1, <1>2, <1>3 DEF IInv, Index

\* The same when the index does not change either and archives are only added.
LEMMA Moves ==
    ASSUME ConstantsOK, IInv, [Next]_vars, NEW p, Processes = {p}, NEW new, Set(p, new),
           IsProcess(proc'[p]), UNCHANGED <<db, trees>>,
           cas \subseteq cas', cas' \subseteq Blobs, temporary' \subseteq Blobs,
           trash' \subseteq (DOMAIN db.plans) \X Blobs,
           Rows(p)', Under(p)', Progress(p)'
    PROVE  IInv'
<1>1. UNCHANGED <<work, staged, head, remote>>
  BY DEF trees
<1>2. Files'
  BY DEF IInv, Files, ArchivesServed
<1>3. Chain'
  BY <1>1 DEF IInv, Index, Chain, Later, Committed
<1>4. DistributedIsPublished'
  BY <1>1 DEF IInv, Index, DistributedIsPublished, Carries
<1> QED
  BY <1>1, <1>2, <1>3, <1>4, Kept DEF IInv, Shaped

\* Rows keep their archives while no collection is under way.
LEMMA RowsKept ==
    ASSUME IInv, NEW p \in Processes, UNCHANGED db, cas \subseteq cas',
           proc[p].at \notin Sweeping \cup {"closed"}, proc'[p].at \notin Sweeping
    PROVE  Rows(p)'
<1>1. DOMAIN db.blobs \subseteq cas
  BY DEF IInv, Rows
<1>2. proc'[p].at # "delete"
  BY DEF Sweeping
<1> QED
  BY <1>1, <1>2 DEF Rows

\* A call that ends, or fails, outside a collection.
LEMMA Quiet ==
    ASSUME ConstantsOK, IInv, [Next]_vars, NEW p, Processes = {p}, NEW new, Set(p, new),
           IsProcess(proc'[p]), UNCHANGED <<db, cas, trees>>,
           temporary' \subseteq Blobs, trash' \subseteq trash,
           proc[p].at \notin Sweeping \cup {"closed"},
           proc'[p].at \in {"idle", "closed", "recover"},
           proc'[p].todo \subseteq 1..Len(db.log)
    PROVE  IInv'
<1>1. Rows(p)'
  BY RowsKept DEF Sweeping
<1>2. Under(p)' /\ Progress(p)'
  BY DEF Under, Progress, Distributing
<1> QED
  BY <1>1, <1>2, Moves DEF IInv, Files

\* A call that starts to distribute a mutation or to seal the index.
LEMMA Starts ==
    ASSUME ConstantsOK, IInv, [Next]_vars, NEW p, Processes = {p}, NEW new, Set(p, new),
           IsProcess(proc'[p]), UNCHANGED <<db, files, trees>>,
           proc[p].at \notin Sweeping \cup {"closed"},
           \/ proc'[p].at = "entry"
           \/ proc'[p].at = "seal" /\ proc'[p].item = "trust",
           proc'[p].m \in 1..Len(db.log), proc'[p].todo \subseteq 1..Len(db.log)
    PROVE  IInv'
<1>1. Rows(p)'
  BY RowsKept DEF Sweeping, files
<1>2. Under(p)' /\ Progress(p)'
  BY DEF Under, Progress, Distributing
<1> QED
  BY <1>1, <1>2, Moves DEF IInv, Files, files

\* A set of indexes that is not empty has its least one in it.
LEMMA LeastIn ==
    ASSUME NEW S, S \subseteq Nat, S # {}
    PROVE  Least(S) \in S
<1>1. IsWellFoundedOn(OpToRel(<, Nat), Nat)
  BY NatLessThanWellFounded
<1>2. PICK i \in S : \A j \in S : ~ (<<j, i>> \in OpToRel(<, Nat))
  BY <1>1, WFMin
<1>3. \A j \in S : ~(j < i)
  BY <1>2, Zenon DEF OpToRel
<1>4. \A j \in S : i <= j
  BY <1>3
<1> QED
  BY <1>2, <1>4 DEF Least

\* open: the trash of plans that are not applied is back in its place.
LEMMA Opens ==
    ASSUME ConstantsOK, IInv, [Next]_vars, NEW p, Processes = {p}, open(p)
    PROVE  IInv'
<1> DEFINE new == [proc[p] EXCEPT !.at = "recover", !.todo = Pending]
<1>1. Set(p, new) /\ proc'[p] = new /\ IsProcess(proc[p])
  BY Ends DEF open
<1>2. IsProcess(proc'[p]) /\ proc'[p].at = "recover" /\ proc'[p].todo = Pending
  BY <1>1 DEF IsProcess
<1>3. Pending \subseteq 1..Len(db.log)
  BY DEF Pending
<1>4. proc[p].at = "closed" /\ trash' = {} /\ UNCHANGED <<db, temporary, trees>>
      /\ cas' = cas \cup {t[2] : t \in {u \in trash : ~db.plans[u[1]].applied}}
  BY DEF open, At, recoverGcTrash
<1>5. \A g, b : <<g, b>> \in trash /\ ~db.plans[g].applied => b \in cas'
  <2> SUFFICES ASSUME NEW g, NEW b, <<g, b>> \in trash, ~db.plans[g].applied
               PROVE  b \in {t[2] : t \in {u \in trash : ~db.plans[u[1]].applied}}
    BY <1>4
  <2> DEFINE u == <<g, b>>
  <2>1. u \in trash /\ u[1] = g /\ u[2] = b
    OBVIOUS
  <2> QED
    BY <2>1
<1>6. cas \subseteq cas' /\ cas' \subseteq Blobs
  BY <1>4 DEF IInv, Files
<1>7. DOMAIN db.blobs \subseteq cas'
  BY <1>4, <1>5, <1>6 DEF IInv, Rows, InTrash
<1>8. Rows(p)'
  BY <1>2, <1>4, <1>7 DEF Rows, Sweeping
<1>9. Under(p)' /\ Progress(p)'
  BY <1>2, <1>3, <1>4 DEF Under, Progress, Distributing
<1> HIDE DEF new
<1> QED
  BY <1>1, <1>2, <1>4, <1>6, <1>8, <1>9, Moves DEF IInv, Files

\* recover: the next mutation that was pending, or the end of open.
LEMMA Recovers ==
    ASSUME ConstantsOK, IInv, [Next]_vars, NEW p, Processes = {p}, recover(p)
    PROVE  IInv'
<1>1. proc[p].at = "recover" /\ UNCHANGED <<db, files, trees>>
  BY DEF recover, At
<1>2. proc[p].todo \subseteq 1..Len(db.log) /\ IsProcess(proc[p])
  BY Ends DEF IInv, Under
<1>3. CASE proc[p].todo = {}
  <2>1. Set(p, Rest)
    BY <1>3 DEF recover
  <2>2. IsProcess(proc'[p]) /\ proc'[p].at = "idle" /\ proc'[p].todo = {}
    BY <2>1, Ends
  <2> QED
    BY <1>1, <2>1, <2>2, Quiet DEF files, Sweeping, IInv, Files
<1>4. CASE proc[p].todo # {}
  <2> DEFINE i == Least(proc[p].todo)
             new == [proc[p] EXCEPT !.at = "entry", !.m = i, !.todo = @ \ {i}]
  <2>1. i \in proc[p].todo
    BY <1>2, <1>4, LeastIn
  <2>2. Set(p, new)
    BY <1>4 DEF recover
  <2>3. proc'[p] = new
    BY <2>2, Ends
  <2> HIDE DEF i
  <2>4. /\ IsProcess(proc'[p]) /\ proc'[p].at = "entry" /\ proc'[p].m = i
        /\ proc'[p].todo = proc[p].todo \ {i}
    BY <1>2, <2>3 DEF IsProcess
  <2>5. proc'[p].m \in 1..Len(db.log) /\ proc'[p].todo \subseteq 1..Len(db.log)
    BY <1>2, <2>1, <2>4
  <2> HIDE DEF new
  <2> QED
    BY <1>1, <2>2, <2>4, <2>5, Starts DEF Sweeping
<1> QED
  BY <1>3, <1>4

\* A retry goes on with the mutation that is in the log.
LEMMA Retries ==
    ASSUME ConstantsOK, IInv, [Next]_vars, NEW p, Processes = {p}, At(p, "idle"),
           NEW id, Retry(p, id)
    PROVE  IInv'
<1>1. PICK i \in Logged(id) \ db.distributed :
          Set(p, [proc[p] EXCEPT !.at = "entry", !.m = i])
  BY DEF Retry
<1> DEFINE new == [proc[p] EXCEPT !.at = "entry", !.m = i]
<1>2. Set(p, new) /\ proc'[p] = new /\ IsProcess(proc[p])
  BY <1>1, Ends
<1>3. /\ IsProcess(proc'[p]) /\ proc'[p].at = "entry" /\ proc'[p].m = i
      /\ proc'[p].todo = proc[p].todo
  BY <1>2 DEF IsProcess
<1>4. proc'[p].m \in 1..Len(db.log) /\ proc'[p].todo \subseteq 1..Len(db.log)
  BY <1>1, <1>3 DEF Logged, IInv, Under
<1>5. proc[p].at = "idle" /\ UNCHANGED <<db, files, trees>>
  BY DEF At, Retry
<1> HIDE DEF new
<1> QED
  BY <1>2, <1>3, <1>4, <1>5, Starts DEF Sweeping

\* publish: a retry, or a new mutation whose archive is to be copied.
LEMMA Publishes ==
    ASSUME ConstantsOK, IInv, [Next]_vars, NEW p, Processes = {p},
           NEW q \in Requests, publish(p, q)
    PROVE  IInv'
<1>1. proc[p].at = "idle" /\ IsProcess(proc[p])
  BY Ends DEF publish, Called, At
<1>2. CASE Retry(p, q)
  BY <1>1, <1>2, Retries DEF At
<1>3. CASE ~Retry(p, q)
  <2> DEFINE new == [proc[p] EXCEPT !.at = "copy", !.item = q]
  <2>1. Logged(q) = {} /\ Set(p, new) /\ UNCHANGED <<db, files, trees>>
    BY <1>3 DEF publish
  <2>2. proc'[p] = new
    BY <2>1, Ends
  <2>3. /\ IsProcess(proc'[p]) /\ proc'[p].at = "copy" /\ proc'[p].item = q
        /\ proc'[p].todo = proc[p].todo
    BY <1>1, <2>2 DEF IsProcess
  <2> HIDE DEF new
  <2>4. Rows(p)'
    BY <1>1, <2>1, <2>3, RowsKept DEF Sweeping, files
  <2>5. Under(p)' /\ Progress(p)'
    <3>1. Logged(proc[p].item)' = {}
      BY <2>1, <2>3 DEF Logged
    <3>2. Under(p)'
      BY <2>1, <2>3, <3>1 DEF Under, Distributing, IInv
    <3> QED
      BY <2>3, <3>2 DEF Progress
  <2> QED
    BY <2>1, <2>3, <2>4, <2>5, Moves DEF IInv, Files, files
<1> QED
  BY <1>2, <1>3

\* copyIntoCas: the archive is staged, and then in its place.
LEMMA Copies ==
    ASSUME ConstantsOK, IInv, [Next]_vars, NEW p, Processes = {p}, copyIntoCas(p)
    PROVE  IInv'
<1> DEFINE b == proc[p].item.blob
<1>1. /\ proc[p].at = "copy" /\ IsProcess(proc[p]) /\ UNCHANGED <<db, trash, trees>>
      /\ proc[p].item \in Requests /\ b \in Blobs
  BY Ends DEF copyIntoCas, At, IInv, Under, Blobs
<1>2. CASE UNCHANGED proc
  <2>1. UNCHANGED cas /\ temporary' \subseteq temporary \cup {b}
    <3>1. ~Go(p, "transaction")
      <4>1. SUFFICES ASSUME Go(p, "transaction") PROVE FALSE
        OBVIOUS
      <4>2. proc'[p].at = "transaction"
        BY <4>1, Ends
      <4> QED
        BY <1>1, <1>2, <4>2
    <3> QED
      BY <3>1 DEF copyIntoCas
  <2>2. Set(p, proc[p])
    BY <1>2 DEF Set, IInv, Shaped
  <2>3. Rows(p)'
    BY <1>1, <1>2, <2>1, RowsKept DEF Sweeping
  <2>4. Under(p)' /\ Progress(p)'
    BY <1>1, <1>2, <2>1 DEF IInv, Under, Progress, Distributing, Logged
  <2> QED
    BY <1>1, <1>2, <2>1, <2>2, <2>3, <2>4, Moves DEF IInv, Files
<1>3. CASE Go(p, "transaction")
  <2>1. /\ IsProcess(proc'[p]) /\ proc'[p].at = "transaction"
        /\ proc'[p].item = proc[p].item /\ proc'[p].todo = proc[p].todo
    BY <1>3, Ends
  <2>2. proc' # proc
    BY <1>1, <2>1
  <2>3. cas' = cas \cup {b} /\ temporary' \subseteq temporary
    BY <2>2 DEF copyIntoCas
  <2>4. Rows(p)'
    BY <1>1, <2>1, <2>3, RowsKept DEF Sweeping
  <2>5. Under(p)' /\ Progress(p)'
    <3>1. Logged(proc[p].item)' = {}
      BY <1>1, <2>1 DEF Logged, IInv, Under
    <3>2. Under(p)'
      BY <1>1, <2>1, <2>3, <3>1 DEF Under, Distributing, IInv
    <3> QED
      BY <2>1, <3>2 DEF Progress
  <2> QED
    BY <1>1, <1>3, <2>1, <2>3, <2>4, <2>5, Moves DEF IInv, Files, Go
<1> QED
  BY <1>2, <1>3 DEF copyIntoCas

\* A step that fails, outside a collection.
LEMMA Failures ==
    ASSUME ConstantsOK, IInv, [Next]_vars, NEW p, Processes = {p},
           CopyFails(p) \/ StepFails(p)
    PROVE  IInv'
<1>1. /\ Abort(p) /\ UNCHANGED <<db, cas, trash, trees>> /\ temporary' \subseteq temporary
      /\ proc[p].at \notin Sweeping \cup {"closed"}
  BY DEF CopyFails, StepFails, Fail, files, At, Sweeping
<1>2. PICK new : Set(p, new)
  BY <1>1 DEF Abort
<1>3. /\ IsProcess(proc'[p]) /\ proc'[p].at \in {"idle", "closed"} /\ proc'[p].todo = {}
  BY <1>1, Ends
<1> QED
  BY <1>1, <1>2, <1>3, Quiet DEF IInv, Files

\* A crash: what a collection has renamed is in the trash of its plan.
LEMMA Crashes ==
    ASSUME ConstantsOK, IInv, [Next]_vars, NEW p, Processes = {p}, Crash(p)
    PROVE  IInv'
<1>1. /\ proc[p].at # "closed" /\ Set(p, Down) /\ UNCHANGED <<db, cas, temporary, trash, trees>>
  BY DEF Crash, At, files
<1>2. IsProcess(proc'[p]) /\ proc'[p].at = "closed" /\ proc'[p].todo = {}
  BY <1>1, Ends
<1>3. DOMAIN db.blobs \subseteq cas \cup InTrash
  <2>1. CASE proc[p].at \notin Sweeping
    BY <1>1, <2>1 DEF IInv, Rows
  <2>2. CASE proc[p].at \in Sweeping
    <3>1. proc[p].item.renamed \subseteq InTrash
      BY <2>2 DEF IInv, Rows, InTrash, Files
    <3> QED
      BY <2>2, <3>1 DEF IInv, Rows
  <2> QED
    BY <2>1, <2>2
<1>4. InTrash' = InTrash
  BY <1>1 DEF InTrash
<1>5. Rows(p)'
  BY <1>1, <1>2, <1>3, <1>4 DEF Rows, Sweeping
<1>6. Under(p)' /\ Progress(p)'
  BY <1>2 DEF Under, Progress, Distributing
<1> QED
  BY <1>1, <1>2, <1>5, <1>6, Moves DEF IInv, Files

\* A collection starts with nothing renamed.
LEMMA Applies ==
    ASSUME ConstantsOK, IInv, [Next]_vars, NEW p, Processes = {p},
           NEW g \in DOMAIN db.plans, applyGarbageCollection(p, g)
    PROVE  IInv'
<1> DEFINE it == [plan |-> g, renamed |-> {}]
           new == [proc[p] EXCEPT !.at = "sweep", !.item = it]
<1>1. /\ proc[p].at = "idle" /\ ~db.plans[g].applied /\ Set(p, new)
      /\ UNCHANGED <<db, cas, temporary, trash, trees>>
  BY DEF applyGarbageCollection, Called, At, files
<1>2. proc'[p] = new /\ IsProcess(proc[p])
  BY <1>1, Ends
<1>3. it.plan = g /\ it.renamed = {} /\ it = [plan |-> it.plan, renamed |-> it.renamed]
  OBVIOUS
<1> HIDE DEF it
<1>4. /\ IsProcess(proc'[p]) /\ proc'[p].at = "sweep" /\ proc'[p].item = it
      /\ proc'[p].todo = proc[p].todo
  BY <1>2 DEF IsProcess
<1> HIDE DEF new
<1>5. Rows(p)'
  <2>1. DOMAIN db.blobs \subseteq cas
    BY <1>1 DEF IInv, Rows, Sweeping
  <2> QED
    BY <1>1, <1>3, <1>4, <2>1 DEF Rows, Sweeping
<1>6. Under(p)' /\ Progress(p)'
  BY <1>1, <1>4 DEF IInv, Under, Progress, Distributing
<1> QED
  BY <1>1, <1>4, <1>5, <1>6, Moves DEF IInv, Files

\* A collection that gives up puts back what it has renamed.
LEMMA Restored ==
    ASSUME ConstantsOK, IInv, [Next]_vars, NEW p, Processes = {p}, proc[p].at \in Sweeping,
           Restore(proc[p].item.plan, proc[p].item.renamed), Set(p, Rest),
           UNCHANGED <<db, temporary, trees>>
    PROVE  IInv'
<1>1. IsProcess(proc'[p]) /\ proc'[p].at = "idle" /\ proc'[p].todo = {}
  BY Ends
<1>2. trash' \subseteq trash /\ cas' = cas \cup proc[p].item.renamed
  BY DEF Restore, IInv, Rows
<1>3. proc[p].item.renamed \subseteq Blobs
  BY DEF IInv, Rows, Files
<1>4. Rows(p)'
  <2>1. DOMAIN db.blobs \subseteq cas'
    BY <1>2 DEF IInv, Rows
  <2> QED
    BY <1>1, <2>1 DEF Rows, Sweeping
<1>5. Under(p)' /\ Progress(p)'
  BY <1>1 DEF Under, Progress, Distributing
<1> QED
  BY <1>1, <1>2, <1>3, <1>4, <1>5, Moves DEF IInv, Files

\* Sweep: what is renamed has no variant and is in the trash of the plan.
LEMMA Sweeps ==
    ASSUME ConstantsOK, IInv, [Next]_vars, NEW p, Processes = {p}, Sweep(p)
    PROVE  IInv'
<1> DEFINE g == proc[p].item.plan
           rest == db.plans[g].blobs \ proc[p].item.renamed
<1>1. /\ proc[p].at = "sweep" /\ UNCHANGED <<db, temporary, trees>> /\ IsProcess(proc[p])
  BY Ends DEF Sweep, At
<1>2. /\ g \in DOMAIN db.plans /\ ~db.plans[g].applied
      /\ proc[p].item = [plan |-> g, renamed |-> proc[p].item.renamed]
      /\ proc[p].item.renamed \subseteq db.plans[g].blobs
      /\ \A b \in proc[p].item.renamed : <<g, b>> \in trash /\ ~Referenced(b)
      /\ DOMAIN db.blobs \subseteq cas \cup proc[p].item.renamed
  BY <1>1 DEF IInv, Rows, Sweeping
<1>3. ASSUME NEW b \in rest, Eligible(db.blobs, b), b \in cas, cas' = cas \ {b},
             trash' = trash \cup {<<g, b>>},
             Set(p, [proc[p] EXCEPT !.item.renamed = @ \cup {b}])
      PROVE  IInv'
  <2> DEFINE new == [proc[p] EXCEPT !.item.renamed = @ \cup {b}]
             it == proc'[p].item
  <2>1. Set(p, new) /\ proc'[p] = new
    BY <1>3, Ends
  <2>2. /\ IsProcess(proc'[p]) /\ proc'[p].at = "sweep" /\ proc'[p].todo = proc[p].todo
        /\ it.plan = g /\ it.renamed = proc[p].item.renamed \cup {b}
        /\ it = [plan |-> it.plan, renamed |-> it.renamed]
    BY <1>1, <1>2, <2>1 DEF IsProcess
  <2> HIDE DEF new
  <2>3. ~Referenced(b)
    BY <1>3 DEF Eligible
  <2>4. Files'
    <3>1. ArchivesServed'
      BY <1>1, <1>3, <2>3 DEF ArchivesServed, Referenced, IInv, Files
    <3>2. trash' \subseteq (DOMAIN db.plans) \X Blobs
      BY <1>2, <1>3 DEF IInv, Files
    <3> QED
      BY <1>1, <1>3, <3>1, <3>2 DEF IInv, Files
  <2>5. Rows(p)'
    <3>1. \A c \in it.renamed : <<g, c>> \in trash' /\ ~Referenced(c)
      BY <1>2, <1>3, <2>2, <2>3
    <3>2. it.renamed \subseteq db.plans[g].blobs
          /\ DOMAIN db.blobs \subseteq cas' \cup it.renamed
      BY <1>2, <1>3, <2>2
    <3>3. \A c : Referenced(c)' <=> Referenced(c)
      BY <1>1 DEF Referenced
    <3> QED
      BY <1>1, <1>2, <2>2, <3>1, <3>2, <3>3 DEF Rows, Sweeping
  <2>6. Under(p)' /\ Progress(p)'
    BY <1>1, <2>2 DEF IInv, Under, Progress, Distributing
  <2>7. UNCHANGED <<work, staged, head, remote>>
    BY <1>1 DEF trees
  <2>8. Chain' /\ DistributedIsPublished'
    BY <1>1, <2>7 DEF IInv, Index, Chain, Later, Committed, DistributedIsPublished, Carries
  <2> QED
    BY <1>1, <2>1, <2>2, <2>4, <2>5, <2>6, <2>7, <2>8, Kept DEF IInv, Shaped
<1>4. CASE Restore(g, proc[p].item.renamed) /\ Set(p, Rest)
  BY <1>1, <1>4, Restored DEF Sweeping
<1>5. CASE rest = {} /\ Go(p, "delete") /\ UNCHANGED <<cas, trash>>
  <2>1. /\ IsProcess(proc'[p]) /\ proc'[p].at = "delete" /\ proc'[p].item = proc[p].item
        /\ proc'[p].todo = proc[p].todo
    BY <1>5, Ends
  <2>2. Rows(p)'
    <3>1. \A c : Referenced(c)' <=> Referenced(c)
      BY <1>1 DEF Referenced
    <3> QED
      BY <1>1, <1>2, <1>5, <2>1, <3>1 DEF Rows, Sweeping
  <2>3. Under(p)' /\ Progress(p)'
    BY <1>1, <2>1 DEF IInv, Under, Progress, Distributing
  <2> QED
    BY <1>1, <1>5, <2>1, <2>2, <2>3, Moves DEF IInv, Files, Go
<1> QED
  BY <1>3, <1>4, <1>5 DEF Sweep

\* A rename or the transaction of a collection fails.
LEMMA SweepsFail ==
    ASSUME ConstantsOK, IInv, [Next]_vars, NEW p, Processes = {p}, SweepFails(p)
    PROVE  IInv'
  BY Restored DEF SweepFails, At, Sweeping

\* The trash of an applied plan is removed.
LEMMA Removes ==
    ASSUME ConstantsOK, IInv, [Next]_vars, NEW p, Processes = {p}, RemoveTrash(p)
    PROVE  IInv'
<1>1. /\ proc[p].at = "clean" /\ Set(p, Rest) /\ UNCHANGED <<db, cas, temporary, trees>>
      /\ trash' \subseteq trash
  BY DEF RemoveTrash, At
<1>2. IsProcess(proc'[p]) /\ proc'[p].at = "idle" /\ proc'[p].todo = {}
  BY <1>1, Ends
<1> QED
  BY <1>1, <1>2, Quiet DEF IInv, Files, Sweeping

-----------------------------------------------------------------------------
(* Distribution *)

\* The rows of the log name releases, and their mutations are recorded.
LEMMA LogFacts ==
    ASSUME ConstantsOK, IInv, NEW i \in 1..Len(db.log)
    PROVE  /\ db.log[i].release \in Releases /\ db.log[i].release \in DOMAIN db.states
           /\ i \in Nat
<1>1. db.log[i] \in Row
  BY DEF IInv, Tables
<1>2. db.log[i].release \in Releases
  BY <1>1 DEF Row, ConstantsOK
<1> QED
  BY <1>2 DEF IInv, Index, Recorded

\* Each link of the chain takes back nothing of itself.
LEMMA ChainFacts ==
    ASSUME IInv, NEW r \in Releases
    PROVE  /\ Later(remote.packages[r], remote.packages[r])
           /\ Later(head.packages[r], head.packages[r])
           /\ Later(staged.packages[r], staged.packages[r])
           /\ Later(work.packages[r], work.packages[r])
           /\ Later(remote.packages[r], head.packages[r])
           /\ Later(head.packages[r], staged.packages[r])
           /\ Later(staged.packages[r], work.packages[r])
           /\ Later(remote.packages[r], staged.packages[r])
           /\ Later(head.packages[r], work.packages[r])
           /\ Committed(r, work.packages[r])
<1>1. /\ Later(remote.packages[r], head.packages[r])
      /\ Later(head.packages[r], staged.packages[r])
      /\ Later(staged.packages[r], work.packages[r])
      /\ Committed(r, work.packages[r])
  BY DEF IInv, Index, Chain
<1>2. Later(work.packages[r], work.packages[r])
  BY <1>1 DEF Later, Committed
<1> QED
  BY <1>1, <1>2, LaterFacts

\* A step of the distribution of one mutation: what is left to show.
LEMMA Distributes ==
    ASSUME ConstantsOK, IInv, [Next]_vars, NEW p, Processes = {p}, NEW new, Set(p, new),
           IsProcess(proc'[p]), UNCHANGED <<db, files>>, proc[p].at \in Distributing,
           proc'[p].at \in Distributing \cup {"idle", "closed", "recover"},
           proc'[p].at \in Distributing => proc'[p].m = proc[p].m,
           proc'[p].todo \subseteq proc[p].todo,
           \A r \in Releases : /\ Later(remote.packages[r], remote'.packages[r])
                               /\ Later(remote'.packages[r], head'.packages[r])
                               /\ Later(head'.packages[r], staged'.packages[r])
                               /\ Later(staged'.packages[r], work'.packages[r])
                               /\ Committed(r, work'.packages[r]),
           work' = [packages |-> work'.packages, checkpoint |-> work'.checkpoint,
                    snapshot |-> work'.snapshot, timestamp |-> work'.timestamp],
           work'.packages = [r \in Releases |-> work'.packages[r]],
           Progress(p)'
    PROVE  IInv'
<1>1. UNCHANGED <<db, cas, temporary, trash>>
  BY DEF files
<1>2. Files'
  BY <1>1 DEF IInv, Files, ArchivesServed
<1>3. Chain'
  BY DEF Chain, Committed
<1>4. DistributedIsPublished'
  <2> SUFFICES ASSUME NEW i \in db.distributed
               PROVE  Carries(remote.packages[db.log[i].release], i)'
    BY DEF DistributedIsPublished
  <2>1. i \in 1..Len(db.log)
    BY DEF IInv, Tables
  <2>2. PICK r \in Releases : r = db.log[i].release /\ i \in Nat
    BY <2>1, LogFacts
  <2>3. Carries(remote.packages[r], i)
    BY <2>2 DEF IInv, Index, DistributedIsPublished
  <2>4. Later(remote.packages[r], remote'.packages[r])
    OBVIOUS
  <2>5. Carries(remote'.packages[r], i)
    BY <2>2, <2>3, <2>4, LaterFacts
  <2> QED
    BY <2>2, <2>5 DEF Carries
<1>5. Rows(p)'
  <2>1. proc[p].at \notin Sweeping \cup {"closed"} /\ proc'[p].at \notin Sweeping
    BY DEF Distributing, Sweeping
  <2> QED
    BY <1>1, <2>1, RowsKept
<1>6. Under(p)'
  <2>1. proc[p].m \in 1..Len(db.log) /\ proc[p].todo \subseteq 1..Len(db.log)
    BY DEF IInv, Under
  <2>2. proc'[p].at \notin {"copy", "transaction"}
    BY DEF Distributing
  <2> QED
    BY <2>1, <2>2 DEF Under
<1> QED
  BY <1>2, <1>3, <1>4, <1>5, <1>6, Kept

\* The package entry is written: it carries the mutation.
LEMMA Writes ==
    ASSUME ConstantsOK, IInv, [Next]_vars, NEW p, Processes = {p}, WriteEntry(p)
    PROVE  IInv'
<1> DEFINE new == [proc[p] EXCEPT !.at = "seal", !.item = "packages"]
           m == proc[p].m
<1>1. /\ proc[p].at = "entry" /\ UNCHANGED <<db, files, staged, head, remote>> /\ Set(p, new)
      /\ work' = [work EXCEPT !.packages[db.log[m].release] = Entry(db.log[m].release)]
  BY DEF WriteEntry, At
<1>2. proc'[p] = new /\ IsProcess(proc[p])
  BY <1>1, Ends
<1>3. /\ IsProcess(proc'[p]) /\ proc'[p].at = "seal" /\ proc'[p].m = m
      /\ proc'[p].item = "packages" /\ proc'[p].todo = proc[p].todo
  BY <1>2 DEF IsProcess
<1> HIDE DEF new
<1>4. m \in 1..Len(db.log)
  BY <1>1 DEF IInv, Under, Distributing
<1>5. PICK r : r = db.log[m].release
  OBVIOUS
<1>6. r \in Releases /\ r \in DOMAIN db.states /\ m \in Nat
  BY <1>4, <1>5, LogFacts
<1>7. PICK e : e = Entry(r)
  OBVIOUS
<1>8. Later(work.packages[r], e) /\ Committed(r, e) /\ Carries(e, m)
  BY <1>4, <1>5, <1>6, <1>7, Rendered
<1>9. work' = [work EXCEPT !.packages[r] = e]
  BY <1>1, <1>5, <1>7
<1>10. /\ work'.packages = [work.packages EXCEPT ![r] = e]
       /\ work' = [packages |-> work'.packages, checkpoint |-> work'.checkpoint,
                   snapshot |-> work'.snapshot, timestamp |-> work'.timestamp]
  BY <1>9 DEF IInv, Shaped
<1>11. /\ work'.packages[r] = e
       /\ \A s \in Releases : s # r => work'.packages[s] = work.packages[s]
       /\ work'.packages = [s \in Releases |-> work'.packages[s]]
  BY <1>6, <1>10 DEF IInv, Shaped
<1>12. \A s \in Releases : /\ Later(staged.packages[s], work'.packages[s])
                           /\ Committed(s, work'.packages[s])
  <2> SUFFICES ASSUME NEW s \in Releases
               PROVE  /\ Later(staged.packages[s], work'.packages[s])
                      /\ Committed(s, work'.packages[s])
    OBVIOUS
  <2>1. CASE s = r
    BY <1>8, <1>11, <2>1, ChainFacts, LaterFacts
  <2>2. CASE s # r
    BY <1>11, <2>2, ChainFacts
  <2> QED
    BY <2>1, <2>2
<1>13. Progress(p)'
  <2>1. Reached(p, work)'
    BY <1>1, <1>3, <1>5, <1>8, <1>11 DEF Reached, Carries
  <2> QED
    BY <1>3, <2>1 DEF Progress
<1> QED
  BY <1>1, <1>3, <1>10, <1>11, <1>12, <1>13, ChainFacts, Distributes DEF Distributing

\* Trust metadata of the worktree changes, or is rolled back; the packages stay.
LEMMA Seals ==
    ASSUME ConstantsOK, IInv, [Next]_vars, NEW p, Processes = {p},
           \/ SealCheckpoint(p) \/ SealSnapshot(p) \/ SealTimestamp(p) \/ SealRollback(p)
    PROVE  IInv'
<1>1. /\ UNCHANGED <<db, files, staged, head, remote>> /\ proc[p].at \in Distributing
      /\ IsProcess(proc[p])
  BY Ends DEF SealCheckpoint, SealSnapshot, SealTimestamp, SealRollback, At, Distributing
<1>2. /\ work'.packages = work.packages
      /\ work' = [packages |-> work'.packages, checkpoint |-> work'.checkpoint,
                  snapshot |-> work'.snapshot, timestamp |-> work'.timestamp]
  <2>1. CASE SealCheckpoint(p)
    BY <2>1 DEF SealCheckpoint, IInv, Shaped
  <2>2. CASE SealSnapshot(p)
    BY <2>2 DEF SealSnapshot, IInv, Shaped
  <2>3. CASE SealTimestamp(p)
    BY <2>3 DEF SealTimestamp, IInv, Shaped
  <2>4. CASE SealRollback(p)
    <3>1. PICK undone \in SUBSET {"checkpoint", "snapshot"} :
            work' = [f \in DOMAIN work |->
                       IF f \in undone THEN proc[p].item.old[f] ELSE work[f]]
      BY <2>4 DEF SealRollback
    <3>2. DOMAIN work = {"packages", "checkpoint", "snapshot", "timestamp"}
      BY DEF IInv, Shaped
    <3> QED
      BY <3>1, <3>2
  <2> QED
    BY <2>1, <2>2, <2>3, <2>4
<1>3. work'.packages = [r \in Releases |-> work'.packages[r]]
  BY <1>2 DEF IInv, Shaped
<1>4. ASSUME NEW new, Set(p, new), IsProcess(proc'[p]),
             proc'[p].at \in Distributing \cup {"idle", "closed", "recover"},
             proc'[p].at \in Distributing => proc'[p].m = proc[p].m,
             proc'[p].todo \subseteq proc[p].todo,
             Progress(p)'
      PROVE  IInv'
  BY <1>1, <1>2, <1>3, <1>4, ChainFacts, Distributes
<1>5. ASSUME Reached(p, work), proc'[p].m = proc[p].m PROVE Reached(p, work)'
  BY <1>1, <1>2, <1>5 DEF Reached, Carries
<1>6. CASE SealCheckpoint(p)
  <2> DEFINE it == [scope |-> proc[p].item, old |-> work,
                    new |-> [packages |-> work.packages, checkpoint |-> proc[p].m]]
             new == [proc[p] EXCEPT !.at = "snapshot", !.item = it]
  <2>1. proc[p].at = "seal" /\ Set(p, new)
    BY <1>6 DEF SealCheckpoint, At
  <2>2. proc'[p] = new
    BY <2>1, Ends
  <2>3. it.scope = proc[p].item
    OBVIOUS
  <2> HIDE DEF it
  <2>4. /\ IsProcess(proc'[p]) /\ proc'[p].at = "snapshot" /\ proc'[p].m = proc[p].m
        /\ proc'[p].item = it /\ proc'[p].todo = proc[p].todo
    BY <1>1, <2>2 DEF IsProcess
  <2> HIDE DEF new
  <2>5. Progress(p)'
    <3>1. proc'[p].item.scope = "packages" => Reached(p, work)'
      BY <1>5, <2>1, <2>3, <2>4 DEF IInv, Progress
    <3> QED
      BY <2>4, <3>1 DEF Progress
  <2> QED
    BY <1>4, <2>1, <2>4, <2>5 DEF Distributing
<1>7. CASE SealSnapshot(p) \/ SealTimestamp(p)
  <2>1. PICK where \in {"timestamp", "add"} : Go(p, where)
    BY <1>7 DEF SealSnapshot, SealTimestamp
  <2>2. /\ IsProcess(proc'[p]) /\ proc'[p].at = where /\ proc'[p].m = proc[p].m
        /\ proc'[p].item = proc[p].item /\ proc'[p].todo = proc[p].todo
    BY <2>1, Ends
  <2>3. Progress(p)'
    <3>1. proc[p].at \in {"snapshot", "timestamp"}
      BY <1>7 DEF SealSnapshot, SealTimestamp, At
    <3>2. proc'[p].item.scope = "packages" => Reached(p, work)'
      BY <1>5, <2>2, <3>1 DEF IInv, Progress
    <3> QED
      BY <2>1, <2>2, <3>2 DEF Progress
  <2> QED
    BY <1>4, <2>1, <2>2, <2>3 DEF Distributing, Go
<1>8. CASE SealRollback(p)
  <2>1. Abort(p)
    BY <1>8 DEF SealRollback
  <2>2. /\ IsProcess(proc'[p]) /\ proc'[p].at \in {"idle", "closed"} /\ proc'[p].todo = {}
    BY <2>1, Ends
  <2>3. Progress(p)'
    BY <2>2 DEF Progress
  <2> QED
    BY <1>4, <2>1, <2>2, <2>3 DEF Distributing, Abort
<1> QED
  BY <1>6, <1>7, <1>8

\* The trees of Git follow the worktree: add, commit and push.
LEMMA Gits ==
    ASSUME ConstantsOK, IInv, [Next]_vars, NEW p, Processes = {p},
           GitAdd(p) \/ GitCommit(p) \/ GitPush(p)
    PROVE  IInv'
<1>1. /\ UNCHANGED <<db, files, work>> /\ proc[p].at \in Distributing /\ IsProcess(proc[p])
  BY Ends DEF GitAdd, GitCommit, GitPush, At, Distributing
<1>2. /\ work' = [packages |-> work'.packages, checkpoint |-> work'.checkpoint,
                  snapshot |-> work'.snapshot, timestamp |-> work'.timestamp]
      /\ work'.packages = [r \in Releases |-> work'.packages[r]]
  BY <1>1 DEF IInv, Shaped
<1>3. CASE GitAdd(p)
  <2>1. /\ proc[p].at = "add" /\ Go(p, "commit") /\ UNCHANGED <<head, remote>>
        /\ staged' = [work EXCEPT !.packages =
                        IF proc[p].item.scope = "packages" THEN @ ELSE staged.packages]
    BY <1>3 DEF GitAdd, At
  <2>2. /\ IsProcess(proc'[p]) /\ proc'[p].at = "commit" /\ proc'[p].m = proc[p].m
        /\ proc'[p].item = proc[p].item /\ proc'[p].todo = proc[p].todo
    BY <2>1, Ends
  <2>3. staged'.packages = IF proc[p].item.scope = "packages" THEN work.packages
                           ELSE staged.packages
    BY <2>1 DEF IInv, Shaped
  <2>4. Progress(p)'
    <3>1. ASSUME proc[p].item.scope = "packages" PROVE Reached(p, staged)'
      <4>1. Reached(p, work)
        BY <2>1, <3>1 DEF IInv, Progress
      <4> QED
        BY <1>1, <2>2, <2>3, <3>1, <4>1 DEF Reached, Carries
    <3> QED
      BY <2>2, <3>1 DEF Progress
  <2>5. \A r \in Releases : /\ Later(head.packages[r], staged'.packages[r])
                            /\ Later(staged'.packages[r], work.packages[r])
    BY <2>3, ChainFacts
  <2> QED
    BY <1>1, <1>2, <2>1, <2>2, <2>4, <2>5, ChainFacts, Distributes DEF Distributing, Go
<1>4. CASE GitCommit(p)
  <2>1. /\ proc[p].at = "commit" /\ Go(p, "push") /\ UNCHANGED <<staged, remote>>
        /\ head' = staged
    BY <1>4 DEF GitCommit, At
  <2>2. /\ IsProcess(proc'[p]) /\ proc'[p].at = "push" /\ proc'[p].m = proc[p].m
        /\ proc'[p].item = proc[p].item /\ proc'[p].todo = proc[p].todo
    BY <2>1, Ends
  <2>3. Progress(p)'
    <3>1. ASSUME proc[p].item.scope = "packages" PROVE Reached(p, head)'
      <4>1. Reached(p, staged)
        BY <2>1, <3>1 DEF IInv, Progress
      <4> QED
        BY <1>1, <2>1, <2>2, <4>1 DEF Reached, Carries
    <3> QED
      BY <2>2, <3>1 DEF Progress
  <2> QED
    BY <1>1, <1>2, <2>1, <2>2, <2>3, ChainFacts, Distributes DEF Distributing, Go
<1>5. CASE GitPush(p)
  <2>1. proc[p].at = "push" /\ UNCHANGED <<staged, head>> /\ remote' = head
    BY <1>5 DEF GitPush, At
  <2>2. CASE proc[p].item.scope = "packages"
    <3>1. Go(p, "distributed")
      BY <1>5, <2>2 DEF GitPush
    <3>2. /\ IsProcess(proc'[p]) /\ proc'[p].at = "distributed" /\ proc'[p].m = proc[p].m
          /\ proc'[p].item = proc[p].item /\ proc'[p].todo = proc[p].todo
      BY <3>1, Ends
    <3>3. Progress(p)'
      <4>1. Reached(p, head)
        BY <2>1, <2>2 DEF IInv, Progress
      <4>2. Reached(p, remote)'
        BY <1>1, <2>1, <3>2, <4>1 DEF Reached, Carries
      <4> QED
        BY <3>2, <4>2 DEF Progress
    <3> QED
      BY <1>1, <1>2, <2>1, <3>1, <3>2, <3>3, ChainFacts, Distributes DEF Distributing, Go
  <2>3. CASE proc[p].item.scope # "packages"
    <3>1. Return(p)
      BY <1>5, <2>3 DEF GitPush
    <3>2. /\ IsProcess(proc'[p]) /\ proc'[p].at \in {"idle", "recover"}
          /\ proc'[p].todo \subseteq proc[p].todo
      BY <3>1, Ends
    <3>3. PICK new : Set(p, new)
      BY <3>1 DEF Return, Go
    <3>4. Progress(p)'
      BY <3>2 DEF Progress
    <3> QED
      BY <1>1, <1>2, <2>1, <3>2, <3>3, <3>4, ChainFacts, Distributes DEF Distributing
  <2> QED
    BY <2>2, <2>3
<1> QED
  BY <1>3, <1>4, <1>5

-----------------------------------------------------------------------------
(* Steps that change the database *)

\* The log, the variants and the states stay: so does what is said of the index.
LEMMA SameIndex ==
    ASSUME ConstantsOK, IInv, UNCHANGED trees, db'.log = db.log, db'.variants = db.variants,
           db'.states = db.states, db'.distributed = db.distributed
    PROVE  Index'
<1>1. UNCHANGED <<work, staged, head, remote>>
  BY DEF trees
<1>2. LoggedOnce' /\ \A i \in 1..Len(db'.log) : Recorded(i)'
  BY DEF IInv, Index, LoggedOnce, Recorded
<1>3. Chain'
  BY <1>1 DEF IInv, Index, Chain, Committed
<1>4. DistributedIsPublished'
  BY <1>1 DEF IInv, Index, DistributedIsPublished, Carries
<1> QED
  BY <1>2, <1>3, <1>4 DEF Index

\* A mutation that is in the remote is marked as distributed.
LEMMA Marks ==
    ASSUME ConstantsOK, IInv, [Next]_vars, NEW p, Processes = {p}, MarkDistributed(p)
    PROVE  IInv'
<1>1. /\ proc[p].at = "distributed" /\ Return(p) /\ UNCHANGED <<files, trees>>
      /\ db' = [db EXCEPT !.distributed = @ \cup {proc[p].m}]
  BY DEF MarkDistributed, At
<1>2. /\ db'.log = db.log /\ db'.variants = db.variants /\ db'.states = db.states
      /\ db'.blobs = db.blobs /\ db'.points = db.points /\ db'.plans = db.plans
      /\ db'.distributed = db.distributed \cup {proc[p].m}
      /\ db' = [log |-> db'.log, distributed |-> db'.distributed, variants |-> db'.variants,
                states |-> db'.states, blobs |-> db'.blobs, points |-> db'.points,
                plans |-> db'.plans]
  BY <1>1 DEF IInv, Shaped
<1>3. /\ IsProcess(proc'[p]) /\ proc'[p].at \in {"idle", "recover"}
      /\ proc'[p].todo \subseteq proc[p].todo
  BY <1>1, Ends
<1>4. UNCHANGED <<cas, temporary, trash, work, staged, head, remote>>
  BY <1>1 DEF files, trees
<1>5. proc[p].m \in 1..Len(db.log)
  BY <1>1 DEF IInv, Under, Distributing
<1>6. Shaped'
  <2>1. proc' = [q \in Processes |-> proc'[q]]
    BY <1>1 DEF IInv, Shaped, Return, Go, Set
  <2>2. \A q \in Processes :
          proc'[q] = [at |-> proc'[q].at, m |-> proc'[q].m, item |-> proc'[q].item,
                      opening |-> proc'[q].opening, todo |-> proc'[q].todo]
    BY <1>3 DEF IsProcess
  <2> QED
    BY <1>2, <1>4, <2>1, <2>2 DEF IInv, Shaped
<1>7. Tables' /\ Bounded'
  BY <1>2, <1>5, BoundedKept DEF IInv, Tables
<1>8. Files'
  BY <1>2, <1>4 DEF IInv, Files, ArchivesServed
<1>9. Index'
  <2>1. LoggedOnce' /\ \A i \in 1..Len(db'.log) : Recorded(i)'
    BY <1>2 DEF IInv, Index, LoggedOnce, Recorded
  <2>2. Chain'
    BY <1>2, <1>4 DEF IInv, Index, Chain, Committed
  <2>3. DistributedIsPublished'
    <3>1. Reached(p, remote)
      BY <1>1 DEF IInv, Progress
    <3> QED
      BY <1>2, <1>4, <3>1 DEF IInv, Index, DistributedIsPublished, Carries, Reached
  <2> QED
    BY <2>1, <2>2, <2>3 DEF Index
<1>10. Rows(p)'
  BY <1>1, <1>2, <1>3, <1>4 DEF IInv, Rows, Sweeping
<1>11. Under(p)' /\ Progress(p)'
  BY <1>2, <1>3 DEF IInv, Under, Progress, Distributing
<1> QED
  BY <1>6, <1>7, <1>8, <1>9, <1>10, <1>11 DEF IInv

\* A call that changes recovery points, or plans a collection, and rows of archives that
\* are there.
LEMMA AtRest ==
    ASSUME ConstantsOK, IInv, [Next]_vars, NEW p, Processes = {p}, proc[p].at = "idle",
           UNCHANGED <<files, trees, proc>>,
           db' = [log |-> db'.log, distributed |-> db'.distributed, variants |-> db'.variants,
                  states |-> db'.states, blobs |-> db'.blobs, points |-> db'.points,
                  plans |-> db'.plans],
           db'.log = db.log, db'.variants = db.variants, db'.states = db.states,
           db'.distributed = db.distributed, db'.plans \in Seq(Plan),
           DOMAIN db.plans \subseteq DOMAIN db'.plans,
           DOMAIN db.blobs \subseteq DOMAIN db'.blobs, DOMAIN db'.blobs \subseteq cas
    PROVE  IInv'
<1>1. UNCHANGED <<cas, temporary, trash, work, staged, head, remote>>
  BY DEF files, trees
<1>2. Shaped'
  BY <1>1 DEF IInv, Shaped
<1>3. Tables' /\ Bounded'
  BY BoundedKept DEF IInv, Tables, Files
<1>4. Files'
  BY <1>1 DEF IInv, Files, ArchivesServed
<1>5. Index'
  BY SameIndex
<1>6. Rows(p)' /\ Under(p)' /\ Progress(p)'
  BY <1>1 DEF IInv, Rows, Sweeping, Under, Progress, Distributing
<1> QED
  BY <1>2, <1>3, <1>4, <1>5, <1>6 DEF IInv

\* Recovery points are created, extended and released.
LEMMA Points ==
    ASSUME ConstantsOK, IInv, [Next]_vars, NEW p, Processes = {p},
           \/ createRecoveryPoint(p)
           \/ \E x \in DOMAIN db.points : releaseRecoveryPoint(p, x)
           \/ \E x \in DOMAIN db.points, t \in 1..MaxTime + 1 : extendRecoveryPoint(p, x, t)
    PROVE  IInv'
<1>1. PICK points : db' = [db EXCEPT !.points = points]
  <2>1. CASE createRecoveryPoint(p)
    BY <2>1 DEF createRecoveryPoint
  <2>2. CASE \E x \in DOMAIN db.points : releaseRecoveryPoint(p, x)
    BY <2>2 DEF releaseRecoveryPoint
  <2>3. CASE \E x \in DOMAIN db.points, t \in 1..MaxTime + 1 : extendRecoveryPoint(p, x, t)
    BY <2>3 DEF extendRecoveryPoint
  <2> QED
    BY <2>1, <2>2, <2>3
<1>2. /\ db'.log = db.log /\ db'.variants = db.variants /\ db'.states = db.states
      /\ db'.blobs = db.blobs /\ db'.distributed = db.distributed /\ db'.plans = db.plans
      /\ db' = [log |-> db'.log, distributed |-> db'.distributed, variants |-> db'.variants,
                states |-> db'.states, blobs |-> db'.blobs, points |-> db'.points,
                plans |-> db'.plans]
  BY <1>1 DEF IInv, Shaped
<1>3. proc[p].at = "idle" /\ UNCHANGED <<files, trees, proc>>
  BY DEF createRecoveryPoint, releaseRecoveryPoint, extendRecoveryPoint, Called, At
<1>4. DOMAIN db.blobs \subseteq cas
  BY <1>3 DEF IInv, Rows, Sweeping
<1> QED
  BY <1>2, <1>3, <1>4, AtRest DEF IInv, Tables

\* A collection is planned; archives without a row are given one.
LEMMA Plans ==
    ASSUME ConstantsOK, IInv, [Next]_vars, NEW p, Processes = {p}, planGarbageCollection(p)
    PROVE  IInv'
<1> DEFINE rows == [b \in DOMAIN db.blobs \cup cas |->
                      IF b \in DOMAIN db.blobs THEN db.blobs[b]
                      ELSE [created |-> now, audited |-> 0]]
           set == {b \in DOMAIN rows : Eligible(rows, b)}
           plan == [applied |-> FALSE, blobs |-> set]
<1>1. /\ proc[p].at = "idle" /\ UNCHANGED <<files, trees, proc>>
      /\ db' = [db EXCEPT !.blobs = rows, !.plans = Append(@, plan)]
  BY DEF planGarbageCollection, Called, At
<1>2. DOMAIN db.blobs \subseteq cas /\ cas \subseteq Blobs
  BY <1>1 DEF IInv, Rows, Sweeping, Files
<1>3. DOMAIN rows = DOMAIN db.blobs \cup cas
  OBVIOUS
<1>4. set \subseteq Blobs
  BY <1>2, <1>3
<1> HIDE DEF set, rows
<1>5. plan \in Plan
  BY <1>4 DEF Plan
<1> HIDE DEF plan
<1>6. /\ db'.log = db.log /\ db'.variants = db.variants /\ db'.states = db.states
      /\ db'.blobs = rows /\ db'.distributed = db.distributed
      /\ db'.plans = Append(db.plans, plan)
      /\ db' = [log |-> db'.log, distributed |-> db'.distributed, variants |-> db'.variants,
                states |-> db'.states, blobs |-> db'.blobs, points |-> db'.points,
                plans |-> db'.plans]
  BY <1>1 DEF IInv, Shaped
<1>7. db'.plans \in Seq(Plan) /\ DOMAIN db.plans \subseteq DOMAIN db'.plans
  <2>1. db.plans \in Seq(Plan)
    BY DEF IInv, Tables
  <2> QED
    BY <1>5, <1>6, <2>1
<1> QED
  BY <1>1, <1>2, <1>3, <1>6, <1>7, AtRest

\* The rows of a collection go, and no variant refers to them.
LEMMA Deletes ==
    ASSUME ConstantsOK, IInv, [Next]_vars, NEW p, Processes = {p}, DeleteRows(p)
    PROVE  IInv'
<1> DEFINE g == proc[p].item.plan
           S == db.plans[g].blobs
<1>1. /\ proc[p].at = "delete" /\ UNCHANGED <<temporary, trees>>
  BY DEF DeleteRows, At
<1>2. /\ g \in DOMAIN db.plans /\ S = proc[p].item.renamed
      /\ \A b \in S : ~Referenced(b)
      /\ DOMAIN db.blobs \subseteq cas \cup S
  BY <1>1 DEF IInv, Rows, Sweeping
<1>3. CASE S \subseteq DOMAIN db.blobs
  <2>1. /\ db' = [db EXCEPT !.blobs = Without(@, S), !.plans[g].applied = TRUE]
        /\ Go(p, "clean") /\ UNCHANGED <<cas, trash, trees>>
    BY <1>1, <1>3 DEF DeleteRows
  <2>2. db.plans \in Seq(Plan) /\ db.plans[g] \in Plan
    BY <1>2 DEF IInv, Tables
  <2>3. PICK S0 : S0 = S
    OBVIOUS
  <2>4. PICK g0 : g0 = g
    OBVIOUS
  <2>5. PICK B : B = Without(db.blobs, S0)
    OBVIOUS
  <2>6. DOMAIN B = DOMAIN db.blobs \ S0
    BY <2>5 DEF Without
  <2>7. db' = [db EXCEPT !.blobs = B, !.plans[g0].applied = TRUE]
    BY <2>1, <2>3, <2>4, <2>5
  <2>8. /\ db'.log = db.log /\ db'.variants = db.variants /\ db'.states = db.states
        /\ db'.blobs = B /\ db'.distributed = db.distributed
        /\ db'.plans = [db.plans EXCEPT ![g0].applied = TRUE]
        /\ db' = [log |-> db'.log, distributed |-> db'.distributed,
                  variants |-> db'.variants, states |-> db'.states, blobs |-> db'.blobs,
                  points |-> db'.points, plans |-> db'.plans]
    BY <2>7 DEF IInv, Shaped
  <2>9. db'.plans \in Seq(Plan) /\ DOMAIN db'.plans = DOMAIN db.plans
    <3>1. PICK row : row = db.plans[g0]
      OBVIOUS
    <3>2. row \in Plan /\ [row EXCEPT !.applied = TRUE] \in Plan
      BY <2>2, <2>4, <3>1 DEF Plan
    <3>3. db'.plans = [db.plans EXCEPT ![g0] = [row EXCEPT !.applied = TRUE]]
      BY <2>8, <3>1
    <3>4. PICK row1 \in Plan : row1 = [row EXCEPT !.applied = TRUE]
      BY <3>2
    <3>5. db'.plans = [db.plans EXCEPT ![g0] = row1]
      BY <3>3, <3>4
    <3> QED
      BY <1>2, <2>2, <2>4, <3>5
  <2>10. /\ IsProcess(proc'[p]) /\ proc'[p].at = "clean" /\ proc'[p].todo = proc[p].todo
    BY <2>1, Ends
  <2>11. UNCHANGED <<cas, temporary, trash, work, staged, head, remote>>
    BY <1>1, <2>1 DEF trees
  <2>12. Shaped'
    <3>1. proc' = [q \in Processes |-> proc'[q]]
      BY <2>1 DEF IInv, Shaped, Go, Set
    <3>2. \A q \in Processes :
            proc'[q] = [at |-> proc'[q].at, m |-> proc'[q].m, item |-> proc'[q].item,
                        opening |-> proc'[q].opening, todo |-> proc'[q].todo]
      BY <2>10 DEF IsProcess
    <3> QED
      BY <2>8, <2>11, <3>1, <3>2 DEF IInv, Shaped
  <2>13. Tables' /\ Bounded'
    BY <2>6, <2>8, <2>9, BoundedKept DEF IInv, Tables
  <2>14. Files'
    <3>1. ArchivesServed'
      BY <1>2, <2>3, <2>6, <2>8, <2>11 DEF IInv, Files, ArchivesServed, Referenced
    <3> QED
      BY <2>8, <2>9, <2>11, <3>1 DEF IInv, Files
  <2>15. Index'
    BY <2>1, <2>8, SameIndex
  <2>16. Rows(p)' /\ Under(p)' /\ Progress(p)'
    <3>1. DOMAIN db'.blobs \subseteq cas'
      BY <1>2, <2>3, <2>6, <2>8, <2>11
    <3> QED
      BY <2>8, <2>10, <3>1 DEF IInv, Rows, Sweeping, Under, Progress, Distributing
  <2> QED
    BY <2>12, <2>13, <2>14, <2>15, <2>16 DEF IInv
<1>4. CASE ~(S \subseteq DOMAIN db.blobs)
  <2>1. Restore(g, S) /\ Set(p, Rest) /\ UNCHANGED db
    BY <1>4 DEF DeleteRows
  <2> QED
    BY <1>1, <1>2, <2>1, Restored DEF Sweeping
<1> QED
  BY <1>3, <1>4

\* A mutation that is not in the log is appended to it, with what it brings; nothing that
\* was recorded is taken back.
LEMMA Appended ==
    ASSUME ConstantsOK, IInv, UNCHANGED trees, NEW row \in Row, db'.log = Append(db.log, row),
           \A i \in 1..Len(db.log) : db.log[i].id # row.id,
           db'.distributed = db.distributed,
           DOMAIN db.variants \subseteq DOMAIN db'.variants,
           DOMAIN db'.variants \subseteq Variants,
           \A v \in DOMAIN db.variants : db.variants[v].signers \subseteq db'.variants[v].signers,
           DOMAIN db.states \subseteq DOMAIN db'.states,
           \A r \in DOMAIN db'.states : db'.states[r].leaf \in 1..Len(db.log) + 1,
           \A r \in DOMAIN db.states : db.states[r].leaf <= db'.states[r].leaf,
           DOMAIN db'.blobs \subseteq Blobs, db'.plans = db.plans,
           NEW n, n = Len(db.log) + 1, Recorded(n)'
    PROVE  Tables' /\ Index'
<1>1. UNCHANGED <<work, staged, head, remote>>
  BY DEF trees
<1>2. db.log \in Seq(Row) /\ Len(db.log) \in Nat
  BY DEF IInv, Tables
<1>3. /\ db'.log \in Seq(Row) /\ Len(db'.log) = Len(db.log) + 1
      /\ \A i \in 1..Len(db.log) : db'.log[i] = db.log[i]
      /\ db'.log[Len(db.log) + 1] = row
  BY <1>2
<1>4. Tables'
  BY <1>2, <1>3 DEF IInv, Tables
<1>5. LoggedOnce'
  BY <1>2, <1>3 DEF LoggedOnce, IInv, Index
<1>6. \A i \in 1..Len(db'.log) : Recorded(i)'
  <2> SUFFICES ASSUME NEW i \in 1..Len(db'.log) PROVE Recorded(i)'
    OBVIOUS
  <2>1. CASE i = Len(db.log) + 1
    BY <2>1
  <2>2. CASE i \in 1..Len(db.log)
    <3>1. Recorded(i) /\ db'.log[i] = db.log[i]
      BY <1>3, <2>2 DEF IInv, Index
    <3>2. CASE "yanked" \in DOMAIN db.log[i]
      <4>1. PICK r \in DOMAIN db.states : r = db.log[i].release /\ db.states[r].leaf >= i
        BY <3>1, <3>2 DEF Recorded
      <4>2. /\ db.states[r].leaf \in Nat /\ db'.states[r].leaf \in Nat
            /\ db.states[r].leaf <= db'.states[r].leaf
        BY <1>2 DEF IInv, Tables
      <4>3. db'.states[r].leaf >= i
        BY <2>2, <4>1, <4>2
      <4> QED
        BY <3>1, <3>2, <4>1, <4>3 DEF Recorded
    <3>3. CASE "yanked" \notin DOMAIN db.log[i]
      BY <3>1, <3>3 DEF Recorded
    <3> QED
      BY <3>2, <3>3
  <2> QED
    BY <1>2, <1>3, <2>1, <2>2
<1>7. Chain'
  <2> SUFFICES ASSUME NEW r \in Releases PROVE Committed(r, work.packages[r])'
    BY <1>1 DEF IInv, Index, Chain
  <2>1. PICK e : e = work.packages[r]
    OBVIOUS
  <2>2. Committed(r, e)
    BY <2>1 DEF IInv, Index, Chain
  <2>3. CASE e = NoEntry
    BY <1>1, <2>1, <2>3 DEF Committed
  <2>4. CASE e # NoEntry
    <3>1. r \in DOMAIN db.states /\ e.state.leaf \in Nat /\ e.state.leaf <= db.states[r].leaf
      BY <2>2, <2>4 DEF Committed
    <3>2. /\ db.states[r].leaf \in Nat /\ db'.states[r].leaf \in Nat
          /\ db.states[r].leaf <= db'.states[r].leaf
      BY <1>2, <3>1 DEF IInv, Tables
    <3>3. e.state.leaf <= db'.states[r].leaf
      BY <3>1, <3>2
    <3>4. \A x \in e.variants :
            /\ x.variant \in DOMAIN db'.variants /\ ReleaseOf(x.variant) = r
            /\ x.signers \subseteq db'.variants[x.variant].signers
      BY <2>2, <2>4 DEF Committed
    <3> QED
      BY <1>1, <2>1, <3>1, <3>3, <3>4 DEF Committed
  <2> QED
    BY <2>3, <2>4
<1>8. DistributedIsPublished'
  <2> SUFFICES ASSUME NEW i \in db.distributed
               PROVE  Carries(remote.packages[db.log[i].release], i)'
    BY DEF DistributedIsPublished
  <2>1. i \in 1..Len(db.log) /\ db'.log[i] = db.log[i]
    BY <1>3 DEF IInv, Tables
  <2>2. Carries(remote.packages[db.log[i].release], i)
    BY DEF IInv, Index, DistributedIsPublished
  <2> QED
    BY <1>1, <2>1, <2>2 DEF Carries
<1> QED
  BY <1>4, <1>5, <1>6, <1>7, <1>8 DEF Index

\* After it the call distributes that mutation.
LEMMA Enters ==
    ASSUME ConstantsOK, IInv, [Next]_vars, NEW p, Processes = {p},
           UNCHANGED <<files, trees>>,
           proc[p].at \notin Sweeping \cup {"closed"},
           NEW n, n = Len(db.log) + 1,
           Set(p, [proc[p] EXCEPT !.at = "entry", !.m = n]),
           db' = [log |-> db'.log, distributed |-> db'.distributed, variants |-> db'.variants,
                  states |-> db'.states, blobs |-> db'.blobs, points |-> db'.points,
                  plans |-> db'.plans],
           NEW row \in Row, db'.log = Append(db.log, row), db'.plans = db.plans,
           DOMAIN db'.blobs \subseteq cas, ArchivesServed', Tables', Index'
    PROVE  IInv'
<1>1. UNCHANGED <<cas, temporary, trash, work, staged, head, remote>>
  BY DEF files, trees
<1>2. PICK new : new = [proc[p] EXCEPT !.at = "entry", !.m = n]
  OBVIOUS
<1>3. Set(p, new) /\ proc'[p] = new /\ IsProcess(proc[p])
  BY <1>2, Ends
<1>4. /\ IsProcess(proc'[p]) /\ proc'[p].at = "entry" /\ proc'[p].m = n
      /\ proc'[p].todo = proc[p].todo
  BY <1>2, <1>3 DEF IsProcess
<1>5. Shaped'
  <2>1. proc' = [q \in Processes |-> proc'[q]]
    BY <1>3 DEF IInv, Shaped, Set
  <2>2. \A q \in Processes :
          proc'[q] = [at |-> proc'[q].at, m |-> proc'[q].m, item |-> proc'[q].item,
                      opening |-> proc'[q].opening, todo |-> proc'[q].todo]
    BY <1>4 DEF IsProcess
  <2> QED
    BY <1>1, <2>1, <2>2 DEF IInv, Shaped
<1>6. Files'
  BY <1>1 DEF IInv, Files
<1>7. Rows(p)'
  BY <1>1, <1>4 DEF Rows, Sweeping
<1>8. Under(p)' /\ Progress(p)'
  <2>1. db.log \in Seq(Row) /\ Len(db.log) \in Nat
    BY DEF IInv, Tables
  <2>2. Len(db'.log) = Len(db.log) + 1
    BY <2>1
  <2>3. proc[p].todo \subseteq 1..Len(db.log)
    BY DEF IInv, Under
  <2>4. proc'[p].todo \subseteq 1..Len(db'.log) /\ proc'[p].m \in 1..Len(db'.log)
    BY <1>4, <2>1, <2>2, <2>3
  <2> QED
    BY <1>4, <2>4 DEF Under, Progress
<1> QED
  BY <1>5, <1>6, <1>7, <1>8, BoundedKept DEF IInv

\* The transaction of publish.
LEMMA Commits ==
    ASSUME ConstantsOK, IInv, [Next]_vars, NEW p, Processes = {p}, PublishCommit(p)
    PROVE  IInv'
<1>1. PICK q : q = proc[p].item
  OBVIOUS
<1>2. /\ proc[p].at = "transaction" /\ UNCHANGED <<files, trees>>
      /\ q \in Requests /\ Logged(q) = {} /\ q.blob \in cas
  BY <1>1 DEF PublishCommit, At, IInv, Under
<1>3. PICK n : n = Len(db.log) + 1
  OBVIOUS
<1>4. PICK b : b = q.blob
  OBVIOUS
<1>5. PICK old : old = IF q.variant \in DOMAIN db.variants
                       THEN db.variants[q.variant].signers ELSE {}
  OBVIOUS
<1>6. PICK row : row = [id |-> q, release |-> q.release]
  OBVIOUS
<1>7. PICK variants : variants = With(db.variants, q.variant,
                                     [blob |-> b, signers |-> old \cup q.signers])
  OBVIOUS
<1>8. PICK states : states = IF q.release \in DOMAIN db.states THEN db.states
                             ELSE With(db.states, q.release, [yanked |-> FALSE, leaf |-> n])
  OBVIOUS
<1>9. PICK blobs : blobs = With(db.blobs, b,
                             [created |-> IF b \in DOMAIN db.blobs THEN db.blobs[b].created
                                          ELSE now,
                              audited |-> now])
  OBVIOUS
<1>10. /\ db' = [db EXCEPT !.log = Append(@, row), !.variants = variants, !.states = states,
                           !.blobs = blobs]
       /\ Set(p, [proc[p] EXCEPT !.at = "entry", !.m = n])
  BY <1>1, <1>3, <1>4, <1>5, <1>6, <1>7, <1>8, <1>9 DEF PublishCommit
<1>11. /\ db'.log = Append(db.log, row) /\ db'.variants = variants /\ db'.states = states
       /\ db'.blobs = blobs /\ db'.distributed = db.distributed /\ db'.plans = db.plans
       /\ db' = [log |-> db'.log, distributed |-> db'.distributed, variants |-> db'.variants,
                 states |-> db'.states, blobs |-> db'.blobs, points |-> db'.points,
                 plans |-> db'.plans]
  BY <1>10 DEF IInv, Shaped
<1>12. db.log \in Seq(Row) /\ Len(db.log) \in Nat /\ n \in Nat
  BY <1>3 DEF IInv, Tables
<1>13. row \in Row /\ row.id = q /\ row.release = q.release /\ "yanked" \notin DOMAIN row
  BY <1>2, <1>6 DEF Row
<1>14. /\ DOMAIN variants = DOMAIN db.variants \cup {q.variant}
       /\ variants[q.variant].blob = b /\ q.signers \subseteq variants[q.variant].signers
       /\ \A v \in DOMAIN db.variants :
            /\ db.variants[v].signers \subseteq variants[v].signers
            /\ v # q.variant => variants[v] = db.variants[v]
  BY <1>5, <1>7 DEF With
<1>15. DOMAIN blobs = DOMAIN db.blobs \cup {b}
  BY <1>9 DEF With
<1>16. /\ DOMAIN states = DOMAIN db.states \cup {q.release}
       /\ \A r \in DOMAIN db.states : states[r] = db.states[r]
       /\ q.release \notin DOMAIN db.states => states[q.release].leaf = n
  BY <1>8 DEF With
<1>17. /\ ReleaseOf(q.variant) = q.release /\ q.release \in Releases
       /\ q.variant \in Variants /\ q.blob \in Blobs
  BY <1>2, ReleaseKnown
<1>18. Tables' /\ Index'
  <2>1. \A i \in 1..Len(db.log) : db.log[i].id # row.id
    BY <1>2, <1>13 DEF Logged
  <2>2. DOMAIN variants \subseteq Variants /\ DOMAIN blobs \subseteq Blobs
    BY <1>4, <1>14, <1>15, <1>17 DEF IInv, Tables
  <2>3. \A r \in DOMAIN states : states[r].leaf \in 1..Len(db.log) + 1
    BY <1>3, <1>12, <1>16 DEF IInv, Tables
  <2>4. \A r \in DOMAIN db.states : db.states[r].leaf <= states[r].leaf
    BY <1>12, <1>16 DEF IInv, Tables
  <2>5. Recorded(n)'
    <3>1. db'.log[n] = row
      BY <1>3, <1>11, <1>12, <1>13
    <3> QED
      BY <1>11, <1>13, <1>14, <1>16, <1>17, <3>1 DEF Recorded
  <2> QED
    BY <1>2, <1>3, <1>11, <1>13, <1>14, <1>16, <2>1, <2>2, <2>3, <2>4, <2>5, Appended
<1>19. DOMAIN db'.blobs \subseteq cas
  BY <1>2, <1>4, <1>11, <1>15 DEF IInv, Rows, Sweeping
<1>20. ArchivesServed'
  <2>1. UNCHANGED cas
    BY <1>2 DEF files
  <2> QED
    BY <1>2, <1>4, <1>11, <1>14, <1>15, <2>1 DEF ArchivesServed, IInv, Files
<1>21. proc[p].at \notin Sweeping \cup {"closed"}
  BY <1>2 DEF Sweeping
<1> QED
  BY <1>2, <1>3, <1>10, <1>11, <1>13, <1>18, <1>19, <1>20, <1>21, Enters

\* changeReleaseState: a retry, or a mutation that moves the state of its release.
LEMMA Changes ==
    ASSUME ConstantsOK, IInv, [Next]_vars, NEW p, Processes = {p},
           NEW r \in Releases, NEW yank \in BOOLEAN, NEW k \in Keys,
           changeReleaseState(p, r, yank, k)
    PROVE  IInv'
<1>1. proc[p].at = "idle"
  BY DEF changeReleaseState, Called, At
<1>2. CASE Retry(p, k)
  BY <1>1, <1>2, Retries DEF At
<1>3. CASE ~Retry(p, k)
  <2>1. PICK n : n = Len(db.log) + 1
    OBVIOUS
  <2>2. PICK row : row = [id |-> k, release |-> r, yanked |-> yank]
    OBVIOUS
  <2>3. PICK state : state = [yanked |-> yank, leaf |-> n]
    OBVIOUS
  <2>4. /\ Logged(k) = {} /\ r \in DOMAIN db.states /\ UNCHANGED <<files, trees>>
        /\ db' = [db EXCEPT !.log = Append(@, row), !.states[r] = state]
        /\ Set(p, [proc[p] EXCEPT !.at = "entry", !.m = n])
    BY <1>3, <2>1, <2>2, <2>3 DEF changeReleaseState
  <2>5. /\ db'.log = Append(db.log, row) /\ db'.variants = db.variants
        /\ db'.states = [db.states EXCEPT ![r] = state]
        /\ db'.blobs = db.blobs /\ db'.distributed = db.distributed /\ db'.plans = db.plans
        /\ db' = [log |-> db'.log, distributed |-> db'.distributed,
                  variants |-> db'.variants, states |-> db'.states, blobs |-> db'.blobs,
                  points |-> db'.points, plans |-> db'.plans]
    BY <2>4 DEF IInv, Shaped
  <2>6. db.log \in Seq(Row) /\ Len(db.log) \in Nat /\ n \in Nat
    BY <2>1 DEF IInv, Tables
  <2>7. row \in Row /\ row.id = k /\ row.release = r /\ "yanked" \in DOMAIN row
    BY <2>2 DEF Row
  <2>8. /\ DOMAIN db'.states = DOMAIN db.states /\ db'.states[r].leaf = n
        /\ \A s \in DOMAIN db.states : s # r => db'.states[s] = db.states[s]
    BY <2>3, <2>4, <2>5
  <2>9. Tables' /\ Index'
    <3>1. \A i \in 1..Len(db.log) : db.log[i].id # row.id
      BY <2>4, <2>7 DEF Logged
    <3>2. \A s \in DOMAIN db.states : db.states[s].leaf \in 1..Len(db.log)
      BY DEF IInv, Tables
    <3>3. \A s \in DOMAIN db'.states : db'.states[s].leaf \in 1..Len(db.log) + 1
      BY <2>1, <2>6, <2>8, <3>2
    <3>4. \A s \in DOMAIN db.states : db.states[s].leaf <= db'.states[s].leaf
      BY <2>1, <2>6, <2>8, <3>2
    <3>5. Recorded(n)'
      <4>1. db'.log[n] = row
        BY <2>1, <2>5, <2>6, <2>7
      <4>2. db'.log[n].release \in DOMAIN db'.states /\ "yanked" \in DOMAIN db'.log[n]
        BY <2>4, <2>7, <2>8, <4>1
      <4>3. db'.states[db'.log[n].release].leaf >= n
        BY <2>6, <2>7, <2>8, <4>1
      <4> QED
        BY <4>2, <4>3 DEF Recorded
    <3> QED
      BY <2>1, <2>4, <2>5, <2>7, <2>8, <3>1, <3>3, <3>4, <3>5, Appended DEF IInv, Tables
  <2>10. DOMAIN db'.blobs \subseteq cas
    BY <1>1, <2>5 DEF IInv, Rows, Sweeping
  <2>11. ArchivesServed'
    BY <2>4, <2>5 DEF ArchivesServed, IInv, Files, files
  <2>12. proc[p].at \notin Sweeping \cup {"closed"}
    BY <1>1 DEF Sweeping
  <2> QED
    BY <2>1, <2>4, <2>5, <2>7, <2>9, <2>10, <2>11, <2>12, Enters
<1> QED
  BY <1>2, <1>3

\* A reseal of the latest checkpoint.
LEMMA Reseals ==
    ASSUME ConstantsOK, IInv, [Next]_vars, NEW p, Processes = {p}, resealIndex(p)
    PROVE  IInv'
<1>1. PICK n : n = Len(db.log)
  OBVIOUS
<1>2. PICK new : new = [proc[p] EXCEPT !.at = "seal", !.m = n, !.item = "trust"]
  OBVIOUS
<1>3. /\ proc[p].at = "idle" /\ db.log # <<>> /\ Set(p, new) /\ UNCHANGED <<db, files, trees>>
  BY <1>1, <1>2 DEF resealIndex, Called, At
<1>4. proc'[p] = new /\ IsProcess(proc[p])
  BY <1>3, Ends
<1>5. /\ IsProcess(proc'[p]) /\ proc'[p].at = "seal" /\ proc'[p].m = n
      /\ proc'[p].item = "trust" /\ proc'[p].todo = proc[p].todo
  BY <1>2, <1>4 DEF IsProcess
<1>6. n \in 1..Len(db.log)
  <2>1. db.log \in Seq(Row)
    BY DEF IInv, Tables
  <2> QED
    BY <1>1, <1>3, <2>1, EmptySeq
<1>7. proc'[p].todo \subseteq 1..Len(db.log)
  BY <1>5 DEF IInv, Under
<1> QED
  BY <1>3, <1>5, <1>6, <1>7, Starts DEF Sweeping

\* The clock, and steps that change nothing.
LEMMA Ticks ==
    ASSUME ConstantsOK, IInv, [Next]_vars, UNCHANGED <<db, files, trees, proc>>
    PROVE  IInv'
<1>1. UNCHANGED <<cas, temporary, trash, work, staged, head, remote>>
  BY DEF files, trees
<1>2. Shaped' /\ Tables' /\ Bounded'
  BY <1>1, BoundedKept DEF IInv, Shaped, Tables
<1>3. Files'
  BY <1>1 DEF IInv, Files, ArchivesServed
<1>4. Index'
  BY SameIndex
<1>5. ASSUME NEW p \in Processes PROVE Rows(p)' /\ Under(p)' /\ Progress(p)'
  <2>1. Rows(p)'
    BY <1>1 DEF IInv, Rows, InTrash, Referenced
  <2>2. Under(p)'
    BY <1>1 DEF IInv, Under, Logged
  <2>3. Progress(p)'
    BY <1>1 DEF IInv, Progress, Reached, Carries
  <2> QED
    BY <2>1, <2>2, <2>3
<1> QED
  BY <1>2, <1>3, <1>4, <1>5 DEF IInv

-----------------------------------------------------------------------------
(* The theorems *)

\* The invariant holds at first.
LEMMA Starting ==
    ASSUME ConstantsOK, Init
    PROVE  IInv
<1> DEFINE rows == [b \in cas |-> [created |-> 0, audited |-> 0]]
<1>1. /\ db = [log |-> <<>>, distributed |-> {}, variants |-> NoRows, states |-> NoRows,
               blobs |-> rows, points |-> <<>>, plans |-> <<>>]
      /\ DOMAIN rows = cas
  BY DEF Init
<1> HIDE DEF rows
<1>2. /\ db.log = <<>> /\ db.distributed = {} /\ db.variants = NoRows /\ db.states = NoRows
      /\ db.blobs = rows /\ db.plans = <<>>
      /\ db = [log |-> db.log, distributed |-> db.distributed, variants |-> db.variants,
               states |-> db.states, blobs |-> db.blobs, points |-> db.points,
               plans |-> db.plans]
  BY <1>1
<1>3. DOMAIN NoRows = {}
  BY DEF NoRows
<1>4. \A p \in Processes : /\ proc[p].at = "closed" /\ proc[p].todo = {}
                           /\ IsProcess(proc[p])
  BY DEF Init, Down, IsProcess
<1>5. /\ work = EmptyTree /\ staged = EmptyTree /\ head = EmptyTree /\ remote = EmptyTree
      /\ cas \subseteq Blobs /\ temporary = {} /\ trash = {}
      /\ now = 0 /\ calls = 0 /\ faults = 0
  BY DEF Init, ConstantsOK
<1>6. EmptyTree.packages = [r \in Releases |-> NoEntry]
  BY DEF EmptyTree
<1>7. Shaped
  <2>1. proc = [p \in Processes |-> proc[p]]
    BY DEF Init
  <2>2. work = [packages |-> work.packages, checkpoint |-> work.checkpoint,
                snapshot |-> work.snapshot, timestamp |-> work.timestamp]
    BY <1>5 DEF EmptyTree
  <2>3. work.packages = [r \in Releases |-> work.packages[r]]
    BY <1>5, <1>6
  <2> QED
    BY <1>2, <1>4, <2>1, <2>2, <2>3 DEF Shaped, IsProcess
<1>8. Tables /\ Bounded
  BY <1>1, <1>2, <1>3, <1>5 DEF Tables, Bounded, ConstantsOK
<1>9. Files
  BY <1>2, <1>3, <1>5 DEF Files, ArchivesServed
<1>10. Index
  <2>1. Chain
    BY <1>5, <1>6 DEF Chain, Later, Committed
  <2> QED
    BY <1>2, <2>1 DEF Index, LoggedOnce, DistributedIsPublished
<1>11. \A p \in Processes : Rows(p) /\ Under(p) /\ Progress(p)
  BY <1>1, <1>2, <1>4 DEF Rows, Under, Progress, Sweeping, Distributing
<1> QED
  BY <1>7, <1>8, <1>9, <1>10, <1>11 DEF IInv

\* Every step keeps it.
LEMMA Inductive ==
    ASSUME ConstantsOK, IInv, [Next]_vars
    PROVE  IInv'
<1>1. PICK p : Processes = {p}
  BY DEF ConstantsOK
<1>2. CASE Step(p)
  <2>1. CASE materialize(p)
    BY <1>1, <2>1, Writes, Seals, Gits, Marks DEF materialize
  <2>2. CASE ~materialize(p)
    BY <1>1, <1>2, <2>2, Opens, Recovers, Copies, Commits, Sweeps, Deletes, Removes DEF Step
  <2> QED
    BY <2>1, <2>2
<1>3. CASE Call(p)
  <2>1. CASE \E q \in Requests : publish(p, q)
    BY <1>1, <2>1, Publishes
  <2>2. CASE \E r \in Releases, y \in BOOLEAN, k \in Keys : changeReleaseState(p, r, y, k)
    BY <1>1, <2>2, Changes
  <2>3. CASE resealIndex(p) \/ planGarbageCollection(p)
    BY <1>1, <2>3, Reseals, Plans
  <2>4. CASE \/ createRecoveryPoint(p)
             \/ \E x \in DOMAIN db.points : releaseRecoveryPoint(p, x)
             \/ \E x \in DOMAIN db.points, t \in 1..MaxTime + 1 :
                   extendRecoveryPoint(p, x, t)
    BY <1>1, <2>4, Points
  <2>5. CASE \E g \in DOMAIN db.plans : applyGarbageCollection(p, g)
    BY <1>1, <2>5, Applies
  <2> QED
    BY <1>3, <2>1, <2>2, <2>3, <2>4, <2>5 DEF Call
<1>4. CASE SealRollback(p) \/ SweepFails(p) \/ CopyFails(p) \/ StepFails(p) \/ Crash(p)
  BY <1>1, <1>4, Seals, SweepsFail, Failures, Crashes
<1>5. CASE Tick \/ UNCHANGED vars
  BY <1>5, Ticks DEF Tick, vars
<1> QED
  BY <1>1, <1>2, <1>3, <1>4, <1>5 DEF Next

\* The invariant holds in every state the server reaches.
THEOREM Invariant == ASSUME ConstantsOK PROVE Spec => []IInv
<1>1. Init => IInv
  BY Starting
<1>2. IInv /\ [Next]_vars => IInv'
  BY Inductive
<1> QED
  BY <1>1, <1>2, PTL DEF Spec

\* Nothing that is served loses its archive, however collections, publications, failures
\* and crashes of one server follow each other: every variant has its row and its file, and
\* when no call is under way every row has its file (copyIntoCas and the transaction of
\* publish against recoverGcTrash and the apply of a collection).
THEOREM ServedArchives == ASSUME ConstantsOK PROVE Spec => []ArchivesKept
<1>1. ASSUME IInv PROVE ArchivesKept
  <2>1. TypeOK
    <3>1. \A i \in 1..Len(db.log) : db.log[i].release \in Releases
      BY <1>1, LogFacts
    <3> QED
      BY <1>1, <3>1 DEF TypeOK, IInv, Tables, Files, Bounded
  <2>2. ArchivesServed
    BY <1>1 DEF IInv, Files
  <2>3. RowsHaveArchives
    <3>1. PICK p : Processes = {p}
      BY DEF ConstantsOK
    <3> QED
      BY <1>1, <3>1 DEF RowsHaveArchives, At, IInv, Rows, Sweeping
  <2> QED
    BY <2>1, <2>2, <2>3 DEF ArchivesKept
<1> QED
  BY <1>1, Invariant, PTL

\* The index clients fetch agrees with the database: a mutation is logged once, what is
\* marked as distributed is in the remote with the signatures and the state it brought, and
\* the remote has nothing the database has not (publish, changeReleaseState, materialize
\* and recover, with failures and crashes between any two of their steps).
THEOREM Faithful == ASSUME ConstantsOK PROVE Spec => []IndexFaithful
<1>1. ASSUME IInv PROVE IndexFaithful
  <2>1. LoggedOnce /\ DistributedIsPublished
    BY <1>1 DEF IInv, Index
  <2>2. ASSUME NEW r \in Releases, remote.packages[r] # NoEntry
        PROVE  /\ r \in DOMAIN db.states
               /\ remote.packages[r].state.leaf <= db.states[r].leaf
               /\ \A x \in remote.packages[r].variants :
                      x.signers \subseteq db.variants[x.variant].signers
    <3>1. Later(remote.packages[r], work.packages[r]) /\ Committed(r, work.packages[r])
      BY <1>1, ChainFacts, LaterFacts
    <3>2. /\ work.packages[r] # NoEntry /\ r \in DOMAIN db.states
          /\ remote.packages[r].state.leaf \in Nat /\ work.packages[r].state.leaf \in Nat
          /\ remote.packages[r].state.leaf <= work.packages[r].state.leaf
          /\ work.packages[r].state.leaf <= db.states[r].leaf
      BY <2>2, <3>1 DEF Later, Committed
    <3>3. db.states[r].leaf \in Nat
      BY <1>1, <3>2 DEF IInv, Tables
    <3>4. ASSUME NEW x \in remote.packages[r].variants
          PROVE  x.signers \subseteq db.variants[x.variant].signers
      <4>1. PICK y \in work.packages[r].variants :
                y.variant = x.variant /\ x.signers \subseteq y.signers
        BY <2>2, <3>1 DEF Later
      <4>2. y.signers \subseteq db.variants[y.variant].signers
        BY <3>1, <3>2 DEF Committed
      <4> QED
        BY <4>1, <4>2
    <3> QED
      BY <3>2, <3>3, <3>4
  <2> QED
    BY <2>1, <2>2 DEF IndexFaithful, PublishedIsCommitted
<1> QED
  BY <1>1, Invariant, PTL
=============================================================================
