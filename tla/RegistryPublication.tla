------------------------ MODULE RegistryPublication ------------------------
(***************************************************************************)
(* The registry's publication store (lib/Driver/Registry): publish,        *)
(* lifecycle changes, their distribution into the Git index, recovery at   *)
(* start, recovery points and garbage collection of archives.              *)
(*                                                                         *)
(* Each process that opens the store serialises its calls with a mutex of  *)
(* its own, so a process is a program counter; what processes share is the *)
(* database (changed by transactions), the archive directory, the trash    *)
(* and the index worktree.  A process crashes between any two effects, and *)
(* every effect that can fail may fail; Faults bounds both together.       *)
(*                                                                         *)
(* Digests, signatures and receipts are abstracted to what they are of: a  *)
(* mutation is its request, the checkpoint after n audit leaves is n, a    *)
(* snapshot is the tree and the checkpoint it signs.                       *)
(***************************************************************************)
EXTENDS Naturals, Sequences, FiniteSets

CONSTANTS
    Processes,      \* processes that open the store
    Requests,       \* publish requests: [variant, release, blob, signers]
    Releases,       \* package and version pairs
    Orphans,        \* archives an earlier publication may have left unreferenced
    Keys,           \* idempotency keys of lifecycle requests
    NoEntry,        \* a release that has no index entry
    MaxLog,         \* bound on audit leaves
    MaxTime,        \* bound on the clock
    MaxCalls,       \* bound on calls of the store
    MaxFaults       \* bound on crashes and failing effects

VARIABLES
    db,        \* the database's tables
    cas,       \* archives under blobs/sha256
    temporary, \* half-copied archives beside them
    trash,     \* archives under gc-trash: <<plan, archive>>
    work,      \* the index worktree
    staged,    \* the worktree's Git index
    head,      \* the commit at HEAD
    remote,    \* the commit clients fetch
    proc,      \* where each process is
    now,       \* the clock
    calls,     \* calls so far
    faults     \* crashes and failures so far

files == <<cas, temporary, trash>>
trees == <<work, staged, head, remote>>
bounds == <<calls, faults>>
vars == <<db, files, trees, proc, now, bounds>>

Blobs == {q.blob : q \in Requests}
Variants == {q.variant : q \in Requests}
ReleaseOf(v) == (CHOOSE q \in Requests : q.variant = v).release

\* The retention intervals of the configuration, one clock tick each.
Retention == 1

\* A process at rest, and one that has the store closed.
Rest == [at |-> "idle", m |-> 0, item |-> <<>>, opening |-> FALSE, todo |-> {}]
Down == [at |-> "closed", m |-> 0, item |-> <<>>, opening |-> TRUE, todo |-> {}]

NoRows == [x \in {} |-> x]
EmptyTree == [packages |-> [r \in Releases |-> NoEntry], checkpoint |-> 0,
              snapshot |-> <<>>, timestamp |-> <<>>]

Init ==
    /\ cas \in SUBSET Orphans /\ temporary = {} /\ trash = {}
    /\ db = [log |-> <<>>, distributed |-> {}, variants |-> NoRows, states |-> NoRows,
             blobs |-> [b \in cas |-> [created |-> 0, audited |-> 0]], points |-> <<>>, plans |-> <<>>]
    /\ work = EmptyTree /\ staged = EmptyTree /\ head = EmptyTree /\ remote = EmptyTree
    /\ proc = [p \in Processes |-> Down]
    /\ now = 0 /\ calls = 0 /\ faults = 0

With(f, x, y) == [z \in DOMAIN f \cup {x} |-> IF z = x THEN y ELSE f[z]]
Without(f, S) == [z \in DOMAIN f \ S |-> f[z]]

At(p, where) == proc[p].at = where
Set(p, state) == proc' = [proc EXCEPT ![p] = state]
Go(p, where) == Set(p, [proc[p] EXCEPT !.at = where])

\* A call that ends returns to rest; inside open it goes on with the next
\* pending mutation.  A call that fails inside open leaves the store closed.
Return(p) == IF proc[p].opening THEN Go(p, "recover") ELSE Set(p, Rest)
Abort(p) == Set(p, IF proc[p].opening THEN Down ELSE Rest)

Fault == faults < MaxFaults /\ faults' = faults + 1 /\ UNCHANGED calls

\* A call of the store on a process at rest.
Called(p) == At(p, "idle") /\ calls < MaxCalls /\ calls' = calls + 1 /\ UNCHANGED faults

\* The effect of the current step fails and nothing else has happened.
Fail(p) == Fault /\ Abort(p) /\ UNCHANGED <<db, files, trees, now>>

-----------------------------------------------------------------------------
(* open: restore the trash of uncommitted collections, finish committed    *)
(* ones, then distribute every pending mutation in order.                  *)

Pending == {i \in 1..Len(db.log) : i \notin db.distributed}
Least(S) == CHOOSE i \in S : \A j \in S : i <= j

\* Mutant: staged archives of an uncommitted plan are deleted.
recoverGcTrashDeletes ==
    /\ trash' = {}
    /\ UNCHANGED cas
recoverGcTrash ==
    /\ cas' = cas \cup {t[2] : t \in {u \in trash : ~db.plans[u[1]].applied}}
    /\ trash' = {}

open(p) ==
    /\ At(p, "closed")
    /\ recoverGcTrash
    /\ Set(p, [proc[p] EXCEPT !.at = "recover", !.todo = Pending])
    /\ UNCHANGED <<db, temporary, trees, now, bounds>>

\* One turn of recover's loop over the mutations that were pending at its start.
\* Mutant: open does not distribute what is pending.
recoverSkips(p) ==
    /\ At(p, "recover")
    /\ Set(p, Rest)
    /\ UNCHANGED <<db, files, trees, now, bounds>>
recover(p) ==
    /\ At(p, "recover")
    /\ LET todo == proc[p].todo
       IN  IF todo = {}
           THEN Set(p, Rest)
           ELSE Set(p, [proc[p] EXCEPT !.at = "entry", !.m = Least(todo),
                                       !.todo = @ \ {Least(todo)}])
    /\ UNCHANGED <<db, files, trees, now, bounds>>

-----------------------------------------------------------------------------
(* publish and changeReleaseState *)

Logged(id) == {i \in 1..Len(db.log) : db.log[i].id = id}

\* A mutation that is already in the log is distributed if it is not yet.
Retry(p, id) ==
    /\ \E i \in Logged(id) \ db.distributed :
           Set(p, [proc[p] EXCEPT !.at = "entry", !.m = i])
    /\ UNCHANGED <<db, files, trees, now>>

\* What an accepted request adds to the stored variant: nothing stored yet, or
\* the same facts with signatures that are not stored.
Appends(q) ==
    q.variant \in DOMAIN db.variants =>
       /\ db.variants[q.variant].blob = q.blob
       /\ ~(q.signers \subseteq db.variants[q.variant].signers)

\* publish up to the copy of the archive; every other outcome is a refusal
\* that changes nothing.
publish(p, q) ==
    /\ Called(p)
    /\ \/ Retry(p, q)
       \/ /\ Logged(q) = {} /\ Appends(q) /\ Len(db.log) < MaxLog
          /\ Set(p, [proc[p] EXCEPT !.at = "copy", !.item = q])
          /\ UNCHANGED <<db, files, trees, now>>

\* copyIntoCas: an archive that is there is kept, else it is staged beside its
\* place and renamed into it.
copyIntoCas(p) ==
    /\ At(p, "copy")
    /\ LET b == proc[p].item.blob
       IN  \/ b \in cas /\ Go(p, "transaction") /\ UNCHANGED <<cas, temporary>>
           \/ b \notin cas \cup temporary /\ temporary' = temporary \cup {b}
                /\ UNCHANGED <<cas, proc>>
           \/ /\ b \in temporary \ cas
              /\ cas' = cas \cup {b} /\ temporary' = temporary \ {b}
              /\ Go(p, "transaction")
    /\ UNCHANGED <<db, trash, trees, now, bounds>>

\* The transaction of publish: archive row, variant row, audit leaf, mutation and
\* the release's first lifecycle state.
PublishCommit(p) ==
    /\ At(p, "transaction")
    /\ LET q == proc[p].item
           n == Len(db.log) + 1
           b == q.blob
           old == IF q.variant \in DOMAIN db.variants
                  THEN db.variants[q.variant].signers ELSE {}
       IN  /\ db' = [db EXCEPT
                !.log = Append(@, [id |-> q, release |-> q.release]),
                !.variants = With(@, q.variant, [blob |-> b, signers |-> old \cup q.signers]),
                !.states = IF q.release \in DOMAIN @ THEN @
                           ELSE With(@, q.release, [yanked |-> FALSE, leaf |-> n]),
                !.blobs = With(@, b, [created |-> IF b \in DOMAIN @ THEN @[b].created ELSE now,
                                      audited |-> now])]
           /\ Set(p, [proc[p] EXCEPT !.at = "entry", !.m = n])
    /\ UNCHANGED <<files, trees, now, bounds>>

\* changeReleaseState: a logged key is retried, an unlogged one must change the
\* release's state; the transaction appends the leaf and moves the state.
changeReleaseState(p, r, yank, k) ==
    /\ Called(p)
    /\ \/ /\ \E i \in Logged(k) : db.log[i].release = r /\ db.log[i].yanked = yank
          /\ Retry(p, k)
       \/ /\ Logged(k) = {} /\ Len(db.log) < MaxLog
          /\ r \in DOMAIN db.states /\ db.states[r].yanked # yank
          /\ LET n == Len(db.log) + 1
             IN  /\ db' = [db EXCEPT
                      !.log = Append(@, [id |-> k, release |-> r, yanked |-> yank]),
                      !.states[r] = [yanked |-> yank, leaf |-> n]]
                 /\ Set(p, [proc[p] EXCEPT !.at = "entry", !.m = n])
          /\ UNCHANGED <<files, trees, now>>

-----------------------------------------------------------------------------
(* materialize: distribute mutation m *)

Entry(r) == [variants |-> {[variant |-> v, signers |-> db.variants[v].signers] :
                              v \in {w \in DOMAIN db.variants : ReleaseOf(w) = r}},
             state |-> db.states[r]]

\* The package entry is rendered from the database and renamed into place.
WriteEntry(p) ==
    /\ At(p, "entry")
    /\ LET r == db.log[proc[p].m].release
       IN  work' = [work EXCEPT !.packages[r] = Entry(r)]
    /\ Set(p, [proc[p] EXCEPT !.at = "seal", !.item = "packages"])
    /\ UNCHANGED <<db, files, staged, head, remote, now, bounds>>

\* sealRegistryIndex: the snapshot of the packages as they are and of the
\* mutation's checkpoint is signed, and the checkpoint is published ...
SealCheckpoint(p) ==
    /\ At(p, "seal")
    /\ work' = [work EXCEPT !.checkpoint = proc[p].m]
    /\ Set(p, [proc[p] EXCEPT !.at = "snapshot",
                 !.item = [scope |-> @, old |-> work,
                           new |-> [packages |-> work.packages, checkpoint |-> proc[p].m]]])
    /\ UNCHANGED <<db, files, staged, head, remote, now, bounds>>

\* ... then the snapshot, then the timestamp.
SealSnapshot(p) ==
    /\ At(p, "snapshot")
    /\ work' = [work EXCEPT !.snapshot = proc[p].item.new]
    /\ Go(p, "timestamp")
    /\ UNCHANGED <<db, files, staged, head, remote, now, bounds>>

SealTimestamp(p) ==
    /\ At(p, "timestamp")
    /\ work' = [work EXCEPT !.timestamp = proc[p].item.new]
    /\ Go(p, "add")
    /\ UNCHANGED <<db, files, staged, head, remote, now, bounds>>

\* A file that cannot be replaced rolls back the ones before it.  The package
\* entry is not among them.
SealRollback(p) ==
    /\ At(p, "snapshot") \/ At(p, "timestamp")
    /\ Fault /\ Abort(p)
    /\ \E undone \in SUBSET {"checkpoint", "snapshot"} :   \* a rollback may fail too
           work' = [f \in DOMAIN work |->
                       IF f \in undone THEN proc[p].item.old[f] ELSE work[f]]
    /\ UNCHANGED <<db, files, staged, head, remote, now>>

\* git add names the packages after a mutation, the trust metadata alone after
\* a reseal.
GitAdd(p) ==
    /\ At(p, "add")
    /\ staged' = [work EXCEPT !.packages =
                     IF proc[p].item.scope = "packages" THEN @ ELSE staged.packages]
    /\ Go(p, "commit")
    /\ UNCHANGED <<db, files, work, head, remote, now, bounds>>

\* Mutant: the mutation is marked before its index is pushed.
GitCommitMarks(p) ==
    /\ At(p, "commit")
    /\ head' = staged
    /\ db' = [db EXCEPT !.distributed = @ \cup {proc[p].m}]
    /\ Go(p, "push")
    /\ UNCHANGED <<files, work, staged, remote, now, bounds>>
GitCommit(p) ==
    /\ At(p, "commit")
    /\ head' = staged
    /\ Go(p, "push")
    /\ UNCHANGED <<db, files, work, staged, remote, now, bounds>>

GitPush(p) ==
    /\ At(p, "push")
    /\ remote' = head
    /\ IF proc[p].item.scope = "packages" THEN Go(p, "distributed") ELSE Return(p)
    /\ UNCHANGED <<db, files, work, staged, head, now, bounds>>

MarkDistributed(p) ==
    /\ At(p, "distributed")
    /\ db' = [db EXCEPT !.distributed = @ \cup {proc[p].m}]
    /\ Return(p)
    /\ UNCHANGED <<files, trees, now, bounds>>

materialize(p) ==
    \/ WriteEntry(p) \/ SealCheckpoint(p) \/ SealSnapshot(p) \/ SealTimestamp(p)
    \/ GitAdd(p) \/ GitCommit(p) \/ GitPush(p) \/ MarkDistributed(p)

\* resealIndex: the latest audit head is sealed over the worktree as it is.
resealIndex(p) ==
    /\ Called(p) /\ db.log # <<>>
    /\ Set(p, [proc[p] EXCEPT !.at = "seal", !.m = Len(db.log), !.item = "trust"])
    /\ UNCHANGED <<db, files, trees, now>>

-----------------------------------------------------------------------------
(* Recovery points *)

Live(x) == ~db.points[x].released /\ db.points[x].until > now

\* A backup needs every mutation distributed, a clean worktree and the archive
\* of every row; the point then protects the archives that have a row.
createRecoveryPoint(p) ==
    /\ Called(p)
    /\ Pending = {} /\ work = head /\ staged = head
    /\ DOMAIN db.blobs \subseteq cas
    /\ db' = [db EXCEPT !.points = Append(@, [until |-> now + Retention, released |-> FALSE,
                                              blobs |-> DOMAIN db.blobs])]
    /\ UNCHANGED <<files, trees, proc, now>>

extendRecoveryPoint(p, x, t) ==
    /\ Called(p)
    /\ t > now /\ ~db.points[x].released /\ db.points[x].until < t
    /\ db' = [db EXCEPT !.points[x].until = t]
    /\ UNCHANGED <<files, trees, proc, now>>

releaseRecoveryPoint(p, x) ==
    /\ Called(p) /\ ~db.points[x].released
    /\ db' = [db EXCEPT !.points[x].released = TRUE]
    /\ UNCHANGED <<files, trees, proc, now>>

-----------------------------------------------------------------------------
(* Garbage collection: plan, and later apply *)

Referenced(b) == \E v \in DOMAIN db.variants : db.variants[v].blob = b
Protected(b) == \E x \in DOMAIN db.points : Live(x) /\ b \in db.points[x].blobs
OldEnough(row) == row.created + Retention <= now /\ row.audited + Retention <= now

\* The database half of eligibility, asked when planning and again for each
\* candidate when applying.
Eligible(rows, b) ==
    b \in DOMAIN rows /\ ~Referenced(b) /\ ~Protected(b) /\ OldEnough(rows[b])

\* Archives without a row are given one; anything but archives in the directory
\* is an error.
planGarbageCollection(p) ==
    /\ Called(p)
    /\ temporary = {}
    /\ LET rows == [b \in DOMAIN db.blobs \cup cas |->
                       IF b \in DOMAIN db.blobs THEN db.blobs[b]
                       ELSE [created |-> now, audited |-> 0]]
       IN  db' = [db EXCEPT !.blobs = rows,
                    !.plans = Append(@, [applied |-> FALSE,
                                         blobs |-> {b \in DOMAIN rows : Eligible(rows, b)}])]
    /\ UNCHANGED <<files, trees, proc, now>>

applyGarbageCollection(p, g) ==
    /\ Called(p) /\ ~db.plans[g].applied
    /\ Set(p, [proc[p] EXCEPT !.at = "sweep", !.item = [plan |-> g, renamed |-> {}]])
    /\ UNCHANGED <<db, files, trees, now>>

\* The archives this call has renamed go back to their place.
Restore(g, renamed) ==
    /\ cas' = cas \cup {b \in renamed : <<g, b>> \in trash}
    /\ trash' = trash \ ({g} \X renamed)

\* The next candidate is checked again and renamed into the trash, or the call
\* gives up and restores what it has renamed.
Sweep(p) ==
    /\ At(p, "sweep")
    /\ LET g == proc[p].item.plan
           rest == db.plans[g].blobs \ proc[p].item.renamed
       IN  \/ \E b \in rest :
                 /\ Eligible(db.blobs, b) /\ b \in cas
                 /\ cas' = cas \ {b}
                 /\ trash' = trash \cup {<<g, b>>}
                 /\ Set(p, [proc[p] EXCEPT !.item.renamed = @ \cup {b}])
           \/ /\ \E b \in rest : ~Eligible(db.blobs, b) \/ b \notin cas
              /\ Restore(g, proc[p].item.renamed) /\ Set(p, Rest)
           \/ rest = {} /\ Go(p, "delete") /\ UNCHANGED <<cas, trash>>
    /\ UNCHANGED <<db, temporary, trees, now, bounds>>

\* A rename or the transaction fails.
SweepFails(p) ==
    /\ At(p, "sweep") \/ At(p, "delete")
    /\ Fault
    /\ Restore(proc[p].item.plan, proc[p].item.renamed)
    /\ Set(p, Rest)
    /\ UNCHANGED <<db, temporary, trees, now>>

\* The rows are deleted and the plan is marked applied in one transaction, then
\* the trash is removed.  A row that has gone fails the transaction.
DeleteRows(p) ==
    /\ At(p, "delete")
    /\ LET g == proc[p].item.plan
           S == db.plans[g].blobs
       IN  IF S \subseteq DOMAIN db.blobs
           THEN /\ db' = [db EXCEPT !.blobs = Without(@, S), !.plans[g].applied = TRUE]
                /\ Go(p, "clean")
                /\ UNCHANGED <<cas, trash>>
           ELSE Restore(g, S) /\ Set(p, Rest) /\ UNCHANGED db
    /\ UNCHANGED <<temporary, trees, now, bounds>>

RemoveTrash(p) ==
    /\ At(p, "clean")
    /\ trash' = trash \ ({proc[p].item.plan} \X Blobs)
    /\ Set(p, Rest)
    /\ UNCHANGED <<db, cas, temporary, trees, now, bounds>>

-----------------------------------------------------------------------------
Crash(p) ==
    /\ ~At(p, "closed")
    /\ Fault
    /\ Set(p, Down)
    /\ UNCHANGED <<db, files, trees, now>>

\* The steps whose failure leaves everything as it was; a rename of a staged
\* archive that fails removes it.
CopyFails(p) ==
    /\ At(p, "copy") /\ Fault /\ Abort(p)
    /\ temporary' = temporary \ {proc[p].item.blob}
    /\ UNCHANGED <<db, cas, trash, trees, now>>

StepFails(p) ==
    /\ proc[p].at \in {"recover", "copy", "transaction", "entry", "seal", "add", "commit", "push",
                       "distributed", "clean"}
    /\ Fail(p)

Tick ==
    /\ now < MaxTime
    /\ now' = now + 1
    /\ UNCHANGED <<db, files, trees, proc, bounds>>

\* The steps of a call under way.
Step(p) ==
    \/ open(p) \/ recover(p)
    \/ copyIntoCas(p) \/ PublishCommit(p) \/ materialize(p)
    \/ Sweep(p) \/ DeleteRows(p) \/ RemoveTrash(p)

\* The calls a process may make.
Call(p) ==
    \/ \E q \in Requests : publish(p, q)
    \/ \E r \in Releases, y \in BOOLEAN, k \in Keys : changeReleaseState(p, r, y, k)
    \/ resealIndex(p)
    \/ createRecoveryPoint(p) \/ planGarbageCollection(p)
    \/ \E x \in DOMAIN db.points : releaseRecoveryPoint(p, x)
    \/ \E x \in DOMAIN db.points, t \in 1..MaxTime + 1 : extendRecoveryPoint(p, x, t)
    \/ \E g \in DOMAIN db.plans : applyGarbageCollection(p, g)

Next ==
    \/ \E p \in Processes : Step(p) \/ Call(p) \/ SealRollback(p) \/ SweepFails(p)
                               \/ CopyFails(p) \/ StepFails(p) \/ Crash(p)
    \/ Tick

Spec == Init /\ [][Next]_vars

(***************************************************************************)
(* A running process goes on and a stopped one is started again.  Faults   *)
(* are bounded, so signer, Git and disk work in the end.  Nothing obliges  *)
(* a client to retry or an operator to call.                               *)
(***************************************************************************)
FairSpec == Spec /\ \A p \in Processes : WF_vars(Step(p))

-----------------------------------------------------------------------------
(* Properties. *)

\* The tables, files and trees keep their types.
TypeOK ==
    /\ \A i \in 1..Len(db.log) : db.log[i].release \in Releases
    /\ db.distributed \subseteq 1..Len(db.log)
    /\ DOMAIN db.variants \subseteq Variants
    /\ DOMAIN db.blobs \subseteq Blobs
    /\ cas \subseteq Blobs /\ temporary \subseteq Blobs
    /\ trash \subseteq (DOMAIN db.plans) \X Blobs
    /\ now \in 0..MaxTime /\ calls \in 0..MaxCalls /\ faults \in 0..MaxFaults

\* The archive of every variant in the database can be served: it has its row
\* and its file, whatever collection was planned before the variant was
\* published and wherever a collection stopped
\* (RegistryServerPublicGc.inc:203-216, RegistryServerImplInitialization.inc:2-68).
ArchivesServed ==
    \A v \in DOMAIN db.variants :
        db.variants[v].blob \in DOMAIN db.blobs \cap cas

\* A mutation is in the audit log at most once, however often its client
\* retries and wherever the server stopped (RegistryServerPublicPublish.inc:102-130).
LoggedOnce == \A i, j \in 1..Len(db.log) : db.log[i].id = db.log[j].id => i = j

\* The entry e of a release carries mutation i.
Carries(e, i) ==
    /\ e # NoEntry
    /\ IF "yanked" \in DOMAIN db.log[i]
       THEN e.state.leaf >= i
       ELSE \E x \in e.variants : /\ x.variant = db.log[i].id.variant
                                 /\ db.log[i].id.signers \subseteq x.signers

\* What the database calls distributed is in the index clients fetch, with the
\* signatures and the lifecycle state it brought
\* (RegistryServerImplPublication.inc:103-130).
DistributedIsPublished ==
    \A i \in db.distributed : Carries(remote.packages[db.log[i].release], i)

\* The index clients fetch never runs ahead of the database: an entry's
\* signatures and lifecycle state are committed ones.
PublishedIsCommitted ==
    \A r \in Releases : remote.packages[r] # NoEntry =>
        /\ r \in DOMAIN db.states
        /\ remote.packages[r].state.leaf <= db.states[r].leaf
        /\ \A x \in remote.packages[r].variants :
               x.signers \subseteq db.variants[x.variant].signers

\* When no call is under way every archive row has its archive, so that a backup
\* can be taken, whether the last collection was applied, gave up or was cut off
\* (RegistryBackup.cpp:1072-1095, RegistryServerPublicGc.inc:196-204).
RowsHaveArchives ==
    (\A p \in Processes : At(p, "idle")) => DOMAIN db.blobs \subseteq cas

\* Nothing that is served loses its archive: types, the archive of every published variant
\* on disk, and of every row (publish and recovery against plan and apply of the
\* collection).
ArchivesKept == TypeOK /\ ArchivesServed /\ RowsHaveArchives

\* The log, the database and the distributed files agree: a mutation is logged once, what
\* is marked distributed is published and what is published is committed (publish,
\* materialize, recover, with faults between any two steps).
IndexFaithful == LoggedOnce /\ DistributedIsPublished /\ PublishedIsCommitted

\* After a restart everything that was committed before it is distributed
\* (RegistryServerImplRecovery.inc:2-22).
RestartDistributes ==
    \A i \in 1..MaxLog :
        (i \in Pending /\ \E p \in Processes : At(p, "closed")) ~> i \in db.distributed

\* Clients can verify the index they fetch: its snapshot signs its packages and
\* its checkpoint, its timestamp signs its snapshot.
PublishedVerifies ==
    remote.snapshot # <<>> =>
        /\ remote.snapshot = [packages |-> remote.packages, checkpoint |-> remote.checkpoint]
        /\ remote.timestamp = remote.snapshot

\* The checkpoint clients fetch covers every distributed mutation, so that it
\* never falls behind one they have pinned.
CheckpointCovers == \A i \in db.distributed : remote.checkpoint >= i
=============================================================================
