--------------------------- MODULE ArtifactStore ----------------------------
(***************************************************************************)
(* The compiler's artifact store: the content-addressed cache that several *)
(* compiler processes share (lib/Driver/Compiler/CompilerArtifactStore.cpp *)
(* and CompilerArtifactStoreAcquire, -Publish and -GC.cpp), driven as      *)
(* CompilerPipeline.cpp drives it: acquire a lease on the session's root,  *)
(* compile without the store lock, publish, collect garbage.               *)
(*                                                                         *)
(* An artifact is a file named by the fingerprint of its contents, so a    *)
(* file is its name: `files' is the set of the artifacts on disk and       *)
(* Refers gives what each one names.  The index entries travel with the    *)
(* artifact they lead to.  The atomic write (a temporary, then a rename)   *)
(* is one step; the quarantine is one with its later deletion, for nothing *)
(* reads it.  Objects, specialization components, nominal artifacts and    *)
(* manifests are written and swept in the order of the code, one file to a *)
(* step, and the process may die between any two.                          *)
(***************************************************************************)
EXTENDS Naturals, Sequences, FiniteSets

CONSTANTS
    Builds,         \* compiler processes; each runs one build
    Sessions,       \* build identities, with one root reference each
    SessionOf,      \* the session of each build
    Manifests, Objects, Components, Nominals,   \* the artifacts
    Refers,         \* the artifacts each artifact names
    Roots,          \* the manifests a build may come to as its root
    InitialRoots,   \* what earlier builds may have left as a session's root
    None

VARIABLES
    files,          \* the artifacts on disk
    ref,            \* refs/<session>.ref: the root manifest of each session
    record,         \* leases/<id>.lease: the root each build's lease names
    locked,         \* builds that hold the shared lock on their lease file
    storeLock,      \* the build that holds the lock on the whole store
    pc,             \* where each build is
    observed,       \* observed_reference: the root each build started from
    root,           \* the root manifest each build has come to
    supplied,       \* the artifacts each build passes to publish
    todo            \* what is still to be written, or to be swept

diskVars == <<files, ref, record>>
localVars == <<observed, root, supplied>>
vars == <<diskVars, locked, storeLock, pc, localVars, todo>>

Artifacts == Manifests \cup Objects \cup Components \cup Nominals
Final == {"done", "failed", "dead"}

\* loadManifestClosure and markSpecializationClosure: what an artifact leads
\* to, itself included.  An artifact is named by what it contains, so nothing
\* leads back to itself.
ClosureOf[a \in Artifacts] == {a} \cup UNION {ClosureOf[x] : x \in Refers[a]}
Closed(T) == \A a \in T : Refers[a] \subseteq T
Closure(S) == UNION {ClosureOf[a] : a \in S}
RootClosure(m) == IF m = None THEN {} ELSE ClosureOf[m]

\* The members of the first group of a sequence of groups that S meets.
FirstGroup(S, groups) ==
    LET i == CHOOSE i \in DOMAIN groups :
                 /\ groups[i] \cap S # {}
                 /\ \A j \in 1..(i - 1) : groups[j] \cap S = {}
    IN  groups[i] \cap S
WriteOrder == <<Objects, Components, Nominals, Manifests>>
SweepOrder == <<Manifests, Objects, Components, Nominals>>

\* Earlier builds may have left each session with a root.
Init ==
    /\ ref \in [Sessions -> InitialRoots]
    /\ files = UNION {RootClosure(ref[s]) : s \in Sessions}
    /\ record = [b \in Builds |-> None]
    /\ locked = {} /\ storeLock = None
    /\ pc = [b \in Builds |-> "idle"]
    /\ observed = [b \in Builds |-> None] /\ root = [b \in Builds |-> None]
    /\ supplied = [b \in Builds |-> {}] /\ todo = {}

Goto(b, l) == pc' = [pc EXCEPT ![b] = l] /\ UNCHANGED localVars
\* The build is over but for what follows publication: its locals are gone.
Leave(b, l) ==
    /\ pc' = [pc EXCEPT ![b] = l]
    /\ observed' = [observed EXCEPT ![b] = None]
    /\ root' = [root EXCEPT ![b] = None]
    /\ supplied' = [supplied EXCEPT ![b] = {}]

-----------------------------------------------------------------------------
\* acquireLease and prepare, under the store lock: load the session's root,
\* verify that its manifests are there or fail, write the lease record and
\* lock it.  A session without a root gets a lease that names nothing.
Acquire(b) ==
    /\ pc[b] = "idle" /\ storeLock = None
    /\ LET r == ref[SessionOf[b]] IN
       IF RootClosure(r) \cap Manifests \subseteq files
       THEN /\ observed' = [observed EXCEPT ![b] = r]
            /\ record' = [record EXCEPT ![b] = r]
            /\ locked' = locked \cup (IF r = None THEN {} ELSE {b})
            /\ pc' = [pc EXCEPT ![b] = "compiling"]
            /\ UNCHANGED <<root, supplied>>
       ELSE Leave(b, "failed") /\ UNCHANGED <<record, locked>>
    /\ UNCHANGED <<files, ref, storeLock, todo>>

\* The compilation, with no lock but the lease's.  A unit compiled anew
\* supplies all its artifacts; a reused one supplies its object, and leaves
\* its nominal artifacts and components where the leased root has them.  A
\* component may also have been loaded through the index that all sessions
\* share, which no lease protects.
Compile(b) ==
    /\ pc[b] = "compiling"
    /\ \E m \in Roots, kept \in SUBSET (Nominals \cup Components) :
         /\ kept \subseteq ClosureOf[m]
         /\ kept \cap Nominals \subseteq RootClosure(observed[b])
         /\ kept \cap Components \subseteq RootClosure(observed[b]) \cup files
         /\ Closed(kept)
         /\ root' = [root EXCEPT ![b] = m]
         /\ supplied' = [supplied EXCEPT ![b] = ClosureOf[m] \ kept]
    /\ pc' = [pc EXCEPT ![b] = "prepared"]
    /\ UNCHANGED <<diskVars, locked, storeLock, observed, todo>>

\* publish before the store lock: every nominal artifact and every component
\* the manifests name is supplied or can be read from the store.
Kept(b) == ClosureOf[root[b]] \ supplied[b]
PublishVerify(b) ==
    /\ pc[b] = "prepared"
    /\ IF Kept(b) \subseteq files THEN Goto(b, "verified") ELSE Leave(b, "failing")
    /\ UNCHANGED <<diskVars, locked, storeLock, todo>>

\* publish under the store lock: the root must still be the one the lease
\* observed, and the components that are not supplied must still be there.
Current(b) == ref[SessionOf[b]] = observed[b]
Available(b) == Kept(b) \cap Components \subseteq files
PublishBegin(b) ==
    /\ pc[b] = "verified" /\ storeLock = None
    /\ Current(b) /\ Available(b)
    /\ storeLock' = b /\ todo' = supplied[b]
    /\ Goto(b, "writing")
    /\ UNCHANGED <<diskVars, locked>>

PublishRefused(b) ==
    /\ pc[b] = "verified" /\ storeLock = None
    /\ ~(Current(b) /\ Available(b))
    /\ Leave(b, "failing")
    /\ UNCHANGED <<diskVars, locked, storeLock, todo>>

\* One file, unless it is there already.
PublishWrite(b) ==
    /\ pc[b] = "writing" /\ todo # {}
    /\ \E f \in FirstGroup(todo, WriteOrder) :
         /\ files' = files \cup {f}
         /\ todo' = todo \ {f}
    /\ UNCHANGED <<ref, record, locked, storeLock, pc, localVars>>

PublishFail(b) ==
    /\ pc[b] = "writing"
    /\ storeLock' = None /\ todo' = {}
    /\ Leave(b, "failing")
    /\ UNCHANGED <<diskVars, locked>>

\* The root reference goes last; then retire_lease, and the store lock.
PublishRoot(b) ==
    /\ pc[b] = "writing" /\ todo = {}
    /\ ref' = [ref EXCEPT ![SessionOf[b]] = root[b]]
    /\ locked' = locked \ {b}
    /\ record' = [record EXCEPT ![b] = None]
    /\ storeLock' = None
    /\ Leave(b, "published")
    /\ UNCHANGED <<files, todo>>

\* ~CompilerArtifactLease of a build that failed: retire under the store lock.
Release(b) ==
    /\ pc[b] = "failing" /\ storeLock = None
    /\ locked' = locked \ {b}
    /\ record' = [record EXCEPT ![b] = None]
    /\ Leave(b, "failed")
    /\ UNCHANGED <<files, ref, storeLock, todo>>

-----------------------------------------------------------------------------
\* collect, under the store lock.  It marks from every root and from every
\* lease whose lock is held, gives up if a marked manifest or component is not
\* there, removes the records of the other leases and sweeps what is unmarked.
ActiveLeases == {record[b] : b \in locked} \ {None}
RootsNamed == {ref[s] : s \in Sessions} \ {None}
\* Mutant: no lease counts.
MarkedRoots == Closure(RootsNamed)
Marked == Closure(RootsNamed \cup ActiveLeases)

CollectBegin(b) ==
    /\ pc[b] = "published" /\ storeLock = None
    /\ IF Marked \cap (Manifests \cup Components) \subseteq files
       THEN /\ record' = [x \in Builds |-> IF x \in locked THEN record[x] ELSE None]
            /\ storeLock' = b /\ todo' = files \ Marked
            /\ Goto(b, "sweeping")
       ELSE Goto(b, "done") /\ UNCHANGED <<record, storeLock, todo>>
    /\ UNCHANGED <<files, ref, locked>>

\* The last collection is too recent.
CollectSkip(b) ==
    /\ pc[b] = "published" /\ storeLock = None
    /\ Goto(b, "done")
    /\ UNCHANGED <<diskVars, locked, storeLock, todo>>

CollectSweep(b) ==
    /\ pc[b] = "sweeping" /\ todo # {}
    /\ \E f \in FirstGroup(todo, SweepOrder) :
         /\ files' = files \ {f}
         /\ todo' = todo \ {f}
    /\ UNCHANGED <<ref, record, locked, storeLock, pc, localVars>>

CollectFail(b) ==
    /\ pc[b] = "sweeping" /\ todo # {}
    /\ storeLock' = None /\ todo' = {}
    /\ Goto(b, "done")
    /\ UNCHANGED <<diskVars, locked>>

CollectEnd(b) ==
    /\ pc[b] = "sweeping" /\ todo = {}
    /\ storeLock' = None
    /\ Goto(b, "done")
    /\ UNCHANGED <<diskVars, locked, todo>>

\* The process dies: the system drops its locks, its lease record stays.
Crash(b) ==
    /\ pc[b] \notin Final \cup {"idle"}
    /\ locked' = locked \ {b}
    /\ storeLock' = IF storeLock = b THEN None ELSE storeLock
    /\ todo' = IF storeLock = b THEN {} ELSE todo
    /\ Leave(b, "dead")
    /\ UNCHANGED diskVars

Finished == (\A b \in Builds : pc[b] \in Final) /\ UNCHANGED vars

Step(b) ==
    \/ Acquire(b) \/ Compile(b)
    \/ PublishVerify(b) \/ PublishBegin(b) \/ PublishRefused(b)
    \/ PublishWrite(b) \/ PublishRoot(b) \/ Release(b)
    \/ CollectBegin(b) \/ CollectSkip(b) \/ CollectSweep(b) \/ CollectEnd(b)
Next ==
    \/ \E b \in Builds : Step(b) \/ PublishFail(b) \/ CollectFail(b) \/ Crash(b)
    \/ Finished

Spec == Init /\ [][Next]_vars

-----------------------------------------------------------------------------
\* Types; the lease file is locked exactly for a lease with a root, and only
\* while its build is under way.
TypeOK ==
    /\ files \subseteq Artifacts /\ todo \subseteq Artifacts
    /\ ref \in [Sessions -> Roots \cup {None}]
    /\ record \in [Builds -> Roots \cup {None}]
    /\ observed \in [Builds -> Roots \cup {None}]
    /\ root \in [Builds -> Roots \cup {None}]
    /\ locked \subseteq {b \in Builds : /\ record[b] # None
                                        /\ pc[b] \notin Final \cup {"idle", "published"}}
    /\ storeLock \in Builds \cup {None}
    /\ supplied \in [Builds -> SUBSET Artifacts]
    /\ pc \in [Builds -> {"idle", "compiling", "prepared", "verified", "failing",
                          "writing", "published", "sweeping"} \cup Final]

\* Every artifact that a session's root leads to is on disk, whatever builds
\* of other sessions publish, collect, fail or leave behind when they die: a
\* build that starts from the root finds its whole closure (publish and
\* collect; "an unreadable root reference or any invalid manifest in its
\* recursive closure fails closed").
RootsIntact == \A s \in Sessions : RootClosure(ref[s]) \subseteq files

\* So does the root that a running build holds a lease on, though its session
\* may have moved on since: a collection counts the lease (collect).
LeasesIntact == \A b \in locked : RootClosure(record[b]) \subseteq files

\* When a collection has swept everything it meant to, what is left on disk is
\* reachable from a root or from a lease record: stale records retain nothing
\* (collect, probeLease).
CollectionIsComplete ==
    \A b \in Builds : pc[b] = "sweeping" /\ todo = {} =>
        files \subseteq Closure(RootsNamed \cup ({record[x] : x \in Builds} \ {None}))

\* A root is only replaced by a build that started from it: of two builds of a
\* session that started from the same root the second to publish fails, unless
\* its own root is what the first left (publish, "the session root changed
\* during compilation").
NoLostPublication ==
    [][\A s \in Sessions : ref'[s] # ref[s] =>
           \E b \in Builds : /\ SessionOf[b] = s /\ pc[b] = "writing"
                             /\ observed[b] = ref[s] /\ root[b] = ref'[s]]_vars

\* The store under builds that race, collect and die: types, everything roots and leases
\* lead to on disk, nothing else left by a finished collection, and no root replaced by a
\* build that did not start from it (acquireLease, publish, collect).
StoreState == TypeOK /\ RootsIntact /\ LeasesIntact /\ CollectionIsComplete
StoreExact == []StoreState /\ NoLostPublication
=============================================================================
