---------------------------- MODULE PackageCheck ----------------------------
(***************************************************************************)
(* The pool that checks or builds the packages of a workspace: the query   *)
(* graph of PackageQueryGraph.cpp, the workers of executeNextCheckRequest  *)
(* (CompilerPipeline.cpp) and of packageQueryGraph                         *)
(* (CompilerPipelineExecution.cpp), and the cache of checked packages that *)
(* outlives a request (CompilerPackageQueryCache, CompilerDaemon.cpp).     *)
(*                                                                         *)
(* A package's number stands for its name: the graph hands out the least   *)
(* ready name.  A check artifact is the package, the version of its        *)
(* sources and the artifacts of its direct dependencies, which is what its *)
(* fingerprint digests.  What compiling does is left out: it succeeds or   *)
(* fails.                                                                  *)
(***************************************************************************)
EXTENDS FiniteSetsExt, Naturals, Sequences

CONSTANTS
    Packages,       \* the packages of the plan, numbered in the order of their names
    Dependencies,   \* Dependencies[p]: the direct dependencies of p
    Workers,        \* worker_count threads
    Versions,       \* versions of a package's sources
    Requests,       \* how many requests run (a bound of the model)
    Capacity,       \* of the cache
    None            \* no session, no package

VARIABLES
    request,        \* requests begun
    kind,           \* "check" (cancellable, cached) or "build"
    source,         \* source[p]: the version the request's snapshot holds
    cancelled,      \* the request's cancellation token
    state, remaining, ready,        \* the query graph
    results,        \* results[p]: the artifact of p's session, or None
    completed_count, stop,
    pc, index, result,      \* of each worker: its package and, once done, its artifact
    cache,          \* <<key, artifact>> pairs, the most recent first
    status          \* of the request: "none", "running" or what it returned

vars == <<request, kind, source, cancelled, state, remaining, ready, results,
          completed_count, stop, pc, index, result, cache, status>>
graph == <<state, remaining, ready>>

States == {"Pending", "Ready", "Running", "Succeeded", "Failed", "Blocked"}

Dependents(p) == {d \in Packages : p \in Dependencies[d]}

\* The graph: every package whose dependencies are none is ready.
GraphState == [p \in Packages |-> IF Dependencies[p] = {} THEN "Ready" ELSE "Pending"]

hasReadyQuery == ready # {}

\* The package w takes is the least ready name.
takeReadyQuery(w) ==
    LET id == Min(ready) IN
    /\ index' = [index EXCEPT ![w] = id]
    /\ ready' = ready \ {id}
    /\ state' = [state EXCEPT ![id] = "Running"]
    /\ UNCHANGED remaining

\* Mutant: one dependency is enough.
succeededAnyDependency(p) ==
    /\ remaining' = remaining
    /\ ready' = ready \union {d \in Dependents(p) : state[d] = "Pending"}
    /\ state' = [d \in Packages |-> IF d = p THEN "Succeeded"
                                    ELSE IF d \in Dependents(p) /\ state[d] = "Pending"
                                    THEN "Ready" ELSE state[d]]

\* p is done: each dependent waits for one less, and is ready when it was the last.
markSucceeded(p) ==
    LET left == [d \in Packages |-> remaining[d] - IF d \in Dependents(p) THEN 1 ELSE 0]
        freed == {d \in Dependents(p) : left[d] = 0} IN
    /\ remaining' = left
    /\ ready' = ready \union freed
    /\ state' = [d \in Packages |-> IF d = p THEN "Succeeded"
                                    ELSE IF d \in freed THEN "Ready" ELSE state[d]]

markFailed(p) ==
    /\ state' = [state EXCEPT ![p] = "Failed"]
    /\ UNCHANGED <<remaining, ready>>

blockUnfinished ==
    /\ ready' = {}
    /\ state' = [p \in Packages |-> IF state[p] \in {"Pending", "Ready"} THEN "Blocked"
                                    ELSE state[p]]
    /\ UNCHANGED remaining

-----------------------------------------------------------------------------
(* The cache, from the most to the least recently used.                    *)

\* Mutant: the key leaves the dependencies out.
keyOfSources(p) == [package |-> p, source |-> source[p], dependencies |-> {}]

\* What p is checked from: the sources in the snapshot and the artifacts of its
\* dependencies, by their fingerprints.
checkCacheKey(p) ==
    [package |-> p, source |-> source[p], dependencies |-> {results[d] : d \in Dependencies[p]}]

\* The artifact of p's session: compiled from the same sources and sessions.
CheckArtifact(p) ==
    [package |-> p, source |-> source[p], dependencies |-> {results[d] : d \in Dependencies[p]}]

Cached(key) == {n \in DOMAIN cache : cache[n][1] = key}
InFront(entry, n) == <<entry>> \o SubSeq(cache, 1, n - 1) \o SubSeq(cache, n + 1, Len(cache))
Touched(n) == InFront(cache[n], n)

\* A key is held once; what exceeds the capacity is evicted from the far end.
Inserted(key, artifact) ==
    IF Cached(key) # {} THEN InFront(<<key, artifact>>, Min(Cached(key)))
    ELSE SubSeq(<<<<key, artifact>>>> \o cache, 1, Min({Len(cache) + 1, Capacity}))

-----------------------------------------------------------------------------
Init ==
    /\ request = 0 /\ kind = "check" /\ cancelled = FALSE
    /\ source = [p \in Packages |-> Min(Versions)]
    /\ state = GraphState
    /\ remaining = [p \in Packages |-> Cardinality(Dependencies[p])]
    /\ ready = {p \in Packages : GraphState[p] = "Ready"}
    /\ results = [p \in Packages |-> None]
    /\ completed_count = 0 /\ stop = FALSE
    /\ pc = [w \in Workers |-> "none"]
    /\ index = [w \in Workers |-> None] /\ result = [w \in Workers |-> None]
    /\ cache = <<>> /\ status = "none"

\* A request over a snapshot in which at most one package was edited since the one
\* before.  Its graph and its results are new; the cache is the earlier requests'.
Begin(k) ==
    /\ status # "running" /\ request < Requests
    /\ request' = request + 1 /\ kind' = k /\ status' = "running" /\ cancelled' = FALSE
    /\ \E p \in Packages, v \in Versions :
         (request = 0 => v = source[p]) /\ source' = [source EXCEPT ![p] = v]
    /\ state' = GraphState
    /\ remaining' = [p \in Packages |-> Cardinality(Dependencies[p])]
    /\ ready' = {p \in Packages : GraphState[p] = "Ready"}
    /\ results' = [p \in Packages |-> None]
    /\ completed_count' = 0 /\ stop' = FALSE
    /\ pc' = [w \in Workers |-> "none"]
    /\ index' = [w \in Workers |-> None] /\ result' = [w \in Workers |-> None]
    /\ UNCHANGED cache

\* A check that is cancelled already, or whose files are no longer those of its
\* snapshot, returns at once; otherwise the workers start.
Start ==
    /\ status = "running" /\ \A w \in Workers : pc[w] = "none"
    /\ \/ cancelled /\ status' = "Cancelled" /\ UNCHANGED pc
       \/ ~cancelled /\ kind = "check" /\ status' = "Failed" /\ UNCHANGED pc
       \/ ~cancelled /\ pc' = [w \in Workers |-> "wait"] /\ UNCHANGED status
    /\ UNCHANGED <<request, kind, source, cancelled, graph, results, completed_count, stop,
                   index, result, cache>>

\* The coordinator cancels a check that a later one supersedes.  Nobody is notified.
Cancel ==
    /\ status = "running" /\ kind = "check" /\ ~cancelled
    /\ cancelled' = TRUE
    /\ UNCHANGED <<request, kind, source, graph, results, completed_count, stop, pc, index,
                   result, cache, status>>

Goto(w, to) == pc' = [pc EXCEPT ![w] = to]
pool == <<request, kind, source, cancelled, status>>
shared == <<results, completed_count, stop>>

Over == stop \/ cancelled \/ completed_count = Cardinality(Packages)

\* The worker leaves, takes a package, or sleeps until it is notified.
Wait(w) ==
    /\ pc[w] = "wait"
    /\ \/ /\ Over
          /\ Goto(w, "returned") /\ UNCHANGED <<graph, index>>
       \/ /\ ~Over /\ hasReadyQuery
          /\ takeReadyQuery(w) /\ Goto(w, "query")
       \/ /\ ~Over /\ ~hasReadyQuery
          /\ Goto(w, "asleep") /\ UNCHANGED <<graph, index>>
    /\ UNCHANGED <<pool, shared, result, cache>>

\* A check looks its package up; a hit is a success even of a cancelled request, and
\* without one a cancelled request does not compile.
Query(w) ==
    /\ pc[w] = "query"
    /\ LET hits == IF kind = "check" THEN Cached(checkCacheKey(index[w])) ELSE {} IN
       \/ \E n \in hits :
            /\ result' = [result EXCEPT ![w] = cache[n][2]]
            /\ cache' = Touched(n) /\ Goto(w, "finish")
       \/ /\ hits = {}
          /\ result' = [result EXCEPT ![w] = None]
          /\ Goto(w, IF cancelled THEN "finish" ELSE "compile")
          /\ UNCHANGED cache
    /\ UNCHANGED <<pool, graph, shared, index>>

\* The package compiles, from the sessions of its dependencies, or does not.  A check
\* caches a success unless the request was cancelled meanwhile.
Compile(w) ==
    /\ pc[w] = "compile" /\ Goto(w, "finish")
    /\ \/ UNCHANGED <<result, cache>>
       \/ LET artifact == CheckArtifact(index[w]) IN
          /\ result' = [result EXCEPT ![w] = artifact]
          /\ cache' = IF kind = "check" /\ ~cancelled
                      THEN Inserted(checkCacheKey(index[w]), artifact) ELSE cache
    /\ UNCHANGED <<pool, graph, shared, index>>

\* Mutant: a failure does not stop the pool.
FinishDoesNotStop(w) ==
    /\ pc[w] = "finish"
    /\ results' = [results EXCEPT ![index[w]] = result[w]]
    /\ completed_count' = completed_count + 1
    /\ IF result[w] # None THEN markSucceeded(index[w]) ELSE markFailed(index[w])
    /\ Goto(w, "notify")
    /\ UNCHANGED <<pool, index, result, cache, stop>>

\* Under the mutex the result is entered and the graph moves on; a package that did
\* not succeed stops the pool.
Finish(w) ==
    /\ pc[w] = "finish"
    /\ results' = [results EXCEPT ![index[w]] = result[w]]
    /\ completed_count' = completed_count + 1
    /\ IF result[w] # None THEN markSucceeded(index[w]) /\ UNCHANGED stop
       ELSE markFailed(index[w]) /\ stop' = TRUE
    /\ Goto(w, "notify")
    /\ UNCHANGED <<pool, index, result, cache>>

\* After the unlock everybody asleep is woken and reads the condition again.
Notify(w) ==
    /\ pc[w] = "notify"
    /\ pc' = [v \in Workers |-> IF v = w \/ pc[v] = "asleep" THEN "wait" ELSE pc[v]]
    /\ UNCHANGED <<pool, graph, shared, index, result, cache>>

\* The condition variable may wake a worker unasked.
SpuriousWake(w) ==
    /\ pc[w] = "asleep" /\ Goto(w, "wait")
    /\ UNCHANGED <<pool, graph, shared, index, result, cache>>

\* The workers are joined and the request returns its status.
Conclude ==
    /\ status = "running" /\ \A w \in Workers : pc[w] = "returned"
    /\ status' = IF cancelled THEN "Cancelled"
                 ELSE IF stop \/ completed_count # Cardinality(Packages) THEN "Failed"
                 ELSE "Succeeded"
    /\ IF kind = "build" /\ stop THEN blockUnfinished ELSE UNCHANGED graph
    /\ UNCHANGED <<request, kind, source, cancelled, shared, pc, index, result, cache>>

Done == status # "running" /\ request = Requests /\ UNCHANGED vars

WorkerStep(w) == Wait(w) \/ Query(w) \/ Compile(w) \/ Finish(w) \/ Notify(w)

Next ==
    \/ \E k \in {"check", "build"} : Begin(k)
    \/ Cancel
    \/ Start
    \/ \E w \in Workers : WorkerStep(w) \/ SpuriousWake(w)
    \/ Conclude
    \/ Done

\* Threads run and packages finish compiling; a spurious wake may never come.
Fairness == (\A w \in Workers : WF_vars(WorkerStep(w))) /\ WF_vars(Start \/ Conclude)

Spec == Init /\ [][Next]_vars /\ Fairness

-----------------------------------------------------------------------------
\* The artifact of every package, compiled from the sources src all the way down.
ArtifactsOf(src) ==
    LET artifact[p \in Packages] ==
          [package |-> p, source |-> src[p],
           dependencies |-> {artifact[d] : d \in Dependencies[p]}]
    IN  artifact

\* Types; the ready set is exactly the packages in state Ready (the members of
\* CompilerPackageQueryGraph).
TypeOK ==
    /\ request \in 0 .. Requests /\ kind \in {"check", "build"}
    /\ source \in [Packages -> Versions] /\ cancelled \in BOOLEAN /\ stop \in BOOLEAN
    /\ state \in [Packages -> States]
    /\ ready = {p \in Packages : state[p] = "Ready"}
    /\ completed_count \in 0 .. Cardinality(Packages)
    /\ \A p \in Packages : remaining[p] \in 0 .. Cardinality(Dependencies[p])
    /\ pc \in [Workers -> {"none", "wait", "asleep", "query", "compile", "finish",
                           "notify", "returned"}]
    /\ index \in [Workers -> Packages \union {None}]
    /\ Len(cache) <= Capacity
    /\ status \in {"none", "running", "Succeeded", "Failed", "Cancelled"}

\* A package is worked on by one worker, and only when its dependencies have their
\* sessions, which its key reads and its compilation dereferences (takeReadyQuery and
\* markSucceeded against the reads of results outside the mutex).
DependenciesReady ==
    \A w \in Workers : pc[w] \in {"query", "compile"} =>
        /\ \A d \in Dependencies[index[w]] : results[d] # None
        /\ \A v \in Workers \ {w} :
             pc[v] \in {"query", "compile", "finish"} => index[v] # index[w]

\* Every session of a request, from the cache or not, is the one that the sources of its
\* own snapshot give, down through all the dependencies (checkCacheKey, whose
\* dependencies are digests of direct dependencies only).
SessionsCurrent ==
    LET artifact == ArtifactsOf(source) IN
    \A p \in Packages : results[p] \in {None, artifact[p]}

\* A request that says Succeeded has all its packages, one that says Failed has a
\* package that failed or found its files changed before it started, and only a cancelled
\* one says Cancelled (executeNextCheckRequest with workers that left for different
\* reasons).
StatusHonest ==
    /\ status = "Succeeded" => \A p \in Packages : state[p] = "Succeeded"
    /\ status = "Failed" => \/ \E p \in Packages : state[p] = "Failed"
                            \/ \A w \in Workers : pc[w] = "none"
    /\ status = "Cancelled" => cancelled

\* What a request returns can be relied on: types, every session current for the sources
\* of its snapshot, and a status that says what happened (executeNextCheckRequest with
\* its cache, a failure and a cancellation).
RequestSound == TypeOK /\ SessionsCurrent /\ StatusHonest

\* Every request returns, whatever fails and whenever it is cancelled, though a
\* cancellation notifies nobody (the condition variable changed).
RequestReturns == status = "running" ~> status # "running"
=============================================================================
