------------------------- MODULE MCCompilerServices -------------------------
(***************************************************************************)
(* Small instances, for one TLC run, of three services of the compiler:    *)
(* the artifact load executor, the package pool with its cache and the     *)
(* language server.  `part' is chosen at the start: that service takes its *)
(* steps and the others stay in their initial states, where their temporal *)
(* properties ask for nothing.  What the pool promises the language server *)
(* is RequestReturns: that every analysis ends.                            *)
(***************************************************************************)
EXTENDS Naturals, FiniteSets, TLC

CONSTANTS c1, c2, c3, w1, w2, k1, NoKey, d1, d2, q0, q1, q2, None

VARIABLES
    part,
    tasks, busy, accepting, requested, outside, completed, future, specLock,
    consumer, nextLoad, loader, load, owner, pending,
    request, kind, source, cancelled, state, remaining, ready, results, completed_count,
    stop, checker, package, result, cache, status,
    phase, steps, path, asked, query, documents, generation, index, analysis,
    pending_queries, completion_queries, coordinator, worker, todo, registered, early,
    reply, published

loadVars == <<tasks, busy, accepting, requested, outside, completed, future, specLock,
              consumer, nextLoad, loader, load, owner, pending>>
checkVars == <<request, kind, source, cancelled, state, remaining, ready, results,
               completed_count, stop, checker, package, result, cache, status>>
serverVars == <<phase, steps, path, asked, query, documents, generation, index, analysis,
                pending_queries, completion_queries, coordinator, worker, todo, registered,
                early, reply, published>>

\* A worker behind a queue of one; a consumer of two loads and two consumers of the same
\* specialization, which wait for space and for each other.
Loads == INSTANCE ArtifactLoadExecutor WITH
    Consumers <- {c1, c2, c3}, Workers <- {w1}, QueueLimit <- 1,
    Batch <- (c1 :> 2) @@ (c2 :> 1) @@ (c3 :> 1),
    Key <- (c1 :> NoKey) @@ (c2 :> k1) @@ (c3 :> k1),
    active <- busy, cpc <- consumer, next <- nextLoad, wpc <- loader, taken <- load,
    opc <- owner

\* Two workers behind a queue of one; a consumer of two loads and one of a specialization.
Pooled == INSTANCE ArtifactLoadExecutor WITH
    Consumers <- {c1, c2}, Workers <- {w1, w2}, QueueLimit <- 1,
    Batch <- (c1 :> 2) @@ (c2 :> 1), Key <- (c1 :> NoKey) @@ (c2 :> k1),
    active <- busy, cpc <- consumer, next <- nextLoad, wpc <- loader, taken <- load,
    opc <- owner

\* Four packages, two workers, a cache of three and two requests: 1 and 4 depend on 3 and
\* can be checked together, 2 depends on both and, through them, on 3.
Check == INSTANCE PackageCheck WITH
    Packages <- 1 .. 4, Dependencies <- <<{3}, {1, 4}, {}, {3}>>, Workers <- {w1, w2},
    Versions <- {1, 2}, Requests <- 2, Capacity <- 3, pc <- checker, index <- package

\* The language server with two documents, a query about symbols and two completions.
Server == INSTANCE LanguageServer WITH
    Docs <- {d1, d2}, Symbols <- {q0}, Completions <- {q1, q2}, MaxGeneration <- 2,
    MaxRequests <- 2

\* What its client sends: a query and edits of two documents; two completions of one
\* document, where the second supersedes the first; or a completion and two edits.
Clients == {"edits", "superseding", "probes"}
Sends ==
    /\ part = "edits" => asked'[q1] = None /\ asked'[q2] = None
    /\ part = "superseding" => asked'[q0] = None /\ documents'[d2] = 0 /\ generation' <= 1
    /\ part = "probes" => asked'[q0] = None /\ asked'[q2] = None /\ documents'[d2] = 0

InitAll ==
    /\ part \in {"loads", "pooled", "check"} \union Clients
    /\ IF part = "pooled" THEN Pooled!Init ELSE Loads!Init
    /\ Check!Init /\ Server!Init

NextAll ==
    \/ part = "loads" /\ Loads!Next /\ UNCHANGED <<part, checkVars, serverVars>>
    \/ part = "pooled" /\ Pooled!Next /\ UNCHANGED <<part, checkVars, serverVars>>
    \/ part = "check" /\ Check!Next /\ UNCHANGED <<part, loadVars, serverVars>>
    \/ part \in Clients /\ Server!Next /\ Sends /\ UNCHANGED <<part, loadVars, checkVars>>

\* Each service's own fairness, which binds while it is the one that runs.
LoadsFairness ==
    /\ \A c \in {c1, c2, c3} : WF_loadVars(part = "loads" /\ Loads!ConsumerStep(c))
    /\ WF_loadVars(part = "loads" /\ Loads!WorkerStep(w1))
    /\ WF_loadVars(part = "loads" /\ Loads!OwnerStep)
    /\ \A c \in {c1, c2} : WF_loadVars(part = "pooled" /\ Pooled!ConsumerStep(c))
    /\ \A w \in {w1, w2} : WF_loadVars(part = "pooled" /\ Pooled!WorkerStep(w))
    /\ WF_loadVars(part = "pooled" /\ Pooled!OwnerStep)
CheckFairness ==
    /\ \A w \in {w1, w2} : WF_checkVars(part = "check" /\ Check!WorkerStep(w))
    /\ WF_checkVars(part = "check" /\ (Check!Start \/ Check!Conclude))
ServerFairness ==
    /\ WF_serverVars(part \in Clients /\ Server!Continue)
    /\ \A k \in {"analysis", "completion"} :
         WF_serverVars(part \in Clients /\ Server!WorkerStep(k))

SpecAll ==
    /\ InitAll /\ [][NextAll]_<<part, loadVars, checkVars, serverVars>>
    /\ LoadsFairness /\ CheckFairness /\ ServerFairness

-----------------------------------------------------------------------------
\* When drain has returned no load is queued or running, and none will be, and a
\* specialization is submitted at most once, however long the submission waits for space
\* (drain against submit and work, loadSpecialization).
LoadSafety ==
    /\ part = "loads" => Loads!LoadSafety
    /\ part = "pooled" => Pooled!LoadSafety

\* The compilation gets all its results, drain returns and the workers are joined,
\* through a full queue and a cancellation from either side (submit, work,
\* cancelPending, drain, the destructor).
Finishes == part \in {"loads", "pooled"} => Loads!Finishes

\* A package is worked on by one worker, and only when its dependencies have their
\* sessions, which its key reads and its compilation dereferences (takeReadyQuery and
\* markSucceeded against the reads of results outside the mutex).
DependenciesReady == part = "check" => Check!DependenciesReady

\* Every session of a request, from the cache or not, is the one that the sources of its
\* own snapshot give, down through all the dependencies (checkCacheKey and the cache),
\* and its status says what happened, whatever made each worker leave (the end of
\* executeNextCheckRequest).
RequestSound == part = "check" => Check!RequestSound

\* Every request returns, whatever fails and whenever it is cancelled, though a
\* cancellation notifies nobody (the condition variable changed).
RequestReturns == Check!RequestReturns

\* A query the client asked is in exactly one place until its one answer (apply,
\* cancelRequest, requestCompletion and the callbacks against each other and against
\* registerQuery), and one that waits has an analysis of its generation on the way
\* (requestDiagnostics, which asks for none when one is pending).
QueriesKept == part \in Clients => Server!QueriesKept

\* An answer taken from a symbol index is of the documents as they were when the query
\* was asked (enqueue, and the callbacks, against edits).
AnswersCurrent == part \in Clients => Server!AnswersCurrent

\* Every query is answered, unless the client tells the server to exit first.
QueryAnswered == Server!QueryAnswered

\* An edit is diagnosed unless another edit or a close follows it (didOpen and didChange,
\* whose analysis may be cancelled, fail or find nothing).
EditDiagnosed == Server!EditDiagnosed

\* exit ends both workers and the process (the destructors, with an analysis or a
\* callback under way).
ExitEnds == Server!ExitEnds
=============================================================================
