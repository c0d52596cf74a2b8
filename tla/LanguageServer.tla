--------------------------- MODULE LanguageServer ---------------------------
(***************************************************************************)
(* The language server: the reader of chtholly-lsp (main.cpp), the         *)
(* language service it calls and the two request coordinators behind it    *)
(* (CompilerDaemon.cpp), one for the analysis of the workspace and one for *)
(* completion probes, each with a worker thread that runs the newest       *)
(* request and drops the others.                                           *)
(*                                                                         *)
(* A handler of the reader and a callback of a worker are several critical *)
(* sections: `steps' holds those the handler has left.  Query ids are the  *)
(* queries themselves, and a document's version is the generation that its *)
(* last edit made.  An analysis is a choice: it has a symbol index, of its *)
(* request's generation, or fails before it has one.  A worker's wait is a *)
(* guard, since whoever makes its condition true notifies.                 *)
(***************************************************************************)
EXTENDS FiniteSets, Naturals, Sequences

CONSTANTS
    Docs,
    Symbols,            \* queries about symbols: hover, definition, references, rename...
    Completions,        \* completion queries
    MaxGeneration,      \* bound on edits and closes
    MaxRequests,        \* bound on the analyses that watched files ask for
    None

VARIABLES
    phase,              \* "serving", "shutdown" or "exit"
    steps, path,        \* the reader: sections left of the handler, document it closes
    asked, query,       \* asked[q]: generation q was asked at; the query being handled
    documents, generation,
    index,              \* generation of latest_symbol_index, None before the first
    analysis,           \* None, or the pending analysis: [generation, request]
    pending_queries, completion_queries,
    coordinator,        \* one record for "analysis", one for "completion"
    worker,             \* of each coordinator: where it is and the work it took
    todo,               \* todo[t]: <<query, result>> pairs thread t has to complete
    registered, early,  \* internal_requests_ and early_results_ of the server
    reply,              \* what the client was answered
    published           \* published[d]: version of d's last batch, 0 for the empty one

Queries == Symbols \union Completions

service == <<documents, generation, index, analysis, pending_queries, completion_queries>>
server == <<registered, early, reply>>
reader == <<phase, steps, path, asked, query>>
vars == <<reader, service, coordinator, worker, todo, server, published>>

Kinds == {"analysis", "completion"}
Threads == Kinds \union {"reader"}
Result(status, i) == [status |-> status, index |-> i]

-----------------------------------------------------------------------------
(* CompilerDaemonRequestCoordinator.                                       *)

NewCoordinator == [latest_id |-> 0, latest_generation |-> 0, pending |-> None,
                   stopping |-> FALSE, active |-> FALSE, cancelled |-> FALSE]

CancelActive(c) == [c EXCEPT !.cancelled = @ \/ c.active]

\* The newest request takes the place of the one that waits and cancels the one that
\* runs.
submit(c, work) ==
    [CancelActive(c) EXCEPT !.latest_id = @ + 1, !.latest_generation = work.generation,
                            !.pending = [id |-> c.latest_id + 1, work |-> work]]

cancelCurrent(c) == [CancelActive(c) EXCEPT !.pending = None, !.latest_id = @ + 1]

Work(q) == [generation |-> generation, versions |-> documents, query |-> q]

Idle == [pc |-> "wait", id |-> 0, work |-> None, index |-> None]

\* The worker returns when it is told to stop, and takes the request that waits.
Take(k) ==
    LET c == coordinator[k] IN
    /\ worker[k].pc = "wait"
    /\ \/ /\ c.stopping
          /\ worker' = [worker EXCEPT ![k].pc = "ended"]
          /\ UNCHANGED coordinator
       \/ /\ ~c.stopping /\ c.pending # None
          /\ worker' = [worker EXCEPT ![k] = [pc |-> "run", id |-> c.pending.id,
                                              work |-> c.pending.work, index |-> None]]
          /\ coordinator' = [coordinator EXCEPT ![k].pending = None, ![k].active = TRUE,
                                                ![k].cancelled = FALSE]
    /\ UNCHANGED <<reader, service, todo, server, published>>

\* Only the newest request, uncancelled, goes on to its completion.
Publishes(k) ==
    LET c == coordinator[k] IN
    /\ ~c.stopping /\ ~c.cancelled
    /\ worker[k].id = c.latest_id
    /\ worker[k].work.generation = c.latest_generation

\* The request is prepared and executed, with an index or without.
Run(k) ==
    /\ worker[k].pc = "run"
    /\ \E i \in {None, worker[k].work.generation} :
         worker' = [worker EXCEPT ![k] =
                      IF Publishes(k) THEN [@ EXCEPT !.pc = "callback", !.index = i] ELSE Idle]
    /\ coordinator' = [coordinator EXCEPT ![k].active = FALSE, ![k].cancelled = FALSE]
    /\ UNCHANGED <<reader, service, todo, server, published>>

-----------------------------------------------------------------------------
(* CompilerLanguageService: the completions the workers call.              *)

\* The analysis is still the one the service waits for.
Awaited(w) ==
    /\ analysis # None /\ analysis.request = w.id
    /\ w.work.generation = generation
    /\ \A d \in Docs : w.work.versions[d] # 0 => documents[d] = w.work.versions[d]

\* Its index becomes the latest, and the queries of its generation are answered from it.
AnalysisCallback ==
    LET w == worker["analysis"]
        mine == {q \in pending_queries : asked[q] = w.work.generation} IN
    /\ w.pc = "callback"
    /\ \/ /\ ~Awaited(w)
          /\ worker' = [worker EXCEPT !["analysis"] = Idle]
          /\ UNCHANGED <<service, todo>>
       \/ /\ Awaited(w)
          /\ analysis' = None
          /\ index' = IF w.index # None THEN w.index ELSE index
          /\ pending_queries' = pending_queries \ mine
          /\ todo' = [todo EXCEPT !["analysis"] = {<<q, Result(
                IF w.index # None THEN "Succeeded" ELSE "Failed", w.index)>> : q \in mine}]
          /\ worker' = [worker EXCEPT !["analysis"].pc = "deliver"]
          /\ UNCHANGED <<documents, generation, completion_queries>>
    /\ UNCHANGED <<reader, coordinator, server, published>>

\* Mutant: the query is answered whether it is still there or not.
CompletionCallbackKeeps ==
    LET w == worker["completion"]
        q == w.work.query IN
    /\ w.pc = "callback"
    /\ todo' = [todo EXCEPT !["completion"] = {<<q,
                 Result(IF w.index # None THEN "Succeeded" ELSE "Failed", w.index)>>}]
    /\ worker' = [worker EXCEPT !["completion"].pc = "deliver"]
    /\ UNCHANGED <<reader, service, coordinator, server, published>>

\* A completion probe answers its query if that is still there.
CompletionCallback ==
    LET w == worker["completion"]
        q == w.work.query IN
    /\ w.pc = "callback"
    /\ IF q \in completion_queries
       THEN /\ completion_queries' = completion_queries \ {q}
            /\ todo' = [todo EXCEPT !["completion"] = {<<q,
                 IF w.work.generation # asked[q] THEN Result("Stale", None)
                 ELSE Result(IF w.index # None THEN "Succeeded" ELSE "Failed", w.index)>>}]
            /\ worker' = [worker EXCEPT !["completion"].pc = "deliver"]
       ELSE /\ worker' = [worker EXCEPT !["completion"] = Idle]
            /\ UNCHANGED <<completion_queries, todo>>
    /\ UNCHANGED <<reader, documents, generation, index, analysis, pending_queries,
                   coordinator, server, published>>

\* The server's complete_query for what thread t has to complete: an answer to the
\* client, or an early result for a query whose registration is still to come.
completeQuery(t) ==
    LET given == {a[1] : a \in todo[t]}
        ResultOf(q) == (CHOOSE a \in todo[t] : a[1] = q)[2] IN
    /\ reply' = [q \in Queries |-> IF q \in given \intersect registered THEN ResultOf(q)
                                   ELSE reply[q]]
    /\ early' = [q \in Queries |-> IF q \in given \ registered THEN ResultOf(q) ELSE early[q]]
    /\ registered' = registered \ given
    /\ todo' = [todo EXCEPT ![t] = {}]

\* Outside the lock the batches of an analysed request's documents go out, then the
\* answers.
Deliver(k) ==
    /\ worker[k].pc = "deliver"
    /\ published' = [d \in Docs |-> IF k = "analysis" /\ worker[k].work.versions[d] # 0
                                    THEN worker[k].work.versions[d] ELSE published[d]]
    /\ completeQuery(k)
    /\ worker' = [worker EXCEPT ![k] = Idle]
    /\ UNCHANGED <<reader, service, coordinator>>

-----------------------------------------------------------------------------
(* The reader: one message at a time.  A handler starts when no section of *)
(* the one before is left.                                                 *)

Init ==
    /\ phase = "serving" /\ steps = <<>> /\ path = None /\ query = None
    /\ asked = [q \in Queries |-> None]
    /\ documents = [d \in Docs |-> 0] /\ generation = 0 /\ index = None
    /\ analysis = None
    /\ pending_queries = {} /\ completion_queries = {}
    /\ coordinator = [k \in Kinds |-> NewCoordinator]
    /\ worker = [k \in Kinds |-> Idle]
    /\ todo = [t \in Threads |-> {}]
    /\ registered = {}
    /\ early = [q \in Queries |-> None] /\ reply = [q \in Queries |-> None]
    /\ published = [d \in Docs |-> 0]

Handles == phase = "serving" /\ steps = <<>>

\* An edit makes a generation: what is pending is stale and what runs is cancelled.
apply(d, version) ==
    /\ generation < MaxGeneration
    /\ generation' = generation + 1
    /\ documents' = [documents EXCEPT ![d] = version]
    /\ analysis' = None
    /\ todo' = [todo EXCEPT !["reader"] =
         {<<q, Result("Stale", None)>> : q \in pending_queries \union completion_queries}]
    /\ pending_queries' = {} /\ completion_queries' = {}
    /\ coordinator' = [k \in Kinds |-> cancelCurrent(coordinator[k])]
    /\ UNCHANGED <<phase, asked, query, index, worker, server, published>>

\* The handler completes the queries it took, if any.
Completing == IF todo'["reader"] = {} THEN <<>> ELSE <<"complete">>

didOpen(d) ==
    /\ Handles /\ documents[d] = 0
    /\ apply(d, generation + 1)
    /\ steps' = Completing \o <<"diagnose">> /\ UNCHANGED path

\* Mutant: a change asks for no analysis.
didChangeOnly(d) ==
    /\ Handles /\ documents[d] # 0
    /\ apply(d, generation + 1)
    /\ steps' = Completing /\ UNCHANGED path

didChange(d) ==
    /\ Handles /\ documents[d] # 0
    /\ apply(d, generation + 1)
    /\ steps' = Completing \o <<"diagnose">> /\ UNCHANGED path

\* A close asks for no analysis; it clears the document's diagnostics.
didClose(d) ==
    /\ Handles /\ documents[d] # 0
    /\ apply(d, 0)
    /\ steps' = Completing \o <<"clear">> /\ path' = d

didChangeWatchedFiles ==
    /\ Handles /\ coordinator["analysis"].latest_id < MaxRequests
    /\ steps' = <<"diagnose">>
    /\ UNCHANGED <<phase, path, asked, query, service, coordinator, worker, todo, server,
                   published>>

\* Mutant: the latest index serves, whatever its generation.
enqueueAnyIndex(q) ==
    /\ Handles /\ asked[q] = None
    /\ asked' = [asked EXCEPT ![q] = generation] /\ query' = q
    /\ IF index # None
       THEN /\ todo' = [todo EXCEPT !["reader"] = {<<q, Result("Succeeded", index)>>}]
            /\ steps' = <<"complete", "register">>
            /\ UNCHANGED pending_queries
       ELSE /\ pending_queries' = pending_queries \union {q}
            /\ steps' = <<"diagnose", "register">>
            /\ UNCHANGED todo
    /\ UNCHANGED <<phase, path, documents, generation, index, analysis, completion_queries,
                   coordinator, worker, server, published>>

\* A query is answered from an index of its generation, or waits for one.
enqueue(q) ==
    /\ Handles /\ asked[q] = None
    /\ asked' = [asked EXCEPT ![q] = generation] /\ query' = q
    /\ IF index = generation
       THEN /\ todo' = [todo EXCEPT !["reader"] = {<<q, Result("Succeeded", index)>>}]
            /\ steps' = <<"complete", "register">>
            /\ UNCHANGED pending_queries
       ELSE /\ pending_queries' = pending_queries \union {q}
            /\ steps' = <<"diagnose", "register">>
            /\ UNCHANGED todo
    /\ UNCHANGED <<phase, path, documents, generation, index, analysis, completion_queries,
                   coordinator, worker, server, published>>

\* Mutant: the probe is submitted, then cancelled with the one before.
requestThenCancel(q) ==
    LET superseded == {<<p, Result("Cancelled", None)>> : p \in completion_queries} IN
    /\ Handles /\ asked[q] = None
    /\ asked' = [asked EXCEPT ![q] = generation] /\ query' = q
    /\ \E d \in Docs : documents[d] # 0
    /\ completion_queries' = {q}
    /\ todo' = [todo EXCEPT !["reader"] = superseded]
    /\ steps' = <<"submit", "cancel">> \o Completing \o <<"register">>
    /\ UNCHANGED <<phase, path, documents, generation, index, analysis, pending_queries,
                   coordinator, worker, server, published>>

\* A completion supersedes the one before; after a member access in an open document it
\* needs a probe, elsewhere it is answered at once, with no index.
requestCompletion(q) ==
    LET superseded == {<<p, Result("Cancelled", None)>> : p \in completion_queries} IN
    /\ Handles /\ asked[q] = None
    /\ asked' = [asked EXCEPT ![q] = generation] /\ query' = q
    /\ \/ /\ \E d \in Docs : documents[d] # 0
          /\ completion_queries' = {q}
          /\ todo' = [todo EXCEPT !["reader"] = superseded]
          /\ steps' = <<"cancel", "submit">> \o Completing \o <<"register">>
       \/ /\ completion_queries' = {}
          /\ todo' = [todo EXCEPT !["reader"] = superseded \union
                                                {<<q, Result("Succeeded", None)>>}]
          /\ steps' = <<"cancel", "complete", "register">>
    /\ UNCHANGED <<phase, path, documents, generation, index, analysis, pending_queries,
                   coordinator, worker, server, published>>

\* The client cancels a query it was not answered; an answer on its way goes out instead.
cancelRequest(q) ==
    /\ Handles /\ q \in registered /\ q \in pending_queries \union completion_queries
    /\ pending_queries' = pending_queries \ {q}
    /\ completion_queries' = completion_queries \ {q}
    /\ IF q \in completion_queries
       THEN coordinator' = [coordinator EXCEPT !["completion"] = cancelCurrent(@)]
       ELSE UNCHANGED coordinator
    /\ todo' = [todo EXCEPT !["reader"] = {<<q, Result("Cancelled", None)>>}]
    /\ steps' = <<"complete">>
    /\ UNCHANGED <<phase, path, asked, query, documents, generation, index, analysis, worker,
                   server, published>>

shutdown ==
    /\ Handles /\ phase' = "shutdown"
    /\ UNCHANGED <<steps, path, asked, query, service, coordinator, worker, todo, server,
                   published>>

\* Mutant: the coordinators are left running.
exitOnly ==
    /\ phase # "exit" /\ steps = <<>>
    /\ phase' = "exit"
    /\ coordinator' = [k \in Kinds |-> cancelCurrent(coordinator[k])]
    /\ UNCHANGED <<steps, path, asked, query, service, worker, todo, server, published>>

\* The end of the input, or exit, ends the loop and destroys the service, whose
\* coordinators stop in turn.
exit ==
    /\ phase # "exit" /\ steps = <<>>
    /\ phase' = "exit"
    /\ coordinator' = [k \in Kinds |-> cancelCurrent(coordinator[k])]
    /\ steps' = <<"stop completion", "join completion", "stop analysis", "join analysis">>
    /\ UNCHANGED <<path, asked, query, service, worker, todo, server, published>>

-----------------------------------------------------------------------------
(* The later sections of the reader's handlers.                            *)

At(s) == steps # <<>> /\ Head(steps) = s
Leave ==
    /\ steps' = Tail(steps) /\ UNCHANGED <<phase, asked>>
    /\ IF Len(steps) = 1 THEN path' = None /\ query' = None ELSE UNCHANGED <<path, query>>

ReaderCompletes ==
    /\ At("complete") /\ completeQuery("reader") /\ Leave
    /\ UNCHANGED <<service, coordinator, worker, published>>

\* One analysis per generation is asked for.
requestDiagnostics ==
    /\ At("diagnose") /\ Leave
    /\ IF analysis # None /\ analysis.generation = generation
       THEN UNCHANGED <<analysis, coordinator>>
       ELSE /\ coordinator' = [coordinator EXCEPT !["analysis"] = submit(@, Work(None))]
            /\ analysis' = [generation |-> generation,
                            request |-> coordinator'["analysis"].latest_id]
    /\ UNCHANGED <<documents, generation, index, pending_queries, completion_queries, worker,
                   todo, server, published>>

CancelProbe ==
    /\ At("cancel") /\ Leave
    /\ coordinator' = [coordinator EXCEPT !["completion"] = cancelCurrent(@)]
    /\ UNCHANGED <<service, worker, todo, server, published>>

SubmitProbe ==
    /\ At("submit") /\ Leave
    /\ coordinator' = [coordinator EXCEPT !["completion"] = submit(@, Work(query))]
    /\ UNCHANGED <<service, worker, todo, server, published>>

\* The query gets its client id, and the result that came before it.
registerQuery ==
    /\ At("register") /\ Leave
    /\ IF early[query] # None
       THEN /\ reply' = [reply EXCEPT ![query] = early[query]]
            /\ early' = [early EXCEPT ![query] = None]
            /\ UNCHANGED registered
       ELSE registered' = registered \union {query} /\ UNCHANGED <<early, reply>>
    /\ UNCHANGED <<service, coordinator, worker, todo, published>>

ClearDiagnostics ==
    /\ At("clear") /\ Leave
    /\ published' = [published EXCEPT ![path] = 0]
    /\ UNCHANGED <<service, coordinator, worker, todo, server>>

\* A coordinator's destructor stops its worker and joins it.
Stop(k) ==
    /\ At(IF k = "analysis" THEN "stop analysis" ELSE "stop completion") /\ Leave
    /\ coordinator' = [coordinator EXCEPT ![k] =
         [CancelActive(@) EXCEPT !.stopping = TRUE, !.pending = None]]
    /\ UNCHANGED <<service, worker, todo, server, published>>

Join(k) ==
    /\ At(IF k = "analysis" THEN "join analysis" ELSE "join completion")
    /\ worker[k].pc = "ended" /\ Leave
    /\ UNCHANGED <<service, coordinator, worker, todo, server, published>>

Receive ==
    \/ \E d \in Docs : didOpen(d) \/ didChange(d) \/ didClose(d)
    \/ \E q \in Symbols : enqueue(q)
    \/ \E q \in Completions : requestCompletion(q)
    \/ \E q \in Queries : cancelRequest(q)
    \/ didChangeWatchedFiles \/ shutdown \/ exit

Continue ==
    \/ ReaderCompletes \/ requestDiagnostics \/ CancelProbe \/ SubmitProbe
    \/ registerQuery \/ ClearDiagnostics
    \/ \E k \in Kinds : Stop(k) \/ Join(k)

Done == phase = "exit" /\ steps = <<>> /\ UNCHANGED vars

WorkerStep(k) ==
    \/ Take(k) \/ Run(k) \/ Deliver(k)
    \/ k = "analysis" /\ AnalysisCallback
    \/ k = "completion" /\ CompletionCallback

Next == Receive \/ Continue \/ (\E k \in Kinds : WorkerStep(k)) \/ Done

\* Threads run, and an analysis ends; the client need not send anything.
Fairness == WF_vars(Continue) /\ \A k \in Kinds : WF_vars(WorkerStep(k))

Spec == Init /\ [][Next]_vars /\ Fairness

-----------------------------------------------------------------------------
\* Types of the reader, the service and the workers; at most one completion query waits
\* (requestCompletion).
TypeOK ==
    /\ phase \in {"serving", "shutdown", "exit"}
    /\ generation \in 0 .. MaxGeneration /\ index \in 0 .. generation \union {None}
    /\ documents \in [Docs -> 0 .. MaxGeneration] /\ published \in [Docs -> 0 .. MaxGeneration]
    /\ pending_queries \subseteq Queries /\ completion_queries \subseteq Queries
    /\ registered \subseteq Queries /\ query \in Queries \union {None}
    /\ Cardinality(completion_queries) <= 1
    /\ \A k \in Kinds : worker[k].pc \in {"wait", "run", "callback", "deliver", "ended"}

\* A query the client asked is in exactly one place until its one answer: waiting for an
\* analysis or for a probe, in a thread's hands, or among the early results; so it is
\* never answered twice, and no result is left behind (the callbacks, apply, cancelRequest
\* and requestCompletion against each other and against registerQuery).
HeldOnce ==
    \A q \in Queries : asked[q] # None =>
        1 = Cardinality({k \in {"pending"} : q \in pending_queries}
              \union {k \in {"probed"} : q \in completion_queries}
              \union {k \in {"early"} : early[q] # None}
              \union {k \in {"reply"} : reply[q] # None}
              \union {t \in Threads : \E a \in todo[t] : a[1] = q})

\* A query that waits has an analysis of its generation on the way: asked for by the
\* reader next, or waiting or running uncancelled in the coordinator, whose completion the
\* service will accept (requestDiagnostics, which asks for none when one is pending).
QueriesAwaitAnalysis ==
    pending_queries # {} =>
        \/ At("diagnose") \/ phase = "exit"
        \/ LET c == coordinator["analysis"]
               w == worker["analysis"] IN
           /\ analysis # None /\ analysis.request = c.latest_id
           /\ \/ c.pending # None /\ c.pending.id = c.latest_id
              \/ w.pc \in {"run", "callback"} /\ w.id = c.latest_id
                 /\ w.work.generation = generation /\ ~c.cancelled

\* No query of the client is lost or answered twice: types, one place for each until its
\* one answer, and an analysis on the way for those that wait for one (registerQuery,
\* apply, cancelRequest and the callbacks of both workers).
QueriesKept == TypeOK /\ HeldOnce /\ QueriesAwaitAnalysis

\* An answer taken from a symbol index is of the documents as they were when the query
\* was asked (enqueue, and the callbacks, against edits).
AnswersCurrent ==
    \A q \in Queries : reply[q] # None /\ reply[q].index # None => reply[q].index = asked[q]

\* The server catches up with the queries it was asked, unless the client tells it to
\* exit first: as each is asked once, each is answered.
Unanswered == phase # "exit" /\ \E q \in Queries : asked[q] # None /\ reply[q] = None
QueryAnswered == Unanswered ~> ~Unanswered

\* An edit is diagnosed unless another edit or a close follows it (didOpen and didChange,
\* whose analysis may be cancelled, fail or find nothing).
Undiagnosed ==
    /\ phase # "exit"
    /\ \E d \in Docs : documents[d] # 0 /\ documents[d] = generation
                       /\ published[d] # generation
EditDiagnosed == Undiagnosed ~> ~Undiagnosed

\* exit ends both workers and the process (the destructors, with an analysis or a callback
\* under way).
ExitEnds == (phase = "exit") ~> (steps = <<>> /\ \A k \in Kinds : worker[k].pc = "ended")
=============================================================================
