# Formal models of Chtholly

Chtholly is a compiled language: a C++ compiler, the C and C++ runtime that
compiled programs link, a package registry with its servers, and the tools around
them. This directory holds TLA+ models of the parts whose correctness depends on
the order in which several threads or processes act, TLC runs that check the models
on small instances, and TLAPS proofs for every size. Source paths below are relative
to the repository root.

- [Inventory](#inventory)
- [Modules and their correspondence to the code](#modules)
- [Runs](#runs)
- [Fairness](#fairness)
- [Proofs](#proofs)
- [Findings](#findings)
- [What is not modelled](#not-modelled)
- [Plan](#plan)

To check a run: `tlc -config TaskTree.cfg MCTaskScheduler`; to check the proofs:
`tlapm TypedChannelProofs.tla`. `PROJECT.json` lists the runs, the source lines of
every definition, the hazards, and for every checked property a mutation of the code
that breaks it.

<a id="inventory"></a>
## Inventory

### Runtime (`runtime/`): what compiled programs run on

| Component | State | Operations | Interaction | What is hard |
|---|---|---|---|---|
| **Task runtime** `runtime/src/Task/next_task_v1.c` | executors (run queue, deadline heap, workers), scopes (task list, cancel flag), tasks (state, rerun debt, cancel flag and cause, completions), groups | create, create_child, wake, request_cancel, join, rebind_executor, deadline_after, completion arm/detach, group attach/close, retain/release of everything | workers call the frame's `resume`; frames and host threads call back into the interface; completions call into awaiting frames | all of it is concurrent: wake against suspension, cancellation against creation and completion, last release against workers |
| **Typed channel** `runtime/src/Host/next_typed_channel_v1.c` | a registry of channels; per channel the queue, reservations, active receives, pinned calls | init, send prepare/commit/cancel, receive acquire/commit/cancel, close | callers run payload move and drop callbacks outside the lock | close against calls and tokens in flight; affine ownership of values |
| **Byte channel** `runtime/src/Host/next_channel_v1.c` | ring buffer, waiters | init, send, receive, close | blocking host threads | close against waiters; the wrap of the ring |
| **Sync primitives** `runtime/src/Host/next_sync*_v1.c` | mutexes, guard tokens | lock, try_lock, unlock, guard move/drop | host threads | guard tokens after destruction |
| **Resource leases and payload transport** `runtime/src/Host/next_resource_lease_v2.c` | a lease's state and count of tokens, operations (terminal state, provider inside), transports (queue, reservations) | acquire, release, begin_close, quiesce, destroy; operation begin, complete, provider enter/leave, destroy; send, receive and close of a transport | host and component call it from both sides; payload callbacks outside the mutexes | nothing blocks, so every close is retried; tokens released by whichever side is last |
| **Component loader** `runtime/src/component_loader_v*.cpp` | a module's lease, active calls, owner references, closing flags | load, invoke_payload, retain, release_owner, close | the component's code runs without the mutex | unload against invocations, payloads and a second close |
| Hosted async, host services, core runtime | little | platform calls, containers | | sequential, or pure input and output |

### Driver services (`lib/Driver/`, `tools/`)

| Component | State | Operations | What is hard |
|---|---|---|---|
| **Artifact store** `Compiler/CompilerArtifactStore*.cpp` | content-addressed files, a root per session, leases, the store lock | acquire, compile, publish, release, collect | several processes, each of which may die between any two writes |
| **Artifact load executor** `Compiler/CompilerArtifactLoadExecutor.cpp` | bounded queue, workers, futures, shared specializations | submit, run, cancel, drain, destroy | queue at its limit; a cancellation that notifies nobody |
| **Package pool** `Compiler/CompilerPipeline.cpp`, `CompilerPipelineExecution.cpp`, `lib/Compiler/Pipeline/PackageQueryGraph.cpp` | query graph, results, the cache of checked packages | take, look up, compile, mark, conclude | results read without the mutex; cancellation; a cache that outlives requests |
| **Language service and coordinators** `Compiler/CompilerDaemon.cpp`, `tools/chtholly-lsp/main.cpp` | documents and their generation, pending queries, the latest index, one pending request per coordinator | open, change, close, queries, cancel, shutdown, exit | callbacks of finished work against edits; results before their registration; the destructor |
| **Registry publication store** `Registry/` | database, archives, trash, a Git worktree and its remote | publish, yank, distribute, recover, reseal, recovery points, collect | crash or failure between any two effects; plans that grow stale |
| Transparency, witnesses, trust, signing, backup | files, signatures | verify, sign, restore | formats and cryptography |
| Packages, toolchain manager, CFFI, tooling | files | install, switch, generate | mostly sequential |

### Compiler (`lib/Compiler`, `lib/Basic`, `lib/Core`, `lib/Support`, about 105,000 lines)

Frontend, semantics, IR, LLVM lowering, the CFDL interop language and the pipeline:
sequential algorithms over unbounded inputs, outside what a model checker reaches.

### What makes the core correct

- *Scheduling*: a wake is never lost and a task is never run twice at a time
  (`ScheduledOnce`, `NoLostWake`, `SleepersHaveReason`, `WokenIsResumed`).
- *Cancellation*: it reaches every descendant and nothing else, at whatever moment
  children are created, and never replaces a committed result (`CancelClosed`,
  `DownwardOnly`, `CancelledIsWoken`, `CancellationWins`, `CommitIsFinal`,
  `CancelledEnds`, `ReleaseReturns`).
- *Deadlines*: an armed deadline does not outlive its task (`DeadlinesRetired`); the
  heap holds the armed ones, hands out the earliest, and time saturates instead of
  wrapping (`HeapExact`, `EarliestFirst`, `DueExact`).
- *Lifetime*: counts equal owners, nothing freed is used, nothing leaks, no thread
  joins itself (`RefsExact`, `NoUseAfterFree`, `NoLeak`, `NoSelfDispose`).
- *Completions and groups*: whatever a detach, a publication and a release race for, a
  waiter is woken at most once and its context is released exactly once; a group is
  ready only when every child has ended, with every outcome recorded; cancelling a group
  reaches the children attached meanwhile (`CallbacksOnce`, `ReadyIsDrained`,
  `OutcomeComplete`, `CancelReaches`, `WaiterIsWoken`, `GroupDrains`).
- *Typed channel*: exact counters, bounded, one owner per value, no lost wakeup, no use
  after close has freed the channel, close ends (`CountersExact`, `WithinCapacity`,
  `SingleOwner`, `NoLostWakeup`, `NoUseAfterFree`, `CloseTerminates`,
  `BlockedReturns`).
- *Byte channel*: it is a bounded stream (`ImplementsStream`), wakes whoever can go on
  and closes (`BytesNoLostWakeup`, `BytesNoUseAfterFree`, `CloseTerminates`).
- *Leases and components*: the count is the tokens, a closed lease has no user, a
  payload has one owner whose provider stays loaded, and a module is unloaded when, and
  in the end because, nothing of it can run (`ActiveExact`, `OperationPins`,
  `ClosedIsQuiet`, `QuiescedIsEmpty`, `SingleOwner`, `OwnerRetained`,
  `UnloadedIsUnused`, `NoTokenOutlivesLease`, `CloseCompletes`).
- *Artifact store*: what a root or a live lease needs is never swept, a collection
  leaves nothing else, and no publication is overwritten unseen (`RootsIntact`,
  `LeasesIntact`, `CollectionIsComplete`, `NoLostPublication`).
- *Compiler services*: loads are shared and drained (`LoadedOnce`, `DrainedIsQuiet`,
  `Finishes`); packages are checked in dependency order, from current sessions, with an
  honest status (`DependenciesReady`, `SessionsCurrent`, `StatusHonest`,
  `RequestReturns`); every query is answered once and from current text, every edit
  diagnosed, and exit exits (`HeldOnce`, `QueriesAwaitAnalysis`, `AnswersCurrent`,
  `QueryAnswered`, `EditDiagnosed`, `ExitEnds`).
- *Registry*: archives are served, mutations logged once, the index is neither ahead of
  nor, after a restart, behind the database (`ArchivesServed`, `RowsHaveArchives`,
  `LoggedOnce`, `DistributedIsPublished`, `PublishedIsCommitted`, `RestartDistributes`).

<a id="modules"></a>
## Modules and their correspondence to the code

In all modules a step is one critical section of a mutex, or one effect on a database
or a file system; whatever the code does between two critical sections is a step of its
own, so every interleaving the locks permit is explored. A definition that begins with a code name models that
function. Definitions named after another with a suffix (`typed_releaseSilent`,
`MarkLast`, ...) are its mutants and take no part in a specification.

### `TypedChannel`

One channel, any number of callers. A *caller* is one operation in flight with the
token it may own between its two phases (prepare/commit, acquire/commit); a thread
that owns several tokens is several callers. Variables are the fields of the channel
(`queue` is the node list, `size` its length), `pc` and `payload` the callers' own
state, and `source`, `delivered`, `dropped` the places a value may be outside the
channel. The condition variables are sets of sleeping callers, emptied by a broadcast
and, one by one, by `SpuriousWake`.

| Action | Code |
|---|---|
| `typed_acquire`, `typed_release` | pin and unpin of an entry call, with the registry lookup |
| `SendPrepareEnter`, `SendPrepare`, `SendPrepareReturn` | `send_prepare`: enter, one pass of the wait loop, leave |
| `SendCommitSelect`, `SendMove`, `SendLink`, `SendCommitFail`, `SendCancel` | `send_commit`: first section, the move callback outside the lock, second section; both failure paths; `send_cancel` |
| `ReceiveAcquire...`, `ReceiveConsume`, `ReceiveFinish` | `receive_acquire`, then the callback and the section of `receive_commit` and `receive_cancel` |
| `CloseBegin`, `CloseWait`, `CloseDrop`, `CloseFree` | `close`: unlink and mark, one pass of the wait, drop of the detached nodes, free |
| `RefuseHandle` | an entry call on a handle that is no longer registered |

Left out: argument and alignment validation and the tokens' magic numbers (a caller
uses the token it owns), and a handle whose address is reused by a later channel.

### `TaskScheduler`

The tasks of one scope on one or more executors. `op[x]` is the call a thread is in
the middle of together with its locals: a cancellation walk, a child creation between
its two sections, a join, or the retirement of deadlines. The scope mutex is the only
lock held over several steps (a walk locks and wakes each task under it), so it is a
variable; all other sections are atomic. `ancestors[t]` is the chain of cancellation
nodes above a task. `woken` and `requested` are history variables: a wake not
answered by a resume yet, and the tasks whose own cancellation was asked for.

| Action | Code |
|---|---|
| `Wake`, `WakeTask`, `Enqueue` | `task_wake`, `next_task_enqueue_locked` |
| `Create`; `CreateChild`, `CreateChildInsert`, `Insert` | `task_create`; `task_create_child` and `next_task_create_on`, which checks the parent twice |
| `RequestCancel`, `WalkWake`, `WalkScope`, `WalkLock`, `WalkMark`, `WalkUnlock` | `task_request_cancel`, `next_task_request_cancel_tree`, `next_task_mark_cancelled` |
| `ScopeRequestCancel` | `scope_request_cancel` and the first half of `scope_release` |
| `TaskJoin`, `JoinWait` | `task_join`, `scope_join` |
| `DeadlineAfter`, `DeadlineRelease`, `DeadlineSelect`, `DeadlineExpire` | arming, releasing, selection by a worker, the cancellation it causes |
| `Rebind` | `task_rebind_executor` by the running continuation |
| `Dequeue`, `Sleep`, `Return`, `Finish` | the worker loop and `next_task_run` around `resume` |
| `Publish`, `Retire`, `Detach` | `next_task_publish_terminal`, `next_task_remove_from_scope` |

Left open: the order in which a walk visits its tasks, when an armed deadline expires,
what a frame returns (any member of `Steps`, `"Unknown"` standing for a number the
interface does not define). A caller keeps the interface's contract that a continuation
which rebinds returns RESCHEDULE (`next_task_v1.h:140-141`). Repeating a request that
was already made changes nothing but costs another walk, so a task's cancellation, and
the scope's outside release, are asked for once.

### `TaskLifetime`

Reference counts: one executor, one scope, its tasks, clients that own handles. A
thread's `todo` is the sequence of releases and disposals it still has to perform, so
a release, and the disposal it may trigger, are separate steps of the thread that
happens to drop the last reference. Scheduling is reduced to what moves references.
`HostKeepsExecutor` says whether the host keeps its executor handle until the workers
are idle.

### `TaskGroup`

Completions and groups: one group, children of its owner, clients that hold handles and
workers that publish. `todo[x]` is what a thread still has to do outside the locks, as a
sequence of pending operations (a callback, a request, one reference to drop), each of
them a step. `ended` is the step a task has committed, `outcome` the one it has published:
between the two a task can no longer be cancelled, but it can still be attached and waited
for. Histories, read by no action's guard: what a completion was armed on (`of`) and the
callbacks it has had (`woke`, `released`), the tasks that were attached, and those
attached as success-only (`expected`).

| Action | Code |
|---|---|
| `CompletionArm`, `GroupCompletionArm`, `Arm`, `ArmReady` | `completion_arm`, `task_group_completion_arm` and their two dispositions |
| `CompletionDetach` | `completion_detach` and `completion_release` |
| `WakeCallback`, `ReleaseCallback`, `Drop`, `OwnerRelease` | `next_task_publish_completions`, `next_task_completion_drop_internal`, the last reference of a task or the group |
| `Attach`, `AttachEnded`, `LateCancel` | `task_group_attach`, under both mutexes; the request for a late member after them |
| `GroupClose`, `GroupRequestCancel`, `MarkRequested`, `CancelNext`, `CancelTask` | `task_group_close`, `task_group_release`, `task_group_request_cancel` and one pass of its loop |
| `Commit`, `Publish`, `PublishMember`, `Taken` | the commit in `next_task_run`, the section of `next_task_publish_terminal`, one pass of `next_task_group_publish_terminal_members` |

Left out: the refusals that change nothing (invalid arguments, a child of another owner,
an open or closed group), failed allocations, `task_group_query`, and further references
taken with retain (a client's handle is one reference). How a cancelled task comes to its
end is the subject of `TaskScheduler`; here any worker may commit it.

### `DeadlineHeap`

The deadlines of one executor: instants with their carry and saturation
(`next_task_instant_add`), the binary heap with `sift_up`, `sift_down`, `insert` and
`remove` as functions on the heap's fields, and the actions `Arm`, `Release`, `Expire`
(a worker takes what is due), `Publish` (a task ends and its deadlines are retired) and
`Tick`. `HeapExact` and `EarliestFirst` compare the heap with the set of armed deadlines,
`DueExact` compares the stored instant with the sum in plain arithmetic.

### `ByteChannel`, `ByteStream`

The byte channel with its ring (`Stored`, `Copied` split a copy at the end of the
buffer), its sleepers and its close. Bytes are numbered in the order they are sent,
modulo `Numbers`, so that a lost, repeated or reordered byte shows. `ByteStream` is what
the channel promises: a bounded stream. `ImplementsStream` is the refinement, with the
ring read from `head` as the pending bytes. `Exclusive` is the contract that nobody is
between its unlocked check and the mutex when the channel is closed; without it
`NoUseAfterFree` fails, as the hazard at `next_channel_v1.c:103` says.

### `ResourceLease`, `ComponentLoader`

`ResourceLease` has one lease, its operations and its payload transports. A *client* is
one capability in flight: a token the host acquired, a send or a receive with its
payload. `place[v]` says where each payload is, `owner` what a detached one retains.

`ComponentLoader` composes the module with the lease: `Lease == INSTANCE ResourceLease`
over the same `lease`, `active` and `operation`, so that a begin, an entering provider or
a completion is the same step in both. The parties are the host (`Invoke`, `Complete`,
`DestroyOperation`, the close in sections `CloseBegin`, `ProviderClose`, `CloseFinish`),
the component's code (`InvokeReturn`, `InvokeFail`, `ProviderEnter`, `ProviderLeave`) and
holders of payloads (`Retain`, `ReleaseOwner`).

### `ArtifactLoadExecutor`

Consumers that submit loads in turn, workers, and the pipeline that owns them. `submit`
is `SubmitSleep`, `SubmitCancelled`, `SubmitPush`, `SubmitNotify`; `work` is `WorkerSleep`
to `WorkerDrained`; `cancelPending`, `drain` and the destructor are the owner's. Every
notify is made after the unlock and is a step of its own. `Start` is `loadSpecialization`,
whose mutex is held until the submission is through.

### `PackageCheck`

The pool that checks or builds the packages of a workspace, over several requests. The
graph is `takeReadyQuery`, `markSucceeded`, `markFailed`, `blockUnfinished`; a worker is
`Wait`, `Query` (cache), `Compile`, `Finish`, `Notify`. A request may be a check, which has
a cancellation token and the cache, or a build, which has neither. An artifact is the
package, the version of its sources and the artifacts of its direct dependencies, which is
what its fingerprint digests; `SessionsCurrent` compares it with the one the whole
snapshot gives (`Artifact`).

### `LanguageServer`

The reader of `chtholly-lsp`, the language service, and its two request coordinators with
a worker each. A handler of the reader is several critical sections: `steps` holds those
it has left. `submit` and `cancelCurrent` are functions on a coordinator's fields; a
worker is `Take`, `Run`, its callback, and `Deliver`, which publishes and answers outside
the lock. `completeQuery` and `registerQuery` are the two halves of the race for a query's
client id. A document's version is the generation its last edit made.

### `ArtifactStore`

Processes that share one store: `Acquire` a lease on the session's root, `Compile` with
what the store has, publish (verification, the check of the root under the lock, one file
to a step, the root last), `Release`, collect (marking, one file to a step). `Crash` ends a
process anywhere; its file locks go with it, its lease record and the files it wrote stay.

### `RegistryPublication`

A process is a program counter over the effects of one call; shared are the database
(changed by transactions), the archives, the trash, the index worktree, its Git index, its
commit and the remote. Every effect may fail (`CopyFails`, `StepFails`, `SealRollback`,
`SweepFails`) and the process may die between any two (`Crash`); `open` restores the trash
of unfinished collections and distributes what is pending.

### The MC modules

`MCTaskScheduler`, `MCTaskLifetime`, `MCDeadlineHeap` and
`MCRegistryPublication` give one module its small sets of model values. The others hold
several components, or several shapes of one, for one run: `MCServices` (typed channel,
loader, scheduler), `MCWaiters` (byte channel, groups), `MCCompilerServices` (load executor,
package pool, language server), `MCRetention` (task references, deadline heap, lease, artifact
store) and `MCTaskSharing` (three shapes of groups). In these a variable `part`
(`shape`) is chosen in the initial state and never changes: that component takes its steps and
the others keep their initial values, so the states of the run are the union of the states of
its parts, and each property is stated of its own part. This loses nothing, for the parts
share no state.

### The proof modules

`TypedChannelProofs`, `ByteChannelProofs`, `TaskSchedulerProofs`, `TaskLifetimeProofs`,
`TaskGroupProofs`, `ComponentLoaderProofs` and `RegistryPublicationProofs` extend the module
they are about with its inductive invariant, lemmas and theorems. `ComponentLoaderProofs` also
has the lease under the loader, as an instance of `ResourceLease` with transports. `CompilerServicesProofs` extends
`ArtifactLoadExecutor` and has the store that loads read from, the pool of packages and the
language server as instances of `ArtifactStore`, `PackageCheck` and `LanguageServer`.
Each is complete by itself: the few lemmas on positions in a queue (`Appended`, `Taken`) are
stated in each module that has one.

<a id="runs"></a>
## Runs

| Run | Instance | Shows |
|---|---|---|
| `services` | typed channel: 3 callers, 3 values, 2 slots; loader: 2 operations, 2 closers, 2 holders; scheduler: 2 tasks, 1 worker, 1 client, cooperative frames | the safety of the first two and that their closes end; woken tasks are resumed, cancelled ones end, release returns |
| `waiters` | byte channel: 3 callers, ring of 2; groups: 1 task, 1 member, 1 completion, 2 clients, 1 worker | the stream the byte channel implements, its wakeups and its close; waiters of a group are woken, a cancelled group drains |
| `compiler_services` | loads, queue of 1: 3 consumers (2, 1 and 1 loads, two of one specialization) and 1 worker, or 2 consumers (2 and 1 loads) and 2 workers; packages: 4 in a diamond, 2 workers, 2 requests, cache of 3; language server: 2 documents, 3 queries, 2 edits | loads are shared and drained; packages in order, current and honest; every query answered once |
| `retention` | references: 2 tasks, 2 workers, 2 clients, host keeps its executor; heap: 6 deadlines of 2 tasks near the end of time; lease: 2 capabilities, 1 operation, 2 transports of 1 place; store: 3 builds of 2 sessions, 3 manifests | counts are exact, nothing held is freed, what nobody holds goes |
| `task_scheduling` | 2 tasks, 2 workers of 1 executor, 1 deadline, 1 client, every step | no lost, duplicated or unexplained scheduling; deadlines are retired with their task |
| `task_tree` | 3 tasks, 1 worker, 1 client | cancellation reaches exactly the descendants and is not overwritten |
| `task_switch` | 2 tasks, 2 executors with 1 worker each, 1 client | the scheduling invariants under rebinding |
| `task_sharing` | calls: 1 task, 2 completions on it or on the group, 1 client; clients: 1 task, 1 member, 1 completion, 2 clients; drain: 2 tasks, 2 members, 2 workers | callbacks, references and group cancellation; ready means drained, outcomes are complete |
| `registry_publication` | 1 process, a publication and its countersignature, a lifecycle change, a recovery point, a collection, an orphaned archive, 4 calls, 2 faults | what clients fetch through crashes and failures |
| `task_deadline_switch` | 1 task, 2 executors, 1 deadline | violation: a deadline left on the old executor |
| `task_self_dispose` | 1 task, 1 worker, 1 client, host does not keep its executor | violation: a worker disposes of its own executor |
| `deadline_retirement` | 6 deadlines of 2 tasks | violation: the scan misses a deadline |

What a run checks of a component is a conjunction of named parts, each defined and explained
on its own in the component's module; TLC reports the conjunction, and its trace shows which
part fails.

| Property | Module | Parts |
|---|---|---|
| `Accounting` | `TypedChannel` | `TypeOK`, `CountersExact`, `WithinCapacity` |
| `BytesSafety` | `ByteChannel` | `TypeOK`, `NoUseAfterFree`, `NoLostWakeup` |
| `UnloadSafety` | `ComponentLoader` | `TypeOK`, `UnloadedIsUnused`, `NoTokenOutlivesLease` |
| `LoadSafety` | `ArtifactLoadExecutor` | `TypeOK`, `DrainedIsQuiet`, `LoadedOnce` |
| `RequestSound` | `PackageCheck` | `TypeOK`, `SessionsCurrent`, `StatusHonest` |
| `QueriesKept` | `LanguageServer` | `TypeOK`, `HeldOnce`, `QueriesAwaitAnalysis` |
| `ReferencesBalance` | `TaskLifetime` | `TypeOK`, `NoUseAfterFree`, `RefsExact`, `NoLeak`, and `NoSelfDispose` if the host keeps the executor |
| `HeapCorrect` | `DeadlineHeap` | `TypeOK`, `HeapExact`, `DueExact`, `EarliestFirst` |
| `LeaseCounted` | `ResourceLease` | `TypeOK`, `ActiveExact`, `OperationPins`, `ClosedIsQuiet`, `QuiescedIsEmpty` |
| `PayloadsOwned` | `ResourceLease` | `SingleOwner`, `OwnerRetained` |
| `StoreExact` | `ArtifactStore` | `TypeOK`, `RootsIntact`, `LeasesIntact`, `CollectionIsComplete`, `NoLostPublication` |
| `SchedulingExact` | `TaskScheduler` | `TypeOK`, `ScheduledOnce`, `NoLostWake`, `CancelledIsWoken`, `SleepersHaveReason`, `DeadlinesRetired` |
| `CancellationExact` | `TaskScheduler` | `CancelClosed`, `DownwardOnly`, `CancellationWins` |
| `SharingSafe` | `TaskGroup` | `TypeOK`, `CallbacksOnce`, `CancelReaches`, `NoUseAfterFree`, `NoLeak` |
| `DrainExact` | `TaskGroup` | `ReadyIsDrained`, `OutcomeComplete` |
| `ArchivesKept` | `RegistryPublication` | `TypeOK`, `ArchivesServed`, `RowsHaveArchives` |
| `IndexFaithful` | `RegistryPublication` | `LoggedOnce`, `DistributedIsPublished`, `PublishedIsCommitted` |

The properties that stand alone are `NoUseAfterFree`, `NoLostWakeup` and `SingleOwner` of the
typed channel, `DependenciesReady`, `AnswersCurrent`, `CommitIsFinal`, the refinement
`ImplementsStream`, and the liveness properties.

*Why the bounds are enough to be interesting.* Three callers of a channel with two slots admit
a sender in its move callback, a receiver with a token and the closer waiting for both, or two
reservations and a blocked sender. A ring of two bytes wraps at every second byte, inside a
send of two. Two tasks and two workers give every pairwise race of wake, resume, cancellation
and publication; three tasks give a grandchild, the least at which a walk can miss a descendant
whose parent is already gone; two executors are the least for rebinding. One client suffices
beside workers because frames make every call that a client makes. Two completions are the
least at which a list loses one while it keeps another, two members the least at which one
publication does not drain the group and the next does, and a task may be attached twice. Six
deadlines are the fewest for which a removal moves an entry up. The instants have two
nanoseconds to a second and end after three seconds, so carry and saturation both happen. A
queue of one is full whenever a submitter comes second; with one worker a consumer sleeps for
space in the middle of a specialization that another one waits for, with two a load may run
while the last of the queue is drained. In the diamond of packages two are checked at once, a
third waits for both, and the fourth is a dependency at one remove; two requests and a cache of
three make hits, stale keys and eviction. Two edits are the least at which an analysis is
superseded and the next one counts; two completions the least at which one supersedes another.
Three builds give two of one session and one from outside, with an artifact they share. Four
registry calls are a publication, a retry or countersignature, and the plan and application of
a collection; two faults are a failure and a crash in its aftermath. There is no bound on the
number of steps otherwise: wake, requeue, receive and retry loops run as long as they like.
`MaxGeneration`, `MaxRequests`, `Requests`, `MaxDeadlines`, `MaxLog`, `MaxTime`, `MaxCalls` and
`MaxFaults` bound what the environment does.

The client of the language server sends, in one behaviour, edits of two documents and a
query about symbols, or completions that supersede each other, or a completion and edits:
three shapes (`Sends` of `MCCompilerServices`) in place of their product.

*Deadlock* is checked in `services`, `waiters` and `compiler_services` and, of the lease and
the store, `retention`, except of tasks; their modules let a system that is really finished, and nothing else, stay as it
is. The task and registry runs
do not check it: a program with only suspended tasks, one that has released its last handle, or
a registry nobody calls, may stop. What must not stop is stated by `SleepersHaveReason` and the
liveness properties.

*Symmetry* is used in safety runs only, over tasks, and over workers and clients where they
are interchangeable (not over workers of different executors).

*Stated and not run.* `PublishedVerifies` and `CheckpointCovers` of `RegistryPublication` say
that clients can always verify the index they fetch. They fail when a crash leaves a worktree
between two of its signed files, or when an older pending mutation is sealed after a newer
one; nothing in the documentation rules these out, so they are recorded as a hazard.

*Known and not claimed.* Closing one document cancels the pending analysis and asks for no
other, so an edit of another document may stay undiagnosed until the next event
(`CompilerDaemon.cpp:461`); the diagnostics of an analysis may be published after those a close
cleared (`CompilerDaemon.cpp:548`); a change of watched files is absorbed by a pending analysis
of the same generation (`CompilerDaemon.cpp:478`); a crash inside `copyIntoCas` leaves a
temporary archive that makes planning a collection fail until it is removed
(`RegistryServerSupportInternal.cpp:151`); `gc apply` opens the store in a process of its own,
and between a server's copy of an archive and the transaction that refers to it the
collection sees no reference and may take the archive away (`RegistryServerPublicGc.inc:216`);
and the linker reads objects of the store after the lease on them is retired
(`CompilerPipeline.cpp:606`). The models reach the first two, the fourth and, with two
processes, the fifth; no document promises otherwise.

<a id="fairness"></a>
## Fairness

- Channel: weak fairness of each caller's steps inside the runtime (threads are
  scheduled and critical sections are finite), and of completing a token it owns. The
  second is the ABI contract: "The runtime typed-channel token remains caller-owned and
  must be completed or cancelled exactly once"
  (`docs/en/design/typed-channel-abi.md:28-29`). Nobody is obliged to make a new call.
- Tasks: weak fairness of a call that has been entered and of each worker's loop; a
  resumed frame returns (a compiled frame suspends instead of waiting, and "worker paths
  only drop internal references and never block on scope completion",
  `docs/en/design/next-task-frame-runtime-abi.md:41-42`). `Cooperative` restricts frames
  to what compiled frames do, namely end at a cancellation checkpoint. Nobody is obliged
  to call, and a deadline is not obliged to expire.
- Groups: weak fairness of a thread inside a call or a publication, and of the end of a
  cancelled task, which `CancelledEnds` of `TaskScheduler` shows. A task that is not
  cancelled may stay suspended, and nobody is obliged to call.
- Byte channel: weak fairness of a caller that is inside a call; asleep it is obliged to
  nothing. Nobody is obliged to call.
- Component loader: an invocation returns, a provider inside an operation leaves it, the
  host completes an operation it began and drops what it holds, and a close that returned
  NOT_READY is called again, as its header asks. Of the component's own close, which may
  fail any number of times before it succeeds, strong fairness: it does succeed if it is
  tried again and again.
- Load executor: weak fairness of consumers, workers and the owner. A cancellation from
  outside is not obliged to come.
- Package pool: weak fairness of the workers (packages finish compiling) and of the thread
  that waits for them; a spurious wake-up may never come.
- Language server: weak fairness of the reader inside a handler and of both workers. That
  a worker's analysis ends is `RequestReturns` of `PackageCheck`. The client is obliged to
  send nothing.
- Registry: weak fairness of a process inside a call, and of its restart after a crash;
  crashes and failures are bounded, so signer, Git and disk work in the end. No client
  retries and no operator calls.

<a id="proofs"></a>
## Proofs

| Module | Theorem | Statement | Run that checks it on an instance |
|---|---|---|---|
| `TypedChannelProofs` | `Invariant` | `Spec => []IInv` | |
| | `TypeCorrect`, `Counters`, `Bounded`, `Accounted` | types, exact counters, capacity; `Spec => []Accounting` | `services` |
| | `Wakeups`, `SafeFree` | `Spec => []NoLostWakeup`, `Spec => []NoUseAfterFree` | `services` |
| | `OneOwner` | `Spec => []SingleOwner` | `services` |
| `ByteChannelProofs` | `Invariant` | `Spec => []IInv` | |
| | `Wakeups` | types and `NoLostWakeup`, calls racing with the close included | `waiters` |
| | `Safe` | with `Exclusive`, `Spec => []BytesSafety` | `waiters` |
| | `StreamImplemented` | `Spec => ImplementsStream` | `waiters` |
| `TaskSchedulerProofs` | `Invariant` | `Spec => []IInv` | |
| | `CancelExact` | `Spec => []CancellationExact` | `task_tree` |
| | `Scheduled` | `ScheduledOnce`, `NoLostWake`, `CancelledIsWoken`, `SleepersHaveReason` | `task_switch` |
| | `Committing` | `Spec => CommitIsFinal` | `task_scheduling` |
| | `OneExecutorExact` | with one executor, `Spec => []SchedulingExact` | `task_scheduling` |
| `TaskLifetimeProofs` | `OwnersCounted` | `Spec => []IInv` | |
| | `WorkersNeverDispose` | `Spec => [](HostKeepsExecutor => NoSelfDispose)` | `retention` |
| | `ReferencesHold` | `Spec => []ReferencesBalance` | `retention` |
| `TaskGroupProofs` | `GroupInvariant`, `DrainHolds` | `Spec => []DrainExact` | `task_sharing` |
| | `SharingHolds` | `Spec => []SharingSafe` | `task_sharing` |
| `ComponentLoaderProofs` | `Invariant`, `SafeUnload` | `Spec => []UnloadSafety` | `services` |
| | `LeaseInvariant`, `LeaseHolds` | `Res!Spec => []Res!LeaseCounted` | `retention` |
| | `PayloadsHold` | `Res!Spec => []Res!PayloadsOwned` | `retention` |
| `CompilerServicesProofs` | `Invariant`, `SafeLoads` | `Spec => []LoadSafety` | `compiler_services` |
| | `StoreInvariant`, `StoreHolds` | `Store!Spec => Store!StoreExact` | `retention` |
| | `PoolInvariant`, `DependenciesHold` | `Check!Spec => []Check!DependenciesReady` | `compiler_services` |
| | `RequestsHold` | `Check!Spec => []Check!RequestSound` | `compiler_services` |
| | `ServerInvariant`, `QueriesHold` | `Server!Spec => []Server!QueriesKept` | `compiler_services` |
| | `AnswersHold` | `Server!Spec => []Server!AnswersCurrent` | `compiler_services` |
| `RegistryPublicationProofs` | `Invariant` | `Spec => []IInv` | |
| | `ServedArchives` | `Spec => []ArchivesKept` | `registry_publication` |
| | `Faithful` | `Spec => []IndexFaithful` | `registry_publication` |

Each theorem holds for every value of the constants that its module's assumptions admit.
The inductive invariants were checked by TLC, as invariants of the runs' instances, before
they were proved. A module's lemma `Inductive` (in `TaskSchedulerProofs` one lemma per part)
has one case per action and under it one step per conjunct the action disturbs.

### Typed channel

Any finite set of callers and of values and any positive capacity (`CallersAssumption`,
`ValuesAssumption`, `CapacityAssumption`).
`IInv == TypeOK /\ CountersExact /\ Shape /\ WithinCapacity /\ NoLostWakeup`. The parts
need each other. That a counter stays a natural number needs that it counts callers, one
of whom is the caller that decrements it (lemma `Move`: what one caller's move does to
the number of callers at a set of places). That close frees an unused channel needs that
nobody can enter after it unregistered the channel, and that it saw all counters zero,
hence nobody at a place that uses the channel (lemma `NobodyAt`). `Shape` records these:
registered exactly while not closed, at most one closer, a draining closer sees no
activity, sleepers are where they went to sleep, and a caller that moves a value has one.

`OneOwner` adds that every value is in exactly one place (a source, the queue, a caller's
hands, the receiver's or the destructor's). The queue is the delicate place, since a value
in it twice would be owned twice: `Appended` and `Taken` say what append and tail do to
the positions at which a value occurs.

### Byte channel

Any finite set of callers, any positive capacity, any range of byte numbers (`ConstantsOK`).
That the closer is woken needs that `waiters` counts the callers asleep or woken
(`WaitersExact`); that it frees an unused channel needs that it saw that count at zero, and
that nobody stands between its unlocked check and the mutex, which is the caller's contract
`Exclusive`. Only `Safe` assumes it.

The refinement maps the stream's pending bytes to the ring read from `head`. The initial
state is an empty stream; a send is an accept, because the two copies into the ring are the
end of one sequence (the lemmas about `Stored`, `Copied` and the ring's index arithmetic); a
receive hands out a prefix; the close of a drained channel is the end; every other step
leaves the mapped state alone.

### Tasks

Any tasks, executors, threads, deadlines and steps. The parts of `IInv`:

| Part | Says | Needed because |
|---|---|---|
| `Typed`, `Lifecycle` | types; where a task's state, its place in the scope and its ancestors may be | everything |
| `Queues` | a queued task is once in the queue of its executor, any other task in none | a rebound task must not be in two queues |
| `Crew` | the worker that runs or ends a task is the only one | `ScheduledOnce`; and nobody else may publish it |
| `Calls` | what a call in progress may rely on: its task exists, it holds the scope mutex, the child it allocated is nobody else's | a walk marks and wakes in separate steps |
| `Walks` | a walk visits only what is below its root, and while it holds the scope mutex misses no uncancelled task below it | `DownwardOnly`, and that a walk that ends has reached everything |
| `Reached` | an uncancelled task below a cancelled one is still to be visited by a walk that is under way; below a task that ended cancelled, by that task's own worker | `CancelClosed` speaks of quiet moments only and is not inductive |
| `Wakes` | `NoLostWake`, `CancelledIsWoken`, `SleepersHaveReason` | a wake that finds a running task leaves a debt, which the worker pays before it sleeps |

`TaskSteps` sorts the actions by what they do to the tasks, so that the lemma of a part has
a handful of cases instead of twenty. `Committing` is an action property and follows from
`IInv` before the step. `OneExecutorExact` adds `Bound` (an armed deadline is one of a task
that is not published yet, or whose worker has yet to empty the heap) and assumes that there is
one executor: with two, `DeadlinesRetired` is false, which is finding 2.

### Task references

Finite sets of clients, workers and tasks, and at least one client (`ConstantsOK`); a host
that keeps the executor or not. `RefsExact` is about tasks only, and none of the parts of
`ReferencesBalance` is inductive. `Counted` counts the owners of all three kinds of object:
the scope's are the handles, the pending releases, the tasks that are not over and the
clients that wait in `scope_release`, the executor's the handles, the pending releases, those
tasks and the scope until it is freed. A pending release is a position in some thread's
`todo`, so the number of owners is the size of a set of pairs; lemmas `Share` and `TodoStep`
say what happens to it when one thread's sequence changes, and `Pushed` and `Popped` what the
code's own changes do. `Disposals` says that an object without references is freed or has
exactly one disposal pending, `Jobs` and `Calls` which sequences a worker and a client can
have, among them that the worker of a published task still has the references of the list
and of the scope to release, so that neither is freed under the unlink. Then an
object that a thread is about to touch has an owner, and one with an owner is not freed.

That no worker disposes of the executor needs two facts more: once no client has the scope and
none waits for it no task is linked (`Joined`), and a host that releases its executor only when
all is quiet finds it quiet ever after (`HostKept`); until then the clients' handles are owners
beside any release a worker has pending, so that it is never the last.

### Completions and groups

Any tasks, finite sets of clients, members and completions (`GroupConstantsOK`); `Nobody` is
none of them. The parts of `GroupInv` beyond types:

| Part | Says | Needed because |
|---|---|---|
| `MemberList`, `MemberOwners` | a member record in use is once in the group's list, which `active_count` counts, and once with its task or, when that is published, with one thread | a member is taken out of the group once, so that the count reaches zero when the last one leaves and not before |
| `Endings` | what is published is what was committed, by one worker, as the last thing it does | |
| `Recording` | a success-only child has a member that will record its outcome, or its outcome is recorded | `OutcomeComplete` speaks of a drained group only |
| `ArmedOnes` | an armed completion is in the list of what it was armed on, once, and that is not over; a ready one of the group found it closed and empty | a closed group takes no member, so ready stays true |
| `Callbacks` | a completion's wake or release is pending with one thread, once, and where it is in its callbacks follows | `CallbacksOnce`, with a detach that races the publication |
| `Asking` | a member that was asked is cancelled, has committed or will be cancelled by a thread; while one is not asked the loop goes on | `CancelReaches`, for a member attached behind the loop too |
| `Borrowing` | who cancels what is not its own drops its reference later | the loop uses a child outside the lock |
| `Balanced` | a count is the number of owners: handles, pending calls that end in a release, members, completions of an owner, the worker that will publish a task, the list of an armed completion; without owners an object is freed, if it was created | `NoUseAfterFree` and `NoLeak` |

A pending operation is named by its thread and by how many others come after it. A thread
changes only the front of its sequence, so what is behind keeps its name: lemmas about
replacing the front operation by none, one or several say which names come and go, and each
action is one of them with what it does to the lists. The delicate steps are `Publish` and
`PublishMember`, which lay out a whole list of callbacks and members at once and make a
thread the owner of each: the number of owners of an object changes by what is laid out for
it. From `Balanced` an object that a step, a list, a member or a completion reaches has an
owner, hence is not freed.

### Component loader

Finitely many operations and holders of payloads, any closers. `Counted` says that the
lease's count is the number of operations with a token, `Pinned` that an operation has one
exactly while it is armed or its provider is inside, `Closes` what a close that is past its
first section has made sure of. So the close that finds the count at zero and no holder
finds nobody (`Unused`), and nobody comes after it, because the module is closing.

### Resource lease

Finite sets of clients, operations, transports and payloads and any capacity, zero included
(`LeaseConstantsOK`); `Res` is the module itself, without the loader. `LeaseInv` has a part
for each resource the code counts or hands on:

| Part | Says | Needed because |
|---|---|---|
| `ActiveCounted`, `Pinned` | `active` is the number of clients and operations with a token; an available lease has none, an exclusive one at most one | a release never takes a token that is not there, and zero means nobody |
| `Hands` | what a client holds at each place; a payload that is offered is still its sender's and nobody else has it | a send that is cancelled gives the payload back |
| `Counters` | `reservations` and `callbacks` of a transport are the clients that send into it and the closes that drop for it; queue and reservations fit the capacity | the end of a send always finds its place |
| `Quiet` | a close that got past its test saw no token and none comes after it; a quiesced transport is under a closed lease, is empty and in nobody's hand; `transports` counts the live ones | the second close of a transport, a close of another one and the host's own quiesce may all come in between |
| `Nodes` | a node is in one queue, one hand or one detached list, and there once; what is not a node is in none | `SingleOwner` adds up positions, of which a step changes two |
| `Retained` | the callbacks' owner is retained once for each live typed transport and each payload taken out | |

The delicate steps are the ends: `CloseFinish` gives up its transport in a lease that may by
then be closing or closed, and lemma `Ends` shows from `Quiet` and `Counters` that the
transport is in no other hand. The steps of operations are those of the loader, and the two
proofs share the lemmas about them (`PinStep`).

### Load executor

Finitely many workers, any queue limit, any consumers with one load or more, and one load of
a consumer that asks for a specialization. `Consuming` has what the submitter of a
specialization may rely on: it holds the lock of the table and the key has no future yet;
`Working` that `active` is the number of workers with a load; `Owning` that nobody submits
behind the owner that drains, so that what drain saw stays true.

### Artifact store

Any builds of any sessions, any artifacts and any roots (`StoreConstantsOK`). That a root
leads to artifacts only is assumed there: it is what the recursion of `ClosureOf` gives for
references without a cycle, and to derive it would take induction over data. `StoreInv` adds
to the two promises, `RootsIntact` and `LeasesIntact`, why they last:

| Part | Says | Needed because |
|---|---|---|
| `Leased` | a locked lease file has a root in its record and its build is neither collecting nor over | a sweep must respect it, and a dead build's record protects nothing |
| `Locking` | who writes or sweeps holds the store lock, and nobody else does | a root or a lease that came during a sweep would not be marked |
| `Prepared` | what a build does not supply is a component, or a nominal artifact that the root it started from leads to | publish looks only for components; the rest it takes as given |
| `Writing` | the writer's root lacks on disk only what is still to be written, and its session's root is the one it started from | the root may be replaced at any moment after the last write, and before it the build may die |
| `Sweeping` | what is still to be swept is unmarked, what is not is marked or named by a lease record | a sweep that dies halfway has taken nothing that a root or lease needs |

The nominal artifacts are the delicate ones. A build keeps them from its starting root while
other builds publish and sweep; that they are still there is known only once publish holds
the lock and finds the session's root unchanged, for then `RootsIntact` has them.

### Package pool

Any finite set of packages, any workers, versions, number of requests and capacity of the
cache, zero included (`CheckConstantsOK`). That the artifacts of all packages are defined is
assumed: the recursion defines them for dependencies without a cycle, and `verify` refuses
others. The parts of `PoolInv`:

| Part | Says | Needed because |
|---|---|---|
| `Graph` | `remaining` counts the dependencies that have not succeeded; a package handed out waits for none; a package has a session exactly when it succeeded | the dependent that is freed by the last of several concurrent successes is freed once, and finds all sessions |
| `Pool` | a worker with a package is alone with it and its request is running | the sessions it reads outside the mutex are final until it is done |
| `Tally` | `completed_count` and `stop` are exact; who has left had a reason, and it lasts | the status is computed from counters, after workers that left for different reasons |
| `Current` | what a worker has made or found is what the sources give | |
| `Sound` | a cache entry is what its key says, within the capacity | an entry of an earlier request serves a later one whose sources differ elsewhere |

`FromDependencies` is the heart: whoever works on a package finds the sessions of all its
dependencies, they are those the sources give, so its key and its artifact are those of the
recursive definition, one level up.

### Language server

Any documents and queries and any number of edits (`ServerConstantsOK`; `None` is no number,
query or record). The parts of `ServerInv` beyond types:

| Part | Says | Needed because |
|---|---|---|
| `Reading` | while the reader has queries in its hands its handler still has to complete them; a query that is to be registered was asked | the next handler starts with empty hands |
| `Coordinating` | the request that waits is the newest; a request of the current generation has the documents as they are; a worker with answers is delivering; no coordinator stops before exit | only the newest request publishes, and its completion is accepted by comparing documents |
| `Awaiting` | the queries that wait are of the current generation; the analysis the service waits for is the newest request, of the current generation, waiting or running uncancelled | `QueriesAwaitAnalysis`; `requestDiagnostics` asks for none when one is pending |
| `Placed` | a query that was not asked is nowhere, one that was is in one place | `HeldOnce` |
| `Answering` | results in a thread's hands, early or given speak of no index or of one of the query's generation | `AnswersCurrent` |

A step either hands over all a thread has (`QueriesCompleted`), or lets a thread with empty
hands take queries (`HandedOver`, with `Moved` for what may happen to one query). The analysis
that returns shows why the parts need each other: it is accepted because the request is the
awaited one and its documents are the current ones, it has the current generation, and since
all that wait are of that generation it leaves none behind.

### Registry

Any requests, releases, archives, keys and bounds, and *one* process that has the store open
(`ConstantsOK`); a variant belongs to one release. With two processes `ArchivesServed` is
false (see "Known and not claimed"). `Files` and `Rows` are about archives: every variant
has its row and its file; every row has its file, or a sweep that is under way has renamed
it, or, after a crash, it is in the trash of a plan that is not applied; and what a sweep
has renamed no variant refers to. `Index` cannot speak of the remote alone: the packages in
the remote, at HEAD, staged, in the worktree and in the database form a chain in which each
link takes back nothing of the one before (`Later`, `Committed`), and a mutation under way is
in every link its call has reached (`Progress`). A step replaces one link by the next, or renders a new entry into the
worktree (lemma `Rendered`), or appends to the database (lemma `Appended`). That the chain
holds at any moment is why a failed step, a crash or a reseal cannot leave the remote ahead of
the database, and why marking a mutation after the push is right.

### What stays with TLC

- Liveness under fairness, which needs ENABLED.
- `DeadlineHeap`, whose sifting is recursive: what a recursive definition computes for every
  heap needs induction over data.

<a id="findings"></a>
## Findings

1. **A worker can dispose of its own executor** (`task_self_dispose`).
   `next_task_remove_from_scope` gives up the scope mutex, which lets `scope_release`
   return, before it drops the worker's reference to the scope (`next_task_v1.c:737`). A
   host that then drops its executor handle leaves the worker with the last reference:
   `scope_dispose` releases the executor and the worker joins itself. The comment at
   `next_task_v1.c:799-801` and `next-task-frame-runtime-abi.md:54-57` exclude this. With
   a host that keeps its executor until the workers are idle it cannot happen: `retention`
   checks it, `WorkersNeverDispose` proves it for any number of clients, workers and tasks.
2. **A deadline survives its task after rebinding** (`task_deadline_switch`).
   `next_task_publish_terminal` retires the deadlines in the heap of the executor the task
   is bound to at publication (`next_task_v1.c:776`); one armed before
   `task_rebind_executor` is in another heap and keeps the published task alive, against
   the comment at `next_task_v1.c:771-774`. Without rebinding the property holds
   (`task_scheduling`).
3. **The scan that retires deadlines can miss one** (`deadline_retirement`).
   `next_task_publish_terminal` walks the heap from the front, removes each deadline of the
   ended task and looks at the same position again (`next_task_v1.c:777`). A removal fills
   that position with the last entry, which may rise past it (`next_task_v1.c:493-496`) to a
   position the scan has left behind; if it is another deadline of the same task, it stays
   armed. The least heap in which this happens has six entries. `TaskScheduler` has the
   deadlines as a set, so `DeadlinesRetired` there is about which heap is searched and this
   finding about how.

<a id="not-modelled"></a>
## What is not modelled

- The compiler proper: about nine tenths of the implementation's lines are the front end,
  semantics, IR, lowering and interop, sequential algorithms over unbounded inputs and large
  data formats. A model that a checker could explore would be either a transliteration or so
  far from the code that it says nothing about it, so the share of the code that these models
  cover stays small. What is modelled is the part whose correctness depends on the order in
  which threads and processes act.
- In the task runtime: results and errors, executor shutdown outside `TaskLifetime`, and
  failed allocations, which leave everything as it was.
- Memory ordering: the atomics that are read outside a lock are read as if sequentially
  consistent.
- Time: a deadline may expire at any moment (`TaskScheduler`) or when the clock says so
  (`DeadlineHeap`).
- Sync primitives, hosted async adapters, host services and the core runtime: wrappers over
  platform calls and sequential containers, with no protocol of their own. The ABI 1
  component loader, a simpler counter of active calls.
- Artifact store: encodings, corrupted files, and the linker, which reads objects after the
  lease on them is retired.
- Registry: accounts and tokens, schema migration, backup archives beyond their precondition;
  transparency log, witnesses, trust and signing, which are formats and cryptography.
- Language server: the text edits themselves, what a symbol index answers, code actions, and
  files that change outside the editor.
- Toolchain manager, packages, foreign interfaces, support libraries and command line tools:
  file handling, parsing and generation.

<a id="plan"></a>
## Plan

Done, in this order: `TypedChannel`, `TaskScheduler`, `TaskLifetime` and the proofs of the
channel; `TaskGroup`; `DeadlineHeap`; `ByteChannel` and its refinement; `ResourceLease` and
`ComponentLoader`; `ArtifactLoadExecutor`, `ArtifactStore`, `RegistryPublication`;
`PackageCheck` and `LanguageServer`.

Then proofs, which replace the bounds by every value of the constants: `TypedChannel` with
`SingleOwner`, `ByteChannel` and its refinement of `ByteStream`, `TaskScheduler`,
`ComponentLoader`, `ArtifactLoadExecutor`, `RegistryPublication`, `TaskLifetime`,
`ResourceLease`, `ArtifactStore`, `PackageCheck`, `LanguageServer`, `TaskGroup`. With these,
every safety property of a passing run is proved, under the assumptions named above, except
that of `DeadlineHeap`.

Liveness, and what the heap's recursive functions compute, stay with TLC.
