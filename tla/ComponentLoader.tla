--------------------------- MODULE ComponentLoader --------------------------
(***************************************************************************)
(* A loaded ABI-2 component (runtime/src/component_loader_v2.cpp): its     *)
(* invocations, its close, and the references that keep its code loaded,   *)
(* composed with the operations and the lease of ResourceLease.            *)
(*                                                                         *)
(* Three parties act on one module: the host, which invokes, completes and *)
(* destroys operations and closes the module from any thread; the provider,*)
(* the component's own code, which runs inside an invocation or behind an  *)
(* operation it has entered; and the holders of typed payloads, whose drop *)
(* callback is code of the component.  The module mutex is released while  *)
(* the component's invoke and close functions run.                         *)
(***************************************************************************)
EXTENDS Naturals, FiniteSets

CONSTANTS
    Operations,     \* operation objects
    Closers,        \* threads that close the module
    Holders,        \* typed payloads and transports that retain the module
    Policy          \* descriptor.lease_policy

VARIABLES
    lease, active, operation,   \* the module's lease and its operations
    running,        \* operations whose invoke is running; active_invocations is their number
    lost,           \* operations whose handle a failed invoke has dropped
    held,           \* the holders' references; owner_references is the number held
    closing,        \* module->closing
    closeRunning,   \* module->close_running
    closed,         \* module->closed: the library is unloaded and the lease freed
    pc              \* where each closer is

vars == <<lease, active, operation, running, lost, held, closing, closeRunning, closed, pc>>

\* The module's own lease carries operations only.
Lease == INSTANCE ResourceLease WITH
    policy <- Policy, Clients <- {}, Transports <- {}, Payloads <- {}, Capacity <- 0,
    None <- "none", transports <- 0, transport <- <<>>, hand <- <<>>, detached <- <<>>,
    place <- <<>>, owner <- 0, pc <- <<>>

module == <<running, lost, held, closing, closeRunning, closed, pc>>
owner_references == Cardinality({h \in Holders : held[h] = "held"})

Init ==
    /\ lease = "available"
    /\ active = 0
    /\ operation = [o \in Operations |->
                      [state |-> "none", provider |-> FALSE, token |-> FALSE]]
    /\ running = {} /\ lost = {}
    /\ held = [h \in Holders |-> "none"]
    /\ closing = FALSE /\ closeRunning = FALSE /\ closed = FALSE
    /\ pc = [c \in Closers |-> "idle"]

-----------------------------------------------------------------------------
(* chtholly_component_invoke_payload_v2 *)

\* Under the module mutex, up to the component's invoke function.
Invoke(o) ==
    /\ ~closing /\ ~closed
    /\ Lease!OpBegin(o)
    /\ running' = running \cup {o}
    /\ UNCHANGED <<lost, held, closing, closeRunning, closed, pc>>

\* The component accepted the call; the host owns the operation.
InvokeReturn(o) ==
    /\ o \in running
    /\ running' = running \ {o}
    /\ UNCHANGED <<lease, active, operation, lost, held, closing, closeRunning, closed, pc>>

\* The component refused: the operation is completed as failed and destroyed,
\* unless the provider is inside it; then its handle is dropped all the same.
InvokeFail(o) ==
    /\ o \in running
    /\ running' = running \ {o}
    /\ LET op == operation[o]
           terminal == IF op.state = "armed" THEN "failed" ELSE op.state
       IN IF op.provider
          THEN /\ Lease!KeepToken(o, [op EXCEPT !.state = terminal])
               /\ lost' = lost \cup {o}
          ELSE /\ Lease!ReleaseToken(o, [op EXCEPT !.state = "destroyed"])
               /\ UNCHANGED lost
    /\ UNCHANGED <<held, closing, closeRunning, closed, pc>>

-----------------------------------------------------------------------------
(* Steps on an operation: the provider's while its code runs, the host's    *)
(* once the invocation has returned the handle.                             *)

ProviderEnter(o) ==
    /\ o \in running
    /\ Lease!ProviderEnter(o)
    /\ UNCHANGED module

ProviderLeave(o) ==
    /\ Lease!ProviderLeave(o)
    /\ UNCHANGED module

Complete(o) ==
    /\ o \in lost => operation[o].provider
    /\ Lease!OpComplete(o)
    /\ UNCHANGED module

DestroyOperation(o) ==
    /\ o \notin running \cup lost
    /\ Lease!OpDestroy(o)
    /\ UNCHANGED module

-----------------------------------------------------------------------------
(* retain_owner_v2, release_owner_v2 *)

Retain(h) ==
    /\ held[h] = "none"
    /\ ~closed
    /\ ~(closing /\ owner_references = 0)
    /\ held' = [held EXCEPT ![h] = "held"]
    /\ UNCHANGED <<lease, active, operation, running, lost, closing, closeRunning, closed, pc>>

ReleaseOwner(h) ==
    /\ held[h] = "held"
    /\ held' = [held EXCEPT ![h] = "gone"]
    /\ UNCHANGED <<lease, active, operation, running, lost, closing, closeRunning, closed, pc>>

-----------------------------------------------------------------------------
(* chtholly_component_close_v2 *)

\* Every call refuses new work; it goes on only when no invocation and no
\* other close is running, and is answered NOT_READY otherwise.
CloseBegin(c) ==
    /\ pc[c] = "idle"
    /\ ~closed
    /\ closing' = TRUE
    /\ lease' = Lease!BeginClosed
    /\ IF running # {} \/ closeRunning
       THEN UNCHANGED <<closeRunning, pc>>
       ELSE closeRunning' = TRUE /\ pc' = [pc EXCEPT ![c] = "provider"]
    /\ UNCHANGED <<active, operation, running, lost, held, closed>>

\* The component's close function requests cancellation and joins its
\* background users, or fails.
ProviderClose(c) ==
    /\ pc[c] = "provider"
    /\ \A o \in Operations : ~operation[o].provider
    /\ pc' = [pc EXCEPT ![c] = "joined"]
    /\ UNCHANGED <<lease, active, operation, running, lost, held, closing, closeRunning, closed>>

\* Mutant: the close is left marked as running.
ProviderCloseFailStuck(c) ==
    /\ pc[c] = "provider"
    /\ pc' = [pc EXCEPT ![c] = "idle"]
    /\ UNCHANGED <<lease, active, operation, running, lost, held, closing, closeRunning, closed>>
ProviderCloseFail(c) ==
    /\ pc[c] = "provider"
    /\ closeRunning' = FALSE
    /\ pc' = [pc EXCEPT ![c] = "idle"]
    /\ UNCHANGED <<lease, active, operation, running, lost, held, closing, closed>>

\* quiesce and destroy of the lease, then the library is unloaded; NOT_READY
\* while a holder or a token is left.
\* Mutant: the holders are not looked at.
CloseFinishUnderHolders(c) ==
    /\ pc[c] = "joined"
    /\ closeRunning' = FALSE
    /\ pc' = [pc EXCEPT ![c] = "idle"]
    /\ IF active # 0
       THEN UNCHANGED <<lease, closed>>
       ELSE lease' = "freed" /\ closed' = TRUE
    /\ UNCHANGED <<active, operation, running, lost, held, closing>>
CloseFinish(c) ==
    /\ pc[c] = "joined"
    /\ closeRunning' = FALSE
    /\ pc' = [pc EXCEPT ![c] = "idle"]
    /\ IF owner_references # 0 \/ active # 0
       THEN UNCHANGED <<lease, closed>>
       ELSE lease' = "freed" /\ closed' = TRUE
    /\ UNCHANGED <<active, operation, running, lost, held, closing>>

Done == closed /\ UNCHANGED vars

-----------------------------------------------------------------------------
Next ==
    \/ \E o \in Operations :
         \/ Invoke(o) \/ InvokeReturn(o) \/ InvokeFail(o)
         \/ ProviderEnter(o) \/ ProviderLeave(o) \/ Complete(o) \/ DestroyOperation(o)
    \/ \E h \in Holders : Retain(h) \/ ReleaseOwner(h)
    \/ \E c \in Closers :
         CloseBegin(c) \/ ProviderClose(c) \/ ProviderCloseFail(c) \/ CloseFinish(c)
    \/ Done

Spec == Init /\ [][Next]_vars

\* The component's functions return, its close succeeds if it is called often
\* enough, operations are completed, payloads are given up, and the host calls
\* close_v2 until it succeeds, as component_loader_v2.h tells it to.
Fairness ==
    /\ \A o \in Operations :
         /\ WF_vars(InvokeReturn(o) \/ InvokeFail(o))
         /\ WF_vars(ProviderLeave(o))
         /\ WF_vars(Complete(o))
    /\ \A h \in Holders : WF_vars(ReleaseOwner(h))
    /\ \A c \in Closers :
         WF_vars(CloseBegin(c)) /\ SF_vars(ProviderClose(c)) /\ WF_vars(CloseFinish(c))

FairSpec == Spec /\ Fairness

-----------------------------------------------------------------------------
(* Properties *)

\* Types of the module's state, its lease and its operations.
TypeOK ==
    /\ lease \in {"available", "leased", "closing", "freed"}
    /\ active \in 0..Cardinality(Operations)
    /\ operation \in [Operations -> [state : {"none", "armed", "destroyed"} \cup Lease!Terminal,
                                     provider : BOOLEAN, token : BOOLEAN]]
    /\ running \subseteq Operations /\ lost \subseteq Operations
    /\ held \in [Holders -> {"none", "held", "gone"}]
    /\ pc \in [Closers -> {"idle", "provider", "joined"}]

\* The component's code is unloaded only when none of it can run again: no
\* invocation, no close, no provider inside an operation, no payload left to
\* drop.
UnloadedIsUnused ==
    closed =>
      /\ running = {}
      /\ \A c \in Closers : pc[c] = "idle"
      /\ \A o \in Operations : ~operation[o].provider
      /\ owner_references = 0

\* No operation is left to release its token into a lease that is gone,
\* whatever order completion, provider_leave and close come in.
NoTokenOutlivesLease ==
    lease = "freed" => \A o \in Operations : ~operation[o].token

\* close_v2 against everything that keeps a component in use: types, nothing of its code
\* left to run once it is unloaded, no token left for a lease that is gone.
UnloadSafety == TypeOK /\ UnloadedIsUnused /\ NoTokenOutlivesLease

\* A module whose close has begun is unloaded in the end, through failed
\* attempts of the component's own close and holders that keep it back.
CloseCompletes == closing ~> closed
=============================================================================
