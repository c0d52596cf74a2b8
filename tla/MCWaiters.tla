----------------------------- MODULE MCWaiters ------------------------------
(***************************************************************************)
(* Small instances, for one TLC run, of two parts of the runtime whose     *)
(* callers wait for each other: the byte channel, and the completions and  *)
(* groups of tasks.  They do not interact.  `part' is chosen at the start: *)
(* that part takes its steps and the other stays in its initial state,     *)
(* where its temporal properties ask for nothing.                          *)
(***************************************************************************)
EXTENDS ByteChannel, TLC

CONSTANTS
    c1, c2, c3,                                     \* callers of the channel
    t1, w1, x1, x2, k1, m1, Nobody                  \* a task and its threads

VARIABLES
    part,
    cancelled, ended, outcome, completions, taskMembers, group, member, completion,
    refs, reclaimed, holds, todo, attached, expected

groupVars == <<cancelled, ended, outcome, completions, taskMembers, group, member, completion,
               refs, reclaimed, holds, todo, attached, expected>>

\* The module's own channel: three callers and a ring of two bytes.
Callers3 == {c1, c2, c3}

\* One task, one member, one completion, one worker; a client has the task, two have
\* the group.
Group == INSTANCE TaskGroup WITH
    Tasks <- {t1}, Completions <- {k1}, Members <- {m1}, Clients <- {x1, x2},
    Workers <- {w1}, Handles <- (x1 :> {t1, "group"}) @@ (x2 :> {"group"}),
    Observed <- {t1, "group"}, Steps <- {"Completed", "Cancelled"},
    freed <- reclaimed

ASSUME WaitersConstants == ConstantsOK /\ Group!ConstantsOK

InitAll == part \in {"bytes", "group"} /\ Init /\ Group!Init

NextAll ==
    \/ part = "bytes" /\ Next /\ UNCHANGED <<part, groupVars>>
    \/ part = "group" /\ Group!Next /\ UNCHANGED <<part, vars>>
    \* A suspended task and no handles may be all there is.
    \/ part = "group" /\ UNCHANGED <<part, vars, groupVars>>

\* Each part's own fairness, which binds while it is the one that runs.
GroupFairness ==
    /\ \A x \in {x1, x2, w1} : WF_groupVars(part = "group" /\ Group!Inside(x))
    /\ WF_groupVars(part = "group" /\ cancelled[t1] /\ Group!End(w1, t1))

SpecAll ==
    /\ InitAll /\ [][NextAll]_<<part, vars, groupVars>>
    /\ Fairness /\ GroupFairness

-----------------------------------------------------------------------------
(* The properties of the byte channel are its own BytesSafety,             *)
(* CloseTerminates and ImplementsStream.                                   *)

\* A waiter that is not detached is woken once its task has ended (publish_terminal
\* against completion_arm and completion_cancel).
WaiterIsWoken == Group!WaiterIsWoken

\* A closed and cancelled group drains, and whoever waits for it is released
\* (group_request_cancel, publish_terminal, group_arm).
GroupDrains == Group!GroupDrains
=============================================================================
