------------------------------ MODULE TaskGroup -----------------------------
(***************************************************************************)
(* Completions and task groups of the task runtime                         *)
(* (runtime/src/Task/next_task_v1.c): one-shot waiters on a task or on a   *)
(* closed group, the members of a group, their cancellation, and the       *)
(* publication that ends a task and may drain the group.                   *)
(*                                                                         *)
(* One group, the children of its owner and the threads that use them: a   *)
(* client is a frame or a host thread, a worker publishes ended tasks.     *)
(* Critical sections of the task mutex and the group mutex are single      *)
(* steps (attach holds both).  What a thread does outside them, callbacks, *)
(* requests and releases, is a sequence of pending operations, each a step *)
(* of its own.  Everything else about a task is in TaskScheduler: here it  *)
(* is cancelled or not, and ends once.                                     *)
(***************************************************************************)
EXTENDS Naturals, Sequences, FiniteSets

CONSTANTS
    Tasks,         \* children of the group's owner
    Completions,   \* completion objects, each armed at most once
    Members,       \* group member records: how many are in use at a time
    Clients,       \* threads that hold handles and call the interface
    Workers,       \* threads that publish ended tasks
    Handles,       \* Handles[x]: the handles client x is given at the start
    Observed,      \* what the completions are armed on: tasks, the group
    Steps,         \* the steps tasks end with
    Nobody         \* the NULL owner of a completion that is ready at once

\* What an instance has to give; the modules that make one assume it.
ConstantsOK ==
    /\ Clients \cap Workers = {}
    /\ Tasks \cap Completions = {}
    /\ "group" \notin Tasks \cup Completions
    /\ Nobody \notin Tasks \cup Completions \cup {"group"}
    /\ Handles \in [Clients -> SUBSET (Tasks \cup {"group"})]
    /\ \E x \in Clients : "group" \in Handles[x]
    /\ Observed \subseteq Tasks \cup {"group"}
    /\ Steps \subseteq {"Completed", "Cancelled", "Failed"} /\ "Cancelled" \in Steps

Threads == Clients \cup Workers
Objects == Tasks \cup Completions \cup {"group"}

VARIABLES
    cancelled,    \* task->cancellation_requested
    ended,        \* task->scheduler_state if it is terminal, "None" before
    outcome,      \* task->terminal_step once published, "None" before
    completions,  \* completions[o]: the list of task o or of the group
    taskMembers,  \* task->group_members
    group,        \* the group's flags, its member list and active_count
    member,       \* the member records
    completion,   \* the completions: state and owner; as history what they were
                  \* armed on and the callbacks run so far
    refs,         \* references of tasks, completions and the group
    freed,        \* the objects that have been freed
    holds,        \* the handles each client owns
    todo,         \* what each thread still has to do in the call it is in
    attached,     \* history: the tasks that were attached to the group
    expected      \* history: the tasks that were attached as success-only

taskVars == <<cancelled, ended, outcome>>
groupVars == <<group, member, taskMembers>>
lifetime == <<refs, freed, holds>>
history == <<attached, expected>>
vars == <<taskVars, groupVars, completions, completion, lifetime, todo, history>>

NoMember == [task |-> Nobody, expect |-> FALSE, sent |-> FALSE]

Init ==
    /\ cancelled = [t \in Tasks |-> FALSE]
    /\ ended = [t \in Tasks |-> "None"]
    /\ outcome = [t \in Tasks |-> "None"]
    /\ completions = [o \in Tasks \cup {"group"} |-> <<>>]
    /\ taskMembers = [t \in Tasks |-> <<>>]
    /\ group = [closed |-> FALSE, cancelRequested |-> FALSE, implicitCancelled |-> FALSE,
                implicitFailed |-> FALSE, members |-> <<>>, active |-> 0]
    /\ member = [m \in Members |-> NoMember]
    /\ completion = [c \in Completions |->
                       [state |-> "None", owner |-> Nobody, of |-> Nobody,
                        woke |-> 0, released |-> 0]]
    /\ refs = [o \in Objects |-> Cardinality({x \in Clients : o \in Handles[x]})
                                   + (IF o \in Tasks THEN 1 ELSE 0)]
    /\ freed = {}
    /\ holds = Handles
    /\ todo = [x \in Threads |-> <<>>]
    /\ attached = {} /\ expected = {}

Idle(x) == todo[x] = <<>>
Do(x, ops) == todo' = [todo EXCEPT ![x] = ops]
Due(x, kind) == todo[x] # <<>> /\ Head(todo[x])[1] = kind
Arg(x) == Head(todo[x])[2]
Elements(list) == {list[i] : i \in DOMAIN list}

\* The list with the node of e unlinked.
Without(list, e) ==
    IF e \in Elements(list)
    THEN LET i == CHOOSE j \in DOMAIN list : list[j] = e
         IN  [j \in 1..(Len(list) - 1) |-> IF j < i THEN list[j] ELSE list[j + 1]]
    ELSE list

\* The calls the owner of completions cs makes, one after the other.
Wakes(cs) == [i \in DOMAIN cs |-> <<"wake", cs[i]>>]

\* Publication marks the completions it takes ready.
Ready(cs) == [c \in Completions |-> IF c \in Elements(cs)
                                    THEN [completion[c] EXCEPT !.state = "Ready"]
                                    ELSE completion[c]]

-----------------------------------------------------------------------------
(* Completions. *)

\* The armed half of completion_arm: the list and the caller each own a
\* reference, and the completion retains what it observes.
\* Mutant: the observed object is not retained.
ArmBorrows(c, o) ==
    /\ completion' = [completion EXCEPT ![c].state = "Armed", ![c].owner = o, ![c].of = o]
    /\ completions' = [completions EXCEPT ![o] = <<c>> \o @]
    /\ refs' = [refs EXCEPT ![c] = 2]
Arm(c, o) ==
    /\ completion' = [completion EXCEPT ![c].state = "Armed", ![c].owner = o, ![c].of = o]
    /\ completions' = [completions EXCEPT ![o] = <<c>> \o @]
    /\ refs' = [refs EXCEPT ![c] = 2, ![o] = @ + 1]

\* The other half: ready at once, without an owner; the callbacks stay with
\* the caller.
ArmReady(c, o) ==
    /\ completion' = [completion EXCEPT ![c].state = "Ready", ![c].of = o]
    /\ refs' = [refs EXCEPT ![c] = 1]
    /\ UNCHANGED completions

\* The check of published_terminal under the task's mutex.
\* Mutant: a completion is installed on a published task.
PublishedIgnored(t) == FALSE
Published(t) == outcome[t] # "None"

\* completion_arm on a task.
CompletionArm(x, c, t) ==
    /\ Idle(x) /\ t \in holds[x] \cap Observed
    /\ completion[c].state = "None"
    /\ IF Published(t) THEN ArmReady(c, t) ELSE Arm(c, t)
    /\ holds' = [holds EXCEPT ![x] = @ \cup {c}]
    /\ UNCHANGED <<taskVars, groupVars, freed, todo, history>>

\* A closed group is ready when it has no active member.
Drained == group.active = 0

\* task_group_completion_arm; an open group refuses.
GroupCompletionArm(x, c) ==
    /\ Idle(x) /\ "group" \in holds[x] \cap Observed
    /\ completion[c].state = "None"
    /\ group.closed
    /\ IF Drained THEN ArmReady(c, "group") ELSE Arm(c, "group")
    /\ holds' = [holds EXCEPT ![x] = @ \cup {c}]
    /\ UNCHANGED <<taskVars, groupVars, freed, todo, history>>

\* completion_detach, and with release set completion_release: a completion
\* that is still armed leaves its list and its release callback is due.
CompletionDetach(x, c, release) ==
    /\ Idle(x) /\ c \in holds[x]
    /\ LET o == completion[c].owner
           last == IF release THEN << <<"drop", c>> >> ELSE <<>>
       IN  IF /\ o # Nobody
              /\ completion[c].state = "Armed" /\ c \in Elements(completions[o])
           THEN /\ completions' = [completions EXCEPT ![o] = Without(@, c)]
                /\ completion' = [completion EXCEPT ![c].state = "Detached"]
                /\ Do(x, << <<"release", c>> >> \o last)
           ELSE /\ Do(x, last)
                /\ UNCHANGED <<completions, completion>>
    /\ holds' = IF release THEN [holds EXCEPT ![x] = @ \ {c}] ELSE holds
    /\ UNCHANGED <<taskVars, groupVars, refs, freed, history>>

\* The callbacks run without a lock: wake, then release, then the reference
\* of the list is dropped.  A detached completion is only released.
WakeCallback(x) ==
    /\ Due(x, "wake")
    /\ completion' = [completion EXCEPT ![Arg(x)].woke = @ + 1]
    /\ Do(x, << <<"release", Arg(x)>> >> \o Tail(todo[x]))
    /\ UNCHANGED <<taskVars, completions, groupVars, lifetime, history>>

ReleaseCallback(x) ==
    /\ Due(x, "release")
    /\ completion' = [completion EXCEPT ![Arg(x)].released = @ + 1]
    /\ Do(x, << <<"drop", Arg(x)>> >> \o Tail(todo[x]))
    /\ UNCHANGED <<taskVars, completions, groupVars, lifetime, history>>

\* A freed completion drops what it observed; one that was ready at once
\* observed nothing.
OwnerRelease(o) ==
    IF o \in Completions /\ completion[o].owner # Nobody
    THEN << <<"drop", completion[o].owner>> >> ELSE <<>>

\* One reference less; the last one frees the object.
Drop(x) ==
    /\ Due(x, "drop")
    /\ LET o == Arg(x)
       IN  /\ refs' = [refs EXCEPT ![o] = @ - 1]
           /\ IF refs[o] = 1
              THEN /\ freed' = freed \cup {o}
                   /\ Do(x, OwnerRelease(o) \o Tail(todo[x]))
              ELSE /\ Do(x, Tail(todo[x]))
                   /\ UNCHANGED freed
    /\ UNCHANGED <<taskVars, completions, groupVars, completion, holds, history>>

\* task_release.
TaskRelease(x, t) ==
    /\ Idle(x) /\ t \in holds[x]
    /\ holds' = [holds EXCEPT ![x] = @ \ {t}]
    /\ Do(x, << <<"drop", t>> >>)
    /\ UNCHANGED <<taskVars, completions, groupVars, completion, refs, freed, history>>

-----------------------------------------------------------------------------
(* The group. *)

\* What a success-only member's end does to the group's flags.
Recorded(g, expect, step) ==
    [g EXCEPT !.implicitCancelled = @ \/ (expect /\ step = "Cancelled"),
              !.implicitFailed = @ \/ (expect /\ step = "Failed")]

\* A child that has ended before it is attached only leaves its outcome.
\* Mutant: its outcome is not recorded.
AttachEndedSilent(t, expect) == UNCHANGED group
AttachEnded(t, expect) == group' = Recorded(group, expect, outcome[t])

\* A late member is cancelled by the thread that attaches it.
LateCancel(t) == IF group.cancelRequested THEN << <<"cancel", t>> >> ELSE <<>>

\* task_group_attach; a closed group refuses.
Attach(x, t, m, expect) ==
    /\ Idle(x) /\ {t, "group"} \subseteq holds[x]
    /\ member[m].task = Nobody
    /\ ~group.closed
    /\ attached' = attached \cup {t}
    /\ expected' = IF expect THEN expected \cup {t} ELSE expected
    /\ \/ /\ Published(t)
          /\ AttachEnded(t, expect)
          /\ UNCHANGED <<taskMembers, member, refs, todo>>
       \/ /\ ~Published(t)
          /\ group' = [group EXCEPT !.members = <<m>> \o @, !.active = @ + 1]
          /\ taskMembers' = [taskMembers EXCEPT ![t] = <<m>> \o @]
          /\ member' = [member EXCEPT ![m] = [task |-> t, expect |-> expect,
                                              sent |-> group.cancelRequested]]
          /\ refs' = [refs EXCEPT ![t] = @ + 1, !["group"] = @ + 1]
          /\ Do(x, LateCancel(t))
    /\ UNCHANGED <<taskVars, completions, completion, freed, holds>>

\* task_group_close, which may go on to request cancellation, and
\* task_group_release, which always does and then drops the handle.  Closing a
\* closed group again adds nothing to GroupRequestCancel.
GroupClose(x, cancel, release) ==
    /\ Idle(x) /\ "group" \in holds[x]
    /\ ~group.closed \/ release
    /\ release => cancel
    /\ group' = [group EXCEPT !.closed = TRUE]
    /\ holds' = IF release THEN [holds EXCEPT ![x] = @ \ {"group"}] ELSE holds
    /\ Do(x, (IF cancel THEN << <<"requestCancel", "group">> >> ELSE <<>>)
               \o (IF release THEN << <<"drop", "group">> >> ELSE <<>>))
    /\ UNCHANGED <<taskVars, completions, taskMembers, member, completion, refs, freed,
                   history>>

\* The call of task_group_request_cancel on its own; repeating it changes
\* nothing.
GroupRequestCancel(x) ==
    /\ Idle(x) /\ "group" \in holds[x]
    /\ ~group.cancelRequested
    /\ Do(x, << <<"requestCancel", "group">> >>)
    /\ UNCHANGED <<taskVars, completions, groupVars, completion, lifetime, history>>

MarkRequested(x) ==
    /\ Due(x, "requestCancel")
    /\ group' = [group EXCEPT !.cancelRequested = TRUE]
    /\ Do(x, << <<"cancelNext", "group">> >> \o Tail(todo[x]))
    /\ UNCHANGED <<taskVars, completions, taskMembers, member, completion, lifetime,
                   history>>

Unsent == {i \in DOMAIN group.members : ~member[group.members[i]].sent}

\* One pass of its loop: the first member not asked yet is retained and asked.
CancelNext(x) ==
    /\ Due(x, "cancelNext")
    /\ \/ /\ Unsent = {}
          /\ Do(x, Tail(todo[x]))
          /\ UNCHANGED <<member, refs>>
       \/ \E i \in Unsent :
            /\ \A j \in Unsent : i <= j
            /\ LET m == group.members[i]
                   t == member[m].task
               IN  /\ member' = [member EXCEPT ![m].sent = TRUE]
                   /\ refs' = [refs EXCEPT ![t] = @ + 1]
                   /\ Do(x, << <<"cancel", t>>, <<"drop", t>> >> \o todo[x])
    /\ UNCHANGED <<taskVars, completions, taskMembers, group, completion, freed, holds,
                   history>>

\* task_request_cancel marks a task that has not ended.
CancelTask(x) ==
    /\ Due(x, "cancel")
    /\ cancelled' = IF ended[Arg(x)] = "None" THEN [cancelled EXCEPT ![Arg(x)] = TRUE]
                                              ELSE cancelled
    /\ Do(x, Tail(todo[x]))
    /\ UNCHANGED <<ended, outcome, completions, groupVars, completion, lifetime, history>>

-----------------------------------------------------------------------------
(* Publication. *)

\* next_task_run commits the step under the task's mutex: from here on the task
\* cannot be cancelled any more, but it is published only afterwards.
Commit(w, t, s) ==
    /\ Idle(w)
    /\ ended[t] = "None"
    /\ cancelled[t] => s = "Cancelled"
    /\ ended' = [ended EXCEPT ![t] = s]
    /\ Do(w, << <<"publish", t>> >>)
    /\ UNCHANGED <<cancelled, outcome, completions, groupVars, completion, lifetime,
                   history>>

\* publish_terminal's critical section: the step, and the lists it takes.  The
\* worker's own reference is dropped last.
Publish(w) ==
    /\ Due(w, "publish")
    /\ LET t == Arg(w)
       IN  /\ outcome' = [outcome EXCEPT ![t] = ended[t]]
           /\ completion' = Ready(completions[t])
           /\ completions' = [completions EXCEPT ![t] = <<>>]
           /\ taskMembers' = [taskMembers EXCEPT ![t] = <<>>]
           /\ Do(w, Wakes(completions[t])
                      \o [i \in DOMAIN taskMembers[t] |-> <<"member", taskMembers[t][i]>>]
                      \o << <<"drop", t>> >>)
    /\ UNCHANGED <<cancelled, ended, group, member, lifetime, history>>

\* The releases after a member's critical section: its task, its group.
MemberReleases(m) == << <<"drop", member[m].task>>, <<"drop", "group">> >>

\* The completions the last member of a closed group takes with it.
\* Mutant: they are left in the list.
TakenNone(g) == <<>>
Taken(g) == IF g.closed /\ g.active = 0 THEN completions["group"] ELSE <<>>

\* One pass of group_publish_terminal_members.
PublishMember(w) ==
    /\ Due(w, "member")
    /\ LET m == Arg(w)
           listed == m \in Elements(group.members)
           left == [group EXCEPT !.members = Without(@, m), !.active = @ - 1]
           g == IF listed THEN Recorded(left, member[m].expect, outcome[member[m].task])
                          ELSE group
           cs == IF listed THEN Taken(g) ELSE <<>>
       IN  /\ group' = g
           /\ member' = [member EXCEPT ![m] = NoMember]
           /\ completion' = Ready(cs)
           /\ completions' = [completions EXCEPT !["group"] = IF cs = <<>> THEN @ ELSE <<>>]
           /\ Do(w, Wakes(cs) \o MemberReleases(m) \o Tail(todo[w]))
    /\ UNCHANGED <<taskVars, taskMembers, lifetime, history>>

-----------------------------------------------------------------------------
\* Calls that a client is free to make.
Call(x) ==
    \/ \E c \in Completions :
         \/ GroupCompletionArm(x, c)
         \/ \E t \in Tasks : CompletionArm(x, c, t)
         \/ \E release \in BOOLEAN : CompletionDetach(x, c, release)
    \/ \E t \in Tasks :
         \/ TaskRelease(x, t)
         \/ \E m \in Members, expect \in BOOLEAN : Attach(x, t, m, expect)
    \/ \E cancel, release \in BOOLEAN : GroupClose(x, cancel, release)
    \/ GroupRequestCancel(x)

\* Progress of a call, and of a publication.
Inside(x) ==
    \/ WakeCallback(x) \/ ReleaseCallback(x) \/ Drop(x)
    \/ MarkRequested(x) \/ CancelNext(x) \/ CancelTask(x)
    \/ Publish(x) \/ PublishMember(x)

End(w, t) == \E s \in Steps : Commit(w, t, s)

Next ==
    \/ \E x \in Threads : Inside(x)
    \/ \E x \in Clients : Call(x)
    \/ \E w \in Workers, t \in Tasks : End(w, t)

Spec == Init /\ [][Next]_vars

(***************************************************************************)
(* Threads inside the runtime run.  A cancelled task ends: that is         *)
(* CancelledEnds of TaskScheduler.  Nobody is obliged to call, and a task  *)
(* that is not cancelled may stay suspended.                               *)
(***************************************************************************)
Fairness ==
    /\ \A x \in Threads : WF_vars(Inside(x))
    /\ \A t \in Tasks : WF_vars(cancelled[t] /\ \E w \in Workers : End(w, t))

FairSpec == Spec /\ Fairness

-----------------------------------------------------------------------------
(* Properties. *)

Lists == Tasks \cup {"group"}

\* Every variable keeps its type; no count goes below zero.
TypeOK ==
    /\ cancelled \in [Tasks -> BOOLEAN]
    /\ ended \in [Tasks -> Steps \cup {"None"}]
    /\ outcome \in [Tasks -> Steps \cup {"None"}]
    /\ completions \in [Lists -> Seq(Completions)]
    /\ taskMembers \in [Tasks -> Seq(Members)]
    /\ group \in [closed : BOOLEAN, cancelRequested : BOOLEAN, implicitCancelled : BOOLEAN,
                  implicitFailed : BOOLEAN, members : Seq(Members), active : Nat]
    /\ member \in [Members -> [task : Tasks \cup {Nobody}, expect : BOOLEAN, sent : BOOLEAN]]
    /\ completion \in [Completions -> [state : {"None", "Armed", "Ready", "Detached"},
                                       owner : Lists \cup {Nobody},
                                       of : Lists \cup {Nobody},
                                       woke : Nat, released : Nat]]
    /\ refs \in [Objects -> Nat]
    /\ freed \subseteq Objects
    /\ holds \in [Clients -> SUBSET Objects]
    /\ \A x \in Threads : \A i \in DOMAIN todo[x] :
         todo[x][i] \in {"wake", "release", "drop", "publish", "member", "cancel",
                        "requestCancel", "cancelNext"} \X (Objects \cup Members)
    /\ expected \subseteq attached /\ attached \subseteq Tasks

\* "ARMED transfers it until terminal publication or detach, when release is
\* called exactly once" (next_task_v1.h:193-194): whatever races, a completion is
\* woken at most once and never after a detach; when it is freed, its release
\* callback has run exactly once if it was armed, and never if it was not.
CallbacksOnce ==
    \A c \in Completions :
        LET k == completion[c]
        IN  /\ k.woke <= 1 /\ k.released <= 1
            /\ k.state \in {"Armed", "Detached"} => k.woke = 0
            /\ c \in freed => /\ k.released = 1 <=> k.owner # Nobody
                             /\ k.woke = 1 <=> k.owner # Nobody /\ k.state = "Ready"

\* "completion becomes ready only after the closed group has" no active member
\* (next-lexical-task-scope.md:90): a completion of the group is ready only when
\* every child attached to the group has ended, and none can be attached later.
ReadyIsDrained ==
    \A c \in Completions :
        completion[c].state = "Ready" /\ completion[c].of = "group"
        => /\ group.closed /\ group.active = 0
           /\ \A t \in attached : outcome[t] # "None"

\* A drained group has recorded every outcome it was to watch for, whether the
\* child ended before or after it was attached, and no other: "Attach is
\* linearized with task terminal publication" (next_task_v1.h:164).
OutcomeComplete ==
    group.closed /\ group.active = 0 =>
        /\ group.implicitCancelled <=> \E t \in expected : outcome[t] = "Cancelled"
        /\ group.implicitFailed <=> \E t \in expected : outcome[t] = "Failed"

\* "cancellation reaches attached children" (next_task_v1.h:164-165): once the
\* group is cancelled, each active member's task is cancelled or has committed, or a
\* thread that will cancel it is under way.
CancelReaches ==
    group.cancelRequested =>
        \A m \in Elements(group.members) :
            LET t == member[m].task
            IN  \/ cancelled[t] \/ ended[t] # "None"
                \/ \E x \in Threads :
                     \/ <<"cancel", t>> \in Elements(todo[x])
                     \/ ~member[m].sent /\ <<"cancelNext", "group">> \in Elements(todo[x])

\* The objects a thread dereferences in its next step.
Touches(x) ==
    IF todo[x] = <<>> THEN IF x \in Clients THEN holds[x] ELSE {}
    ELSE IF Due(x, "member") THEN {"group", member[Arg(x)].task} ELSE {Arg(x)}

\* Nothing freed is used: not by a thread's next step, not through a list, a
\* member or the owner a completion points to.
NoUseAfterFree ==
    /\ \A x \in Threads : Touches(x) \cap freed = {}
    /\ \A o \in Lists : completions[o] # <<>> =>
         ({o} \cup Elements(completions[o])) \cap freed = {}
    /\ \A m \in Elements(group.members) : {"group", member[m].task} \cap freed = {}
    /\ \A c \in Completions :
         completion[c].state # "None" /\ c \notin freed => completion[c].owner \notin freed

\* Nothing leaks: when no thread has work, no client owns a handle and every
\* task has ended, everything that was created is freed.
NoLeak ==
    (/\ \A x \in Threads : Idle(x)
     /\ \A x \in Clients : holds[x] = {}
     /\ \A t \in Tasks : outcome[t] # "None")
    => freed = {"group"} \cup Tasks \cup {c \in Completions : completion[c].state # "None"}

\* Completions and groups shared by threads are safe: types, callbacks once, a cancellation
\* that reaches early and late members, nothing used after it is freed, nothing left over
\* (publication against arm, cancel, attach and release).
SharingSafe == TypeOK /\ CallbacksOnce /\ CancelReaches /\ NoUseAfterFree /\ NoLeak

\* A group that reports ready has no member left and an outcome of them all (the members'
\* publications against close, attach and completion_arm).
DrainExact == ReadyIsDrained /\ OutcomeComplete

\* A waiter that is not detached is woken once its task has ended.
WaiterIsWoken ==
    \A c \in Completions, t \in Tasks :
        (completion[c].owner = t /\ outcome[t] # "None") ~> completion[c].released = 1

\* A closed and cancelled group drains, and whoever waits for it is released.
GroupDrains ==
    /\ (group.closed /\ group.cancelRequested) ~> group.active = 0
    /\ \A c \in Completions :
         (completion[c].owner = "group" /\ group.active = 0) ~> completion[c].released = 1
=============================================================================
