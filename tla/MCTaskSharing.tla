---------------------------- MODULE MCTaskSharing ---------------------------
(***************************************************************************)
(* Three instances of TaskGroup for one TLC run, over the same variables;  *)
(* `shape' says which of them a behaviour belongs to.  In "calls", a       *)
(* client and a worker share one task with two completions, of the task or *)
(* of the group.  In "clients", two clients and a worker share one task    *)
(* and its group with one completion.  In "drain", two workers publish the *)
(* two members of a group at the same time, under one client.              *)
(***************************************************************************)
EXTENDS TLC

CONSTANTS t1, t2, t3, k1, k2, k3, m1, m2, m3, x1, x2, w1, w2, w3, Nobody

VARIABLES
    shape,
    cancelled, ended, outcome, completions, taskMembers, group, member, completion,
    refs, freed, holds, todo, attached, expected

Calls == INSTANCE TaskGroup WITH
    Tasks <- {t3}, Completions <- {k1, k2}, Members <- {m3}, Clients <- {x1},
    Workers <- {w3}, Handles <- (x1 :> {t3, "group"}),
    Observed <- {t3, "group"}, Steps <- {"Completed", "Cancelled", "Failed"}

Shared == INSTANCE TaskGroup WITH
    Tasks <- {t3}, Completions <- {k3}, Members <- {m3}, Clients <- {x1, x2},
    Workers <- {w3}, Handles <- (x1 :> {t3, "group"}) @@ (x2 :> {"group"}),
    Observed <- {t3, "group"}, Steps <- {"Completed", "Cancelled"}

Drain == INSTANCE TaskGroup WITH
    Tasks <- {t1, t2}, Completions <- {k3}, Members <- {m1, m2}, Clients <- {x1},
    Workers <- {w1, w2}, Handles <- (x1 :> {t1, t2, "group"}),
    Observed <- {"group"}, Steps <- {"Completed", "Cancelled"}

ASSUME SharingConstants == Calls!ConstantsOK /\ Shared!ConstantsOK /\ Drain!ConstantsOK

Init == \/ shape = "calls" /\ Calls!Init
        \/ shape = "clients" /\ Shared!Init
        \/ shape = "drain" /\ Drain!Init

Next == /\ \/ shape = "calls" /\ Calls!Next
           \/ shape = "clients" /\ Shared!Next
           \/ shape = "drain" /\ Drain!Next
        /\ UNCHANGED shape

Spec == Init /\ [][Next]_<<Calls!vars, shape>>

Symm == Permutations({k1, k2}) \cup Permutations({t1, t2}) \cup Permutations({m1, m2})
          \cup Permutations({w1, w2})

-----------------------------------------------------------------------------
\* Callbacks run once, a cancellation of the group reaches the members attached before or
\* after it, no thread uses what has been freed and nothing is left over (publication
\* against arming, cancelling, attaching and releasing, by one client or two).
SharingSafe ==
    CASE shape = "calls" -> Calls!SharingSafe
      [] shape = "clients" -> Shared!SharingSafe
      [] shape = "drain" -> Drain!SharingSafe

\* A group that is ready has been drained of its members, the last two of which may be
\* published at the same time, and its outcome takes every member into account.
DrainExact ==
    CASE shape = "calls" -> Calls!DrainExact
      [] shape = "clients" -> Shared!DrainExact
      [] shape = "drain" -> Drain!DrainExact
=============================================================================
