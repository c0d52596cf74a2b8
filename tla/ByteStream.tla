----------------------------- MODULE ByteStream -----------------------------
(***************************************************************************)
(* What the byte channel of the host runtime promises its callers          *)
(* (runtime/include/chtholly/next_host_v1.h): a bounded stream of bytes.   *)
(* Bytes are accepted in order while the stream is open, at most Capacity  *)
(* are pending, and every chunk handed out is the oldest pending bytes,    *)
(* none lost, repeated or reordered.  Pending bytes outlive the close.     *)
(*                                                                         *)
(* Bytes are numbered in the order they are accepted, modulo Numbers, so   *)
(* the pending ones are all different when Numbers exceeds Capacity.       *)
(***************************************************************************)
EXTENDS Naturals, Sequences

CONSTANTS
    Capacity,   \* most bytes pending
    Numbers     \* how many byte numbers there are before they start again

VARIABLES
    pending,    \* bytes accepted and not yet handed out
    chunk,      \* the last bytes handed out
    next,       \* the number of the next byte accepted
    open        \* the stream accepts bytes

streamVars == <<pending, chunk, next, open>>

StreamInit ==
    /\ pending = <<>>
    /\ chunk = <<>>
    /\ next = 0
    /\ open = TRUE

\* The next n bytes, in the order of their numbers.
Bytes(n) == [i \in 1..n |-> (next + i - 1) % Numbers]

Accept(n) ==
    /\ open
    /\ Len(pending) + n <= Capacity
    /\ pending' = pending \o Bytes(n)
    /\ next' = (next + n) % Numbers
    /\ UNCHANGED <<chunk, open>>

HandOut(n) ==
    /\ n <= Len(pending)
    /\ chunk' = SubSeq(pending, 1, n)
    /\ pending' = SubSeq(pending, n + 1, Len(pending))
    /\ UNCHANGED <<next, open>>

End ==
    /\ open' = FALSE
    /\ UNCHANGED <<pending, chunk, next>>

StreamNext ==
    \/ \E n \in 0..Capacity : Accept(n)
    \/ \E n \in 1..Capacity : HandOut(n)
    \/ End

Stream == StreamInit /\ [][StreamNext]_streamVars
=============================================================================
