--------------------------- MODULE MCDeadlineHeap ---------------------------
(* A small instance of DeadlineHeap for TLC: two tasks, and seconds of two *)
(* nanoseconds that end after the third.                                   *)
EXTENDS DeadlineHeap, TLC

CONSTANTS t1, t2

Tasks2 == {t1, t2}
Start0 == {Start}
=============================================================================
