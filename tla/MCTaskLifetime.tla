---------------------------- MODULE MCTaskLifetime --------------------------
(* The smallest instance of TaskLifetime for TLC. *)
EXTENDS TaskLifetime

CONSTANTS t1, w1, c1

Tasks1 == {t1}
Workers1 == {w1}
Clients1 == {c1}
=============================================================================
