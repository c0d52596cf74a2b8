----------------------- MODULE MCRegistryPublication -----------------------
(* Small instances of RegistryPublication for TLC. *)
EXTENDS RegistryPublication, TLC

CONSTANTS p1, p2, v1, v2, r1, r2, b1, b2, s1, s2, k1

OneProcess == {p1}
TwoProcesses == {p1, p2}
OneRelease == {r1}
TwoReleases == {r1, r2}
OneKey == {k1}
NoKeys == {}
FirstArchive == {b1}
NoArchive == {}

First == [variant |-> v1, release |-> r1, blob |-> b1, signers |-> {s1}]
Countersign == [variant |-> v1, release |-> r1, blob |-> b1, signers |-> {s2}]
Second == [variant |-> v2, release |-> r2, blob |-> b2, signers |-> {s1}]
FirstAndCountersign == {First, Countersign}
TwoPackages == {First, Second}
=============================================================================
