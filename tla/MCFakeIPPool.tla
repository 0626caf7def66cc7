---------------------------- MODULE MCFakeIPPool ----------------------------
(* Instances of FakeIPPool for TLC. *)
EXTENDS FakeIPPool

CONSTANTS h1, h2, h3

(* Three usable addresses. *)
Wide == [lo |-> 0, hi |-> 7]

(* One address in common with Wide; reserves two that Wide hands out. *)
Shifted == [lo |-> 2, hi |-> 8]

MCRanges == {Wide, Shifted}
=============================================================================
