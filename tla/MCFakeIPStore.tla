--------------------------- MODULE MCFakeIPStore ---------------------------
(* Instances of FakeIPStore for TLC. *)
EXTENDS FakeIPStore, TLC

CONSTANTS h1, h2, h3

(* Two usable addresses. *)
Small == [lo |-> 0, hi |-> 6]

(* One usable address; its reserved ones include addresses Small hands out, *)
(* so an offset that Small stored may or may not lie in it.                 *)
Shifted == [lo |-> 4, hi |-> 9]

Changing == {Small, Shifted}

(* The smallest prefix that New accepts: three usable addresses. *)
Smallest == {[lo |-> 0, hi |-> 7]}

(* Sound for the safety run: nothing tells the hosts apart. *)
HostSymmetry == Permutations({h1, h2, h3})
=============================================================================
