---------------------------- MODULE MCUDPTunnel ----------------------------
(* Instances of UDPTunnel for TLC. *)
EXTENDS UDPTunnel, TLC

CONSTANTS k1, k2, w1

(* Both clients hash to the same worker. *)
SameWorker == [k \in {k1, k2} |-> w1]
OneClient == [k \in {k1} |-> w1]

(* Sound for the safety run: nothing tells the two clients apart. *)
ClientSymmetry == Permutations({k1, k2})
=============================================================================
