----------------------------- MODULE FakeIPMap -----------------------------
(***************************************************************************)
(* What a fake-IP pool promises, whichever store it has: a host has at     *)
(* most one fake IP, a fake IP at most one host, and a host keeps its fake *)
(* IP until the pool forgets the host.  A reload replaces the records by   *)
(* a copy that was made of them.                                           *)
(***************************************************************************)
CONSTANTS Hosts, IPs, NoIP

VARIABLES
    rec,     \* the fake IP of each host, NoIP if it has none
    copy     \* the records of the pool a reload is preparing

Empty == [h \in Hosts |-> NoIP]
Forgotten(r, F) == [h \in Hosts |-> IF h \in F THEN NoIP ELSE r[h]]
NobodyHas(r, ip) == \A h \in Hosts : r[h] # ip

Init == rec = Empty /\ copy = Empty

Forget(F) ==
    /\ rec' = Forgotten(rec, F)
    /\ UNCHANGED copy

(* The host gets an address nobody has; hosts in F make room. *)
Assign(h, ip, F) ==
    /\ rec[h] = NoIP
    /\ NobodyHas(rec, ip)
    /\ rec' = [Forgotten(rec, F) EXCEPT ![h] = ip]
    /\ UNCHANGED copy

Clone == copy' = rec /\ UNCHANGED rec
Reload == rec' = copy /\ copy' = Empty

Next ==
    \/ \E F \in SUBSET Hosts : Forget(F)
    \/ \E h \in Hosts, ip \in IPs, F \in SUBSET Hosts : Assign(h, ip, F)
    \/ Clone \/ Reload

Spec == Init /\ [][Next]_<<rec, copy>>
=============================================================================
