---------------------------- MODULE PacketSender ----------------------------
(***************************************************************************)
(* The destination NAT mapping of one UDP session and the destinations a   *)
(* packet may be rewritten to: packetSender of tunnel/connection.go and    *)
(* preHandleMetadata of tunnel/tunnel.go, as operators on values.          *)
(*                                                                         *)
(* A destination is what Metadata.String() identifies: a host name, a real *)
(* IP or a fake IP.  The static hosts table is empty.  NoIP is the invalid *)
(* netip.Addr.                                                             *)
(***************************************************************************)
CONSTANTS RealIPs, FakeIPs, Hosts, NoIP

ASSUME AddressAssumption ==
    /\ RealIPs \cap FakeIPs = {} /\ RealIPs \cap Hosts = {}
    /\ FakeIPs \cap Hosts = {}
    /\ NoIP \notin RealIPs \cup FakeIPs \cup Hosts

IPs == RealIPs \cup FakeIPs

(* What Metadata.String() can be: it is "<nil>" for metadata without host  *)
(* and address.                                                            *)
Dsts == IPs \cup Hosts \cup {NoIP}

(* Metadata.DstIP of a packet sent to destination d. *)
OriginAddr(d) == IF d \in Hosts THEN NoIP ELSE d

(* preHandleMetadata returns an error: a fake IP that has no record. *)
FakeRecordMissing(d, fakeRec) == d \in FakeIPs \ fakeRec

(***************************************************************************)
(* After preHandleMetadata and Pure, Metadata.Host is set: a name, or a    *)
(* fake IP that was translated back to its name.  A real IP keeps its      *)
(* address, and so does a fake IP whose record is gone: the error is       *)
(* discarded at both later calls.                                          *)
(***************************************************************************)
NeedsResolve(d, fakeRec) == d \in Hosts \/ d \in FakeIPs \cap fakeRec

(* The address metadata.DstIP may have after ResolveUDP in processPacket. *)
ResolvedTo(d, fakeRec) == IF NeedsResolve(d, fakeRec) THEN RealIPs ELSE {d}

(***************************************************************************)
(* dialMetadata.DstIP after a successful dial for destination d.  An       *)
(* outbound may leave a name to the remote server, and a sniffed domain    *)
(* replaces the address by a name that resolves elsewhere.                 *)
(***************************************************************************)
DialedTo(d, fakeRec, sniffed) ==
    (IF NeedsResolve(d, fakeRec) THEN RealIPs \cup {NoIP} ELSE {d})
        \cup (IF sniffed THEN RealIPs \cup {NoIP} ELSE {})

EmptyO2T == [d \in Dsts |-> NoIP]
EmptyT2O == [ip \in IPs \cup {NoIP} |-> NoIP]

(* AddMapping: each of the two maps is overwritten only if the record is   *)
(* invalid.                                                                *)
AddO2T(o2t, d, target) ==
    IF o2t[d] = NoIP THEN [o2t EXCEPT ![d] = target] ELSE o2t
AddT2O_Overwrite(t2o, d, target) == [t2o EXCEPT ![target] = OriginAddr(d)]

AddT2O(t2o, d, target) ==
    IF t2o[target] = NoIP THEN [t2o EXCEPT ![target] = OriginAddr(d)] ELSE t2o

(* RestoreReadFrom: the address a reply from addr is shown to come from. *)
RestoreReadFrom(t2o, addr) == IF t2o[addr] # NoIP THEN t2o[addr] ELSE addr
=============================================================================
