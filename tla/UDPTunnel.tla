----------------------------- MODULE UDPTunnel -----------------------------
(***************************************************************************)
(* The UDP path of the tunnel: HandleUDPPacket, the UDP workers, the NAT   *)
(* table and, per session, the dial/Process goroutine and the reader       *)
(* goroutine (tunnel/tunnel.go, tunnel/connection.go,                      *)
(* component/nat/table.go), with the per-client sockets that the TPROXY    *)
(* listener opens through the NAT table (listener/tproxy/packet.go).       *)
(*                                                                         *)
(* Packets are numbered in the order they arrive.  A session is one entry  *)
(* of the NAT table with the goroutines started for it; it is identified   *)
(* by the packet whose GetOrCreate made it, and has that packet's key.     *)
(* Every step is one atomic operation of one goroutine: a channel          *)
(* operation, a map operation or a blocking call.                          *)
(***************************************************************************)
EXTENDS PacketSender, Naturals, Sequences, FiniteSets

CONSTANTS
    Keys,            \* source addresses, the keys of the NAT table
    Workers,         \* the goroutines of processUDP, one queue each
    WorkerOf,        \* hash of the key modulo the number of workers
    Types,           \* inbound types that occur, a subset of {"INNER","OTHER"}
    Inputs,          \* destinations that packets arrive with (may hold NoIP)
    MaxPackets,      \* bound: packets that arrive
    QueueCapacity,   \* queueCapacity
    SenderCapacity,  \* senderCapacity
    Sniffing,        \* sniffingEnable: a sniffed domain may replace the address
    None             \* no session, no packet

Packets == 1..MaxPackets

ASSUME TunnelAssumption ==
    /\ WorkerOf \in [Keys -> Workers]
    /\ Types \subseteq {"INNER", "OTHER"}
    /\ Inputs \subseteq Dsts
    /\ MaxPackets \in Nat
    /\ QueueCapacity \in Nat \ {0} /\ SenderCapacity \in Nat \ {0}
    /\ Sniffing \in BOOLEAN
    /\ None \notin Nat

VARIABLES
    status,    \* tunnel status: "Suspend", "Inner", "Running"
    fakeRec,   \* the fake IPs that have a record in the fake-IP pool
    pkt,       \* key, inbound type and destination of the packets so far
    queue,     \* udpQueues
    worker,    \* per worker: program counter, packet and session in hand
    natTable,  \* NAT table: the session registered under each key
    done,      \* per session: the sender's context is cancelled
    ch,        \* per session: the sender's channel
    o2t, t2o,  \* per session: originToTarget and targetToOrigin
    dialer,    \* per session: program counter of the dial/Process goroutine
    cur,       \* per session: packet in processPacket and its address
    reader,    \* per session: program counter of handleUDPToLocal
    conn,      \* per session: state of the outbound PacketConn
    local,     \* per session: open TPROXY sockets, by the address they bind
    drops,     \* history: calls of Drop for each packet
    sent       \* history: per key, what was written to an outbound

inVars == <<status, fakeRec, pkt>>
mapVars == <<o2t, t2o>>
vars == <<inVars, queue, worker, natTable, done, ch, mapVars, dialer, cur,
          reader, conn, local, drops, sent>>

Arrived == 1..Len(pkt)
Metadata == [key : Keys, type : Types, dst : Inputs]
WorkerPC == {"idle", "lookup", "check", "put"}
DialerPC == {"none", "dial", "process", "resolve", "write",
             "cancel", "drain", "delete", "end"}
ReaderPC == {"none", "read", "cancel", "drain", "closeConn", "closeLocal",
             "delete", "end"}

TypeIn ==
    /\ status \in {"Suspend", "Inner", "Running"}
    /\ fakeRec \subseteq FakeIPs
    /\ pkt \in Seq(Metadata) /\ Len(pkt) <= MaxPackets
TypeQueue ==
    /\ queue \in [Workers -> Seq(Arrived)]
    /\ \A w \in Workers : Len(queue[w]) <= QueueCapacity
TypeWorker ==
    /\ worker \in [Workers -> [pc : WorkerPC, pkt : Arrived \cup {None},
                               sess : Arrived \cup {None}]]
    /\ \A w \in Workers :
          /\ worker[w].pc # "idle" => worker[w].pkt # None
          /\ worker[w].pc \in {"check", "put"} => worker[w].sess # None
TypeNat == natTable \in [Keys -> Arrived \cup {None}]
TypeSender ==
    /\ done \in [Packets -> BOOLEAN]
    /\ ch \in [Packets -> Seq(Arrived)]
    /\ \A s \in Packets : Len(ch[s]) <= SenderCapacity
TypeMap ==
    /\ o2t \in [Packets -> [Dsts -> IPs \cup {NoIP}]]
    /\ t2o \in [Packets -> [IPs \cup {NoIP} -> IPs \cup {NoIP}]]
TypeDialer ==
    /\ dialer \in [Packets -> DialerPC]
    /\ cur \in [Packets -> [pkt : Arrived \cup {None}, to : IPs \cup {NoIP}]]
    /\ \A s \in Packets :
          /\ dialer[s] # "none" => s \in Arrived
          /\ dialer[s] \in {"resolve", "write"} => cur[s].pkt # None
          /\ dialer[s] = "write" => cur[s].to # NoIP
TypeReader ==
    /\ reader \in [Packets -> ReaderPC]
    /\ conn \in [Packets -> {"none", "open", "closed"}]
    /\ local \in [Packets -> SUBSET IPs]
    /\ \A s \in Packets : reader[s] # "none" => s \in Arrived
TypeHistory ==
    /\ drops \in [Packets -> Nat]
    /\ sent \in [Keys -> Seq([pkt : Arrived, sess : Arrived, to : IPs])]

(* Every variable has its type, the channels respect their capacities, and *)
(* whoever handles a packet or a session has one that arrived.             *)
TypeOK ==
    /\ TypeIn /\ TypeQueue /\ TypeWorker /\ TypeNat /\ TypeSender
    /\ TypeMap /\ TypeDialer /\ TypeReader /\ TypeHistory

Idle == [pc |-> "idle", pkt |-> None, sess |-> None]
NoCur == [pkt |-> None, to |-> NoIP]

Init ==
    /\ status = "Suspend"
    /\ fakeRec = FakeIPs
    /\ pkt = <<>>
    /\ queue = [w \in Workers |-> <<>>]
    /\ worker = [w \in Workers |-> Idle]
    /\ natTable = [k \in Keys |-> None]
    /\ done = [s \in Packets |-> FALSE]
    /\ ch = [s \in Packets |-> <<>>]
    /\ o2t = [s \in Packets |-> EmptyO2T]
    /\ t2o = [s \in Packets |-> EmptyT2O]
    /\ dialer = [s \in Packets |-> "none"]
    /\ cur = [s \in Packets |-> NoCur]
    /\ reader = [s \in Packets |-> "none"]
    /\ conn = [s \in Packets |-> "none"]
    /\ local = [s \in Packets |-> {}]
    /\ drops = [p \in Packets |-> 0]
    /\ sent = [k \in Keys |-> <<>>]

Drop(p) == drops' = [drops EXCEPT ![p] = @ + 1]
KeyOf(s) == pkt[s].key

-----------------------------------------------------------------------------
(* The environment: configuration reloads, the fake-IP pool and listeners. *)

OnSuspend == status = "Running" /\ status' = "Suspend"
OnInnerLoading == status = "Suspend" /\ status' = "Inner"
OnRunning == status = "Inner" /\ status' = "Running"

(* hub/executor applies a configuration: suspend, load, run. *)
ApplyConfig ==
    /\ OnSuspend \/ OnInnerLoading \/ OnRunning
    /\ UNCHANGED <<fakeRec, pkt, queue, worker, natTable, done, ch, mapVars,
                   dialer, cur, reader, conn, local, drops, sent>>

(* The pool evicts or flushes the record of a fake IP. *)
FakeRecordEvicted(f) ==
    /\ f \in fakeRec
    /\ fakeRec' = fakeRec \ {f}
    /\ UNCHANGED <<status, pkt, queue, worker, natTable, done, ch, mapVars,
                   dialer, cur, reader, conn, local, drops, sent>>

(* A listener hands a packet in: it is queued, or dropped when the queue   *)
(* of the worker of its key is full.                                       *)
HandleUDPPacket(k, ty, d) ==
    LET p == Len(pkt) + 1 IN
    /\ p \in Packets
    /\ pkt' = Append(pkt, [key |-> k, type |-> ty, dst |-> d])
    /\ \/ /\ Len(queue[WorkerOf[k]]) < QueueCapacity
          /\ queue' = [queue EXCEPT ![WorkerOf[k]] = Append(@, p)]
          /\ UNCHANGED drops
       \/ /\ Len(queue[WorkerOf[k]]) >= QueueCapacity
          /\ Drop(p)
          /\ UNCHANGED queue
    /\ UNCHANGED <<status, fakeRec, worker, natTable, done, ch, mapVars,
                   dialer, cur, reader, conn, local, sent>>

-----------------------------------------------------------------------------
(* A worker: processUDP and handleUDPConn. *)

isHandle(ty) == status = "Running" \/ (status = "Inner" /\ ty = "INNER")

(* The checks of handleUDPConn before it looks at the NAT table. *)
Accepted(m) ==
    /\ isHandle(m.type)
    /\ m.dst # NoIP
    /\ ~FakeRecordMissing(m.dst, fakeRec)

processUDP(w) ==
    LET p == Head(queue[w]) IN
    /\ worker[w].pc = "idle"
    /\ queue[w] # <<>>
    /\ queue' = [queue EXCEPT ![w] = Tail(@)]
    /\ \/ /\ Accepted(pkt[p])
          /\ worker' = [worker EXCEPT ![w] = [pc |-> "lookup", pkt |-> p, sess |-> None]]
          /\ UNCHANGED drops
       \/ /\ ~Accepted(pkt[p])
          /\ Drop(p)
          /\ UNCHANGED worker
    /\ UNCHANGED <<inVars, natTable, done, ch, mapVars, dialer, cur, reader,
                   conn, local, sent>>

(* natTable.GetOrCreate: the registered sender, or a new one whose dial    *)
(* goroutine is started.                                                   *)
GetOrCreate(w) ==
    LET p == worker[w].pkt
        k == KeyOf(p)
        found == natTable[k]
        Holding(s) == [pc |-> "check", pkt |-> p, sess |-> s] IN
    /\ worker[w].pc = "lookup"
    /\ \/ /\ found # None
          /\ worker' = [worker EXCEPT ![w] = Holding(found)]
          /\ UNCHANGED <<natTable, dialer>>
       \/ /\ found = None
          /\ worker' = [worker EXCEPT ![w] = Holding(p)]
          /\ natTable' = [natTable EXCEPT ![k] = p]
          /\ dialer' = [dialer EXCEPT ![p] = "dial"]
    /\ UNCHANGED <<inVars, queue, done, ch, mapVars, cur, reader, conn, local,
                   drops, sent>>

(* packetSender.Send, first select: the sender may be closed already. *)
SendCheck(w) ==
    LET s == worker[w].sess IN
    /\ worker[w].pc = "check"
    /\ \/ /\ done[s]
          /\ Drop(worker[w].pkt)
          /\ worker' = [worker EXCEPT ![w] = Idle]
       \/ /\ ~done[s]
          /\ worker' = [worker EXCEPT ![w].pc = "put"]
          /\ UNCHANGED drops
    /\ UNCHANGED <<inVars, queue, natTable, done, ch, mapVars, dialer, cur,
                   reader, conn, local, sent>>

(* Mutant: the packet is dropped although it was put into the channel. *)
SendPut_DropsToo(w) ==
    LET s == worker[w].sess
        p == worker[w].pkt IN
    /\ worker[w].pc = "put"
    /\ ch' = IF Len(ch[s]) < SenderCapacity
             THEN [ch EXCEPT ![s] = Append(@, p)] ELSE ch
    /\ Drop(p)
    /\ worker' = [worker EXCEPT ![w] = Idle]
    /\ UNCHANGED <<inVars, queue, natTable, done, mapVars, dialer, cur, reader,
                   conn, local, sent>>

(* packetSender.Send, second select: any case that is ready may be chosen, *)
(* the default only when the channel is full and the sender is open.       *)
SendPut(w) ==
    LET s == worker[w].sess
        p == worker[w].pkt IN
    /\ worker[w].pc = "put"
    /\ \/ /\ Len(ch[s]) < SenderCapacity
          /\ ch' = [ch EXCEPT ![s] = Append(@, p)]
          /\ UNCHANGED drops
       \/ /\ done[s] \/ Len(ch[s]) >= SenderCapacity
          /\ Drop(p)
          /\ UNCHANGED ch
    /\ worker' = [worker EXCEPT ![w] = Idle]
    /\ UNCHANGED <<inVars, queue, natTable, done, mapVars, dialer, cur, reader,
                   conn, local, sent>>

-----------------------------------------------------------------------------
(* What the goroutines of a session share. *)

(* packetSender.AddMapping, under its mutex. *)
AddMapping_ReverseOnly(s, d, target) ==
    /\ t2o' = [t2o EXCEPT ![s] = AddT2O(@, d, target)]
    /\ UNCHANGED o2t

AddMapping(s, d, target) ==
    /\ o2t' = [o2t EXCEPT ![s] = AddO2T(@, d, target)]
    /\ t2o' = [t2o EXCEPT ![s] = AddT2O(@, d, target)]

(* One iteration of dropAll: drop a packet still in the channel. *)
DropOne(s) ==
    /\ ch[s] # <<>>
    /\ Drop(Head(ch[s]))
    /\ ch' = [ch EXCEPT ![s] = Tail(@)]

(* natTable.Delete removes whatever is registered under the key. *)
Delete(s) == natTable' = [natTable EXCEPT ![KeyOf(s)] = None]

-----------------------------------------------------------------------------
(* The goroutine of a new session: dial, then the Process loop. *)

(* The order of its steps after a failed dial: sender.Close, which is      *)
(* cancel and dropAll, then natTable.Delete.                               *)
AfterDial_NoClose == [dial |-> "delete", delete |-> "end"]

AfterDial == [dial |-> "cancel", cancel |-> "drain", drain |-> "delete",
              delete |-> "end"]
DialerStep(s, pc) ==
    /\ dialer[s] = pc
    /\ dialer' = [dialer EXCEPT ![s] = AfterDial[pc]]

(* dial succeeds: the tracked PacketConn is open, the first packet's       *)
(* destination is mapped, handleUDPToLocal is started.                     *)
DialOK(s) ==
    LET d == pkt[s].dst IN
    /\ dialer[s] = "dial"
    /\ \E target \in DialedTo(d, fakeRec, Sniffing) : AddMapping(s, d, target)
    /\ conn' = [conn EXCEPT ![s] = "open"]
    /\ reader' = [reader EXCEPT ![s] = "read"]
    /\ dialer' = [dialer EXCEPT ![s] = "process"]
    /\ UNCHANGED <<inVars, queue, worker, natTable, done, ch, cur, local, drops,
                   sent>>

(* dial fails: no proxy, or every attempt of ListenPacketContext failed. *)
DialFail(s) ==
    /\ DialerStep(s, "dial")
    /\ UNCHANGED <<inVars, queue, worker, natTable, done, ch, mapVars, cur,
                   reader, conn, local, drops, sent>>

DialerCancel(s) ==
    /\ DialerStep(s, "cancel")
    /\ done' = [done EXCEPT ![s] = TRUE]
    /\ UNCHANGED <<inVars, queue, worker, natTable, ch, mapVars, cur, reader,
                   conn, local, drops, sent>>

(* dropAll: one packet per iteration, until the channel is empty. *)
DialerDropAll(s) ==
    /\ \/ /\ dialer[s] = "drain"
          /\ DropOne(s)
          /\ UNCHANGED dialer
       \/ /\ ch[s] = <<>>
          /\ DialerStep(s, "drain")
          /\ UNCHANGED <<ch, drops>>
    /\ UNCHANGED <<inVars, queue, worker, natTable, done, mapVars, cur, reader,
                   conn, local, sent>>

DialerDelete(s) ==
    /\ DialerStep(s, "delete")
    /\ Delete(s)
    /\ UNCHANGED <<inVars, queue, worker, done, ch, mapVars, cur, reader, conn,
                   local, drops, sent>>

(* Process: the sender is closed, the loop returns. *)
ProcessReturn_Deletes(s) ==
    /\ dialer[s] = "process"
    /\ done[s]
    /\ Delete(s)
    /\ dialer' = [dialer EXCEPT ![s] = "end"]
    /\ UNCHANGED <<inVars, queue, worker, done, ch, mapVars, cur, reader, conn,
                   local, drops, sent>>

ProcessReturn(s) ==
    /\ dialer[s] = "process"
    /\ done[s]
    /\ dialer' = [dialer EXCEPT ![s] = "end"]
    /\ UNCHANGED <<inVars, queue, worker, natTable, done, ch, mapVars, cur,
                   reader, conn, local, drops, sent>>

(* Process: a packet is received, also when the sender is closed too; the  *)
(* mapping gives its address, or it has to be resolved.                    *)
ProcessReceive(s) ==
    LET p == Head(ch[s])
        target == o2t[s][pkt[p].dst] IN
    /\ dialer[s] = "process"
    /\ ch[s] # <<>>
    /\ ch' = [ch EXCEPT ![s] = Tail(@)]
    /\ cur' = [cur EXCEPT ![s] = [pkt |-> p, to |-> target]]
    /\ dialer' = [dialer EXCEPT ![s] = IF target # NoIP THEN "write" ELSE "resolve"]
    /\ UNCHANGED <<inVars, queue, worker, natTable, done, mapVars, reader, conn,
                   local, drops, sent>>

(* processPacket without a mapping: resolve, add the mapping.  A name may  *)
(* fail to resolve, and the result may be no valid address; the packet is  *)
(* then dropped.                                                           *)
ProcessResolve(s) ==
    LET p == cur[s].pkt
        d == pkt[p].dst IN
    /\ dialer[s] = "resolve"
    /\ \/ \E target \in ResolvedTo(d, fakeRec) \ {NoIP} :
             /\ AddMapping(s, d, target)
             /\ cur' = [cur EXCEPT ![s].to = target]
             /\ dialer' = [dialer EXCEPT ![s] = "write"]
             /\ UNCHANGED drops
       \/ /\ NeedsResolve(d, fakeRec) \/ NoIP \in ResolvedTo(d, fakeRec)
          /\ Drop(p)
          /\ cur' = [cur EXCEPT ![s] = NoCur]
          /\ dialer' = [dialer EXCEPT ![s] = "process"]
          /\ UNCHANGED mapVars
    /\ UNCHANGED <<inVars, queue, worker, natTable, done, ch, reader, conn,
                   local, sent>>

(* handleUDPToRemote, then the deferred Drop.  A write to a closed         *)
(* PacketConn fails, any other write may fail.                             *)
ProcessWrite(s) ==
    LET p == cur[s].pkt IN
    /\ dialer[s] = "write"
    /\ \/ /\ conn[s] = "open"
          /\ sent' = [sent EXCEPT ![KeyOf(s)] =
                        Append(@, [pkt |-> p, sess |-> s, to |-> cur[s].to])]
       \/ UNCHANGED sent
    /\ Drop(p)
    /\ cur' = [cur EXCEPT ![s] = NoCur]
    /\ dialer' = [dialer EXCEPT ![s] = "process"]
    /\ UNCHANGED <<inVars, queue, worker, natTable, done, ch, mapVars, reader,
                   conn, local>>

-----------------------------------------------------------------------------
(* The goroutine of handleUDPToLocal. *)

(* The order of its steps once the read loop ends, by its deferred         *)
(* function: sender.Close, which is cancel and dropAll, pc.Close,          *)
(* closeAllLocalCoon, natTable.Delete.                                     *)
AfterRead_DeleteFirst == [read |-> "delete", delete |-> "cancel",
                          cancel |-> "drain", drain |-> "closeConn",
                          closeConn |-> "closeLocal", closeLocal |-> "end"]
AfterRead_DeleteBeforeLocal == [read |-> "cancel", cancel |-> "drain",
                                drain |-> "closeConn", closeConn |-> "delete",
                                delete |-> "closeLocal", closeLocal |-> "end"]
AfterRead_NoDelete == [read |-> "cancel", cancel |-> "drain",
                       drain |-> "closeConn", closeConn |-> "closeLocal",
                       closeLocal |-> "end"]

AfterRead == [read |-> "cancel", cancel |-> "drain", drain |-> "closeConn",
              closeConn |-> "closeLocal", closeLocal |-> "delete",
              delete |-> "end"]
ReaderStep(s, pc) ==
    /\ reader[s] = pc
    /\ reader' = [reader EXCEPT ![s] = AfterRead[pc]]

(* createOrGetLocalConn: the socket that shows an address to the client is *)
(* kept in the NAT entry of the client's key.                              *)
OpenLocal(s, shown) ==
    LET e == natTable[KeyOf(s)] IN
    IF e = None \/ shown = NoIP THEN local
    ELSE [local EXCEPT ![e] = @ \cup {shown}]

(* A reply is read from an outbound address (NoIP: the outbound reports    *)
(* none and the dial left the name unresolved) and written back to the     *)
(* client, by the TPROXY listener through a socket that it opens on first  *)
(* use.  A failed WriteBack ends the loop.                                 *)
ReadReply(s, from) ==
    /\ reader[s] = "read"
    /\ local' \in {local, OpenLocal(s, RestoreReadFrom(t2o[s], from))}
    /\ ReaderStep(s, "read") \/ UNCHANGED reader
    /\ UNCHANGED <<inVars, queue, worker, natTable, done, ch, mapVars, dialer,
                   cur, conn, drops, sent>>

(* WaitReadFrom fails: the read deadline passed, or the outbound broke. *)
ReadFail(s) ==
    /\ ReaderStep(s, "read")
    /\ UNCHANGED <<inVars, queue, worker, natTable, done, ch, mapVars, dialer,
                   cur, conn, local, drops, sent>>

ReaderCancel(s) ==
    /\ ReaderStep(s, "cancel")
    /\ done' = [done EXCEPT ![s] = TRUE]
    /\ UNCHANGED <<inVars, queue, worker, natTable, ch, mapVars, dialer, cur,
                   conn, local, drops, sent>>

ReaderDropAll(s) ==
    /\ \/ /\ reader[s] = "drain"
          /\ DropOne(s)
          /\ UNCHANGED reader
       \/ /\ ch[s] = <<>>
          /\ ReaderStep(s, "drain")
          /\ UNCHANGED <<ch, drops>>
    /\ UNCHANGED <<inVars, queue, worker, natTable, done, mapVars, dialer, cur,
                   conn, local, sent>>

ReaderCloseConn(s) ==
    /\ ReaderStep(s, "closeConn")
    /\ conn' = [conn EXCEPT ![s] = "closed"]
    /\ UNCHANGED <<inVars, queue, worker, natTable, done, ch, mapVars, dialer,
                   cur, local, drops, sent>>

(* closeAllLocalCoon finds the sockets through the NAT table, by key. *)
ReaderCloseLocal(s) ==
    LET e == natTable[KeyOf(s)] IN
    /\ ReaderStep(s, "closeLocal")
    /\ local' = IF e = None THEN local ELSE [local EXCEPT ![e] = {}]
    /\ UNCHANGED <<inVars, queue, worker, natTable, done, ch, mapVars, dialer,
                   cur, conn, drops, sent>>

ReaderDelete(s) ==
    /\ ReaderStep(s, "delete")
    /\ Delete(s)
    /\ UNCHANGED <<inVars, queue, worker, done, ch, mapVars, dialer, cur, conn,
                   local, drops, sent>>

-----------------------------------------------------------------------------
Environment ==
    \/ ApplyConfig
    \/ \E f \in FakeIPs : FakeRecordEvicted(f)
    \/ \E k \in Keys, ty \in Types, d \in Inputs : HandleUDPPacket(k, ty, d)

WorkerNext(w) == processUDP(w) \/ GetOrCreate(w) \/ SendCheck(w) \/ SendPut(w)

Dial(s) ==
    \/ DialOK(s) \/ DialFail(s)
    \/ DialerCancel(s) \/ DialerDropAll(s) \/ DialerDelete(s)
Process(s) ==
    ProcessReturn(s) \/ ProcessReceive(s) \/ ProcessResolve(s) \/ ProcessWrite(s)
DialerNext(s) == Dial(s) \/ Process(s)

ReaderCleanup(s) ==
    \/ ReaderCancel(s) \/ ReaderDropAll(s) \/ ReaderCloseConn(s)
    \/ ReaderCloseLocal(s) \/ ReaderDelete(s)
ReaderNext(s) ==
    \/ \E from \in IPs \cup {NoIP} : ReadReply(s, from)
    \/ ReadFail(s)
    \/ ReaderCleanup(s)

Next ==
    \/ Environment
    \/ \E w \in Workers : WorkerNext(w)
    \/ \E s \in Packets : DialerNext(s) \/ ReaderNext(s)

Spec == Init /\ [][Next]_vars

(***************************************************************************)
(* Goroutines that can run do run.  dial is bounded by its timeouts        *)
(* (quicWaitConn, DefaultUDPTimeout), ResolveUDP by the DNS timeout.  The  *)
(* reader's loop is not assumed to end: traffic may keep it alive.         *)
(***************************************************************************)
Fairness ==
    /\ \A w \in Workers : WF_vars(WorkerNext(w))
    /\ \A s \in Packets : WF_vars(DialerNext(s)) /\ WF_vars(ReaderCleanup(s))

FairSpec == Spec /\ Fairness

-----------------------------------------------------------------------------
(* Properties *)

Elems(seq) == {seq[i] : i \in 1..Len(seq)}
NoDup(seq) == Cardinality(Elems(seq)) = Len(seq)

(* The places that own packet p: whoever holds it will drop it. *)
Owners(p) ==
    {<<"queue", w>> : w \in {v \in Workers : p \in Elems(queue[v])}}
      \cup {<<"worker", w>> : w \in {v \in Workers : worker[v].pkt = p}}
      \cup {<<"chan", s>> : s \in {r \in Packets : p \in Elems(ch[r])}}
      \cup {<<"process", s>> : s \in {r \in Packets : cur[r].pkt = p}}

(***************************************************************************)
(* Drop recycles the packet's buffer, so it must be called once, by the    *)
(* last user.  Every packet that arrived has exactly one owner until it is *)
(* dropped, exactly once, and no owner afterwards.                         *)
(***************************************************************************)
SingleOwner ==
    /\ \A p \in Arrived : Cardinality(Owners(p)) + drops[p] = 1
    /\ \A w \in Workers : NoDup(queue[w])
    /\ \A s \in Packets : NoDup(ch[s])

(* The session still has cleanup ahead of it that deletes its NAT entry.   *)
Live(s) == \/ dialer[s] \in {"dial", "cancel", "drain", "delete"}
           \/ reader[s] \in ReaderPC \ {"none", "end"}

(***************************************************************************)
(* natTable.Delete takes a key, not a session.  It never removes another   *)
(* session's entry: until its own Delete, a session is what its key finds. *)
(***************************************************************************)
LiveIsRegistered == \A s \in Packets : Live(s) => natTable[KeyOf(s)] = s

(***************************************************************************)
(* Why: the two goroutines of a session never both have cleanup ahead of   *)
(* them, and what they close is closed in the order of their cleanup.      *)
(***************************************************************************)
SessionInv(s) ==
    /\ dialer[s] \in {"dial", "cancel", "drain", "delete"} =>
           reader[s] \in {"none", "end"}
    /\ dialer[s] \in {"drain", "delete"} => done[s]
    /\ reader[s] \in {"drain", "closeConn", "closeLocal", "delete"} => done[s]
    /\ conn[s] = "open" => reader[s] \in {"read", "cancel", "drain", "closeConn"}
    /\ local[s] # {} =>
           reader[s] \in {"read", "cancel", "drain", "closeConn", "closeLocal"}
    /\ Live(s) => natTable[KeyOf(s)] = s
SessionsInv == \A s \in Packets : SessionInv(s)

(***************************************************************************)
(* A client address never has two open outbound connections: the old one   *)
(* is closed before the key is freed for a new session.                    *)
(***************************************************************************)
OneConnPerKey ==
    \A s, t \in Arrived :
        (conn[s] = "open" /\ conn[t] = "open" /\ KeyOf(s) = KeyOf(t)) => s = t

(***************************************************************************)
(* "It ensures that packets can be sent sequentially": the packets of a    *)
(* client leave in the order they arrived, across sessions too.            *)
(***************************************************************************)
SentInOrder ==
    \A k \in Keys : \A i, j \in 1..Len(sent[k]) :
        i < j => sent[k][i].pkt < sent[k][j].pkt

(* Within a session all packets to one destination go to one address. *)
SessionAffinity ==
    \A k \in Keys : \A i, j \in 1..Len(sent[k]) :
        LET a == sent[k][i]
            b == sent[k][j] IN
        (a.sess = b.sess /\ pkt[a.pkt].dst = pkt[b.pkt].dst) => a.to = b.to

(***************************************************************************)
(* A reply from an address that this session mapped some IP to is shown to *)
(* the client as coming from such an IP, never from the mapped address.    *)
(***************************************************************************)
ReplyShowsOrigin ==
    \A s \in Packets, t \in IPs :
        LET origins == {o \in IPs : o2t[s][o] = t} IN
        origins # {} => RestoreReadFrom(t2o[s], t) \in origins

(* No TPROXY socket outlives the session whose reader opened it. *)
LocalConnsClosed == \A s \in Packets : reader[s] = "end" => local[s] = {}

(***************************************************************************)
(* An entry leaves the NAT table only once its sender is cancelled and its *)
(* outbound connection, if any, is closed.                                 *)
(***************************************************************************)
RemovalClosed ==
    \A k \in Keys :
        natTable[k] \notin {None, natTable'[k]} =>
            /\ natTable'[k] = None
            /\ done[natTable[k]]
            /\ conn[natTable[k]] # "open"
RemovedAfterClose == [][RemovalClosed]_vars

(* In the channel of a sender whose Process loop has ended. *)
Stranded(p) == \E s \in Packets : p \in Elems(ch[s]) /\ done[s] /\ dialer[s] = "end"

(* Every packet handed in is dropped in the end, or stranded. *)
PacketSettled ==
    \A p \in Packets : (p \in Arrived) ~> (drops[p] = 1 \/ Stranded(p))

(* A cancelled session leaves the NAT table, so that its client can be     *)
(* served by a new one.                                                    *)
ClosedLeavesTable ==
    \A s \in Packets : done[s] ~> (dialer[s] = "end" /\ \A k \in Keys : natTable[k] # s)

(* Send: "put ok, so don't drop packet, will process by other side of      *)
(* chan" (connection.go:139).                                              *)
NeverStranded == \A p \in Arrived : ~Stranded(p)

(* dial and processPacket discard the error of preHandleMetadata because   *)
(* it "was pre-checked": no packet is written to a fake IP.                *)
NoFakeIPSent == \A k \in Keys : \A i \in 1..Len(sent[k]) : sent[k][i].to \notin FakeIPs
=============================================================================
