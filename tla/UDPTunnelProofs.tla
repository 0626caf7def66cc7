-------------------------- MODULE UDPTunnelProofs --------------------------
(***************************************************************************)
(* Theorems about UDPTunnel for every number of packets, keys, workers and *)
(* addresses.                                                              *)
(***************************************************************************)
EXTENDS UDPTunnel, TLAPS

-----------------------------------------------------------------------------
(* Lemmas about the operators of PacketSender and about sequences. *)

(* AddMapping stores addresses of the right types in both maps. *)
LEMMA AddMappingType ==
    ASSUME NEW m \in [Dsts -> IPs \cup {NoIP}],
           NEW r \in [IPs \cup {NoIP} -> IPs \cup {NoIP}],
           NEW d \in Dsts, NEW target \in IPs \cup {NoIP}
    PROVE  /\ AddO2T(m, d, target) \in [Dsts -> IPs \cup {NoIP}]
           /\ AddT2O(r, d, target) \in [IPs \cup {NoIP} -> IPs \cup {NoIP}]
  BY DEF AddO2T, AddT2O, OriginAddr, Dsts

(* Dialing and resolving give an address, or none. *)
LEMMA TargetType ==
    ASSUME NEW d \in Dsts, NEW rec, NEW b
    PROVE  /\ DialedTo(d, rec, b) \subseteq IPs \cup {NoIP}
           /\ ResolvedTo(d, rec) \subseteq IPs \cup {NoIP}
  BY DEF DialedTo, ResolvedTo, NeedsResolve, Dsts, IPs

(* The channel operations: what a packet channel holds after them. *)
LEMMA SeqOps ==
    ASSUME NEW S, NEW q \in Seq(S)
    PROVE  /\ \A p \in S : Append(q, p) \in Seq(S) /\ Len(Append(q, p)) = Len(q) + 1
           /\ q # <<>> => /\ Head(q) \in S
                          /\ Tail(q) \in Seq(S)
                          /\ Len(Tail(q)) = Len(q) - 1
           /\ Len(q) \in Nat
  OBVIOUS

LEMMA SeqMono ==
    ASSUME NEW S, NEW T, S \subseteq T, NEW q \in Seq(S)
    PROVE  q \in Seq(T)
  OBVIOUS

-----------------------------------------------------------------------------
(* Type correctness. *)

LEMMA InitType == Init => TypeOK
  BY TunnelAssumption, AddressAssumption
  DEF Init, TypeOK, TypeIn, TypeQueue, TypeWorker, TypeNat, TypeSender, TypeMap,
      TypeDialer, TypeReader, TypeHistory, Idle, NoCur, EmptyO2T, EmptyT2O,
      Arrived, WorkerPC, DialerPC, ReaderPC, Packets

(***************************************************************************)
(* One lemma per part of TypeOK: how a step that touches one element of    *)
(* the variables of that part keeps it.                                    *)
(***************************************************************************)
LEMMA DropType ==
    ASSUME TypeHistory, NEW p \in Packets, Drop(p) \/ UNCHANGED drops,
           UNCHANGED sent, Arrived' = Arrived
    PROVE  TypeHistory'
<1>1. drops' \in [Packets -> Nat]
  <2>1. drops \in [Packets -> Nat]
    BY DEF TypeHistory
  <2>2. drops[p] + 1 \in Nat
    BY <2>1
  <2> QED BY <2>1, <2>2 DEF Drop
<1>2. sent' \in [Keys -> Seq([pkt : Arrived', sess : Arrived', to : IPs])]
  BY DEF TypeHistory
<1> QED BY <1>1, <1>2 DEF TypeHistory

WorkerRec == [pc : WorkerPC, pkt : Arrived \cup {None}, sess : Arrived \cup {None}]

LEMMA WorkerSet ==
    ASSUME TypeWorker, Arrived' = Arrived, NEW w \in Workers,
           NEW r \in WorkerRec,
           r.pc # "idle" => r.pkt # None,
           r.pc \in {"check", "put"} => r.sess # None,
           worker' = [worker EXCEPT ![w] = r]
    PROVE  TypeWorker'
<1>1. worker' \in [Workers -> WorkerRec]
  BY DEF TypeWorker, WorkerRec
<1>2. \A v \in Workers : worker'[v] = IF v = w THEN r ELSE worker[v]
  BY DEF TypeWorker
<1> QED BY <1>1, <1>2 DEF TypeWorker, WorkerRec

LEMMA DialerSet ==
    ASSUME TypeDialer, Arrived' = Arrived, NEW s \in Packets \cap Arrived,
           NEW pc \in DialerPC, NEW c,
           c \in [pkt : Arrived \cup {None}, to : IPs \cup {NoIP}],
           pc \in {"resolve", "write"} => c.pkt # None,
           pc = "write" => c.to # NoIP,
           dialer' = [dialer EXCEPT ![s] = pc],
           cur' = [cur EXCEPT ![s] = c]
    PROVE  TypeDialer'
<1>1. /\ dialer' \in [Packets -> DialerPC]
      /\ cur' \in [Packets -> [pkt : Arrived \cup {None}, to : IPs \cup {NoIP}]]
  BY DEF TypeDialer
<1>2. \A r \in Packets : /\ dialer'[r] = IF r = s THEN pc ELSE dialer[r]
                         /\ cur'[r] = IF r = s THEN c ELSE cur[r]
  BY DEF TypeDialer
<1> QED BY <1>1, <1>2 DEF TypeDialer

LEMMA ReaderSet ==
    ASSUME TypeReader, Arrived' = Arrived, NEW s \in Packets \cap Arrived,
           NEW pc \in ReaderPC, reader' = [reader EXCEPT ![s] = pc],
           conn' \in [Packets -> {"none", "open", "closed"}],
           local' \in [Packets -> SUBSET IPs]
    PROVE  TypeReader'
  BY DEF TypeReader

LEMMA QueueTail ==
    ASSUME TypeQueue, Arrived' = Arrived, NEW w \in Workers, queue[w] # <<>>,
           queue' = [queue EXCEPT ![w] = Tail(@)]
    PROVE  TypeQueue' /\ Head(queue[w]) \in Arrived
  BY TunnelAssumption DEF TypeQueue

LEMMA ChanSet ==
    ASSUME TypeSender, Arrived' = Arrived, NEW s \in Packets,
           NEW q \in Seq(Arrived), Len(q) <= SenderCapacity,
           ch' = [ch EXCEPT ![s] = q], UNCHANGED done
    PROVE  TypeSender'
  BY DEF TypeSender

LEMMA DoneSet ==
    ASSUME TypeSender, Arrived' = Arrived, NEW s \in Packets,
           done' = [done EXCEPT ![s] = TRUE], UNCHANGED ch
    PROVE  TypeSender'
  BY DEF TypeSender

(* dropAll receives one packet. *)
LEMMA DropOneType ==
    ASSUME TypeSender, TypeHistory, Arrived \subseteq Packets,
           Arrived' = Arrived, NEW s \in Packets, DropOne(s),
           UNCHANGED <<done, sent>>
    PROVE  TypeSender' /\ TypeHistory'
<1>1. ch[s] \in Seq(Arrived) /\ Len(ch[s]) <= SenderCapacity /\ ch[s] # <<>>
  BY DEF TypeSender, DropOne
<1>2. /\ Head(ch[s]) \in Arrived /\ Tail(ch[s]) \in Seq(Arrived)
      /\ Len(Tail(ch[s])) <= SenderCapacity
  BY <1>1, SeqOps, TunnelAssumption
<1>3. TypeSender'
  BY <1>2, ChanSet DEF DropOne
<1>4. TypeHistory'
  BY <1>2, DropType DEF DropOne
<1> QED BY <1>3, <1>4

(* AddMapping, from dial or from processPacket. *)
LEMMA MapSet ==
    ASSUME TypeMap, NEW s \in Packets, NEW d \in Dsts,
           NEW target \in IPs \cup {NoIP}, AddMapping(s, d, target)
    PROVE  TypeMap'
<1>1. /\ AddO2T(o2t[s], d, target) \in [Dsts -> IPs \cup {NoIP}]
      /\ AddT2O(t2o[s], d, target) \in [IPs \cup {NoIP} -> IPs \cup {NoIP}]
  BY AddMappingType DEF TypeMap
<1> QED BY <1>1 DEF TypeMap, AddMapping

(* A part none of whose variables changes keeps its types. *)
LEMMA SameType ==
    ASSUME TypeOK, Arrived' = Arrived
    PROVE  /\ UNCHANGED <<status, fakeRec, pkt>> => TypeIn'
           /\ UNCHANGED queue => TypeQueue'
           /\ UNCHANGED worker => TypeWorker'
           /\ UNCHANGED natTable => TypeNat'
           /\ UNCHANGED <<done, ch>> => TypeSender'
           /\ UNCHANGED <<o2t, t2o>> => TypeMap'
           /\ UNCHANGED <<dialer, cur>> => TypeDialer'
           /\ UNCHANGED <<reader, conn, local>> => TypeReader'
           /\ UNCHANGED <<drops, sent>> => TypeHistory'
  BY DEF TypeOK, TypeIn, TypeQueue, TypeWorker, TypeNat, TypeSender, TypeMap,
         TypeDialer, TypeReader, TypeHistory

(* What a step needs to know about the packets that arrived. *)
LEMMA ArrivedFacts ==
    ASSUME TypeIn
    PROVE  /\ Arrived \subseteq Packets /\ None \notin Arrived
           /\ \A p \in Arrived : pkt[p].key \in Keys /\ pkt[p].dst \in Dsts
           /\ UNCHANGED pkt => Arrived' = Arrived
<1>1. Len(pkt) \in Nat /\ Len(pkt) <= MaxPackets
  BY DEF TypeIn
<1>2. Arrived \subseteq Packets /\ None \notin Arrived
  BY <1>1, TunnelAssumption DEF Arrived, Packets
<1>3. \A p \in Arrived : pkt[p] \in Metadata
  BY DEF TypeIn, Arrived
<1>4. UNCHANGED pkt => Arrived' = Arrived
  BY DEF Arrived
<1> QED BY <1>2, <1>3, <1>4, TunnelAssumption DEF Metadata

LEMMA WorkerType ==
    ASSUME TypeOK, NEW w \in Workers, WorkerNext(w)
    PROVE  TypeOK'
<1> USE DEF inVars, mapVars
<1>1. UNCHANGED pkt
  BY DEF WorkerNext, processUDP, GetOrCreate, SendCheck, SendPut
<1>2. /\ Arrived' = Arrived /\ Arrived \subseteq Packets /\ None \notin Arrived
      /\ \A p \in Arrived : pkt[p].key \in Keys
  BY <1>1, ArrivedFacts DEF TypeOK
<1>3. /\ worker[w] \in WorkerRec
      /\ worker[w].pc # "idle" => worker[w].pkt \in Arrived
      /\ worker[w].pc \in {"check", "put"} => worker[w].sess \in Arrived
  BY DEF TypeOK, TypeWorker, WorkerRec
<1>4. Idle \in WorkerRec
  BY DEF Idle, WorkerRec, WorkerPC
<1>5. CASE processUDP(w)
  <2> DEFINE p == Head(queue[w])
             r == [pc |-> "lookup", pkt |-> p, sess |-> None]
  <2>1. TypeQueue' /\ p \in Arrived
    BY <1>2, <1>5, QueueTail DEF TypeOK, processUDP
  <2>2. r \in WorkerRec /\ r.pkt # None /\ r.pc \notin {"idle", "check", "put"}
    BY <1>2, <2>1 DEF WorkerRec, WorkerPC
  <2>3. TypeWorker'
    <3>1. worker' = [worker EXCEPT ![w] = r] \/ UNCHANGED worker
      BY <1>5 DEF processUDP
    <3> HIDE DEF r
    <3> QED BY <1>2, <2>2, <3>1, WorkerSet, SameType DEF TypeOK
  <2>4. TypeHistory'
    BY <1>2, <1>5, <2>1, DropType DEF TypeOK, processUDP
  <2> QED BY <1>2, <1>5, <2>1, <2>3, <2>4, SameType DEF TypeOK, processUDP
<1>6. CASE GetOrCreate(w)
  <2> DEFINE p == worker[w].pkt
             k == KeyOf(p)
             Holding(s) == [pc |-> "check", pkt |-> p, sess |-> s]
  <2>1. p \in Arrived /\ k \in Keys
    BY <1>2, <1>3, <1>6 DEF GetOrCreate, KeyOf
  <2>2. PICK s \in Arrived : worker' = [worker EXCEPT ![w] = Holding(s)]
    BY <1>6, <2>1 DEF GetOrCreate, TypeOK, TypeNat, KeyOf
  <2>3. TypeWorker'
    <3>1. Holding(s) \in WorkerRec /\ Holding(s).pkt # None /\ Holding(s).sess # None
      BY <1>2, <2>1 DEF WorkerRec, WorkerPC
    <3> HIDE DEF Holding
    <3> QED BY <1>2, <2>2, <3>1, WorkerSet DEF TypeOK
  <2>4. TypeNat'
    BY <1>2, <1>6, <2>1 DEF GetOrCreate, TypeOK, TypeNat
  <2>5. TypeDialer'
    <3>1. CASE UNCHANGED dialer
      BY <1>2, <1>6, <3>1, SameType DEF GetOrCreate
    <3>2. CASE dialer' = [dialer EXCEPT ![p] = "dial"]
      <4>1. cur' = [cur EXCEPT ![p] = cur[p]]
            /\ cur[p] \in [pkt : Arrived \cup {None}, to : IPs \cup {NoIP}]
        BY <1>2, <1>6, <2>1 DEF GetOrCreate, TypeOK, TypeDialer
      <4> QED BY <1>2, <2>1, <3>2, <4>1, DialerSet DEF TypeOK, DialerPC
    <3> QED BY <1>6, <3>1, <3>2 DEF GetOrCreate
  <2> QED BY <1>2, <1>6, <2>3, <2>4, <2>5, SameType DEF TypeOK, GetOrCreate
<1>7. CASE SendCheck(w)
  <2> DEFINE r == [worker[w] EXCEPT !.pc = "put"]
  <2>1. /\ r \in WorkerRec /\ r.pkt # None /\ r.sess # None
        /\ worker[w].pkt \in Packets
    BY <1>2, <1>3, <1>7 DEF SendCheck, WorkerRec, WorkerPC
  <2>2. worker' = [worker EXCEPT ![w] = r] \/ worker' = [worker EXCEPT ![w] = Idle]
    BY <1>7 DEF SendCheck, TypeOK, TypeWorker
  <2>3. TypeWorker'
    <3> HIDE DEF r
    <3>1. Idle.pc = "idle"
      BY DEF Idle
    <3> QED BY <1>2, <1>4, <2>1, <2>2, <3>1, WorkerSet DEF TypeOK
  <2>4. TypeHistory'
    BY <1>2, <1>7, <2>1, DropType DEF TypeOK, SendCheck
  <2> QED BY <1>2, <1>7, <2>3, <2>4, SameType DEF TypeOK, SendCheck
<1>8. CASE SendPut(w)
  <2> DEFINE s == worker[w].sess
             p == worker[w].pkt
  <2>1. s \in Arrived /\ p \in Arrived
    BY <1>3, <1>8 DEF SendPut
  <2>2. TypeWorker'
    <3>1. Idle.pc = "idle"
      BY DEF Idle
    <3> QED BY <1>2, <1>4, <1>8, <3>1, WorkerSet DEF TypeOK, SendPut
  <2>3. TypeSender'
    <3>1. CASE UNCHANGED ch
      BY <1>2, <1>8, <3>1, SameType DEF SendPut
    <3>2. CASE /\ Len(ch[s]) < SenderCapacity
               /\ ch' = [ch EXCEPT ![s] = Append(@, p)]
      <4>1. ch[s] \in Seq(Arrived)
        BY <1>2, <2>1 DEF TypeOK, TypeSender
      <4>2. Append(ch[s], p) \in Seq(Arrived) /\ Len(Append(ch[s], p)) <= SenderCapacity
        BY <2>1, <3>2, <4>1, SeqOps, TunnelAssumption
      <4> QED BY <1>2, <1>8, <2>1, <3>2, <4>2, ChanSet DEF TypeOK, SendPut
    <3> QED BY <1>8, <3>1, <3>2 DEF SendPut
  <2>4. TypeHistory'
    BY <1>2, <1>8, <2>1, DropType DEF TypeOK, SendPut
  <2> QED BY <1>2, <1>8, <2>2, <2>3, <2>4, SameType DEF TypeOK, SendPut
<1> QED BY <1>5, <1>6, <1>7, <1>8 DEF WorkerNext

(* A packet arrives: every other part of the state is typed with one more  *)
(* packet than before.                                                     *)
LEMMA ArrivalType ==
    ASSUME TypeOK, NEW k \in Keys, NEW ty \in Types, NEW d \in Inputs,
           HandleUDPPacket(k, ty, d)
    PROVE  TypeOK'
<1> DEFINE p == Len(pkt) + 1
           m == [key |-> k, type |-> ty, dst |-> d]
<1>1. /\ Len(pkt) \in Nat /\ pkt \in Seq(Metadata) /\ m \in Metadata
      /\ p \in Packets /\ p <= MaxPackets
  BY TunnelAssumption DEF TypeOK, TypeIn, Metadata, HandleUDPPacket, Packets
<1>2. pkt' \in Seq(Metadata) /\ Len(pkt') = p
  BY <1>1 DEF HandleUDPPacket
<1>3. Arrived' = 1..p /\ Arrived \subseteq Arrived' /\ p \in Arrived'
  BY <1>1, <1>2 DEF Arrived
<1>10. Seq(Arrived) \subseteq Seq(Arrived')
  BY <1>3, SeqMono
<1>4. TypeIn'
  BY <1>1, <1>2 DEF TypeOK, TypeIn, HandleUDPPacket
<1>5. TypeQueue'
  <2> DEFINE v == WorkerOf[k]
             q == queue[v]
  <2>1. queue \in [Workers -> Seq(Arrived')]
    BY <1>10 DEF TypeOK, TypeQueue
  <2>2. v \in Workers /\ q \in Seq(Arrived') /\ Len(q) \in Nat
    BY <2>1, TunnelAssumption
  <2>3. CASE UNCHANGED queue
    BY <2>1, <2>3 DEF TypeOK, TypeQueue
  <2>4. CASE /\ Len(q) < QueueCapacity
             /\ queue' = [queue EXCEPT ![v] = Append(@, p)]
    <3>1. Append(q, p) \in Seq(Arrived') /\ Len(Append(q, p)) <= QueueCapacity
      BY <1>3, <2>2, <2>4, SeqOps, TunnelAssumption
    <3>2. queue' \in [Workers -> Seq(Arrived')]
      BY <2>1, <2>4, <3>1
    <3>3. \A w \in Workers : Len(queue'[w]) <= QueueCapacity
      BY <2>1, <2>4, <3>1 DEF TypeOK, TypeQueue
    <3> QED BY <3>2, <3>3 DEF TypeQueue
  <2> QED BY <2>3, <2>4 DEF HandleUDPPacket
<1>6. TypeWorker' /\ TypeNat'
  BY <1>3 DEF TypeOK, TypeWorker, TypeNat, HandleUDPPacket
<1>7. TypeSender'
  BY <1>10 DEF TypeOK, TypeSender, HandleUDPPacket
<1>8. TypeMap' /\ TypeDialer' /\ TypeReader'
  BY <1>3 DEF TypeOK, TypeMap, TypeDialer, TypeReader, HandleUDPPacket, mapVars
<1>9. TypeHistory'
  <2> DEFINE R == [pkt : Arrived, sess : Arrived, to : IPs]
             R1 == [pkt : Arrived', sess : Arrived', to : IPs]
  <2>1. R \subseteq R1
    BY <1>3
  <2>2. sent \in [Keys -> Seq(R)] /\ drops \in [Packets -> Nat]
    BY DEF TypeOK, TypeHistory
  <2>3. sent \in [Keys -> Seq(R1)]
    <3> HIDE DEF R, R1
    <3> QED BY <2>1, <2>2, SeqMono
  <2>4. drops[p] + 1 \in Nat
    BY <1>1, <2>2
  <2>5. drops' \in [Packets -> Nat]
    BY <2>2, <2>4 DEF HandleUDPPacket, Drop
  <2> QED BY <2>3, <2>5 DEF TypeHistory, HandleUDPPacket
<1> QED BY <1>4, <1>5, <1>6, <1>7, <1>8, <1>9 DEF TypeOK

LEMMA EnvironmentType ==
    ASSUME TypeOK, Environment
    PROVE  TypeOK'
<1> USE DEF mapVars
<1>1. CASE ApplyConfig
  <2>1. Arrived' = Arrived
    BY <1>1 DEF ApplyConfig, Arrived
  <2>2. TypeIn'
    BY <1>1 DEF ApplyConfig, OnSuspend, OnInnerLoading, OnRunning, TypeOK, TypeIn
  <2> QED BY <1>1, <2>1, <2>2, SameType DEF ApplyConfig, TypeOK
<1>2. ASSUME NEW f \in FakeIPs, FakeRecordEvicted(f)
      PROVE  TypeOK'
  <2>1. Arrived' = Arrived
    BY <1>2 DEF FakeRecordEvicted, Arrived
  <2>2. TypeIn'
    BY <1>2 DEF FakeRecordEvicted, TypeOK, TypeIn
  <2> QED BY <1>2, <2>1, <2>2, SameType DEF FakeRecordEvicted, TypeOK
<1> QED BY <1>1, <1>2, ArrivalType DEF Environment

LEMMA DialerType ==
    ASSUME TypeOK, NEW s \in Packets, DialerNext(s)
    PROVE  TypeOK'
<1> USE DEF inVars, mapVars
<1> DEFINE CurRec == [pkt : Arrived \cup {None}, to : IPs \cup {NoIP}]
<1>1. UNCHANGED pkt /\ dialer[s] # "none"
  BY DEF DialerNext, Dial, Process, DialOK, DialFail, DialerCancel, DialerDropAll,
         DialerDelete, DialerStep, ProcessReturn, ProcessReceive, ProcessResolve,
         ProcessWrite
<1>2. /\ Arrived' = Arrived /\ Arrived \subseteq Packets /\ None \notin Arrived
      /\ \A p \in Arrived : pkt[p].key \in Keys /\ pkt[p].dst \in Dsts
  BY <1>1, ArrivedFacts DEF TypeOK
<1>3. s \in Arrived /\ cur[s] \in CurRec
  BY <1>1 DEF TypeOK, TypeDialer
<1>4. NoCur \in CurRec
  BY DEF NoCur
(* A step that changes the program counter only. *)
<1>5. ASSUME NEW pc \in DialerPC \ {"resolve", "write"},
             dialer' = [dialer EXCEPT ![s] = pc], UNCHANGED cur
      PROVE  TypeDialer'
  <2>1. cur' = [cur EXCEPT ![s] = cur[s]]
    BY <1>5 DEF TypeOK, TypeDialer
  <2> QED BY <1>2, <1>3, <1>5, <2>1, DialerSet DEF TypeOK
(* A step that ends the handling of the packet in hand. *)
<1>6. ASSUME dialer' = [dialer EXCEPT ![s] = "process"],
             cur' = [cur EXCEPT ![s] = NoCur]
      PROVE  TypeDialer'
  BY <1>2, <1>3, <1>4, <1>6, DialerSet DEF TypeOK, DialerPC
<1>7. /\ AfterDial["dial"] = "cancel" /\ AfterDial["cancel"] = "drain"
      /\ AfterDial["drain"] = "delete" /\ AfterDial["delete"] = "end"
  BY DEF AfterDial
<1>8. {"process", "cancel", "drain", "delete", "end"} \subseteq DialerPC \ {"resolve", "write"}
  BY DEF DialerPC
<1>9. CASE DialOK(s)
  <2>1. PICK target \in IPs \cup {NoIP} : AddMapping(s, pkt[s].dst, target)
    BY <1>2, <1>3, <1>9, TargetType DEF DialOK
  <2>2. TypeMap'
    BY <1>2, <1>3, <2>1, MapSet DEF TypeOK
  <2>3. TypeDialer'
    BY <1>5, <1>8, <1>9 DEF DialOK
  <2>4. /\ conn' \in [Packets -> {"none", "open", "closed"}]
        /\ local' \in [Packets -> SUBSET IPs]
    BY <1>9 DEF DialOK, TypeOK, TypeReader
  <2>5. TypeReader'
    BY <1>2, <1>3, <1>9, <2>4, ReaderSet DEF DialOK, TypeOK, ReaderPC
  <2> QED BY <1>2, <1>9, <2>2, <2>3, <2>5, SameType DEF DialOK, TypeOK
<1>10. CASE DialFail(s)
  <2>1. TypeDialer'
    BY <1>5, <1>7, <1>8, <1>10 DEF DialFail, DialerStep
  <2> QED BY <1>2, <1>10, <2>1, SameType DEF DialFail, TypeOK
<1>11. CASE DialerCancel(s)
  <2>1. TypeDialer'
    BY <1>5, <1>7, <1>8, <1>11 DEF DialerCancel, DialerStep
  <2>2. TypeSender'
    BY <1>2, <1>11, DoneSet DEF DialerCancel, TypeOK
  <2> QED BY <1>2, <1>11, <2>1, <2>2, SameType DEF DialerCancel, TypeOK
<1>12. CASE DialerDropAll(s)
  <2>1. CASE DropOne(s) /\ UNCHANGED dialer
    <3>1. TypeSender' /\ TypeHistory'
      BY <1>2, <1>12, <2>1, DropOneType DEF DialerDropAll, TypeOK
    <3> QED BY <1>2, <1>12, <2>1, <3>1, SameType DEF DialerDropAll, TypeOK
  <2>2. CASE DialerStep(s, "drain") /\ UNCHANGED <<ch, drops>>
    <3>1. TypeDialer'
      BY <1>5, <1>7, <1>8, <1>12, <2>2 DEF DialerDropAll, DialerStep
    <3> QED BY <1>2, <1>12, <2>2, <3>1, SameType DEF DialerDropAll, TypeOK
  <2> QED BY <1>12, <2>1, <2>2 DEF DialerDropAll
<1>13. CASE DialerDelete(s)
  <2>1. TypeDialer'
    BY <1>5, <1>7, <1>8, <1>13 DEF DialerDelete, DialerStep
  <2>2. TypeNat'
    BY <1>2, <1>13 DEF DialerDelete, Delete, TypeOK, TypeNat
  <2> QED BY <1>2, <1>13, <2>1, <2>2, SameType DEF DialerDelete, TypeOK
<1>14. CASE ProcessReturn(s)
  <2>1. TypeDialer'
    BY <1>5, <1>8, <1>14 DEF ProcessReturn
  <2> QED BY <1>2, <1>14, <2>1, SameType DEF ProcessReturn, TypeOK
<1>15. CASE ProcessReceive(s)
  <2> DEFINE p == Head(ch[s])
             target == o2t[s][pkt[p].dst]
             c == [pkt |-> p, to |-> target]
             pc == IF target # NoIP THEN "write" ELSE "resolve"
  <2>1. ch[s] \in Seq(Arrived) /\ Len(ch[s]) <= SenderCapacity /\ ch[s] # <<>>
    BY <1>15 DEF ProcessReceive, TypeOK, TypeSender
  <2>2. /\ p \in Arrived /\ Tail(ch[s]) \in Seq(Arrived)
        /\ Len(Tail(ch[s])) <= SenderCapacity
    BY <2>1, SeqOps, TunnelAssumption
  <2>3. TypeSender'
    BY <1>2, <1>15, <2>2, ChanSet DEF ProcessReceive, TypeOK
  <2>4. target \in IPs \cup {NoIP}
    BY <1>2, <2>2 DEF TypeOK, TypeMap
  <2>5. c \in CurRec /\ c.pkt # None /\ pc \in DialerPC /\ (pc = "write" => c.to # NoIP)
    BY <1>2, <2>2, <2>4 DEF DialerPC
  <2>6. dialer' = [dialer EXCEPT ![s] = pc] /\ cur' = [cur EXCEPT ![s] = c]
    BY <1>15 DEF ProcessReceive
  <2>7. TypeDialer'
    <3> HIDE DEF c, pc
    <3> QED BY <1>2, <1>3, <2>5, <2>6, DialerSet DEF TypeOK
  <2> QED BY <1>2, <1>15, <2>3, <2>7, SameType DEF ProcessReceive, TypeOK
<1>16. CASE ProcessResolve(s)
  <2> DEFINE p == cur[s].pkt
             d == pkt[p].dst
  <2>1. p \in Arrived /\ d \in Dsts
    BY <1>2, <1>3, <1>16 DEF ProcessResolve, TypeOK, TypeDialer
  <2>2. CASE \E target \in ResolvedTo(d, fakeRec) \ {NoIP} :
                /\ AddMapping(s, d, target)
                /\ cur' = [cur EXCEPT ![s].to = target]
                /\ dialer' = [dialer EXCEPT ![s] = "write"]
                /\ UNCHANGED drops
    <3>1. PICK target \in IPs :
                /\ AddMapping(s, d, target)
                /\ cur' = [cur EXCEPT ![s].to = target]
                /\ dialer' = [dialer EXCEPT ![s] = "write"]
                /\ UNCHANGED drops
                /\ target # NoIP
      BY <2>1, <2>2, TargetType
    <3>2. TypeMap'
      BY <2>1, <3>1, MapSet DEF TypeOK
    <3> DEFINE c == [cur[s] EXCEPT !.to = target]
    <3>3. c \in CurRec /\ c.pkt # None /\ c.to # NoIP
      BY <1>2, <1>3, <2>1, <3>1
    <3>4. cur' = [cur EXCEPT ![s] = c]
      BY <3>1 DEF TypeOK, TypeDialer
    <3>5. TypeDialer'
      <4> HIDE DEF c
      <4> QED BY <1>2, <1>3, <3>1, <3>3, <3>4, DialerSet DEF TypeOK, DialerPC
    <3> QED BY <1>2, <1>16, <3>1, <3>2, <3>5, SameType DEF ProcessResolve, TypeOK
  <2>3. CASE /\ Drop(p)
             /\ cur' = [cur EXCEPT ![s] = NoCur]
             /\ dialer' = [dialer EXCEPT ![s] = "process"]
             /\ UNCHANGED mapVars
    <3>1. TypeHistory'
      BY <1>2, <1>16, <2>1, <2>3, DropType DEF ProcessResolve, TypeOK
    <3> QED BY <1>2, <1>6, <1>16, <2>3, <3>1, SameType DEF ProcessResolve, TypeOK
  <2> QED BY <1>16, <2>2, <2>3 DEF ProcessResolve
<1>17. CASE ProcessWrite(s)
  <2> DEFINE p == cur[s].pkt
             R == [pkt : Arrived, sess : Arrived, to : IPs]
             r == [pkt |-> p, sess |-> s, to |-> cur[s].to]
  <2>1. p \in Arrived /\ r \in R
    BY <1>2, <1>3, <1>17 DEF ProcessWrite, TypeOK, TypeDialer
  <2>2. sent \in [Keys -> Seq(R)] /\ drops \in [Packets -> Nat]
    BY DEF TypeOK, TypeHistory
  <2>3. sent' = sent \/ sent' = [sent EXCEPT ![KeyOf(s)] = Append(@, r)]
    BY <1>17 DEF ProcessWrite
  <2>4. sent' \in [Keys -> Seq(R)]
    <3> HIDE DEF R, r
    <3>1. KeyOf(s) \in Keys
      BY <1>2, <1>3 DEF KeyOf
    <3>2. Append(sent[KeyOf(s)], r) \in Seq(R)
      BY <2>1, <2>2, <3>1, SeqOps
    <3> QED BY <2>2, <2>3, <3>2
  <2>5. drops[p] + 1 \in Nat
    BY <1>2, <2>1, <2>2
  <2>6. drops' \in [Packets -> Nat]
    BY <1>17, <2>2, <2>5 DEF ProcessWrite, Drop
  <2>7. TypeHistory'
    BY <1>2, <2>4, <2>6 DEF TypeHistory
  <2>8. TypeDialer'
    BY <1>6, <1>17 DEF ProcessWrite
  <2> QED BY <1>2, <1>17, <2>7, <2>8, SameType DEF ProcessWrite, TypeOK
<1> QED BY <1>9, <1>10, <1>11, <1>12, <1>13, <1>14, <1>15, <1>16, <1>17
        DEF DialerNext, Dial, Process

LEMMA ReaderType ==
    ASSUME TypeOK, NEW s \in Packets, ReaderNext(s)
    PROVE  TypeOK'
<1> USE DEF inVars, mapVars
<1>1. UNCHANGED pkt /\ reader[s] # "none"
  BY DEF ReaderNext, ReadReply, ReadFail, ReaderCleanup, ReaderStep, ReaderCancel,
         ReaderDropAll, ReaderCloseConn, ReaderCloseLocal, ReaderDelete
<1>2. /\ Arrived' = Arrived /\ Arrived \subseteq Packets /\ None \notin Arrived
      /\ \A p \in Arrived : pkt[p].key \in Keys
  BY <1>1, ArrivedFacts DEF TypeOK
<1>3. s \in Arrived /\ KeyOf(s) \in Keys
  BY <1>1, <1>2 DEF TypeOK, TypeReader, KeyOf
<1>4. /\ reader \in [Packets -> ReaderPC]
      /\ conn \in [Packets -> {"none", "open", "closed"}]
      /\ local \in [Packets -> SUBSET IPs]
      /\ natTable[KeyOf(s)] \in Arrived \cup {None}
  BY <1>3 DEF TypeOK, TypeReader, TypeNat
(* The reader moves on, whatever it does to its sockets. *)
<1>5. ASSUME NEW pc \in {"read", "cancel", "drain", "closeConn", "closeLocal", "delete"},
             ReaderStep(s, pc),
             conn' \in [Packets -> {"none", "open", "closed"}],
             local' \in [Packets -> SUBSET IPs]
      PROVE  TypeReader'
  <2>1. AfterRead[pc] \in ReaderPC
    BY <1>5 DEF AfterRead, ReaderPC
  <2> QED BY <1>2, <1>3, <1>5, <2>1, ReaderSet DEF ReaderStep, TypeOK
<1>6. ASSUME NEW from \in IPs \cup {NoIP}, ReadReply(s, from)
      PROVE  TypeOK'
  <2> DEFINE shown == RestoreReadFrom(t2o[s], from)
             e == natTable[KeyOf(s)]
  <2>1. shown \in IPs \cup {NoIP}
    BY <1>6 DEF RestoreReadFrom, TypeOK, TypeMap
  <2>2. local' \in [Packets -> SUBSET IPs]
    <3>1. CASE e = None \/ shown = NoIP
      BY <1>4, <1>6, <3>1 DEF ReadReply, OpenLocal
    <3>2. CASE e # None /\ shown # NoIP
      <4>1. e \in Packets /\ local[e] \cup {shown} \in SUBSET IPs
        BY <1>2, <1>4, <2>1, <3>2
      <4>2. local' = local \/ local' = [local EXCEPT ![e] = local[e] \cup {shown}]
        BY <1>6, <3>2 DEF ReadReply, OpenLocal
      <4> QED BY <1>4, <4>1, <4>2
    <3> QED BY <3>1, <3>2
  <2>3. TypeReader'
    <3>1. CASE ReaderStep(s, "read")
      BY <1>4, <1>5, <1>6, <2>2, <3>1 DEF ReadReply, OpenLocal
    <3>2. CASE UNCHANGED reader
      BY <1>2, <1>4, <1>6, <2>2, <3>2 DEF ReadReply, OpenLocal, TypeOK, TypeReader
    <3> QED BY <1>6, <3>1, <3>2 DEF ReadReply, OpenLocal
  <2> QED BY <1>2, <1>6, <2>3, SameType DEF ReadReply, OpenLocal, TypeOK
<1>7. CASE ReadFail(s)
  <2>1. TypeReader'
    BY <1>4, <1>5, <1>7 DEF ReadFail
  <2> QED BY <1>2, <1>7, <2>1, SameType DEF ReadFail, TypeOK
<1>8. CASE ReaderCancel(s)
  <2>1. TypeReader'
    BY <1>4, <1>5, <1>8 DEF ReaderCancel
  <2>2. TypeSender'
    BY <1>2, <1>8, DoneSet DEF ReaderCancel, TypeOK
  <2> QED BY <1>2, <1>8, <2>1, <2>2, SameType DEF ReaderCancel, TypeOK
<1>9. CASE ReaderDropAll(s)
  <2>1. CASE DropOne(s) /\ UNCHANGED reader
    <3>1. TypeSender' /\ TypeHistory'
      BY <1>2, <1>9, <2>1, DropOneType DEF ReaderDropAll, TypeOK
    <3> QED BY <1>2, <1>9, <2>1, <3>1, SameType DEF ReaderDropAll, TypeOK
  <2>2. CASE ReaderStep(s, "drain") /\ UNCHANGED <<ch, drops>>
    <3>1. TypeReader'
      BY <1>4, <1>5, <1>9, <2>2 DEF ReaderDropAll
    <3> QED BY <1>2, <1>9, <2>2, <3>1, SameType DEF ReaderDropAll, TypeOK
  <2> QED BY <1>9, <2>1, <2>2 DEF ReaderDropAll
<1>10. CASE ReaderCloseConn(s)
  <2>1. TypeReader'
    BY <1>4, <1>5, <1>10 DEF ReaderCloseConn
  <2> QED BY <1>2, <1>10, <2>1, SameType DEF ReaderCloseConn, TypeOK
<1>11. CASE ReaderCloseLocal(s)
  <2>1. local' \in [Packets -> SUBSET IPs]
    BY <1>2, <1>4, <1>11 DEF ReaderCloseLocal
  <2>2. TypeReader'
    BY <1>4, <1>5, <1>11, <2>1 DEF ReaderCloseLocal
  <2> QED BY <1>2, <1>11, <2>2, SameType DEF ReaderCloseLocal, TypeOK
<1>12. CASE ReaderDelete(s)
  <2>1. TypeReader'
    BY <1>4, <1>5, <1>12 DEF ReaderDelete
  <2>2. TypeNat'
    BY <1>2, <1>3, <1>12 DEF ReaderDelete, Delete, TypeOK, TypeNat
  <2> QED BY <1>2, <1>12, <2>1, <2>2, SameType DEF ReaderDelete, TypeOK
<1> QED BY <1>6, <1>7, <1>8, <1>9, <1>10, <1>11, <1>12 DEF ReaderNext, ReaderCleanup

(* The unchanged state keeps its types. *)
LEMMA StutterType == TypeOK /\ UNCHANGED vars => TypeOK'
<1> SUFFICES ASSUME TypeOK, UNCHANGED vars PROVE TypeOK'
  OBVIOUS
<1>1. Arrived' = Arrived
  BY DEF vars, inVars, Arrived
<1> QED BY <1>1, SameType DEF TypeOK, vars, inVars, mapVars

(***************************************************************************)
(* Type correctness of the UDP path: channels stay within their capacities *)
(* and every packet and session in hand is one that arrived.               *)
(***************************************************************************)
THEOREM TypeCorrect == Spec => []TypeOK
<1>1. Init => TypeOK
  BY InitType
<1>2. TypeOK /\ [Next]_vars => TypeOK'
  BY EnvironmentType, WorkerType, DialerType, ReaderType, StutterType DEF Next
<1> QED BY <1>1, <1>2, PTL DEF Spec

-----------------------------------------------------------------------------
(***************************************************************************)
(* The life of a session.  SessionsInv is inductive together with TypeOK.  *)
(***************************************************************************)

(* The state of a session that SessionInv is about, and its key. *)
Frame(t) ==
    /\ dialer'[t] = dialer[t] /\ reader'[t] = reader[t] /\ conn'[t] = conn[t]
    /\ local'[t] = local[t] /\ (done[t] => done'[t])

(* A step that leaves a session and the entry of its key alone. *)
LEMMA SessionFrame ==
    ASSUME NEW t \in Packets, SessionInv(t), Frame(t),
           Live(t) => natTable'[KeyOf(t)'] = natTable[KeyOf(t)]
    PROVE  SessionInv(t)'
  BY DEF SessionInv, Frame, Live

LEMMA SessionsInit == Init => SessionsInv
  BY DEF Init, SessionsInv, SessionInv, Live

LEMMA SessionsEnvironment ==
    ASSUME TypeOK, SessionsInv, Environment
    PROVE  SessionsInv'
<1> SUFFICES ASSUME NEW t \in Packets PROVE SessionInv(t)'
  BY DEF SessionsInv
<1>1. SessionInv(t)
  BY DEF SessionsInv
<1>2. Frame(t) /\ UNCHANGED natTable
  BY DEF Environment, ApplyConfig, FakeRecordEvicted, HandleUDPPacket, Frame
<1>3. Live(t) => t \in Arrived
  BY DEF TypeOK, TypeDialer, TypeReader, Live
<1>4. t \in Arrived => pkt'[t] = pkt[t]
  <2>1. UNCHANGED pkt \/ \E m \in Metadata : pkt' = Append(pkt, m)
    BY DEF Environment, ApplyConfig, FakeRecordEvicted, HandleUDPPacket, Metadata
  <2> QED BY <2>1 DEF TypeOK, TypeIn, Arrived
<1> QED BY <1>1, <1>2, <1>3, <1>4, SessionFrame DEF KeyOf

LEMMA SessionsWorker ==
    ASSUME TypeOK, SessionsInv, NEW w \in Workers, WorkerNext(w)
    PROVE  SessionsInv'
<1> USE DEF inVars, mapVars
<1> SUFFICES ASSUME NEW t \in Packets PROVE SessionInv(t)'
  BY DEF SessionsInv
<1>1. SessionInv(t)
  BY DEF SessionsInv
<1>2. CASE processUDP(w) \/ SendCheck(w) \/ SendPut(w)
  <2>1. Frame(t) /\ UNCHANGED <<natTable, pkt>>
    BY <1>2 DEF processUDP, SendCheck, SendPut, Frame
  <2> QED BY <1>1, <2>1, SessionFrame DEF KeyOf
<1>3. CASE GetOrCreate(w)
  <2> DEFINE p == worker[w].pkt
             k == KeyOf(p)
  <2>1. CASE UNCHANGED <<natTable, dialer>>
    <3>1. Frame(t) /\ UNCHANGED <<natTable, pkt>>
      BY <1>3, <2>1 DEF GetOrCreate, Frame
    <3> QED BY <1>1, <3>1, SessionFrame DEF KeyOf
  <2>2. CASE /\ natTable[k] = None
             /\ natTable' = [natTable EXCEPT ![k] = p]
             /\ dialer' = [dialer EXCEPT ![p] = "dial"]
    <3>1. /\ p \in Arrived /\ p \in Packets /\ k \in Keys
          /\ None \notin Packets /\ UNCHANGED <<pkt, reader, conn, local, done>>
      BY <1>3, ArrivedFacts, TunnelAssumption
      DEF GetOrCreate, TypeOK, TypeWorker, KeyOf, Packets
    <3>2. dialer \in [Packets -> DialerPC] /\ natTable \in [Keys -> Arrived \cup {None}]
      BY DEF TypeOK, TypeDialer, TypeNat
    <3>3. CASE t = p
      <4>1. ~Live(t)
        BY <1>1, <2>2, <3>1, <3>3 DEF SessionInv
      <4>2. dialer'[t] = "dial" /\ natTable'[KeyOf(t)'] = t
        BY <2>2, <3>1, <3>2, <3>3 DEF KeyOf
      <4>3. reader[t] \in {"none", "end"}
        BY <4>1 DEF Live, TypeOK, TypeReader
      <4> QED BY <1>1, <3>1, <4>2, <4>3 DEF SessionInv, Live
    <3>4. CASE t # p
      <4>1. Frame(t)
        BY <2>2, <3>1, <3>2, <3>4 DEF Frame
      <4>2. Live(t) => KeyOf(t) # k
        BY <1>1, <2>2, <3>1 DEF SessionInv
      <4>3. Live(t) => natTable'[KeyOf(t)'] = natTable[KeyOf(t)]
        <5>1. Live(t) => KeyOf(t) \in Keys
          BY ArrivedFacts DEF TypeOK, TypeDialer, TypeReader, Live, KeyOf
        <5> QED BY <2>2, <3>1, <3>2, <4>2, <5>1 DEF KeyOf
      <4> QED BY <1>1, <4>1, <4>3, SessionFrame
    <3> QED BY <3>3, <3>4
  <2> QED BY <1>3, <2>1, <2>2 DEF GetOrCreate
<1> QED BY <1>2, <1>3 DEF WorkerNext

(* Delete by a live session frees its own entry and no other live one. *)
LEMMA DeleteOwn ==
    ASSUME TypeOK, SessionsInv, NEW s \in Packets, Live(s), Delete(s),
           NEW t \in Packets, t # s, UNCHANGED pkt
    PROVE  Live(t) => natTable'[KeyOf(t)'] = natTable[KeyOf(t)]
<1> SUFFICES ASSUME Live(t) PROVE natTable'[KeyOf(t)'] = natTable[KeyOf(t)]
  OBVIOUS
<1>1. natTable[KeyOf(s)] = s /\ natTable[KeyOf(t)] = t
  BY DEF SessionsInv, SessionInv
<1>2. KeyOf(t) \in Keys
  BY ArrivedFacts DEF TypeOK, TypeDialer, TypeReader, Live, KeyOf
<1> QED BY <1>1, <1>2 DEF Delete, KeyOf, TypeOK, TypeNat

LEMMA SessionsDialer ==
    ASSUME TypeOK, SessionsInv, NEW s \in Packets, DialerNext(s)
    PROVE  SessionsInv'
<1> USE DEF inVars, mapVars
<1> SUFFICES ASSUME NEW t \in Packets PROVE SessionInv(t)'
  BY DEF SessionsInv
<1>1. SessionInv(t) /\ SessionInv(s)
  BY DEF SessionsInv
<1>2. /\ dialer \in [Packets -> DialerPC] /\ reader \in [Packets -> ReaderPC]
      /\ done \in [Packets -> BOOLEAN] /\ conn \in [Packets -> {"none", "open", "closed"}]
  BY DEF TypeOK, TypeDialer, TypeReader, TypeSender
<1>3. UNCHANGED <<pkt, local>>
  BY DEF DialerNext, Dial, Process, DialOK, DialFail, DialerCancel, DialerDropAll,
         DialerDelete, ProcessReturn, ProcessReceive, ProcessResolve, ProcessWrite
<1>4. CASE t # s
  <2>1. Frame(t)
    BY <1>2, <1>4 DEF DialerNext, Dial, Process, DialOK, DialFail, DialerCancel,
         DialerDropAll, DialerDelete, DialerStep, ProcessReturn, ProcessReceive,
         ProcessResolve, ProcessWrite, Frame
  <2>2. UNCHANGED natTable \/ (Live(s) /\ Delete(s))
    BY DEF DialerNext, Dial, Process, DialOK, DialFail, DialerCancel,
         DialerDropAll, DialerDelete, DialerStep, ProcessReturn, ProcessReceive,
         ProcessResolve, ProcessWrite, Live
  <2>3. Live(t) => natTable'[KeyOf(t)'] = natTable[KeyOf(t)]
    BY <1>3, <1>4, <2>2, DeleteOwn DEF KeyOf
  <2> QED BY <1>1, <2>1, <2>3, SessionFrame
<1>5. CASE t = s
  <2>1. CASE DialOK(s)
    <3>1. dialer'[s] = "process" /\ reader'[s] = "read" /\ conn'[s] = "open"
      BY <1>2, <2>1 DEF DialOK
    <3>2. Live(s) /\ UNCHANGED <<natTable, done>>
      BY <2>1 DEF DialOK, Live
    <3> QED BY <1>1, <1>3, <1>5, <3>1, <3>2 DEF SessionInv, Live, KeyOf
  <2>2. CASE DialFail(s) \/ DialerCancel(s) \/ DialerDropAll(s)
    <3>1. /\ dialer[s] \in {"dial", "cancel", "drain"}
          /\ dialer'[s] \in {"cancel", "drain", "delete"}
          /\ dialer'[s] \in {"drain", "delete"} => done'[s]
      BY <1>1, <1>2, <2>2 DEF DialFail, DialerCancel, DialerDropAll, DialerStep,
         AfterDial, SessionInv
    <3>2. done[s] => done'[s]
      BY <1>2, <2>2 DEF DialFail, DialerCancel, DialerDropAll
    <3>3. UNCHANGED <<reader, conn, natTable>>
      BY <2>2 DEF DialFail, DialerCancel, DialerDropAll
    <3> QED BY <1>1, <1>3, <1>5, <3>1, <3>2, <3>3 DEF SessionInv, Live, KeyOf
  <2>3. CASE DialerDelete(s)
    <3>1. dialer[s] = "delete" /\ dialer'[s] = "end" /\ UNCHANGED <<reader, conn, done>>
      BY <1>2, <2>3 DEF DialerDelete, DialerStep, AfterDial
    <3> QED BY <1>1, <1>3, <1>5, <3>1 DEF SessionInv, Live
  <2>4. CASE Process(s)
    <3>1. /\ dialer[s] \in {"process", "resolve", "write"}
          /\ dialer'[s] \in {"process", "resolve", "write", "end"}
          /\ UNCHANGED <<reader, conn, done, natTable>>
      BY <1>2, <2>4 DEF Process, ProcessReturn, ProcessReceive, ProcessResolve,
         ProcessWrite
    <3> QED BY <1>1, <1>3, <1>5, <3>1 DEF SessionInv, Live, KeyOf
  <2> QED BY <2>1, <2>2, <2>3, <2>4 DEF DialerNext, Dial
<1> QED BY <1>4, <1>5

LEMMA SessionsReader ==
    ASSUME TypeOK, SessionsInv, NEW s \in Packets, ReaderNext(s)
    PROVE  SessionsInv'
<1> USE DEF inVars, mapVars
<1> SUFFICES ASSUME NEW t \in Packets PROVE SessionInv(t)'
  BY DEF SessionsInv
<1>1. SessionInv(t) /\ SessionInv(s)
  BY DEF SessionsInv
<1>2. /\ dialer \in [Packets -> DialerPC] /\ reader \in [Packets -> ReaderPC]
      /\ done \in [Packets -> BOOLEAN] /\ conn \in [Packets -> {"none", "open", "closed"}]
      /\ local \in [Packets -> SUBSET IPs]
  BY DEF TypeOK, TypeDialer, TypeReader, TypeSender
<1>3. UNCHANGED <<pkt, dialer>>
  BY DEF ReaderNext, ReadReply, ReadFail, ReaderCleanup, ReaderCancel, ReaderDropAll,
         ReaderCloseConn, ReaderCloseLocal, ReaderDelete
<1>4. Live(s)
  BY DEF ReaderNext, ReadReply, ReadFail, ReaderCleanup, ReaderStep, ReaderCancel,
         ReaderDropAll, ReaderCloseConn, ReaderCloseLocal, ReaderDelete, Live, ReaderPC
<1>5. natTable[KeyOf(s)] = s /\ s # None
  BY <1>1, <1>4, TunnelAssumption DEF SessionInv, Packets
<1>6. \A r \in Packets : r # s => local'[r] = local[r]
  BY <1>2, <1>5 DEF ReaderNext, ReadReply, OpenLocal, ReadFail, ReaderCleanup, ReaderCancel,
         ReaderDropAll, ReaderCloseConn, ReaderCloseLocal, ReaderDelete
<1>7. CASE t # s
  <2>1. Frame(t)
    BY <1>2, <1>3, <1>6, <1>7 DEF ReaderNext, ReadReply, OpenLocal, ReadFail, ReaderCleanup,
         ReaderStep, ReaderCancel, ReaderDropAll, ReaderCloseConn, ReaderCloseLocal,
         ReaderDelete, Frame
  <2>2. UNCHANGED natTable \/ Delete(s)
    BY DEF ReaderNext, ReadReply, OpenLocal, ReadFail, ReaderCleanup, ReaderCancel, ReaderDropAll,
         ReaderCloseConn, ReaderCloseLocal, ReaderDelete
  <2>3. Live(t) => natTable'[KeyOf(t)'] = natTable[KeyOf(t)]
    BY <1>3, <1>4, <1>7, <2>2, DeleteOwn DEF KeyOf
  <2> QED BY <1>1, <2>1, <2>3, SessionFrame
<1>8. CASE t = s
  <2>1. CASE ReadFail(s) \/ \E from \in IPs \cup {NoIP} : ReadReply(s, from)
    <3>1. /\ reader[s] = "read" /\ reader'[s] \in {"read", "cancel"}
          /\ UNCHANGED <<natTable, done, conn>>
      BY <1>2, <2>1 DEF ReadFail, ReadReply, ReaderStep, AfterRead
    <3> QED BY <1>1, <1>3, <1>8, <3>1 DEF SessionInv, Live, KeyOf, ReaderPC
  <2>2. CASE ReaderCancel(s) \/ ReaderDropAll(s)
    <3>1. /\ reader[s] \in {"cancel", "drain"}
          /\ reader'[s] \in {"drain", "closeConn"} /\ done'[s]
          /\ UNCHANGED <<natTable, conn, local>>
      BY <1>1, <1>2, <2>2 DEF ReaderCancel, ReaderDropAll, ReaderStep, AfterRead,
         SessionInv
    <3> QED BY <1>1, <1>3, <1>8, <3>1 DEF SessionInv, Live, KeyOf, ReaderPC
  <2>3. CASE ReaderCloseConn(s)
    <3>1. /\ reader[s] = "closeConn" /\ reader'[s] = "closeLocal" /\ conn'[s] = "closed"
          /\ UNCHANGED <<natTable, done, local>>
      BY <1>2, <2>3 DEF ReaderCloseConn, ReaderStep, AfterRead
    <3> QED BY <1>1, <1>3, <1>8, <3>1 DEF SessionInv, Live, KeyOf, ReaderPC
  <2>4. CASE ReaderCloseLocal(s)
    <3>1. /\ reader[s] = "closeLocal" /\ reader'[s] = "delete" /\ local'[s] = {}
          /\ UNCHANGED <<natTable, done, conn>>
      BY <1>2, <1>5, <2>4 DEF ReaderCloseLocal, ReaderStep, AfterRead
    <3> QED BY <1>1, <1>3, <1>8, <3>1 DEF SessionInv, Live, KeyOf, ReaderPC
  <2>5. CASE ReaderDelete(s)
    <3>1. /\ reader[s] = "delete" /\ reader'[s] = "end"
          /\ UNCHANGED <<done, conn, local>>
      BY <1>2, <2>5 DEF ReaderDelete, ReaderStep, AfterRead
    <3> QED BY <1>1, <1>3, <1>8, <3>1 DEF SessionInv, Live, ReaderPC
  <2> QED BY <2>1, <2>2, <2>3, <2>4, <2>5 DEF ReaderNext, ReaderCleanup
<1> QED BY <1>7, <1>8

LEMMA SessionsStutter == SessionsInv /\ UNCHANGED vars => SessionsInv'
  BY DEF SessionsInv, SessionInv, Live, KeyOf, vars, inVars, mapVars

(* The inductive invariant of the session life cycle. *)
THEOREM SessionsCorrect == Spec => [](TypeOK /\ SessionsInv)
<1>1. Init => TypeOK /\ SessionsInv
  BY InitType, SessionsInit
<1>2. TypeOK /\ SessionsInv /\ [Next]_vars => SessionsInv'
  BY SessionsEnvironment, SessionsWorker, SessionsDialer, SessionsReader,
     SessionsStutter DEF Next
<1> QED BY <1>1, <1>2, TypeCorrect, PTL DEF Spec

(***************************************************************************)
(* natTable.Delete is called with a key by whichever goroutine of a        *)
(* session cleans up; it never removes the entry of another session.       *)
(***************************************************************************)
THEOREM Registered == Spec => []LiveIsRegistered
<1>1. SessionsInv => LiveIsRegistered
  BY DEF SessionsInv, SessionInv, LiveIsRegistered
<1> QED BY <1>1, SessionsCorrect, PTL

(* A client address never has two open outbound connections. *)
THEOREM OneConn == Spec => []OneConnPerKey
<1>1. TypeOK /\ SessionsInv => OneConnPerKey
  <2> SUFFICES ASSUME TypeOK, SessionsInv, NEW s \in Arrived, NEW t \in Arrived,
                      conn[s] = "open", conn[t] = "open", KeyOf(s) = KeyOf(t)
               PROVE  s = t
    BY DEF OneConnPerKey
  <2>1. s \in Packets /\ t \in Packets
    BY ArrivedFacts DEF TypeOK
  <2>2. Live(s) /\ Live(t)
    BY <2>1 DEF SessionsInv, SessionInv, Live, ReaderPC
  <2> QED BY <2>1, <2>2 DEF SessionsInv, SessionInv
<1> QED BY <1>1, SessionsCorrect, PTL

(* No TPROXY socket outlives the session whose reader opened it. *)
THEOREM LocalsClosed == Spec => []LocalConnsClosed
<1>1. SessionsInv => LocalConnsClosed
  BY DEF SessionsInv, SessionInv, LocalConnsClosed
<1> QED BY <1>1, SessionsCorrect, PTL

(***************************************************************************)
(* An entry leaves the NAT table only once its sender is cancelled and its *)
(* outbound connection, if any, is closed.                                 *)
(***************************************************************************)
THEOREM RemovedClosed == Spec => RemovedAfterClose
<1>1. TypeOK /\ SessionsInv /\ [Next]_vars => [RemovalClosed]_vars
  <2> USE DEF inVars, mapVars
  <2> SUFFICES ASSUME TypeOK, SessionsInv, Next PROVE RemovalClosed
    OBVIOUS
  <2>1. CASE UNCHANGED natTable
    BY <2>1 DEF RemovalClosed
  <2>2. ASSUME NEW w \in Workers, WorkerNext(w) PROVE RemovalClosed
    <3>1. CASE UNCHANGED natTable
      BY <3>1 DEF RemovalClosed
    <3>2. CASE GetOrCreate(w)
      BY <3>2 DEF GetOrCreate, RemovalClosed, TypeOK, TypeNat
    <3> QED BY <2>2, <3>1, <3>2 DEF WorkerNext, processUDP, SendCheck, SendPut
  <2>3. ASSUME NEW s \in Packets, DialerNext(s) \/ ReaderNext(s),
               ~UNCHANGED natTable
        PROVE  RemovalClosed
    <3>1. Delete(s) /\ (dialer[s] = "delete" \/ reader[s] = "delete")
      BY <2>3 DEF DialerNext, Dial, Process, DialOK, DialFail, DialerCancel,
         DialerDropAll, DialerDelete, DialerStep, ProcessReturn, ProcessReceive,
         ProcessResolve, ProcessWrite, ReaderNext, ReadReply, ReadFail,
         ReaderCleanup, ReaderCancel, ReaderDropAll, ReaderCloseConn,
         ReaderCloseLocal, ReaderDelete, ReaderStep
    <3>2. SessionInv(s)
      BY DEF SessionsInv
    <3>3. natTable[KeyOf(s)] = s /\ done[s] /\ conn[s] # "open"
      BY <3>1, <3>2 DEF SessionInv, Live, ReaderPC
    <3> QED BY <3>1, <3>3 DEF Delete, RemovalClosed, TypeOK, TypeNat
  <2> QED BY <2>1, <2>2, <2>3 DEF Next, Environment, ApplyConfig,
          FakeRecordEvicted, HandleUDPPacket
<1> QED BY <1>1, SessionsCorrect, PTL DEF Spec, RemovedAfterClose
=============================================================================
