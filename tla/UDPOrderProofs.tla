--------------------------- MODULE UDPOrderProofs ---------------------------
(***************************************************************************)
(* Theorems about the packets of UDPTunnel, for every number of packets,   *)
(* keys, workers and addresses: who owns a packet, in which order packets  *)
(* leave, and which addresses they and their replies are given.            *)
(***************************************************************************)
EXTENDS UDPTunnelProofs, FiniteSetTheorems

-----------------------------------------------------------------------------
(* Sequences of packet numbers. *)

Increasing(q) == \A i, j \in 1..Len(q) : i < j => q[i] < q[j]

LEMMA ElemsEmpty == Elems(<<>>) = {} /\ Increasing(<<>>)
  BY DEF Elems, Increasing

LEMMA ElemsAppend ==
    ASSUME NEW S, NEW q \in Seq(S), NEW p \in S
    PROVE  Elems(Append(q, p)) = Elems(q) \cup {p}
<1>1. Elems(Append(q, p)) \subseteq Elems(q) \cup {p}
  BY DEF Elems
<1>2. ASSUME NEW x \in Elems(q) PROVE x \in Elems(Append(q, p))
  <2>1. PICK i \in 1..Len(q) : x = q[i]
    BY DEF Elems
  <2>2. i \in 1..Len(Append(q, p)) /\ Append(q, p)[i] = x
    BY <2>1
  <2> QED BY <2>2 DEF Elems
<1>3. p \in Elems(Append(q, p))
  <2>1. Len(q) + 1 \in 1..Len(Append(q, p)) /\ Append(q, p)[Len(q) + 1] = p
    OBVIOUS
  <2> QED BY <2>1 DEF Elems
<1> QED BY <1>1, <1>2, <1>3

LEMMA IncreasingAppend ==
    ASSUME NEW S \in SUBSET Nat, NEW q \in Seq(S), NEW p \in S, Increasing(q),
           \A x \in Elems(q) : x < p
    PROVE  Increasing(Append(q, p))
<1> SUFFICES ASSUME NEW i \in 1..Len(Append(q, p)), NEW j \in 1..Len(Append(q, p)),
                    i < j
             PROVE  Append(q, p)[i] < Append(q, p)[j]
  BY DEF Increasing
<1>1. i \in 1..Len(q) /\ Append(q, p)[i] = q[i] /\ q[i] \in Elems(q)
  BY DEF Elems
<1>2. CASE j \in 1..Len(q)
  BY <1>1, <1>2 DEF Increasing
<1>3. CASE j = Len(q) + 1
  BY <1>1, <1>3
<1> QED BY <1>2, <1>3

LEMMA ElemsTail ==
    ASSUME NEW S \in SUBSET Nat, NEW q \in Seq(S), q # <<>>, Increasing(q)
    PROVE  /\ Head(q) \in Elems(q)
           /\ Elems(Tail(q)) = Elems(q) \ {Head(q)}
           /\ \A x \in Elems(Tail(q)) : Head(q) < x
           /\ Increasing(Tail(q))
<1>0. \A i \in 1..Len(q) : q[i] \in S
  OBVIOUS
<1>a. /\ Len(q) \in Nat \ {0} /\ Head(q) = q[1] /\ Tail(q) \in Seq(S)
      /\ Len(Tail(q)) = Len(q) - 1
  OBVIOUS
<1>b. \A i \in 1..Len(q) - 1 : Tail(q)[i] = q[i + 1]
  OBVIOUS
<1>1. /\ Len(q) \in Nat \ {0} /\ Head(q) = q[1] /\ Tail(q) \in Seq(S)
      /\ Len(Tail(q)) = Len(q) - 1
      /\ \A i \in 1..Len(q) - 1 : Tail(q)[i] = q[i + 1]
      /\ \A i \in 1..Len(q) : q[i] \in Nat
  BY <1>0, <1>a, <1>b
<1>2. Head(q) \in Elems(q)
  BY <1>1 DEF Elems
<1>3. ASSUME NEW x \in Elems(Tail(q)) PROVE x \in Elems(q) /\ Head(q) < x
  <2>1. PICK i \in 1..Len(q) - 1 : x = q[i + 1]
    BY <1>1 DEF Elems
  <2>2. i + 1 \in 1..Len(q) /\ 1 \in 1..Len(q) /\ 1 < i + 1
    BY <1>1
  <2> QED BY <1>1, <2>1, <2>2 DEF Elems, Increasing
<1>4. ASSUME NEW x \in Elems(q), x # Head(q) PROVE x \in Elems(Tail(q))
  <2>1. PICK i \in 1..Len(q) : x = q[i]
    BY DEF Elems
  <2>2. i - 1 \in 1..Len(Tail(q)) /\ Tail(q)[i - 1] = x
    BY <1>1, <1>4, <2>1
  <2> QED BY <2>2 DEF Elems
<1>5. \A x \in Elems(Tail(q)) : x # Head(q)
  BY <1>1, <1>3
<1>6. Increasing(Tail(q))
  <2> SUFFICES ASSUME NEW i \in 1..Len(q) - 1, NEW j \in 1..Len(q) - 1, i < j
               PROVE  q[i + 1] < q[j + 1]
    BY <1>1 DEF Increasing
  <2>1. i + 1 \in 1..Len(q) /\ j + 1 \in 1..Len(q) /\ i + 1 < j + 1
    BY <1>1
  <2> QED BY <2>1 DEF Increasing
<1> QED BY <1>2, <1>3, <1>4, <1>5, <1>6

LEMMA SeqElem ==
    ASSUME NEW S, NEW q \in Seq(S), NEW i \in 1..Len(q)
    PROVE  q[i] \in S
  OBVIOUS

LEMMA ElemsType ==
    ASSUME NEW S, NEW q \in Seq(S)
    PROVE  Elems(q) \subseteq S
  BY DEF Elems

(* A channel in increasing order holds no packet twice. *)
LEMMA IncreasingNoDup ==
    ASSUME NEW S \in SUBSET Nat, NEW q \in Seq(S), Increasing(q)
    PROVE  NoDup(q)
<1>0. Len(q) \in Nat /\ \A i \in 1..Len(q) : q[i] \in S
  OBVIOUS
<1>1. Len(q) \in Nat /\ \A i \in 1..Len(q) : q[i] \in Nat
  BY <1>0
<1>2. \A i, j \in 1..Len(q) : q[i] = q[j] => i = j
  BY <1>1 DEF Increasing
<1> DEFINE f == [i \in 1..Len(q) |-> q[i]]
<1>3. f \in Bijection(1..Len(q), Elems(q))
  BY <1>2 DEF Bijection, Injection, Surjection, IsInjective, Elems
<1>4. ExistsBijection(1..Len(q), Elems(q))
  BY <1>3 DEF ExistsBijection
<1> HIDE DEF f
<1> QED BY <1>1, <1>4, FS_CountingElements DEF NoDup

-----------------------------------------------------------------------------
(***************************************************************************)
(* What the goroutines of a session do to the packets it holds: nothing,   *)
(* drop the first one of the channel, receive it, or finish the packet in  *)
(* processPacket, which may have been written.                             *)
(***************************************************************************)
Rests(s) == /\ ch'[s] = ch[s] /\ cur'[s].pkt = cur[s].pkt
            /\ UNCHANGED <<drops, sent>>
Drains(s) == DropOne(s) /\ cur'[s] = cur[s] /\ UNCHANGED sent
Receives(s) ==
    /\ dialer[s] = "process" /\ ch[s] # <<>>
    /\ ch'[s] = Tail(ch[s])
    /\ cur'[s] = [pkt |-> Head(ch[s]), to |-> o2t[s][pkt[Head(ch[s])].dst]]
    /\ UNCHANGED <<drops, sent>>
Written(s) == [pkt |-> cur[s].pkt, sess |-> s, to |-> cur[s].to]
Finishes(s) ==
    /\ dialer[s] \in {"resolve", "write"}
    /\ ch'[s] = ch[s] /\ cur'[s] = NoCur /\ Drop(cur[s].pkt)
    /\ \/ UNCHANGED sent
       \/ /\ dialer[s] = "write" /\ conn[s] = "open"
          /\ sent' = [sent EXCEPT ![KeyOf(s)] = Append(@, Written(s))]

(* The session may write now, or once its dial succeeds. *)
MayWrite(s) == dialer[s] = "dial" \/ conn[s] = "open"

(* How the program counter of the dial/Process goroutine and the mapping   *)
(* change with the packet in hand.                                         *)
Control(s) ==
    /\ dialer[s] = "none" <=> dialer'[s] = "none"
    /\ dialer'[s] \in {"none", "dial"} =>
           dialer'[s] = dialer[s] /\ o2t'[s] = o2t[s] /\ t2o'[s] = t2o[s]
    /\ dialer'[s] \in {"resolve", "write"} \/ cur'[s] = NoCur
          \/ (cur'[s] = cur[s] /\ dialer[s] \notin {"resolve", "write"})
    /\ (dialer'[s] = "dial" \/ conn'[s] = "open") => MayWrite(s)

SameSession(t) ==
    /\ ch'[t] = ch[t] /\ cur'[t] = cur[t] /\ dialer'[t] = dialer[t]
    /\ conn'[t] = conn[t] /\ o2t'[t] = o2t[t] /\ t2o'[t] = t2o[t]

SessionMove(s) ==
    /\ UNCHANGED <<pkt, queue, worker>>
    /\ \A t \in Packets \ {s} : SameSession(t)
    /\ \A k \in Keys : natTable'[k] \in {natTable[k], None}
    /\ Control(s)
    /\ Rests(s) \/ Drains(s) \/ Receives(s) \/ Finishes(s)

(* The types of what the packets are held in. *)
LEMMA HolderTypes ==
    ASSUME TypeOK
    PROVE  /\ queue \in [Workers -> Seq(Arrived)] /\ ch \in [Packets -> Seq(Arrived)]
           /\ cur \in [Packets -> [pkt : Arrived \cup {None}, to : IPs \cup {NoIP}]]
           /\ worker \in [Workers -> WorkerRec]
           /\ dialer \in [Packets -> DialerPC] /\ natTable \in [Keys -> Arrived \cup {None}]
           /\ o2t \in [Packets -> [Dsts -> IPs \cup {NoIP}]]
           /\ t2o \in [Packets -> [IPs \cup {NoIP} -> IPs \cup {NoIP}]]
           /\ conn \in [Packets -> {"none", "open", "closed"}]
           /\ drops \in [Packets -> Nat]
           /\ sent \in [Keys -> Seq([pkt : Arrived, sess : Arrived, to : IPs])]
  BY DEF TypeOK, TypeQueue, TypeWorker, TypeSender, TypeDialer, TypeNat, TypeMap,
         TypeReader, TypeHistory, WorkerRec

LEMMA ArrivedNumbers ==
    ASSUME TypeOK
    PROVE  /\ Arrived \subseteq Packets /\ Arrived \subseteq Nat /\ None \notin Arrived
           /\ Packets \subseteq Nat /\ None \notin Packets
           /\ \A p \in Arrived : /\ KeyOf(p) \in Keys /\ WorkerOf[KeyOf(p)] \in Workers
                                 /\ pkt[p].dst \in Dsts
  BY ArrivedFacts, TunnelAssumption DEF TypeOK, Arrived, Packets, KeyOf

LEMMA DialerMoves ==
    ASSUME TypeOK, NEW s \in Packets, DialerNext(s)
    PROVE  SessionMove(s)
<1> USE DEF inVars, mapVars
<1>1. /\ ch \in [Packets -> Seq(Arrived)]
      /\ cur \in [Packets -> [pkt : Arrived \cup {None}, to : IPs \cup {NoIP}]]
      /\ dialer \in [Packets -> DialerPC] /\ natTable \in [Keys -> Arrived \cup {None}]
      /\ o2t \in [Packets -> [Dsts -> IPs \cup {NoIP}]]
      /\ t2o \in [Packets -> [IPs \cup {NoIP} -> IPs \cup {NoIP}]]
      /\ conn \in [Packets -> {"none", "open", "closed"}]
  BY HolderTypes
<1>2. UNCHANGED <<pkt, queue, worker>>
  BY DEF DialerNext, Dial, Process, DialOK, DialFail, DialerCancel, DialerDropAll,
         DialerDelete, ProcessReturn, ProcessReceive, ProcessResolve, ProcessWrite
<1>3. \A k \in Keys : natTable'[k] \in {natTable[k], None}
  BY <1>1 DEF DialerNext, Dial, Process, DialOK, DialFail, DialerCancel, DialerDropAll,
         DialerDelete, Delete, ProcessReturn, ProcessReceive, ProcessResolve, ProcessWrite
<1>4. CASE DialOK(s)
  BY <1>1, <1>2, <1>3, <1>4 DEF DialOK, AddMapping, SessionMove, SameSession, Control,
     Rests, MayWrite
<1>5. CASE DialFail(s) \/ DialerCancel(s) \/ DialerDelete(s)
  BY <1>1, <1>2, <1>3, <1>5 DEF DialFail, DialerCancel, DialerDelete, DialerStep,
     AfterDial, SessionMove, SameSession, Control, Rests, MayWrite
<1>6. CASE DialerDropAll(s)
  BY <1>1, <1>2, <1>3, <1>6 DEF DialerDropAll, DropOne, DialerStep,
     AfterDial, SessionMove, SameSession, Control, Rests, Drains, MayWrite
<1>7. CASE ProcessReturn(s)
  BY <1>1, <1>2, <1>3, <1>7 DEF ProcessReturn, SessionMove, SameSession, Control,
     Rests, MayWrite
<1>8. CASE ProcessReceive(s)
  BY <1>1, <1>2, <1>3, <1>8 DEF ProcessReceive, SessionMove, SameSession, Control,
     Receives, MayWrite
<1>9. CASE ProcessResolve(s)
  <2>1. CASE Drop(cur[s].pkt) /\ cur' = [cur EXCEPT ![s] = NoCur]
             /\ dialer' = [dialer EXCEPT ![s] = "process"] /\ UNCHANGED mapVars
    BY <1>1, <1>2, <1>3, <1>9, <2>1 DEF ProcessResolve, SessionMove, SameSession, Control,
       Finishes, MayWrite
  <2>2. CASE UNCHANGED drops /\ dialer' = [dialer EXCEPT ![s] = "write"]
             /\ \E target : /\ cur' = [cur EXCEPT ![s].to = target]
                            /\ AddMapping(s, pkt[cur[s].pkt].dst, target)
    BY <1>1, <1>2, <1>3, <1>9, <2>2 DEF ProcessResolve, AddMapping, SessionMove,
       SameSession, Control, Rests, MayWrite
  <2> QED BY <1>9, <2>1, <2>2 DEF ProcessResolve
<1>10. CASE ProcessWrite(s)
  BY <1>1, <1>2, <1>3, <1>10 DEF ProcessWrite, SessionMove, SameSession, Control,
     Finishes, Written, MayWrite
<1> QED BY <1>4, <1>5, <1>6, <1>7, <1>8, <1>9, <1>10 DEF DialerNext, Dial, Process

LEMMA ReaderMoves ==
    ASSUME TypeOK, NEW s \in Packets, ReaderNext(s)
    PROVE  SessionMove(s)
<1> USE DEF inVars, mapVars
<1>1. /\ ch \in [Packets -> Seq(Arrived)] /\ natTable \in [Keys -> Arrived \cup {None}]
      /\ conn \in [Packets -> {"none", "open", "closed"}]
  BY HolderTypes
<1>2. UNCHANGED <<pkt, queue, worker, cur, dialer, o2t, t2o, sent>>
  BY DEF ReaderNext, ReadReply, ReadFail, ReaderCleanup, ReaderCancel, ReaderDropAll,
         ReaderCloseConn, ReaderCloseLocal, ReaderDelete
<1>3. /\ \A k \in Keys : natTable'[k] \in {natTable[k], None}
      /\ \A t \in Packets : conn'[t] = conn[t] \/ (t = s /\ conn'[t] = "closed")
      /\ UNCHANGED <<ch, drops>> \/ DropOne(s)
  BY <1>1 DEF ReaderNext, ReadReply, ReadFail, ReaderCleanup, ReaderCancel, ReaderDropAll,
         ReaderCloseConn, ReaderCloseLocal, ReaderDelete, Delete
<1>4. \A t \in Packets \ {s} : SameSession(t)
  BY <1>1, <1>2, <1>3 DEF SameSession, DropOne
<1>5. Control(s)
  BY <1>2, <1>3 DEF Control, MayWrite
<1>6. Rests(s) \/ Drains(s)
  BY <1>2, <1>3 DEF Rests, Drains
<1> QED BY <1>2, <1>3, <1>4, <1>5, <1>6 DEF SessionMove

-----------------------------------------------------------------------------
(***************************************************************************)
(* The route of a packet.  A key belongs to one worker, which takes its    *)
(* packets in the order of their arrival; a session has the key of every   *)
(* packet that looks it up, and is older than what its worker still has to *)
(* look up.  So the packet that creates a session finds it untouched.      *)
(***************************************************************************)
WorkerRoute(w) ==
    /\ Increasing(queue[w])
    /\ \A q \in Elems(queue[w]) : WorkerOf[KeyOf(q)] = w
    /\ worker[w].pc = "idle" => worker[w].pkt = None
    /\ worker[w].pkt # None => /\ WorkerOf[KeyOf(worker[w].pkt)] = w
                               /\ \A q \in Elems(queue[w]) : worker[w].pkt < q
    /\ worker[w].pc \in {"check", "put"} =>
           /\ dialer[worker[w].sess] # "none"
           /\ KeyOf(worker[w].sess) = KeyOf(worker[w].pkt)
NatRoute(k) ==
    natTable[k] # None => dialer[natTable[k]] # "none" /\ KeyOf(natTable[k]) = k
Older(s, w) ==
    /\ \A q \in Elems(queue[w]) : s < q
    /\ worker[w].pc = "lookup" => s < worker[w].pkt
SessionRoute(s) ==
    /\ dialer[s] = "none" => ch[s] = <<>>
    /\ dialer[s] \in {"none", "dial"} => o2t[s] = EmptyO2T /\ t2o[s] = EmptyT2O
    /\ dialer[s] \notin {"resolve", "write"} => cur[s] = NoCur
    /\ dialer[s] # "none" => Older(s, WorkerOf[KeyOf(s)])
RouteInv ==
    /\ \A w \in Workers : WorkerRoute(w)
    /\ \A k \in Keys : NatRoute(k)
    /\ \A s \in Packets : SessionRoute(s)

LEMMA RouteInit == Init => RouteInv
  BY ElemsEmpty DEF Init, RouteInv, WorkerRoute, NatRoute, SessionRoute, Idle

(* A packet that was there before keeps its key. *)
LEMMA KeysStay ==
    ASSUME TypeOK, Environment
    PROVE  /\ \A p \in Arrived : KeyOf(p)' = KeyOf(p) /\ pkt'[p] = pkt[p]
           /\ UNCHANGED <<worker, natTable, ch, o2t, t2o, dialer, cur, conn, sent>>
<1>1. UNCHANGED pkt \/ \E m \in Metadata : pkt' = Append(pkt, m)
  BY DEF Environment, ApplyConfig, FakeRecordEvicted, HandleUDPPacket, Metadata
<1>2. \A p \in Arrived : pkt'[p] = pkt[p]
  BY <1>1 DEF TypeOK, TypeIn, Arrived
<1>3. UNCHANGED <<worker, natTable, ch, o2t, t2o, dialer, cur, conn, sent>>
  BY DEF Environment, ApplyConfig, FakeRecordEvicted, HandleUDPPacket, mapVars
<1> QED BY <1>2, <1>3 DEF KeyOf

(* The new packet is the latest one, and goes to the worker of its key. *)
NewPacket(p) ==
    /\ p \in Packets /\ p \notin Arrived
    /\ Arrived' = Arrived \cup {p}
    /\ \A q \in Arrived : q < p
    /\ pkt'[p].key \in Keys
    /\ \/ /\ queue' = [queue EXCEPT ![WorkerOf[pkt'[p].key]] = Append(@, p)]
          /\ UNCHANGED drops
       \/ UNCHANGED queue /\ Drop(p)

LEMMA ArrivalMove ==
    ASSUME TypeOK, Environment
    PROVE  UNCHANGED <<queue, pkt, drops>> \/ \E p : NewPacket(p)
<1>1. CASE ApplyConfig \/ \E f \in FakeIPs : FakeRecordEvicted(f)
  BY <1>1 DEF ApplyConfig, FakeRecordEvicted
<1>2. ASSUME NEW k \in Keys, NEW ty \in Types, NEW d \in Inputs, HandleUDPPacket(k, ty, d)
      PROVE  NewPacket(Len(pkt) + 1)
  <2>1. pkt \in Seq(Metadata) /\ Len(pkt) \in Nat
    BY DEF TypeOK, TypeIn
  <2> DEFINE m == [key |-> k, type |-> ty, dst |-> d]
  <2>2. pkt' = Append(pkt, m) /\ m \in Metadata /\ m.key = k
    BY <1>2 DEF HandleUDPPacket, Metadata
  <2> HIDE DEF m
  <2>3. Len(pkt') = Len(pkt) + 1 /\ pkt'[Len(pkt) + 1] = m
    BY <2>1, <2>2
  <2>4. /\ Arrived' = Arrived \cup {Len(pkt) + 1}
        /\ Len(pkt) + 1 \notin Arrived
        /\ \A p \in Arrived : p < Len(pkt) + 1
    BY <2>1, <2>3 DEF Arrived
  <2>5. pkt'[Len(pkt) + 1].key = k
    BY <2>2, <2>3
  <2> QED BY <1>2, <2>4, <2>5 DEF HandleUDPPacket, NewPacket
<1> QED BY <1>1, <1>2 DEF Environment

(* What an arrival does to the queue of any worker. *)
LEMMA QueueArrival ==
    ASSUME TypeOK, RouteInv, Environment
    PROVE  \A w \in Workers :
             /\ Increasing(queue'[w])
             /\ \A q \in Elems(queue'[w]) :
                   \/ q \in Elems(queue[w])
                   \/ /\ WorkerOf[KeyOf(q)'] = w
                      /\ \A x \in Arrived : x < q
<1>a. queue \in [Workers -> Seq(Arrived)]
  BY HolderTypes
<1>b. Arrived \subseteq Nat /\ Packets \subseteq Nat
  BY ArrivedNumbers
<1>1. CASE UNCHANGED queue
  BY <1>1 DEF RouteInv, WorkerRoute
<1>2. ASSUME NEW p, NewPacket(p), ~UNCHANGED queue
      PROVE  \A w \in Workers :
               /\ Increasing(queue'[w])
               /\ \A q \in Elems(queue'[w]) :
                     \/ q \in Elems(queue[w])
                     \/ /\ WorkerOf[KeyOf(q)'] = w
                        /\ \A x \in Arrived : x < q
  <2> DEFINE v == WorkerOf[pkt'[p].key]
  <2>1. v \in Workers /\ p \in Nat
    BY <1>b, <1>2, TunnelAssumption DEF NewPacket
  <2>2. queue' = [queue EXCEPT ![v] = Append(@, p)] /\ queue'[v] = Append(queue[v], p)
    BY <1>a, <1>2, <2>1 DEF NewPacket
  <2>3. /\ queue[v] \in Seq(Nat) /\ Increasing(queue[v])
        /\ Elems(queue[v]) \subseteq Arrived
    <3>1. queue[v] \in Seq(Arrived)
      BY <1>a, <2>1
    <3>2. queue[v] \in Seq(Nat)
      BY <1>b, <3>1, SeqMono
    <3>3. Elems(queue[v]) \subseteq Arrived
      BY <3>1, ElemsType
    <3> QED BY <2>1, <3>2, <3>3 DEF RouteInv, WorkerRoute
  <2> HIDE DEF v
  <2>4. Increasing(Append(queue[v], p)) /\ Elems(Append(queue[v], p)) = Elems(queue[v]) \cup {p}
    <3>1. \A x \in Elems(queue[v]) : x < p
      BY <1>2, <2>3 DEF NewPacket
    <3> QED BY <2>1, <2>3, <3>1, IncreasingAppend, ElemsAppend
  <2>5. ASSUME NEW w \in Workers, w # v PROVE queue'[w] = queue[w] /\ Increasing(queue[w])
    BY <1>a, <2>2, <2>5 DEF RouteInv, WorkerRoute
  <2>6. WorkerOf[KeyOf(p)'] = v /\ \A x \in Arrived : x < p
    BY <1>2 DEF v, KeyOf, NewPacket
  <2> QED BY <2>2, <2>4, <2>5, <2>6
<1> QED BY <1>1, <1>2, ArrivalMove

LEMMA RouteEnvironment ==
    ASSUME TypeOK, RouteInv, Environment
    PROVE  RouteInv'
<1>1. /\ \A q \in Arrived : KeyOf(q)' = KeyOf(q)
      /\ UNCHANGED <<worker, natTable, ch, o2t, t2o, dialer, cur>>
  BY KeysStay
<1>2. /\ queue \in [Workers -> Seq(Arrived)] /\ worker \in [Workers -> WorkerRec]
      /\ natTable \in [Keys -> Arrived \cup {None}]
  BY HolderTypes
<1>3. /\ Arrived \subseteq Packets /\ Arrived \subseteq Nat /\ None \notin Arrived
      /\ Packets \subseteq Nat
      /\ \A q \in Arrived : WorkerOf[KeyOf(q)] \in Workers
  BY ArrivedNumbers
<1>4. /\ \A w \in Workers : worker[w].pc \in {"check", "put"} =>
             worker[w].sess \in Arrived /\ worker[w].pkt \in Arrived
      /\ \A s \in Packets : dialer[s] # "none" => s \in Arrived
  BY DEF TypeOK, TypeWorker, TypeDialer
<1>5. \A w \in Workers :
        /\ Increasing(queue'[w])
        /\ \A q \in Elems(queue'[w]) :
              \/ q \in Elems(queue[w])
              \/ /\ WorkerOf[KeyOf(q)'] = w
                 /\ \A x \in Arrived : x < q
  BY QueueArrival
<1>6. \A w \in Workers : Elems(queue[w]) \subseteq Arrived
  BY <1>2, ElemsType
<1>7. ASSUME NEW w \in Workers PROVE WorkerRoute(w)'
  <2>1. WorkerRoute(w)
    BY DEF RouteInv
  <2>2. worker[w].pkt # None => worker[w].pkt \in Arrived
    BY <1>2 DEF WorkerRec
  <2> QED BY <1>1, <1>4, <1>5, <1>6, <2>1, <2>2 DEF WorkerRoute
<1>8. ASSUME NEW k \in Keys PROVE NatRoute(k)'
  <2>1. NatRoute(k) /\ natTable[k] \in Arrived \cup {None}
    BY <1>2 DEF RouteInv
  <2> QED BY <1>1, <2>1 DEF NatRoute
<1>9. ASSUME NEW s \in Packets PROVE SessionRoute(s)'
  <2>1. SessionRoute(s)
    BY DEF RouteInv
  <2>2. dialer[s] # "none" => Older(s, WorkerOf[KeyOf(s)])'
    BY <1>1, <1>3, <1>4, <1>5, <2>1 DEF SessionRoute, Older
  <2> QED BY <1>1, <2>1, <2>2 DEF SessionRoute, EmptyO2T, EmptyT2O, NoCur
<1> QED BY <1>7, <1>8, <1>9 DEF RouteInv

LEMMA RouteSession ==
    ASSUME TypeOK, RouteInv, NEW s \in Packets, SessionMove(s)
    PROVE  RouteInv'
<1>1. /\ UNCHANGED <<pkt, queue, worker>> /\ Control(s)
      /\ \A t \in Packets \ {s} : SameSession(t)
      /\ \A k \in Keys : natTable'[k] \in {natTable[k], None}
  BY DEF SessionMove
<1>2. \A t \in Packets : dialer[t] # "none" => dialer'[t] # "none"
  BY <1>1 DEF Control, SameSession
<1>3. Arrived \subseteq Packets /\ natTable \in [Keys -> Arrived \cup {None}]
  BY ArrivedNumbers, HolderTypes
<1>4. ASSUME NEW w \in Workers PROVE WorkerRoute(w)'
  <2>1. WorkerRoute(w)
    BY DEF RouteInv
  <2>2. worker[w].pc \in {"check", "put"} => worker[w].sess \in Packets
    BY <1>3 DEF TypeOK, TypeWorker
  <2> QED BY <1>1, <1>2, <2>1, <2>2 DEF WorkerRoute, KeyOf
<1>5. ASSUME NEW k \in Keys PROVE NatRoute(k)'
  <2>1. NatRoute(k)
    BY DEF RouteInv
  <2> QED BY <1>1, <1>2, <1>3, <2>1 DEF NatRoute, KeyOf
<1>6. ASSUME NEW t \in Packets PROVE SessionRoute(t)'
  <2>1. SessionRoute(t)
    BY DEF RouteInv
  <2>2. CASE t # s
    BY <1>1, <2>1, <2>2 DEF SessionRoute, SameSession, Older, KeyOf, EmptyO2T, EmptyT2O, NoCur
  <2>3. CASE t = s
    <3>1. dialer'[s] = "none" => dialer[s] = "none" /\ ch'[s] = ch[s]
      <4>1. dialer'[s] = "none" => dialer[s] = "none"
        BY <1>2
      <4>2. dialer[s] = "none" => Rests(s)
        BY <2>1, <2>3 DEF SessionMove, Drains, DropOne, Receives, Finishes, SessionRoute
      <4> QED BY <4>1, <4>2 DEF Rests
    <3>2. dialer'[s] \in {"none", "dial"} => o2t'[s] = EmptyO2T /\ t2o'[s] = EmptyT2O
      BY <1>1, <2>1, <2>3 DEF Control, SessionRoute
    <3>3. dialer'[s] \notin {"resolve", "write"} => cur'[s] = NoCur
      BY <1>1, <2>1, <2>3 DEF Control, SessionRoute
    <3>4. dialer[s] # "none" => Older(s, WorkerOf[KeyOf(s)])'
      BY <1>1, <2>1, <2>3 DEF SessionRoute, Older, KeyOf
    <3>5. dialer'[s] # "none" => dialer[s] # "none"
      BY <1>1 DEF Control
    <3> QED BY <2>1, <2>3, <3>1, <3>2, <3>3, <3>4, <3>5 DEF SessionRoute, EmptyO2T, EmptyT2O, NoCur
  <2> QED BY <2>2, <2>3
<1> QED BY <1>4, <1>5, <1>6 DEF RouteInv

(* A worker takes the oldest packet of its queue. *)
LEMMA TakeFirst ==
    ASSUME TypeOK, RouteInv, NEW w \in Workers, queue[w] # <<>>
    PROVE  /\ Head(queue[w]) \in Arrived /\ Head(queue[w]) \in Elems(queue[w])
           /\ Elems(Tail(queue[w])) = Elems(queue[w]) \ {Head(queue[w])}
           /\ \A x \in Elems(Tail(queue[w])) : Head(queue[w]) < x
           /\ Increasing(Tail(queue[w]))
<1>1. queue[w] \in Seq(Arrived) /\ Arrived \in SUBSET Nat
  BY HolderTypes, ArrivedNumbers
<1>2. Increasing(queue[w])
  BY DEF RouteInv, WorkerRoute
<1> QED BY <1>1, <1>2, ElemsTail, ElemsType

(* The packet that is looked up has no session of its own yet. *)
LEMMA Unused ==
    ASSUME TypeOK, RouteInv, NEW w \in Workers, worker[w].pc = "lookup"
    PROVE  dialer[worker[w].pkt] = "none"
<1> DEFINE p == worker[w].pkt
<1>1. p \in Packets /\ p \in Nat /\ p # None
  BY ArrivedNumbers DEF TypeOK, TypeWorker
<1>2. WorkerOf[KeyOf(p)] = w
  BY <1>1 DEF RouteInv, WorkerRoute
<1>3. ~(p < p)
  BY <1>1
<1> QED BY <1>1, <1>2, <1>3 DEF RouteInv, SessionRoute, Older

LEMMA RouteWorker ==
    ASSUME TypeOK, RouteInv, NEW w \in Workers, WorkerNext(w)
    PROVE  RouteInv'
<1> USE DEF inVars, mapVars
<1>1. /\ queue \in [Workers -> Seq(Arrived)] /\ worker \in [Workers -> WorkerRec]
      /\ natTable \in [Keys -> Arrived \cup {None}] /\ ch \in [Packets -> Seq(Arrived)]
      /\ dialer \in [Packets -> DialerPC]
  BY HolderTypes
<1>2. /\ Arrived \subseteq Packets /\ Arrived \subseteq Nat /\ None \notin Arrived
      /\ Packets \subseteq Nat
      /\ \A q \in Arrived : KeyOf(q) \in Keys /\ WorkerOf[KeyOf(q)] \in Workers
  BY ArrivedNumbers
<1>3. UNCHANGED <<pkt, o2t, t2o, cur>> /\ \A q : KeyOf(q)' = KeyOf(q)
  BY DEF WorkerNext, processUDP, GetOrCreate, SendCheck, SendPut, KeyOf
<1>4. /\ worker[w].pc # "idle" => worker[w].pkt \in Arrived
      /\ worker[w].pc \in {"check", "put"} => worker[w].sess \in Arrived
      /\ \A s \in Packets : dialer[s] # "none" => s \in Arrived
      /\ \A v \in Workers : worker[v].pc \in {"check", "put"} => worker[v].sess \in Packets
  BY <1>2 DEF TypeOK, TypeWorker, TypeDialer
<1>5. /\ \A v \in Workers : WorkerRoute(v)
      /\ \A k \in Keys : NatRoute(k)
      /\ \A s \in Packets : SessionRoute(s)
  BY DEF RouteInv
<1>6. CASE processUDP(w)
  <2> DEFINE p == Head(queue[w])
  <2>1. /\ UNCHANGED <<natTable, ch, dialer>> /\ worker[w].pc = "idle"
        /\ \A v \in Workers : queue'[v] = IF v = w THEN Tail(queue[w]) ELSE queue[v]
        /\ \A v \in Workers : v # w => worker'[v] = worker[v]
        /\ \/ worker'[w].pc = "lookup" /\ worker'[w].pkt = p
           \/ worker'[w] = worker[w]
    BY <1>1, <1>6 DEF processUDP
  <2>2. /\ p \in Elems(queue[w])
        /\ Elems(Tail(queue[w])) = Elems(queue[w]) \ {p}
        /\ \A x \in Elems(Tail(queue[w])) : p < x
        /\ Increasing(Tail(queue[w]))
    BY <1>6, TakeFirst DEF processUDP
  <2> HIDE DEF p
  <2>3. ASSUME NEW v \in Workers PROVE WorkerRoute(v)'
    <3>1. WorkerRoute(v)
      BY <1>5
    <3>2. CASE v # w
      BY <1>3, <2>1, <3>1, <3>2 DEF WorkerRoute
    <3>3. CASE v = w
      BY <1>3, <2>1, <2>2, <3>1, <3>3 DEF WorkerRoute
    <3> QED BY <3>2, <3>3
  <2>4. ASSUME NEW k \in Keys PROVE NatRoute(k)'
    BY <1>3, <1>5, <2>1 DEF NatRoute
  <2>5. ASSUME NEW s \in Packets PROVE SessionRoute(s)'
    <3>1. SessionRoute(s)
      BY <1>5
    <3>2. dialer[s] # "none" => Older(s, WorkerOf[KeyOf(s)])'
      BY <1>2, <1>3, <1>4, <2>1, <2>2, <3>1 DEF SessionRoute, Older
    <3> QED BY <1>3, <2>1, <3>1, <3>2 DEF SessionRoute, EmptyO2T, EmptyT2O, NoCur
  <2> QED BY <2>3, <2>4, <2>5 DEF RouteInv
<1>7. CASE GetOrCreate(w)
  <2> DEFINE p == worker[w].pkt
             k == KeyOf(p)
  <2>1. /\ worker[w].pc = "lookup" /\ p \in Arrived /\ k \in Keys /\ p \in Packets
        /\ UNCHANGED <<queue, ch>>
        /\ \A v \in Workers : v # w => worker'[v] = worker[v]
        /\ worker'[w].pc = "check" /\ worker'[w].pkt = p
    BY <1>1, <1>2, <1>4, <1>7 DEF GetOrCreate
  <2>2. WorkerRoute(w) /\ NatRoute(k) /\ WorkerOf[k] = w
    BY <1>2, <1>5, <2>1 DEF WorkerRoute
  <2>3. \A v \in Workers : worker'[v].pc = "lookup" => worker[v] = worker'[v]
    BY <2>1
  <2>4. \/ /\ natTable[k] # None /\ worker'[w].sess = natTable[k]
           /\ UNCHANGED <<natTable, dialer>>
        \/ /\ worker'[w].sess = p
           /\ \A j \in Keys : natTable'[j] = IF j = k THEN p ELSE natTable[j]
           /\ \A s \in Packets : dialer'[s] = IF s = p THEN "dial" ELSE dialer[s]
    BY <1>1, <1>7, <2>1 DEF GetOrCreate
  <2>5. dialer[p] = "none"
    BY <2>1, Unused
  <2>6. \A s \in Packets : dialer[s] # "none" => dialer'[s] # "none"
    BY <2>4
  <2> HIDE DEF p, k
  <2>7. ASSUME NEW v \in Workers PROVE WorkerRoute(v)'
    <3>1. WorkerRoute(v)
      BY <1>5
    <3>2. CASE v # w
      BY <1>3, <1>4, <2>1, <2>6, <3>1, <3>2 DEF WorkerRoute
    <3>3. CASE v = w
      <4>1. dialer'[worker'[w].sess] # "none" /\ KeyOf(worker'[w].sess) = KeyOf(p)
        BY <2>1, <2>2, <2>4 DEF NatRoute, k
      <4> QED BY <1>2, <1>3, <2>1, <2>2, <3>1, <3>3, <4>1 DEF WorkerRoute, p
    <3> QED BY <3>2, <3>3
  <2>8. ASSUME NEW j \in Keys PROVE NatRoute(j)'
    <3>1. NatRoute(j) /\ natTable[j] \in Packets \cup {None}
      BY <1>1, <1>2, <1>5
    <3> QED BY <1>3, <2>1, <2>4, <2>6, <3>1 DEF NatRoute, k
  <2>9. ASSUME NEW s \in Packets PROVE SessionRoute(s)'
    <3>1. SessionRoute(s)
      BY <1>5
    <3>2. CASE s # p \/ UNCHANGED dialer
      <4>1. dialer'[s] = dialer[s]
        BY <2>4, <3>2
      <4>2. dialer[s] # "none" => Older(s, WorkerOf[KeyOf(s)])'
        BY <1>2, <1>3, <1>4, <2>1, <2>3, <3>1 DEF SessionRoute, Older
      <4> QED BY <1>3, <2>1, <3>1, <4>1, <4>2 DEF SessionRoute, EmptyO2T, EmptyT2O, NoCur
    <3>3. CASE s = p /\ ~UNCHANGED dialer
      <4>1. dialer'[s] = "dial" /\ dialer[s] = "none"
        BY <2>4, <2>5, <3>3
      <4>2. Older(s, WorkerOf[KeyOf(s)])'
        <5>1. worker[w].pkt # None /\ KeyOf(s)' = k /\ s = worker[w].pkt
          BY <1>2, <1>3, <2>1, <3>3 DEF k, p
        <5>2. \A q \in Elems(queue[w]) : s < q
          BY <2>2, <5>1 DEF WorkerRoute
        <5> QED BY <2>1, <2>2, <5>1, <5>2 DEF Older
      <4> QED BY <1>3, <2>1, <3>1, <4>1, <4>2 DEF SessionRoute, EmptyO2T, EmptyT2O, NoCur
    <3> QED BY <3>2, <3>3
  <2> QED BY <2>7, <2>8, <2>9 DEF RouteInv
<1>8. CASE SendCheck(w) \/ SendPut(w)
  <2>1. /\ UNCHANGED <<queue, natTable, dialer>>
        /\ worker[w].pc \in {"check", "put"}
        /\ \A v \in Workers : v # w => worker'[v] = worker[v]
        /\ \/ worker'[w].pc = "idle" /\ worker'[w].pkt = None
           \/ /\ worker'[w].pc = "put" /\ worker'[w].pkt = worker[w].pkt
              /\ worker'[w].sess = worker[w].sess
    <3>1. worker[w] \in WorkerRec
      BY <1>1
    <3> QED BY <1>1, <1>8, <3>1 DEF SendCheck, SendPut, Idle, WorkerRec
  <2>2. \A s \in Packets : ch'[s] = ch[s] \/ (s = worker[w].sess /\ dialer[s] # "none")
    <3>1. dialer[worker[w].sess] # "none"
      BY <1>5, <2>1 DEF WorkerRoute
    <3> QED BY <1>1, <1>8, <3>1 DEF SendCheck, SendPut
  <2>3. ASSUME NEW v \in Workers PROVE WorkerRoute(v)'
    <3>1. WorkerRoute(v)
      BY <1>5
    <3> QED BY <1>2, <1>3, <1>4, <2>1, <3>1 DEF WorkerRoute
  <2>4. ASSUME NEW k \in Keys PROVE NatRoute(k)'
    BY <1>3, <1>5, <2>1 DEF NatRoute
  <2>5. ASSUME NEW s \in Packets PROVE SessionRoute(s)'
    <3>1. SessionRoute(s)
      BY <1>5
    <3>2. dialer[s] # "none" => Older(s, WorkerOf[KeyOf(s)])'
      BY <1>2, <1>3, <1>4, <2>1, <3>1 DEF SessionRoute, Older
    <3> QED BY <1>3, <2>1, <2>2, <3>1, <3>2 DEF SessionRoute, EmptyO2T, EmptyT2O, NoCur
  <2> QED BY <2>3, <2>4, <2>5 DEF RouteInv
<1> QED BY <1>6, <1>7, <1>8 DEF WorkerNext

LEMMA RouteStutter == RouteInv /\ UNCHANGED vars => RouteInv'
  BY DEF RouteInv, WorkerRoute, NatRoute, SessionRoute, Older, KeyOf, vars, inVars,
         mapVars, EmptyO2T, EmptyT2O, NoCur

LEMMA RouteCorrect == Spec => [](TypeOK /\ SessionsInv /\ RouteInv)
<1>1. Init => RouteInv
  BY RouteInit
<1>2. TypeOK /\ RouteInv /\ [Next]_vars => RouteInv'
  BY RouteEnvironment, RouteWorker, DialerMoves, ReaderMoves, RouteSession,
     RouteStutter DEF Next
<1> QED BY <1>1, <1>2, SessionsCorrect, PTL DEF Spec

-----------------------------------------------------------------------------
(***************************************************************************)
(* The address mapping of a session.  A destination is mapped once: dial   *)
(* maps the first one into empty maps, processPacket only one that has no  *)
(* record.  So both maps stay each other's inverse on addresses, and what  *)
(* was written to a destination is what the map still says.                *)
(***************************************************************************)
MapInv(s) ==
    /\ \A t \in IPs : t2o[s][t] # NoIP => o2t[s][t2o[s][t]] = t
    /\ \A o \in IPs : o2t[s][o] # NoIP => t2o[s][o2t[s][o]] # NoIP
    /\ dialer[s] = "resolve" => o2t[s][pkt[cur[s].pkt].dst] = NoIP
    /\ dialer[s] = "write" => o2t[s][pkt[cur[s].pkt].dst] = cur[s].to
SentMapped(k) ==
    \A i \in 1..Len(sent[k]) :
        o2t[sent[k][i].sess][pkt[sent[k][i].pkt].dst] = sent[k][i].to
MappingInv == (\A s \in Packets : MapInv(s)) /\ (\A k \in Keys : SentMapped(k))

LEMMA MappingInit == Init => MappingInv
  BY AddressAssumption
  DEF Init, MappingInv, MapInv, SentMapped, EmptyO2T, EmptyT2O, IPs, Dsts

(* AddMapping of a destination that has no record. *)
LEMMA AddFirst ==
    ASSUME NEW s, NEW d \in Dsts, NEW target \in IPs \cup {NoIP},
           o2t[s] \in [Dsts -> IPs \cup {NoIP}],
           t2o[s] \in [IPs \cup {NoIP} -> IPs \cup {NoIP}],
           o2t[s][d] = NoIP,
           \A t \in IPs : t2o[s][t] # NoIP => o2t[s][t2o[s][t]] = t,
           \A o \in IPs : o2t[s][o] # NoIP => t2o[s][o2t[s][o]] # NoIP,
           o2t'[s] = AddO2T(o2t[s], d, target), t2o'[s] = AddT2O(t2o[s], d, target)
    PROVE  /\ \A t \in IPs : t2o'[s][t] # NoIP => o2t'[s][t2o'[s][t]] = t
           /\ \A o \in IPs : o2t'[s][o] # NoIP => t2o'[s][o2t'[s][o]] # NoIP
           /\ \A x \in Dsts : o2t[s][x] # NoIP => o2t'[s][x] = o2t[s][x]
           /\ o2t'[s][d] = target
<1>1. \A x \in Dsts : o2t'[s][x] = IF x = d THEN target ELSE o2t[s][x]
  BY DEF AddO2T
<1>2. \A x \in IPs \cup {NoIP} :
         t2o'[s][x] = IF x = target /\ t2o[s][target] = NoIP THEN OriginAddr(d) ELSE t2o[s][x]
  BY DEF AddT2O
<1>3. IPs \subseteq Dsts /\ NoIP \notin IPs
  BY AddressAssumption DEF Dsts, IPs
<1>4. OriginAddr(d) # NoIP => OriginAddr(d) = d
  BY DEF OriginAddr
<1>5. d \in IPs => OriginAddr(d) = d
  BY AddressAssumption DEF OriginAddr, IPs
<1>6. ASSUME NEW t \in IPs, t2o'[s][t] # NoIP PROVE o2t'[s][t2o'[s][t]] = t
  BY <1>1, <1>2, <1>3, <1>4, <1>6
<1>7. ASSUME NEW o \in IPs, o2t'[s][o] # NoIP PROVE t2o'[s][o2t'[s][o]] # NoIP
  BY <1>1, <1>2, <1>3, <1>5, <1>7
<1>8. (\A x \in Dsts : o2t[s][x] # NoIP => o2t'[s][x] = o2t[s][x]) /\ o2t'[s][d] = target
  BY <1>1
<1> QED BY <1>6, <1>7, <1>8

(* A step that leaves every mapping and what was written alone. *)
LEMMA MappingFrame ==
    ASSUME TypeOK, MappingInv, UNCHANGED <<o2t, t2o, sent, cur>>,
           \A p \in Arrived : pkt'[p] = pkt[p],
           \A s \in Packets : dialer'[s] \in {"resolve", "write"} => dialer'[s] = dialer[s]
    PROVE  MappingInv'
<1>1. ASSUME NEW s \in Packets PROVE MapInv(s)'
  <2>1. MapInv(s)
    BY DEF MappingInv
  <2>2. dialer'[s] \in {"resolve", "write"} => cur[s].pkt \in Arrived
    BY DEF TypeOK, TypeDialer
  <2> QED BY <2>1, <2>2 DEF MapInv
<1>2. ASSUME NEW k \in Keys PROVE SentMapped(k)'
  <2>1. SentMapped(k) /\ sent[k] \in Seq([pkt : Arrived, sess : Arrived, to : IPs])
    BY HolderTypes DEF MappingInv
  <2>2. \A i \in 1..Len(sent[k]) : sent[k][i] \in [pkt : Arrived, sess : Arrived, to : IPs]
    BY <2>1, SeqElem
  <2> QED BY <2>1, <2>2 DEF SentMapped
<1> QED BY <1>1, <1>2 DEF MappingInv

LEMMA MappingDialer ==
    ASSUME TypeOK, RouteInv, MappingInv, NEW s \in Packets, DialerNext(s)
    PROVE  MappingInv'
<1> USE DEF inVars, mapVars
<1>1. /\ ch \in [Packets -> Seq(Arrived)]
      /\ cur \in [Packets -> [pkt : Arrived \cup {None}, to : IPs \cup {NoIP}]]
      /\ dialer \in [Packets -> DialerPC]
      /\ o2t \in [Packets -> [Dsts -> IPs \cup {NoIP}]]
      /\ t2o \in [Packets -> [IPs \cup {NoIP} -> IPs \cup {NoIP}]]
      /\ sent \in [Keys -> Seq([pkt : Arrived, sess : Arrived, to : IPs])]
      /\ \A p \in Arrived : pkt[p].dst \in Dsts /\ KeyOf(p) \in Keys
      /\ Arrived \subseteq Packets /\ NoIP \notin IPs
  BY HolderTypes, ArrivedNumbers, AddressAssumption DEF IPs
<1>2. dialer[s] # "none" => s \in Arrived
  BY DEF TypeOK, TypeDialer
<1>3. MapInv(s)
  BY DEF MappingInv
(* A step that adds a record, or none: what the map said it still says. *)
<1>4. ASSUME NEW d \in Dsts, NEW target \in IPs \cup {NoIP}, o2t[s][d] = NoIP,
             AddMapping(s, d, target), UNCHANGED <<pkt, sent>>,
             \A t \in Packets \ {s} : dialer'[t] = dialer[t] /\ cur'[t] = cur[t],
             dialer'[s] # "resolve",
             dialer'[s] = "write" => /\ cur'[s].to = target
                                     /\ pkt[cur'[s].pkt].dst = d
      PROVE  MappingInv'
  <2>1. /\ o2t'[s] = AddO2T(o2t[s], d, target) /\ t2o'[s] = AddT2O(t2o[s], d, target)
        /\ \A t \in Packets \ {s} : o2t'[t] = o2t[t] /\ t2o'[t] = t2o[t]
    BY <1>1, <1>4 DEF AddMapping
  <2>2. /\ \A t \in IPs : t2o'[s][t] # NoIP => o2t'[s][t2o'[s][t]] = t
        /\ \A o \in IPs : o2t'[s][o] # NoIP => t2o'[s][o2t'[s][o]] # NoIP
        /\ \A x \in Dsts : o2t[s][x] # NoIP => o2t'[s][x] = o2t[s][x]
        /\ o2t'[s][d] = target
    <3>1. /\ o2t[s] \in [Dsts -> IPs \cup {NoIP}]
          /\ t2o[s] \in [IPs \cup {NoIP} -> IPs \cup {NoIP}]
          /\ \A t \in IPs : t2o[s][t] # NoIP => o2t[s][t2o[s][t]] = t
          /\ \A o \in IPs : o2t[s][o] # NoIP => t2o[s][o2t[s][o]] # NoIP
      BY <1>1, <1>3 DEF MapInv
    <3> QED BY <1>4, <2>1, <3>1, AddFirst, ZenonT(60)
  <2>3. ASSUME NEW t \in Packets PROVE MapInv(t)'
    <3>1. CASE t = s
      BY <1>4, <2>2, <3>1 DEF MapInv
    <3>2. CASE t # s
      BY <1>4, <2>1, <3>2 DEF MapInv, MappingInv
    <3> QED BY <3>1, <3>2
  <2>4. ASSUME NEW k \in Keys, NEW i \in 1..Len(sent[k])
        PROVE  o2t'[sent[k][i].sess][pkt[sent[k][i].pkt].dst] = sent[k][i].to
    <3>1. /\ sent[k][i].pkt \in Arrived /\ sent[k][i].sess \in Packets
          /\ sent[k][i].to # NoIP /\ pkt[sent[k][i].pkt].dst \in Dsts
      <4>1. sent[k] \in Seq([pkt : Arrived, sess : Arrived, to : IPs])
        BY <1>1
      <4>2. sent[k][i] \in [pkt : Arrived, sess : Arrived, to : IPs]
        BY <4>1, SeqElem
      <4> QED BY <1>1, <4>2
    <3>2. o2t[sent[k][i].sess][pkt[sent[k][i].pkt].dst] = sent[k][i].to
      BY DEF MappingInv, SentMapped
    <3> QED BY <2>1, <2>2, <3>1, <3>2
  <2> QED BY <1>4, <2>3, <2>4 DEF MappingInv, SentMapped
<1>5. CASE DialOK(s)
  <2> DEFINE d == pkt[s].dst
  <2>1. d \in Dsts /\ o2t[s][d] = NoIP
    BY <1>1, <1>2, <1>5 DEF DialOK, RouteInv, SessionRoute, EmptyO2T
  <2>2. PICK target \in DialedTo(d, fakeRec, Sniffing) : AddMapping(s, d, target)
    BY <1>5 DEF DialOK
  <2>3. target \in IPs \cup {NoIP}
    BY <2>1, <2>2, TargetType
  <2>4. /\ UNCHANGED <<pkt, sent, cur>> /\ dialer'[s] = "process"
        /\ \A t \in Packets \ {s} : dialer'[t] = dialer[t]
    BY <1>1, <1>5 DEF DialOK
  <2> QED BY <1>4, <2>1, <2>2, <2>3, <2>4
<1>6. CASE DialFail(s) \/ DialerCancel(s) \/ DialerDropAll(s) \/ DialerDelete(s)
           \/ ProcessReturn(s)
  <2>1. UNCHANGED <<pkt, o2t, t2o, sent, cur>>
    BY <1>6 DEF DialFail, DialerCancel, DialerDropAll, DialerDelete, ProcessReturn
  <2>2. \A t \in Packets : dialer'[t] = dialer[t]
                 \/ dialer'[t] \in {"cancel", "drain", "delete", "end"}
    BY <1>1, <1>6 DEF DialFail, DialerCancel, DialerDropAll, DialerDelete, ProcessReturn,
       DialerStep, AfterDial
  <2>3. \A t \in Packets : dialer'[t] \in {"resolve", "write"} => dialer'[t] = dialer[t]
    BY <2>2
  <2> QED BY <2>1, <2>3, MappingFrame
<1>7. CASE ProcessReceive(s)
  <2> DEFINE p == Head(ch[s])
             target == o2t[s][pkt[p].dst]
  <2>1. /\ UNCHANGED <<pkt, o2t, t2o, sent>> /\ cur'[s].pkt = p /\ cur'[s].to = target
        /\ dialer'[s] = IF target # NoIP THEN "write" ELSE "resolve"
        /\ \A t \in Packets \ {s} : dialer'[t] = dialer[t] /\ cur'[t] = cur[t]
    BY <1>1, <1>7 DEF ProcessReceive
  <2> HIDE DEF p
  <2>2. ASSUME NEW t \in Packets PROVE MapInv(t)'
    <3>1. MapInv(t)
      BY DEF MappingInv
    <3>2. CASE t = s
      BY <2>1, <3>1, <3>2 DEF MapInv
    <3>3. CASE t # s
      BY <2>1, <3>1, <3>3 DEF MapInv
    <3> QED BY <3>2, <3>3
  <2> QED BY <2>1, <2>2 DEF MappingInv, SentMapped
<1>8. CASE ProcessResolve(s)
  <2> DEFINE d == pkt[cur[s].pkt].dst
  <2>1. d \in Dsts /\ o2t[s][d] = NoIP /\ UNCHANGED <<pkt, sent>>
    <3>1. dialer[s] = "resolve" /\ cur[s].pkt \in Arrived
      BY <1>1, <1>8 DEF ProcessResolve, TypeOK, TypeDialer
    <3> QED BY <1>1, <1>3, <1>8, <3>1 DEF ProcessResolve, MapInv
  <2>2. ASSUME NEW target \in ResolvedTo(d, fakeRec) \ {NoIP},
               AddMapping(s, d, target),
               cur' = [cur EXCEPT ![s].to = target],
               dialer' = [dialer EXCEPT ![s] = "write"]
        PROVE  MappingInv'
    <3>1. target \in IPs \cup {NoIP}
      BY <2>1, <2>2, TargetType
    <3>2. /\ dialer'[s] = "write" /\ cur'[s].to = target /\ cur'[s].pkt = cur[s].pkt
          /\ \A t \in Packets \ {s} : dialer'[t] = dialer[t] /\ cur'[t] = cur[t]
      BY <1>1, <2>2
    <3> QED BY <1>4, <2>1, <2>2, <3>1, <3>2
  <2>3. CASE /\ dialer' = [dialer EXCEPT ![s] = "process"]
             /\ cur' = [cur EXCEPT ![s] = NoCur] /\ UNCHANGED mapVars
    <3>1. /\ dialer'[s] = "process"
          /\ \A t \in Packets \ {s} : dialer'[t] = dialer[t] /\ cur'[t] = cur[t]
      BY <1>1, <2>3
    <3>2. ASSUME NEW t \in Packets PROVE MapInv(t)'
      BY <2>1, <2>3, <3>1 DEF MapInv, MappingInv
    <3> QED BY <2>1, <2>3, <3>2 DEF MappingInv, SentMapped
  <2> QED BY <1>8, <2>2, <2>3 DEF ProcessResolve
<1>9. CASE ProcessWrite(s)
  <2> DEFINE k == KeyOf(s)
             e == [pkt |-> cur[s].pkt, sess |-> s, to |-> cur[s].to]
  <2>1. /\ dialer[s] = "write" /\ dialer'[s] = "process" /\ UNCHANGED <<pkt, o2t, t2o>>
        /\ \A t \in Packets \ {s} : dialer'[t] = dialer[t] /\ cur'[t] = cur[t]
        /\ UNCHANGED sent \/ sent' = [sent EXCEPT ![k] = Append(@, e)]
    BY <1>1, <1>9 DEF ProcessWrite
  <2>2. ASSUME NEW t \in Packets PROVE MapInv(t)'
    BY <2>1 DEF MapInv, MappingInv
  <2>3. /\ k \in Keys /\ e \in [pkt : Arrived, sess : Arrived, to : IPs]
        /\ o2t[e.sess][pkt[e.pkt].dst] = e.to
    <3>1. cur[s].pkt \in Arrived /\ cur[s].to \in IPs /\ s \in Arrived
      BY <1>1, <1>2, <2>1 DEF TypeOK, TypeDialer
    <3> QED BY <1>1, <1>3, <2>1, <3>1 DEF MapInv
  <2> HIDE DEF k, e
  <2>4. ASSUME NEW j \in Keys PROVE SentMapped(j)'
    <3>1. SentMapped(j)
      BY DEF MappingInv
    <3>2. CASE sent'[j] = sent[j]
      BY <2>1, <3>1, <3>2 DEF SentMapped
    <3>3. CASE sent'[j] = Append(sent[j], e)
      <4>1. sent[j] \in Seq([pkt : Arrived, sess : Arrived, to : IPs])
        BY <1>1
      <4>2. \A i \in 1..Len(sent'[j]) :
              sent'[j][i] = IF i \in 1..Len(sent[j]) THEN sent[j][i] ELSE e
        BY <2>3, <3>3, <4>1
      <4>3. \A i \in 1..Len(sent[j]) :
              o2t[sent[j][i].sess][pkt[sent[j][i].pkt].dst] = sent[j][i].to
        BY <3>1 DEF SentMapped
      <4>4. o2t' = o2t /\ pkt' = pkt
        BY <2>1
      <4>5. ASSUME NEW i \in 1..Len(sent'[j])
            PROVE  o2t'[sent'[j][i].sess][pkt'[sent'[j][i].pkt].dst] = sent'[j][i].to
        <5>1. CASE i \in 1..Len(sent[j])
          BY <4>2, <4>3, <4>4, <5>1
        <5>2. CASE i \notin 1..Len(sent[j])
          BY <2>3, <4>2, <4>4, <5>2
        <5> QED BY <5>1, <5>2
      <4> QED BY <4>5 DEF SentMapped
    <3> QED BY <1>1, <2>1, <2>3, <3>2, <3>3
  <2> QED BY <2>2, <2>4 DEF MappingInv
<1> QED BY <1>5, <1>6, <1>7, <1>8, <1>9 DEF DialerNext, Dial, Process

LEMMA MappingOther ==
    ASSUME TypeOK, RouteInv, MappingInv,
           \/ Environment
           \/ \E w \in Workers : WorkerNext(w)
           \/ \E s \in Packets : ReaderNext(s)
           \/ UNCHANGED vars
    PROVE  MappingInv'
<1> USE DEF inVars, mapVars
<1>1. CASE Environment
  BY <1>1, KeysStay, MappingFrame
<1>2. ASSUME NEW w \in Workers, WorkerNext(w) PROVE MappingInv'
  <2>1. UNCHANGED <<pkt, o2t, t2o, sent, cur>>
    BY <1>2 DEF WorkerNext, processUDP, GetOrCreate, SendCheck, SendPut
  <2>2. \A s \in Packets : dialer'[s] = dialer[s] \/ dialer'[s] = "dial"
    BY <1>2, HolderTypes DEF WorkerNext, processUDP, GetOrCreate, SendCheck, SendPut
  <2>3. \A s \in Packets : dialer'[s] \in {"resolve", "write"} => dialer'[s] = dialer[s]
    BY <2>2
  <2> QED BY <2>1, <2>3, MappingFrame
<1>3. ASSUME NEW s \in Packets, ReaderNext(s) PROVE MappingInv'
  <2>1. UNCHANGED <<pkt, o2t, t2o, sent, cur, dialer>>
    BY <1>3 DEF ReaderNext, ReadReply, ReadFail, ReaderCleanup, ReaderCancel,
       ReaderDropAll, ReaderCloseConn, ReaderCloseLocal, ReaderDelete
  <2> QED BY <2>1, MappingFrame
<1>4. CASE UNCHANGED vars
  BY <1>4, MappingFrame DEF vars
<1> QED BY <1>1, <1>2, <1>3, <1>4

LEMMA MappingCorrect == Spec => [](TypeOK /\ MappingInv)
<1>1. Init => MappingInv
  BY MappingInit
<1>2. TypeOK /\ RouteInv /\ MappingInv /\ [Next]_vars => MappingInv'
  BY MappingDialer, MappingOther DEF Next
<1> QED BY <1>1, <1>2, RouteCorrect, PTL DEF Spec

(***************************************************************************)
(* A reply from an address that a session mapped some IP to is shown to    *)
(* the client as coming from such an IP (AddMapping, RestoreReadFrom).     *)
(***************************************************************************)
THEOREM ReplyOrigin == Spec => []ReplyShowsOrigin
<1>1. TypeOK /\ MappingInv => ReplyShowsOrigin
  <2> SUFFICES ASSUME TypeOK, MappingInv, NEW s \in Packets, NEW t \in IPs,
                      NEW o \in IPs, o2t[s][o] = t
               PROVE  /\ RestoreReadFrom(t2o[s], t) \in IPs
                      /\ o2t[s][RestoreReadFrom(t2o[s], t)] = t
    BY DEF ReplyShowsOrigin
  <2>1. t # NoIP /\ t2o[s] \in [IPs \cup {NoIP} -> IPs \cup {NoIP}]
    BY HolderTypes, AddressAssumption DEF IPs
  <2>2. t2o[s][t] # NoIP
    BY <2>1 DEF MappingInv, MapInv
  <2> QED BY <2>1, <2>2 DEF RestoreReadFrom, MappingInv, MapInv
<1> QED BY <1>1, MappingCorrect, PTL

(* Within a session all packets to one destination go to one address. *)
THEOREM Affinity == Spec => []SessionAffinity
<1>1. MappingInv => SessionAffinity
  BY SMTT(30) DEF MappingInv, SentMapped, SessionAffinity
<1> QED BY <1>1, MappingCorrect, PTL

-----------------------------------------------------------------------------
(***************************************************************************)
(* The order of packets.  What a worker has ahead of it is younger than    *)
(* what the sessions of its keys hold or have written, a session holds its *)
(* packets in order, and the session that may write for a key holds none   *)
(* that is older than one already written: it is the only one of the key.  *)
(***************************************************************************)
Ahead(w) == Elems(queue[w]) \cup ({worker[w].pkt} \ {None})
Held(s) == Elems(ch[s]) \cup ({cur[s].pkt} \ {None})

ChanOrder(s) ==
    /\ Increasing(ch[s])
    /\ cur[s].pkt # None => \A q \in Elems(ch[s]) : cur[s].pkt < q
HeldOrder(s) == \A p \in Held(s), q \in Ahead(WorkerOf[KeyOf(s)]) : p < q
SentOrder(k) ==
    \A i \in 1..Len(sent[k]) :
        /\ \A q \in Ahead(WorkerOf[k]) : sent[k][i].pkt < q
        /\ \A j \in 1..Len(sent[k]) : i < j => sent[k][i].pkt < sent[k][j].pkt
WriteOrder(s) ==
    MayWrite(s) => \A i \in 1..Len(sent[KeyOf(s)]), q \in Held(s) :
                       sent[KeyOf(s)][i].pkt < q
OrderInv ==
    /\ \A s \in Packets : ChanOrder(s) /\ HeldOrder(s) /\ WriteOrder(s)
    /\ \A k \in Keys : SentOrder(k)

LEMMA OrderInit == Init => OrderInv
  BY ElemsEmpty
  DEF Init, OrderInv, ChanOrder, HeldOrder, SentOrder, WriteOrder, Held, NoCur

(* What is in the hands of a session or was written has arrived. *)
LEMMA HeldTypes ==
    ASSUME TypeOK
    PROVE  /\ \A s \in Packets : Held(s) \subseteq Arrived
           /\ \A w \in Workers : Ahead(w) \subseteq Arrived
           /\ \A k \in Keys : \A i \in 1..Len(sent[k]) : sent[k][i].pkt \in Arrived
<1>1. ASSUME NEW s \in Packets PROVE Held(s) \subseteq Arrived
  <2>1. ch[s] \in Seq(Arrived) /\ cur[s].pkt \in Arrived \cup {None}
    BY HolderTypes
  <2>2. Elems(ch[s]) \subseteq Arrived
    BY <2>1, ElemsType
  <2> QED BY <2>1, <2>2 DEF Held
<1>2. ASSUME NEW w \in Workers PROVE Ahead(w) \subseteq Arrived
  <2>1. queue[w] \in Seq(Arrived) /\ worker[w].pkt \in Arrived \cup {None}
    BY HolderTypes DEF WorkerRec
  <2>2. Elems(queue[w]) \subseteq Arrived
    BY <2>1, ElemsType
  <2> QED BY <2>1, <2>2 DEF Ahead
<1>3. ASSUME NEW k \in Keys, NEW i \in 1..Len(sent[k]) PROVE sent[k][i].pkt \in Arrived
  <2>1. sent[k] \in Seq([pkt : Arrived, sess : Arrived, to : IPs])
    BY HolderTypes
  <2>2. sent[k][i] \in [pkt : Arrived, sess : Arrived, to : IPs]
    BY <2>1, SeqElem
  <2> QED BY <2>2
<1> QED BY <1>1, <1>2, <1>3

(***************************************************************************)
(* A step after which no session holds more, nothing more is written, and  *)
(* workers have at most new packets ahead of them.                         *)
(***************************************************************************)
LEMMA OrderFrame ==
    ASSUME TypeOK, OrderInv, UNCHANGED sent,
           \A p \in Arrived : KeyOf(p)' = KeyOf(p),
           \A w \in Workers : \A q \in Ahead(w)' : q \in Ahead(w) \/ \A x \in Arrived : x < q,
           \A s \in Packets : /\ ChanOrder(s)' /\ Held(s)' \subseteq Held(s)
                              /\ Held(s) # {} => s \in Arrived
                              /\ (MayWrite(s)' => MayWrite(s)) \/ Held(s)' = {}
    PROVE  OrderInv'
<1>1. /\ \A s \in Packets : Held(s) \subseteq Arrived
      /\ \A k \in Keys : \A i \in 1..Len(sent[k]) : sent[k][i].pkt \in Arrived
  BY HeldTypes
<1>2. /\ \A s \in Arrived : KeyOf(s) \in Keys /\ WorkerOf[KeyOf(s)] \in Workers
      /\ \A k \in Keys : WorkerOf[k] \in Workers
  BY ArrivedNumbers, TunnelAssumption
<1>3. ASSUME NEW s \in Packets PROVE HeldOrder(s)'
  <2>1. HeldOrder(s)
    BY DEF OrderInv
  <2> SUFFICES ASSUME NEW p \in Held(s)', NEW q \in Ahead(WorkerOf[KeyOf(s)])' PROVE p < q
    BY DEF HeldOrder
  <2>2. p \in Held(s) /\ s \in Arrived /\ p \in Arrived
    BY <1>1
  <2>3. KeyOf(s)' = KeyOf(s) /\ WorkerOf[KeyOf(s)] \in Workers
    BY <1>2, <2>2
  <2>4. q \in Ahead(WorkerOf[KeyOf(s)]) \/ \A x \in Arrived : x < q
    BY <2>3 DEF Ahead
  <2> QED BY <2>1, <2>2, <2>4 DEF HeldOrder
<1>4. ASSUME NEW k \in Keys PROVE SentOrder(k)'
  <2>1. SentOrder(k)
    BY DEF OrderInv
  <2>2. ASSUME NEW i \in 1..Len(sent[k]), NEW q \in Ahead(WorkerOf[k])'
        PROVE  sent[k][i].pkt < q
    <3>1. q \in Ahead(WorkerOf[k]) \/ \A x \in Arrived : x < q
      BY <1>2 DEF Ahead
    <3> QED BY <1>1, <2>1, <3>1 DEF SentOrder
  <2> QED BY <2>1, <2>2 DEF SentOrder, Ahead
<1>5. ASSUME NEW s \in Packets PROVE WriteOrder(s)'
  <2>1. WriteOrder(s)
    BY DEF OrderInv
  <2>2. Held(s)' # {} => s \in Arrived /\ KeyOf(s)' = KeyOf(s)
    OBVIOUS
  <2> QED BY <2>1, <2>2 DEF WriteOrder
<1> QED BY <1>3, <1>4, <1>5 DEF OrderInv

(* Only a session that was created holds packets. *)
LEMMA HeldBySession ==
    ASSUME TypeOK, RouteInv, NEW s \in Packets, Held(s) # {}
    PROVE  s \in Arrived /\ dialer[s] # "none"
  BY ElemsEmpty DEF TypeOK, TypeDialer, RouteInv, SessionRoute, Held, NoCur

LEMMA OrderEnvironment ==
    ASSUME TypeOK, RouteInv, OrderInv, Environment
    PROVE  OrderInv'
<1>1. /\ \A p \in Arrived : KeyOf(p)' = KeyOf(p)
      /\ UNCHANGED <<worker, ch, dialer, cur, conn, sent>>
  BY KeysStay
<1>2. \A w \in Workers : \A q \in Ahead(w)' : q \in Ahead(w) \/ \A x \in Arrived : x < q
  BY <1>1, QueueArrival DEF Ahead
<1>3. \A s \in Packets : /\ ChanOrder(s)' /\ Held(s)' = Held(s)
                         /\ Held(s) # {} => s \in Arrived
                         /\ MayWrite(s)' = MayWrite(s)
  BY <1>1, HeldBySession DEF OrderInv, ChanOrder, Held, MayWrite
<1> QED BY <1>1, <1>2, <1>3, OrderFrame

(* The packet that leaves a channel is its oldest one. *)
LEMMA ChanFirst ==
    ASSUME TypeOK, OrderInv, NEW s \in Packets, ch[s] # <<>>
    PROVE  /\ Head(ch[s]) \in Arrived /\ Head(ch[s]) \in Elems(ch[s])
           /\ Elems(Tail(ch[s])) = Elems(ch[s]) \ {Head(ch[s])}
           /\ \A x \in Elems(Tail(ch[s])) : Head(ch[s]) < x
           /\ Increasing(Tail(ch[s]))
<1>1. ch[s] \in Seq(Arrived) /\ Arrived \in SUBSET Nat
  BY HolderTypes, ArrivedNumbers
<1>2. Increasing(ch[s])
  BY DEF OrderInv, ChanOrder
<1> QED BY <1>1, <1>2, ElemsTail, ElemsType

(* A session move leaves channels in order and gives no session a packet. *)
LEMMA HeldMove ==
    ASSUME TypeOK, RouteInv, OrderInv, NEW s \in Packets, SessionMove(s),
           NEW t \in Packets
    PROVE  /\ ChanOrder(t)' /\ Held(t)' \subseteq Held(t)
           /\ MayWrite(t)' => MayWrite(t)
<1>1. ChanOrder(t)
  BY DEF OrderInv
<1>2. CASE t # s
  BY <1>1, <1>2 DEF SessionMove, SameSession, ChanOrder, Held, MayWrite
<1>3. CASE t = s
  <2>1. MayWrite(s)' => MayWrite(s)
    BY DEF SessionMove, Control, MayWrite
  <2>2. CASE Rests(s)
    BY <1>1, <1>3, <2>1, <2>2 DEF Rests, ChanOrder, Held
  <2>3. CASE Drains(s)
    <3>1. ch[s] # <<>> /\ ch'[s] = Tail(ch[s]) /\ cur'[s] = cur[s]
      BY <2>3, HolderTypes DEF Drains, DropOne
    <3>2. Elems(Tail(ch[s])) \subseteq Elems(ch[s]) /\ Increasing(Tail(ch[s]))
      BY <3>1, ChanFirst
    <3> QED BY <1>1, <1>3, <2>1, <3>1, <3>2 DEF ChanOrder, Held
  <2>4. CASE Receives(s)
    <3>1. ch[s] # <<>> /\ ch'[s] = Tail(ch[s]) /\ cur'[s].pkt = Head(ch[s])
      BY <2>4 DEF Receives
    <3> QED BY <1>3, <2>1, <3>1, ChanFirst DEF ChanOrder, Held
  <2>5. CASE Finishes(s)
    <3>1. ch'[s] = ch[s] /\ cur'[s].pkt = None
      BY <2>5 DEF Finishes, NoCur
    <3> QED BY <1>1, <1>3, <2>1, <3>1 DEF ChanOrder, Held
  <2> QED BY <2>2, <2>3, <2>4, <2>5 DEF SessionMove
<1> QED BY <1>2, <1>3

(* A session that may write is the one its key finds. *)
LEMMA OneWriter ==
    ASSUME TypeOK, SessionsInv, NEW s \in Packets, NEW t \in Packets,
           MayWrite(s), MayWrite(t), KeyOf(s) = KeyOf(t)
    PROVE  s = t
<1>1. ASSUME NEW r \in Packets, MayWrite(r) PROVE natTable[KeyOf(r)] = r
  <2>1. SessionInv(r)
    BY DEF SessionsInv
  <2>2. Live(r)
    BY <1>1, <2>1 DEF MayWrite, SessionInv, Live, ReaderPC
  <2> QED BY <2>1, <2>2 DEF SessionInv
<1> QED BY <1>1

LEMMA OrderWrite ==
    ASSUME TypeOK, SessionsInv, RouteInv, OrderInv, NEW s \in Packets, SessionMove(s),
           Finishes(s), ~UNCHANGED sent
    PROVE  OrderInv'
<1> DEFINE p == cur[s].pkt
           k == KeyOf(s)
<1>1. /\ dialer[s] = "write" /\ conn[s] = "open" /\ MayWrite(s)
      /\ sent' = [sent EXCEPT ![k] = Append(@, Written(s))]
      /\ UNCHANGED <<pkt, queue, worker>> /\ cur'[s] = NoCur /\ ch'[s] = ch[s]
  BY DEF Finishes, MayWrite, SessionMove
<1>2. s \in Arrived /\ p \in Arrived /\ p # None /\ k \in Keys /\ cur[s].to \in IPs
  BY <1>1, HolderTypes, ArrivedNumbers DEF TypeOK, TypeDialer
<1>3. /\ Written(s) \in [pkt : Arrived, sess : Arrived, to : IPs] /\ Written(s).pkt = p
      /\ \A j \in Keys : sent[j] \in Seq([pkt : Arrived, sess : Arrived, to : IPs])
      /\ \A j \in Keys : sent'[j] = IF j = k THEN Append(sent[k], Written(s)) ELSE sent[j]
  BY <1>1, <1>2, HolderTypes DEF Written
<1>4. /\ Len(sent[k]) \in Nat /\ Len(sent'[k]) = Len(sent[k]) + 1
      /\ \A i \in 1..Len(sent[k]) : sent'[k][i] = sent[k][i]
      /\ sent'[k][Len(sent[k]) + 1].pkt = p
  <2>1. sent[k] \in Seq([pkt : Arrived, sess : Arrived, to : IPs])
        /\ sent'[k] = Append(sent[k], Written(s))
    BY <1>2, <1>3
  <2>2. Len(sent[k]) \in Nat /\ Len(sent'[k]) = Len(sent[k]) + 1
    BY <2>1
  <2>3. \A i \in 1..Len(sent[k]) : sent'[k][i] = sent[k][i]
    BY <2>1
  <2>4. sent'[k][Len(sent[k]) + 1] = Written(s)
    BY <2>1
  <2> QED BY <1>3, <2>2, <2>3, <2>4
<1>5. /\ \A r : KeyOf(r)' = KeyOf(r)
      /\ \A w : Ahead(w)' = Ahead(w)
  BY <1>1 DEF KeyOf, Ahead
<1>6. p \in Held(s) /\ p \notin Held(s)' /\ Held(s)' \subseteq Elems(ch[s])
  <2>1. Held(s)' = Elems(ch[s])
    BY <1>1 DEF Held, NoCur
  <2>2. p \in Nat /\ ~(p < p)
    BY <1>2, ArrivedNumbers
  <2>3. \A q \in Elems(ch[s]) : p < q
    BY <1>2 DEF OrderInv, ChanOrder
  <2> QED BY <1>2, <2>1, <2>2, <2>3 DEF Held
<1> HIDE DEF p, k
<1>7. ASSUME NEW t \in Packets PROVE ChanOrder(t)' /\ HeldOrder(t)'
  <2>1. ChanOrder(t)' /\ Held(t)' \subseteq Held(t) /\ HeldOrder(t)
    BY HeldMove DEF OrderInv
  <2> QED BY <1>5, <2>1 DEF HeldOrder
<1>8. ASSUME NEW j \in Keys PROVE SentOrder(j)'
  <2>1. SentOrder(j)
    BY DEF OrderInv
  <2>2. CASE j # k
    BY <1>3, <1>5, <2>1, <2>2 DEF SentOrder
  <2>3. CASE j = k
    <3>1. \A q \in Ahead(WorkerOf[k]) : p < q
      BY <1>6 DEF OrderInv, HeldOrder, k
    <3>2. \A i \in 1..Len(sent[k]) : sent[k][i].pkt < p
      BY <1>1, <1>6 DEF OrderInv, WriteOrder, k
    <3>3. \A i \in 1..Len(sent'[k]) : i \in 1..Len(sent[k]) \/ i = Len(sent[k]) + 1
      BY <1>4
    <3>4. ASSUME NEW i \in 1..Len(sent'[k]), NEW q \in Ahead(WorkerOf[k])
          PROVE  sent'[k][i].pkt < q
      BY <1>4, <2>1, <2>3, <3>1, <3>3 DEF SentOrder
    <3>5. ASSUME NEW i \in 1..Len(sent'[k]), NEW h \in 1..Len(sent'[k]), i < h
          PROVE  sent'[k][i].pkt < sent'[k][h].pkt
      <4>1. i \in 1..Len(sent[k])
        BY <1>4, <3>5
      <4> QED BY <1>4, <2>1, <2>3, <3>2, <3>3, <3>5, <4>1 DEF SentOrder
    <3> QED BY <1>5, <2>3, <3>4, <3>5 DEF SentOrder
  <2> QED BY <2>2, <2>3
<1>9. ASSUME NEW t \in Packets PROVE WriteOrder(t)'
  <2>1. /\ Held(t)' \subseteq Held(t) /\ WriteOrder(t)
        /\ MayWrite(t)' => MayWrite(t)
    BY HeldMove DEF OrderInv
  <2>2. SUFFICES ASSUME MayWrite(t), Held(t) # {}
                 PROVE  \A i \in 1..Len(sent'[KeyOf(t)]), q \in Held(t)' :
                            sent'[KeyOf(t)][i].pkt < q
    BY <1>5, <2>1 DEF WriteOrder
  <2>3. KeyOf(t) \in Keys
    BY <2>2, HeldBySession, ArrivedNumbers
  <2>4. CASE KeyOf(t) # k
    BY <1>3, <2>1, <2>2, <2>3, <2>4 DEF WriteOrder
  <2>5. CASE KeyOf(t) = k
    <3>1. t = s
      BY <1>1, <2>2, <2>5, OneWriter DEF k
    <3>2. \A q \in Held(s)' : p < q
      BY <1>2, <1>6 DEF OrderInv, ChanOrder, p
    <3>3. \A i \in 1..Len(sent'[k]) : i \in 1..Len(sent[k]) \/ i = Len(sent[k]) + 1
      BY <1>4
    <3> QED BY <1>4, <2>1, <2>2, <2>5, <3>1, <3>2, <3>3 DEF WriteOrder
  <2> QED BY <2>4, <2>5
<1> QED BY <1>7, <1>8, <1>9 DEF OrderInv

LEMMA OrderSession ==
    ASSUME TypeOK, SessionsInv, RouteInv, OrderInv, NEW s \in Packets, SessionMove(s)
    PROVE  OrderInv'
<1>1. CASE UNCHANGED sent
  <2>1. (\A r : KeyOf(r)' = KeyOf(r)) /\ (\A w : Ahead(w)' = Ahead(w))
    BY DEF SessionMove, KeyOf, Ahead
  <2> QED BY <1>1, <2>1, HeldMove, HeldBySession, OrderFrame
<1>2. CASE ~UNCHANGED sent
  BY <1>2, OrderWrite DEF SessionMove, Rests, Drains, Receives
<1> QED BY <1>1, <1>2

(* Send puts the packet of worker w into the channel of its session. *)
LEMMA OrderPut ==
    ASSUME TypeOK, RouteInv, OrderInv, NEW w \in Workers, SendPut(w), ~UNCHANGED ch
    PROVE  OrderInv'
<1> USE DEF inVars, mapVars
<1> DEFINE s == worker[w].sess
           p == worker[w].pkt
<1>1. /\ s \in Packets /\ s \in Arrived /\ p \in Arrived /\ p # None
      /\ WorkerOf[KeyOf(p)] = w /\ KeyOf(s) = KeyOf(p) /\ KeyOf(s) \in Keys
      /\ \A q \in Elems(queue[w]) : p < q
  <2>1. worker[w].pc = "put" /\ WorkerRoute(w)
    BY DEF SendPut, RouteInv
  <2>2. s \in Arrived /\ p \in Arrived /\ p # None
    BY <2>1, ArrivedNumbers DEF TypeOK, TypeWorker
  <2> QED BY <2>1, <2>2, ArrivedNumbers DEF WorkerRoute
<1>2. /\ UNCHANGED <<pkt, queue, cur, conn, dialer, sent>>
      /\ ch' = [ch EXCEPT ![s] = Append(@, p)] /\ worker' = [worker EXCEPT ![w] = Idle]
  BY DEF SendPut
<1>3. /\ \A t \in Packets : ch'[t] = IF t = s THEN Append(ch[s], p) ELSE ch[t]
      /\ \A v \in Workers : v # w => worker'[v] = worker[v]
      /\ worker'[w].pkt = None
  BY <1>1, <1>2, HolderTypes DEF Idle
<1>4. \A r : KeyOf(r)' = KeyOf(r) /\ MayWrite(r)' = MayWrite(r)
  BY <1>2 DEF KeyOf, MayWrite
<1>5. (\A v \in Workers : Ahead(v)' \subseteq Ahead(v)) /\ (\A q \in Ahead(w)' : p < q)
  BY <1>1, <1>2, <1>3 DEF Ahead
<1>6. p \in Ahead(w) /\ \A q \in Held(s) : q < p
  BY <1>1 DEF Ahead, OrderInv, HeldOrder
<1> HIDE DEF s, p
<1>7. /\ Increasing(Append(ch[s], p)) /\ Elems(Append(ch[s], p)) = Elems(ch[s]) \cup {p}
      /\ cur[s].pkt # None => \A q \in Elems(Append(ch[s], p)) : cur[s].pkt < q
  <2>1. ch[s] \in Seq(Arrived) /\ Arrived \in SUBSET Nat /\ ChanOrder(s)
    BY <1>1, HolderTypes, ArrivedNumbers DEF OrderInv
  <2>2. Elems(Append(ch[s], p)) = Elems(ch[s]) \cup {p}
    BY <1>1, <2>1, ElemsAppend
  <2>3. (\A q \in Elems(ch[s]) : q < p) /\ (cur[s].pkt # None => cur[s].pkt < p)
    BY <1>6 DEF Held
  <2>4. Increasing(Append(ch[s], p))
    BY <1>1, <2>1, <2>3, IncreasingAppend DEF ChanOrder
  <2> QED BY <2>1, <2>2, <2>3, <2>4 DEF ChanOrder
<1>8. \A t \in Packets : Held(t)' = IF t = s THEN Held(t) \cup {p} ELSE Held(t)
  BY <1>2, <1>3, <1>7 DEF Held
<1>9. ASSUME NEW t \in Packets PROVE ChanOrder(t)' /\ HeldOrder(t)' /\ WriteOrder(t)'
  <2>1. ChanOrder(t) /\ HeldOrder(t) /\ WriteOrder(t)
    BY DEF OrderInv
  <2>2. ChanOrder(t)'
    BY <1>2, <1>3, <1>7, <2>1 DEF ChanOrder
  <2>3. CASE t # s
    <3>1. Held(t) # {} => WorkerOf[KeyOf(t)] \in Workers
      BY HeldBySession, ArrivedNumbers
    <3>2. HeldOrder(t)'
      BY <1>4, <1>5, <1>8, <2>1, <2>3, <3>1 DEF HeldOrder
    <3> QED BY <1>2, <1>4, <1>8, <2>1, <2>2, <2>3, <3>2 DEF WriteOrder
  <2>4. CASE t = s
    <3>1. WorkerOf[KeyOf(s)] = w
      BY <1>1
    <3>2. HeldOrder(t)'
      BY <1>4, <1>5, <1>8, <2>1, <2>4, <3>1 DEF HeldOrder
    <3>3. \A i \in 1..Len(sent[KeyOf(s)]) : sent[KeyOf(s)][i].pkt < p
      BY <1>1, <1>6, <3>1 DEF OrderInv, SentOrder
    <3> QED BY <1>2, <1>4, <1>8, <2>1, <2>2, <2>4, <3>2, <3>3 DEF WriteOrder
  <2> QED BY <2>3, <2>4
<1>10. ASSUME NEW k \in Keys PROVE SentOrder(k)'
  <2>1. SentOrder(k) /\ WorkerOf[k] \in Workers
    BY TunnelAssumption DEF OrderInv
  <2> QED BY <1>2, <1>5, <2>1 DEF SentOrder
<1> QED BY <1>9, <1>10 DEF OrderInv

LEMMA OrderWorker ==
    ASSUME TypeOK, RouteInv, OrderInv, NEW w \in Workers, WorkerNext(w)
    PROVE  OrderInv'
<1> USE DEF inVars, mapVars
<1>1. CASE SendPut(w) /\ ~UNCHANGED ch
  BY <1>1, OrderPut
<1>2. CASE ~SendPut(w) \/ UNCHANGED ch
  <2>1. /\ UNCHANGED <<pkt, ch, cur, conn, sent>>
        /\ \A r : KeyOf(r)' = KeyOf(r) /\ Held(r)' = Held(r)
    BY <1>2 DEF WorkerNext, processUDP, GetOrCreate, SendCheck, SendPut, KeyOf, Held
  <2>2. ASSUME NEW v \in Workers PROVE Ahead(v)' \subseteq Ahead(v)
    <3>1. CASE processUDP(w)
      <4>1. /\ Head(queue[w]) \in Elems(queue[w])
            /\ Elems(Tail(queue[w])) \subseteq Elems(queue[w])
        BY <3>1, TakeFirst DEF processUDP
      <4>2. /\ queue'[v] = IF v = w THEN Tail(queue[w]) ELSE queue[v]
            /\ worker'[v] = worker[v] \/ (v = w /\ worker'[w].pkt = Head(queue[w]))
        BY <3>1, HolderTypes DEF processUDP
      <4> QED BY <4>1, <4>2 DEF Ahead
    <3>2. CASE GetOrCreate(w) \/ SendCheck(w) \/ SendPut(w)
      <4>1. UNCHANGED queue /\ worker'[v].pkt \in {worker[v].pkt, None}
        <5>1. worker \in [Workers -> WorkerRec] /\ worker[w] \in WorkerRec
          BY HolderTypes
        <5>2. CASE GetOrCreate(w)
          BY <5>1, <5>2 DEF GetOrCreate
        <5>3. CASE SendCheck(w) \/ SendPut(w)
          BY <5>1, <5>3 DEF SendCheck, SendPut, Idle, WorkerRec
        <5> QED BY <3>2, <5>2, <5>3
      <4> QED BY <4>1 DEF Ahead
    <3> QED BY <3>1, <3>2 DEF WorkerNext
  <2>3. ASSUME NEW s \in Packets PROVE (MayWrite(s)' => MayWrite(s)) \/ Held(s)' = {}
    <3>1. CASE dialer'[s] = dialer[s]
      BY <2>1, <3>1 DEF MayWrite
    <3>2. CASE dialer'[s] # dialer[s]
      <4>1. worker[w].pc = "lookup" /\ s = worker[w].pkt
        BY <3>2, HolderTypes DEF WorkerNext, processUDP, GetOrCreate, SendCheck, SendPut
      <4> QED BY <2>1, <4>1, Unused, HeldBySession
    <3> QED BY <3>1, <3>2
  <2>4. \A s \in Packets : ChanOrder(s)' /\ (Held(s) # {} => s \in Arrived)
    BY <2>1, HeldBySession DEF OrderInv, ChanOrder
  <2> QED BY <2>1, <2>2, <2>3, <2>4, OrderFrame
<1> QED BY <1>1, <1>2

LEMMA OrderStutter == OrderInv /\ UNCHANGED vars => OrderInv'
  BY DEF OrderInv, ChanOrder, HeldOrder, SentOrder, WriteOrder, Held, Ahead, MayWrite,
         KeyOf, vars, inVars

LEMMA OrderCorrect == Spec => [](TypeOK /\ RouteInv /\ OrderInv)
<1>1. Init => OrderInv
  BY OrderInit
<1>2. TypeOK /\ SessionsInv /\ RouteInv /\ OrderInv /\ [Next]_vars => OrderInv'
  BY OrderEnvironment, OrderWorker, DialerMoves, ReaderMoves, OrderSession,
     OrderStutter DEF Next
<1> QED BY <1>1, <1>2, RouteCorrect, PTL DEF Spec

(***************************************************************************)
(* "It ensures that packets can be sent sequentially" (packetSender): the  *)
(* packets of a client leave in the order they arrived, whatever sessions  *)
(* they were written by.                                                   *)
(***************************************************************************)
THEOREM SentOrdered == Spec => []SentInOrder
<1>1. OrderInv => SentInOrder
  BY DEF OrderInv, SentOrder, SentInOrder
<1> QED BY <1>1, OrderCorrect, PTL

-----------------------------------------------------------------------------
(***************************************************************************)
(* The owner of a packet: it is in one place until it is dropped, once,    *)
(* and in none afterwards.                                                 *)
(***************************************************************************)
InQueues(p) == {w \in Workers : p \in Elems(queue[w])}
AtWorkers(p) == {w \in Workers : worker[w].pkt = p}
InChans(p) == {s \in Packets : p \in Elems(ch[s])}
InProcess(p) == {s \in Packets : cur[s].pkt = p}

Nowhere(p) == InQueues(p) = {} /\ AtWorkers(p) = {} /\ InChans(p) = {} /\ InProcess(p) = {}
OnlyQueue(p) == /\ \E w : InQueues(p) = {w}
                /\ AtWorkers(p) = {} /\ InChans(p) = {} /\ InProcess(p) = {}
OnlyWorker(p) == /\ \E w : AtWorkers(p) = {w}
                 /\ InQueues(p) = {} /\ InChans(p) = {} /\ InProcess(p) = {}
OnlyChan(p) == /\ \E s : InChans(p) = {s}
               /\ InQueues(p) = {} /\ AtWorkers(p) = {} /\ InProcess(p) = {}
OnlyProcess(p) == /\ \E s : InProcess(p) = {s}
                  /\ InQueues(p) = {} /\ AtWorkers(p) = {} /\ InChans(p) = {}
Owned(p) == OnlyQueue(p) \/ OnlyWorker(p) \/ OnlyChan(p) \/ OnlyProcess(p)
Fate(p) == (drops[p] = 0 /\ Owned(p)) \/ (drops[p] = 1 /\ Nowhere(p))
OwnInv == /\ \A p \in Arrived : Fate(p)
          /\ \A p \in Packets \ Arrived : drops[p] = 0

LEMMA OwnInit == Init => OwnInv
  BY DEF Init, OwnInv, Arrived

(* A packet that has not arrived is nowhere. *)
LEMMA NotArrived ==
    ASSUME TypeOK, NEW p, p \notin Arrived, p # None
    PROVE  Nowhere(p)
<1>1. \A w \in Workers : Ahead(w) \subseteq Arrived
  BY HeldTypes
<1>2. \A s \in Packets : Held(s) \subseteq Arrived
  BY HeldTypes
<1> QED BY <1>1, <1>2 DEF Nowhere, InQueues, AtWorkers, InChans, InProcess, Ahead, Held

(* A packet that a step leaves where it is. *)
SamePlace(q) ==
    /\ InQueues(q)' = InQueues(q) /\ AtWorkers(q)' = AtWorkers(q)
    /\ InChans(q)' = InChans(q) /\ InProcess(q)' = InProcess(q)
LEMMA FateStays ==
    ASSUME NEW q, Fate(q), SamePlace(q), drops'[q] = drops[q]
    PROVE  Fate(q)'
  BY DEF Fate, SamePlace, Nowhere, Owned, OnlyQueue, OnlyWorker, OnlyChan, OnlyProcess

(* The step touches no packet but p, and settles the fate of p. *)
LEMMA OwnMove ==
    ASSUME TypeOK, OwnInv, NEW p, Arrived' = Arrived, Fate(p)',
           \A q \in Arrived \ {p} : SamePlace(q),
           \A q \in Packets \ {p} : drops'[q] = drops[q],
           p \in Arrived
    PROVE  OwnInv'
<1>1. Arrived \subseteq Packets
  BY ArrivedNumbers
<1>2. \A q \in Arrived : Fate(q)'
  BY <1>1, FateStays DEF OwnInv
<1> QED BY <1>2 DEF OwnInv

LEMMA OwnFrame ==
    ASSUME TypeOK, OwnInv, UNCHANGED <<pkt, queue, ch, drops>>,
           \A w \in Workers : worker'[w].pkt = worker[w].pkt,
           \A s \in Packets : cur'[s].pkt = cur[s].pkt
    PROVE  OwnInv'
<1>1. \A q : SamePlace(q)
  BY DEF SamePlace, InQueues, AtWorkers, InChans, InProcess
<1>2. \A q \in Arrived : Fate(q)'
  BY <1>1, FateStays DEF OwnInv
<1> QED BY <1>2 DEF OwnInv, Arrived

LEMMA OwnEnvironment ==
    ASSUME TypeOK, RouteInv, OwnInv, Environment
    PROVE  OwnInv'
<1>1. UNCHANGED <<worker, ch, cur>>
  BY KeysStay
<1>2. CASE UNCHANGED <<queue, pkt, drops>>
  BY <1>1, <1>2, OwnFrame
<1>3. ASSUME NEW p, NewPacket(p) PROVE OwnInv'
  <2>1. /\ p \in Packets /\ p \notin Arrived /\ Arrived' = Arrived \cup {p} /\ p # None
        /\ drops[p] = 0 /\ Nowhere(p) /\ Arrived \subseteq Packets
    BY <1>3, ArrivedNumbers, NotArrived DEF NewPacket, OwnInv
  <2>2. CASE UNCHANGED queue /\ Drop(p)
    <3>1. \A q : SamePlace(q)
      BY <1>1, <2>2 DEF SamePlace, InQueues, AtWorkers, InChans, InProcess
    <3>2. /\ drops'[p] = 1
          /\ \A q \in Packets : q # p => drops'[q] = drops[q]
      BY <2>1, <2>2, HolderTypes DEF Drop
    <3>3. Fate(p)'
      BY <2>1, <3>1, <3>2 DEF Fate, Nowhere, SamePlace
    <3>4. \A q \in Arrived : Fate(q)'
      BY <2>1, <3>1, <3>2, FateStays DEF OwnInv
    <3> QED BY <2>1, <3>2, <3>3, <3>4 DEF OwnInv
  <2>3. CASE /\ queue' = [queue EXCEPT ![WorkerOf[pkt'[p].key]] = Append(@, p)]
             /\ UNCHANGED drops
    <3> DEFINE v == WorkerOf[pkt'[p].key]
    <3>1. v \in Workers
      BY <1>3, TunnelAssumption DEF NewPacket
    <3> HIDE DEF v
    <3>2. \A w \in Workers : queue'[w] = IF w = v THEN Append(queue[v], p) ELSE queue[w]
      BY <2>3, <3>1, HolderTypes DEF v
    <3>3. Elems(Append(queue[v], p)) = Elems(queue[v]) \cup {p}
      <4>1. queue[v] \in Seq(Arrived) /\ Arrived \subseteq Packets
        BY <3>1, HolderTypes, ArrivedNumbers
      <4>2. queue[v] \in Seq(Packets)
        BY <4>1, SeqMono
      <4> QED BY <2>1, <4>2, ElemsAppend
    <3>4. \A q : q # p => SamePlace(q)
      BY <1>1, <3>2, <3>3 DEF SamePlace, InQueues, AtWorkers, InChans, InProcess
    <3>5. /\ InQueues(p)' = {v} /\ AtWorkers(p)' = {} /\ InChans(p)' = {}
          /\ InProcess(p)' = {}
      BY <1>1, <2>1, <3>1, <3>2, <3>3
      DEF Nowhere, InQueues, AtWorkers, InChans, InProcess
    <3>6. Fate(p)'
      BY <2>1, <2>3, <3>5 DEF Fate, Owned, OnlyQueue
    <3>7. \A q \in Arrived : Fate(q)'
      BY <2>1, <2>3, <3>4, FateStays DEF OwnInv
    <3> QED BY <2>1, <2>3, <3>6, <3>7 DEF OwnInv
  <2> QED BY <1>3, <2>2, <2>3 DEF NewPacket
<1> QED BY <1>2, <1>3, ArrivalMove

(* Drop of an owned packet that then is nowhere. *)
LEMMA DropOwned ==
    ASSUME TypeOK, OwnInv, NEW p \in Arrived, Owned(p), Drop(p)
    PROVE  /\ Nowhere(p)' => Fate(p)'
           /\ \A q \in Packets \ {p} : drops'[q] = drops[q]
<1>1. Fate(p) /\ p \in Packets /\ drops \in [Packets -> Nat]
  BY ArrivedNumbers, HolderTypes DEF OwnInv
<1>2. drops[p] = 0
  BY <1>1 DEF Fate, Owned, Nowhere, OnlyQueue, OnlyWorker, OnlyChan, OnlyProcess
<1> QED BY <1>1, <1>2 DEF Drop, Fate

(* Where a packet is found is the only place it is in. *)
LEMMA FoundHere ==
    ASSUME OwnInv, NEW p \in Arrived
    PROVE  /\ \A w \in InQueues(p) : OnlyQueue(p) /\ InQueues(p) = {w}
           /\ \A w \in AtWorkers(p) : OnlyWorker(p) /\ AtWorkers(p) = {w}
           /\ \A s \in InChans(p) : OnlyChan(p) /\ InChans(p) = {s}
           /\ \A s \in InProcess(p) : OnlyProcess(p) /\ InProcess(p) = {s}
           /\ Owned(p) => drops[p] = 0
<1>1. Fate(p)
  BY DEF OwnInv
<1> QED BY <1>1 DEF Fate, Owned, Nowhere, OnlyQueue, OnlyWorker, OnlyChan, OnlyProcess

LEMMA OwnWorker ==
    ASSUME TypeOK, RouteInv, OrderInv, OwnInv, NEW w \in Workers, WorkerNext(w)
    PROVE  OwnInv'
<1> USE DEF inVars, mapVars
<1>1. /\ UNCHANGED <<pkt, cur>> /\ Arrived' = Arrived
      /\ worker \in [Workers -> WorkerRec] /\ worker[w] \in WorkerRec
      /\ queue \in [Workers -> Seq(Arrived)] /\ ch \in [Packets -> Seq(Arrived)]
      /\ Arrived \subseteq Packets /\ None \notin Arrived
  BY HolderTypes, ArrivedNumbers
  DEF WorkerNext, processUDP, GetOrCreate, SendCheck, SendPut, Arrived
<1>2. CASE processUDP(w)
  <2>0. PICK p : p = Head(queue[w])
    OBVIOUS
  <2>1. /\ p \in Arrived /\ p \in Elems(queue[w])
        /\ Elems(Tail(queue[w])) = Elems(queue[w]) \ {p}
    BY <1>2, <2>0, TakeFirst DEF processUDP
  <2>2. /\ UNCHANGED ch /\ worker[w].pkt = None
        /\ \A v \in Workers : queue'[v] = IF v = w THEN Tail(queue[w]) ELSE queue[v]
        /\ \A v \in Workers : v # w => worker'[v] = worker[v]
        /\ \/ worker'[w].pkt = p /\ UNCHANGED drops
           \/ worker'[w] = worker[w] /\ Drop(p)
    BY <1>1, <1>2, <2>0 DEF processUDP, RouteInv, WorkerRoute
  <2>3. w \in InQueues(p)
    BY <2>1 DEF InQueues
  <2>4. /\ InQueues(p) = {w} /\ AtWorkers(p) = {} /\ InChans(p) = {} /\ InProcess(p) = {}
        /\ Owned(p) /\ drops[p] = 0
    BY <2>1, <2>3, FoundHere DEF OnlyQueue, Owned
  <2>5. \A q \in Arrived \ {p} : SamePlace(q)
    BY <1>1, <2>1, <2>2 DEF SamePlace, InQueues, AtWorkers, InChans, InProcess
  <2>6. InQueues(p)' = {} /\ InChans(p)' = {} /\ InProcess(p)' = {}
    BY <1>1, <2>1, <2>2, <2>4 DEF InQueues, InChans, InProcess
  <2>7. CASE worker'[w].pkt = p /\ UNCHANGED drops
    <3>1. AtWorkers(p)' = {w}
      BY <2>2, <2>4, <2>7 DEF AtWorkers
    <3>2. Fate(p)'
      BY <2>4, <2>6, <2>7, <3>1 DEF Fate, Owned, OnlyWorker
    <3> QED BY <1>1, <2>1, <2>5, <2>7, <3>2, OwnMove
  <2>8. CASE worker'[w] = worker[w] /\ Drop(p)
    <3>1. Nowhere(p)'
      BY <2>2, <2>4, <2>6, <2>8 DEF Nowhere, AtWorkers
    <3> QED BY <1>1, <2>1, <2>4, <2>5, <2>8, <3>1, OwnMove, DropOwned
  <2> QED BY <2>2, <2>7, <2>8
<1>3. CASE GetOrCreate(w)
  <2>1. UNCHANGED <<queue, ch, drops>> /\ \A v \in Workers : worker'[v].pkt = worker[v].pkt
    BY <1>1, <1>3 DEF GetOrCreate
  <2> QED BY <1>1, <2>1, OwnFrame
<1>4. CASE SendCheck(w) \/ SendPut(w)
  <2>0. PICK p, s : p = worker[w].pkt /\ s = worker[w].sess
    OBVIOUS
  <2>1. p \in Arrived /\ s \in Packets
    BY <1>1, <1>4, <2>0 DEF SendCheck, SendPut, TypeOK, TypeWorker
  <2>2. /\ UNCHANGED queue /\ \A v \in Workers : v # w => worker'[v] = worker[v]
        /\ \/ worker'[w].pkt = p /\ UNCHANGED <<ch, drops>>
           \/ worker'[w].pkt = None /\ UNCHANGED ch /\ Drop(p)
           \/ /\ worker'[w].pkt = None /\ UNCHANGED drops
              /\ ch' = [ch EXCEPT ![s] = Append(@, p)]
    BY <1>1, <1>4, <2>0 DEF SendCheck, SendPut, Idle, WorkerRec
  <2>3. w \in AtWorkers(p)
    BY <2>0 DEF AtWorkers
  <2>4. /\ AtWorkers(p) = {w} /\ InQueues(p) = {} /\ InChans(p) = {} /\ InProcess(p) = {}
        /\ Owned(p) /\ drops[p] = 0
    BY <2>1, <2>3, FoundHere DEF OnlyWorker, Owned
  <2>5. CASE worker'[w].pkt = p /\ UNCHANGED <<ch, drops>>
    BY <1>1, <2>0, <2>2, <2>5, OwnFrame
  <2>6. CASE worker'[w].pkt = None /\ UNCHANGED ch /\ Drop(p)
    <3>1. \A q \in Arrived \ {p} : SamePlace(q)
      BY <1>1, <2>0, <2>2, <2>6, ZenonT(60)
          DEF SamePlace, InQueues, AtWorkers, InChans, InProcess
    <3>2. Nowhere(p)'
      <4>1. AtWorkers(p)' = {}
        BY <1>1, <2>1, <2>2, <2>4, <2>6 DEF AtWorkers
      <4>2. InQueues(p)' = {} /\ InChans(p)' = {} /\ InProcess(p)' = {}
        BY <1>1, <2>2, <2>4, <2>6 DEF InQueues, InChans, InProcess
      <4> QED BY <4>1, <4>2 DEF Nowhere
    <3> QED BY <1>1, <2>1, <2>4, <2>6, <3>1, <3>2, OwnMove, DropOwned
  <2>7. CASE /\ worker'[w].pkt = None /\ UNCHANGED drops
             /\ ch' = [ch EXCEPT ![s] = Append(@, p)]
    <3>1. /\ \A t \in Packets : ch'[t] = IF t = s THEN Append(ch[s], p) ELSE ch[t]
          /\ Elems(Append(ch[s], p)) = Elems(ch[s]) \cup {p}
      BY <1>1, <2>1, <2>7, ElemsAppend
    <3>2. \A q \in Arrived \ {p} : SamePlace(q)
      BY <1>1, <2>0, <2>2, <2>7, <3>1, ZenonT(60)
          DEF SamePlace, InQueues, AtWorkers, InChans, InProcess
    <3>3. /\ InChans(p)' = {s}
          /\ InQueues(p)' = {} /\ AtWorkers(p)' = {} /\ InProcess(p)' = {}
      <4>1. AtWorkers(p)' = {}
        BY <1>1, <2>1, <2>2, <2>4, <2>7 DEF AtWorkers
      <4>2. InQueues(p)' = {} /\ InProcess(p)' = {}
        BY <1>1, <2>2, <2>4 DEF InQueues, InProcess
      <4>3. InChans(p)' = {s}
        BY <2>1, <2>4, <3>1 DEF InChans
      <4> QED BY <4>1, <4>2, <4>3
    <3>4. Fate(p)'
      BY <2>4, <2>7, <3>3 DEF Fate, Owned, OnlyChan
    <3> QED BY <1>1, <2>1, <2>7, <3>2, <3>4, OwnMove
  <2> QED BY <2>2, <2>5, <2>6, <2>7
<1> QED BY <1>2, <1>3, <1>4 DEF WorkerNext

LEMMA OwnSession ==
    ASSUME TypeOK, RouteInv, OrderInv, OwnInv, NEW s \in Packets, SessionMove(s)
    PROVE  OwnInv'
<1>1. /\ UNCHANGED <<pkt, queue, worker>> /\ Arrived' = Arrived
      /\ \A t \in Packets \ {s} : ch'[t] = ch[t] /\ cur'[t] = cur[t]
      /\ ch \in [Packets -> Seq(Arrived)] /\ None \notin Arrived
  BY HolderTypes, ArrivedNumbers DEF SessionMove, SameSession, Arrived
<1>2. CASE Rests(s)
  <2>1. \A q : SamePlace(q)
    BY <1>1, <1>2 DEF Rests, SamePlace, InQueues, AtWorkers, InChans, InProcess
  <2>2. \A q \in Arrived : Fate(q)'
    BY <1>2, <2>1, FateStays DEF OwnInv, Rests
  <2> QED BY <1>1, <1>2, <2>2 DEF OwnInv, Rests
<1>3. CASE Drains(s) \/ Receives(s)
  <2>0. PICK p : p = Head(ch[s])
    OBVIOUS
  <2>1. /\ ch[s] # <<>> /\ ch'[s] = Tail(ch[s])
        /\ \/ cur'[s] = cur[s] /\ Drop(p)
           \/ cur'[s].pkt = p /\ cur[s].pkt = None /\ UNCHANGED drops
    BY <1>1, <1>3, <2>0 DEF Drains, DropOne, Receives, RouteInv, SessionRoute, NoCur
  <2>2. /\ p \in Arrived /\ p \in Elems(ch[s])
        /\ Elems(Tail(ch[s])) = Elems(ch[s]) \ {p}
    BY <2>0, <2>1, ChanFirst
  <2>3. s \in InChans(p)
    BY <2>2 DEF InChans
  <2>4. /\ InChans(p) = {s} /\ InQueues(p) = {} /\ AtWorkers(p) = {} /\ InProcess(p) = {}
        /\ Owned(p) /\ drops[p] = 0
    BY <2>2, <2>3, FoundHere DEF OnlyChan, Owned
  <2>5. \A q \in Arrived \ {p} : SamePlace(q)
    BY <1>1, <2>1, <2>2 DEF SamePlace, InQueues, AtWorkers, InChans, InProcess
  <2>6. InQueues(p)' = {} /\ AtWorkers(p)' = {} /\ InChans(p)' = {}
    BY <1>1, <2>1, <2>2, <2>4 DEF InQueues, AtWorkers, InChans
  <2>7. CASE cur'[s] = cur[s] /\ Drop(p)
    <3>1. Nowhere(p)'
      BY <1>1, <2>4, <2>6, <2>7 DEF Nowhere, InProcess
    <3> QED BY <1>1, <2>2, <2>4, <2>5, <2>7, <3>1, OwnMove, DropOwned
  <2>8. CASE cur'[s].pkt = p /\ cur[s].pkt = None /\ UNCHANGED drops
    <3>1. InProcess(p)' = {s}
      BY <1>1, <2>4, <2>8 DEF InProcess
    <3>2. Fate(p)'
      BY <2>4, <2>6, <2>8, <3>1 DEF Fate, Owned, OnlyProcess
    <3> QED BY <1>1, <2>2, <2>5, <2>8, <3>2, OwnMove
  <2> QED BY <2>1, <2>7, <2>8
<1>4. CASE Finishes(s)
  <2>0. PICK p : p = cur[s].pkt
    OBVIOUS
  <2>1. p \in Arrived
    BY <1>4, <2>0 DEF Finishes, TypeOK, TypeDialer
  <2>2. ch'[s] = ch[s] /\ cur'[s].pkt = None /\ Drop(p)
    BY <1>4, <2>0 DEF Finishes, NoCur
  <2>3. s \in InProcess(p)
    BY <2>0 DEF InProcess
  <2>4. \A q \in Arrived \ {p} : SamePlace(q)
    BY <1>1, <2>0, <2>2 DEF SamePlace, InQueues, AtWorkers, InChans, InProcess
  <2>5. /\ InProcess(p) = {s} /\ InQueues(p) = {} /\ AtWorkers(p) = {} /\ InChans(p) = {}
        /\ Owned(p)
    BY <2>1, <2>3, FoundHere DEF OnlyProcess, Owned
  <2>6. Nowhere(p)'
    BY <1>1, <2>1, <2>2, <2>5 DEF Nowhere, InQueues, AtWorkers, InChans, InProcess
  <2> QED BY <1>1, <2>1, <2>2, <2>4, <2>5, <2>6, OwnMove, DropOwned
<1> QED BY <1>2, <1>3, <1>4 DEF SessionMove

LEMMA OwnCorrect == Spec => [](TypeOK /\ RouteInv /\ OrderInv /\ OwnInv)
<1>1. Init => OwnInv
  BY OwnInit
<1>2. TypeOK /\ UNCHANGED vars /\ OwnInv => OwnInv'
  BY OwnFrame DEF vars, inVars
<1>3. TypeOK /\ RouteInv /\ OrderInv /\ OwnInv /\ [Next]_vars => OwnInv'
  BY <1>2, OwnEnvironment, OwnWorker, DialerMoves, ReaderMoves, OwnSession DEF Next
<1> QED BY <1>1, <1>3, OrderCorrect, PTL DEF Spec

(***************************************************************************)
(* Drop recycles the buffer of a packet: every packet that arrived has one *)
(* owner until it is dropped, exactly once, and no owner afterwards.       *)
(***************************************************************************)
THEOREM Owner == Spec => []SingleOwner
<1>1. TypeOK /\ RouteInv /\ OrderInv /\ OwnInv => SingleOwner
  <2> SUFFICES ASSUME TypeOK, RouteInv, OrderInv, OwnInv PROVE SingleOwner
    OBVIOUS
  <2>1. ASSUME NEW p \in Arrived PROVE Cardinality(Owners(p)) + drops[p] = 1
    <3>1. Fate(p)
      BY DEF OwnInv
    <3>2. Owners(p) = {<<"queue", w>> : w \in InQueues(p)}
                        \cup {<<"worker", w>> : w \in AtWorkers(p)}
                        \cup {<<"chan", s>> : s \in InChans(p)}
                        \cup {<<"process", s>> : s \in InProcess(p)}
      BY DEF Owners, InQueues, AtWorkers, InChans, InProcess
    <3>3. CASE drops[p] = 1 /\ Nowhere(p)
      <4>1. Owners(p) = {}
        BY <3>2, <3>3 DEF Nowhere
      <4> QED BY <3>3, <4>1, FS_EmptySet
    <3>4. CASE drops[p] = 0 /\ Owned(p)
      <4>1. \E o : Owners(p) = {o}
        <5>1. CASE OnlyQueue(p)
          <6>1. PICK w : InQueues(p) = {w}
            BY <5>1 DEF OnlyQueue
          <6>2. Owners(p) = {<<"queue", w>>}
            BY <3>2, <5>1, <6>1 DEF OnlyQueue
          <6> QED BY <6>2
        <5>2. CASE OnlyWorker(p)
          <6>1. PICK w : AtWorkers(p) = {w}
            BY <5>2 DEF OnlyWorker
          <6>2. Owners(p) = {<<"worker", w>>}
            BY <3>2, <5>2, <6>1 DEF OnlyWorker
          <6> QED BY <6>2
        <5>3. CASE OnlyChan(p)
          <6>1. PICK s : InChans(p) = {s}
            BY <5>3 DEF OnlyChan
          <6>2. Owners(p) = {<<"chan", s>>}
            BY <3>2, <5>3, <6>1 DEF OnlyChan
          <6> QED BY <6>2
        <5>4. CASE OnlyProcess(p)
          <6>1. PICK s : InProcess(p) = {s}
            BY <5>4 DEF OnlyProcess
          <6>2. Owners(p) = {<<"process", s>>}
            BY <3>2, <5>4, <6>1 DEF OnlyProcess
          <6> QED BY <6>2
        <5> QED BY <3>4, <5>1, <5>2, <5>3, <5>4 DEF Owned
      <4>2. Cardinality(Owners(p)) = 1
        BY <4>1, FS_Singleton
      <4> QED BY <3>4, <4>2
    <3> QED BY <3>1, <3>3, <3>4 DEF Fate
  <2>2. ASSUME NEW w \in Workers PROVE NoDup(queue[w])
    <3>1. queue[w] \in Seq(Arrived) /\ Arrived \in SUBSET Nat /\ Increasing(queue[w])
      BY HolderTypes, ArrivedNumbers DEF RouteInv, WorkerRoute
    <3> QED BY <3>1, IncreasingNoDup
  <2>3. ASSUME NEW s \in Packets PROVE NoDup(ch[s])
    <3>1. ch[s] \in Seq(Arrived) /\ Arrived \in SUBSET Nat /\ Increasing(ch[s])
      BY HolderTypes, ArrivedNumbers DEF OrderInv, ChanOrder
    <3> QED BY <3>1, IncreasingNoDup
  <2> QED BY <2>1, <2>2, <2>3 DEF SingleOwner
<1> QED BY <1>1, OwnCorrect, PTL
=============================================================================
