-------------------------------- MODULE MKCP --------------------------------
(***************************************************************************)
(* One mKCP conversation (transport/mkcp/conn.go) between a client and the *)
(* sessions a Listener makes for it (listener.go), over a network that     *)
(* loses, duplicates and reorders segments.                                *)
(*                                                                         *)
(* A segment of data is its number; numbers are uint32, and a conversation *)
(* of 2^32 segments is beyond the model.  A timer is a choice of Flush:    *)
(* late says that the time of the connection's state is over, idle that    *)
(* nothing came in for 30 s, sent which segments were due and fitted into  *)
(* cwnd.  RTT and congestion control only move these choices.              *)
(***************************************************************************)
EXTENDS Integers, FiniteSets, FiniteSetsExt

CONSTANTS
    BufferSize,   \* Config.sendingBufferSize
    RecvWindow,   \* Config.receivingInFlightSize
    Writes,       \* bound: segments each side writes, a function
    NetCapacity,  \* bound: segments on the network
    MaxSessions   \* bound: connections the listener makes

Endpoints == {"client", "server"}
Peer(e) == IF e = "client" THEN "server" ELSE "client"

ASSUME MKCPAssumption ==
    /\ BufferSize \in Nat /\ RecvWindow \in Nat \ {0}
    /\ Writes \in [Endpoints -> Nat]
    /\ NetCapacity \in Nat /\ MaxSessions \in Nat

VARIABLES
    conn,         \* the Conn of each side
    net,          \* segments on their way
    sessions,     \* connections the listener has made
    closed,       \* history: Close was called
    gaveUp        \* history: a timer ended the connection with data unsent

vars == <<conn, net, sessions, closed, gaveUp>>

\* readBuf holds the segments taken..recvNext-1, sendWindow those of window.
newConn ==
    [state |-> "Active", window |-> {}, fresh |-> {}, sendNext |-> 0,
     firstUnacked |-> 0, updated |-> FALSE,
     recvNext |-> 0, recvCache |-> {}, taken |-> 0, ackList |-> {}, ackDirty |-> FALSE,
     reader |-> FALSE, writer |-> FALSE,    \* waiting in waitNotify
     eof |-> FALSE]                         \* history: Read has returned io.EOF
NoConn == [newConn EXCEPT !.state = "Terminated"]

Init ==
    /\ conn = [client |-> newConn, server |-> NoConn]
    /\ net = {} /\ sessions = 0
    /\ closed = [e \in Endpoints |-> FALSE]
    /\ gaveUp = [e \in Endpoints |-> FALSE]

EOFStates == {"ReadyToClose", "Terminating", "Terminated"}

-----------------------------------------------------------------------------
(* The helpers of Conn, as functions of the connection.                    *)

signalRead(c) == [c EXCEPT !.reader = FALSE]
signalWrite(c) == [c EXCEPT !.writer = FALSE]

setState(c, s) ==
    LET d == signalWrite([c EXCEPT !.state = s])
        e == [d EXCEPT !.window = {}, !.fresh = {}]
    IN  IF c.state = s THEN c
        ELSE CASE s = "ReadyToClose" -> signalRead(d)
               [] s = "PeerClosed" -> e
               [] OTHER -> signalRead(e)

handleOption(c, close) ==
    CASE close /\ c.state = "ReadyToClose" -> setState(c, "Terminating")
      [] close /\ c.state = "Active" -> setState(c, "PeerClosed")
      [] OTHER -> c

\* Mutant: the reader is not woken.
deliver_Silent(c) ==
    LET next == Min({n \in c.recvNext .. c.recvNext + RecvWindow : n \notin c.recvCache})
    IN  [c EXCEPT !.recvNext = next, !.recvCache = {n \in @ : n > next}]

deliver(c) ==
    LET next == Min({n \in c.recvNext .. c.recvNext + RecvWindow : n \notin c.recvCache})
        d == [c EXCEPT !.recvNext = next, !.recvCache = {n \in @ : n > next}]
    IN  IF next = c.recvNext THEN c ELSE signalRead(d)

\* Mutant: the acknowledgement of the first segment in doubt is dropped.
processSendingNext_OffByOne(c, next) ==
    LET acks == {n \in c.ackList : n > next}
    IN  [c EXCEPT !.ackList = acks, !.ackDirty = @ \/ acks # c.ackList]

processSendingNext(c, next) ==
    LET acks == {n \in c.ackList : n >= next}
    IN  [c EXCEPT !.ackList = acks, !.ackDirty = @ \/ acks # c.ackList]

findFirstUnacked(c) ==
    LET first == IF c.window = {} THEN c.sendNext ELSE Min(c.window)
    IN  [c EXCEPT !.firstUnacked = first, !.updated = @ \/ first # c.firstUnacked]

\* processReceivingNextLocked and processAckLocked take what is acknowledged
\* out of the window and wake a writer if that makes room.
Acknowledge(c, numbers) ==
    LET d == [c EXCEPT !.window = @ \ numbers, !.fresh = @ \ numbers]
    IN  findFirstUnacked(IF c.window \cap numbers = {} THEN d ELSE signalWrite(d))

processReceivingNext(c, next) == Acknowledge(c, {n \in c.window : n < next})

\* The segments a connection sends.
Seg(e, kind, numbers, c) ==
    [to |-> Peer(e), kind |-> kind, numbers |-> numbers,
     sendingNext |-> IF kind = "ack" THEN 0 ELSE c.firstUnacked,
     receivingNext |-> IF kind = "data" THEN 0 ELSE c.recvNext,
     close |-> c.state = "ReadyToClose"]

-----------------------------------------------------------------------------
(* Read, Write and Close.                                                  *)

Alive(e) == e = "server" => sessions > 0

\* Mutant: the window grows by one segment too many.
Write_OneMore(e) ==
    LET c == conn[e]
    IN  /\ Alive(e) /\ c.state = "Active" /\ ~c.writer /\ c.sendNext < Writes[e]
        /\ conn' = [conn EXCEPT ![e] =
             IF Cardinality(c.window) <= BufferSize + 1
             THEN signalWrite([c EXCEPT !.sendNext = @ + 1,
                    !.window = @ \cup {c.sendNext}, !.fresh = @ \cup {c.sendNext}])
             ELSE [c EXCEPT !.writer = TRUE]]
        /\ UNCHANGED <<net, sessions, closed, gaveUp>>

\* Write puts one segment into the window, waits for room or fails.
Write(e) ==
    LET c == conn[e]
    IN  /\ Alive(e) /\ c.state = "Active" /\ ~c.writer /\ c.sendNext < Writes[e]
        /\ conn' = [conn EXCEPT ![e] =
             IF Cardinality(c.window) <= BufferSize
             THEN signalWrite([c EXCEPT !.sendNext = @ + 1,
                    !.window = @ \cup {c.sendNext}, !.fresh = @ \cup {c.sendNext}])
             ELSE [c EXCEPT !.writer = TRUE]]
        /\ UNCHANGED <<net, sessions, closed, gaveUp>>

\* Read takes from readBuf, returns io.EOF or waits.
Read(e) ==
    LET c == conn[e]
    IN  /\ Alive(e) /\ ~c.reader /\ ~c.eof
        /\ conn' = [conn EXCEPT ![e] =
             CASE c.taken < c.recvNext -> [c EXCEPT !.taken = @ + 1]
               [] c.taken = c.recvNext /\ c.state \in EOFStates -> [c EXCEPT !.eof = TRUE]
               [] OTHER -> [c EXCEPT !.reader = TRUE]]
        /\ UNCHANGED <<net, sessions, closed, gaveUp>>

Close(e) ==
    LET c == conn[e]
    IN  /\ Alive(e) /\ c.state \notin EOFStates
        /\ conn' = [conn EXCEPT ![e] =
             CASE c.state = "Active" -> setState(c, "ReadyToClose")
               [] c.state = "PeerClosed" -> setState(c, "Terminating")
               [] c.state = "PeerTerminating" -> setState(c, "Terminated")]
        /\ closed' = [closed EXCEPT ![e] = TRUE]
        /\ UNCHANGED <<net, sessions, gaveUp>>

-----------------------------------------------------------------------------
(* Input and the listener.                                                 *)

\* Mutant: a segment beyond the window is acknowledged and not kept.
InputData_AcksAll(c, m) ==
    LET d == processSendingNext(handleOption(c, m.close), m.sendingNext)
        numbers == {n \in m.numbers : n >= d.recvNext /\ n < d.recvNext + RecvWindow}
    IN  deliver([d EXCEPT !.ackList = @ \cup {n \in m.numbers : n >= d.recvNext},
                          !.ackDirty = TRUE,
                          !.recvCache = @ \cup {n \in numbers : n = d.recvNext}])

InputData(c, m) ==
    LET d == processSendingNext(handleOption(c, m.close), m.sendingNext)
        numbers == {n \in m.numbers : n >= d.recvNext /\ n < d.recvNext + RecvWindow}
    IN  deliver([d EXCEPT !.ackList = @ \cup numbers,
                          !.ackDirty = @ \/ numbers # {},
                          !.recvCache = @ \cup numbers])

InputAck(c, m) ==
    Acknowledge(processReceivingNext(handleOption(c, m.close), m.receivingNext), m.numbers)

InputCmd(c, m) ==
    LET d == handleOption(c, m.close)
        f == IF m.kind = "ping" THEN d
             ELSE CASE d.state \in {"Active", "PeerClosed"} -> setState(d, "PeerTerminating")
                    [] d.state = "ReadyToClose" -> setState(d, "Terminating")
                    [] d.state = "Terminating" -> setState(d, "Terminated")
                    [] OTHER -> d
        g == processSendingNext(processReceivingNext(f, m.receivingNext), m.sendingNext)
    IN  IF m.close \/ m.kind = "terminate" THEN signalRead(signalWrite(g)) ELSE g

Input(c, m) ==
    IF c.state = "Terminated" THEN c
    ELSE CASE m.kind = "data" -> InputData(c, m)
           [] m.kind = "ack" -> InputAck(c, m)
           [] OTHER -> InputCmd(c, m)

\* A segment arrives, and may arrive again.
Deliver(m, again) ==
    /\ m.to = "server" => conn["server"].state # "Terminated"
    /\ conn' = [conn EXCEPT ![m.to] = Input(@, m)]
    /\ net' = IF again THEN net ELSE net \ {m}
    /\ UNCHANGED <<sessions, closed, gaveUp>>

\* Listener.onReceive without a session: it never had one, or remove took it.
OnReceive(m, again) ==
    /\ m.to = "server" /\ conn["server"].state = "Terminated"
    /\ net' = IF again THEN net ELSE net \ {m}
    /\ IF m.kind = "terminate"
       THEN UNCHANGED <<conn, sessions, closed, gaveUp>>
       ELSE /\ sessions < MaxSessions
            /\ sessions' = sessions + 1
            /\ conn' = [conn EXCEPT !["server"] = Input(newConn, m)]
            /\ closed' = [closed EXCEPT !["server"] = FALSE]
            /\ gaveUp' = [gaveUp EXCEPT !["server"] = FALSE]

-----------------------------------------------------------------------------
(* flush.                                                                  *)

\* Whatever the network does not lose.
Send(segs) ==
    \E kept \in SUBSET segs, old \in SUBSET net :
        /\ Cardinality(kept \cup old) <= NetCapacity
        /\ net' = kept \cup old

\* Mutant: a closed connection does not wait for its window to empty.
FlushState_Hasty(c, idle) ==
    LET d == IF c.state = "Active" /\ idle THEN setState(c, "ReadyToClose") ELSE c
    IN  IF d.state = "ReadyToClose" THEN setState(d, "Terminating") ELSE d

\* The state after the first tests of flush.
FlushState(c, idle) ==
    LET d == IF c.state = "Active" /\ idle THEN setState(c, "ReadyToClose") ELSE c
    IN  IF d.state = "ReadyToClose" /\ d.window = {}
        THEN setState(d, "Terminating") ELSE d

\* Mutant: the connection waits for the peer's answer for ever.
FlushTerminating_NoTimer(e, idle, late) ==
    LET c == conn[e]
        d == FlushState(c, idle)
    IN  /\ c.state # "Terminated" /\ d.state = "Terminating"
        /\ late => c.state = "Terminating"
        /\ idle => c.state = "Active"
        /\ Send({Seg(e, "terminate", {}, d)})
        /\ conn' = [conn EXCEPT ![e] = d]
        /\ gaveUp' = [gaveUp EXCEPT ![e] = @ \/ idle]
        /\ UNCHANGED <<sessions, closed>>

FlushTerminating(e, idle, late) ==
    LET c == conn[e]
        d == FlushState(c, idle)
    IN  /\ c.state # "Terminated" /\ d.state = "Terminating"
        /\ late => c.state = "Terminating"
        /\ idle => c.state = "Active"
        /\ Send({Seg(e, "terminate", {}, d)})
        /\ conn' = [conn EXCEPT ![e] = IF late THEN setState(d, "Terminated") ELSE d]
        /\ gaveUp' = [gaveUp EXCEPT ![e] = @ \/ idle]
        /\ UNCHANGED <<sessions, closed>>

flushAcks(e, c, again) ==
    IF c.ackList # {} /\ (c.ackDirty \/ again)
    THEN {Seg(e, "ack", c.ackList, c)} ELSE {}

\* A segment is due when it is fresh or its timeout is over; cwnd ends the loop
\* early, but not before the first segment that is due.
MaySend(c, sent) ==
    /\ sent \subseteq c.window
    /\ \A n \in c.fresh : n \in sent \/ \E k \in sent : \A j \in sent : j <= k /\ k < n

flushSend(e, c, sent) ==
    IF c.window = {}
    THEN IF c.updated THEN {Seg(e, "ping", {}, c)} ELSE {}
    ELSE {Seg(e, "data", {n}, c) : n \in sent}

Flush(e, idle, late, ackAgain, sent, ping) ==
    LET c == conn[e]
        d == FlushState(c, idle)
        f == IF late THEN setState(d, "Terminating") ELSE d
    IN  /\ c.state # "Terminated" /\ d.state # "Terminating"
        /\ late => c.state \in {"PeerTerminating", "ReadyToClose"}
        /\ idle => c.state = "Active"
        /\ MaySend(f, sent)
        /\ Send(flushAcks(e, f, ackAgain) \cup flushSend(e, f, sent)
                  \cup (IF ping THEN {Seg(e, "ping", {}, f)} ELSE {}))
        /\ conn' = [conn EXCEPT ![e] =
             [f EXCEPT !.fresh = @ \ sent, !.updated = FALSE,
                       !.ackDirty = IF f.ackList = {} THEN @ ELSE FALSE]]
        /\ gaveUp' = [gaveUp EXCEPT ![e] = @ \/ idle \/ (late /\ c.state = "ReadyToClose")]
        /\ UNCHANGED <<sessions, closed>>

-----------------------------------------------------------------------------
Next ==
    \/ \E e \in Endpoints : Write(e) \/ Read(e) \/ Close(e)
    \/ \E m \in net, again \in BOOLEAN : Deliver(m, again) \/ OnReceive(m, again)
    \/ \E e \in Endpoints, idle, late \in BOOLEAN : FlushTerminating(e, idle, late)
    \/ \E e \in Endpoints, idle, late, ackAgain, ping \in BOOLEAN :
          \E sent \in SUBSET conn[e].window : Flush(e, idle, late, ackAgain, sent, ping)

\* Time passes: the timers of flush end the states that wait for the peer.
TimeoutStep(e) ==
    \/ \E late \in BOOLEAN : FlushTerminating(e, FALSE, late)
    \/ \E ackAgain, ping \in BOOLEAN : Flush(e, FALSE, TRUE, ackAgain, {}, ping)

Spec == Init /\ [][Next]_vars

FairSpec == Spec /\ \A e \in Endpoints :
    /\ WF_vars(TimeoutStep(e))
    /\ WF_vars(FlushTerminating(e, FALSE, TRUE))

-----------------------------------------------------------------------------
States == {"Active", "ReadyToClose", "PeerClosed", "Terminating", "PeerTerminating",
           "Terminated"}
Numbers(e) == 0 .. Writes[e] - 1

TypeOK ==
    /\ DOMAIN conn = Endpoints
    /\ \A e \in Endpoints :
        /\ conn[e].state \in States
        /\ conn[e].fresh \subseteq conn[e].window
        /\ conn[e].window \subseteq Numbers(e)
        /\ Cardinality(conn[e].window) <= BufferSize + 1
        /\ conn[e].sendNext \in 0..Writes[e] /\ conn[e].firstUnacked \in 0..Writes[e]
        /\ conn[e].recvNext \in 0..Writes[Peer(e)]
        /\ conn[e].recvCache \subseteq Numbers(Peer(e))
        /\ Cardinality(conn[e].recvCache) < RecvWindow
        /\ conn[e].ackList \subseteq Numbers(Peer(e))
        /\ conn[e].taken \in 0..conn[e].recvNext
    /\ sessions \in 0..MaxSessions
    /\ \A e \in Endpoints : closed[e] \in BOOLEAN /\ gaveUp[e] \in BOOLEAN
    /\ \A m \in net :
        m.numbers \subseteq Numbers(IF m.kind = "ack" THEN m.to ELSE Peer(m.to))

Received(c, n) == n < c.recvNext \/ n \in c.recvCache

\* Both ends are those of the first session.
OneSession == sessions = 1

(* A segment leaves the window only when the peer has it, whatever was lost,
   repeated or reordered; until then it is transmitted again (conn.go,
   processAckLocked, processReceivingNextLocked, Input). *)
AckedIsReceived ==
    \A e \in Endpoints :
        (OneSession /\ conn[e].state \in {"Active", "ReadyToClose"}) =>
            \A n \in 0 .. conn[e].sendNext - 1 :
                n \in conn[e].window \/ Received(conn[Peer(e)], n)

(* An acknowledgement is repeated until the sender has learnt of it: what the peer
   has and the sender still transmits is in the peer's ackList (conn.go,
   processSendingNextLocked). *)
AckKept ==
    \A e \in Endpoints : OneSession =>
        \A n \in conn[e].window :
            Received(conn[Peer(e)], n) => n \in conn[Peer(e)].ackList

(* A reader that sees io.EOF, on a side that neither closed nor timed out, has read
   everything the other side wrote, unless that side timed out: closing does
   not truncate the stream (conn.go, Close, flush, Input, Read). *)
NoTruncation ==
    \A e \in Endpoints :
        (OneSession /\ conn[e].eof /\ ~closed[e] /\ ~gaveUp[e] /\ ~gaveUp[Peer(e)]) =>
            conn[e].taken = conn[Peer(e)].sendNext

(* Nobody sleeps through a change: a reader waits only if there is nothing to read
   and no EOF to report, a writer only if the window is full (conn.go, waitNotify
   and the signals). *)
NoLostSignal ==
    \A e \in Endpoints :
        /\ conn[e].reader => /\ conn[e].taken = conn[e].recvNext
                            /\ conn[e].state \notin EOFStates
        /\ conn[e].writer => /\ Cardinality(conn[e].window) > BufferSize
                            /\ conn[e].state = "Active"

(* A connection that was closed ends, however little of its data and of its
   farewell arrives (conn.go, the timers of flush). *)
Terminates ==
    \A e \in Endpoints : closed[e] ~> conn[e].state = "Terminated"
=============================================================================
