----------------------------- MODULE MKCPProofs -----------------------------
(***************************************************************************)
(* Theorems about MKCP, for every window, every number of segments that    *)
(* the two sides write and every capacity of the network.                  *)
(***************************************************************************)
EXTENDS MKCP, FiniteSetTheorems, WellFoundedInduction, TLAPS

-----------------------------------------------------------------------------
(* Sets of numbers. *)

LEMMA MinFacts ==
    ASSUME NEW S \in SUBSET Nat, S # {}
    PROVE  Min(S) \in S /\ \A n \in S : Min(S) <= n
<1>1. PICK x \in S : \A y \in S : ~(<<y, x>> \in OpToRel(<, Nat))
  BY NatLessThanWellFounded, WFMin
<1>2. \A y \in S : <<y, x>> \in Nat \X Nat
  OBVIOUS
<1>3. \A y \in S : ~(y < x)
  BY <1>1, <1>2 DEF OpToRel
<1>4. \A y \in S : x <= y
  BY <1>3
<1> QED BY <1>4 DEF Min

(* Windows are finite. *)
LEMMA BelowFinite ==
    ASSUME NEW n \in Nat, NEW S \in SUBSET (0 .. n - 1)
    PROVE  IsFiniteSet(S) /\ Cardinality(S) \in Nat
<1>1. IsFiniteSet(0 .. n - 1)
  BY FS_Interval
<1> QED BY <1>1, FS_Subset, FS_CardinalityType

(* A connection whose side writes a segments and whose peer writes b. *)
Below(n) == 0 .. n - 1
Conns(a, b) ==
    [state : States, window : SUBSET Below(a), fresh : SUBSET Below(a),
     sendNext : 0..a, firstUnacked : 0..a, updated : BOOLEAN,
     recvNext : 0..b, recvCache : SUBSET Below(b), taken : 0..b,
     ackList : SUBSET Below(b), ackDirty : BOOLEAN,
     reader : BOOLEAN, writer : BOOLEAN, eof : BOOLEAN]

LEMMA BelowNat ==
    ASSUME NEW b \in Nat
    PROVE  Below(b) \subseteq Nat
  BY DEF Below

(***************************************************************************)
(* What holds of every connection by itself.                               *)
(***************************************************************************)
WindowInv(c) ==
    /\ c.fresh \subseteq c.window
    /\ c.firstUnacked <= c.sendNext
    /\ \A n \in c.window : c.firstUnacked <= n /\ n < c.sendNext
    /\ Cardinality(c.window) <= BufferSize + 1
RecvInv(c) ==
    /\ c.taken <= c.recvNext
    /\ \A n \in c.recvCache : c.recvNext < n /\ n < c.recvNext + RecvWindow
    /\ \A n \in c.ackList : Received(c, n)
SignalInv(c) ==
    /\ c.reader => c.taken = c.recvNext /\ c.state \notin EOFStates
    /\ c.writer => Cardinality(c.window) > BufferSize /\ c.state = "Active"
    /\ c.eof => c.state \in EOFStates
ConnInv(c) == WindowInv(c) /\ RecvInv(c) /\ SignalInv(c)


-----------------------------------------------------------------------------
(* The helpers of Conn. *)

(* setState changes nothing but the state, the window and who waits. *)
Turns(c, d) ==
    /\ d.sendNext = c.sendNext /\ d.firstUnacked = c.firstUnacked
    /\ d.recvNext = c.recvNext /\ d.recvCache = c.recvCache
    /\ d.ackList = c.ackList /\ d.taken = c.taken /\ d.eof = c.eof
    /\ d.window \subseteq c.window
    /\ d.state \in {"Active", "ReadyToClose"} => d.window = c.window

LEMMA setStateFacts ==
    ASSUME NEW a \in Nat, NEW b \in Nat, NEW c \in Conns(a, b), ConnInv(c),
           NEW s \in States \ {"Active"}, c.state \in EOFStates => s \in EOFStates
    PROVE  /\ setState(c, s) \in Conns(a, b) /\ ConnInv(setState(c, s))
           /\ Turns(c, setState(c, s)) /\ setState(c, s).state = s
<1>1. setState(c, s) \in Conns(a, b)
  BY DEF setState, Conns, signalRead, signalWrite
<1>2. Turns(c, setState(c, s)) /\ setState(c, s).state = s
  BY DEF setState, Conns, signalRead, signalWrite, Turns, States
<1>3. CASE c.state = s
  BY <1>1, <1>2, <1>3 DEF setState
<1>4. CASE c.state # s
  <2>1. /\ ~setState(c, s).writer
        /\ ~setState(c, s).reader \/ (s = "PeerClosed" /\ setState(c, s).reader = c.reader)
        /\ \/ setState(c, s).window = {} /\ setState(c, s).fresh = {}
           \/ setState(c, s).window = c.window /\ setState(c, s).fresh = c.fresh
    BY <1>4 DEF setState, Conns, signalRead, signalWrite
  <2>2. Cardinality({}) <= BufferSize + 1
    BY FS_EmptySet, MKCPAssumption
  <2>3. WindowInv(setState(c, s))
    BY <1>2, <2>1, <2>2 DEF ConnInv, WindowInv, Turns
  <2>4. RecvInv(setState(c, s))
    BY <1>2 DEF ConnInv, RecvInv, Turns, Received
  <2>5. SignalInv(setState(c, s))
    BY <1>2, <2>1 DEF ConnInv, SignalInv, Turns, EOFStates
  <2> QED BY <1>1, <1>2, <2>3, <2>4, <2>5 DEF ConnInv
<1> QED BY <1>3, <1>4

(* The states between which an option or a Terminate segment moves. *)
OptionMoves == {<<"ReadyToClose", "Terminating">>, <<"Active", "PeerClosed">>}

LEMMA handleOptionFacts ==
    ASSUME NEW a \in Nat, NEW b \in Nat, NEW c \in Conns(a, b), ConnInv(c),
           NEW close \in BOOLEAN
    PROVE  LET d == handleOption(c, close) IN
           /\ d \in Conns(a, b) /\ ConnInv(d) /\ Turns(c, d)
           /\ d = c \/ (close /\ <<c.state, d.state>> \in OptionMoves)
<1>1. CASE close /\ c.state = "ReadyToClose"
  <2>1. handleOption(c, close) = setState(c, "Terminating")
    BY <1>1 DEF handleOption
  <2>2. "Terminating" \in States \ {"Active"} /\ "Terminating" \in EOFStates
    BY DEF States, EOFStates
  <2>3. c.state \in EOFStates => "Terminating" \in EOFStates
    BY <1>1, <2>2
  <2> DEFINE d == setState(c, "Terminating")
  <2>4. d \in Conns(a, b) /\ ConnInv(d) /\ Turns(c, d) /\ d.state = "Terminating"
    BY <2>2, <2>3, setStateFacts
  <2> QED BY <1>1, <2>1, <2>4 DEF OptionMoves
<1>2. CASE close /\ c.state = "Active"
  <2>1. handleOption(c, close) = setState(c, "PeerClosed")
    BY <1>2 DEF handleOption
  <2>2. "PeerClosed" \in States \ {"Active"} /\ "Active" \notin EOFStates
    BY DEF States, EOFStates
  <2>3. c.state \in EOFStates => "PeerClosed" \in EOFStates
    BY <1>2, <2>2
  <2> DEFINE d == setState(c, "PeerClosed")
  <2>4. d \in Conns(a, b) /\ ConnInv(d) /\ Turns(c, d) /\ d.state = "PeerClosed"
    BY <2>2, <2>3, setStateFacts
  <2> QED BY <1>2, <2>1, <2>4 DEF OptionMoves
<1>3. CASE ~(close /\ c.state \in {"Active", "ReadyToClose"})
  <2>1. handleOption(c, close) = c
    BY <1>3 DEF handleOption
  <2> QED BY <2>1 DEF Turns
<1> QED BY <1>1, <1>2, <1>3

(* processSendingNext only drops acknowledgements below next. *)
From(acks, next) == {n \in acks : n >= next}

LEMMA processSendingNextFacts ==
    ASSUME NEW a \in Nat, NEW b \in Nat, NEW c \in Conns(a, b), ConnInv(c),
           NEW next \in Nat
    PROVE  LET d == processSendingNext(c, next) IN
           /\ d \in Conns(a, b) /\ ConnInv(d)
           /\ d.state = c.state /\ d.eof = c.eof /\ d.taken = c.taken
           /\ d.window = c.window /\ d.sendNext = c.sendNext
           /\ d.firstUnacked = c.firstUnacked
           /\ d.recvNext = c.recvNext /\ d.recvCache = c.recvCache
           /\ d.ackList = From(c.ackList, next)
<1> DEFINE d == processSendingNext(c, next)
<1>1. /\ d \in Conns(a, b)
      /\ d.state = c.state /\ d.eof = c.eof /\ d.taken = c.taken
      /\ d.window = c.window /\ d.sendNext = c.sendNext /\ d.fresh = c.fresh
      /\ d.firstUnacked = c.firstUnacked
      /\ d.recvNext = c.recvNext /\ d.recvCache = c.recvCache
      /\ d.reader = c.reader /\ d.writer = c.writer
      /\ d.ackList = From(c.ackList, next)
  BY DEF processSendingNext, Conns, From
<1> HIDE DEF d
<1>2. ConnInv(d)
  BY <1>1 DEF ConnInv, WindowInv, RecvInv, SignalInv, Received, From
<1> QED BY <1>1, <1>2 DEF d

(* Acknowledge takes numbers out of the window and moves firstUnacked up. *)
LEMMA AcknowledgeFacts ==
    ASSUME NEW a \in Nat, NEW b \in Nat, NEW c \in Conns(a, b), ConnInv(c),
           NEW numbers \in SUBSET Nat
    PROVE  LET d == Acknowledge(c, numbers) IN
           /\ d \in Conns(a, b) /\ ConnInv(d)
           /\ d.state = c.state /\ d.eof = c.eof /\ d.taken = c.taken
           /\ d.window = c.window \ numbers /\ d.sendNext = c.sendNext
           /\ c.firstUnacked <= d.firstUnacked
           /\ d.recvNext = c.recvNext /\ d.recvCache = c.recvCache
           /\ d.ackList = c.ackList
<1> DEFINE rest == c.window \ numbers
           first == IF rest = {} THEN c.sendNext ELSE Min(rest)
           d == Acknowledge(c, numbers)
<1>1. /\ c.window \in SUBSET Below(a) /\ rest \in SUBSET Below(a) /\ rest \in SUBSET Nat
      /\ c.sendNext \in 0..a /\ c.firstUnacked \in 0..a
  BY DEF Conns, Below
<1>2. rest # {} => Min(rest) \in rest /\ \A n \in rest : Min(rest) <= n
  BY <1>1, MinFacts
<1>3. /\ first \in 0..a /\ c.firstUnacked <= first /\ first <= c.sendNext
      /\ \A n \in rest : first <= n
  <2>1. CASE rest = {}
    BY <1>1, <2>1 DEF ConnInv, WindowInv
  <2>2. CASE rest # {}
    <3>1. Min(rest) \in Below(a) /\ c.firstUnacked <= Min(rest) /\ Min(rest) < c.sendNext
      BY <1>1, <1>2, <2>2 DEF ConnInv, WindowInv
    <3> QED BY <1>1, <1>2, <2>2, <3>1 DEF Below
  <2> QED BY <2>1, <2>2
<1>4. /\ Cardinality(rest) <= Cardinality(c.window)
      /\ Cardinality(rest) \in Nat /\ Cardinality(c.window) \in Nat
  <2>1. IsFiniteSet(c.window) /\ Cardinality(c.window) \in Nat /\ Cardinality(rest) \in Nat
    BY <1>1, BelowFinite DEF Below
  <2> QED BY <2>1, FS_Subset
<1> HIDE DEF first
<1>5. /\ d \in Conns(a, b)
      /\ d.state = c.state /\ d.eof = c.eof /\ d.taken = c.taken
      /\ d.window = rest /\ d.sendNext = c.sendNext /\ d.fresh = c.fresh \ numbers
      /\ d.firstUnacked = first
      /\ d.recvNext = c.recvNext /\ d.recvCache = c.recvCache
      /\ d.ackList = c.ackList /\ d.reader = c.reader
      /\ d.writer => c.writer /\ c.window \cap numbers = {}
  <2> DEFINE y == [c EXCEPT !.window = @ \ numbers, !.fresh = @ \ numbers]
             x == IF c.window \cap numbers = {} THEN y ELSE signalWrite(y)
  <2>1. /\ y \in Conns(a, b) /\ y.window = rest /\ y.fresh = c.fresh \ numbers
        /\ y.state = c.state /\ y.eof = c.eof /\ y.taken = c.taken
        /\ y.sendNext = c.sendNext /\ y.recvNext = c.recvNext
        /\ y.recvCache = c.recvCache /\ y.ackList = c.ackList
        /\ y.reader = c.reader /\ y.writer = c.writer
    BY DEF Conns
  <2> HIDE DEF y
  <2>2. /\ x \in Conns(a, b) /\ x.window = rest /\ x.fresh = c.fresh \ numbers
        /\ x.state = c.state /\ x.eof = c.eof /\ x.taken = c.taken
        /\ x.sendNext = c.sendNext /\ x.recvNext = c.recvNext
        /\ x.recvCache = c.recvCache /\ x.ackList = c.ackList /\ x.reader = c.reader
        /\ x.writer => c.writer /\ c.window \cap numbers = {}
    BY <2>1 DEF signalWrite, Conns
  <2>3. d = findFirstUnacked(x)
    BY DEF Acknowledge, x, y
  <2> HIDE DEF x
  <2>4. d = [x EXCEPT !.firstUnacked = first, !.updated = @ \/ first # x.firstUnacked]
    BY <2>2, <2>3 DEF findFirstUnacked, first
  <2> HIDE DEF d
  <2>5. d \in Conns(a, b)
    BY <1>3, <2>2, <2>4 DEF Conns
  <2> QED BY <2>2, <2>4, <2>5 DEF Conns
<1> HIDE DEF d
<1>6. WindowInv(d)
  <2>1. Cardinality(rest) <= BufferSize + 1
    BY <1>4, MKCPAssumption DEF ConnInv, WindowInv
  <2> QED BY <1>3, <1>5, <2>1 DEF ConnInv, WindowInv
<1>7. RecvInv(d)
  BY <1>5 DEF ConnInv, RecvInv, Received
<1>8. SignalInv(d)
  <2>1. c.window \cap numbers = {} => rest = c.window
    OBVIOUS
  <2> QED BY <1>5, <2>1 DEF ConnInv, SignalInv
<1> QED BY <1>3, <1>5, <1>6, <1>7, <1>8 DEF ConnInv, d

(* deliver after new numbers came into the receiving window. *)
Taking(c, numbers) == deliver([c EXCEPT !.ackList = @ \cup numbers,
                                        !.ackDirty = @ \/ numbers # {},
                                        !.recvCache = @ \cup numbers])
LEMMA TakingFacts ==
    ASSUME NEW a \in Nat, NEW b \in Nat, NEW c \in Conns(a, b), ConnInv(c),
           NEW numbers \in SUBSET Below(b),
           \A n \in numbers : n >= c.recvNext /\ n < c.recvNext + RecvWindow
    PROVE  LET d == Taking(c, numbers) IN
           /\ d \in Conns(a, b) /\ ConnInv(d)
           /\ d.state = c.state /\ d.eof = c.eof /\ d.taken = c.taken
           /\ d.window = c.window /\ d.sendNext = c.sendNext
           /\ d.firstUnacked = c.firstUnacked /\ c.recvNext <= d.recvNext
           /\ \A n \in Nat : Received(d, n) <=> Received(c, n) \/ n \in numbers
           /\ d.ackList = c.ackList \cup numbers
<1> DEFINE cache == c.recvCache \cup numbers
           free == {n \in c.recvNext .. c.recvNext + RecvWindow : n \notin cache}
           next == Min(free)
           d == Taking(c, numbers)
<1>1. /\ c.recvNext \in 0..b /\ cache \in SUBSET Below(b) /\ c.taken \in 0..b
      /\ \A n \in cache : n \in Nat /\ n >= c.recvNext /\ n < c.recvNext + RecvWindow
      /\ RecvWindow \in Nat \ {0} /\ c.taken <= c.recvNext
  <2>1. c.recvNext \in 0..b /\ c.recvCache \in SUBSET Below(b) /\ c.taken \in 0..b
    BY DEF Conns
  <2>2. \A n \in c.recvCache : c.recvNext < n /\ n < c.recvNext + RecvWindow
    BY DEF ConnInv, RecvInv
  <2>3. c.taken <= c.recvNext
    BY DEF ConnInv, RecvInv
  <2>4. cache \subseteq Nat
    BY <2>1, BelowNat
  <2> QED BY <2>1, <2>2, <2>3, <2>4, MKCPAssumption
<1>2. free \in SUBSET Nat /\ c.recvNext + RecvWindow \in free
  BY <1>1
<1>3. next \in free /\ \A n \in free : next <= n
  BY <1>2, MinFacts
<1> HIDE DEF next
<1>4. /\ next \in Nat /\ c.recvNext <= next /\ next <= c.recvNext + RecvWindow
      /\ next \notin cache
      /\ \A n \in Nat : c.recvNext <= n /\ n < next => n \in cache
  BY <1>1, <1>3
<1>5. next \in 0..b
  <2>1. CASE next = c.recvNext
    BY <1>1, <2>1
  <2>2. CASE next # c.recvNext
    <3>1. next - 1 \in Nat /\ c.recvNext <= next - 1 /\ next - 1 < next
      BY <1>1, <1>4, <2>2
    <3>2. next - 1 \in Below(b)
      BY <1>1, <1>4, <3>1
    <3> QED BY <1>4, <3>2 DEF Below
  <2> QED BY <2>1, <2>2
<1>6. /\ d \in Conns(a, b)
      /\ d.state = c.state /\ d.eof = c.eof /\ d.taken = c.taken
      /\ d.window = c.window /\ d.sendNext = c.sendNext /\ d.fresh = c.fresh
      /\ d.firstUnacked = c.firstUnacked /\ d.writer = c.writer
      /\ d.recvNext = next /\ d.ackList = c.ackList \cup numbers
      /\ d.recvCache = {n \in cache : n > next}
      /\ d.reader => c.reader /\ next = c.recvNext
  <2> DEFINE x == [c EXCEPT !.ackList = @ \cup numbers, !.ackDirty = @ \/ numbers # {},
                            !.recvCache = @ \cup numbers]
  <2>1. x \in Conns(a, b) /\ x.recvNext = c.recvNext /\ x.recvCache = cache
    BY <1>1 DEF Conns
  <2>2. /\ x.state = c.state /\ x.eof = c.eof /\ x.taken = c.taken /\ x.fresh = c.fresh
        /\ x.window = c.window /\ x.sendNext = c.sendNext /\ x.writer = c.writer
        /\ x.firstUnacked = c.firstUnacked /\ x.ackList = c.ackList \cup numbers
        /\ x.reader = c.reader
    BY DEF Conns
  <2> HIDE DEF x
  <2>3. d = IF next = c.recvNext THEN x
            ELSE signalRead([x EXCEPT !.recvNext = next, !.recvCache = {n \in @ : n > next}])
    BY <2>1 DEF Taking, deliver, next, x
  <2>4. CASE next = c.recvNext
    <3>1. cache = {n \in cache : n > next}
      BY <1>1, <1>4, <2>4
    <3> QED BY <2>1, <2>2, <2>3, <2>4, <3>1
  <2>5. CASE next # c.recvNext
    <3> DEFINE z == [x EXCEPT !.recvNext = next, !.recvCache = {n \in @ : n > next}]
    <3>1. /\ z \in Conns(a, b) /\ z.recvNext = next /\ z.recvCache = {n \in cache : n > next}
      BY <1>5, <2>1 DEF Conns
    <3>2. /\ z.state = x.state /\ z.eof = x.eof /\ z.taken = x.taken /\ z.fresh = x.fresh
          /\ z.window = x.window /\ z.sendNext = x.sendNext /\ z.writer = x.writer
          /\ z.firstUnacked = x.firstUnacked /\ z.ackList = x.ackList
      BY <2>1 DEF Conns
    <3>3. d = signalRead(z)
      BY <2>3, <2>5
    <3> HIDE DEF z
    <3>4. d \in Conns(a, b) /\ ~d.reader
      BY <3>1, <3>3 DEF signalRead, Conns
    <3> HIDE DEF d
    <3>5. /\ d.state = z.state /\ d.eof = z.eof /\ d.taken = z.taken /\ d.fresh = z.fresh
          /\ d.window = z.window /\ d.sendNext = z.sendNext /\ d.writer = z.writer
          /\ d.firstUnacked = z.firstUnacked /\ d.ackList = z.ackList
          /\ d.recvNext = z.recvNext /\ d.recvCache = z.recvCache
      BY <3>1, <3>3 DEF signalRead, Conns
    <3> QED BY <2>2, <3>1, <3>2, <3>4, <3>5
  <2> QED BY <2>4, <2>5
<1> HIDE DEF d
<1>7. \A n \in Nat : Received(d, n) <=> Received(c, n) \/ n \in numbers
  <2> SUFFICES ASSUME NEW n \in Nat
               PROVE  n < next \/ (n \in cache /\ n > next) <=>
                      n < c.recvNext \/ n \in cache
    BY <1>6 DEF Received
  <2> QED BY <1>1, <1>4
<1>8. WindowInv(d)
  BY <1>6 DEF ConnInv, WindowInv
<1>9. RecvInv(d)
  <2>1. \A n \in d.ackList : n \in Nat
    BY <1>6 DEF Conns, Below
  <2>2. \A n \in d.ackList : Received(c, n) \/ n \in numbers
    BY <1>6 DEF ConnInv, RecvInv
  <2>3. \A n \in d.recvCache : next < n /\ n < next + RecvWindow
    BY <1>1, <1>4, <1>6
  <2> QED BY <1>1, <1>4, <1>6, <1>7, <2>1, <2>2, <2>3 DEF RecvInv
<1>10. SignalInv(d)
  BY <1>6 DEF ConnInv, SignalInv
<1> QED BY <1>4, <1>6, <1>7, <1>8, <1>9, <1>10 DEF ConnInv, d

-----------------------------------------------------------------------------
(* Input. *)

Kinds == {"data", "ack", "ping", "terminate"}
SegFor(a, b, m) ==
    /\ m.kind \in Kinds /\ m.close \in BOOLEAN
    /\ m.numbers \subseteq (IF m.kind = "ack" THEN Below(a) ELSE Below(b))
    /\ m.sendingNext \in Nat /\ m.receivingNext \in Nat

TerminateMoves ==
    {<<"Active", "PeerTerminating">>, <<"PeerClosed", "PeerTerminating">>,
     <<"ReadyToClose", "Terminating">>, <<"ReadyToClose", "Terminated">>,
     <<"Terminating", "Terminated">>}
InputMove(c, m, d) ==
    \/ d.state = c.state
    \/ m.close /\ <<c.state, d.state>> \in OptionMoves
    \/ m.kind = "terminate" /\ <<c.state, d.state>> \in TerminateMoves

(* What the arrival of m may make of connection c. *)
Absorbs(c, m, d) ==
    /\ d.sendNext = c.sendNext /\ d.eof = c.eof /\ d.taken = c.taken
    /\ c.firstUnacked <= d.firstUnacked /\ c.recvNext <= d.recvNext
    /\ \A n \in Nat : Received(c, n) => Received(d, n)
    /\ \A n \in Nat : Received(d, n) => Received(c, n) \/ (m.kind = "data" /\ n \in m.numbers)
    /\ \A n \in Nat : Received(d, n) =>
          n \in d.ackList \/ (Received(c, n) /\ (n \notin c.ackList \/ n < m.sendingNext))
    /\ d.window \subseteq c.window
    /\ d.state \in {"Active", "ReadyToClose"} =>
          \A n \in c.window \ d.window :
              n < m.receivingNext \/ (m.kind = "ack" /\ n \in m.numbers)
    /\ InputMove(c, m, d)

LEMMA InputDataFacts ==
    ASSUME NEW a \in Nat, NEW b \in Nat, NEW c \in Conns(a, b), ConnInv(c),
           NEW m, SegFor(a, b, m), m.kind = "data"
    PROVE  LET d == InputData(c, m) IN
           d \in Conns(a, b) /\ ConnInv(d) /\ Absorbs(c, m, d)
<1> DEFINE x == handleOption(c, m.close)
           y == processSendingNext(x, m.sendingNext)
           numbers == {n \in m.numbers : n >= y.recvNext /\ n < y.recvNext + RecvWindow}
           d == InputData(c, m)
<1>0. m.close \in BOOLEAN /\ m.sendingNext \in Nat /\ m.numbers \subseteq Below(b)
  BY DEF SegFor
<1>1. /\ x \in Conns(a, b) /\ ConnInv(x) /\ Turns(c, x)
      /\ x = c \/ (m.close /\ <<c.state, x.state>> \in OptionMoves)
  BY <1>0, handleOptionFacts
<1> HIDE DEF x
<1>2. /\ y \in Conns(a, b) /\ ConnInv(y)
      /\ y.state = x.state /\ y.eof = x.eof /\ y.taken = x.taken
      /\ y.window = x.window /\ y.sendNext = x.sendNext
      /\ y.firstUnacked = x.firstUnacked
      /\ y.recvNext = x.recvNext /\ y.recvCache = x.recvCache
      /\ y.ackList = From(x.ackList, m.sendingNext)
  BY <1>0, <1>1, processSendingNextFacts, ZenonT(60)
<1>3. d = Taking(y, numbers)
  BY DEF InputData, Taking, x
<1> HIDE DEF y
<1>4. /\ numbers \in SUBSET Below(b) /\ numbers \subseteq m.numbers
      /\ \A n \in numbers : n >= y.recvNext /\ n < y.recvNext + RecvWindow
  BY <1>0
<1> HIDE DEF numbers, d
<1>5. /\ d \in Conns(a, b) /\ ConnInv(d)
      /\ d.state = y.state /\ d.eof = y.eof /\ d.taken = y.taken
      /\ d.window = y.window /\ d.sendNext = y.sendNext
      /\ d.firstUnacked = y.firstUnacked /\ y.recvNext <= d.recvNext
      /\ \A n \in Nat : Received(d, n) <=> Received(y, n) \/ n \in numbers
      /\ d.ackList = y.ackList \cup numbers
  BY <1>2, <1>3, <1>4, TakingFacts
<1>6. \A n : Received(y, n) <=> Received(c, n)
  BY <1>1, <1>2 DEF Turns, Received
<1>7. /\ d.sendNext = c.sendNext /\ d.eof = c.eof /\ d.taken = c.taken
      /\ d.firstUnacked = c.firstUnacked /\ c.recvNext <= d.recvNext
      /\ d.window \subseteq c.window
      /\ d.state \in {"Active", "ReadyToClose"} => d.window = c.window
      /\ \A n \in c.ackList : n \in d.ackList \/ ~(n >= m.sendingNext)
  BY <1>1, <1>2, <1>5 DEF Turns, From
<1>8. c.ackList \subseteq Nat /\ c.firstUnacked \in Nat
  BY BelowNat DEF Conns
<1>9. Absorbs(c, m, d)
  <2>1. InputMove(c, m, d)
    BY <1>1, <1>2, <1>5 DEF InputMove
  <2>2. \A n \in Nat : Received(d, n) =>
          n \in d.ackList \/ (Received(c, n) /\ (n \notin c.ackList \/ n < m.sendingNext))
    BY <1>0, <1>5, <1>6, <1>7
  <2>3. \A n \in Nat : /\ Received(c, n) => Received(d, n)
                       /\ Received(d, n) => Received(c, n) \/ n \in m.numbers
    BY <1>4, <1>5, <1>6
  <2> QED BY <1>7, <1>8, <2>1, <2>2, <2>3 DEF Absorbs
<1> QED BY <1>5, <1>9 DEF d

LEMMA InputAckFacts ==
    ASSUME NEW a \in Nat, NEW b \in Nat, NEW c \in Conns(a, b), ConnInv(c),
           NEW m, SegFor(a, b, m), m.kind = "ack"
    PROVE  LET d == InputAck(c, m) IN
           d \in Conns(a, b) /\ ConnInv(d) /\ Absorbs(c, m, d)
<1> DEFINE x == handleOption(c, m.close)
           old == {n \in x.window : n < m.receivingNext}
           y == Acknowledge(x, old)
           d == InputAck(c, m)
<1>0. m.close \in BOOLEAN /\ m.receivingNext \in Nat /\ m.numbers \in SUBSET Nat
  BY BelowNat DEF SegFor
<1>1. /\ x \in Conns(a, b) /\ ConnInv(x) /\ Turns(c, x)
      /\ x = c \/ (m.close /\ <<c.state, x.state>> \in OptionMoves)
  BY <1>0, handleOptionFacts
<1>2. d = Acknowledge(y, m.numbers)
  BY DEF InputAck, processReceivingNext
<1> HIDE DEF x
<1>3. old \in SUBSET Nat
  BY <1>1, BelowNat DEF Conns
<1>4. /\ y \in Conns(a, b) /\ ConnInv(y)
      /\ y.state = x.state /\ y.eof = x.eof /\ y.taken = x.taken
      /\ y.window = x.window \ old /\ y.sendNext = x.sendNext
      /\ x.firstUnacked <= y.firstUnacked
      /\ y.recvNext = x.recvNext /\ y.recvCache = x.recvCache
      /\ y.ackList = x.ackList
  BY <1>1, <1>3, AcknowledgeFacts
<1> HIDE DEF y, d
<1>5. /\ d \in Conns(a, b) /\ ConnInv(d)
      /\ d.state = y.state /\ d.eof = y.eof /\ d.taken = y.taken
      /\ d.window = y.window \ m.numbers /\ d.sendNext = y.sendNext
      /\ y.firstUnacked <= d.firstUnacked
      /\ d.recvNext = y.recvNext /\ d.recvCache = y.recvCache
      /\ d.ackList = y.ackList
  BY <1>0, <1>2, <1>4, AcknowledgeFacts
<1>6. /\ d.sendNext = c.sendNext /\ d.eof = c.eof /\ d.taken = c.taken
      /\ d.recvNext = c.recvNext /\ d.recvCache = c.recvCache /\ d.ackList = c.ackList
      /\ d.window \subseteq c.window
      /\ d.state \in {"Active", "ReadyToClose"} =>
            \A n \in c.window \ d.window : n < m.receivingNext \/ n \in m.numbers
  BY <1>1, <1>4, <1>5 DEF Turns
<1>7. c.firstUnacked <= d.firstUnacked /\ c.recvNext <= c.recvNext
  <2>1. c.firstUnacked \in Nat /\ y.firstUnacked \in Nat /\ d.firstUnacked \in Nat
        /\ c.recvNext \in Nat /\ x.firstUnacked = c.firstUnacked
    BY <1>1, <1>4, <1>5 DEF Conns, Turns
  <2> QED BY <1>4, <1>5, <2>1
<1>8. (\A n : Received(d, n) <=> Received(c, n)) /\ InputMove(c, m, d)
  BY <1>1, <1>4, <1>5, <1>6 DEF Received, InputMove
<1> QED BY <1>5, <1>6, <1>7, <1>8 DEF Absorbs, d

LEMMA InputCmdFacts ==
    ASSUME NEW a \in Nat, NEW b \in Nat, NEW c \in Conns(a, b), ConnInv(c),
           NEW m, SegFor(a, b, m), m.kind \in {"ping", "terminate"}
    PROVE  LET d == InputCmd(c, m) IN
           d \in Conns(a, b) /\ ConnInv(d) /\ Absorbs(c, m, d)
<1> DEFINE x == handleOption(c, m.close)
           f == IF m.kind = "ping" THEN x
                ELSE CASE x.state \in {"Active", "PeerClosed"} -> setState(x, "PeerTerminating")
                       [] x.state = "ReadyToClose" -> setState(x, "Terminating")
                       [] x.state = "Terminating" -> setState(x, "Terminated")
                       [] OTHER -> x
           old == {n \in f.window : n < m.receivingNext}
           y == Acknowledge(f, old)
           g == processSendingNext(y, m.sendingNext)
           d == InputCmd(c, m)
<1>0. /\ m.close \in BOOLEAN /\ m.receivingNext \in Nat /\ m.sendingNext \in Nat
  BY DEF SegFor
<1>1. /\ x \in Conns(a, b) /\ ConnInv(x) /\ Turns(c, x)
      /\ x = c \/ (m.close /\ <<c.state, x.state>> \in OptionMoves)
  BY <1>0, handleOptionFacts
<1>2. d = IF m.close \/ m.kind = "terminate" THEN signalRead(signalWrite(g)) ELSE g
  BY DEF InputCmd, processReceivingNext
<1> HIDE DEF x
<1>3. /\ f \in Conns(a, b) /\ ConnInv(f) /\ Turns(x, f)
      /\ f = x \/ (m.kind = "terminate" /\ <<x.state, f.state>> \in TerminateMoves)
  <2>1. ASSUME NEW s \in {"PeerTerminating", "Terminating", "Terminated"},
               x.state \in EOFStates => s \in EOFStates
        PROVE  /\ setState(x, s) \in Conns(a, b) /\ ConnInv(setState(x, s))
               /\ Turns(x, setState(x, s)) /\ setState(x, s).state = s
    BY <1>1, <2>1, setStateFacts DEF States
  <2>2. CASE m.kind # "ping" /\ x.state \in {"Active", "PeerClosed"}
    <3>1. f = setState(x, "PeerTerminating")
      BY <2>2
    <3> QED BY <2>1, <2>2, <3>1 DEF EOFStates, TerminateMoves
  <2>3. CASE m.kind # "ping" /\ x.state = "ReadyToClose"
    <3>1. f = setState(x, "Terminating")
      BY <2>3
    <3> QED BY <2>1, <2>3, <3>1 DEF EOFStates, TerminateMoves
  <2>4. CASE m.kind # "ping" /\ x.state = "Terminating"
    <3>1. f = setState(x, "Terminated")
      BY <2>4
    <3> QED BY <2>1, <2>4, <3>1 DEF EOFStates, TerminateMoves
  <2>5. CASE m.kind = "ping"
             \/ x.state \notin {"Active", "PeerClosed", "ReadyToClose", "Terminating"}
    <3>1. f = x
      BY <2>5
    <3> QED BY <1>1, <3>1 DEF Turns
  <2> QED BY <2>2, <2>3, <2>4, <2>5
<1> HIDE DEF f
<1>4. old \in SUBSET Nat
  BY <1>3, BelowNat DEF Conns
<1>5. /\ y \in Conns(a, b) /\ ConnInv(y)
      /\ y.state = f.state /\ y.eof = f.eof /\ y.taken = f.taken
      /\ y.window = f.window \ old /\ y.sendNext = f.sendNext
      /\ f.firstUnacked <= y.firstUnacked
      /\ y.recvNext = f.recvNext /\ y.recvCache = f.recvCache
      /\ y.ackList = f.ackList
  BY <1>3, <1>4, AcknowledgeFacts
<1> HIDE DEF y
<1>6. /\ g \in Conns(a, b) /\ ConnInv(g)
      /\ g.state = y.state /\ g.eof = y.eof /\ g.taken = y.taken
      /\ g.window = y.window /\ g.sendNext = y.sendNext
      /\ g.firstUnacked = y.firstUnacked
      /\ g.recvNext = y.recvNext /\ g.recvCache = y.recvCache
      /\ g.ackList = From(y.ackList, m.sendingNext)
  <2>1. y \in Conns(a, b)
    BY <1>5
  <2>2. ConnInv(y)
    BY <1>5
  <2>3. m.sendingNext \in Nat
    BY <1>0
  <2>4. g \in Conns(a, b) /\ ConnInv(g)
    BY <2>1, <2>2, <2>3, processSendingNextFacts
  <2>5. /\ g.state = y.state /\ g.eof = y.eof /\ g.taken = y.taken
      /\ g.window = y.window /\ g.sendNext = y.sendNext
      /\ g.firstUnacked = y.firstUnacked
    BY <2>1, <2>2, <2>3, processSendingNextFacts
  <2>6. g.recvNext = y.recvNext /\ g.recvCache = y.recvCache
      /\ g.ackList = From(y.ackList, m.sendingNext)
    BY <2>1, <2>2, <2>3, processSendingNextFacts, SMTT(20)
  <2> QED BY <2>4, <2>5, <2>6
<1> HIDE DEF g, d
<1>7. /\ d \in Conns(a, b)
      /\ d.state = g.state /\ d.eof = g.eof /\ d.taken = g.taken /\ d.fresh = g.fresh
      /\ d.window = g.window /\ d.sendNext = g.sendNext
      /\ d.firstUnacked = g.firstUnacked
      /\ d.recvNext = g.recvNext /\ d.recvCache = g.recvCache /\ d.ackList = g.ackList
      /\ (d.reader => g.reader) /\ (d.writer => g.writer)
  <2>1. CASE d = g
    BY <1>6, <2>1
  <2>2. CASE d = signalRead(signalWrite(g))
    <3>1. d = [g EXCEPT !.writer = FALSE, !.reader = FALSE]
      BY <2>2 DEF signalRead, signalWrite
    <3> QED BY <1>6, <3>1 DEF Conns
  <2> QED BY <1>2, <2>1, <2>2
<1>8. ConnInv(d)
  BY <1>6, <1>7 DEF ConnInv, WindowInv, RecvInv, SignalInv, Received
<1>9. /\ d.sendNext = c.sendNext /\ d.eof = c.eof /\ d.taken = c.taken
      /\ d.recvNext = c.recvNext /\ d.recvCache = c.recvCache
      /\ d.ackList = From(c.ackList, m.sendingNext)
      /\ d.window \subseteq c.window
  BY <1>1, <1>3, <1>5, <1>6, <1>7 DEF Turns
<1>10. d.state \in {"Active", "ReadyToClose"} =>
            \A n \in c.window \ d.window : n < m.receivingNext
  <2>1. d.state = f.state /\ d.window = f.window \ old
    BY <1>5, <1>6, <1>7
  <2>2. f.state \in {"Active", "ReadyToClose"} => f.window = c.window
    BY <1>1, <1>3 DEF Turns, TerminateMoves
  <2> QED BY <2>1, <2>2
<1>11. c.firstUnacked <= d.firstUnacked /\ c.recvNext <= c.recvNext
  <2>1. c.firstUnacked \in Nat /\ d.firstUnacked \in Nat /\ c.recvNext \in Nat
        /\ f.firstUnacked = c.firstUnacked /\ d.firstUnacked = y.firstUnacked
    BY <1>1, <1>3, <1>5, <1>6, <1>7 DEF Conns, Turns
  <2> QED BY <1>5, <2>1
<1>12. InputMove(c, m, d)
  BY <1>1, <1>3, <1>5, <1>6, <1>7 DEF InputMove, OptionMoves, TerminateMoves
<1>13. \A n \in Nat : Received(d, n) =>
          n \in d.ackList \/ (Received(c, n) /\ (n \notin c.ackList \/ n < m.sendingNext))
  BY <1>0, <1>9 DEF Received, From
<1>14. \A n : Received(d, n) <=> Received(c, n)
  BY <1>9 DEF Received
<1> QED BY <1>7, <1>8, <1>9, <1>10, <1>11, <1>12, <1>13, <1>14 DEF Absorbs, d

LEMMA InputFacts ==
    ASSUME NEW a \in Nat, NEW b \in Nat, NEW c \in Conns(a, b), ConnInv(c),
           NEW m, SegFor(a, b, m)
    PROVE  LET d == Input(c, m) IN
           d \in Conns(a, b) /\ ConnInv(d) /\ Absorbs(c, m, d)
<1>1. CASE c.state = "Terminated"
  <2>1. Input(c, m) = c /\ c.firstUnacked \in Nat /\ c.recvNext \in Nat
    BY <1>1 DEF Input, Conns
  <2> QED BY <2>1 DEF Absorbs, InputMove
<1>2. CASE c.state # "Terminated"
  <2>1. Input(c, m) = CASE m.kind = "data" -> InputData(c, m)
                        [] m.kind = "ack" -> InputAck(c, m)
                        [] OTHER -> InputCmd(c, m)
    BY <1>2 DEF Input
  <2>2. CASE m.kind = "data"
    <3>1. Input(c, m) = InputData(c, m)
      BY <2>1, <2>2
    <3> QED BY <2>2, <3>1, InputDataFacts
  <2>3. CASE m.kind = "ack"
    <3>1. Input(c, m) = InputAck(c, m)
      BY <2>1, <2>3
    <3> QED BY <2>3, <3>1, InputAckFacts
  <2>4. CASE m.kind \in {"ping", "terminate"}
    <3>1. Input(c, m) = InputCmd(c, m)
      BY <2>1, <2>4
    <3> QED BY <2>4, <3>1, InputCmdFacts
  <2> QED BY <2>2, <2>3, <2>4 DEF SegFor, Kinds
<1> QED BY <1>1, <1>2

-----------------------------------------------------------------------------
(***************************************************************************)
(* Two connections.  s sends to r: r has only what s wrote, s transmits    *)
(* again what r does not have, and r keeps acknowledging what s transmits. *)
(***************************************************************************)
Open == {"Active", "ReadyToClose"}
Over == {"Terminating", "Terminated"}
Gone == {"PeerTerminating", "Terminating", "Terminated"}

LinkInv(s, r) ==
    /\ \A n \in Nat : Received(r, n) => n < s.sendNext
    /\ s.state \in Open => \A n \in Nat : n < s.sendNext => n \in s.window \/ Received(r, n)
    /\ \A n \in s.window : Received(r, n) => n \in r.ackList

(* A segment on its way says nothing that its sender s would take back. *)
SegInv(m, s) ==
    /\ m.kind = "data" => \A n \in m.numbers : n < s.sendNext
    /\ m.kind = "ack" => \A n \in m.numbers : Received(s, n)
    /\ m.kind = "terminate" => s.state \in Over
    /\ m.sendingNext <= s.firstUnacked /\ m.receivingNext <= s.recvNext

(* A connection c that becomes d: what it never takes back, and what its   *)
(* peer r sees of it as its receiver and as its sender.                    *)
Later(c, d) ==
    /\ c.sendNext <= d.sendNext /\ c.firstUnacked <= d.firstUnacked
    /\ c.recvNext <= d.recvNext
    /\ \A n \in Nat : Received(c, n) => Received(d, n)
    /\ c.state \in Over => d.state \in Over
    /\ c.state # "Active" => d.state # "Active" /\ d.sendNext = c.sendNext
SendStep(c, d, r) ==
    /\ d.state \in Open =>
          /\ c.state \in Open
          /\ \A n \in Nat : n < d.sendNext =>
                \/ n \in d.window \/ Received(r, n)
                \/ n < c.sendNext /\ n \notin c.window
    /\ \A n \in d.window : n \in c.window \/ n >= c.sendNext
RecvStep(c, d, r) ==
    /\ \A n \in Nat : Received(d, n) => Received(c, n) \/ n < r.sendNext
    /\ \A n \in r.window : Received(d, n) =>
          n \in d.ackList \/ (Received(c, n) /\ n \notin c.ackList)

LEMMA LinkSend ==
    ASSUME NEW a \in Nat, NEW b \in Nat, NEW c \in Conns(a, b), NEW d \in Conns(a, b),
           NEW r \in Conns(b, a), LinkInv(c, r), Later(c, d), SendStep(c, d, r)
    PROVE  LinkInv(d, r)
<1>1. c.sendNext \in Nat /\ d.sendNext \in Nat /\ c.window \subseteq Nat /\ d.window \subseteq Nat
  BY BelowNat DEF Conns
<1>2. \A n \in Nat : Received(r, n) => n < d.sendNext
  BY <1>1 DEF LinkInv, Later
<1>3. d.state \in Open => \A n \in Nat : n < d.sendNext => n \in d.window \/ Received(r, n)
  BY <1>1 DEF LinkInv, SendStep
<1>4. \A n \in d.window : Received(r, n) => n \in r.ackList
  <2> SUFFICES ASSUME NEW n \in d.window, Received(r, n) PROVE n \in r.ackList
    OBVIOUS
  <2>1. n \in Nat /\ n < c.sendNext
    BY <1>1 DEF LinkInv
  <2>2. n \in c.window
    BY <1>1, <2>1 DEF SendStep
  <2> QED BY <2>2 DEF LinkInv
<1> QED BY <1>2, <1>3, <1>4 DEF LinkInv

LEMMA LinkRecv ==
    ASSUME NEW a \in Nat, NEW b \in Nat, NEW c \in Conns(a, b), NEW d \in Conns(a, b),
           NEW s \in Conns(b, a), LinkInv(s, c), Later(c, d), RecvStep(c, d, s)
    PROVE  LinkInv(s, d)
<1>1. s.window \subseteq Nat
  BY BelowNat DEF Conns
<1>2. \A n \in Nat : Received(d, n) => n < s.sendNext
  BY DEF LinkInv, RecvStep
<1>3. s.state \in Open => \A n \in Nat : n < s.sendNext => n \in s.window \/ Received(d, n)
  BY DEF LinkInv, Later
<1>4. \A n \in s.window : Received(d, n) => n \in d.ackList
  BY <1>1 DEF LinkInv, RecvStep
<1> QED BY <1>2, <1>3, <1>4 DEF LinkInv

LEMMA SegLater ==
    ASSUME NEW a \in Nat, NEW b \in Nat, NEW c \in Conns(a, b), NEW d \in Conns(a, b),
           NEW m, SegFor(b, a, m), SegInv(m, c), Later(c, d)
    PROVE  SegInv(m, d)
<1>1. /\ c.sendNext \in Nat /\ d.sendNext \in Nat /\ c.firstUnacked \in Nat
      /\ d.firstUnacked \in Nat /\ c.recvNext \in Nat /\ d.recvNext \in Nat
      /\ m.sendingNext \in Nat /\ m.receivingNext \in Nat
  BY DEF Conns, SegFor
<1>2. m.numbers \subseteq Nat
  BY BelowNat DEF SegFor
<1> QED BY <1>1, <1>2 DEF SegInv, Later

(***************************************************************************)
(* How a connection ends.  s has not left (it was not closed and did not   *)
(* give up) and its peer q did not give up.  Then s is told that the       *)
(* stream is over only when it has received all of it.                     *)
(***************************************************************************)
EndInv(s, q, left, gave) ==
    /\ s.state = "ReadyToClose" => left
    /\ q.state = "PeerClosed" => left
    /\ (~left /\ ~gave /\ (s.state \in Gone \/ q.state \in Gone)) =>
          s.recvNext = q.sendNext /\ q.state # "Active"
    /\ (~left /\ ~gave /\ s.eof) => s.taken = q.sendNext

(* A step that makes d of c, by a side whose peer is o. *)
LeaveStep(c, d, left) == d.state = "ReadyToClose" => c.state = "ReadyToClose" \/ left
HearStep(c, d, leftPeer) == d.state = "PeerClosed" => c.state = "PeerClosed" \/ leftPeer
EndStep(c, d, o, left, gave, leftPeer) ==
    d.state \in Gone /\ c.state \notin Gone =>
        /\ left \/ o.state \in Gone
        /\ \/ leftPeer \/ gave \/ o.state \in Gone
           \/ c.state = "ReadyToClose" /\ c.window = {}
ReadStep(c, d) ==
    /\ c.eof => d.taken = c.taken
    /\ d.eof /\ ~c.eof => d.taken = d.recvNext /\ d.state \in EOFStates

(* A receiver that has all that was written. *)
LEMMA AllReceived ==
    ASSUME NEW a \in Nat, NEW b \in Nat, NEW s \in Conns(a, b), NEW r \in Conns(b, a),
           RecvInv(r), LinkInv(s, r)
    PROVE  /\ r.recvNext <= s.sendNext
           /\ s.state \in Open /\ s.window = {} => r.recvNext = s.sendNext
<1>1. s.sendNext \in Nat /\ r.recvNext \in Nat
  BY DEF Conns
<1>2. r.recvNext <= s.sendNext
  <2>1. CASE r.recvNext = 0
    BY <1>1, <2>1
  <2>2. CASE r.recvNext # 0
    <3>1. r.recvNext - 1 \in Nat /\ Received(r, r.recvNext - 1)
      BY <1>1, <2>2 DEF Received
    <3>2. r.recvNext - 1 < s.sendNext
      BY <3>1 DEF LinkInv
    <3> QED BY <1>1, <3>2
  <2> QED BY <2>1, <2>2
<1>3. ~Received(r, r.recvNext)
  BY <1>1 DEF RecvInv, Received
<1>4. s.state \in Open /\ s.window = {} => ~(r.recvNext < s.sendNext)
  BY <1>1, <1>3 DEF LinkInv
<1> QED BY <1>1, <1>2, <1>4

(* The step of a side that has not left keeps its own end in order. *)
LEMMA EndSelf ==
    ASSUME NEW a \in Nat, NEW b \in Nat, NEW c \in Conns(a, b), NEW d \in Conns(a, b),
           NEW q \in Conns(b, a), RecvInv(d), LinkInv(q, d),
           NEW left \in BOOLEAN, NEW left2 \in BOOLEAN, NEW gave \in BOOLEAN,
           NEW gave2 \in BOOLEAN, NEW leftPeer \in BOOLEAN,
           left => left2, EndInv(c, q, left, gave), Later(c, d),
           LeaveStep(c, d, left2), EndStep(c, d, q, left2, gave2, leftPeer), ReadStep(c, d)
    PROVE  EndInv(d, q, left2, gave)
<1>1. c.recvNext \in Nat /\ d.recvNext \in Nat /\ q.sendNext \in Nat
  BY DEF Conns
<1>2. d.recvNext <= q.sendNext
  BY AllReceived
<1>3. d.state = "ReadyToClose" => left2
  BY DEF EndInv, LeaveStep
<1>4. ~left2 /\ ~gave /\ (d.state \in Gone \/ q.state \in Gone) =>
          d.recvNext = q.sendNext /\ q.state # "Active"
  <2> SUFFICES ASSUME ~left2, ~gave, d.state \in Gone \/ q.state \in Gone
               PROVE  d.recvNext = q.sendNext /\ q.state # "Active"
    OBVIOUS
  <2>1. c.state \in Gone \/ q.state \in Gone
    BY DEF EndStep
  <2>2. c.recvNext = q.sendNext /\ q.state # "Active"
    BY <2>1 DEF EndInv
  <2> QED BY <1>1, <1>2, <2>2 DEF Later
<1>5. ~left2 /\ ~gave /\ d.eof => d.taken = q.sendNext
  <2> SUFFICES ASSUME ~left2, ~gave, d.eof PROVE d.taken = q.sendNext
    OBVIOUS
  <2>1. CASE c.eof
    BY <2>1 DEF EndInv, ReadStep
  <2>2. CASE ~c.eof
    <3>1. d.taken = d.recvNext /\ d.state \in EOFStates /\ d.state # "ReadyToClose"
      BY <1>3, <2>2 DEF ReadStep
    <3> QED BY <1>4, <3>1 DEF EOFStates, Gone
  <2> QED BY <2>1, <2>2
<1> QED BY <1>3, <1>4, <1>5 DEF EndInv

(* The step of the peer of a side that has not left. *)
LEMMA EndPeer ==
    ASSUME NEW a \in Nat, NEW b \in Nat, NEW c \in Conns(a, b), NEW d \in Conns(a, b),
           NEW s \in Conns(b, a), ConnInv(s), LinkInv(c, s),
           NEW left \in BOOLEAN, NEW gave \in BOOLEAN, NEW gave2 \in BOOLEAN,
           NEW left2 \in BOOLEAN,
           gave => gave2, EndInv(s, c, left, gave), Later(c, d), HearStep(c, d, left),
           EndStep(c, d, s, left2, gave2, left)
    PROVE  EndInv(s, d, left, gave2)
<1>1. d.state = "PeerClosed" => left
  BY DEF EndInv, HearStep
<1>2. ~left /\ ~gave2 /\ (s.state \in Gone \/ d.state \in Gone) =>
          s.recvNext = d.sendNext /\ d.state # "Active"
  <2> SUFFICES ASSUME ~left, ~gave2, s.state \in Gone \/ d.state \in Gone
               PROVE  s.recvNext = d.sendNext /\ d.state # "Active"
    OBVIOUS
  <2>1. CASE s.state \in Gone \/ c.state \in Gone
    <3>1. s.recvNext = c.sendNext /\ c.state # "Active"
      BY <2>1 DEF EndInv
    <3> QED BY <3>1 DEF Later
  <2>2. CASE s.state \notin Gone /\ c.state \notin Gone
    <3>1. c.state = "ReadyToClose" /\ c.window = {}
      BY <2>2 DEF EndStep
    <3>2. s.recvNext = c.sendNext
      BY <3>1, AllReceived DEF ConnInv, Open
    <3> QED BY <3>1, <3>2 DEF Later
  <2> QED BY <2>1, <2>2
<1>3. ~left /\ ~gave2 /\ s.eof => s.taken = d.sendNext
  <2> SUFFICES ASSUME ~left, ~gave2, s.eof PROVE s.taken = d.sendNext
    OBVIOUS
  <2>1. s.state \in EOFStates /\ s.state # "ReadyToClose"
    BY DEF ConnInv, SignalInv, EndInv
  <2>2. s.state \in Gone
    BY <2>1 DEF EOFStates, Gone
  <2>3. c.state # "Active" /\ s.taken = c.sendNext
    BY <2>2 DEF EndInv
  <2> QED BY <2>3 DEF Later
<1>4. s.state = "ReadyToClose" => left
  BY DEF EndInv
<1> QED BY <1>1, <1>2, <1>3, <1>4 DEF EndInv

-----------------------------------------------------------------------------
(***************************************************************************)
(* The conversation.                                                       *)
(***************************************************************************)
ConnsOf(e) == Conns(Writes[e], Writes[Peer(e)])
SegOK(m) == m.to \in Endpoints /\ SegFor(Writes[m.to], Writes[Peer(m.to)], m)
TypeInv ==
    /\ DOMAIN conn = Endpoints
    /\ \A e \in Endpoints : conn[e] \in ConnsOf(e) /\ ConnInv(conn[e])
    /\ \A m \in net : SegOK(m)
    /\ sessions \in 0..MaxSessions
    /\ closed \in [Endpoints -> BOOLEAN] /\ gaveUp \in [Endpoints -> BOOLEAN]

(* Before the listener has made a session the client talks to a            *)
(* connection that nobody has touched.                                     *)
View(e) == IF Alive(e) THEN conn[e] ELSE newConn
Left(e) == closed[e] \/ gaveUp[e]
NoServerYet ==
    sessions = 0 => /\ conn["server"] = NoConn /\ ~Left("server")
                    /\ \A m \in net : m.to = "server"
LinksInv ==
    /\ \A e \in Endpoints : LinkInv(View(e), View(Peer(e)))
    /\ \A e \in Endpoints : EndInv(View(e), View(Peer(e)), Left(e), gaveUp[Peer(e)])
    /\ \A m \in net : SegInv(m, View(Peer(m.to))) /\ (m.close => Left(Peer(m.to)))
TalkInv == sessions <= 1 => NoServerYet /\ LinksInv

LEMMA Peers ==
    ASSUME NEW e \in Endpoints
    PROVE  /\ Peer(e) \in Endpoints /\ Peer(e) # e /\ Peer(Peer(e)) = e
           /\ Endpoints = {e, Peer(e)}
           /\ Writes[e] \in Nat /\ Writes[Peer(e)] \in Nat
  BY MKCPAssumption DEF Endpoints, Peer

LEMMA NewConnFacts ==
    ASSUME NEW a \in Nat, NEW b \in Nat
    PROVE  /\ newConn \in Conns(a, b) /\ NoConn \in Conns(a, b)
           /\ ConnInv(newConn) /\ ConnInv(NoConn)
<1>1. newConn \in Conns(a, b)
  BY DEF newConn, Conns, States, Below
<1>2. NoConn \in Conns(a, b)
  BY <1>1 DEF NoConn, Conns, States
<1>3. Cardinality({}) = 0 /\ BufferSize \in Nat
  BY FS_EmptySet, MKCPAssumption
<1>4. ConnInv(newConn)
  BY <1>3 DEF newConn, ConnInv, WindowInv, RecvInv, SignalInv
<1>5. /\ NoConn.window = {} /\ NoConn.fresh = {} /\ NoConn.firstUnacked = 0
      /\ NoConn.sendNext = 0 /\ NoConn.taken = 0 /\ NoConn.recvNext = 0
      /\ NoConn.recvCache = {} /\ NoConn.ackList = {} /\ ~NoConn.reader
      /\ ~NoConn.writer /\ ~NoConn.eof
  BY DEF NoConn, newConn
<1>6. ConnInv(NoConn)
  BY <1>3, <1>5 DEF ConnInv, WindowInv, RecvInv, SignalInv
<1> QED BY <1>1, <1>2, <1>4, <1>6

LEMMA ViewType ==
    ASSUME TypeInv, NEW e \in Endpoints
    PROVE  View(e) \in ConnsOf(e) /\ ConnInv(View(e))
  BY Peers, NewConnFacts DEF TypeInv, View, ConnsOf

LEMMA TalkInit == Init => TypeInv /\ TalkInv
<1> SUFFICES ASSUME Init PROVE TypeInv /\ TalkInv
  OBVIOUS
<1>1. /\ DOMAIN conn = Endpoints /\ conn["client"] = newConn /\ conn["server"] = NoConn
      /\ net = {} /\ sessions = 0
      /\ closed = [e \in Endpoints |-> FALSE] /\ gaveUp = [e \in Endpoints |-> FALSE]
  BY DEF Init, Endpoints
<1>2. TypeInv
  <2>1. \A e \in Endpoints : conn[e] \in ConnsOf(e) /\ ConnInv(conn[e])
    BY <1>1, NewConnFacts, Peers DEF Endpoints, ConnsOf
  <2> QED BY <1>1, <2>1, MKCPAssumption DEF TypeInv
<1>3. \A e \in Endpoints : View(e) = newConn /\ Peer(e) \in Endpoints
  BY <1>1, Peers DEF View, Alive, Endpoints
<1>4. LinkInv(newConn, newConn)
  BY DEF LinkInv, newConn, Received
<1>5. EndInv(newConn, newConn, FALSE, FALSE)
  BY DEF EndInv, newConn, Gone
<1>6. \A e \in Endpoints : Left(e) = FALSE /\ gaveUp[e] = FALSE
  BY <1>1 DEF Left
<1> QED BY <1>1, <1>2, <1>3, <1>4, <1>5, <1>6 DEF TalkInv, LinksInv, NoServerYet, Endpoints

(***************************************************************************)
(* A step of side e, which makes d of its connection, sends segments and   *)
(* may be remembered to have left.                                         *)
(***************************************************************************)
SideStep(e, d) ==
    LET c == View(e)
        p == Peer(e) IN
    /\ d \in ConnsOf(e) /\ ConnInv(d) /\ Later(c, d)
    /\ SendStep(c, d, View(p)) /\ RecvStep(c, d, View(p))
    /\ LeaveStep(c, d, Left(e)') /\ HearStep(c, d, Left(p)) /\ ReadStep(c, d)
    /\ EndStep(c, d, View(p), Left(e)', gaveUp'[e], Left(p))

LEMMA TalkStep ==
    ASSUME TypeInv, TypeInv', sessions <= 1, TalkInv, NEW e \in Endpoints, NEW d,
           SideStep(e, d), NoServerYet',
           View(e)' = d, View(Peer(e))' = View(Peer(e)),
           Left(e) => Left(e)', gaveUp[e] => gaveUp'[e],
           Left(Peer(e))' = Left(Peer(e)), gaveUp'[Peer(e)] = gaveUp[Peer(e)],
           \A m \in net' \ net :
               m.to = Peer(e) /\ SegInv(m, d) /\ (m.close => Left(e)')
    PROVE  TalkInv'
<1> DEFINE p == Peer(e)
           a == Writes[e]
           b == Writes[p]
           c == View(e)
           r == View(p)
<1>1. /\ p \in Endpoints /\ p # e /\ Peer(p) = e /\ Endpoints = {e, p}
      /\ a \in Nat /\ b \in Nat
  BY Peers
<1>2. /\ c \in Conns(a, b) /\ ConnInv(c) /\ d \in Conns(a, b) /\ ConnInv(d)
      /\ r \in Conns(b, a) /\ ConnInv(r)
  BY <1>1, ViewType DEF ConnsOf, SideStep
<1>3. /\ LinkInv(c, r) /\ LinkInv(r, c)
      /\ EndInv(c, r, Left(e), gaveUp[p]) /\ EndInv(r, c, Left(p), gaveUp[e])
  BY <1>1 DEF TalkInv, LinksInv
<1>4. /\ Later(c, d) /\ SendStep(c, d, r) /\ RecvStep(c, d, r)
      /\ LeaveStep(c, d, Left(e)') /\ HearStep(c, d, Left(p)) /\ ReadStep(c, d)
      /\ EndStep(c, d, r, Left(e)', gaveUp'[e], Left(p))
  BY DEF SideStep
<1>5. /\ Left(e) \in BOOLEAN /\ Left(e)' \in BOOLEAN /\ Left(p) \in BOOLEAN
      /\ gaveUp[e] \in BOOLEAN /\ gaveUp'[e] \in BOOLEAN /\ gaveUp[p] \in BOOLEAN
  BY <1>1 DEF TypeInv, Left
<1> HIDE DEF a, b, c, r
<1>6. LinkInv(d, r)
  BY <1>1, <1>2, <1>3, <1>4, LinkSend
<1>7. LinkInv(r, d)
  BY <1>1, <1>2, <1>3, <1>4, LinkRecv
<1>8. EndInv(d, r, Left(e)', gaveUp[p])
  BY <1>1, <1>2, <1>3, <1>4, <1>5, <1>7, EndSelf DEF ConnInv
<1>9. EndInv(r, d, Left(p), gaveUp'[e])
  BY <1>1, <1>2, <1>3, <1>4, <1>5, EndPeer
<1>10. ASSUME NEW m \in net'
       PROVE  SegInv(m, View(Peer(m.to)))' /\ (m.close => Left(Peer(m.to))')
  <2>1. CASE m \in net
    <3>1. SegOK(m) /\ SegInv(m, View(Peer(m.to))) /\ (m.close => Left(Peer(m.to)))
      BY <2>1 DEF TypeInv, TalkInv, LinksInv
    <3>2. CASE m.to = e
      <4>1. Peer(m.to) = p
        BY <3>2
      <4> QED BY <3>1, <4>1
    <3>3. CASE m.to = p
      <4>1. Peer(m.to) = e /\ SegFor(b, a, m)
        BY <1>1, <3>1, <3>3 DEF SegOK, a, b
      <4>2. SegInv(m, d)
        BY <1>1, <1>2, <1>4, <3>1, <4>1, SegLater DEF c
      <4> QED BY <3>1, <4>1, <4>2
    <3> QED BY <1>1, <3>1, <3>2, <3>3 DEF SegOK
  <2>2. CASE m \notin net
    <3>1. Peer(m.to) = e
      BY <1>1, <2>2
    <3> QED BY <2>2, <3>1
  <2> QED BY <2>1, <2>2
<1>11. \A x \in Endpoints : /\ LinkInv(View(x), View(Peer(x)))'
                            /\ EndInv(View(x), View(Peer(x)), Left(x), gaveUp[Peer(x)])'
  BY <1>1, <1>6, <1>7, <1>8, <1>9 DEF r
<1> QED BY <1>10, <1>11 DEF TalkInv, LinksInv

(* An action of side e, which is there, leaves the other side alone. *)
LEMMA SideAction ==
    ASSUME TypeInv, TalkInv, NEW e \in Endpoints, Alive(e),
           NEW d \in ConnsOf(e), ConnInv(d),
           conn' = [conn EXCEPT ![e] = d], sessions' = sessions,
           closed' \in [Endpoints -> BOOLEAN], gaveUp' \in [Endpoints -> BOOLEAN],
           closed[e] => closed'[e], gaveUp[e] => gaveUp'[e],
           closed'[Peer(e)] = closed[Peer(e)], gaveUp'[Peer(e)] = gaveUp[Peer(e)],
           \A m \in net' \ net : m.to = Peer(e) /\ SegOK(m) /\ SegInv(m, d),
           sessions <= 1 => /\ SideStep(e, d)
                            /\ \A m \in net' \ net : m.close => Left(e)'
    PROVE  TypeInv' /\ TalkInv'
<1>1. Peer(e) \in Endpoints /\ Peer(e) # e /\ Endpoints = {e, Peer(e)}
  BY Peers
<1>2. conn'[e] = d /\ conn'[Peer(e)] = conn[Peer(e)] /\ DOMAIN conn' = Endpoints
  BY <1>1 DEF TypeInv
<1>3. TypeInv'
  <2>1. \A x \in Endpoints : conn'[x] \in ConnsOf(x) /\ ConnInv(conn'[x])
    BY <1>1, <1>2 DEF TypeInv
  <2>2. \A m \in net' : SegOK(m)
    BY DEF TypeInv
  <2> QED BY <1>2, <2>1, <2>2 DEF TypeInv
<1>4. CASE ~(sessions <= 1)
  BY <1>3, <1>4 DEF TalkInv
<1>5. CASE sessions <= 1
  <2>1. View(e)' = d /\ View(Peer(e))' = View(Peer(e))
    BY <1>2 DEF View, Alive
  <2>2. /\ Left(e) => Left(e)'
        /\ Left(Peer(e))' = Left(Peer(e))
    BY DEF Left
  <2>3. NoServerYet'
    <3>1. CASE sessions = 0
      <4>1. e = "client" /\ Peer(e) = "server"
        BY <3>1 DEF Alive, Endpoints, Peer
      <4>2. conn'["server"] = NoConn /\ ~Left("server")'
        BY <1>2, <1>5, <2>2, <3>1, <4>1 DEF TalkInv, NoServerYet
      <4>3. \A m \in net' : m.to = "server"
        BY <1>5, <3>1, <4>1 DEF TalkInv, NoServerYet
      <4> QED BY <4>2, <4>3 DEF NoServerYet
    <3>2. CASE sessions # 0
      BY <3>2 DEF NoServerYet
    <3> QED BY <3>1, <3>2
  <2> QED BY <1>3, <1>5, <2>1, <2>2, <2>3, TalkStep
<1> QED BY <1>3, <1>4, <1>5

(* A step that neither writes, reads nor receives. *)
LEMMA TurnStep ==
    ASSUME NEW a \in Nat, NEW b \in Nat, NEW c \in Conns(a, b), NEW d \in Conns(a, b),
           Turns(c, d), d.state \in Open => c.state \in Open,
           c.state \in Over => d.state \in Over,
           c.state # "Active" => d.state # "Active"
    PROVE  /\ Later(c, d) /\ ReadStep(c, d)
           /\ \A r : SendStep(c, d, r) /\ RecvStep(c, d, r)
<1>1. c.sendNext \in Nat /\ c.firstUnacked \in Nat /\ c.recvNext \in Nat
  BY DEF Conns
<1>2. \A n : Received(d, n) <=> Received(c, n)
  BY DEF Turns, Received
<1>3. Later(c, d)
  BY <1>1, <1>2 DEF Turns, Later
<1>4. ReadStep(c, d)
  BY DEF Turns, ReadStep
<1>5. ASSUME NEW r PROVE SendStep(c, d, r)
  BY DEF Turns, SendStep, Open
<1>6. ASSUME NEW r PROVE RecvStep(c, d, r)
  BY <1>2 DEF Turns, RecvStep
<1> QED BY <1>3, <1>4, <1>5, <1>6

LEMMA WriteStep ==
    ASSUME TypeInv, TalkInv, NEW e \in Endpoints, Write(e)
    PROVE  TypeInv' /\ TalkInv'
<1> DEFINE c == conn[e]
           a == Writes[e]
           b == Writes[Peer(e)]
           d == conn'[e]
           n == c.sendNext
<1>1. /\ c \in Conns(a, b) /\ ConnInv(c) /\ a \in Nat /\ b \in Nat
      /\ conn' = [conn EXCEPT ![e] = d] /\ View(e) = c
      /\ Alive(e) /\ c.state = "Active" /\ ~c.writer /\ n < a
  BY Peers DEF TypeInv, ConnsOf, Write, View
<1>2. \/ /\ Cardinality(c.window) <= BufferSize
         /\ d = [[c EXCEPT !.sendNext = @ + 1, !.window = @ \cup {n},
                           !.fresh = @ \cup {n}] EXCEPT !.writer = FALSE]
      \/ /\ ~(Cardinality(c.window) <= BufferSize)
         /\ d = [c EXCEPT !.writer = TRUE]
  BY DEF Write, TypeInv, signalWrite
<1>3. n \in Nat /\ c.window \in SUBSET Below(a) /\ c.firstUnacked \in Nat
  BY <1>1 DEF Conns
<1>4. /\ IsFiniteSet(c.window) /\ Cardinality(c.window) \in Nat /\ BufferSize \in Nat
      /\ c.window \subseteq Nat
  BY <1>1, <1>3, BelowFinite, BelowNat, MKCPAssumption DEF Below
<1> HIDE DEF a, b, c, d
<1>5. /\ d \in Conns(a, b) /\ ConnInv(d) /\ Later(c, d) /\ ReadStep(c, d)
      /\ d.state = "Active"
      /\ \A r : SendStep(c, d, r) /\ RecvStep(c, d, r)
  <2>1. CASE /\ Cardinality(c.window) <= BufferSize
             /\ d = [[c EXCEPT !.sendNext = @ + 1, !.window = @ \cup {n},
                           !.fresh = @ \cup {n}] EXCEPT !.writer = FALSE]
    <3>1. n + 1 \in 0..a /\ n \in Below(a)
      BY <1>1, <1>3 DEF Below
    <3>2. d \in Conns(a, b)
      BY <1>1, <2>1, <3>1, ZenonT(60) DEF Conns
    <3>3. /\ d.sendNext = n + 1 /\ d.window = c.window \cup {n}
          /\ d.fresh = c.fresh \cup {n} /\ ~d.writer /\ d.reader = c.reader
          /\ d.state = c.state /\ d.firstUnacked = c.firstUnacked
          /\ d.recvNext = c.recvNext /\ d.recvCache = c.recvCache
          /\ d.ackList = c.ackList /\ d.taken = c.taken /\ d.eof = c.eof
      BY <1>1, <2>1 DEF Conns
    <3> HIDE DEF n
    <3>4. Cardinality(d.window) <= BufferSize + 1
      BY <1>4, <2>1, <3>3, FS_AddElement, SMTT(30)
    <3>5. WindowInv(d)
      BY <1>1, <1>3, <1>4, <3>3, <3>4 DEF ConnInv, WindowInv, n
    <3>6. RecvInv(d)
      BY <1>1, <3>3 DEF ConnInv, RecvInv, Received
    <3>7. SignalInv(d)
      BY <1>1, <3>3 DEF ConnInv, SignalInv
    <3>8. \A k : Received(d, k) <=> Received(c, k)
      BY <3>3 DEF Received
    <3>9. c.recvNext \in Nat /\ n = c.sendNext
      BY <1>1 DEF Conns, n
    <3>10. Later(c, d)
      BY <1>1, <1>3, <3>3, <3>8, <3>9 DEF Later, Over
    <3>11. ReadStep(c, d)
      BY <1>1, <3>3 DEF ReadStep
    <3>12. ASSUME NEW r PROVE SendStep(c, d, r)
      BY <1>1, <1>3, <3>3, <3>9 DEF SendStep, Open
    <3>13. ASSUME NEW r PROVE RecvStep(c, d, r)
      BY <3>3, <3>8 DEF RecvStep
    <3> QED BY <1>1, <3>2, <3>3, <3>5, <3>6, <3>7, <3>10, <3>11, <3>12, <3>13 DEF ConnInv
  <2>2. CASE /\ ~(Cardinality(c.window) <= BufferSize)
             /\ d = [c EXCEPT !.writer = TRUE]
    <3>1. d \in Conns(a, b)
      BY <1>1, <2>2 DEF Conns
    <3>2. /\ Turns(c, d) /\ d.state = c.state /\ d.window = c.window /\ d.fresh = c.fresh
          /\ d.reader = c.reader
      BY <1>1, <2>2 DEF Conns, Turns
    <3>3. ConnInv(d)
      BY <1>1, <1>4, <2>2, <3>2 DEF ConnInv, WindowInv, RecvInv, SignalInv, Turns, Received
    <3>4. /\ Later(c, d) /\ ReadStep(c, d)
          /\ \A r : SendStep(c, d, r) /\ RecvStep(c, d, r)
      BY <1>1, <3>1, <3>2, TurnStep
    <3> QED BY <1>1, <3>1, <3>2, <3>3, <3>4
  <2> QED BY <1>2, <2>1, <2>2
<1>6. SideStep(e, d)
  BY <1>1, <1>5 DEF SideStep, ConnsOf, LeaveStep, HearStep, EndStep, Gone, a, b
<1>7. net' = net /\ sessions' = sessions /\ closed' = closed /\ gaveUp' = gaveUp
  BY DEF Write
<1> QED BY <1>1, <1>5, <1>6, <1>7, SideAction DEF TypeInv, ConnsOf, a, b

LEMMA ReadStepInv ==
    ASSUME TypeInv, TalkInv, NEW e \in Endpoints, Read(e)
    PROVE  TypeInv' /\ TalkInv'
<1> DEFINE c == conn[e]
           a == Writes[e]
           b == Writes[Peer(e)]
           d == conn'[e]
<1>1. /\ c \in Conns(a, b) /\ ConnInv(c) /\ a \in Nat /\ b \in Nat
      /\ conn' = [conn EXCEPT ![e] = d] /\ View(e) = c
      /\ Alive(e) /\ ~c.reader /\ ~c.eof
  BY Peers DEF TypeInv, ConnsOf, Read, View
<1>2. d = CASE c.taken < c.recvNext -> [c EXCEPT !.taken = @ + 1]
            [] c.taken = c.recvNext /\ c.state \in EOFStates -> [c EXCEPT !.eof = TRUE]
            [] OTHER -> [c EXCEPT !.reader = TRUE]
  BY DEF Read, TypeInv
<1>3. c.taken \in Nat /\ c.recvNext \in 0..b /\ c.taken <= c.recvNext
  BY <1>1 DEF Conns, ConnInv, RecvInv
<1> HIDE DEF a, b, c, d
<1>4. /\ d.state = c.state /\ d.window = c.window /\ d.fresh = c.fresh
      /\ d.sendNext = c.sendNext /\ d.firstUnacked = c.firstUnacked
      /\ d.recvNext = c.recvNext /\ d.recvCache = c.recvCache /\ d.ackList = c.ackList
      /\ d.writer = c.writer /\ d \in Conns(a, b)
      /\ d.taken <= c.recvNext
      /\ d.reader => d.taken = d.recvNext /\ c.state \notin EOFStates
      /\ d.eof => d.taken = d.recvNext /\ c.state \in EOFStates
  <2>1. CASE c.taken < c.recvNext
    <3>1. d = [c EXCEPT !.taken = @ + 1]
      BY <1>2, <1>3, <2>1
    <3> QED BY <1>1, <1>3, <2>1, <3>1 DEF Conns
  <2>2. CASE c.taken = c.recvNext /\ c.state \in EOFStates
    <3>1. d = [c EXCEPT !.eof = TRUE]
      BY <1>2, <1>3, <2>2
    <3> QED BY <1>1, <1>3, <2>2, <3>1 DEF Conns
  <2>3. CASE ~(c.taken < c.recvNext) /\ c.state \notin EOFStates
    <3>1. d = [c EXCEPT !.reader = TRUE] /\ c.taken = c.recvNext
      BY <1>2, <1>3, <2>3
    <3> QED BY <1>1, <1>3, <2>3, <3>1 DEF Conns
  <2> QED BY <1>3, <2>1, <2>2, <2>3
<1>5. ConnInv(d)
  BY <1>1, <1>4 DEF ConnInv, WindowInv, RecvInv, SignalInv, Received
<1>6. \A k : Received(d, k) <=> Received(c, k)
  BY <1>4 DEF Received
<1>7. c.sendNext \in Nat /\ c.firstUnacked \in Nat
  BY <1>1 DEF Conns
<1>8. Later(c, d)
  BY <1>3, <1>4, <1>6, <1>7 DEF Later
<1>9. ReadStep(c, d)
  BY <1>1, <1>4 DEF ReadStep
<1>10. ASSUME NEW r PROVE SendStep(c, d, r) /\ RecvStep(c, d, r)
  BY <1>4, <1>6 DEF SendStep, RecvStep
<1>11. SideStep(e, d)
  BY <1>1, <1>4, <1>5, <1>8, <1>9, <1>10
     DEF SideStep, ConnsOf, LeaveStep, HearStep, EndStep, a, b
<1>12. net' = net /\ sessions' = sessions /\ closed' = closed /\ gaveUp' = gaveUp
  BY DEF Read
<1> QED BY <1>1, <1>4, <1>5, <1>11, <1>12, SideAction DEF TypeInv, ConnsOf, a, b

LEMMA CloseStep ==
    ASSUME TypeInv, TalkInv, NEW e \in Endpoints, Close(e)
    PROVE  TypeInv' /\ TalkInv'
<1> DEFINE c == conn[e]
           a == Writes[e]
           b == Writes[Peer(e)]
           d == conn'[e]
<1>1. /\ c \in Conns(a, b) /\ ConnInv(c) /\ a \in Nat /\ b \in Nat
      /\ conn' = [conn EXCEPT ![e] = d] /\ View(e) = c
      /\ Alive(e) /\ c.state \notin EOFStates /\ c.state \in States
  <2>1. c \in Conns(a, b) /\ ConnInv(c) /\ a \in Nat /\ b \in Nat
    BY Peers DEF TypeInv, ConnsOf
  <2>2. Alive(e) /\ c.state \notin EOFStates /\ View(e) = c
    BY DEF Close, View
  <2>3. conn' = [conn EXCEPT ![e] = d]
    <3> DEFINE x == CASE c.state = "Active" -> setState(c, "ReadyToClose")
                      [] c.state = "PeerClosed" -> setState(c, "Terminating")
                      [] c.state = "PeerTerminating" -> setState(c, "Terminated")
    <3>1. conn' = [conn EXCEPT ![e] = x]
      BY DEF Close
    <3> HIDE DEF x
    <3> QED BY <3>1 DEF TypeInv
  <2>4. c.state \in States
    BY <2>1 DEF Conns
  <2> QED BY <2>1, <2>2, <2>3, <2>4
<1>2. /\ Peer(e) \in Endpoints /\ Peer(e) # e /\ Peer(Peer(e)) = e
      /\ closed' \in [Endpoints -> BOOLEAN] /\ closed'[e] /\ Left(e)'
      /\ closed'[Peer(e)] = closed[Peer(e)]
      /\ net' = net /\ sessions' = sessions /\ gaveUp' = gaveUp
  BY Peers DEF Close, TypeInv, Left
<1>3. d = CASE c.state = "Active" -> setState(c, "ReadyToClose")
            [] c.state = "PeerClosed" -> setState(c, "Terminating")
            [] c.state = "PeerTerminating" -> setState(c, "Terminated")
  BY DEF Close, TypeInv
<1>4. \/ c.state = "Active" /\ d = setState(c, "ReadyToClose")
      \/ c.state = "PeerClosed" /\ d = setState(c, "Terminating")
      \/ c.state = "PeerTerminating" /\ d = setState(c, "Terminated")
  BY <1>1, <1>3 DEF States, EOFStates
<1> HIDE DEF a, b, c, d
<1>5. /\ d \in Conns(a, b) /\ ConnInv(d) /\ Turns(c, d)
      /\ <<c.state, d.state>> \in {<<"Active", "ReadyToClose">>,
            <<"PeerClosed", "Terminating">>, <<"PeerTerminating", "Terminated">>}
  <2>1. ASSUME NEW s \in {"ReadyToClose", "Terminating", "Terminated"}
        PROVE  /\ setState(c, s) \in Conns(a, b) /\ ConnInv(setState(c, s))
               /\ Turns(c, setState(c, s)) /\ setState(c, s).state = s
    <3>1. s \in States \ {"Active"}
      BY DEF States
    <3> QED BY <1>1, <3>1, setStateFacts
  <2> QED BY <1>4, <2>1
<1>6. /\ Later(c, d) /\ ReadStep(c, d)
      /\ \A r : SendStep(c, d, r) /\ RecvStep(c, d, r)
  BY <1>1, <1>5, TurnStep DEF Open, Over
<1>7. ASSUME sessions <= 1 PROVE SideStep(e, d)
  <2>1. EndInv(View(Peer(e)), View(Peer(Peer(e))), Left(Peer(e)), gaveUp[Peer(Peer(e))])
    BY <1>2, <1>7 DEF TalkInv, LinksInv
  <2>2. c.state = "PeerClosed" => Left(Peer(e))
    BY <1>1, <1>2, <2>1 DEF EndInv
  <2>3. LeaveStep(c, d, Left(e)') /\ HearStep(c, d, Left(Peer(e)))
    BY <1>2, <1>5 DEF LeaveStep, HearStep
  <2>4. EndStep(c, d, View(Peer(e)), Left(e)', gaveUp'[e], Left(Peer(e)))
    BY <1>2, <1>5, <2>2 DEF EndStep, Gone
  <2> QED BY <1>1, <1>5, <1>6, <2>3, <2>4 DEF SideStep, ConnsOf, a, b
<1> QED BY <1>1, <1>2, <1>5, <1>7, SideAction DEF TypeInv, ConnsOf, a, b

(* What the arrival of a segment does to the side it is for. *)
LEMMA InputSide ==
    ASSUME TypeInv, TalkInv, sessions <= 1, NEW m \in net,
           Left(m.to)' = Left(m.to), gaveUp'[m.to] = gaveUp[m.to]
    PROVE  SideStep(m.to, Input(View(m.to), m))
<1> DEFINE e == m.to
           p == Peer(e)
           a == Writes[e]
           b == Writes[p]
           c == View(e)
           r == View(p)
           d == Input(c, m)
<1>1. /\ e \in Endpoints /\ p \in Endpoints /\ Peer(p) = e
      /\ a \in Nat /\ b \in Nat /\ SegFor(a, b, m)
  BY Peers DEF TypeInv, SegOK
<1>2. /\ c \in Conns(a, b) /\ ConnInv(c) /\ r \in Conns(b, a) /\ ConnInv(r)
  BY <1>1, ViewType DEF ConnsOf
<1>3. /\ SegInv(m, r) /\ (m.close => Left(p))
      /\ EndInv(c, r, Left(e), gaveUp[p])
  BY <1>1 DEF TalkInv, LinksInv
<1> HIDE DEF e, p, a, b, c, r
<1>4. d \in Conns(a, b) /\ ConnInv(d) /\ Absorbs(c, m, d)
  BY <1>1, <1>2, InputFacts
<1> HIDE DEF d
<1>5. /\ c.sendNext \in Nat /\ r.recvNext \in Nat /\ r.firstUnacked \in Nat
      /\ r.window \subseteq Nat /\ m.sendingNext \in Nat /\ m.receivingNext \in Nat
      /\ c.window \subseteq Nat
  BY <1>1, <1>2, BelowNat DEF Conns, SegFor
<1>6. InputMove(c, m, d)
  BY <1>4 DEF Absorbs
<1>7. Later(c, d)
  <2>1. c.state \in Over => d.state \in Over
    BY <1>6 DEF InputMove, OptionMoves, TerminateMoves, Over
  <2>2. c.state # "Active" => d.state # "Active"
    BY <1>6 DEF InputMove, OptionMoves, TerminateMoves
  <2> QED BY <1>4, <1>5, <2>1, <2>2 DEF Absorbs, Later
<1>8. SendStep(c, d, r)
  <2>1. d.state \in Open => c.state = d.state
    BY <1>6 DEF InputMove, OptionMoves, TerminateMoves, Open
  <2>2. d.state \in Open => \A n \in c.window \ d.window : Received(r, n)
    <3>1. d.state \in Open => \A n \in c.window \ d.window :
              n < m.receivingNext \/ (m.kind = "ack" /\ n \in m.numbers)
      BY <1>4 DEF Absorbs, Open
    <3>2. \A n \in Nat : n < m.receivingNext => Received(r, n)
      BY <1>3, <1>5 DEF SegInv, Received
    <3>3. m.kind = "ack" => \A n \in m.numbers : Received(r, n)
      BY <1>3 DEF SegInv
    <3> QED BY <1>5, <3>1, <3>2, <3>3
  <2>3. d.window \subseteq c.window /\ d.sendNext = c.sendNext
    BY <1>4 DEF Absorbs
  <2> QED BY <2>1, <2>2, <2>3 DEF SendStep
<1>9. RecvStep(c, d, r)
  <2>1. \A n \in Nat : Received(d, n) => Received(c, n) \/ n < r.sendNext
    BY <1>3, <1>4 DEF Absorbs, SegInv
  <2>2. \A n \in r.window : ~(n < m.sendingNext)
    BY <1>2, <1>3, <1>5 DEF SegInv, ConnInv, WindowInv
  <2>3. \A n \in Nat : Received(d, n) =>
          n \in d.ackList \/ (Received(c, n) /\ (n \notin c.ackList \/ n < m.sendingNext))
    BY <1>4 DEF Absorbs
  <2> QED BY <1>5, <2>1, <2>2, <2>3 DEF RecvStep
<1>10. LeaveStep(c, d, Left(e)') /\ HearStep(c, d, Left(p)) /\ ReadStep(c, d)
  <2>1. LeaveStep(c, d, Left(e)')
    BY <1>6 DEF InputMove, OptionMoves, TerminateMoves, LeaveStep
  <2>2. HearStep(c, d, Left(p))
    BY <1>3, <1>6 DEF InputMove, OptionMoves, TerminateMoves, HearStep
  <2>3. ReadStep(c, d)
    BY <1>4 DEF Absorbs, ReadStep
  <2> QED BY <2>1, <2>2, <2>3
<1>11. EndStep(c, d, r, Left(e)', gaveUp'[e], Left(p))
  <2> SUFFICES ASSUME d.state \in Gone, c.state \notin Gone
               PROVE  /\ Left(e)' \/ r.state \in Gone
                      /\ Left(p) \/ r.state \in Gone
    BY DEF EndStep
  <2>1. CASE m.close /\ <<c.state, d.state>> \in OptionMoves
    <3>1. c.state = "ReadyToClose"
      BY <2>1 DEF OptionMoves, Gone
    <3>2. Left(e) /\ Left(p)
      BY <1>3, <2>1, <3>1 DEF EndInv
    <3>3. Left(e)' = Left(e)
      BY DEF e
    <3> QED BY <3>2, <3>3
  <2>2. CASE m.kind = "terminate"
    BY <1>3, <2>2 DEF SegInv, Over, Gone
  <2> QED BY <1>6, <2>1, <2>2 DEF InputMove
<1> QED BY <1>4, <1>7, <1>8, <1>9, <1>10, <1>11 DEF SideStep, ConnsOf, a, b, c, d, r, p, e

LEMMA DeliverStep ==
    ASSUME TypeInv, TalkInv, NEW m \in net, NEW again \in BOOLEAN, Deliver(m, again)
    PROVE  TypeInv' /\ TalkInv'
<1> DEFINE e == m.to
           d == Input(conn[e], m)
<1>1. /\ e \in Endpoints /\ Writes[e] \in Nat /\ Writes[Peer(e)] \in Nat
      /\ SegFor(Writes[e], Writes[Peer(e)], m)
      /\ conn[e] \in Conns(Writes[e], Writes[Peer(e)]) /\ ConnInv(conn[e])
  BY Peers DEF TypeInv, SegOK, ConnsOf
<1>2. d \in ConnsOf(e) /\ ConnInv(d)
  BY <1>1, InputFacts DEF ConnsOf
<1>3. /\ conn' = [conn EXCEPT ![e] = d] /\ net' \subseteq net
      /\ sessions' = sessions /\ closed' = closed /\ gaveUp' = gaveUp
      /\ e = "server" => conn["server"].state # "Terminated"
  BY DEF Deliver
<1>4. Alive(e)
  <2>1. NoConn.state = "Terminated"
    BY DEF NoConn, newConn
  <2> QED BY <1>3, <2>1 DEF Alive, TypeInv, TalkInv, NoServerYet
<1>5. sessions <= 1 => SideStep(e, d)
  BY <1>3, <1>4, InputSide DEF View, Left
<1> QED BY <1>1, <1>2, <1>3, <1>4, <1>5, SideAction, ZenonT(60) DEF TypeInv

(* Losing segments does no harm. *)
LEMMA LoseStep ==
    ASSUME TypeInv, TalkInv, net' \subseteq net,
           UNCHANGED <<conn, sessions, closed, gaveUp>>
    PROVE  TypeInv' /\ TalkInv'
<1>1. TypeInv'
  BY DEF TypeInv
<1>2. \A e : View(e)' = View(e) /\ Left(e)' = Left(e)
  BY DEF View, Alive, Left
<1>3. TalkInv'
  BY <1>2 DEF TalkInv, NoServerYet, LinksInv
<1> QED BY <1>1, <1>3

LEMMA OnReceiveStep ==
    ASSUME TypeInv, TalkInv, NEW m \in net, NEW again \in BOOLEAN, OnReceive(m, again)
    PROVE  TypeInv' /\ TalkInv'
<1>1. m.to = "server" /\ net' \subseteq net
  BY DEF OnReceive
<1>2. CASE m.kind = "terminate"
  BY <1>1, <1>2, LoseStep DEF OnReceive
<1>3. CASE m.kind # "terminate"
  <2> DEFINE e == "server"
             d == Input(newConn, m)
  <2>1. /\ sessions < MaxSessions /\ sessions' = sessions + 1
        /\ conn' = [conn EXCEPT ![e] = d]
        /\ closed' = [closed EXCEPT ![e] = FALSE] /\ gaveUp' = [gaveUp EXCEPT ![e] = FALSE]
    BY <1>3 DEF OnReceive
  <2>2. /\ e \in Endpoints /\ Peer(e) \in Endpoints /\ Peer(e) = "client"
        /\ Endpoints = {e, "client"}
        /\ Writes[e] \in Nat /\ Writes[Peer(e)] \in Nat
        /\ SegFor(Writes[e], Writes[Peer(e)], m)
    BY <1>1, Peers DEF TypeInv, SegOK, Endpoints, Peer
  <2>3. d \in ConnsOf(e) /\ ConnInv(d)
    BY <2>2, NewConnFacts, InputFacts DEF ConnsOf
  <2>4. /\ conn'[e] = d /\ conn'["client"] = conn["client"] /\ DOMAIN conn' = Endpoints
        /\ ~closed'[e] /\ closed'["client"] = closed["client"]
        /\ ~gaveUp'[e] /\ gaveUp'["client"] = gaveUp["client"]
        /\ closed' \in [Endpoints -> BOOLEAN] /\ gaveUp' \in [Endpoints -> BOOLEAN]
        /\ sessions' \in 0..MaxSessions /\ sessions \in Nat
    BY <2>1, <2>2, MKCPAssumption DEF TypeInv
  <2> HIDE DEF d
  <2>5. TypeInv'
    <3>1. \A x \in Endpoints : conn'[x] \in ConnsOf(x) /\ ConnInv(conn'[x])
      BY <2>2, <2>3, <2>4 DEF TypeInv
    <3>2. \A n \in net' : SegOK(n)
      BY <1>1 DEF TypeInv
    <3> QED BY <2>4, <3>1, <3>2 DEF TypeInv
  <2>6. CASE sessions # 0
    BY <2>1, <2>4, <2>5, <2>6 DEF TalkInv
  <2>7. CASE sessions = 0
    <3>1. View(e) = newConn /\ ~Left(e) /\ ~gaveUp[e]
      BY <2>7 DEF View, Alive, TalkInv, NoServerYet, Left
    <3>2. View(e)' = d /\ View("client")' = View("client")
      BY <2>1, <2>4, <2>7 DEF View, Alive
    <3>3. ~Left(e)' /\ Left("client")' = Left("client")
      BY <2>4 DEF Left
    <3>4. Left(e)' = Left(e) /\ gaveUp'[e] = gaveUp[e]
      BY <2>2, <2>4, <3>1, <3>3 DEF TypeInv, Left
    <3>5. SideStep(e, d)
      BY <1>1, <2>7, <3>1, <3>4, InputSide DEF d
    <3>6. NoServerYet'
      BY <2>1, <2>7 DEF NoServerYet
    <3> QED BY <1>1, <2>2, <2>4, <2>5, <2>7, <3>1, <3>2, <3>3, <3>5, <3>6, TalkStep
  <2> QED BY <2>6, <2>7
<1> QED BY <1>2, <1>3

-----------------------------------------------------------------------------
(* flush. *)

LEMMA TurnsTwice ==
    ASSUME NEW c, NEW f, NEW d, Turns(c, f), Turns(f, d),
           d.state \in Open => f.state \in Open
    PROVE  Turns(c, d)
  BY DEF Turns, Open

LEMMA FlushStateFacts ==
    ASSUME NEW a \in Nat, NEW b \in Nat, NEW c \in Conns(a, b), ConnInv(c),
           NEW idle \in BOOLEAN, idle => c.state = "Active"
    PROVE  LET d == FlushState(c, idle) IN
           /\ d \in Conns(a, b) /\ ConnInv(d) /\ Turns(c, d)
           /\ \/ d = c
              \/ idle /\ d.state \in {"ReadyToClose", "Terminating"}
              \/ c.state = "ReadyToClose" /\ c.window = {} /\ d.state = "Terminating"
<1> DEFINE x == IF c.state = "Active" /\ idle THEN setState(c, "ReadyToClose") ELSE c
           d == FlushState(c, idle)
<1>1. /\ x \in Conns(a, b) /\ ConnInv(x) /\ Turns(c, x)
      /\ x = c \/ (idle /\ x.state = "ReadyToClose")
  <2>1. CASE c.state = "Active" /\ idle
    <3>1. "ReadyToClose" \in States \ {"Active"} /\ c.state \notin EOFStates
      BY <2>1 DEF States, EOFStates
    <3>2. x = setState(c, "ReadyToClose")
      BY <2>1
    <3> QED BY <2>1, <3>1, <3>2, setStateFacts
  <2>2. CASE ~(c.state = "Active" /\ idle)
    BY <2>2 DEF Turns
  <2> QED BY <2>1, <2>2
<1>2. d = IF x.state = "ReadyToClose" /\ x.window = {} THEN setState(x, "Terminating") ELSE x
  BY DEF FlushState
<1> HIDE DEF x, d
<1>3. CASE x.state = "ReadyToClose" /\ x.window = {}
  <2>1. "Terminating" \in States \ {"Active"} /\ "Terminating" \in EOFStates
    BY DEF States, EOFStates
  <2>2. /\ d \in Conns(a, b) /\ ConnInv(d) /\ Turns(x, d) /\ d.state = "Terminating"
    BY <1>1, <1>2, <1>3, <2>1, setStateFacts
  <2>3. Turns(c, d)
    BY <1>1, <2>2, TurnsTwice DEF Open
  <2> QED BY <1>1, <1>3, <2>2, <2>3 DEF d
<1>4. CASE ~(x.state = "ReadyToClose" /\ x.window = {})
  BY <1>1, <1>2, <1>4 DEF d
<1> QED BY <1>3, <1>4

(* The segments that a connection sends. *)
LEMMA SegFacts ==
    ASSUME NEW e \in Endpoints, NEW c \in ConnsOf(e), ConnInv(c),
           NEW kind \in Kinds, NEW numbers,
           numbers \subseteq IF kind = "ack" THEN c.ackList
                             ELSE IF kind = "data" THEN c.window ELSE {},
           kind = "terminate" => c.state \in Over
    PROVE  LET m == Seg(e, kind, numbers, c) IN
           /\ m.to = Peer(e) /\ SegOK(m) /\ SegInv(m, c)
           /\ m.close = (c.state = "ReadyToClose")
<1> DEFINE m == Seg(e, kind, numbers, c)
<1>1. /\ m.to = Peer(e) /\ m.kind = kind /\ m.numbers = numbers
      /\ m.close = (c.state = "ReadyToClose")
      /\ m.sendingNext = IF kind = "ack" THEN 0 ELSE c.firstUnacked
      /\ m.receivingNext = IF kind = "data" THEN 0 ELSE c.recvNext
  BY DEF Seg
<1> HIDE DEF m
<1>2. /\ Peer(e) \in Endpoints /\ Peer(Peer(e)) = e
      /\ c \in Conns(Writes[e], Writes[Peer(e)])
      /\ c.firstUnacked \in Nat /\ c.recvNext \in Nat
      /\ c.ackList \subseteq Below(Writes[Peer(e)]) /\ c.window \subseteq Below(Writes[e])
  BY Peers DEF ConnsOf, Conns
<1>3. SegOK(m)
  <2>1. m.numbers \subseteq IF m.kind = "ack" THEN Below(Writes[Peer(e)]) ELSE Below(Writes[e])
    BY <1>1, <1>2 DEF Kinds
  <2> QED BY <1>1, <1>2, <2>1 DEF SegOK, SegFor
<1>4. SegInv(m, c)
  <2>1. m.kind = "data" => \A n \in m.numbers : n < c.sendNext
    BY <1>1 DEF ConnInv, WindowInv
  <2>2. m.kind = "ack" => \A n \in m.numbers : Received(c, n)
    BY <1>1 DEF ConnInv, RecvInv
  <2>3. m.sendingNext <= c.firstUnacked /\ m.receivingNext <= c.recvNext
    BY <1>1, <1>2
  <2> QED BY <1>1, <2>1, <2>2, <2>3 DEF SegInv
<1> QED BY <1>1, <1>3, <1>4 DEF m

(* How flush moves a connection; gives says that a timer ended it. *)
FlushMove(c, d, gives) ==
    \/ d.state = c.state
    \/ gives /\ c.state \in Open /\ d.state \in {"ReadyToClose", "Terminating"}
    \/ c.state = "ReadyToClose" /\ c.window = {} /\ d.state = "Terminating"
    \/ c.state = "Terminating" /\ d.state = "Terminated"
    \/ c.state = "PeerTerminating" /\ d.state = "Terminating"

LEMMA FlushSide ==
    ASSUME TypeInv, TalkInv, NEW e \in Endpoints, conn[e].state # "Terminated",
           NEW f \in ConnsOf(e), NEW d \in ConnsOf(e), ConnInv(d),
           Turns(conn[e], d), Turns(f, d), f.state \in Over => d.state \in Over,
           f.state # "Active" => d.state # "Active", d.state \in Open => f.state \in Open,
           NEW gives \in BOOLEAN, FlushMove(conn[e], d, gives),
           NEW segs, Send(segs),
           \A m \in segs : /\ m.to = Peer(e) /\ SegOK(m) /\ SegInv(m, f)
                           /\ m.close => d.state = "ReadyToClose",
           conn' = [conn EXCEPT ![e] = d], sessions' = sessions, closed' = closed,
           gaveUp' = [gaveUp EXCEPT ![e] = @ \/ gives]
    PROVE  TypeInv' /\ TalkInv'
<1> DEFINE c == conn[e]
           a == Writes[e]
           b == Writes[Peer(e)]
<1>1. /\ c \in Conns(a, b) /\ f \in Conns(a, b) /\ d \in Conns(a, b)
      /\ a \in Nat /\ b \in Nat /\ Peer(e) \in Endpoints /\ Peer(e) # e
      /\ Peer(Peer(e)) = e
  BY Peers DEF TypeInv, ConnsOf
<1>2. Alive(e)
  <2>1. NoConn.state = "Terminated"
    BY DEF NoConn, newConn
  <2> QED BY <2>1 DEF Alive, TypeInv, TalkInv, NoServerYet
<1>3. View(e) = c
  BY <1>2 DEF View
<1>4. /\ gaveUp' \in [Endpoints -> BOOLEAN] /\ gaveUp'[e] = (gaveUp[e] \/ gives)
      /\ gaveUp'[Peer(e)] = gaveUp[Peer(e)]
      /\ Left(e)' = (Left(e) \/ gives)
  BY <1>1 DEF TypeInv, Left
<1>5. \A m \in net' \ net : m \in segs
  BY DEF Send
<1>6. \A m \in segs : SegInv(m, d)
  <2>1. Later(f, d)
    BY <1>1, TurnStep
  <2> SUFFICES ASSUME NEW m \in segs PROVE SegInv(m, d)
    OBVIOUS
  <2>2. SegFor(b, a, m)
    BY <1>1 DEF SegOK
  <2> QED BY <1>1, <2>1, <2>2, SegLater
<1> HIDE DEF c
<1>7. /\ Later(c, d) /\ ReadStep(c, d)
      /\ \A r : SendStep(c, d, r) /\ RecvStep(c, d, r)
  <2>1. FlushMove(c, d, gives) /\ Turns(c, d)
    BY DEF c
  <2>2. /\ d.state \in Open => c.state \in Open
        /\ c.state \in Over => d.state \in Over
        /\ c.state # "Active" => d.state # "Active"
    BY <2>1 DEF FlushMove, Open, Over
  <2> QED BY <1>1, <2>1, <2>2, TurnStep
<1>8. ASSUME sessions <= 1
      PROVE  SideStep(e, d) /\ (d.state = "ReadyToClose" => Left(e)')
  <2>1. FlushMove(c, d, gives) /\ EndInv(c, View(Peer(e)), Left(e), gaveUp[Peer(e)])
    BY <1>3, <1>8 DEF TalkInv, LinksInv, c
  <2>2. c.state = "ReadyToClose" => Left(e)
    BY <2>1 DEF EndInv
  <2>3. LeaveStep(c, d, Left(e)')
    BY <1>4, <2>1, <2>2 DEF LeaveStep, FlushMove
  <2>4. HearStep(c, d, Left(Peer(e)))
    BY <2>1 DEF HearStep, FlushMove
  <2>5. EndStep(c, d, View(Peer(e)), Left(e)', gaveUp'[e], Left(Peer(e)))
    BY <1>4, <2>1, <2>2 DEF EndStep, FlushMove, Gone
  <2>6. d.state = "ReadyToClose" => Left(e)'
    BY <1>4, <2>2, <2>3 DEF LeaveStep
  <2> QED BY <1>3, <1>7, <2>3, <2>4, <2>5, <2>6 DEF SideStep
<1>9. closed[e] => closed'[e]
  OBVIOUS
<1> QED BY <1>2, <1>4, <1>5, <1>6, <1>8, <1>9, SideAction DEF TypeInv

LEMMA FlushTerminatingStep ==
    ASSUME TypeInv, TalkInv, NEW e \in Endpoints, NEW idle \in BOOLEAN,
           NEW late \in BOOLEAN, FlushTerminating(e, idle, late)
    PROVE  TypeInv' /\ TalkInv'
<1> DEFINE c == conn[e]
           f == FlushState(c, idle)
           d == IF late THEN setState(f, "Terminated") ELSE f
           a == Writes[e]
           b == Writes[Peer(e)]
<1>1. /\ c.state # "Terminated" /\ f.state = "Terminating"
      /\ late => c.state = "Terminating"
      /\ idle => c.state = "Active"
      /\ Send({Seg(e, "terminate", {}, f)}) /\ conn' = [conn EXCEPT ![e] = d]
      /\ gaveUp' = [gaveUp EXCEPT ![e] = @ \/ idle]
      /\ sessions' = sessions /\ closed' = closed
  BY DEF FlushTerminating
<1>2. /\ c \in Conns(a, b) /\ ConnInv(c) /\ a \in Nat /\ b \in Nat
  BY Peers DEF TypeInv, ConnsOf
<1>3. /\ f \in Conns(a, b) /\ ConnInv(f) /\ Turns(c, f)
      /\ \/ f = c
         \/ idle /\ f.state \in {"ReadyToClose", "Terminating"}
         \/ c.state = "ReadyToClose" /\ c.window = {} /\ f.state = "Terminating"
  BY <1>1, <1>2, FlushStateFacts
<1> HIDE DEF f
<1>4. /\ d \in Conns(a, b) /\ ConnInv(d) /\ Turns(f, d)
      /\ d.state = IF late THEN "Terminated" ELSE "Terminating"
  <2>1. CASE late
    <3>1. "Terminated" \in States \ {"Active"} /\ "Terminated" \in EOFStates
      BY DEF States, EOFStates
    <3> QED BY <1>2, <1>3, <2>1, <3>1, setStateFacts
  <2>2. CASE ~late
    BY <1>1, <1>3, <2>2 DEF Turns
  <2> QED BY <2>1, <2>2
<1> HIDE DEF d
<1>5. Turns(c, d)
  BY <1>1, <1>3, <1>4, TurnsTwice DEF Open
<1>6. FlushMove(c, d, idle)
  BY <1>1, <1>3, <1>4 DEF FlushMove, Open
<1>7. LET m == Seg(e, "terminate", {}, f) IN
      m.to = Peer(e) /\ SegOK(m) /\ SegInv(m, f) /\ ~m.close
  BY <1>1, <1>3, SegFacts DEF ConnsOf, Over, Kinds
<1>8. f \in ConnsOf(e) /\ d \in ConnsOf(e)
  BY <1>3, <1>4 DEF ConnsOf
<1> DEFINE segs == {Seg(e, "terminate", {}, f)}
<1>9. \A m \in segs : /\ m.to = Peer(e) /\ SegOK(m) /\ SegInv(m, f)
                      /\ m.close => d.state = "ReadyToClose"
  BY <1>7
<1>10. /\ f.state \in Over => d.state \in Over
       /\ f.state # "Active" => d.state # "Active"
       /\ d.state \in Open => f.state \in Open
  BY <1>4 DEF Open, Over
<1> HIDE DEF segs
<1>11. Send(segs)
  BY <1>1 DEF segs
<1> QED BY <1>1, <1>4, <1>5, <1>6, <1>8, <1>9, <1>10, <1>11, FlushSide

LEMMA FlushStep ==
    ASSUME TypeInv, TalkInv, NEW e \in Endpoints, NEW idle \in BOOLEAN,
           NEW late \in BOOLEAN, NEW ackAgain \in BOOLEAN, NEW ping \in BOOLEAN,
           NEW sent, Flush(e, idle, late, ackAgain, sent, ping)
    PROVE  TypeInv' /\ TalkInv'
<1> DEFINE c == conn[e]
           x == FlushState(c, idle)
           f == IF late THEN setState(x, "Terminating") ELSE x
           d == [f EXCEPT !.fresh = @ \ sent, !.updated = FALSE,
                          !.ackDirty = IF f.ackList = {} THEN @ ELSE FALSE]
           segs == flushAcks(e, f, ackAgain) \cup flushSend(e, f, sent)
                     \cup (IF ping THEN {Seg(e, "ping", {}, f)} ELSE {})
           gives == idle \/ (late /\ c.state = "ReadyToClose")
           a == Writes[e]
           b == Writes[Peer(e)]
<1>1. /\ c.state # "Terminated" /\ x.state # "Terminating"
      /\ late => c.state \in {"PeerTerminating", "ReadyToClose"}
      /\ idle => c.state = "Active"
      /\ sent \subseteq f.window
      /\ Send(segs) /\ conn' = [conn EXCEPT ![e] = d]
      /\ gaveUp' = [gaveUp EXCEPT ![e] = @ \/ idle \/ (late /\ c.state = "ReadyToClose")]
      /\ sessions' = sessions /\ closed' = closed
  BY DEF Flush, MaySend
<1>2. /\ c \in Conns(a, b) /\ ConnInv(c) /\ a \in Nat /\ b \in Nat
  BY Peers DEF TypeInv, ConnsOf
<1>3. /\ x \in Conns(a, b) /\ ConnInv(x) /\ Turns(c, x)
      /\ \/ x = c
         \/ idle /\ x.state \in {"ReadyToClose", "Terminating"}
         \/ c.state = "ReadyToClose" /\ c.window = {} /\ x.state = "Terminating"
  BY <1>1, <1>2, FlushStateFacts
<1> HIDE DEF x
<1>4. /\ f \in Conns(a, b) /\ ConnInv(f) /\ Turns(x, f)
      /\ IF late THEN f.state = "Terminating" ELSE f = x
  <2>1. CASE late
    <3>1. "Terminating" \in States \ {"Active"} /\ "Terminating" \in EOFStates
      BY DEF States, EOFStates
    <3> QED BY <1>2, <1>3, <2>1, <3>1, setStateFacts
  <2>2. CASE ~late
    BY <1>1, <1>3, <2>2 DEF Turns
  <2> QED BY <2>1, <2>2
<1> HIDE DEF f
<1>5. Turns(c, f) /\ FlushMove(c, f, gives)
  <2>1. Turns(c, f)
    BY <1>3, <1>4, TurnsTwice DEF Open
  <2>2. FlushMove(c, f, gives)
    BY <1>1, <1>3, <1>4 DEF FlushMove, Open
  <2> QED BY <2>1, <2>2
<1>6. d \in Conns(a, b)
  BY <1>4 DEF Conns
<1>7. /\ d.state = f.state /\ d.window = f.window /\ d.fresh = f.fresh \ sent
      /\ d.sendNext = f.sendNext /\ d.firstUnacked = f.firstUnacked
      /\ d.recvNext = f.recvNext /\ d.recvCache = f.recvCache /\ d.ackList = f.ackList
      /\ d.taken = f.taken /\ d.eof = f.eof /\ d.reader = f.reader /\ d.writer = f.writer
  BY <1>4 DEF Conns
<1> HIDE DEF d
<1>8. ConnInv(d) /\ Turns(f, d) /\ Turns(c, d) /\ FlushMove(c, d, gives)
  <2>1. ConnInv(d)
    BY <1>4, <1>7 DEF ConnInv, WindowInv, RecvInv, SignalInv, Received
  <2>2. Turns(f, d)
    BY <1>7 DEF Turns
  <2>3. Turns(c, d)
    BY <1>5, <1>7, <2>2, TurnsTwice
  <2>4. FlushMove(c, d, gives)
    BY <1>5, <1>7 DEF FlushMove
  <2> QED BY <2>1, <2>2, <2>3, <2>4
<1>9. f \in ConnsOf(e) /\ d \in ConnsOf(e)
  BY <1>4, <1>6 DEF ConnsOf
<1>10. ASSUME NEW m \in segs
       PROVE  /\ m.to = Peer(e) /\ SegOK(m) /\ SegInv(m, f)
              /\ m.close => d.state = "ReadyToClose"
  <2>1. \/ m = Seg(e, "ack", f.ackList, f)
        \/ m = Seg(e, "ping", {}, f)
        \/ \E n \in sent : m = Seg(e, "data", {n}, f)
    BY <1>10 DEF flushAcks, flushSend
  <2>2. PICK kind, numbers :
            /\ kind \in {"ack", "ping", "data"} /\ m = Seg(e, kind, numbers, f)
            /\ numbers \subseteq IF kind = "ack" THEN f.ackList
                                 ELSE IF kind = "data" THEN f.window ELSE {}
    <3>1. CASE m = Seg(e, "ack", f.ackList, f)
      BY <3>1
    <3>2. CASE m = Seg(e, "ping", {}, f)
      BY <3>2
    <3>3. CASE \E n \in sent : m = Seg(e, "data", {n}, f)
      <4>1. PICK n \in sent : m = Seg(e, "data", {n}, f)
        BY <3>3
      <4>2. {n} \subseteq f.window
        BY <1>1
      <4> QED BY <4>1, <4>2
    <3> QED BY <2>1, <3>1, <3>2, <3>3
  <2>3. kind \in Kinds /\ kind # "terminate"
    BY <2>2 DEF Kinds
  <2> QED BY <1>4, <1>7, <1>9, <2>2, <2>3, SegFacts
<1>11. gives \in BOOLEAN /\ gaveUp' = [gaveUp EXCEPT ![e] = @ \/ gives]
  BY <1>1 DEF TypeInv
<1>12. \A m \in segs : /\ m.to = Peer(e) /\ SegOK(m) /\ SegInv(m, f)
                       /\ m.close => d.state = "ReadyToClose"
  BY <1>10
<1>13. Send(segs) /\ conn[e].state # "Terminated" /\ conn' = [conn EXCEPT ![e] = d]
       /\ sessions' = sessions /\ closed' = closed
  BY <1>1
<1>14. /\ f.state \in Over => d.state \in Over
       /\ f.state # "Active" => d.state # "Active"
       /\ d.state \in Open => f.state \in Open
  BY <1>7
<1> HIDE DEF segs, gives
<1> QED BY <1>8, <1>9, <1>11, <1>12, <1>13, <1>14, FlushSide

-----------------------------------------------------------------------------
(* The whole of the invariant. *)

LEMMA TalkNext == TypeInv /\ TalkInv /\ [Next]_vars => TypeInv' /\ TalkInv'
<1> SUFFICES ASSUME TypeInv, TalkInv, [Next]_vars PROVE TypeInv' /\ TalkInv'
  OBVIOUS
<1>1. CASE \E e \in Endpoints : Write(e) \/ Read(e) \/ Close(e)
  BY <1>1, WriteStep, ReadStepInv, CloseStep
<1>2. CASE \E m \in net, again \in BOOLEAN : Deliver(m, again) \/ OnReceive(m, again)
  BY <1>2, DeliverStep, OnReceiveStep
<1>3. CASE \E e \in Endpoints, idle, late \in BOOLEAN : FlushTerminating(e, idle, late)
  BY <1>3, FlushTerminatingStep
<1>4. CASE \E e \in Endpoints, idle, late, ackAgain, ping \in BOOLEAN :
              \E sent \in SUBSET conn[e].window : Flush(e, idle, late, ackAgain, sent, ping)
  BY <1>4, FlushStep
<1>5. CASE UNCHANGED vars
  BY <1>5, LoseStep DEF vars
<1> QED BY <1>1, <1>2, <1>3, <1>4, <1>5 DEF Next

LEMMA TalkAlways == Spec => [](TypeInv /\ TalkInv)
  BY TalkInit, TalkNext, PTL DEF Spec

(* The state of both connections is well formed, the two windows never hold more
   than BufferSize + 1 and RecvWindow - 1 segments, and no segment carries a number
   that was not written (conn.go: Write, Input, flush). *)
THEOREM TypeCorrect == Spec => []TypeOK
<1>1. TypeInv => TypeOK
  <2> SUFFICES ASSUME TypeInv PROVE TypeOK
    OBVIOUS
  <2>1. ASSUME NEW e \in Endpoints
        PROVE  /\ conn[e].state \in States
               /\ conn[e].fresh \subseteq conn[e].window
               /\ conn[e].window \subseteq Numbers(e)
               /\ Cardinality(conn[e].window) <= BufferSize + 1
               /\ conn[e].sendNext \in 0..Writes[e] /\ conn[e].firstUnacked \in 0..Writes[e]
               /\ conn[e].recvNext \in 0..Writes[Peer(e)]
               /\ conn[e].recvCache \subseteq Numbers(Peer(e))
               /\ Cardinality(conn[e].recvCache) < RecvWindow
               /\ conn[e].ackList \subseteq Numbers(Peer(e))
               /\ conn[e].taken \in 0..conn[e].recvNext
    <3> DEFINE c == conn[e]
               room == c.recvNext + 1 .. c.recvNext + RecvWindow - 1
    <3>1. /\ c \in Conns(Writes[e], Writes[Peer(e)]) /\ ConnInv(c)
          /\ Writes[e] \in Nat /\ Writes[Peer(e)] \in Nat /\ RecvWindow \in Nat \ {0}
      BY Peers, MKCPAssumption DEF TypeInv, ConnsOf
    <3> HIDE DEF c
    <3>2. /\ c.state \in States
          /\ c.window \subseteq Numbers(e) /\ c.recvCache \subseteq Numbers(Peer(e))
          /\ c.ackList \subseteq Numbers(Peer(e))
          /\ c.sendNext \in 0..Writes[e] /\ c.firstUnacked \in 0..Writes[e]
          /\ c.recvNext \in 0..Writes[Peer(e)] /\ c.taken \in Nat
      BY <3>1 DEF Conns, Below, Numbers
    <3>3. c.recvCache \subseteq room
      <4>1. c.recvCache \subseteq Nat
        BY <3>1, BelowNat DEF Conns
      <4> QED BY <3>1, <3>2, <4>1 DEF ConnInv, RecvInv
    <3>4. Cardinality(c.recvCache) < RecvWindow
      <4>1. /\ c.recvNext + 1 \in Int /\ c.recvNext + RecvWindow - 1 \in Int
        BY <3>1, <3>2
      <4>2. /\ IsFiniteSet(room)
            /\ Cardinality(room) = IF c.recvNext + 1 > c.recvNext + RecvWindow - 1 THEN 0
                 ELSE (c.recvNext + RecvWindow - 1) - (c.recvNext + 1) + 1
        BY <4>1, FS_Interval
      <4>3. Cardinality(room) = RecvWindow - 1
        BY <3>1, <3>2, <4>2
      <4>4. /\ Cardinality(c.recvCache) <= Cardinality(room)
            /\ Cardinality(c.recvCache) \in Nat
        BY <3>3, <4>2, FS_Subset, FS_CardinalityType
      <4> QED BY <3>1, <4>3, <4>4
    <3>5. /\ c.fresh \subseteq c.window /\ Cardinality(c.window) <= BufferSize + 1
          /\ c.taken \in 0..c.recvNext
      BY <3>1, <3>2 DEF ConnInv, WindowInv, RecvInv
    <3> QED BY <3>2, <3>4, <3>5 DEF c
  <2>2. ASSUME NEW m \in net
        PROVE  m.numbers \subseteq Numbers(IF m.kind = "ack" THEN m.to ELSE Peer(m.to))
    BY DEF TypeInv, SegOK, SegFor, Numbers, Below
  <2>3. \A e \in Endpoints : closed[e] \in BOOLEAN /\ gaveUp[e] \in BOOLEAN
    BY DEF TypeInv
  <2>4. DOMAIN conn = Endpoints /\ sessions \in 0..MaxSessions
    BY DEF TypeInv
  <2> QED BY <2>1, <2>2, <2>3, <2>4 DEF TypeOK
<1> QED BY <1>1, TalkAlways, PTL

(* No reader and no writer sleeps through a change it waits for: waitNotify and
   the signals of conn.go lose nothing. *)
THEOREM SignalsKept == Spec => []NoLostSignal
<1>1. TypeInv => NoLostSignal
  BY DEF TypeInv, ConnInv, SignalInv, NoLostSignal
<1> QED BY <1>1, TalkAlways, PTL

(* Both ends of the first session. *)
LEMMA TalkEnds ==
    ASSUME TypeInv, TalkInv, OneSession, NEW e \in Endpoints
    PROVE  /\ Peer(e) \in Endpoints
           /\ conn[e] \in ConnsOf(e) /\ conn[Peer(e)] \in ConnsOf(Peer(e))
           /\ LinkInv(conn[e], conn[Peer(e)])
           /\ EndInv(conn[e], conn[Peer(e)], Left(e), gaveUp[Peer(e)])
<1>1. sessions <= 1 /\ \A x : View(x) = conn[x]
  BY DEF OneSession, View, Alive
<1> QED BY <1>1, Peers DEF TypeInv, TalkInv, LinksInv

(* What left the window of a connection that still transmits has arrived at its
   peer, for every loss, repetition and order of the network (conn.go:
   processAckLocked, processReceivingNextLocked, Input). *)
THEOREM AckedReceived == Spec => []AckedIsReceived
<1>1. TypeInv /\ TalkInv => AckedIsReceived
  <2> SUFFICES ASSUME TypeInv, TalkInv, NEW e \in Endpoints, OneSession,
                      conn[e].state \in {"Active", "ReadyToClose"},
                      NEW n \in 0 .. conn[e].sendNext - 1
               PROVE  n \in conn[e].window \/ Received(conn[Peer(e)], n)
    BY DEF AckedIsReceived
  <2>1. LinkInv(conn[e], conn[Peer(e)]) /\ conn[e].sendNext \in Nat
    BY TalkEnds DEF ConnsOf, Conns
  <2> QED BY <2>1 DEF LinkInv, Open
<1> QED BY <1>1, TalkAlways, PTL

(* A receiver goes on acknowledging what its peer still transmits
   (conn.go: processSendingNextLocked). *)
THEOREM AcksKept == Spec => []AckKept
<1>1. TypeInv /\ TalkInv => AckKept
  BY TalkEnds DEF AckKept, LinkInv
<1> QED BY <1>1, TalkAlways, PTL

(* Closing does not truncate the stream (conn.go: Close, flush, Input, Read). *)
THEOREM NothingTruncated == Spec => []NoTruncation
<1>1. TypeInv /\ TalkInv => NoTruncation
  BY TalkEnds DEF NoTruncation, EndInv, Left
<1> QED BY <1>1, TalkAlways, PTL
=============================================================================
