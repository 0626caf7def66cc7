--------------------------- MODULE ResolverProofs ---------------------------
(***************************************************************************)
(* Theorems about Resolver, for any number of callers and calls: nobody    *)
(* waits for a query that is gone, no message has two owners, and a query  *)
(* is retried once.                                                        *)
(***************************************************************************)
EXTENDS Resolver, TLAPS

-----------------------------------------------------------------------------
(* The two exchanges of each call are different exchanges. *)
LEMMA ExchangesDiffer ==
  ASSUME NEW c \in Callers
  PROVE  /\ Call(c) \in Exchanges /\ Background(c) \in Exchanges
         /\ \A d \in Callers : Call(c) # Background(d)
         /\ \A d \in Callers : Call(c) = Call(d) => c = d
         /\ \A d \in Callers : Background(c) = Background(d) => c = d
         /\ \A x \in Exchanges : \E d \in Callers : x = Call(d) \/ x = Background(d)
BY DEF Exchanges, Call, Background

(* A query that DoChan starts or joins. *)
LEMMA DoChanEffect ==
  ASSUME TypeOK, NEW x \in Exchanges, NEW l \in BOOLEAN, DoChan(x, l)
  PROVE  /\ flight' \in Flights /\ flight' # None
         /\ made' \in Nat /\ runs' \in [Exchanges -> Nat]
         /\ l => x \in flight'.chans
         /\ flight = None =>
              /\ flight'.stage = "main" /\ flight'.dups = 0 /\ flight'.message = made
              /\ made' = made + 1 /\ runs' = [runs EXCEPT ![x] = @ + 1]
              /\ \A y \in flight'.chans : y = x
         /\ flight # None =>
              /\ flight'.stage = flight.stage /\ flight'.result = flight.result
              /\ flight'.dups > 0 /\ flight'.message = flight.message
              /\ flight.chans \subseteq flight'.chans
              /\ UNCHANGED <<made, runs>>
<1> DEFINE chans == IF l THEN {x} ELSE {}
<1>1. chans \subseteq Exchanges /\ \A y \in chans : y = x
  OBVIOUS
<1>2. l => x \in chans
  OBVIOUS
<1>3. CASE flight = None
  <2>1. flight' = [owner |-> x, run |-> runs[x], message |-> made, chans |-> chans,
                   dups |-> 0, stage |-> "main", result |-> None]
    BY <1>3 DEF DoChan
  <2>2. runs' = [runs EXCEPT ![x] = @ + 1] /\ made' = made + 1
    BY <1>3 DEF DoChan
  <2> HIDE DEF chans
  <2>3. flight' \in Flights
    BY <1>1, <2>1 DEF TypeOK, Flights, Stages
  <2>4. flight' # None
    BY <2>3, ResolverAssumption
  <2> QED BY <1>1, <1>2, <1>3, <2>1, <2>2, <2>3, <2>4 DEF TypeOK
<1>4. CASE flight # None
  <2>1. flight \in Flights
    BY <1>4 DEF TypeOK
  <2>2. flight' = [flight EXCEPT !.dups = @ + 1, !.chans = @ \cup chans] /\ UNCHANGED <<runs, made>>
    BY <1>4 DEF DoChan
  <2> HIDE DEF chans
  <2>6. flight.dups + 1 \in Nat /\ flight.chans \cup chans \in SUBSET Exchanges
    BY <1>1, <2>1 DEF Flights
  <2>3. flight' \in Flights
    BY <2>1, <2>2, <2>6 DEF Flights
  <2>4. flight' # None
    BY <2>3, ResolverAssumption
  <2>5. flight'.dups > 0 /\ flight'.chans = flight.chans \cup chans
    BY <2>1, <2>2 DEF Flights
  <2> QED BY <1>2, <1>4, <2>1, <2>2, <2>3, <2>4, <2>5 DEF TypeOK, Flights
<1> QED BY <1>3, <1>4

(* A retry starts or joins a query, or nothing happens. *)
LEMMA RetryEffect ==
  ASSUME TypeOK, NEW x \in Exchanges, Retry(x)
  PROVE  DoChan(x, FALSE) \/ UNCHANGED <<flight, runs, made>>
BY DEF Retry

-----------------------------------------------------------------------------
(* Types.                                                                  *)

\* A query that is over has a result.
ResultInv ==
    flight # None /\ flight.stage \in {"put", "publish"} => flight.result \in Results

TypeInv == TypeOK /\ ResultInv

(* The initial state is well typed. *)
LEMMA TypeInit == Init => TypeInv
BY ResolverAssumption DEF Init, TypeInv, TypeOK, ResultInv

(* Every step keeps the types. *)
LEMMA TypeStep ==
  ASSUME TypeInv, [Next]_vars
  PROVE  TypeInv'
<1>1. ASSUME NEW o \in Outcomes, MainAnswer(o) PROVE TypeInv'
  <2>1. flight \in Flights
    BY <1>1 DEF MainAnswer, TypeInv, TypeOK
  <2>2. flight' \in Flights
    BY <1>1, <2>1 DEF MainAnswer, Flights, Stages, Results, Outcomes
  <2>3. ResultInv'
    BY <1>1, <2>1 DEF MainAnswer, Flights, Results, Outcomes, TypeInv, ResultInv
  <2> QED BY <1>1, <2>2, <2>3 DEF MainAnswer, TypeInv, TypeOK
<1>2. ASSUME NEW o \in Outcomes \ {"filtered"}, FallbackAnswer(o) PROVE TypeInv'
  <2>1. flight \in Flights
    BY <1>2 DEF FallbackAnswer, TypeInv, TypeOK
  <2>2. flight' \in Flights
    BY <1>2, <2>1 DEF FallbackAnswer, Flights, Stages, Results, Outcomes
  <2>3. ResultInv'
    BY <1>2, <2>1 DEF FallbackAnswer, Flights, Results, Outcomes, TypeInv, ResultInv
  <2> QED BY <1>2, <2>2, <2>3 DEF FallbackAnswer, TypeInv, TypeOK
<1>3. ASSUME NEW b \in BOOLEAN, putMsgToCache(b) PROVE TypeInv'
  <2>1. flight \in Flights
    BY <1>3 DEF putMsgToCache, TypeInv, TypeOK
  <2>2. flight' \in Flights
    BY <1>3, <2>1 DEF putMsgToCache, Flights, Stages, Results, Outcomes
  <2>3. ResultInv'
    BY <1>3, <2>1 DEF putMsgToCache, Flights, Results, Outcomes, TypeInv, ResultInv
  <2> QED BY <1>3, <2>2, <2>3 DEF putMsgToCache, TypeInv, TypeOK
<1>4. ASSUME Publish PROVE TypeInv'
  <2>1. flight \in Flights /\ flight.result \in Results
    BY <1>4 DEF Publish, TypeInv, TypeOK, ResultInv
  <2>2. [result |-> flight.result, shared |-> flight.dups > 0,
         message |-> flight.message, opcode |-> flight.run] \in Replies
    BY <2>1 DEF Flights, Replies
  <2>3. res' \in [Exchanges -> Replies \cup {None}]
    BY <1>4, <2>2 DEF Publish, TypeInv, TypeOK
  <2> QED BY <1>4, <2>3 DEF Publish, TypeInv, TypeOK, ResultInv
<1>5. ASSUME Expire PROVE TypeInv'
  BY <1>5, ExchangesDiffer, ResolverAssumption DEF Expire, TypeInv, TypeOK, ResultInv
<1>6. ASSUME Evict PROVE TypeInv'
  BY <1>6, ExchangesDiffer, ResolverAssumption DEF Evict, TypeInv, TypeOK, ResultInv
<1>7. ASSUME NEW c \in Callers, ExchangeContext(c) PROVE TypeInv'
  BY <1>7, ExchangesDiffer, ResolverAssumption DEF ExchangeContext, TypeInv, TypeOK, ResultInv
<1>8. ASSUME NEW c \in Callers, Finish(c) PROVE TypeInv'
  BY <1>8, ExchangesDiffer, ResolverAssumption DEF Finish, TypeInv, TypeOK, ResultInv
<1>9. ASSUME NEW c \in Callers, NEW x \in {Call(c), Background(c)}, exchangeWithoutCache(x)
      PROVE  TypeInv'
  <2>1. x \in Exchanges /\ TypeOK /\ DoChan(x, TRUE)
    BY <1>9, ExchangesDiffer DEF exchangeWithoutCache, TypeInv
  <2>2. flight' \in Flights /\ made' \in Nat /\ runs' \in [Exchanges -> Nat]
    BY <2>1, DoChanEffect
  <2>3. ResultInv'
    BY <2>1, DoChanEffect DEF TypeInv, ResultInv
  <2> QED BY <1>9, <2>2, <2>3 DEF exchangeWithoutCache, TypeInv, TypeOK
<1>10. ASSUME NEW c \in Callers, NEW x \in {Call(c), Background(c)}, Receive(c, x)
       PROVE  TypeInv'
  <2>1. x \in Exchanges /\ TypeOK
    BY <1>10, ExchangesDiffer DEF TypeInv
  <2>2. flight' \in Flights \cup {None} /\ made' \in Nat /\ runs' \in [Exchanges -> Nat]
    BY <1>10, <2>1, DoChanEffect, RetryEffect DEF Receive, TypeOK
  <2>3. ResultInv'
    BY <1>10, <2>1, DoChanEffect, RetryEffect DEF Receive, TypeInv, ResultInv
  <2>4. res[x] \in Replies
    BY <1>10, <2>1 DEF Receive, TypeOK
  <2>5. res[x].message \in Nat
    BY <2>4 DEF Replies
  <2> QED BY <1>10, <2>1, <2>2, <2>3, <2>5 DEF Receive, TypeInv, TypeOK
<1>11. ASSUME NEW c \in Callers, NEW x \in {Call(c), Background(c)}, CtxDone(c, x)
       PROVE  TypeInv'
  BY <1>11, ExchangesDiffer, ResolverAssumption DEF CtxDone, TypeInv, TypeOK, ResultInv
<1>12. ASSUME NEW c \in Callers, NEW x \in {Call(c), Background(c)}, Monitor(x) PROVE TypeInv'
  <2>1. x \in Exchanges /\ TypeOK
    BY <1>12, ExchangesDiffer DEF TypeInv
  <2>2. flight' \in Flights \cup {None} /\ made' \in Nat /\ runs' \in [Exchanges -> Nat]
    BY <1>12, <2>1, DoChanEffect, RetryEffect DEF Monitor, TypeOK
  <2>3. ResultInv'
    BY <1>12, <2>1, DoChanEffect, RetryEffect DEF Monitor, TypeInv, ResultInv
  <2>4. res[x] \in Replies
    BY <1>12, <2>1 DEF Monitor, TypeOK
  <2>5. res[x].message \in Nat
    BY <2>4 DEF Replies
  <2> QED BY <1>12, <2>1, <2>2, <2>3, <2>5 DEF Monitor, TypeInv, TypeOK
<1>13. CASE UNCHANGED vars
  BY <1>13 DEF vars, TypeInv, TypeOK, ResultInv
<1> QED BY <1>1, <1>2, <1>3, <1>4, <1>5, <1>6, <1>7, <1>8, <1>9, <1>10, <1>11, <1>12, <1>13 DEF
    Next, fn, Exchange, Proceed

-----------------------------------------------------------------------------
(* Waiting and retrying.                                                   *)

(* Every step leaves whoever waits a result or a query. *)
LEMMA WaitStep ==
  ASSUME TypeInv, NobodyForgotten, [Next]_vars
  PROVE  NobodyForgotten'
<1>1. ASSUME NEW o \in Outcomes, MainAnswer(o) PROVE NobodyForgotten'
  <2>1. flight \in Flights
    BY <1>1 DEF MainAnswer, TypeInv, TypeOK
  <2>2. flight' \in Flights
    BY <1>1, <2>1 DEF MainAnswer, Flights, Stages, Results, Outcomes
  <2>3. flight' # None
    BY <2>2, ResolverAssumption
  <2>4. flight'.chans = flight.chans
    BY <1>1, <2>1 DEF MainAnswer, Flights
  <2> QED BY <1>1, <2>3, <2>4 DEF MainAnswer, NobodyForgotten
<1>2. ASSUME NEW o \in Outcomes \ {"filtered"}, FallbackAnswer(o) PROVE NobodyForgotten'
  <2>1. flight \in Flights
    BY <1>2 DEF FallbackAnswer, TypeInv, TypeOK
  <2>2. flight' \in Flights
    BY <1>2, <2>1 DEF FallbackAnswer, Flights, Stages, Results, Outcomes
  <2>3. flight' # None
    BY <2>2, ResolverAssumption
  <2>4. flight'.chans = flight.chans
    BY <1>2, <2>1 DEF FallbackAnswer, Flights
  <2> QED BY <1>2, <2>3, <2>4 DEF FallbackAnswer, NobodyForgotten
<1>3. ASSUME NEW b \in BOOLEAN, putMsgToCache(b) PROVE NobodyForgotten'
  <2>1. flight \in Flights
    BY <1>3 DEF putMsgToCache, TypeInv, TypeOK
  <2>2. flight' \in Flights
    BY <1>3, <2>1 DEF putMsgToCache, Flights, Stages, Results, Outcomes
  <2>3. flight' # None
    BY <2>2, ResolverAssumption
  <2>4. flight'.chans = flight.chans
    BY <1>3, <2>1 DEF putMsgToCache, Flights
  <2> QED BY <1>3, <2>3, <2>4 DEF putMsgToCache, NobodyForgotten
<1>4. ASSUME Publish PROVE NobodyForgotten'
  <2>1. flight \in Flights /\ flight.result \in Results
    BY <1>4 DEF Publish, TypeInv, TypeOK, ResultInv
  <2>2. [result |-> flight.result, shared |-> flight.dups > 0,
         message |-> flight.message, opcode |-> flight.run] \in Replies
    BY <2>1 DEF Flights, Replies
  <2> DEFINE r == [result |-> flight.result, shared |-> flight.dups > 0,
                   message |-> flight.message, opcode |-> flight.run]
  <2>3. r # None
    BY <2>2, ResolverAssumption
  <2>4. /\ res' = [x \in Exchanges |-> IF x \in flight.chans THEN r ELSE res[x]]
        /\ UNCHANGED pc
    BY <1>4 DEF Publish
  <2> HIDE DEF r
  <2> QED BY <2>3, <2>4 DEF NobodyForgotten
<1>5. ASSUME Expire PROVE NobodyForgotten'
  BY <1>5, ExchangesDiffer DEF Expire, TypeInv, TypeOK, NobodyForgotten
<1>6. ASSUME Evict PROVE NobodyForgotten'
  BY <1>6, ExchangesDiffer DEF Evict, TypeInv, TypeOK, NobodyForgotten
<1>7. ASSUME NEW c \in Callers, ExchangeContext(c) PROVE NobodyForgotten'
  BY <1>7, ExchangesDiffer DEF ExchangeContext, TypeInv, TypeOK, NobodyForgotten
<1>8. ASSUME NEW c \in Callers, Finish(c) PROVE NobodyForgotten'
  BY <1>8, ExchangesDiffer DEF Finish, TypeInv, TypeOK, NobodyForgotten
<1>9. ASSUME NEW c \in Callers, NEW x \in {Call(c), Background(c)}, exchangeWithoutCache(x)
      PROVE  NobodyForgotten'
  <2>1. x \in Exchanges /\ TypeOK /\ DoChan(x, TRUE)
    BY <1>9, ExchangesDiffer DEF exchangeWithoutCache, TypeInv
  <2>2. /\ flight' # None /\ x \in flight'.chans
        /\ flight # None => flight.chans \subseteq flight'.chans
    BY <2>1, DoChanEffect
  <2> QED BY <1>9, <2>1, <2>2 DEF exchangeWithoutCache, NobodyForgotten, TypeOK
<1>10. ASSUME NEW c \in Callers, NEW x \in {Call(c), Background(c)}, Receive(c, x)
       PROVE  NobodyForgotten'
  <2>1. x \in Exchanges /\ TypeOK
    BY <1>10, ExchangesDiffer DEF TypeInv
  <2>2. flight # None => flight' # None /\ flight.chans \subseteq flight'.chans
    BY <1>10, <2>1, DoChanEffect, RetryEffect DEF Receive
  <2>3. /\ res' = [res EXCEPT ![x] = None]
        /\ \A y \in Exchanges : y # x /\ pc'[y] \in {"wait", "monitor"} => pc[y] = pc'[y]
        /\ pc'[x] = "done"
    BY <1>10, <2>1, ExchangesDiffer DEF Receive, TypeOK
  <2> QED BY <2>1, <2>2, <2>3 DEF NobodyForgotten, TypeOK
<1>11. ASSUME NEW c \in Callers, NEW x \in {Call(c), Background(c)}, CtxDone(c, x)
       PROVE  NobodyForgotten'
  BY <1>11, ExchangesDiffer DEF CtxDone, TypeInv, TypeOK, NobodyForgotten
<1>12. ASSUME NEW c \in Callers, NEW x \in {Call(c), Background(c)}, Monitor(x)
       PROVE  NobodyForgotten'
  <2>1. x \in Exchanges /\ TypeOK
    BY <1>12, ExchangesDiffer DEF TypeInv
  <2>2. flight # None => flight' # None /\ flight.chans \subseteq flight'.chans
    BY <1>12, <2>1, DoChanEffect, RetryEffect DEF Monitor
  <2>3. /\ res' = [res EXCEPT ![x] = None]
        /\ \A y \in Exchanges : y # x /\ pc'[y] \in {"wait", "monitor"} => pc[y] = pc'[y]
        /\ pc'[x] = "done"
    BY <1>12, <2>1, ExchangesDiffer DEF Monitor, TypeOK
  <2> QED BY <2>1, <2>2, <2>3 DEF NobodyForgotten, TypeOK
<1>13. CASE UNCHANGED vars
  BY <1>13 DEF vars, TypeInv, TypeOK, NobodyForgotten
<1> QED BY <1>1, <1>2, <1>3, <1>4, <1>5, <1>6, <1>7, <1>8, <1>9, <1>10, <1>11, <1>12, <1>13 DEF
    Next, fn, Exchange, Proceed

\* How often the fn of an exchange can have run by now; the background fetch does not
\* begin before the call is over.
RunsInv ==
    /\ \A x \in Exchanges :
         /\ pc[x] \in {"idle", "begin"} => runs[x] = 0
         /\ pc[x] \in {"wait", "monitor"} => runs[x] <= 1
         /\ runs[x] <= 2
    /\ \A c \in Callers : pc[Call(c)] \in {"begin", "wait"} => pc[Background(c)] = "idle"

(* Every step keeps RunsInv. *)
LEMMA RunsStep ==
  ASSUME TypeInv, RunsInv, [Next]_vars
  PROVE  RunsInv'
<1>1. ASSUME NEW o \in Outcomes, MainAnswer(o) PROVE RunsInv'
  BY <1>1, ExchangesDiffer DEF MainAnswer, Outcomes, TypeInv, TypeOK, RunsInv
<1>2. ASSUME NEW o \in Outcomes \ {"filtered"}, FallbackAnswer(o) PROVE RunsInv'
  BY <1>2, ExchangesDiffer DEF FallbackAnswer, Outcomes, TypeInv, TypeOK, RunsInv
<1>3. ASSUME NEW b \in BOOLEAN, putMsgToCache(b) PROVE RunsInv'
  BY <1>3, ExchangesDiffer DEF putMsgToCache, TypeInv, TypeOK, RunsInv
<1>4. ASSUME Publish PROVE RunsInv'
  BY <1>4, ExchangesDiffer DEF Publish, TypeInv, TypeOK, RunsInv
<1>5. ASSUME Expire PROVE RunsInv'
  BY <1>5, ExchangesDiffer DEF Expire, TypeInv, TypeOK, RunsInv
<1>6. ASSUME Evict PROVE RunsInv'
  BY <1>6, ExchangesDiffer DEF Evict, TypeInv, TypeOK, RunsInv
<1>7. ASSUME NEW c \in Callers, ExchangeContext(c) PROVE RunsInv'
  BY <1>7, ExchangesDiffer DEF ExchangeContext, TypeInv, TypeOK, RunsInv
<1>8. ASSUME NEW c \in Callers, Finish(c) PROVE RunsInv'
  BY <1>8, ExchangesDiffer DEF Finish, TypeInv, TypeOK, RunsInv
<1>9. ASSUME NEW c \in Callers, NEW x \in {Call(c), Background(c)}, exchangeWithoutCache(x)
      PROVE  RunsInv'
  BY <1>9, ExchangesDiffer DEF exchangeWithoutCache, DoChan, TypeInv, TypeOK, RunsInv
<1>10. ASSUME NEW c \in Callers, NEW x \in {Call(c), Background(c)}, Receive(c, x)
       PROVE  RunsInv'
  BY <1>10, ExchangesDiffer DEF Receive, Retry, DoChan, TypeInv, TypeOK, RunsInv
<1>11. ASSUME NEW c \in Callers, NEW x \in {Call(c), Background(c)}, CtxDone(c, x)
       PROVE  RunsInv'
  BY <1>11, ExchangesDiffer DEF CtxDone, TypeInv, TypeOK, RunsInv
<1>12. ASSUME NEW c \in Callers, NEW x \in {Call(c), Background(c)}, Monitor(x) PROVE RunsInv'
  BY <1>12, ExchangesDiffer DEF Monitor, Retry, DoChan, TypeInv, TypeOK, RunsInv
<1>13. CASE UNCHANGED vars
  BY <1>13 DEF vars, TypeInv, TypeOK, RunsInv
<1> QED BY <1>1, <1>2, <1>3, <1>4, <1>5, <1>6, <1>7, <1>8, <1>9, <1>10, <1>11, <1>12, <1>13 DEF
    Next, fn, Exchange, Proceed

-----------------------------------------------------------------------------
(* Who has which message.                                                  *)

\* The number of a message is taken when its query starts.  The message of the query that
\* runs is nowhere else; one that was not shared is in one channel; and one that a caller
\* got is in no channel.
MessageInv ==
    /\ flight # None =>
         /\ flight.message < made
         /\ flight.dups = 0 => \A x, y \in flight.chans : x = y
         /\ \A x \in Exchanges : res[x] # None => res[x].message # flight.message
         /\ \A c \in Callers : got[c] # flight.message
    /\ \A x \in Exchanges : res[x] # None =>
         /\ res[x].message < made
         /\ ~res[x].shared => \A y \in Exchanges \ {x} :
                                res[y] # None => res[y].message # res[x].message
    /\ \A c \in Callers : got[c] \in Nat => got[c] < made
    /\ OwnMessage

\* A query was started or joined.
Started ==
    /\ flight' # None
    /\ flight = None => /\ flight'.message = made /\ made' = made + 1
                        /\ \A x, y \in flight'.chans : x = y
    /\ flight # None => /\ flight'.message = flight.message /\ flight'.dups > 0
                        /\ made' = made

(* To start or join a query keeps MessageInv. *)
LEMMA StartedKeeps ==
  ASSUME TypeInv, MessageInv, Started, UNCHANGED <<res, got>>
  PROVE  MessageInv'
<1>1. made \in Nat /\ \A x \in Exchanges : res[x] # None => res[x].message \in Nat
  BY DEF TypeInv, TypeOK, Replies
<1>2. flight # None => flight.message \in Nat /\ flight.dups \in Nat
  BY DEF TypeInv, TypeOK, Flights
<1>3. \A c \in Callers : got[c] # made
  BY <1>1, ResolverAssumption DEF TypeInv, TypeOK, MessageInv
<1>4. CASE flight = None
  BY <1>1, <1>3, <1>4 DEF Started, MessageInv, OwnMessage
<1>5. CASE flight # None
  <2>1. ~(flight'.dups = 0)
    BY <1>5 DEF Started
  <2> QED BY <1>1, <1>2, <1>5, <2>1 DEF Started, MessageInv, OwnMessage
<1> QED BY <1>4, <1>5

(* To take a result out of a channel, for oneself or for nobody, keeps MessageInv. *)
LEMMA TakenKeeps ==
  ASSUME TypeInv, MessageInv, NEW x \in Exchanges, res[x] # None,
         Started \/ UNCHANGED <<flight, made>>,
         res' = [res EXCEPT ![x] = None],
         \/ \E c \in Callers : got' = [got EXCEPT ![c] = Copied]
         \/ UNCHANGED got
         \/ ~res[x].shared /\ \E c \in Callers : got' = [got EXCEPT ![c] = res[x].message]
  PROVE  MessageInv'
<1>1. made \in Nat /\ \A y \in Exchanges : res[y] # None => res[y].message \in Nat
  BY DEF TypeInv, TypeOK, Replies
<1>2. flight # None => flight.message \in Nat /\ flight.dups \in Nat
  BY DEF TypeInv, TypeOK, Flights
<1>3. \A y \in Exchanges : res'[y] # None => y # x /\ res'[y] = res[y]
  BY DEF TypeInv, TypeOK
<1>4. \A c \in Callers : \/ got'[c] = got[c] \/ got'[c] = Copied
                         \/ ~res[x].shared /\ got'[c] = res[x].message
  BY DEF TypeInv, TypeOK
<1>5. \A c, d \in Callers : c # d => got'[c] = got[c] \/ got'[d] = got[d]
  BY DEF TypeInv, TypeOK
<1>6. \A c \in Callers : got[c] \in Nat \cup {None, Copied}
  BY DEF TypeInv, TypeOK
<1>7. OwnMessage'
  BY <1>1, <1>3, <1>4, <1>5, <1>6 DEF MessageInv, OwnMessage
<1>8. \A c \in Callers : got'[c] \in Nat => got'[c] < made
  BY <1>1, <1>4, ResolverAssumption DEF MessageInv
<1>9. made' \in Nat /\ made <= made'
  BY <1>1 DEF Started
<1>10. \A c \in Callers : got'[c] # made
  BY <1>1, <1>6, <1>8, ResolverAssumption
<1>11. flight' # None =>
          /\ flight'.message < made'
          /\ flight'.dups = 0 => \A y, z \in flight'.chans : y = z
          /\ \A y \in Exchanges : res'[y] # None => res'[y].message # flight'.message
          /\ \A c \in Callers : got'[c] # flight'.message
  <2>1. CASE UNCHANGED <<flight, made>>
    BY <1>2, <1>3, <1>4, <2>1, ResolverAssumption DEF MessageInv
  <2>2. CASE Started /\ flight = None
    BY <1>1, <1>3, <1>10, <2>2 DEF Started, MessageInv
  <2>3. CASE Started /\ flight # None
    <3>1. ~(flight'.dups = 0) /\ flight'.message = flight.message /\ made' = made
      BY <2>3 DEF Started
    <3> QED BY <1>2, <1>3, <1>4, <2>3, <3>1, ResolverAssumption DEF MessageInv
  <2> QED BY <2>1, <2>2, <2>3
<1>12. \A y \in Exchanges : res'[y] # None =>
          /\ res'[y].message < made'
          /\ ~res'[y].shared => \A z \in Exchanges \ {y} :
                                 res'[z] # None => res'[z].message # res'[y].message
  BY <1>1, <1>3, <1>9 DEF MessageInv
<1>13. \A c \in Callers : got'[c] \in Nat => got'[c] < made'
  BY <1>1, <1>8, <1>9
<1> QED BY <1>7, <1>11, <1>12, <1>13 DEF MessageInv

(* Every step keeps MessageInv. *)
LEMMA MessageStep ==
  ASSUME TypeInv, MessageInv, [Next]_vars
  PROVE  MessageInv'
<1>1. ASSUME NEW o \in Outcomes, MainAnswer(o) PROVE MessageInv'
  <2>1. flight \in Flights
    BY <1>1 DEF MainAnswer, TypeInv, TypeOK
  <2>2. /\ flight'.chans = flight.chans /\ flight'.message = flight.message
        /\ flight'.dups = flight.dups /\ flight # None
        /\ UNCHANGED <<res, got, made>>
    BY <1>1, <2>1 DEF MainAnswer, Flights
  <2> QED BY <2>2 DEF MessageInv, OwnMessage
<1>2. ASSUME NEW o \in Outcomes \ {"filtered"}, FallbackAnswer(o) PROVE MessageInv'
  <2>1. flight \in Flights
    BY <1>2 DEF FallbackAnswer, TypeInv, TypeOK
  <2>2. /\ flight'.chans = flight.chans /\ flight'.message = flight.message
        /\ flight'.dups = flight.dups /\ flight # None
        /\ UNCHANGED <<res, got, made>>
    BY <1>2, <2>1 DEF FallbackAnswer, Flights
  <2> QED BY <2>2 DEF MessageInv, OwnMessage
<1>3. ASSUME NEW b \in BOOLEAN, putMsgToCache(b) PROVE MessageInv'
  <2>1. flight \in Flights
    BY <1>3 DEF putMsgToCache, TypeInv, TypeOK
  <2>2. /\ flight'.chans = flight.chans /\ flight'.message = flight.message
        /\ flight'.dups = flight.dups /\ flight # None
        /\ UNCHANGED <<res, got, made>>
    BY <1>3, <2>1 DEF putMsgToCache, Flights
  <2> QED BY <2>2 DEF MessageInv, OwnMessage
<1>4. ASSUME Publish PROVE MessageInv'
  <2> DEFINE r == [result |-> flight.result, shared |-> flight.dups > 0,
                   message |-> flight.message, opcode |-> flight.run]
  <2>1. flight # None /\ flight \in Flights
    BY <1>4 DEF Publish, TypeInv, TypeOK
  <2>2. r.message = flight.message /\ (~r.shared => flight.dups = 0)
    <3>1. flight.dups \in Nat
      BY <2>1 DEF Flights
    <3>2. r.message = flight.message /\ r.shared = (flight.dups > 0)
      OBVIOUS
    <3>3. ~(flight.dups > 0) => flight.dups = 0
      BY <3>1
    <3> QED BY <3>2, <3>3
  <2>3. /\ res' = [x \in Exchanges |-> IF x \in flight.chans THEN r ELSE res[x]]
        /\ flight' = None /\ UNCHANGED <<got, made>>
    BY <1>4 DEF Publish
  <2> HIDE DEF r
  <2>4. \A x \in Exchanges :
          \/ x \in flight.chans /\ res'[x] = r
          \/ x \notin flight.chans /\ res'[x] = res[x]
    BY <2>3
  <2>5. OwnMessage'
    BY <2>1, <2>2, <2>3, <2>4 DEF MessageInv, OwnMessage
  <2>6. \A x \in Exchanges : res'[x] # None => res'[x].message < made
    BY <2>1, <2>2, <2>4 DEF MessageInv
  <2>7. ASSUME NEW x \in Exchanges, NEW y \in Exchanges \ {x},
               res'[x] # None, res'[y] # None, ~res'[x].shared
        PROVE  res'[y].message # res'[x].message
    BY <2>1, <2>2, <2>4, <2>7 DEF MessageInv
  <2> QED BY <2>3, <2>5, <2>6, <2>7 DEF MessageInv
<1>5. ASSUME Expire PROVE MessageInv'
  BY <1>5, ExchangesDiffer, ResolverAssumption DEF Expire, TypeInv, TypeOK, MessageInv,
      OwnMessage
<1>6. ASSUME Evict PROVE MessageInv'
  BY <1>6, ExchangesDiffer, ResolverAssumption DEF Evict, TypeInv, TypeOK, MessageInv,
      OwnMessage
<1>7. ASSUME NEW c \in Callers, ExchangeContext(c) PROVE MessageInv'
  <2>1. /\ got' = [got EXCEPT ![c] = None] \/ got' = [got EXCEPT ![c] = Copied]
        /\ UNCHANGED <<flight, made, res>>
    BY <1>7 DEF ExchangeContext
  <2>2. \A d \in Callers : got'[d] = got[d] \/ got'[d] \in {None, Copied}
    BY <2>1 DEF TypeInv, TypeOK
  <2>3. flight # None => flight.message \in Nat
    BY DEF TypeInv, TypeOK, Flights
  <2>4. OwnMessage'
    BY <2>1, <2>2 DEF MessageInv, OwnMessage
  <2> QED BY <2>1, <2>2, <2>3, <2>4, ResolverAssumption DEF MessageInv
<1>8. ASSUME NEW c \in Callers, Finish(c) PROVE MessageInv'
  <2>1. /\ got' = [got EXCEPT ![c] = None] \/ got' = [got EXCEPT ![c] = Copied]
        /\ UNCHANGED <<flight, made, res>>
    BY <1>8 DEF Finish
  <2>2. \A d \in Callers : got'[d] = got[d] \/ got'[d] \in {None, Copied}
    BY <2>1 DEF TypeInv, TypeOK
  <2>3. flight # None => flight.message \in Nat
    BY DEF TypeInv, TypeOK, Flights
  <2>4. OwnMessage'
    BY <2>1, <2>2 DEF MessageInv, OwnMessage
  <2> QED BY <2>1, <2>2, <2>3, <2>4, ResolverAssumption DEF MessageInv
<1>9. ASSUME NEW c \in Callers, NEW x \in {Call(c), Background(c)}, exchangeWithoutCache(x)
      PROVE  MessageInv'
  <2>1. x \in Exchanges /\ TypeOK /\ DoChan(x, TRUE)
    BY <1>9, ExchangesDiffer DEF exchangeWithoutCache, TypeInv
  <2>2. Started
    BY <2>1, DoChanEffect DEF Started, TypeOK
  <2> QED BY <1>9, <2>1, <2>2, StartedKeeps DEF exchangeWithoutCache
<1>10. ASSUME NEW c \in Callers, NEW x \in {Call(c), Background(c)}, Receive(c, x)
       PROVE  MessageInv'
  <2>1. x \in Exchanges /\ TypeOK /\ res[x] # None /\ res[x] \in Replies
    BY <1>10, ExchangesDiffer DEF Receive, TypeInv, TypeOK
  <2>2. Started \/ UNCHANGED <<flight, made>>
    BY <1>10, <2>1, RetryEffect, DoChanEffect DEF Receive, Started, TypeOK
  <2>3. /\ res' = [res EXCEPT ![x] = None]
        /\ \/ got' = [got EXCEPT ![c] = Copied] \/ UNCHANGED got
           \/ ~res[x].shared /\ got' = [got EXCEPT ![c] = res[x].message]
    BY <1>10 DEF Receive
  <2> QED BY <2>1, <2>2, <2>3, TakenKeeps
<1>11. ASSUME NEW c \in Callers, NEW x \in {Call(c), Background(c)}, CtxDone(c, x)
       PROVE  MessageInv'
  BY <1>11, ExchangesDiffer, ResolverAssumption DEF CtxDone, TypeInv, TypeOK, MessageInv,
      OwnMessage
<1>12. ASSUME NEW c \in Callers, NEW x \in {Call(c), Background(c)}, Monitor(x)
       PROVE  MessageInv'
  <2>1. x \in Exchanges /\ TypeOK /\ res[x] # None /\ res[x] \in Replies
    BY <1>12, ExchangesDiffer DEF Monitor, TypeInv, TypeOK
  <2>2. Started \/ UNCHANGED <<flight, made>>
    BY <1>12, <2>1, RetryEffect, DoChanEffect DEF Monitor, Started, TypeOK
  <2>3. res' = [res EXCEPT ![x] = None] /\ UNCHANGED got
    BY <1>12 DEF Monitor
  <2> QED BY <2>1, <2>2, <2>3, TakenKeeps
<1>13. CASE UNCHANGED vars
  BY <1>13 DEF vars, TypeInv, TypeOK, MessageInv, OwnMessage
<1> QED BY <1>1, <1>2, <1>3, <1>4, <1>5, <1>6, <1>7, <1>8, <1>9, <1>10, <1>11, <1>12, <1>13 DEF
    Next, fn, Exchange, Proceed

-----------------------------------------------------------------------------
(* The theorems.                                                           *)

ResolverInv == TypeInv /\ NobodyForgotten /\ RunsInv /\ MessageInv

(* The inductive invariant always holds. *)
LEMMA ResolverAlways == Spec => []ResolverInv
<1>1. Init => ResolverInv
  <2> SUFFICES ASSUME Init PROVE ResolverInv
    OBVIOUS
  <2>1. NobodyForgotten
    BY DEF Init, NobodyForgotten
  <2>2. RunsInv
    BY ExchangesDiffer DEF Init, RunsInv
  <2>3. MessageInv
    BY ResolverAssumption DEF Init, MessageInv, OwnMessage
  <2> QED BY TypeInit, <2>1, <2>2, <2>3 DEF ResolverInv
<1>2. ResolverInv /\ [Next]_vars => ResolverInv'
  BY TypeStep, WaitStep, RunsStep, MessageStep DEF ResolverInv
<1> QED BY <1>1, <1>2, PTL DEF Spec

(* Flights, replies and messages stay within their types (resolver.go,
   singleflight.go). *)
THEOREM TypeCorrect == Spec => []TypeOK
<1>1. ResolverInv => TypeOK
  BY DEF ResolverInv, TypeInv
<1> QED BY ResolverAlways, <1>1, PTL

(* Nobody waits for a query that has gone: callers and monitors have a result or are
   registered with the query that runs (singleflight.go, DoChan and doCall). *)
THEOREM NoLostWaiter == Spec => []NobodyForgotten
<1>1. ResolverInv => NobodyForgotten
  BY DEF ResolverInv
<1> QED BY ResolverAlways, <1>1, PTL

(* A message that was not copied has one owner (resolver.go, msg.Copy() if shared). *)
THEOREM SoleOwner == Spec => []OwnMessage
<1>1. ResolverInv => OwnMessage
  BY DEF ResolverInv, MessageInv
<1> QED BY ResolverAlways, <1>1, PTL

(* The function of an exchange runs at most twice (resolver.go, the calls of DoChan). *)
THEOREM AtMostOneRetry == Spec => []RetriedOnce
<1>1. ResolverInv => RetriedOnce
  BY DEF ResolverInv, RunsInv, RetriedOnce
<1> QED BY ResolverAlways, <1>1, PTL
=============================================================================
