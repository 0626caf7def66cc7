------------------------------ MODULE Resolver ------------------------------
(***************************************************************************)
(* The DNS resolver (dns/resolver.go) for one question: ExchangeContext    *)
(* with its cache, exchangeWithoutCache over singleflight                  *)
(* (common/singleflight/singleflight.go), main and fallback servers, the   *)
(* retry of a failed query and what goes on after a caller has left.       *)
(*                                                                         *)
(* A call has two exchanges: its own and the one in the background that    *)
(* its deferred function may start.  The message a query returns is named  *)
(* by the number of the run of fn that made it.                            *)
(***************************************************************************)
EXTENDS Integers

CONSTANTS
    Callers,
    HasFallback,   \* Resolver.fallback # nil
    MaxCalls,      \* bound: calls of ExchangeContext
    None,
    Copied         \* a message of its own, which Copy made

Exchanges == Callers \X {"call", "background"}
Call(c) == <<c, "call">>
Background(c) == <<c, "background">>

Results == {"ok", "fail", "timeout"}
Stages == {"main", "fallback", "put", "publish"}

\* A call of singleflight, and the Result it sends.
Flights == [owner : Exchanges, run : Nat, message : Nat, chans : SUBSET Exchanges,
            dups : Nat, stage : Stages, result : Results \cup {None}]
Replies == [result : Results, shared : BOOLEAN, message : Nat, opcode : Nat]

ASSUME ResolverAssumption ==
    /\ HasFallback \in BOOLEAN /\ MaxCalls \in Nat
    /\ None # Copied
    /\ None \notin Nat /\ Copied \notin Nat
    /\ None \notin Flights \cup Replies

VARIABLES
    cache,         \* the cached answer: none, fresh or stale (WithStale)
    flight,        \* Group.m: the call of this question
    pc,            \* where each exchange is
    runs,          \* how often its fn has run
    made,          \* how often any fn has run
    res,           \* the channel DoChan gave it
    got,           \* the message ExchangeContext returned, if it still has it
    calls

vars == <<cache, flight, pc, runs, made, res, got, calls>>

Init ==
    /\ cache = "none" /\ flight = None
    /\ pc = [x \in Exchanges |-> "idle"]
    /\ runs = [x \in Exchanges |-> 0]
    /\ res = [x \in Exchanges |-> None]
    /\ got = [c \in Callers |-> None]
    /\ made = 0 /\ calls = 0

-----------------------------------------------------------------------------
(* singleflight.                                                           *)

\* Mutant: the channel of a second caller is not kept.
DoChan_FirstOnly(x, listens) ==
    IF flight = None
    THEN /\ flight' = [owner |-> x, run |-> runs[x], message |-> made,
                       chans |-> IF listens THEN {x} ELSE {}, dups |-> 0,
                       stage |-> "main", result |-> None]
         /\ runs' = [runs EXCEPT ![x] = @ + 1] /\ made' = made + 1
    ELSE /\ flight' = [flight EXCEPT !.dups = @ + 1]
         /\ UNCHANGED <<runs, made>>

\* DoChan(q, fn) by exchange x; listens tells whether x keeps the channel.
DoChan(x, listens) ==
    LET chans == IF listens THEN {x} ELSE {}
    IN  IF flight = None
        THEN /\ flight' = [owner |-> x, run |-> runs[x], message |-> made,
                           chans |-> chans, dups |-> 0, stage |-> "main", result |-> None]
             /\ runs' = [runs EXCEPT ![x] = @ + 1] /\ made' = made + 1
        ELSE /\ flight' = [flight EXCEPT !.dups = @ + 1, !.chans = @ \cup chans]
             /\ UNCHANGED <<runs, made>>

\* The end of doCall, under the mutex of the group.
Publish ==
    /\ flight # None /\ flight.stage = "publish"
    /\ res' = [x \in Exchanges |->
                 IF x \in flight.chans
                 THEN [result |-> flight.result, shared |-> flight.dups > 0,
                       message |-> flight.message, opcode |-> flight.run]
                 ELSE res[x]]
    /\ flight' = None
    /\ UNCHANGED <<cache, pc, runs, made, got, calls>>

-----------------------------------------------------------------------------
(* fn: ipExchange and putMsgToCache.                                       *)

\* The main servers answer, with addresses that may call for the fallback, fail,
\* or do not answer in time.
MainAnswer(outcome) ==
    /\ flight # None /\ flight.stage = "main"
    /\ flight' = IF outcome # "ok" /\ HasFallback
                 THEN [flight EXCEPT !.stage = "fallback"]
                 ELSE [flight EXCEPT !.stage = "put",
                         !.result = IF outcome = "filtered" THEN "ok" ELSE outcome]
    /\ UNCHANGED <<cache, pc, runs, made, res, got, calls>>

FallbackAnswer(outcome) ==
    /\ flight # None /\ flight.stage = "fallback"
    /\ flight' = [flight EXCEPT !.stage = "put", !.result = outcome]
    /\ UNCHANGED <<cache, pc, runs, made, res, got, calls>>

\* The deferred function of fn; an answer without a TTL is not cached.
putMsgToCache(cacheable) ==
    /\ flight # None /\ flight.stage = "put"
    /\ flight' = [flight EXCEPT !.stage = "publish"]
    /\ cache' = IF flight.result = "ok" /\ cacheable THEN "fresh" ELSE cache
    /\ UNCHANGED <<pc, runs, made, res, got, calls>>

\* The cached answer expires, or is evicted.
Expire ==
    /\ cache = "fresh" /\ cache' = "stale"
    /\ UNCHANGED <<flight, pc, runs, made, res, got, calls>>

Evict ==
    /\ cache # "none" /\ cache' = "none"
    /\ UNCHANGED <<flight, pc, runs, made, res, got, calls>>

-----------------------------------------------------------------------------
(* ExchangeContext and exchangeWithoutCache.                               *)

\* ExchangeContext looks into the cache; a stale answer is fetched again.
ExchangeContext(c) ==
    /\ pc[Call(c)] = "idle" /\ pc[Background(c)] = "idle" /\ calls < MaxCalls
    /\ calls' = calls + 1
    /\ got' = [got EXCEPT ![c] = IF cache = "none" THEN None ELSE Copied]
    /\ pc' = [pc EXCEPT ![Call(c)] = IF cache = "none" THEN "begin" ELSE "done",
                        ![Background(c)] = IF cache = "stale" THEN "begin" ELSE "idle"]
    /\ UNCHANGED <<cache, flight, runs, made, res>>

exchangeWithoutCache(x) ==
    /\ pc[x] = "begin"
    /\ DoChan(x, TRUE)
    /\ pc' = [pc EXCEPT ![x] = "wait"]
    /\ UNCHANGED <<cache, res, got, calls>>

\* A failure that nobody shared is tried again, and nobody waits for that.
Retry(x) ==
    IF res[x].result # "ok" /\ ~res[x].shared /\ res[x].opcode < 3
    THEN DoChan(x, FALSE)
    ELSE UNCHANGED <<flight, runs, made>>

\* Mutant: the message is not copied.
Receive_NoCopy(c, x) ==
    /\ pc[x] = "wait" /\ res[x] # None
    /\ Retry(x)
    /\ pc' = [pc EXCEPT ![x] = "done",
                        ![Background(c)] =
                            IF x = Call(c) /\ res[x].result = "timeout" THEN "begin"
                            ELSE IF x = Background(c) THEN "done" ELSE @]
    /\ got' = IF x = Call(c) /\ res[x].result = "ok"
              THEN [got EXCEPT ![c] = res[x].message] ELSE got
    /\ res' = [res EXCEPT ![x] = None]
    /\ UNCHANGED <<cache, calls>>

\* The exchange gets the result, and its own copy if others have it too.
Receive(c, x) ==
    /\ pc[x] = "wait" /\ res[x] # None
    /\ Retry(x)
    /\ pc' = [pc EXCEPT ![x] = "done",
                        ![Background(c)] =
                            IF x = Call(c) /\ res[x].result = "timeout" THEN "begin"
                            ELSE IF x = Background(c) THEN "done" ELSE @]
    /\ got' = IF x = Call(c) /\ res[x].result = "ok"
              THEN [got EXCEPT ![c] = IF res[x].shared THEN Copied ELSE res[x].message]
              ELSE got
    /\ res' = [res EXCEPT ![x] = None]
    /\ UNCHANGED <<cache, calls>>

\* The caller's context ends first: a monitor stays, and ExchangeContext goes on in
\* the background.
CtxDone(c, x) ==
    /\ pc[x] = "wait" /\ res[x] = None
    /\ pc' = [pc EXCEPT ![x] = "monitor",
                        ![Background(c)] = IF x = Call(c) THEN "begin" ELSE "monitor"]
    /\ UNCHANGED <<cache, flight, runs, made, res, got, calls>>

\* Mutant: the monitor also waits for the retry.
Monitor_Again(x) ==
    /\ pc[x] = "monitor" /\ res[x] # None
    /\ IF res[x].result # "ok" /\ ~res[x].shared /\ res[x].opcode < 3
       THEN DoChan(x, TRUE) /\ UNCHANGED pc
       ELSE pc' = [pc EXCEPT ![x] = "done"] /\ UNCHANGED <<flight, runs, made>>
    /\ res' = [res EXCEPT ![x] = None]
    /\ UNCHANGED <<cache, got, calls>>

\* Mutant: the monitor goes on waiting after a good result.
Monitor_Leaks(x) ==
    /\ pc[x] = "monitor" /\ res[x] # None /\ res[x].result # "ok"
    /\ Retry(x)
    /\ pc' = [pc EXCEPT ![x] = "done"]
    /\ res' = [res EXCEPT ![x] = None]
    /\ UNCHANGED <<cache, got, calls>>

\* The monitor gets the result and may retry; it does not wait for the retry.
Monitor(x) ==
    /\ pc[x] = "monitor" /\ res[x] # None
    /\ Retry(x)
    /\ pc' = [pc EXCEPT ![x] = "done"]
    /\ res' = [res EXCEPT ![x] = None]
    /\ UNCHANGED <<cache, got, calls>>

\* The caller is finished with the answer, and its goroutines have ended.
Finish(c) ==
    /\ pc[Call(c)] = "done" /\ pc[Background(c)] \in {"idle", "done"}
    /\ flight # None => flight.owner \notin {Call(c), Background(c)}
    /\ pc' = [pc EXCEPT ![Call(c)] = "idle", ![Background(c)] = "idle"]
    /\ runs' = [runs EXCEPT ![Call(c)] = 0, ![Background(c)] = 0]
    /\ got' = [got EXCEPT ![c] = None]
    /\ UNCHANGED <<cache, flight, made, res, calls>>

-----------------------------------------------------------------------------
Outcomes == {"ok", "filtered", "fail", "timeout"}

fn ==
    \/ \E o \in Outcomes : MainAnswer(o)
    \/ \E o \in Outcomes \ {"filtered"} : FallbackAnswer(o)
    \/ \E cacheable \in BOOLEAN : putMsgToCache(cacheable)
    \/ Publish

Proceed(c, x) == exchangeWithoutCache(x) \/ Receive(c, x) \/ Monitor(x)
Exchange(c, x) == Proceed(c, x) \/ CtxDone(c, x)

Next ==
    \/ fn \/ Expire \/ Evict
    \/ \E c \in Callers : \/ ExchangeContext(c) \/ Finish(c)
                          \/ Exchange(c, Call(c)) \/ Exchange(c, Background(c))

\* Queries end by their timeout; goroutines that can run do.  Contexts need not end.
Spec == Init /\ [][Next]_vars /\ WF_vars(fn)
        /\ \A c \in Callers : /\ WF_vars(Proceed(c, Call(c)))
                              /\ WF_vars(Proceed(c, Background(c)))

-----------------------------------------------------------------------------
TypeOK ==
    /\ cache \in {"none", "fresh", "stale"}
    /\ flight \in Flights \cup {None}
    /\ pc \in [Exchanges -> {"idle", "begin", "wait", "monitor", "done"}]
    /\ runs \in [Exchanges -> Nat] /\ made \in Nat
    /\ res \in [Exchanges -> Replies \cup {None}]
    /\ got \in [Callers -> Nat \cup {None, Copied}]
    /\ calls \in 0..MaxCalls

(* A message that a caller may change is in nobody else's hands: whoever gets the
   message of a query itself was the only one to wait for it (resolver.go,
   msg.Copy() if shared; singleflight.go, dups > 0). *)
OwnMessage ==
    \A c \in Callers : got[c] \notin {None, Copied} =>
        /\ \A d \in Callers \ {c} : got[d] # got[c]
        /\ \A x \in Exchanges : res[x] # None => res[x].message # got[c]

(* Whoever waits, be it a caller or the monitor it left, has its result or is
   registered with a query that is running (singleflight.go, DoChan and doCall). *)
NobodyForgotten ==
    \A x \in Exchanges : pc[x] \in {"wait", "monitor"} =>
        res[x] # None \/ (flight # None /\ x \in flight.chans)

(* The function of an exchange runs at most twice, whoever leaves and whatever
   fails: a retry is not retried (resolver.go, the two calls of DoChan). *)
RetriedOnce == \A x \in Exchanges : runs[x] <= 2

(* When callers stop calling, the resolver comes to rest: background fetches,
   monitors and retries do not keep each other going (resolver.go). *)
Quiesces ==
    <>[](flight = None /\ \A x \in Exchanges : pc[x] \in {"idle", "done"})
=============================================================================
