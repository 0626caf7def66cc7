------------------------------ MODULE URLTest ------------------------------
(***************************************************************************)
(* The url-test group: URLTest.fast (adapter/outboundgroup/urltest.go)     *)
(* behind singledo.Single (common/singledo/singledo.go), the proxy list    *)
(* that GroupBase.GetProxies caches (groupbase.go) and the provider that   *)
(* replaces it (adapter/provider/provider.go), with the delays that        *)
(* Proxy.URLTest records (adapter/adapter.go).                             *)
(*                                                                         *)
(* A proxy object is <<name, generation>>: an update of the provider       *)
(* parses new objects, also for names it had before.  The state of an      *)
(* object is 0 when its last test failed, MaxDelay before the first test,  *)
(* else the measured delay.  alive and history are stored one after the    *)
(* other; what can be read between the two stores is again one of these.   *)
(***************************************************************************)
EXTENDS Integers, Sequences, Functions

CONSTANTS
    Callers,      \* goroutines that call fast
    Lists,        \* the names the provider lists, generation by generation
    TestResults,  \* what a test can record: 0 (failed) or a delay
    Tolerance,    \* URLTest.tolerance
    Fallback,     \* the name of the group's empty fallback proxy
    None,
    MaxResets     \* bound on the calls of Single.Reset

\* Delays are of type uint16.
ByteValues == 256
MaxDelay == ByteValues * ByteValues - 1

Names == UNION {Range(Lists[g]) : g \in DOMAIN Lists}
Listed == UNION {Range(Lists[g]) \X {g} : g \in DOMAIN Lists}
Objects == Listed \cup {<<Fallback, 0>>}

ASSUME GroupAssumption ==
    /\ None \notin Callers
    /\ None \notin Objects
    /\ None \notin Names
    /\ Fallback \notin Names
    /\ None \notin Nat
    /\ Lists \in Seq(Seq(Names)) /\ Lists # <<>>
    /\ TestResults \subseteq 0..MaxDelay
    /\ MaxResets \in Nat

VARIABLES
    generation, version,      \* the provider: its list and its version
    cache,                    \* GroupBase.providerVersions, providerProxies
    state,                    \* what the tests of each object recorded
    selected, fastNode,       \* URLTest.selected, URLTest.fastNode
    call, result,             \* Single.call (by its leader), Single.result
    pc, run,                  \* each caller of fast and the locals of its fn
    got,                      \* what fast returns to it
    setter, checker,          \* ForceSet and healthCheck in progress
    resets, started           \* history: Resets so far, and when Do began

singleVars == <<call, result, resets>>
groupVars  == <<selected, fastNode, setter, checker>>
proxyVars  == <<generation, version, cache, state>>
callerVars == <<pc, run, got, started>>
vars == <<singleVars, groupVars, proxyVars, callerVars>>

\* A result with the selection its fn read and the Reset its call began after.
NoValue == [val |-> None, sel |-> None, at |-> 0]
NoRun == [at |-> 0, version |-> 0, list |-> <<>>, sel |-> None,
          fast |-> None, notExist |-> TRUE, val |-> None]

ListOf(g) == [i \in DOMAIN Lists[g] |-> <<Lists[g][i], g>>]
EmptyFallback == <<Fallback, 0>>

Init ==
    /\ generation = 1 /\ version = 0
    /\ cache = [version |-> None, list |-> <<>>]
    /\ state = [o \in Objects |-> MaxDelay]
    /\ selected = None /\ fastNode = None
    /\ call = None /\ result = NoValue
    /\ pc = [c \in Callers |-> "idle"]
    /\ run = [c \in Callers |-> NoRun]
    /\ got = [c \in Callers |-> NoValue]
    /\ setter = "idle" /\ checker = "idle"
    /\ resets = 0
    /\ started = [c \in Callers |-> 0]

AliveForTestUrl(o) == state[o] # 0
LastDelayForTestUrl(o) == IF AliveForTestUrl(o) THEN state[o] ELSE MaxDelay

-----------------------------------------------------------------------------
(* singledo.Single: Do up to the call of fn, and Reset.                    *)

\* Do with a result that is younger than the waiting time.
DoCached(c) ==
    /\ pc[c] = "idle" /\ result # NoValue
    /\ got' = [got EXCEPT ![c] = result]
    /\ pc' = [pc EXCEPT ![c] = "returned"]
    /\ started' = [started EXCEPT ![c] = resets]
    /\ UNCHANGED <<singleVars, groupVars, proxyVars, run>>

\* What fn returned, as Do hands it on.
ValueOf(c) == [val |-> run[c].val, sel |-> run[c].sel, at |-> run[c].at]

\* Do with no result or an expired one, while there is a call.  The call may
\* already be over, between its wg.Done and its Lock: then wg.Wait returns.
DoWait(c) ==
    /\ pc[c] = "idle" /\ call # None
    /\ result' = NoValue
    /\ IF pc[call] = "store"
       THEN /\ pc' = [pc EXCEPT ![c] = "returned"]
            /\ got' = [got EXCEPT ![c] = ValueOf(call)]
            /\ UNCHANGED run
       ELSE /\ pc' = [pc EXCEPT ![c] = "wait"]
            /\ run' = [run EXCEPT ![c] = [NoRun EXCEPT !.val = call]]
            /\ UNCHANGED got
    /\ started' = [started EXCEPT ![c] = resets]
    /\ UNCHANGED <<call, resets, groupVars, proxyVars>>

\* Mutant: Do looks for a result only, not for a running call.
DoCall_Always(c) ==
    /\ pc[c] = "idle"
    /\ result' = NoValue
    /\ call' = c
    /\ pc' = [pc EXCEPT ![c] = "version"]
    /\ run' = [run EXCEPT ![c] = [NoRun EXCEPT !.at = resets]]
    /\ started' = [started EXCEPT ![c] = resets]
    /\ UNCHANGED <<resets, groupVars, proxyVars, got>>

DoCall(c) ==
    /\ pc[c] = "idle" /\ call = None
    /\ result' = NoValue
    /\ call' = c
    /\ pc' = [pc EXCEPT ![c] = "version"]
    /\ run' = [run EXCEPT ![c] = [NoRun EXCEPT !.at = resets]]
    /\ started' = [started EXCEPT ![c] = resets]
    /\ UNCHANGED <<resets, groupVars, proxyVars, got>>

\* Mutant: the waiters are forgotten.
Done_NoWake(c) ==
    /\ pc[c] = "done"
    /\ got' = [got EXCEPT ![c] = ValueOf(c)]
    /\ pc' = [pc EXCEPT ![c] = "store"]
    /\ UNCHANGED <<singleVars, groupVars, proxyVars, started, run>>

\* callM.wg.Done: every waiter of this call gets its value.
Done(c) ==
    /\ pc[c] = "done"
    /\ LET waiters == {w \in Callers : pc[w] = "wait" /\ run[w].val = c}
       IN  /\ got' = [w \in Callers |-> IF w \in waiters \cup {c}
                                        THEN ValueOf(c) ELSE got[w]]
           /\ pc' = [w \in Callers |-> CASE w = c -> "store"
                                         [] w \in waiters -> "returned"
                                         [] OTHER -> pc[w]]
           /\ run' = [w \in Callers |-> IF w \in waiters THEN NoRun ELSE run[w]]
    /\ UNCHANGED <<singleVars, groupVars, proxyVars, started>>

\* Mutant: the comparison with the current call is missing.
Store_Unchecked(c) ==
    /\ pc[c] = "store"
    /\ call' = None
    /\ result' = ValueOf(c)
    /\ pc' = [pc EXCEPT ![c] = "returned"]
    /\ run' = [run EXCEPT ![c] = NoRun]
    /\ UNCHANGED <<resets, groupVars, proxyVars, got, started>>

\* The call stores its result unless Reset detached it.
Store(c) ==
    /\ pc[c] = "store"
    /\ call' = IF call = c THEN None ELSE call
    /\ result' = IF call = c THEN ValueOf(c) ELSE result
    /\ pc' = [pc EXCEPT ![c] = "returned"]
    /\ run' = [run EXCEPT ![c] = NoRun]
    /\ UNCHANGED <<resets, groupVars, proxyVars, got, started>>

\* fast returns; the caller may call it again.
Return(c) ==
    /\ pc[c] = "returned"
    /\ pc' = [pc EXCEPT ![c] = "idle"]
    /\ got' = [got EXCEPT ![c] = NoValue]
    /\ started' = [started EXCEPT ![c] = 0]
    /\ UNCHANGED <<singleVars, groupVars, proxyVars, run>>

Reset ==
    /\ resets < MaxResets
    /\ call' = None
    /\ result' = NoValue
    /\ resets' = resets + 1

-----------------------------------------------------------------------------
(* The function that fast gives to Do.                                     *)

\* GetProxies reads the provider's version before it takes the mutex.
ReadVersion(c) ==
    /\ pc[c] = "version"
    /\ run' = [run EXCEPT ![c].version = version]
    /\ pc' = [pc EXCEPT ![c] = "list"]
    /\ UNCHANGED <<singleVars, groupVars, proxyVars, got, started>>

\* The rest of GetProxies, under the mutex; an empty list is not cached.
GetProxies(c) ==
    /\ pc[c] = "list"
    /\ IF run[c].version = cache.version
       THEN /\ run' = [run EXCEPT ![c].list = cache.list, ![c].version = 0]
            /\ UNCHANGED cache
       ELSE IF ListOf(generation) = <<>>
       THEN /\ run' = [run EXCEPT ![c].list = <<EmptyFallback>>, ![c].version = 0]
            /\ UNCHANGED cache
       ELSE /\ run' = [run EXCEPT ![c].list = ListOf(generation), ![c].version = 0]
            /\ cache' = [version |-> run[c].version, list |-> ListOf(generation)]
    /\ pc' = [pc EXCEPT ![c] = "selected"]
    /\ UNCHANGED <<singleVars, groupVars, generation, version, state, got, started>>

\* The proxy the user fixed, if the list has it and it is alive.
PickSelected(c) ==
    /\ pc[c] = "selected"
    /\ LET fixed == {o \in Range(run[c].list) : o[1] = selected /\ AliveForTestUrl(o)}
       IN  IF fixed = {}
           THEN /\ run' = [run EXCEPT ![c].sel = selected]
                /\ pc' = [pc EXCEPT ![c] = "scan"]
                /\ UNCHANGED fastNode
           ELSE \E o \in fixed :
                /\ run' = [run EXCEPT ![c].sel = selected, ![c].val = o]
                /\ pc' = [pc EXCEPT ![c] = "done"]
                /\ fastNode' = o
    /\ UNCHANGED <<singleVars, selected, setter, checker, proxyVars, got, started>>

\* The fastest living proxy of the list: the first one of least delay, and the
\* head of the list unless some later proxy is faster.
Fastest(list) ==
    LET best == {i \in DOMAIN list :
                   /\ i = 1 \/ AliveForTestUrl(list[i])
                   /\ \A j \in DOMAIN list : AliveForTestUrl(list[j]) =>
                        LastDelayForTestUrl(list[i]) <= LastDelayForTestUrl(list[j])}
    IN  list[CHOOSE i \in best : \A j \in best : i <= j]

\* The loop of fast: it also looks for the current fast node, from the second
\* proxy on.
Scan(c) ==
    /\ pc[c] = "scan"
    /\ LET list == run[c].list
       IN  run' = [run EXCEPT
                     ![c].fast = Fastest(list),
                     ![c].notExist = ~ \E i \in DOMAIN list :
                        i > 1 /\ fastNode # None /\ list[i][1] = fastNode[1]]
    /\ pc' = [pc EXCEPT ![c] = "decide"]
    /\ UNCHANGED <<singleVars, groupVars, proxyVars, got, started>>

\* The tolerance; the sum is a uint16.
Decide(c) ==
    /\ pc[c] = "decide"
    /\ LET fast == run[c].fast
           change == \/ fastNode = None
                     \/ run[c].notExist
                     \/ ~AliveForTestUrl(fastNode)
                     \/ LastDelayForTestUrl(fastNode)
                          > (LastDelayForTestUrl(fast) + Tolerance) % (MaxDelay + 1)
       IN  fastNode' = IF change THEN fast ELSE fastNode
    /\ pc' = [pc EXCEPT ![c] = "node"]
    /\ UNCHANGED <<singleVars, selected, setter, checker, proxyVars, run, got, started>>

\* fn returns the fast node, which another fn may have changed since.
ReadNode(c) ==
    /\ pc[c] = "node"
    /\ run' = [run EXCEPT ![c].val = fastNode, ![c].fast = None, ![c].notExist = TRUE]
    /\ pc' = [pc EXCEPT ![c] = "done"]
    /\ UNCHANGED <<singleVars, groupVars, proxyVars, got, started>>

-----------------------------------------------------------------------------
(* ForceSet, healthCheck, the tests and the provider.                      *)

ForceSet(name) ==
    /\ setter = "idle" /\ resets < MaxResets
    /\ selected' = name
    /\ setter' = "reset"
    /\ UNCHANGED <<singleVars, fastNode, checker, proxyVars, callerVars>>

\* Mutant: the selection is stored and the old result stays.
SetReset_KeepsResult ==
    /\ setter = "reset"
    /\ setter' = "idle"
    /\ UNCHANGED <<singleVars, selected, fastNode, checker, proxyVars, callerVars>>

SetReset ==
    /\ setter = "reset"
    /\ Reset
    /\ setter' = "idle"
    /\ UNCHANGED <<selected, fastNode, checker, proxyVars, callerVars>>

\* healthCheck: Reset, test every proxy, Reset.
CheckBegin ==
    /\ checker = "idle"
    /\ Reset
    /\ checker' = "testing"
    /\ UNCHANGED <<selected, fastNode, setter, proxyVars, callerVars>>

CheckEnd ==
    /\ checker = "testing"
    /\ Reset
    /\ checker' = "idle"
    /\ UNCHANGED <<selected, fastNode, setter, proxyVars, callerVars>>

\* A test ends and records its result.  Tests also run periodically, and one of
\* an older list may end late.
RecordTest(o, d) ==
    /\ o[2] <= generation
    /\ state' = [state EXCEPT ![o] = d]
    /\ UNCHANGED <<singleVars, groupVars, generation, version, cache, callerVars>>

\* Mutant: the version does not change with the list.
setProxies_SameVersion ==
    /\ generation < Len(Lists)
    /\ generation' = generation + 1
    /\ UNCHANGED <<singleVars, groupVars, cache, state, callerVars, version>>

\* baseProvider.setProxies, with new objects.
setProxies ==
    /\ generation < Len(Lists)
    /\ generation' = generation + 1
    /\ version' = version + 1
    /\ UNCHANGED <<singleVars, groupVars, cache, state, callerVars>>

-----------------------------------------------------------------------------
Fast(c) ==
    \/ DoCached(c) \/ DoWait(c) \/ DoCall(c)
    \/ ReadVersion(c) \/ GetProxies(c) \/ PickSelected(c) \/ Scan(c)
    \/ Decide(c) \/ ReadNode(c) \/ Done(c) \/ Store(c) \/ Return(c)

Next ==
    \/ \E c \in Callers : Fast(c)
    \/ \E name \in Names \cup {None} : ForceSet(name)
    \/ SetReset
    \/ CheckBegin \/ CheckEnd
    \/ \E o \in Listed, d \in TestResults : RecordTest(o, d)
    \/ setProxies

Spec == Init /\ [][Next]_vars

-----------------------------------------------------------------------------
Value == [val : Objects \cup {None}, sel : Names \cup {None}, at : Nat]
Run == [at : Nat, version : Nat, list : Seq(Objects), sel : Names \cup {None},
        fast : Objects \cup {None}, notExist : BOOLEAN,
        val : Objects \cup Callers \cup {None}]
PCs == {"idle", "version", "list", "selected", "scan", "decide", "node",
        "done", "store", "wait", "returned"}
InFn == {"version", "list", "selected", "scan", "decide", "node", "done", "store"}

TypeOK ==
    /\ generation \in DOMAIN Lists /\ version \in Nat
    /\ cache \in [version : Nat \cup {None}, list : Seq(Objects)]
    /\ state \in [Objects -> 0..MaxDelay]
    /\ selected \in Names \cup {None} /\ fastNode \in Objects \cup {None}
    /\ call \in Callers \cup {None} /\ result \in Value
    /\ pc \in [Callers -> PCs] /\ run \in [Callers -> Run]
    /\ got \in [Callers -> Value]
    /\ setter \in {"idle", "reset"} /\ checker \in {"idle", "testing"}
    /\ resets \in 0..MaxResets /\ started \in [Callers -> Nat]

(* No caller of fast that came after a Reset (a new selection, the end of a
   health check) is given a value computed by a call that began before it:
   Do, Reset and the comparison s.call == callM of singledo.go. *)
FreshResult == \A c \in Callers : pc[c] = "returned" => got[c].at >= started[c]

(* Between two Resets the function runs once at a time, however many callers
   there are and however often the result expires (singledo.go, Do). *)
SingleFlight ==
    \A c, d \in Callers :
        (pc[c] \in InFn /\ pc[d] \in InFn /\ run[c].at = run[d].at) =>
            \/ c = d
            \/ pc[c] = "store" \/ pc[d] = "store"

(* Once ForceSet has returned, a call of fast that begins later never answers
   on the strength of the old selection (urltest.go, ForceSet and fast). *)
SelectionTakesEffect ==
    \A c \in Callers :
        (pc[c] = "returned" /\ setter = "idle" /\ started[c] = resets) =>
            got[c].sel = selected

(* The list that GetProxies caches under the provider's present version is the
   provider's present list (groupbase.go, GetProxies; provider.go, setProxies). *)
CacheCurrent ==
    cache.version = version => cache.list = ListOf(generation)

(* Whoever waits for another goroutine's call waits for one that is running:
   a Reset or an expired result in between loses no wake-up (singledo.go, Do). *)
WaitsForRunning ==
    \A c \in Callers : pc[c] = "wait" =>
        run[c].val \in Callers /\ pc[run[c].val] \in InFn \ {"store"}
=============================================================================
