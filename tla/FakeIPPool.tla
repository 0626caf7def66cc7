----------------------------- MODULE FakeIPPool -----------------------------
(***************************************************************************)
(* The fake-IP pool with the memory store: Pool of component/fakeip/pool.go*)
(* over memoryStore, two LRU caches, one per direction.  Lookup and        *)
(* LookBack hold the pool's mutex, so one of them is under way at a time;  *)
(* each of their steps is one operation on a cache, under that cache's own *)
(* mutex.  FlushFakeIP and CloneFrom do not take the pool's mutex.         *)
(*                                                                         *)
(* Addresses are numbers.  Lookup lowers the case of the host first: a     *)
(* host stands for all its spellings.                                      *)
(***************************************************************************)
EXTENDS LRUCache, Integers

CONSTANTS
    Hosts,
    Ranges,        \* prefixes that configurations use, [lo, hi] each
    Size,          \* Options.Size, the entries of each cache
    Overlap        \* what may run during a Lookup: "flush", "reload"

ASSUME PoolAssumption ==
    /\ \A r \in Ranges : r.lo \in Nat /\ r.hi \in Nat /\ r.lo + 4 < r.hi
    /\ Size \in Nat
    /\ Overlap \subseteq {"flush", "reload"}

VARIABLES
    cacheIP,       \* LRU: host --> fake IP
    cacheHost,     \* LRU: fake IP --> host
    range,         \* the prefix of the pool that serves
    offset, cycle,
    op,            \* the Lookup or LookBack that holds the mutex
    flush,         \* program counter of FlushFakeIP
    reload,        \* program counter of a reload, from New to the switch
    nextRange, nextIP, nextHost   \* the pool that the reload prepares

caches == <<cacheIP, cacheHost>>
counter == <<range, offset, cycle>>
next == <<reload, nextRange, nextIP, nextHost>>
vars == <<caches, counter, op, flush, next>>

NoHost == "none"
Idle == [pc |-> "idle", host |-> NoHost, ip |-> 0, victim |-> NoHost]

(* New reserves the network address, the gateway and two more; the last    *)
(* address of the prefix is the broadcast address.                         *)
FirstOf(r) == r.lo + 4
Usable(r) == FirstOf(r)..(r.hi - 1)
IPs == UNION {Usable(r) : r \in Ranges}
Addrs == {0} \cup UNION {r.lo..r.hi : r \in Ranges}

Pairs(K, V) == [key : K, value : V]
OpPC == {"idle", "touchHost", "advance", "exist", "delGet", "delHost", "delIP",
         "putIP", "return", "putHost", "touchIP"}

(* Every variable has its type, no cache outgrows its size, and the offset *)
(* lies in the prefix of its pool.                                         *)
TypeOK ==
    /\ cacheIP \in Seq(Pairs(Hosts, Addrs)) /\ nextIP \in Seq(Pairs(Hosts, Addrs))
    /\ cacheHost \in Seq(Pairs(Addrs, Hosts)) /\ nextHost \in Seq(Pairs(Addrs, Hosts))
    /\ Size > 0 => \A c \in {cacheIP, cacheHost, nextIP, nextHost} : Len(c) <= Size
    /\ range \in Ranges /\ nextRange \in Ranges
    /\ offset \in FirstOf(range) - 1 .. range.hi - 1
    /\ cycle \in BOOLEAN
    /\ op \in [pc : OpPC, host : Hosts \cup {NoHost}, ip : Addrs,
              victim : Hosts \cup {NoHost}]
    /\ flush \in {"idle", "clearHost", "reset"}
    /\ reload \in {"idle", "new", "cloneHost", "switch"}

(* New: an empty pool. *)
Init ==
    /\ cacheIP = <<>> /\ cacheHost = <<>>
    /\ range \in Ranges /\ offset = FirstOf(range) - 1 /\ cycle = FALSE
    /\ op = Idle
    /\ flush = "idle"
    /\ reload = "idle" /\ nextRange = range /\ nextIP = <<>> /\ nextHost = <<>>

Goto(pc) == op' = [op EXCEPT !.pc = pc]

(* What Lookup, FlushFakeIP and CloneFrom would wait for if they excluded  *)
(* each other; the code waits for none of it.                              *)
OpQuiet(what) == what \in Overlap \/ op.pc = "idle"
FlushQuiet == "flush" \in Overlap \/ flush = "idle"
CloneQuiet == "reload" \in Overlap \/ reload # "cloneHost"

-----------------------------------------------------------------------------
(* Lookup(h).  It starts with GetByHost, which also touches ip --> host. *)
Lookup(h) ==
    /\ op.pc = "idle" /\ FlushQuiet /\ CloneQuiet
    /\ op' = IF Has(cacheIP, h)
             THEN [Idle EXCEPT !.pc = "touchHost", !.host = h, !.ip = ValueOf(cacheIP, h)]
             ELSE [Idle EXCEPT !.pc = "advance", !.host = h]
    /\ cacheIP' = Touch(cacheIP, h)
    /\ UNCHANGED <<cacheHost, counter, flush, next>>

GetByHost_NoTouch ==
    /\ op.pc = "touchHost"
    /\ op' = Idle
    /\ UNCHANGED <<caches, counter, flush, next>>

GetByHost ==
    /\ op.pc = "touchHost"
    /\ cacheHost' = Touch(cacheHost, op.ip)
    /\ op' = Idle
    /\ UNCHANGED <<cacheIP, counter, flush, next>>

(* get: the next address, cyclically. *)
Advance_PastEnd ==
    /\ op.pc = "advance"
    /\ IF offset + 1 <= range.hi
       THEN offset' = offset + 1 /\ UNCHANGED cycle
       ELSE offset' = FirstOf(range) /\ cycle' = TRUE
    /\ Goto("exist")
    /\ UNCHANGED <<caches, range, flush, next>>

Advance ==
    /\ op.pc = "advance"
    /\ IF offset + 1 < range.hi
       THEN offset' = offset + 1 /\ UNCHANGED cycle
       ELSE offset' = FirstOf(range) /\ cycle' = TRUE
    /\ Goto("exist")
    /\ UNCHANGED <<caches, range, flush, next>>

(* get: an address in use is taken from its host by DelByIP. *)
Exist_CycleOnly ==
    /\ op.pc = "exist"
    /\ Goto(IF cycle THEN "delGet" ELSE "putIP")
    /\ UNCHANGED <<caches, counter, flush, next>>

Exist ==
    /\ op.pc = "exist"
    /\ Goto(IF cycle \/ Has(cacheHost, offset) THEN "delGet" ELSE "putIP")
    /\ UNCHANGED <<caches, counter, flush, next>>

(* DelByIP(offset): both directions of the record, found from its ip. *)
DelGet ==
    /\ op.pc = "delGet"
    /\ cacheHost' = Touch(cacheHost, offset)
    /\ op' = IF Has(cacheHost, offset)
             THEN [op EXCEPT !.pc = "delHost", !.ip = offset,
                             !.victim = ValueOf(cacheHost, offset)]
             ELSE [op EXCEPT !.pc = "delIP", !.ip = offset]
    /\ UNCHANGED <<cacheIP, counter, flush, next>>

DelHost_Skipped ==
    /\ op.pc = "delHost"
    /\ op' = [op EXCEPT !.pc = "delIP", !.victim = NoHost]
    /\ UNCHANGED <<caches, counter, flush, next>>

DelHost ==
    /\ op.pc = "delHost"
    /\ cacheIP' = Without(cacheIP, op.victim)
    /\ op' = [op EXCEPT !.pc = "delIP", !.victim = NoHost]
    /\ UNCHANGED <<cacheHost, counter, flush, next>>

DelIP ==
    /\ op.pc = "delIP"
    /\ cacheHost' = Without(cacheHost, op.ip)
    /\ Goto("putIP")
    /\ UNCHANGED <<cacheIP, counter, flush, next>>

PutByIP ==
    /\ op.pc = "putIP"
    /\ cacheHost' = Set(cacheHost, offset, op.host, Size)
    /\ Goto("return")
    /\ UNCHANGED <<cacheIP, counter, flush, next>>

(* get returns p.offset, which it reads again. *)
Return ==
    /\ op.pc = "return"
    /\ op' = [op EXCEPT !.pc = "putHost", !.ip = offset]
    /\ UNCHANGED <<caches, counter, flush, next>>

PutByHost ==
    /\ op.pc = "putHost"
    /\ cacheIP' = Set(cacheIP, op.host, op.ip, Size)
    /\ op' = Idle
    /\ UNCHANGED <<cacheHost, counter, flush, next>>

(* LookBack(ip) is GetByIP, which also touches host --> ip. *)
LookBack(ip) ==
    /\ op.pc = "idle" /\ FlushQuiet /\ CloneQuiet
    /\ Has(cacheHost, ip)
    /\ cacheHost' = Touch(cacheHost, ip)
    /\ op' = [Idle EXCEPT !.pc = "touchIP", !.host = ValueOf(cacheHost, ip)]
    /\ UNCHANGED <<cacheIP, counter, flush, next>>

GetByIP ==
    /\ op.pc = "touchIP"
    /\ cacheIP' = Touch(cacheIP, op.host)
    /\ op' = Idle
    /\ UNCHANGED <<cacheHost, counter, flush, next>>

-----------------------------------------------------------------------------
(* FlushFakeIP, called by the controller's API: clear cacheIP, clear       *)
(* cacheHost, reset the counter.                                           *)
FlushIP ==
    /\ flush = "idle" /\ OpQuiet("flush")
    /\ reload # "cloneHost" \/ Overlap = {"flush", "reload"}
    /\ cacheIP' = Clear
    /\ flush' = "clearHost"
    /\ UNCHANGED <<cacheHost, counter, op, next>>

FlushHost ==
    /\ flush = "clearHost"
    /\ cacheHost' = Clear
    /\ flush' = "reset"
    /\ UNCHANGED <<cacheIP, counter, op, next>>

FlushReset ==
    /\ flush = "reset"
    /\ offset' = FirstOf(range) - 1 /\ cycle' = FALSE
    /\ flush' = "idle"
    /\ UNCHANGED <<caches, range, op, next>>

(* A reload: New with the range of the new configuration, CloneFrom, which *)
(* copies cacheIP and then cacheHost whatever the two ranges are, and the  *)
(* switch to the new enhancer and service.  What still runs on the old     *)
(* pool then reaches nobody.                                               *)
New(r) ==
    /\ reload = "idle"
    /\ reload' = "new" /\ nextRange' = r
    /\ UNCHANGED <<caches, counter, op, flush, nextIP, nextHost>>

CloneIP ==
    /\ reload = "new" /\ OpQuiet("reload") /\ FlushQuiet
    /\ nextIP' = CloneTo(cacheIP)
    /\ reload' = "cloneHost"
    /\ UNCHANGED <<caches, counter, op, flush, nextRange, nextHost>>

CloneHost ==
    /\ reload = "cloneHost"
    /\ nextHost' = CloneTo(cacheHost)
    /\ reload' = "switch"
    /\ UNCHANGED <<caches, counter, op, flush, nextRange, nextIP>>

Switch ==
    /\ reload = "switch"
    /\ cacheIP' = nextIP /\ cacheHost' = nextHost
    /\ range' = nextRange /\ offset' = FirstOf(nextRange) - 1 /\ cycle' = FALSE
    /\ op' = Idle /\ flush' = "idle"
    /\ reload' = "idle" /\ nextIP' = <<>> /\ nextHost' = <<>>
    /\ UNCHANGED nextRange

-----------------------------------------------------------------------------
OpNext ==
    \/ \E h \in Hosts : Lookup(h)
    \/ \E ip \in IPs : LookBack(ip)
    \/ GetByHost \/ Advance \/ Exist \/ DelGet \/ DelHost \/ DelIP
    \/ PutByIP \/ Return \/ PutByHost \/ GetByIP
FlushNext == FlushIP \/ FlushHost \/ FlushReset
ReloadNext == (\E r \in Ranges : New(r)) \/ CloneIP \/ CloneHost \/ Switch

Next == OpNext \/ FlushNext \/ ReloadNext

Spec == Init /\ [][Next]_vars

-----------------------------------------------------------------------------
(* Properties *)

Settled == op.pc = "idle" /\ flush = "idle"

(***************************************************************************)
(* LookBack undoes Lookup: once a Lookup has returned, every host --> ip   *)
(* has its ip --> host.  It takes that no flush and no copy overlaps it.   *)
(***************************************************************************)
LookBackFinds ==
    Settled => \A h \in Hosts : Has(cacheIP, h) =>
        LET ip == ValueOf(cacheIP, h) IN
        Has(cacheHost, ip) /\ ValueOf(cacheHost, ip) = h

(***************************************************************************)
(* Why: between operations both caches hold the same records in the same   *)
(* order of use, so they evict the same record.  Again nothing may overlap *)
(* a Lookup.                                                               *)
(***************************************************************************)
SameOrder ==
    Settled =>
        /\ Len(cacheIP) = Len(cacheHost)
        /\ \A i \in 1..Len(cacheIP) :
              cacheHost[i] = Entry(cacheIP[i].value, cacheIP[i].key)

Records(c) == [h \in Hosts |-> IF Has(c, h) THEN ValueOf(c, h) ELSE -1]
Promise == INSTANCE FakeIPMap WITH NoIP <- -1, rec <- Records(cacheIP),
                                   copy <- Records(nextIP)

(***************************************************************************)
(* The memory pool keeps the promise of every fake-IP pool, step by step:  *)
(* a host's address never changes while it is remembered, and no two hosts *)
(* share one, through eviction, wrap-around, flush and reload, when none   *)
(* of the last two overlaps a Lookup.                                      *)
(***************************************************************************)
KeepsPromise == Promise!Spec

(***************************************************************************)
(* A host gets a new address only among the usable ones of the pool that   *)
(* serves, never its gateway or broadcast address, which IsFakeIP does not *)
(* accept; it gets one of another range only with the copy that a reload   *)
(* takes over.  No flush may overlap a Lookup.                             *)
(***************************************************************************)
AssignsUsable ==
    [][\/ reload = "switch" /\ reload' = "idle" /\ cacheIP' = nextIP
       \/ \A h \in Hosts : Records(cacheIP')[h] \in
              {-1, Records(cacheIP)[h]} \cup Usable(range)]_vars
=============================================================================
