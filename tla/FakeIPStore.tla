---------------------------- MODULE FakeIPStore ----------------------------
(***************************************************************************)
(* The fake-IP pool with the persistent store: Pool of                     *)
(* component/fakeip/pool.go over cachefileStore, a bucket of the cache     *)
(* file.  A step of Lookup is one transaction on the bucket; the process   *)
(* may crash between any two, and a configuration reload creates a new     *)
(* pool on the same bucket while the old one still serves.                 *)
(*                                                                         *)
(* Addresses are numbers.  A Lookup that finds its host and a LookBack     *)
(* change nothing and are left out.  Transactions do not fail.             *)
(***************************************************************************)
EXTENDS Integers

CONSTANTS
    Hosts,
    Ranges,        \* prefixes that configurations use, [lo, hi] each
    NoIP, NoHost,
    Events         \* what happens: "crash", "reload", "overlap"

IPs == UNION {r.lo..r.hi : r \in Ranges}

ASSUME StoreAssumption ==
    /\ \A r \in Ranges : r.lo \in Nat /\ r.hi \in Nat /\ r.lo + 4 < r.hi
    /\ NoIP \notin IPs
    /\ NoHost \notin Hosts
    /\ Events \subseteq {"crash", "reload", "overlap"}

VARIABLES
    fwd, rev,      \* bucket: host --> fake IP, fake IP --> host
    saved,         \* bucket: the value of offsetKey, NoIP if it is not there
    savedCycle,    \* bucket: cycleKey is there
    pool,          \* the pool that serves: range, offset, cycle
    fresh,         \* the pool that a reload has created, if any: a set
    op,            \* the Lookup that holds the pool's mutex
    phase,         \* of the process: Shutdown and FlushFakeIP have two steps
    kept           \* history: records written and neither reused nor flushed

bucket == <<fwd, rev, saved, savedCycle>>
vars == <<bucket, pool, fresh, op, phase, kept>>

(* New reserves the network address, the gateway and two more; the last    *)
(* address of the prefix is the broadcast address.                         *)
FirstOf(r) == r.lo + 4
Usable(r) == FirstOf(r)..(r.hi - 1)

Pools == [range : Ranges, offset : IPs, cycle : BOOLEAN]
Idle == [pc |-> "idle", host |-> NoHost, ip |-> NoIP]
OpPC == {"idle", "advance", "exist", "del", "putIP", "return", "putHost"}
NoRecords == [h \in Hosts |-> NoIP]
NoReverse == [ip \in IPs |-> NoHost]
EmptyPool(r, c) == [range |-> r, offset |-> FirstOf(r) - 1, cycle |-> c]

(* Every variable has its type. *)
TypeOK ==
    /\ fwd \in [Hosts -> IPs \cup {NoIP}]
    /\ rev \in [IPs -> Hosts \cup {NoHost}]
    /\ saved \in IPs \cup {NoIP}
    /\ savedCycle \in BOOLEAN
    /\ pool \in Pools
    /\ fresh \in SUBSET Pools
    /\ op \in [pc : OpPC, host : Hosts \cup {NoHost}, ip : IPs \cup {NoIP}]
    /\ op.pc # "idle" => op.host \in Hosts
    /\ op.pc = "putHost" => op.ip \in IPs
    /\ phase \in {"run", "resetCounter", "storeCycle", "down"}
    /\ kept \in [Hosts -> IPs \cup {NoIP}]

Init ==
    /\ fwd = NoRecords /\ rev = NoReverse
    /\ saved = NoIP /\ savedCycle = FALSE
    /\ pool \in {EmptyPool(r, FALSE) : r \in Ranges}
    /\ fresh = {}
    /\ op = Idle
    /\ phase = "run"
    /\ kept = NoRecords

Goto(pc) == op' = [op EXCEPT !.pc = pc]

(* FlushFakeIP, Shutdown and New take no mutex: they wait for a Lookup     *)
(* only if nothing overlaps.                                               *)
Quiet == "overlap" \in Events \/ op.pc = "idle"

-----------------------------------------------------------------------------
(* Lookup of a host without a record. *)
Lookup_AlwaysNew(h) ==
    /\ op.pc = "idle"
    /\ phase = "run"
    /\ op' = [Idle EXCEPT !.pc = "advance", !.host = h]
    /\ UNCHANGED <<bucket, pool, fresh, phase, kept>>

Lookup(h) ==
    /\ op.pc = "idle"
    /\ phase = "run" \/ (phase # "down" /\ "overlap" \in Events)
    /\ fwd[h] = NoIP
    /\ op' = [Idle EXCEPT !.pc = "advance", !.host = h]
    /\ UNCHANGED <<bucket, pool, fresh, phase, kept>>

(* get: the next address of the range, cyclically. *)
Advance ==
    LET wrap == pool.offset + 1 >= pool.range.hi IN
    /\ op.pc = "advance"
    /\ pool' = [pool EXCEPT !.offset = IF wrap THEN FirstOf(pool.range) ELSE @ + 1,
                            !.cycle = @ \/ wrap]
    /\ Goto("exist")
    /\ UNCHANGED <<bucket, fresh, phase, kept>>

(* get: an address in use is taken from its host. *)
Exist ==
    /\ op.pc = "exist"
    /\ Goto(IF pool.cycle \/ rev[pool.offset] # NoHost THEN "del" ELSE "putIP")
    /\ UNCHANGED <<bucket, pool, fresh, phase, kept>>

(* Reuse of an address ends the record that had it. *)
Reused(ip) == [h \in Hosts |-> IF kept[h] = ip THEN NoIP ELSE kept[h]]

(* DelByIP: both directions in one transaction. *)
DelByIP_ReverseOnly ==
    LET ip == pool.offset IN
    /\ op.pc = "del"
    /\ rev' = [rev EXCEPT ![ip] = NoHost]
    /\ kept' = Reused(ip)
    /\ Goto("putIP")
    /\ UNCHANGED <<fwd, saved, savedCycle, pool, fresh, phase>>

DelByIP ==
    LET ip == pool.offset IN
    /\ op.pc = "del"
    /\ rev' = [rev EXCEPT ![ip] = NoHost]
    /\ fwd' = [h \in Hosts |-> IF h = rev[ip] THEN NoIP ELSE fwd[h]]
    /\ kept' = Reused(ip)
    /\ Goto("putIP")
    /\ UNCHANGED <<saved, savedCycle, pool, fresh, phase>>

PutByIP ==
    /\ op.pc = "putIP"
    /\ rev' = [rev EXCEPT ![pool.offset] = op.host]
    /\ Goto("return")
    /\ UNCHANGED <<fwd, saved, savedCycle, pool, fresh, phase, kept>>

(* get returns p.offset, which it reads again. *)
Return ==
    /\ op.pc = "return"
    /\ op' = [op EXCEPT !.pc = "putHost", !.ip = pool.offset]
    /\ UNCHANGED <<bucket, pool, fresh, phase, kept>>

PutByHost ==
    /\ op.pc = "putHost"
    /\ fwd' = [fwd EXCEPT ![op.host] = op.ip]
    /\ kept' = [kept EXCEPT ![op.host] = op.ip]
    /\ op' = Idle
    /\ UNCHANGED <<rev, saved, savedCycle, pool, fresh, phase>>

-----------------------------------------------------------------------------
(* The store's FlushFakeIP deletes the bucket, saved state included. *)
DeleteBucket ==
    /\ fwd' = NoRecords /\ rev' = NoReverse
    /\ saved' = NoIP /\ savedCycle' = FALSE

(* Pool.FlushFakeIP, called by the controller's API, in two steps. *)
FlushFakeIP ==
    /\ phase = "run" /\ Quiet
    /\ DeleteBucket
    /\ kept' = NoRecords
    /\ phase' = "resetCounter"
    /\ UNCHANGED <<pool, fresh, op>>

ResetCounter ==
    /\ phase = "resetCounter"
    /\ pool' = EmptyPool(pool.range, FALSE)
    /\ phase' = "run"
    /\ UNCHANGED <<bucket, fresh, op, kept>>

(* Shutdown stores the state of the pool, offsetKey and then cycleKey. *)
StoreState ==
    /\ phase = "run" /\ Quiet
    /\ saved' = pool.offset
    /\ phase' = IF pool.cycle THEN "storeCycle" ELSE "down"
    /\ op' = IF pool.cycle THEN op ELSE Idle
    /\ fresh' = {}
    /\ UNCHANGED <<fwd, rev, savedCycle, pool, kept>>

StoreCycle ==
    /\ phase = "storeCycle"
    /\ savedCycle' = TRUE
    /\ phase' = "down"
    /\ op' = Idle
    /\ UNCHANGED <<fwd, rev, saved, pool, fresh, kept>>

Crash ==
    /\ "crash" \in Events
    /\ phase # "down"
    /\ phase' = "down"
    /\ op' = Idle
    /\ fresh' = {}
    /\ UNCHANGED <<bucket, pool, kept>>

(***************************************************************************)
(* New: restoreState takes the stored offset if it lies in the prefix.     *)
(* The bucket is flushed if it does not, or if there is none although the  *)
(* first address is in use.                                                *)
(***************************************************************************)
MustFlush_AnyOffset(r) == saved = NoIP /\ rev[FirstOf(r)] # NoHost

MustFlush_FirstInUse(r) ==
    \/ saved # NoIP /\ saved \notin r.lo..r.hi
    \/ rev[FirstOf(r)] # NoHost

MustFlush(r) ==
    \/ saved # NoIP /\ saved \notin r.lo..r.hi
    \/ saved = NoIP /\ rev[FirstOf(r)] # NoHost

Restored(r) ==
    IF MustFlush(r) THEN EmptyPool(r, FALSE)
    ELSE IF saved = NoIP THEN EmptyPool(r, savedCycle)
    ELSE [range |-> r, offset |-> saved, cycle |-> savedCycle]

(* A configuration with another range is allowed to drop the records. *)
restoreState(r) ==
    /\ \/ MustFlush(r) /\ DeleteBucket
       \/ ~MustFlush(r) /\ UNCHANGED bucket
    /\ kept' = IF r = pool.range THEN kept ELSE NoRecords

Start(r) ==
    /\ phase = "down"
    /\ restoreState(r)
    /\ pool' = Restored(r)
    /\ phase' = "run"
    /\ UNCHANGED <<fresh, op>>

(* A reload: the configuration is parsed, which creates the pool, and      *)
(* applied later.  CloneFrom does nothing, the records are on disk.        *)
ReloadParse(r) ==
    /\ "reload" \in Events
    /\ phase = "run" /\ fresh = {} /\ Quiet
    /\ restoreState(r)
    /\ fresh' = {Restored(r)}
    /\ UNCHANGED <<pool, op, phase>>

ReloadApply ==
    /\ phase = "run" /\ op.pc = "idle"
    /\ \E p \in fresh : pool' = p
    /\ fresh' = {}
    /\ UNCHANGED <<bucket, op, phase, kept>>

-----------------------------------------------------------------------------
LookupNext ==
    \/ \E h \in Hosts : Lookup(h)
    \/ Advance \/ Exist \/ DelByIP \/ PutByIP \/ Return \/ PutByHost
ProcessNext ==
    \/ FlushFakeIP \/ ResetCounter \/ StoreState \/ StoreCycle \/ Crash
    \/ \E r \in Ranges : Start(r) \/ ReloadParse(r)
    \/ ReloadApply

Next == LookupNext \/ ProcessNext

Spec == Init /\ [][Next]_vars

-----------------------------------------------------------------------------
(* Properties *)

(***************************************************************************)
(* LookBack undoes Lookup, at every moment and after any crash: a host's   *)
(* fake IP leads back to the host.  So no two hosts share an address.  It  *)
(* takes that no flush, shutdown or reload overlaps a Lookup.              *)
(***************************************************************************)
Consistent == \A h \in Hosts : fwd[h] # NoIP => rev[fwd[h]] = h

Promise == INSTANCE FakeIPMap WITH rec <- fwd, copy <- NoRecords

(***************************************************************************)
(* The persistent pool keeps the promise of every fake-IP pool across      *)
(* crashes and reloads, when nothing overlaps a Lookup.                    *)
(***************************************************************************)
KeepsPromise == Promise!Spec

(***************************************************************************)
(* "Persistence will save the data to disk. ... record will be fully       *)
(* stored" (Options): a record is lost only to a reuse of its address, a   *)
(* flush or a new range.  The code does not keep this: a reload or a crash *)
(* before the first Shutdown makes restoreState flush the bucket.          *)
(***************************************************************************)
RecordsKept == \A h \in Hosts : kept[h] # NoIP => fwd[h] = kept[h]

(* A state was stored, and no reverse record that a crash left behind      *)
(* names the host.                                                         *)
Durable(h) == saved # NoIP /\ \A ip \in IPs : rev[ip] = h => fwd[h] = ip

(***************************************************************************)
(* What the code does keep, through every crash, restart and reload that   *)
(* does not overlap a Lookup: a durable record stays, and stays durable,   *)
(* until its address is reused, the pool is flushed or the range changes.  *)
(***************************************************************************)
DurableKept ==
    [][\A h \in Hosts : kept[h] # NoIP /\ fwd[h] = kept[h] /\ Durable(h) =>
          \/ kept'[h] # kept[h]
          \/ fwd'[h] = kept[h] /\ Durable(h)']_vars

(***************************************************************************)
(* Whatever range the stored offset stems from, a host gets a new address  *)
(* only inside the prefix of the pool that serves, between its network and *)
(* its broadcast address.  (It may be one of the three after the network   *)
(* address, which New reserves, if the stored offset is one of those.)     *)
(***************************************************************************)
AssignsInRange ==
    [][\A h \in Hosts : fwd'[h] \in {NoIP, fwd[h]}
                            \cup (pool.range.lo + 1 .. pool.range.hi - 1)]_vars
=============================================================================
