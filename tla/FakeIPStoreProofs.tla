------------------------- MODULE FakeIPStoreProofs -------------------------
(***************************************************************************)
(* Proofs about FakeIPStore, for any hosts and ranges: types, consistency  *)
(* of the two directions on disk across crashes, restarts and reloads,     *)
(* that the persistent pool implements FakeIPMap, which records stay, and  *)
(* which addresses are assigned.                                           *)
(***************************************************************************)
EXTENDS FakeIPStore, TLAPS

(* The reserved and the usable addresses of a range are addresses. *)
LEMMA RangeAddresses ==
    ASSUME NEW r \in Ranges
    PROVE  /\ FirstOf(r) \in IPs /\ FirstOf(r) - 1 \in IPs
           /\ \A i \in r.lo..r.hi : i \in IPs /\ i \in Int
           /\ r.hi \in Int /\ FirstOf(r) \in Int
<1>1. \A i \in r.lo..r.hi : i \in IPs
  BY DEF IPs
<1>2. QED
  BY <1>1, StoreAssumption DEF FirstOf

LEMMA AddressesAreNumbers == ASSUME NEW i \in IPs PROVE i \in Int
BY StoreAssumption DEF IPs

LEMMA EmptyPoolType ==
    ASSUME NEW r \in Ranges, NEW c \in BOOLEAN
    PROVE  EmptyPool(r, c) \in Pools
BY RangeAddresses DEF EmptyPool, Pools

(* What restoreState returns is a pool. *)
LEMMA RestoredType ==
    ASSUME TypeOK, NEW r \in Ranges
    PROVE  Restored(r) \in Pools
<1>1. CASE MustFlush(r) \/ saved = NoIP
  BY <1>1, EmptyPoolType DEF Restored, TypeOK
<1>2. CASE ~MustFlush(r) /\ saved # NoIP
  BY <1>2 DEF Restored, TypeOK, Pools
<1>3. QED
  BY <1>1, <1>2

(***************************************************************************)
(* The offset stays in the range of its pool, or the next address would    *)
(* not be one of it.                                                       *)
(***************************************************************************)
OffsetIn(p) == p.offset \in p.range.lo..p.range.hi
OffsetInv == OffsetIn(pool) /\ \A p \in fresh : OffsetIn(p)
TypeInv == TypeOK /\ OffsetInv

LEMMA RestoredOffset ==
    ASSUME TypeOK, NEW r \in Ranges
    PROVE  OffsetIn(Restored(r))
<1>1. FirstOf(r) - 1 \in r.lo..r.hi
  BY StoreAssumption DEF FirstOf
<1>2. CASE MustFlush(r) \/ saved = NoIP
  BY <1>1, <1>2 DEF Restored, EmptyPool, OffsetIn
<1>3. CASE ~MustFlush(r) /\ saved # NoIP
  BY <1>3 DEF Restored, MustFlush, OffsetIn
<1>4. QED
  BY <1>2, <1>3

LEMMA InitTypes == Init => TypeInv
<1> SUFFICES ASSUME Init PROVE TypeInv
  OBVIOUS
<1>1. PICK r \in Ranges : pool = EmptyPool(r, FALSE)
  BY DEF Init
<1>2. pool \in Pools
  BY <1>1, EmptyPoolType
<1>3. OffsetIn(pool)
  BY <1>1, StoreAssumption DEF OffsetIn, EmptyPool, FirstOf
<1>4. TypeOK
  BY <1>2 DEF Init, TypeOK, NoRecords, NoReverse, Idle, OpPC
<1>5. QED
  BY <1>3, <1>4 DEF Init, TypeInv, OffsetInv

(* Emptying the bucket keeps its type. *)
LEMMA DeleteBucketType ==
    ASSUME DeleteBucket
    PROVE  /\ fwd' \in [Hosts -> IPs \cup {NoIP}]
           /\ rev' \in [IPs -> Hosts \cup {NoHost}]
           /\ saved' \in IPs \cup {NoIP}
           /\ savedCycle' \in BOOLEAN
BY DEF DeleteBucket, NoRecords, NoReverse

LEMMA RestoreStateType ==
    ASSUME TypeOK, NEW r \in Ranges, restoreState(r)
    PROVE  /\ fwd' \in [Hosts -> IPs \cup {NoIP}]
           /\ rev' \in [IPs -> Hosts \cup {NoHost}]
           /\ saved' \in IPs \cup {NoIP}
           /\ savedCycle' \in BOOLEAN
           /\ kept' \in [Hosts -> IPs \cup {NoIP}]
<1>1. kept' \in [Hosts -> IPs \cup {NoIP}]
  BY DEF restoreState, TypeOK, NoRecords
<1>2. CASE DeleteBucket
  BY <1>1, <1>2, DeleteBucketType
<1>3. CASE UNCHANGED bucket
  BY <1>1, <1>3 DEF bucket, TypeOK
<1>4. QED
  BY <1>2, <1>3 DEF restoreState

LEMMA NextTypes == TypeInv /\ [Next]_vars => TypeInv'
<1> SUFFICES ASSUME TypeInv, [Next]_vars PROVE TypeInv'
  OBVIOUS
<1> USE DEF TypeInv
<1>1. ASSUME NEW h \in Hosts, Lookup(h) PROVE TypeInv'
  BY <1>1 DEF Lookup, TypeOK, OffsetInv, OffsetIn, Idle, OpPC, bucket
<1>2. CASE Advance
  <2>1. /\ pool.range \in Ranges /\ pool.offset \in IPs /\ pool.cycle \in BOOLEAN
    BY DEF TypeOK, Pools
  <2>2. pool.range.lo \in Nat /\ pool.range.hi \in Nat /\ pool.range.lo + 4 < pool.range.hi
    BY <2>1, StoreAssumption
  <2> DEFINE wrap == pool.offset + 1 >= pool.range.hi
             o == IF wrap THEN FirstOf(pool.range) ELSE pool.offset + 1
  <2>3. o \in pool.range.lo..pool.range.hi
    BY <2>1, <2>2 DEF OffsetInv, OffsetIn, FirstOf
  <2>4. o \in IPs
    BY <2>1, <2>3, RangeAddresses
  <2>5. pool' = [pool EXCEPT !.offset = o, !.cycle = pool.cycle \/ wrap]
    BY <1>2 DEF Advance
  <2> HIDE DEF o, wrap
  <2>6. pool.cycle \/ wrap \in BOOLEAN
    BY <2>1 DEF wrap
  <2>7. pool' \in Pools /\ OffsetIn(pool')
    BY <2>1, <2>3, <2>4, <2>5, <2>6 DEF TypeOK, Pools, OffsetIn
  <2>8. QED
    BY <1>2, <2>7 DEF Advance, Goto, TypeOK, OffsetInv, OpPC, bucket
<1>3. CASE Exist
  BY <1>3 DEF Exist, Goto, TypeOK, OffsetInv, OffsetIn, OpPC, bucket
<1>4. CASE DelByIP
  <2>1. fwd' \in [Hosts -> IPs \cup {NoIP}] /\ kept' \in [Hosts -> IPs \cup {NoIP}]
    BY <1>4 DEF DelByIP, Reused, TypeOK
  <2>2. rev' \in [IPs -> Hosts \cup {NoHost}]
    BY <1>4 DEF DelByIP, TypeOK
  <2>3. QED
    BY <1>4, <2>1, <2>2 DEF DelByIP, Goto, TypeOK, OffsetInv, OffsetIn, OpPC
<1>5. CASE PutByIP
  <2>1. rev' \in [IPs -> Hosts \cup {NoHost}]
    BY <1>5 DEF PutByIP, TypeOK
  <2>2. QED
    BY <1>5, <2>1 DEF PutByIP, Goto, TypeOK, OffsetInv, OffsetIn, OpPC
<1>6. CASE Return
  <2>1. pool.offset \in IPs
    BY DEF TypeOK, Pools
  <2>2. QED
    BY <1>6, <2>1 DEF Return, TypeOK, OffsetInv, OffsetIn, OpPC, bucket
<1>7. CASE PutByHost
  <2>1. fwd' \in [Hosts -> IPs \cup {NoIP}] /\ kept' \in [Hosts -> IPs \cup {NoIP}]
    BY <1>7 DEF PutByHost, TypeOK
  <2>2. QED
    BY <1>7, <2>1 DEF PutByHost, TypeOK, OffsetInv, OffsetIn, OpPC, Idle
<1>8. CASE FlushFakeIP
  BY <1>8, DeleteBucketType DEF FlushFakeIP, TypeOK, OffsetInv, OffsetIn, NoRecords
<1>9. CASE ResetCounter
  <2>1. pool.range \in Ranges
    BY DEF TypeOK, Pools
  <2>2. pool' \in Pools
    BY <1>9, <2>1, EmptyPoolType DEF ResetCounter
  <2>3. OffsetIn(pool')
    BY <1>9, <2>1, StoreAssumption DEF ResetCounter, EmptyPool, OffsetIn, FirstOf
  <2>4. QED
    BY <1>9, <2>2, <2>3 DEF ResetCounter, TypeOK, OffsetInv, bucket
<1>10. CASE StoreState
  <2>1. pool.offset \in IPs /\ pool.cycle \in BOOLEAN
    BY DEF TypeOK, Pools
  <2>2. QED
    BY <1>10, <2>1 DEF StoreState, TypeOK, OffsetInv, OffsetIn, Idle, OpPC
<1>11. CASE StoreCycle
  BY <1>11 DEF StoreCycle, TypeOK, OffsetInv, OffsetIn, Idle, OpPC
<1>12. CASE Crash
  BY <1>12 DEF Crash, TypeOK, OffsetInv, OffsetIn, Idle, OpPC, bucket
<1>13. ASSUME NEW r \in Ranges, Start(r) PROVE TypeInv'
  <2>1. pool' \in Pools /\ OffsetIn(pool')
    BY <1>13, RestoredType, RestoredOffset DEF Start
  <2>2. QED
    BY <1>13, <2>1, RestoreStateType DEF Start, TypeOK, OffsetInv
<1>14. ASSUME NEW r \in Ranges, ReloadParse(r) PROVE TypeInv'
  <2>1. Restored(r) \in Pools /\ OffsetIn(Restored(r))
    BY RestoredType, RestoredOffset
  <2>2. fresh' \in SUBSET Pools /\ \A p \in fresh' : OffsetIn(p)
    BY <1>14, <2>1 DEF ReloadParse
  <2>3. restoreState(r) /\ UNCHANGED <<pool, op, phase>>
    BY <1>14 DEF ReloadParse
  <2>4. QED
    BY <2>2, <2>3, RestoreStateType DEF TypeOK, OffsetInv, OffsetIn
<1>15. CASE ReloadApply
  <2>1. pool' \in Pools /\ OffsetIn(pool')
    BY <1>15 DEF ReloadApply, TypeOK, OffsetInv
  <2>2. QED
    BY <1>15, <2>1 DEF ReloadApply, TypeOK, OffsetInv, bucket
<1>16. CASE UNCHANGED vars
  BY <1>16 DEF vars, bucket, TypeOK, OffsetInv, OffsetIn
<1>17. QED
  BY <1>1, <1>2, <1>3, <1>4, <1>5, <1>6, <1>7, <1>8, <1>9, <1>10, <1>11, <1>12,
     <1>13, <1>14, <1>15, <1>16 DEF Next, LookupNext, ProcessNext

LEMMA TypeInvariant == Spec => []TypeInv
<1>1. Init => TypeInv
  BY InitTypes
<1>2. TypeInv /\ [Next]_vars => TypeInv'
  BY NextTypes
<1>3. QED
  BY <1>1, <1>2, PTL DEF Spec

(***************************************************************************)
(* Whatever happens to the process, overlapping calls included, the        *)
(* variables keep their types: every address that get reads or writes lies *)
(* in a configured prefix.                                                 *)
(***************************************************************************)
THEOREM TypeCorrect == Spec => []TypeOK
<1>1. TypeInv => TypeOK
  BY DEF TypeInv
<1>2. QED
  BY <1>1, TypeInvariant, PTL

-----------------------------------------------------------------------------
(***************************************************************************)
(* The inductive invariant behind Consistent, if nothing overlaps: before  *)
(* a Lookup writes an address into the bucket no host has it, its own host *)
(* has none, and the address still leads to its host.                      *)
(***************************************************************************)
LookupInv ==
    /\ phase # "run" => op.pc = "idle"
    /\ op.pc # "idle" => fwd[op.host] = NoIP
    /\ op.pc \in {"putIP", "return"} => \A h \in Hosts : fwd[h] # pool.offset
    /\ op.pc = "return" => rev[pool.offset] = op.host
    /\ op.pc = "putHost" => /\ rev[op.ip] = op.host
                            /\ \A h \in Hosts : fwd[h] # op.ip
StoreInv == TypeInv /\ Consistent /\ LookupInv

LEMMA InitStore == Init => StoreInv
<1> SUFFICES ASSUME Init PROVE StoreInv
  OBVIOUS
<1>1. TypeInv
  BY InitTypes
<1>2. Consistent /\ LookupInv
  BY DEF Init, Consistent, LookupInv, NoRecords, Idle
<1>3. QED
  BY <1>1, <1>2 DEF StoreInv

(* restoreState leaves the records as they are or deletes them all. *)
LEMMA RestoreStateConsistent ==
    ASSUME TypeOK, Consistent, NEW r \in Ranges, restoreState(r)
    PROVE  Consistent'
<1>1. CASE DeleteBucket
  BY <1>1 DEF DeleteBucket, NoRecords, Consistent
<1>2. CASE UNCHANGED bucket
  BY <1>2 DEF bucket, Consistent
<1>3. QED
  BY <1>1, <1>2 DEF restoreState

(* A pool that is not in use may be replaced. *)
LEMMA IdleLookup == ASSUME op'.pc = "idle" PROVE LookupInv'
BY DEF LookupInv

LEMMA NextStore ==
    ASSUME "overlap" \notin Events, StoreInv, [Next]_vars
    PROVE  StoreInv'
<1>1. TypeInv'
  BY NextTypes DEF StoreInv
<1> SUFFICES Consistent' /\ LookupInv'
  BY <1>1 DEF StoreInv
<1>2. /\ pool.offset \in IPs /\ pool.offset # NoIP
      /\ TypeOK /\ Consistent /\ LookupInv
  BY StoreAssumption DEF StoreInv, TypeInv, TypeOK, Pools
<1>3. ASSUME NEW h \in Hosts, Lookup(h) PROVE Consistent' /\ LookupInv'
  <2>1. Consistent'
    BY <1>2, <1>3 DEF Lookup, Consistent, bucket
  <2>2. op'.pc = "advance" /\ op'.host = h /\ fwd'[h] = NoIP /\ phase' = "run"
    BY <1>2, <1>3 DEF Lookup, bucket, Idle
  <2>3. QED
    BY <2>1, <2>2 DEF LookupInv
<1>4. CASE Advance
  <2>1. op'.pc = "exist" /\ op'.host = op.host /\ phase' = phase /\ fwd' = fwd /\ rev' = rev
    BY <1>2, <1>4 DEF Advance, Goto, bucket, TypeOK
  <2>2. QED
    BY <1>2, <1>4, <2>1 DEF Consistent, LookupInv, Advance
<1>5. CASE Exist
  <2>1. /\ op'.host = op.host /\ UNCHANGED <<fwd, rev, pool, phase>>
        /\ op.pc = "exist" /\ op'.pc \in {"del", "putIP"}
        /\ op'.pc = "putIP" => rev[pool.offset] = NoHost
    BY <1>2, <1>5 DEF Exist, Goto, bucket, TypeOK
  <2>2. op'.pc = "putIP" => \A h \in Hosts : fwd[h] # pool.offset
    BY <1>2, <2>1, StoreAssumption DEF Consistent
  <2>3. QED
    BY <1>2, <2>1, <2>2 DEF Consistent, LookupInv
<1>6. CASE DelByIP
  <2> DEFINE ip == pool.offset
  <2>1. /\ op'.host = op.host /\ op.pc = "del" /\ op'.pc = "putIP"
        /\ UNCHANGED <<pool, phase>>
    BY <1>2, <1>6 DEF DelByIP, Goto, TypeOK
  <2>2. \A h \in Hosts : fwd'[h] = IF h = rev[ip] THEN NoIP ELSE fwd[h]
    BY <1>6 DEF DelByIP
  <2>3. \A i \in IPs : rev'[i] = IF i = ip THEN NoHost ELSE rev[i]
    BY <1>2, <1>6 DEF DelByIP, TypeOK
  <2>4. \A h \in Hosts : fwd'[h] # ip
    BY <1>2, <2>2 DEF Consistent
  <2>5. Consistent'
    BY <1>2, <2>2, <2>3, <2>4 DEF Consistent, TypeOK
  <2>6. fwd'[op.host] = NoIP
    BY <1>2, <2>1, <2>2 DEF LookupInv, TypeOK
  <2>7. QED
    BY <1>2, <2>1, <2>4, <2>5, <2>6 DEF LookupInv
<1>7. CASE PutByIP
  <2>1. /\ op'.host = op.host /\ op.pc = "putIP" /\ op'.pc = "return"
        /\ UNCHANGED <<pool, phase, fwd>>
    BY <1>2, <1>7 DEF PutByIP, Goto, TypeOK
  <2>2. \A i \in IPs : rev'[i] = IF i = pool.offset THEN op.host ELSE rev[i]
    BY <1>2, <1>7 DEF PutByIP, TypeOK
  <2>3. Consistent'
    BY <1>2, <2>1, <2>2 DEF Consistent, LookupInv, TypeOK
  <2>4. QED
    BY <1>2, <2>1, <2>2, <2>3 DEF LookupInv
<1>8. CASE Return
  <2>1. /\ op'.host = op.host /\ op.pc = "return" /\ op'.pc = "putHost"
        /\ op'.ip = pool.offset /\ UNCHANGED <<pool, phase, fwd, rev>>
    BY <1>2, <1>8 DEF Return, TypeOK, bucket
  <2>2. QED
    BY <1>2, <2>1 DEF LookupInv, Consistent
<1>9. CASE PutByHost
  <2>1. op'.pc = "idle"
    BY <1>9 DEF PutByHost, Idle
  <2>2. /\ op.pc = "putHost" /\ op.host \in Hosts /\ op.ip \in IPs /\ rev' = rev
        /\ \A h \in Hosts : fwd'[h] = IF h = op.host THEN op.ip ELSE fwd[h]
    BY <1>2, <1>9 DEF PutByHost, TypeOK
  <2>3. Consistent'
    BY <1>2, <2>2 DEF Consistent, LookupInv
  <2>4. QED
    BY <2>1, <2>3, IdleLookup
<1>10. CASE FlushFakeIP
  <2>1. op'.pc = "idle"
    BY <1>10 DEF FlushFakeIP, Quiet
  <2>2. Consistent'
    BY <1>10 DEF FlushFakeIP, DeleteBucket, NoRecords, Consistent
  <2>3. QED
    BY <2>1, <2>2, IdleLookup
<1>11. CASE ResetCounter
  <2>1. op'.pc = "idle"
    BY <1>2, <1>11 DEF ResetCounter, LookupInv
  <2>2. Consistent'
    BY <1>2, <1>11 DEF ResetCounter, Consistent, bucket
  <2>3. QED
    BY <2>1, <2>2, IdleLookup
<1>12. CASE StoreState
  <2>1. op'.pc = "idle"
    BY <1>12 DEF StoreState, Quiet, Idle
  <2>2. Consistent'
    BY <1>2, <1>12 DEF StoreState, Consistent
  <2>3. QED
    BY <2>1, <2>2, IdleLookup
<1>13. CASE StoreCycle
  <2>1. op'.pc = "idle"
    BY <1>13 DEF StoreCycle, Idle
  <2>2. Consistent'
    BY <1>2, <1>13 DEF StoreCycle, Consistent
  <2>3. QED
    BY <2>1, <2>2, IdleLookup
<1>14. CASE Crash
  <2>1. op'.pc = "idle"
    BY <1>14 DEF Crash, Idle
  <2>2. Consistent'
    BY <1>2, <1>14 DEF Crash, Consistent, bucket
  <2>3. QED
    BY <2>1, <2>2, IdleLookup
<1>15. ASSUME NEW r \in Ranges, Start(r) PROVE Consistent' /\ LookupInv'
  <2>1. op'.pc = "idle"
    BY <1>2, <1>15 DEF Start, LookupInv
  <2>2. QED
    BY <1>2, <1>15, <2>1, IdleLookup, RestoreStateConsistent DEF Start
<1>16. ASSUME NEW r \in Ranges, ReloadParse(r) PROVE Consistent' /\ LookupInv'
  <2>1. op'.pc = "idle"
    BY <1>16 DEF ReloadParse, Quiet
  <2>2. QED
    BY <1>2, <1>16, <2>1, IdleLookup, RestoreStateConsistent DEF ReloadParse
<1>17. CASE ReloadApply
  <2>1. op'.pc = "idle"
    BY <1>17 DEF ReloadApply
  <2>2. Consistent'
    BY <1>2, <1>17 DEF ReloadApply, Consistent, bucket
  <2>3. QED
    BY <2>1, <2>2, IdleLookup
<1>18. CASE UNCHANGED vars
  BY <1>2, <1>18 DEF vars, bucket, Consistent, LookupInv
<1>19. QED
  BY <1>3, <1>4, <1>5, <1>6, <1>7, <1>8, <1>9, <1>10, <1>11, <1>12, <1>13, <1>14,
     <1>15, <1>16, <1>17, <1>18 DEF Next, LookupNext, ProcessNext

LEMMA StoreInvariant == "overlap" \notin Events => (Spec => []StoreInv)
<1> SUFFICES ASSUME "overlap" \notin Events PROVE Spec => []StoreInv
  OBVIOUS
<1>1. Init => StoreInv
  BY InitStore
<1>2. StoreInv /\ [Next]_vars => StoreInv'
  BY NextStore
<1>3. QED
  BY <1>1, <1>2, PTL DEF Spec

(***************************************************************************)
(* If FlushFakeIP, StoreState and New do not overlap a Lookup, the two     *)
(* directions on disk agree at every moment: a crash between the           *)
(* transactions of Lookup, stale or missing saved state, a wrap-around, a  *)
(* reload and a change of range never make a fake IP lead to another host. *)
(***************************************************************************)
THEOREM RecordsConsistent == "overlap" \notin Events => (Spec => []Consistent)
<1> SUFFICES ASSUME "overlap" \notin Events PROVE Spec => []Consistent
  OBVIOUS
<1>1. StoreInv => Consistent
  BY DEF StoreInv
<1>2. Spec => []StoreInv
  BY StoreInvariant
<1>3. QED
  BY <1>1, <1>2, PTL

-----------------------------------------------------------------------------
(* The steps that change the records. *)
LEMMA RecordChanges ==
    ASSUME [Next]_vars
    PROVE  DelByIP \/ PutByHost \/ DeleteBucket \/ UNCHANGED fwd
<1>1. ASSUME NEW r \in Ranges, restoreState(r) PROVE DeleteBucket \/ UNCHANGED fwd
  BY <1>1 DEF restoreState, bucket
<1>2. ASSUME LookupNext PROVE DelByIP \/ PutByHost \/ UNCHANGED fwd
  BY <1>2 DEF LookupNext, Lookup, Advance, Exist, PutByIP, Return, bucket
<1>3. ASSUME ProcessNext PROVE DeleteBucket \/ UNCHANGED fwd
  BY <1>1, <1>3 DEF ProcessNext, FlushFakeIP, ResetCounter, StoreState, StoreCycle, Crash,
     Start, ReloadParse, ReloadApply, bucket
<1>4. QED
  BY <1>2, <1>3 DEF Next, vars, bucket

(* Deleting all records is a Forget of every host. *)
LEMMA ForgetAll ==
    ASSUME TypeOK, fwd' = NoRecords PROVE Promise!Next
<1>1. Promise!Forget(Hosts)
  BY DEF Promise!Forget, Promise!Forgotten, NoRecords
<1>2. Hosts \in SUBSET Hosts
  OBVIOUS
<1>3. QED
  BY <1>1, <1>2 DEF Promise!Next

LEMMA StepImplements ==
    ASSUME "overlap" \notin Events, StoreInv, [Next]_vars
    PROVE  [Promise!Next]_<<fwd, NoRecords>>
<1>1. NoRecords' = NoRecords
  BY DEF NoRecords
<1>2. TypeOK /\ Consistent /\ LookupInv
  BY DEF StoreInv, TypeInv
<1>3. CASE DelByIP
  <2> DEFINE F == {h \in Hosts : h = rev[pool.offset]}
  <2>1. fwd' = Promise!Forgotten(fwd, F)
    BY <1>3 DEF DelByIP, Promise!Forgotten
  <2>2. Promise!Forget(F)
    BY <1>1, <2>1 DEF Promise!Forget
  <2>3. F \in SUBSET Hosts
    OBVIOUS
  <2>4. QED
    BY <2>2, <2>3 DEF Promise!Next
<1>4. CASE PutByHost
  <2>1. /\ op.pc = "putHost" /\ op.host \in Hosts /\ op.ip \in IPs
        /\ fwd' = [fwd EXCEPT ![op.host] = op.ip]
    BY <1>2, <1>4 DEF PutByHost, TypeOK
  <2>2. fwd[op.host] = NoIP /\ \A h \in Hosts : fwd[h] # op.ip
    BY <1>2, <2>1 DEF LookupInv
  <2>3. Promise!Forgotten(fwd, {}) = fwd
    BY <1>2 DEF Promise!Forgotten, TypeOK
  <2>4. Promise!Assign(op.host, op.ip, {})
    BY <1>1, <2>1, <2>2, <2>3 DEF Promise!Assign, Promise!NobodyHas
  <2>5. {} \in SUBSET Hosts
    OBVIOUS
  <2>6. QED
    BY <2>1, <2>4, <2>5 DEF Promise!Next
<1>5. CASE DeleteBucket
  BY <1>2, <1>5, ForgetAll DEF DeleteBucket
<1>6. CASE UNCHANGED fwd
  BY <1>1, <1>6
<1>7. QED
  BY <1>3, <1>4, <1>5, <1>6, RecordChanges

(***************************************************************************)
(* Under the same assumption the persistent pool implements FakeIPMap: a   *)
(* host's fake IP never changes while the host is remembered, and an       *)
(* address is assigned only when no host has it.                           *)
(***************************************************************************)
THEOREM ImplementsPromise == "overlap" \notin Events => (Spec => KeepsPromise)
<1> SUFFICES ASSUME "overlap" \notin Events PROVE Spec => Promise!Spec
  BY DEF KeepsPromise
<1>1. Init => Promise!Init
  BY DEF Init, Promise!Init, Promise!Empty, NoRecords
<1>2. StoreInv /\ [Next]_vars => [Promise!Next]_<<fwd, NoRecords>>
  BY StepImplements
<1>3. Spec => []StoreInv
  BY StoreInvariant
<1>4. QED
  BY <1>1, <1>2, <1>3, PTL DEF Spec, Promise!Spec

-----------------------------------------------------------------------------
(***************************************************************************)
(* A stored offset lies in the prefix of the pool that serves and of the   *)
(* one a reload has created, since New flushes the bucket otherwise.  So a *)
(* restart or a reload with the same range finds it.                       *)
(***************************************************************************)
SavedIn(p) == saved \in p.range.lo..p.range.hi
SavedInv == saved # NoIP => SavedIn(pool) /\ \A p \in fresh : SavedIn(p)

(* What New leaves in the bucket. *)
LEMMA RestoreStateSaved ==
    ASSUME NEW r \in Ranges, restoreState(r)
    PROVE  /\ saved' \in {NoIP, saved}
           /\ saved' # NoIP => saved' \in r.lo..r.hi
           /\ Restored(r).range = r
<1>1. CASE MustFlush(r)
  BY <1>1 DEF restoreState, DeleteBucket, Restored, EmptyPool
<1>2. CASE ~MustFlush(r)
  BY <1>2 DEF restoreState, MustFlush, bucket, Restored, EmptyPool
<1>3. QED
  BY <1>1, <1>2

LEMMA NextSaved ==
    ASSUME TypeInv, SavedInv, [Next]_vars
    PROVE  SavedInv'
<1>1. CASE UNCHANGED <<saved, pool, fresh>>
  BY <1>1 DEF SavedInv, SavedIn
<1>2. ASSUME LookupNext PROVE SavedInv'
  <2>1. UNCHANGED saved /\ UNCHANGED fresh /\ pool'.range = pool.range
    BY <1>2 DEF LookupNext, Lookup, Advance, Exist, DelByIP, PutByIP, Return, PutByHost,
       bucket, TypeInv, TypeOK, Pools
  <2>2. QED
    BY <2>1 DEF SavedInv, SavedIn
<1>3. CASE FlushFakeIP
  BY <1>3 DEF FlushFakeIP, DeleteBucket, SavedInv
<1>4. CASE ResetCounter
  <2>1. UNCHANGED <<saved, fresh>> /\ pool'.range = pool.range
    BY <1>4 DEF ResetCounter, EmptyPool, bucket
  <2>2. QED
    BY <2>1 DEF SavedInv, SavedIn
<1>5. CASE StoreState
  BY <1>5 DEF StoreState, SavedInv, SavedIn, TypeInv, OffsetInv, OffsetIn
<1>6. CASE StoreCycle
  BY <1>1, <1>6 DEF StoreCycle
<1>7. CASE Crash
  BY <1>7 DEF Crash, bucket, SavedInv, SavedIn
<1>8. ASSUME NEW r \in Ranges, Start(r) PROVE SavedInv'
  <2>1. /\ saved' \in {NoIP, saved} /\ pool'.range = r /\ UNCHANGED fresh
        /\ saved' # NoIP => saved' \in r.lo..r.hi
    BY <1>8, RestoreStateSaved DEF Start
  <2>2. QED
    BY <2>1 DEF SavedInv, SavedIn
<1>9. ASSUME NEW r \in Ranges, ReloadParse(r) PROVE SavedInv'
  <2>1. /\ saved' \in {NoIP, saved} /\ UNCHANGED pool
        /\ saved' # NoIP => saved' \in r.lo..r.hi
        /\ \A p \in fresh' : p.range = r
    BY <1>9, RestoreStateSaved DEF ReloadParse
  <2>2. QED
    BY <2>1 DEF SavedInv, SavedIn
<1>10. CASE ReloadApply
  BY <1>10 DEF ReloadApply, bucket, SavedInv, SavedIn
<1>11. CASE UNCHANGED vars
  BY <1>1, <1>11 DEF vars, bucket
<1>12. QED
  BY <1>2, <1>3, <1>4, <1>5, <1>6, <1>7, <1>8, <1>9, <1>10, <1>11 DEF Next, ProcessNext

LEMMA SavedInvariant == Spec => []SavedInv
<1>1. Init => SavedInv
  BY DEF Init, SavedInv
<1>2. TypeInv /\ SavedInv /\ [Next]_vars => SavedInv'
  BY NextSaved
<1>3. QED
  BY <1>1, <1>2, TypeInvariant, PTL DEF Spec

(* A durable record of h, and what a step may do to it. *)
DurableRecord(h) == kept[h] # NoIP /\ fwd[h] = kept[h] /\ Durable(h)
StaysDurable(h) == kept'[h] # kept[h] \/ (fwd'[h] = kept[h] /\ Durable(h)')

LEMMA SameDurable ==
    ASSUME NEW h \in Hosts, DurableRecord(h), UNCHANGED <<rev, fwd>>, saved' # NoIP
    PROVE  StaysDurable(h)
BY DEF DurableRecord, StaysDurable, Durable

(* New keeps a durable record, or the range is another. *)
LEMMA RestoreStateDurable ==
    ASSUME SavedInv, NEW r \in Ranges, restoreState(r), NEW h \in Hosts, DurableRecord(h)
    PROVE  StaysDurable(h)
<1>1. saved # NoIP /\ SavedIn(pool) /\ kept[h] # NoIP
  BY DEF DurableRecord, Durable, SavedInv
<1>2. CASE r = pool.range
  <2>1. ~MustFlush(r)
    BY <1>1, <1>2 DEF MustFlush, SavedIn
  <2>2. UNCHANGED bucket
    BY <2>1 DEF restoreState
  <2>3. QED
    BY <1>1, <2>2, SameDurable DEF bucket
<1>3. CASE r # pool.range
  BY <1>1, <1>3 DEF restoreState, NoRecords, StaysDurable
<1>4. QED
  BY <1>2, <1>3

LEMMA NextDurable ==
    ASSUME "overlap" \notin Events, StoreInv, SavedInv, [Next]_vars,
           NEW h \in Hosts, DurableRecord(h)
    PROVE  StaysDurable(h)
<1>1. /\ TypeOK /\ Consistent /\ LookupInv /\ pool.offset \in IPs
      /\ saved # NoIP /\ fwd[h] # NoIP /\ kept[h] = fwd[h]
      /\ \A ip \in IPs : rev[ip] = h => fwd[h] = ip
  BY DEF StoreInv, TypeInv, TypeOK, Pools, DurableRecord, Durable
<1>2. CASE UNCHANGED bucket
  BY <1>1, <1>2, SameDurable DEF bucket
<1>3. CASE DelByIP
  <2> DEFINE ip == pool.offset
  <2>1. /\ fwd'[h] = (IF h = rev[ip] THEN NoIP ELSE fwd[h]) /\ UNCHANGED saved
        /\ kept'[h] = (IF kept[h] = ip THEN NoIP ELSE kept[h])
        /\ \A i \in IPs : rev'[i] = IF i = ip THEN NoHost ELSE rev[i]
    BY <1>1, <1>3 DEF DelByIP, Reused, TypeOK
  <2>2. CASE kept[h] = ip
    BY <1>1, <2>1, <2>2 DEF StaysDurable
  <2>3. CASE kept[h] # ip
    <3>1. rev[ip] # h
      BY <1>1, <2>3
    <3>2. fwd'[h] = kept[h] /\ saved' # NoIP
      BY <1>1, <2>1, <3>1
    <3>3. \A i \in IPs : rev'[i] = h => fwd'[h] = i
      BY <1>1, <2>1, <3>1, StoreAssumption
    <3>4. QED
      BY <3>2, <3>3 DEF StaysDurable, Durable
  <2>4. QED
    BY <2>2, <2>3
<1>4. CASE PutByIP
  <2>1. /\ op.pc = "putIP" /\ UNCHANGED <<fwd, saved, kept>>
        /\ \A i \in IPs : rev'[i] = IF i = pool.offset THEN op.host ELSE rev[i]
    BY <1>1, <1>4 DEF PutByIP, TypeOK
  <2>2. op.host # h
    BY <1>1, <2>1 DEF LookupInv
  <2>3. \A i \in IPs : rev'[i] = h => fwd'[h] = i
    BY <1>1, <2>1, <2>2
  <2>4. QED
    BY <1>1, <2>1, <2>3 DEF StaysDurable, Durable
<1>5. CASE PutByHost
  <2>1. op.pc = "putHost" /\ UNCHANGED <<rev, saved>>
    BY <1>5 DEF PutByHost
  <2>2. op.host # h
    BY <1>1, <2>1 DEF LookupInv
  <2>3. fwd'[h] = fwd[h]
    BY <1>1, <1>5, <2>2 DEF PutByHost, TypeOK
  <2>4. QED
    BY <1>1, <2>1, <2>3 DEF StaysDurable, Durable
<1>6. CASE FlushFakeIP
  BY <1>1, <1>6 DEF FlushFakeIP, NoRecords, StaysDurable
<1>7. CASE StoreState
  <2>1. UNCHANGED <<rev, fwd>> /\ saved' # NoIP
    BY <1>1, <1>7, StoreAssumption DEF StoreState
  <2>2. QED
    BY <2>1, SameDurable
<1>8. CASE StoreCycle
  BY <1>1, <1>8, SameDurable DEF StoreCycle
<1>9. ASSUME NEW r \in Ranges, Start(r) PROVE StaysDurable(h)
  BY <1>9, RestoreStateDurable DEF Start
<1>10. ASSUME NEW r \in Ranges, ReloadParse(r) PROVE StaysDurable(h)
  BY <1>10, RestoreStateDurable DEF ReloadParse
<1>11. ASSUME NEW k \in Hosts, Lookup(k) PROVE UNCHANGED bucket
  BY <1>11 DEF Lookup
<1>12. CASE Advance \/ Exist \/ Return \/ ResetCounter \/ Crash \/ ReloadApply
            \/ UNCHANGED vars
  <2>1. UNCHANGED bucket
    BY <1>12 DEF Advance, Exist, Return, ResetCounter, Crash, ReloadApply, vars
  <2>2. QED
    BY <1>2, <2>1
<1>13. QED
  BY <1>2, <1>3, <1>4, <1>5, <1>6, <1>7, <1>8, <1>9, <1>10, <1>11, <1>12
  DEF Next, LookupNext, ProcessNext

(***************************************************************************)
(* If nothing overlaps a Lookup, then through any crashes, restarts,       *)
(* reloads and ranges a record stays until its address is reused, the pool *)
(* is flushed or the range changes, once a Shutdown has stored the state   *)
(* and unless a crash left another reverse record of its host behind       *)
(* (pool.go, StoreState, restoreState and get).                            *)
(***************************************************************************)
THEOREM DurableRecordsKept == "overlap" \notin Events => (Spec => DurableKept)
<1> SUFFICES ASSUME "overlap" \notin Events PROVE Spec => DurableKept
  OBVIOUS
<1> DEFINE A == \A h \in Hosts : kept[h] # NoIP /\ fwd[h] = kept[h] /\ Durable(h) =>
                   \/ kept'[h] # kept[h]
                   \/ fwd'[h] = kept[h] /\ Durable(h)'
<1>1. StoreInv /\ SavedInv /\ [Next]_vars => A
  BY NextDurable DEF DurableRecord, StaysDurable
<1>2. StoreInv /\ SavedInv /\ [Next]_vars => [A]_vars
  BY <1>1
<1>3. Spec => []StoreInv
  BY StoreInvariant
<1>4. QED
  BY <1>2, <1>3, SavedInvariant, PTL DEF Spec, DurableKept

-----------------------------------------------------------------------------
(***************************************************************************)
(* The address that a Lookup is about to record lies inside the prefix of  *)
(* its pool: get moves at least one above the network address and wraps    *)
(* before the broadcast address, from any offset of the prefix.            *)
(***************************************************************************)
Inside(r) == r.lo + 1 .. r.hi - 1
InsideInv ==
    /\ phase = "down" => op.pc = "idle"
    /\ op.pc \in {"exist", "del", "putIP", "return"} => pool.offset \in Inside(pool.range)
    /\ op.pc = "putHost" => op.ip \in Inside(pool.range)

LEMMA NextInside ==
    ASSUME TypeInv, InsideInv, [Next]_vars
    PROVE  InsideInv'
<1>1. /\ TypeOK /\ pool \in Pools /\ pool.range \in Ranges /\ OffsetIn(pool)
      /\ pool.range.lo \in Nat /\ pool.range.hi \in Nat
      /\ pool.range.lo + 4 < pool.range.hi
  BY StoreAssumption DEF TypeInv, TypeOK, OffsetInv, Pools
<1>2. CASE op'.pc = "idle"
  BY <1>2 DEF InsideInv
<1>3. ASSUME NEW h \in Hosts, Lookup(h) PROVE InsideInv'
  BY <1>3 DEF Lookup, Idle, InsideInv
<1>4. CASE Advance
  <2> DEFINE wrap == pool.offset + 1 >= pool.range.hi
             o == IF wrap THEN FirstOf(pool.range) ELSE pool.offset + 1
  <2>1. pool'.range = pool.range /\ pool'.offset = o
    BY <1>1, <1>4 DEF Advance, Pools
  <2>2. o \in Inside(pool.range)
    BY <1>1 DEF OffsetIn, Inside, FirstOf
  <2>3. op.pc = "advance" /\ op'.pc = "exist" /\ UNCHANGED phase
    BY <1>1, <1>4 DEF Advance, Goto, TypeOK
  <2> HIDE DEF o
  <2>4. QED
    BY <2>1, <2>2, <2>3 DEF InsideInv
<1>5. CASE Exist \/ DelByIP \/ PutByIP
  <2>1. /\ op.pc \in {"exist", "del", "putIP"} /\ op'.pc \in {"del", "putIP", "return"}
        /\ UNCHANGED <<pool, phase>>
    BY <1>1, <1>5 DEF Exist, DelByIP, PutByIP, Goto, TypeOK
  <2>2. QED
    BY <2>1 DEF InsideInv
<1>6. CASE Return
  <2>1. /\ op.pc = "return" /\ op'.pc = "putHost" /\ op'.ip = pool.offset
        /\ UNCHANGED <<pool, phase>>
    BY <1>1, <1>6 DEF Return, TypeOK
  <2>2. QED
    BY <2>1 DEF InsideInv
<1>7. CASE PutByHost \/ StoreCycle \/ Crash
  BY <1>2, <1>7 DEF PutByHost, StoreCycle, Crash, Idle
<1>8. CASE FlushFakeIP
  BY <1>8 DEF FlushFakeIP, InsideInv
<1>9. CASE ResetCounter
  <2>1. /\ UNCHANGED op /\ phase' = "run" /\ pool'.range = pool.range
        /\ pool'.offset = FirstOf(pool.range) - 1
    BY <1>9 DEF ResetCounter, EmptyPool
  <2>2. FirstOf(pool.range) - 1 \in Inside(pool.range)
    BY <1>1 DEF FirstOf, Inside
  <2>3. QED
    BY <2>1, <2>2 DEF InsideInv
<1>10. CASE StoreState
  <2>1. UNCHANGED pool /\ (op'.pc = "idle" \/ (UNCHANGED op /\ phase' = "storeCycle"))
    BY <1>10 DEF StoreState, Idle
  <2>2. QED
    BY <1>2, <2>1 DEF InsideInv
<1>11. ASSUME NEW r \in Ranges, Start(r) PROVE InsideInv'
  BY <1>2, <1>11 DEF Start, InsideInv
<1>12. ASSUME NEW r \in Ranges, ReloadParse(r) PROVE InsideInv'
  BY <1>12 DEF ReloadParse, InsideInv
<1>13. CASE ReloadApply
  BY <1>2, <1>13 DEF ReloadApply
<1>14. CASE UNCHANGED vars
  BY <1>14 DEF vars, InsideInv
<1>15. QED
  BY <1>3, <1>4, <1>5, <1>6, <1>7, <1>8, <1>9, <1>10, <1>11, <1>12, <1>13, <1>14
  DEF Next, LookupNext, ProcessNext

(***************************************************************************)
(* Whatever overlaps, crashes or reloads, and whatever the ranges are, a   *)
(* Lookup assigns only addresses between the network and the broadcast     *)
(* address of the serving pool's prefix (pool.go, get and restoreState).   *)
(***************************************************************************)
THEOREM AssignsInsideRange == Spec => AssignsInRange
<1> DEFINE A == \A h \in Hosts : fwd'[h] \in {NoIP, fwd[h]}
                   \cup (pool.range.lo + 1 .. pool.range.hi - 1)
<1>1. Init => InsideInv
  BY DEF Init, InsideInv, Idle
<1>2. TypeInv /\ InsideInv /\ [Next]_vars => InsideInv'
  BY NextInside
<1>3. TypeInv /\ InsideInv /\ [Next]_vars => A
  <2> SUFFICES ASSUME TypeInv, InsideInv, [Next]_vars, NEW h \in Hosts
               PROVE  fwd'[h] \in {NoIP, fwd[h]} \cup Inside(pool.range)
    BY DEF Inside
  <2>1. CASE PutByHost
    <3>1. op.ip \in Inside(pool.range) /\ fwd'[h] \in {op.ip, fwd[h]}
      BY <2>1 DEF PutByHost, InsideInv, TypeInv, TypeOK
    <3>2. QED
      BY <3>1
  <2>2. CASE DelByIP
    BY <2>2 DEF DelByIP
  <2>3. CASE DeleteBucket
    BY <2>3 DEF DeleteBucket, NoRecords
  <2>4. CASE UNCHANGED fwd
    BY <2>4
  <2>5. DelByIP \/ PutByHost \/ DeleteBucket \/ UNCHANGED fwd
    BY RecordChanges
  <2>6. QED
    BY <2>1, <2>2, <2>3, <2>4, <2>5
<1>4. TypeInv /\ InsideInv /\ [Next]_vars => [A]_vars
  BY <1>3
<1>5. QED
  BY <1>1, <1>2, <1>4, TypeInvariant, PTL DEF Spec, AssignsInRange
=============================================================================
