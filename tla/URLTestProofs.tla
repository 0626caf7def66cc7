--------------------------- MODULE URLTestProofs ---------------------------
(***************************************************************************)
(* Theorems about URLTest, for any number of callers, any lists and any    *)
(* number of Resets: the values of the group are well typed, and singledo  *)
(* serves fresh results only.                                              *)
(***************************************************************************)
EXTENDS URLTest, WellFoundedInduction, TLAPS

-----------------------------------------------------------------------------
(* Lists and the fastest proxy.                                            *)

(* Every set of naturals that is not empty has a least element. *)
LEMMA LeastNatural ==
  ASSUME NEW S \in SUBSET Nat, S # {}
  PROVE  \E x \in S : \A y \in S : x <= y
<1>1. PICK x \in S : \A y \in S : ~(<<y, x>> \in OpToRel(<, Nat))
  BY NatLessThanWellFounded, WFMin
<1>2. \A y \in S : <<y, x>> \in Nat \X Nat
  OBVIOUS
<1>3. \A y \in S : ~(y < x)
  BY <1>1, <1>2 DEF OpToRel
<1> QED BY <1>3

(* The list of a generation consists of the objects of that generation. *)
LEMMA ListOfType ==
  ASSUME NEW g \in DOMAIN Lists
  PROVE  ListOf(g) \in Seq(Objects)
<1>1. Lists[g] \in Seq(Names)
  BY GroupAssumption
<1>2. \A i \in DOMAIN Lists[g] : <<Lists[g][i], g>> \in Objects
  BY <1>1 DEF Objects, Listed, Range
<1>3. DOMAIN Lists[g] = 1..Len(Lists[g]) /\ Len(Lists[g]) \in Nat
  BY <1>1
<1> QED BY <1>2, <1>3 DEF ListOf

(* 0xffff is a natural number; its bytes keep the numeral small for the provers. *)
LEMMA MaxDelayType == MaxDelay \in Nat
<1>1. ByteValues \in Nat /\ ByteValues >= 1
  BY DEF ByteValues
<1>2. ByteValues * ByteValues \in Nat /\ ByteValues * ByteValues >= 1
  BY <1>1
<1> QED BY <1>2 DEF MaxDelay

(* A delay is a natural number. *)
LEMMA DelayType ==
  ASSUME state \in [Objects -> 0..MaxDelay], NEW o \in Objects
  PROVE  LastDelayForTestUrl(o) \in Nat
<1>1. MaxDelay \in Nat
  BY MaxDelayType
<1>2. state[o] \in Nat
  BY <1>1
<1> QED BY <1>1, <1>2 DEF LastDelayForTestUrl, AliveForTestUrl

(* The loop of fast has a fastest proxy in every list that is not empty. *)
LEMMA FastestType ==
  ASSUME NEW list \in Seq(Objects), list # <<>>, state \in [Objects -> 0..MaxDelay]
  PROVE  Fastest(list) \in Objects
<1> DEFINE
     D(i) == LastDelayForTestUrl(list[i])
     alive == {i \in DOMAIN list : i = 1 \/ AliveForTestUrl(list[i])}
     best == {i \in DOMAIN list :
                   /\ i = 1 \/ AliveForTestUrl(list[i])
                   /\ \A j \in DOMAIN list : AliveForTestUrl(list[j]) =>
                        LastDelayForTestUrl(list[i]) <= LastDelayForTestUrl(list[j])}
<1>1. 1 \in DOMAIN list /\ DOMAIN list \subseteq Nat
  OBVIOUS
<1>2. \A i \in DOMAIN list : D(i) \in Nat
  <2>1. \A i \in DOMAIN list : list[i] \in Objects
    OBVIOUS
  <2>2. \A o \in Objects : LastDelayForTestUrl(o) \in Nat
    BY DelayType
  <2> QED BY <2>1, <2>2
<1>3. PICK m \in alive : \A j \in alive : D(m) <= D(j)
  <2> DEFINE ds == {D(i) : i \in alive}
  <2>1. ds \in SUBSET Nat /\ ds # {}
    BY <1>1, <1>2
  <2>2. PICK x \in ds : \A y \in ds : x <= y
    BY <2>1, LeastNatural
  <2>3. PICK m \in alive : x = D(m)
    BY <2>2
  <2> QED BY <2>2, <2>3
<1>4. m \in best
  BY <1>3
<1>5. best \in SUBSET Nat /\ best # {}
  BY <1>1, <1>4
<1>6. \E i \in best : \A j \in best : i <= j
  BY <1>5, LeastNatural
<1> HIDE DEF best
<1>7. (CHOOSE i \in best : \A j \in best : i <= j) \in best
  BY <1>6
<1>8. best \subseteq DOMAIN list
  BY DEF best
<1>9. Fastest(list) = list[CHOOSE i \in best : \A j \in best : i <= j]
  BY DEF Fastest, best
<1> QED BY <1>7, <1>8, <1>9

-----------------------------------------------------------------------------
(* Types.                                                                  *)

\* A proxy list that fast indexes is never empty.
ListsFilled ==
    /\ cache.version # None => cache.list # <<>>
    /\ \A c \in Callers : pc[c] \in {"selected", "scan"} => run[c].list # <<>>

\* What fn leaves in its locals for Do.
ValueTyped ==
    \A c \in Callers : pc[c] \in {"done", "store"} => run[c].val \in Objects \cup {None}

TypeInv == TypeOK /\ ListsFilled /\ ValueTyped

(* What Do hands on is a value. *)
LEMMA ValueOfType ==
  ASSUME TypeInv, NEW c \in Callers, pc[c] \in {"done", "store"}
  PROVE  ValueOf(c) \in Value
BY DEF TypeInv, TypeOK, ValueTyped, ValueOf, Run, Value

(* The empty values have their types. *)
LEMMA EmptyTypes == NoValue \in Value /\ NoRun \in Run
<1>1. <<>> \in Seq(Objects)
  OBVIOUS
<1> QED BY <1>1 DEF NoValue, NoRun, Value, Run

(* The steps of singledo keep the types. *)
LEMMA DoTypes ==
  ASSUME TypeInv, NEW c \in Callers,
         DoCached(c) \/ DoWait(c) \/ DoCall(c) \/ Done(c) \/ Store(c) \/ Return(c)
  PROVE  TypeInv'
<1> USE DEF TypeInv, TypeOK, ListsFilled, ValueTyped, PCs,
            singleVars, groupVars, proxyVars
<1>1. CASE DoCached(c)
  BY <1>1 DEF DoCached
<1>2. CASE DoWait(c)
  <2>1. [NoRun EXCEPT !.val = call] \in Run
    BY <1>2, EmptyTypes DEF DoWait, Run
  <2>2. pc[call] = "store" => ValueOf(call) \in Value
    BY <1>2, ValueOfType DEF DoWait
  <2>3. CASE pc[call] = "store"
    <3>1. /\ pc' = [pc EXCEPT ![c] = "returned"]
          /\ got' = [got EXCEPT ![c] = ValueOf(call)]
          /\ UNCHANGED run
      BY <1>2, <2>3 DEF DoWait
    <3> HIDE DEF NoRun
    <3> QED BY <1>2, <2>2, <2>3, <3>1, EmptyTypes, GroupAssumption, SMTT(30) DEF DoWait
  <2>4. CASE pc[call] # "store"
    <3>1. /\ pc' = [pc EXCEPT ![c] = "wait"]
          /\ run' = [run EXCEPT ![c] = [NoRun EXCEPT !.val = call]]
      BY <1>2, <2>4 DEF DoWait
    <3> HIDE DEF NoRun
    <3> QED BY <1>2, <2>1, <3>1, EmptyTypes, GroupAssumption DEF DoWait
  <2> QED BY <2>3, <2>4
<1>3. CASE DoCall(c)
  <2>1. resets \in Nat
    BY GroupAssumption
  <2>2. [NoRun EXCEPT !.at = resets] \in Run
    BY <2>1, EmptyTypes DEF Run
  <2> QED BY <1>3, <2>1, <2>2, EmptyTypes DEF DoCall
<1>4. CASE Done(c)
  <2>1. ValueOf(c) \in Value
    BY <1>4, ValueOfType DEF Done
  <2> QED BY <1>4, <2>1, EmptyTypes DEF Done
<1>5. CASE Store(c)
  <2>1. ValueOf(c) \in Value
    BY <1>5, ValueOfType DEF Store
  <2> QED BY <1>5, <2>1, EmptyTypes DEF Store
<1>6. CASE Return(c)
  BY <1>6, EmptyTypes DEF Return
<1> QED BY <1>1, <1>2, <1>3, <1>4, <1>5, <1>6

(* The steps of the function of fast keep the types. *)
LEMMA FnTypes ==
  ASSUME TypeInv, NEW c \in Callers,
         \/ ReadVersion(c) \/ GetProxies(c) \/ PickSelected(c)
         \/ Scan(c) \/ Decide(c) \/ ReadNode(c)
  PROVE  TypeInv'
<1> USE DEF TypeInv, TypeOK, ListsFilled, ValueTyped, PCs,
            singleVars, groupVars, proxyVars
<1>0. run[c] \in Run
  OBVIOUS
<1>1. CASE ReadVersion(c)
  <2>1. [run[c] EXCEPT !.version = version] \in Run
    BY <1>0 DEF Run
  <2> QED BY <1>1, <2>1 DEF ReadVersion
<1>2. CASE GetProxies(c)
  <2>1. \A l \in Seq(Objects) : [run[c] EXCEPT !.list = l, !.version = 0] \in Run
    BY <1>0 DEF Run
  <2>2. ListOf(generation) \in Seq(Objects) /\ <<EmptyFallback>> \in Seq(Objects)
    BY ListOfType DEF EmptyFallback, Objects
  <2>3. <<EmptyFallback>> # <<>>
    OBVIOUS
  <2>4. run[c].version \in Nat /\ run[c].version # None
    BY <1>0, GroupAssumption DEF Run
  <2>5. \E l \in Seq(Objects) :
          /\ l # <<>>
          /\ run' = [run EXCEPT ![c] = [run[c] EXCEPT !.list = l, !.version = 0]]
          /\ cache' \in {cache, [version |-> run[c].version, list |-> l]}
    BY <1>2, <2>2, <2>3, <2>4, ZenonT(60) DEF GetProxies
  <2>6. PICK l \in Seq(Objects) :
          /\ l # <<>>
          /\ run' = [run EXCEPT ![c] = [run[c] EXCEPT !.list = l, !.version = 0]]
          /\ cache' \in {cache, [version |-> run[c].version, list |-> l]}
    BY <2>5
  <2>7. cache' \in [version : Nat \cup {None}, list : Seq(Objects)]
        /\ (cache'.version # None => cache'.list # <<>>)
    BY <2>4, <2>6
  <2>8. run' \in [Callers -> Run] /\ run'[c].list # <<>>
        /\ \A d \in Callers \ {c} : run'[d] = run[d]
    BY <2>1, <2>6, <1>0 DEF Run
  <2>9. pc' = [pc EXCEPT ![c] = "selected"]
        /\ UNCHANGED <<singleVars, groupVars, generation, version, state, got, started>>
    BY <1>2 DEF GetProxies
  <2> QED BY <2>7, <2>8, <2>9
<1>3. CASE PickSelected(c)
  <2>1. \A o \in Objects : [run[c] EXCEPT !.sel = selected, !.val = o] \in Run
    BY <1>0 DEF Run
  <2>2. [run[c] EXCEPT !.sel = selected] \in Run
    BY <1>0 DEF Run
  <2>3. Range(run[c].list) \subseteq Objects
    BY <1>0 DEF Run, Range
  <2>4. CASE /\ run' = [run EXCEPT ![c].sel = selected]
             /\ pc' = [pc EXCEPT ![c] = "scan"]
             /\ UNCHANGED fastNode
    <3>1. run[c].list # <<>> /\ [run[c] EXCEPT !.sel = selected].list = run[c].list
      BY <1>3, <1>0 DEF PickSelected, Run
    <3> QED BY <1>3, <2>2, <2>4, <3>1 DEF PickSelected
  <2>5. ASSUME NEW o \in Range(run[c].list),
               run' = [run EXCEPT ![c].sel = selected, ![c].val = o],
               pc' = [pc EXCEPT ![c] = "done"], fastNode' = o
        PROVE  TypeInv'
    <3>1. [run[c] EXCEPT !.sel = selected, !.val = o].val = o
      BY <1>0 DEF Run
    <3> QED BY <1>3, <2>1, <2>3, <2>5, <3>1, ZenonT(60) DEF PickSelected
  <2> QED BY <1>3, <2>4, <2>5 DEF PickSelected
<1>4. CASE Scan(c)
  <2>1. Fastest(run[c].list) \in Objects
    BY <1>4, <1>0, FastestType DEF Scan, Run
  <2>2. \A f \in Objects, b \in BOOLEAN : [run[c] EXCEPT !.fast = f, !.notExist = b] \in Run
    BY <1>0 DEF Run
  <2>3. \E f \in Objects, b \in BOOLEAN :
           run' = [run EXCEPT ![c] = [run[c] EXCEPT !.fast = f, !.notExist = b]]
    BY <1>4, <2>1 DEF Scan
  <2> QED BY <1>4, <2>2, <2>3, ZenonT(60) DEF Scan
<1>5. CASE Decide(c)
  <2>1. fastNode' \in Objects \cup {None}
    BY <1>5, <1>0 DEF Decide, Run
  <2> QED BY <1>5, <2>1 DEF Decide
<1>6. CASE ReadNode(c)
  <2>1. [run[c] EXCEPT !.val = fastNode, !.fast = None, !.notExist = TRUE] \in Run
    BY <1>0 DEF Run
  <2>2. [run[c] EXCEPT !.val = fastNode, !.fast = None, !.notExist = TRUE].val = fastNode
    BY <1>0 DEF Run
  <2> QED BY <1>6, <2>1, <2>2 DEF ReadNode
<1> QED BY <1>1, <1>2, <1>3, <1>4, <1>5, <1>6

(* The other goroutines keep the types. *)
LEMMA GroupTypes ==
  ASSUME TypeInv,
         \/ \E name \in Names \cup {None} : ForceSet(name)
         \/ SetReset \/ CheckBegin \/ CheckEnd
         \/ \E o \in Listed, d \in TestResults : RecordTest(o, d)
         \/ setProxies
  PROVE  TypeInv'
<1> USE DEF TypeInv, TypeOK, ListsFilled, ValueTyped,
            singleVars, groupVars, proxyVars, callerVars
<1>1. CASE \E name \in Names \cup {None} : ForceSet(name)
  BY <1>1 DEF ForceSet
<1>2. CASE SetReset \/ CheckBegin \/ CheckEnd
  <2>1. resets' \in 0..MaxResets /\ call' = None /\ result' = NoValue
    BY <1>2, GroupAssumption DEF SetReset, CheckBegin, CheckEnd, Reset
  <2> QED BY <1>2, <2>1, EmptyTypes DEF SetReset, CheckBegin, CheckEnd
<1>3. CASE \E o \in Listed, d \in TestResults : RecordTest(o, d)
  BY <1>3, GroupAssumption DEF RecordTest, Objects
<1>4. CASE setProxies
  <2>1. generation' \in DOMAIN Lists
    BY <1>4, GroupAssumption DEF setProxies
  <2> QED BY <1>4, <2>1 DEF setProxies
<1> QED BY <1>1, <1>2, <1>3, <1>4

(* The initial state has the types. *)
LEMMA InitTypes == Init => TypeInv
<1> SUFFICES ASSUME Init PROVE TypeInv
  OBVIOUS
<1>1. 1 \in DOMAIN Lists
  BY GroupAssumption
<1>2. <<>> \in Seq(Objects)
  OBVIOUS
<1>3. cache \in [version : Nat \cup {None}, list : Seq(Objects)]
  BY <1>2 DEF Init
<1>4. state \in [Objects -> 0..MaxDelay]
  BY MaxDelayType DEF Init
<1> QED BY <1>1, <1>3, <1>4, EmptyTypes, GroupAssumption
        DEF Init, TypeInv, TypeOK, ListsFilled, ValueTyped, PCs

(* Every step keeps the types. *)
LEMMA TypeStep == TypeInv /\ [Next]_vars => TypeInv'
<1> SUFFICES ASSUME TypeInv, [Next]_vars PROVE TypeInv'
  OBVIOUS
<1>1. CASE \E c \in Callers : Fast(c)
  BY <1>1, DoTypes, FnTypes DEF Fast
<1>2. CASE UNCHANGED vars
  BY <1>2 DEF vars, singleVars, groupVars, proxyVars, callerVars, TypeInv, TypeOK,
              ListsFilled, ValueTyped
<1> QED BY <1>1, <1>2, GroupTypes DEF Next

(* Type correctness of the url-test group: delays stay within a uint16, and the
   fast node and what Do hands on are proxies of some list (urltest.go, fast). *)
THEOREM TypeCorrect == Spec => []TypeOK
<1>1. Spec => []TypeInv
  BY InitTypes, TypeStep, PTL DEF Spec
<1>2. TypeInv => TypeOK
  BY DEF TypeInv
<1> QED BY <1>1, <1>2, PTL

-----------------------------------------------------------------------------
(* The inductive invariant of singledo.                                    *)

Past == {"scan", "decide", "node", "done", "store"}

\* The call in Single.call and the result in Single.result began after the last
\* Reset, and a function that began after it and is not over is that call.
CallInv ==
    /\ call # None => pc[call] \in InFn /\ run[call].at = resets
    /\ result # NoValue => result.at = resets
    /\ \A c \in Callers :
         pc[c] \in InFn \ {"store"} /\ run[c].at = resets => call = c

\* No caller has to do with a call that began before its own Do.
AgeInv ==
    \A c \in Callers :
        /\ started[c] <= resets
        /\ pc[c] \in InFn => started[c] <= run[c].at /\ run[c].at <= resets
        /\ pc[c] = "wait" => /\ run[c].val \in Callers
                             /\ pc[run[c].val] \in InFn \ {"store"}
                             /\ started[c] <= run[run[c].val].at
        /\ pc[c] \in {"returned", "store"} =>
              started[c] <= got[c].at /\ got[c].at <= resets

\* What began after the last Reset, with no ForceSet under way, knows the
\* selection.
SelectionInv ==
    setter = "idle" =>
        /\ result # NoValue => result.sel = selected
        /\ \A c \in Callers :
            /\ pc[c] \in Past /\ run[c].at = resets => run[c].sel = selected
            /\ pc[c] \in {"returned", "store"} /\ got[c].at = resets =>
                  got[c].sel = selected

\* Versions only grow.
VersionInv ==
    /\ cache.version # None => cache.version <= version
    /\ \A c \in Callers : pc[c] = "list" => run[c].version <= version
    /\ CacheCurrent

SingleInv == CallInv /\ AgeInv /\ SingleFlight /\ SelectionInv

\* What a step of the function of c looks like to singledo.
FnStep(c) ==
    /\ UNCHANGED <<singleVars, selected, setter, got, started>>
    /\ pc[c] \in InFn \ {"store"} /\ pc'[c] \in InFn \ {"store"}
    /\ \A d \in Callers \ {c} : pc'[d] = pc[d] /\ run'[d] = run[d]
    /\ run'[c].at = run[c].at
    /\ pc'[c] \in Past => run'[c].sel = IF pc[c] \in Past THEN run[c].sel ELSE selected

(* The steps of the function of fast are such steps. *)
LEMMA FnSteps ==
  ASSUME TypeOK, NEW c \in Callers,
         \/ ReadVersion(c) \/ GetProxies(c) \/ PickSelected(c)
         \/ Scan(c) \/ Decide(c) \/ ReadNode(c)
  PROVE  FnStep(c)
<1>0. run[c] \in Run /\ pc \in [Callers -> PCs] /\ run \in [Callers -> Run]
  BY DEF TypeOK
<1> USE DEF FnStep, InFn, Past, singleVars, groupVars, proxyVars
<1>1. CASE ReadVersion(c)
  BY <1>0, <1>1 DEF ReadVersion, Run
<1>2. CASE GetProxies(c)
  BY <1>0, <1>2 DEF GetProxies, Run
<1>3. CASE PickSelected(c)
  BY <1>0, <1>3 DEF PickSelected, Run
<1>4. CASE Scan(c)
  BY <1>0, <1>4 DEF Scan, Run
<1>5. CASE Decide(c)
  BY <1>0, <1>5 DEF Decide, Run
<1>6. CASE ReadNode(c)
  BY <1>0, <1>6 DEF ReadNode, Run
<1> QED BY <1>1, <1>2, <1>3, <1>4, <1>5, <1>6

(* A step of the function keeps the invariant of singledo. *)
LEMMA FnSingle ==
  ASSUME TypeOK, SingleInv, NEW c \in Callers, FnStep(c)
  PROVE  SingleInv'
<1>0. pc \in [Callers -> PCs] /\ run \in [Callers -> Run] /\ call \in Callers \cup {None}
  BY DEF TypeOK
<1>1. CallInv'
  BY <1>0, GroupAssumption DEF FnStep, SingleInv, CallInv, singleVars
<1>2. AgeInv'
  BY DEF FnStep, SingleInv, AgeInv, singleVars, InFn
<1>3. SingleFlight'
  BY DEF FnStep, SingleInv, SingleFlight, singleVars, InFn
<1>4. SelectionInv'
  BY DEF FnStep, SingleInv, SelectionInv, singleVars, InFn, Past
<1> QED BY <1>1, <1>2, <1>3, <1>4 DEF SingleInv

(* The steps of Do keep the invariant of singledo. *)
LEMMA DoSingle ==
  ASSUME TypeInv, SingleInv, NEW c \in Callers,
         DoCached(c) \/ DoWait(c) \/ DoCall(c) \/ Done(c) \/ Store(c) \/ Return(c)
  PROVE  SingleInv'
<1> USE DEF SingleInv
<1>a. /\ pc \in [Callers -> PCs] /\ run \in [Callers -> Run]
      /\ got \in [Callers -> Value] /\ started \in [Callers -> Nat]
      /\ call \in Callers \cup {None} /\ result \in Value /\ resets \in 0..MaxResets
  BY DEF TypeInv, TypeOK
<1>b. resets \in Nat
  BY <1>a, GroupAssumption
<1>0. /\ pc \in [Callers -> PCs] /\ run \in [Callers -> Run]
      /\ got \in [Callers -> Value] /\ started \in [Callers -> Nat]
      /\ call \in Callers \cup {None} /\ result \in Value /\ resets \in Nat
  BY <1>a, <1>b
<1>1. CASE DoCached(c)
  <2> USE <1>0, <1>1 DEF DoCached, singleVars, groupVars, proxyVars, InFn, Past
  <2>1. CallInv' BY GroupAssumption DEF CallInv
  <2>2. AgeInv' BY DEF AgeInv, CallInv, Value
  <2>3. SingleFlight' BY DEF SingleFlight
  <2>4. SelectionInv' BY DEF SelectionInv, CallInv
  <2> QED BY <2>1, <2>2, <2>3, <2>4
<1>2. CASE DoWait(c)
  <2> USE DEF singleVars, groupVars, proxyVars, InFn, Past
  <2>0. /\ call \in Callers /\ pc[c] = "idle" /\ pc[call] \in InFn /\ run[call].at = resets
        /\ call # c
    BY <1>0, <1>2 DEF DoWait, CallInv
  <2>1. CASE pc[call] = "store"
    <3>1. /\ pc' = [pc EXCEPT ![c] = "returned"] /\ run' = run
          /\ got' = [got EXCEPT ![c] = ValueOf(call)]
          /\ started' = [started EXCEPT ![c] = resets]
          /\ result' = NoValue /\ UNCHANGED <<call, resets, setter, selected>>
      BY <1>2, <2>1 DEF DoWait
    <3>2. ValueOf(call).at = resets
          /\ (setter = "idle" => ValueOf(call).sel = selected)
      BY <2>0, <2>1 DEF ValueOf, SelectionInv
    <3>3. CallInv' BY <1>0, <2>0, <3>1, GroupAssumption DEF CallInv
    <3>4. AgeInv' BY <1>0, <2>0, <3>1, <3>2 DEF AgeInv
    <3>5. SingleFlight' BY <1>0, <2>0, <3>1 DEF SingleFlight
    <3>6. SelectionInv' BY <1>0, <2>0, <3>1, <3>2 DEF SelectionInv
    <3> QED BY <3>3, <3>4, <3>5, <3>6
  <2>2. CASE pc[call] # "store"
    <3>1. /\ pc' = [pc EXCEPT ![c] = "wait"] /\ got' = got
          /\ run' = [run EXCEPT ![c] = [NoRun EXCEPT !.val = call]]
          /\ started' = [started EXCEPT ![c] = resets]
          /\ result' = NoValue /\ UNCHANGED <<call, resets, setter, selected>>
      BY <1>2, <2>2 DEF DoWait
    <3>2. run'[c].val = call /\ \A d \in Callers \ {c} : run'[d] = run[d]
      BY <1>0, <3>1 DEF NoRun
    <3>3. CallInv' BY <1>0, <2>0, <3>1, <3>2, GroupAssumption DEF CallInv
    <3>4. AgeInv' BY <1>0, <2>0, <2>2, <3>1, <3>2 DEF AgeInv
    <3>5. SingleFlight' BY <1>0, <2>0, <3>1, <3>2 DEF SingleFlight
    <3>6. SelectionInv' BY <1>0, <2>0, <3>1, <3>2 DEF SelectionInv
    <3> QED BY <3>3, <3>4, <3>5, <3>6
  <2> QED BY <2>1, <2>2
<1>3. CASE DoCall(c)
  <2> USE DEF singleVars, groupVars, proxyVars, InFn, Past
  <2>1. /\ pc[c] = "idle" /\ call = None
        /\ pc' = [pc EXCEPT ![c] = "version"] /\ got' = got
        /\ run' = [run EXCEPT ![c] = [NoRun EXCEPT !.at = resets]]
        /\ started' = [started EXCEPT ![c] = resets]
        /\ result' = NoValue /\ call' = c /\ UNCHANGED <<resets, setter, selected>>
    BY <1>3 DEF DoCall
  <2>2. run'[c].at = resets /\ \A d \in Callers \ {c} : run'[d] = run[d]
    BY <1>0, <2>1 DEF NoRun
  <2>3. \A d \in Callers : pc[d] \in InFn \ {"store"} => run[d].at # resets
    BY <2>1, GroupAssumption DEF CallInv
  <2>4. CallInv' BY <1>0, <2>1, <2>2, <2>3, GroupAssumption DEF CallInv
  <2>5. AgeInv' BY <1>0, <2>1, <2>2 DEF AgeInv
  <2>6. SingleFlight' BY <1>0, <2>1, <2>2, <2>3 DEF SingleFlight
  <2>7. SelectionInv' BY <1>0, <2>1, <2>2 DEF SelectionInv
  <2> QED BY <2>4, <2>5, <2>6, <2>7
<1>4. CASE Done(c)
  <2> USE DEF singleVars, groupVars, proxyVars, InFn, Past
  <2> DEFINE waiters == {w \in Callers : pc[w] = "wait" /\ run[w].val = c}
  <2>1. /\ pc[c] = "done" /\ UNCHANGED <<call, result, resets, started, setter, selected>>
        /\ pc'[c] = "store" /\ got'[c] = ValueOf(c) /\ run'[c] = run[c]
        /\ \A w \in waiters : pc'[w] = "returned" /\ got'[w] = ValueOf(c)
        /\ \A w \in Callers \ (waiters \cup {c}) :
              pc'[w] = pc[w] /\ got'[w] = got[w] /\ run'[w] = run[w]
    BY <1>0, <1>4 DEF Done
  <2>2. ValueOf(c).at = run[c].at /\ ValueOf(c).sel = run[c].sel
    BY DEF ValueOf
  <2>3. CallInv' BY <1>0, <2>1, GroupAssumption DEF CallInv
  <2>4. AgeInv' BY <1>0, <2>1, <2>2 DEF AgeInv
  <2>5. SingleFlight' BY <1>0, <2>1 DEF SingleFlight
  <2>6. SelectionInv' BY <1>0, <2>1, <2>2 DEF SelectionInv
  <2> QED BY <2>3, <2>4, <2>5, <2>6
<1>5. CASE Store(c)
  <2> USE DEF singleVars, groupVars, proxyVars, InFn, Past
  <2>1. /\ pc[c] = "store" /\ pc' = [pc EXCEPT ![c] = "returned"] /\ got' = got
        /\ \A d \in Callers \ {c} : run'[d] = run[d]
        /\ call' = (IF call = c THEN None ELSE call)
        /\ result' = (IF call = c THEN ValueOf(c) ELSE result)
        /\ UNCHANGED <<resets, started, setter, selected>>
    BY <1>0, <1>5 DEF Store
  <2>2. ValueOf(c).at = run[c].at /\ ValueOf(c).sel = run[c].sel
    BY DEF ValueOf
  <2>3. CallInv' BY <1>0, <2>1, <2>2, GroupAssumption DEF CallInv
  <2>4. AgeInv' BY <1>0, <2>1 DEF AgeInv
  <2>5. SingleFlight' BY <1>0, <2>1 DEF SingleFlight
  <2>6. SelectionInv' BY <1>0, <2>1, <2>2, GroupAssumption DEF SelectionInv, CallInv
  <2> QED BY <2>3, <2>4, <2>5, <2>6
<1>6. CASE Return(c)
  <2> USE <1>0, <1>6 DEF Return, singleVars, groupVars, proxyVars, InFn, Past
  <2>1. CallInv' BY GroupAssumption DEF CallInv
  <2>2. AgeInv' BY DEF AgeInv
  <2>3. SingleFlight' BY DEF SingleFlight
  <2>4. SelectionInv' BY DEF SelectionInv
  <2> QED BY <2>1, <2>2, <2>3, <2>4
<1> QED BY <1>1, <1>2, <1>3, <1>4, <1>5, <1>6

(* ForceSet, the Resets and what does not touch singledo keep its invariant. *)
LEMMA ResetSingle ==
  ASSUME TypeInv, SingleInv,
         \/ \E name \in Names \cup {None} : ForceSet(name)
         \/ SetReset \/ CheckBegin \/ CheckEnd
  PROVE  SingleInv'
<1>a. /\ resets \in 0..MaxResets /\ got \in [Callers -> Value]
      /\ started \in [Callers -> Nat] /\ run \in [Callers -> Run]
  BY DEF TypeInv, TypeOK
<1>b. resets \in Nat
  BY <1>a, GroupAssumption
<1>c. \A c \in Callers : run[c].at \in Nat
  BY <1>a DEF Run
<1>d. \A c \in Callers : got[c].at \in Nat
  BY <1>a DEF Value
<1>0. /\ resets \in Nat /\ got \in [Callers -> Value] /\ started \in [Callers -> Nat]
      /\ run \in [Callers -> Run] /\ \A c \in Callers : run[c].at \in Nat /\ got[c].at \in Nat
  BY <1>a, <1>b, <1>c, <1>d
<1> USE DEF SingleInv, callerVars, singleVars, proxyVars
<1>1. CASE \E name \in Names \cup {None} : ForceSet(name)
  BY <1>1 DEF ForceSet, CallInv, AgeInv, SingleFlight, SelectionInv
<1>2. CASE SetReset \/ CheckBegin \/ CheckEnd
  <2>1. /\ call' = None /\ result' = NoValue /\ resets' = resets + 1
        /\ UNCHANGED callerVars
    BY <1>2 DEF SetReset, CheckBegin, CheckEnd, Reset
  <2>2. CallInv' BY <1>0, <2>1, GroupAssumption DEF CallInv, AgeInv, InFn
  <2>3. AgeInv' BY <1>0, <2>1 DEF AgeInv, InFn
  <2>4. SingleFlight' BY <2>1 DEF SingleFlight
  <2>5. \A c \in Callers : /\ pc[c] \in Past => run[c].at # resets'
                           /\ pc[c] \in {"returned", "store"} => got[c].at # resets'
    BY <1>0, <2>1 DEF AgeInv, InFn, Past
  <2>6. SelectionInv' BY <2>1, <2>5 DEF SelectionInv, NoValue
  <2> QED BY <2>2, <2>3, <2>4, <2>6
<1> QED BY <1>1, <1>2

(* Every step keeps the invariant of singledo. *)
LEMMA SingleStep == TypeInv /\ SingleInv /\ [Next]_vars => SingleInv'
<1> SUFFICES ASSUME TypeInv, SingleInv, [Next]_vars PROVE SingleInv'
  OBVIOUS
<1>1. ASSUME NEW c \in Callers, Fast(c) PROVE SingleInv'
  BY <1>1, DoSingle, FnSteps, FnSingle DEF Fast, TypeInv
<1>2. CASE UNCHANGED <<singleVars, selected, setter, callerVars>>
  BY <1>2 DEF singleVars, callerVars, SingleInv, CallInv, AgeInv,
              SingleFlight, SelectionInv
<1>3. ASSUME NEW o \in Listed, NEW d \in TestResults, RecordTest(o, d)
      PROVE  SingleInv'
  BY <1>3, <1>2 DEF RecordTest, groupVars
<1>4. CASE setProxies
  BY <1>4, <1>2 DEF setProxies, groupVars
<1>5. CASE UNCHANGED vars
  BY <1>5, <1>2 DEF vars, groupVars
<1> QED BY <1>1, <1>3, <1>4, <1>5, ResetSingle DEF Next

(* The invariants of the runs follow. *)
LEMMA SingleImplies ==
  TypeInv /\ SingleInv => FreshResult /\ WaitsForRunning /\ SelectionTakesEffect
<1> SUFFICES ASSUME TypeInv, SingleInv
             PROVE  FreshResult /\ WaitsForRunning /\ SelectionTakesEffect
  OBVIOUS
<1>0. resets \in Nat /\ \A c \in Callers : got[c].at \in Nat /\ started[c] \in Nat
  BY GroupAssumption DEF TypeInv, TypeOK, Value
<1>1. FreshResult
  BY <1>0 DEF SingleInv, AgeInv, FreshResult
<1>2. WaitsForRunning
  BY DEF SingleInv, AgeInv, WaitsForRunning
<1>3. SelectionTakesEffect
  BY <1>0 DEF SingleInv, AgeInv, SelectionInv, SelectionTakesEffect
<1> QED BY <1>1, <1>2, <1>3

(* The invariants of singledo hold throughout. *)
LEMMA SingleCorrect == Spec => [](TypeInv /\ SingleInv)
<1>1. Init => SingleInv
  BY DEF Init, SingleInv, CallInv, AgeInv, SingleFlight, SelectionInv, InFn, Past, NoValue
<1> QED BY <1>1, InitTypes, TypeStep, SingleStep, PTL DEF Spec

(* No caller of fast is given a value computed before the last Reset that
   preceded its call: singledo.go, Do, Reset and s.call == callM. *)
THEOREM Fresh == Spec => []FreshResult
BY SingleCorrect, SingleImplies, PTL

(* Between two Resets the function of fast runs once at a time (singledo.go, Do). *)
THEOREM OneFlight == Spec => []SingleFlight
<1>1. SingleInv => SingleFlight
  BY DEF SingleInv
<1> QED BY <1>1, SingleCorrect, PTL

(* Whoever waits in Do waits for a call that is running, so no wake-up is lost
   however Resets fall (singledo.go, Do and Reset). *)
THEOREM NoLostWakeup == Spec => []WaitsForRunning
BY SingleCorrect, SingleImplies, PTL

(* After ForceSet returned no later call of fast answers on the strength of an
   older selection (urltest.go, ForceSet and fast). *)
THEOREM SelectionHolds == Spec => []SelectionTakesEffect
BY SingleCorrect, SingleImplies, PTL

-----------------------------------------------------------------------------
(* The list cached by GroupBase.                                           *)

(* Every step keeps the relation of the cached list to the provider's. *)
LEMMA VersionStep == TypeInv /\ VersionInv /\ [Next]_vars => VersionInv'
<1> SUFFICES ASSUME TypeInv, VersionInv, [Next]_vars PROVE VersionInv'
  OBVIOUS
<1>0. /\ version \in Nat /\ cache.version \in Nat \cup {None}
      /\ pc \in [Callers -> PCs] /\ run \in [Callers -> Run]
      /\ \A c \in Callers : run[c].version \in Nat
  BY DEF TypeInv, TypeOK, Run
<1> USE DEF VersionInv, CacheCurrent, singleVars, groupVars, proxyVars, callerVars
<1>1. CASE UNCHANGED proxyVars /\ \A c \in Callers :
             pc'[c] = "list" => pc[c] = "list" /\ run'[c] = run[c]
  BY <1>1 DEF ListOf
<1>2. ASSUME NEW c \in Callers, Fast(c) PROVE VersionInv'
  <2>1. CASE DoCached(c) \/ DoWait(c) \/ DoCall(c)
    BY <1>0, <1>1, <2>1 DEF DoCached, DoWait, DoCall
  <2>2. CASE Done(c) \/ Store(c) \/ Return(c)
    BY <1>0, <1>1, <2>2 DEF Done, Store, Return
  <2>3. CASE PickSelected(c) \/ Scan(c) \/ Decide(c) \/ ReadNode(c)
    BY <1>0, <1>1, <2>3 DEF PickSelected, Scan, Decide, ReadNode
  <2>4. CASE ReadVersion(c)
    <3>1. run'[c].version = version /\ \A d \in Callers \ {c} : run'[d] = run[d] /\ pc'[d] = pc[d]
      BY <1>0, <2>4 DEF ReadVersion, Run
    <3> QED BY <1>0, <2>4, <3>1 DEF ReadVersion, ListOf
  <2>5. CASE GetProxies(c)
    <3>1. pc'[c] = "selected" /\ \A d \in Callers \ {c} : run'[d] = run[d] /\ pc'[d] = pc[d]
      BY <1>0, <2>5 DEF GetProxies
    <3>2. UNCHANGED <<version, generation>>
          /\ \/ cache' = cache
             \/ cache' = [version |-> run[c].version, list |-> ListOf(generation)]
      BY <2>5 DEF GetProxies
    <3>3. run[c].version <= version
      BY <2>5 DEF GetProxies
    <3> QED BY <1>0, <3>1, <3>2, <3>3 DEF ListOf
  <2> QED BY <1>2, <2>1, <2>2, <2>3, <2>4, <2>5 DEF Fast
<1>3. ASSUME NEW name \in Names \cup {None}, ForceSet(name) PROVE VersionInv'
  BY <1>3, <1>1 DEF ForceSet
<1>4. CASE SetReset \/ CheckBegin \/ CheckEnd
  BY <1>4, <1>1 DEF SetReset, CheckBegin, CheckEnd
<1>5. ASSUME NEW o \in Listed, NEW d \in TestResults, RecordTest(o, d)
      PROVE  VersionInv'
  BY <1>5 DEF RecordTest, ListOf
<1>6. CASE setProxies
  BY <1>0, <1>6, GroupAssumption DEF setProxies
<1>7. CASE UNCHANGED vars
  BY <1>7, <1>1 DEF vars
<1> QED BY <1>2, <1>3, <1>4, <1>5, <1>6, <1>7 DEF Next

(* The list cached under the provider's version is the provider's list, although
   GetProxies reads the version before it takes the mutex (groupbase.go,
   GetProxies; provider.go, setProxies). *)
THEOREM CacheIsCurrent == Spec => []CacheCurrent
<1>1. Init => VersionInv
  BY GroupAssumption DEF Init, VersionInv, CacheCurrent
<1>2. VersionInv => CacheCurrent
  BY DEF VersionInv
<1> QED BY <1>1, <1>2, InitTypes, TypeStep, VersionStep, PTL DEF Spec
=============================================================================
