---------------------------- MODULE AnyTLSProofs ----------------------------
(***************************************************************************)
(* Theorems about AnyTLS, for any number of callers and sessions.  The     *)
(* inductive invariant adds to the properties what each pointer refers to  *)
(* (Shape), which sessions Client.Close can still miss (LateSessions) and  *)
(* where an open stream can be found (Reachable).                          *)
(***************************************************************************)
EXTENDS AnyTLS, FiniteSetTheorems, WellFoundedInduction, TLAPS

-----------------------------------------------------------------------------
(* Helpers.                                                                *)

(* A set of naturals up to a bound has a greatest element, unless it is empty. *)
LEMMA Greatest ==
  ASSUME NEW n \in Nat, NEW S \in SUBSET (1..n), S # {}
  PROVE  Max(S) \in S /\ \A y \in S : Max(S) >= y
<1> DEFINE T == {n - x : x \in S}
<1>1. T \in SUBSET Nat /\ T # {}
  <2>1. \A x \in S : n - x \in Nat
    OBVIOUS
  <2> QED BY <2>1
<1> HIDE DEF T
<1>2. PICK t \in T : \A u \in T : ~(<<u, t>> \in OpToRel(<, Nat))
  BY <1>1, NatLessThanWellFounded, WFMin
<1>3. \A u \in T : <<u, t>> \in Nat \X Nat
  BY <1>1
<1>4. \A u \in T : ~(u < t)
  BY <1>2, <1>3 DEF OpToRel
<1>5. PICK x \in S : t = n - x
  BY DEF T
<1>6. \A y \in S : x >= y
  <2>1. TAKE y \in S
  <2>2. n - y \in T
    BY DEF T
  <2>3. ~(n - y < n - x)
    BY <2>2, <1>4, <1>5
  <2> QED BY <2>3
<1> QED BY <1>6 DEF Max

(* The loop of idleCleanupExpTime closes old sessions only. *)
LEMMA OnlyExpired ==
  ASSUME NEW e
  PROVE  Expired(e) \subseteq e
BY DEF Expired

-----------------------------------------------------------------------------
(* Types.                                                                  *)

\* A caller that has got as far as a session refers to one, a stream exists from its
\* registration to Leave, and only a dead stream has an end that is running.
Shape ==
    \A p \in Callers :
        /\ pc[p] \in {"open", "syn", "register", "hook", "using"} => sess[p] # 0
        /\ stream[p] # "none" <=> pc[p] \in {"hook", "using"}
        /\ ender[p] # "none" => stream[p] = "dead"

TypeInv == TypeOK /\ Shape

(* Close moves the session on to another stage. *)
LEMMA CloseType ==
  ASSUME TypeOK, NEW s, Close(s)
  PROVE  stage' \in [Sessions -> {"none", "open", "idle", "sessions", "streams", "done"}]
<1>1. CASE IsClosed(s)
  BY <1>1 DEF Close, TypeOK
<1>2. CASE ~IsClosed(s)
  <2>1. stage' = [stage EXCEPT ![s] = IF reuse THEN "idle" ELSE "sessions"]
    BY <1>2 DEF Close
  <2>2. (IF reuse THEN "idle" ELSE "sessions") \in {"idle", "sessions"}
    OBVIOUS
  <2> QED BY <2>1, <2>2 DEF TypeOK
<1> QED BY <1>1, <1>2

(* Whoever has got as far as a session, or runs the end of a stream, refers to one. *)
LEMMA HasSession ==
  ASSUME TypeInv, NEW p \in Callers,
         pc[p] \in {"open", "syn", "register", "hook", "using"} \/ ender[p] # "none"
                                                          \/ stream[p] # "none"
  PROVE  sess[p] \in Sessions
<1>1. sess[p] \in 0..MaxSessions /\ sess[p] # 0
  BY DEF TypeInv, TypeOK, Shape
<1> QED BY <1>1, AnyTLSAssumption DEF Sessions

(* The initial state is well typed. *)
LEMMA TypeInit == Init => TypeInv
<1> SUFFICES ASSUME Init PROVE TypeInv
  OBVIOUS
<1>1. cleaner \in {"sleep", "sweep", "off"}
  BY DEF Init
<1>2. sess \in [Callers -> 0..MaxSessions] /\ counter \in 0..MaxSessions
  BY AnyTLSAssumption DEF Init
<1>3. reuse \in BOOLEAN /\ die \in BOOLEAN
  BY DEF Init
<1>4. hook \in [Callers -> BOOLEAN]
  BY DEF Init
<1>5. TypeOK
  BY <1>1, <1>2, <1>3, <1>4 DEF Init, TypeOK
<1>6. Shape
  BY DEF Init, Shape
<1> QED BY <1>5, <1>6 DEF TypeInv

(* Every step keeps the types. *)
LEMMA TypeStep ==
  ASSUME TypeInv, [Next]_vars
  PROVE  TypeInv'
<1>1. ASSUME NEW p \in Callers, CreateStream(p) PROVE TypeInv'
  BY <1>1 DEF CreateStream, client, pool, caller, ending, TypeInv, TypeOK, Shape, Sessions
<1>2. ASSUME NEW p \in Callers, getIdleSession(p) PROVE TypeInv'
  <2>1. CASE idle = {}
    BY <1>2, <2>1 DEF getIdleSession, client, pool, caller, ending, TypeInv, TypeOK, Shape
  <2>2. CASE idle # {}
    <3>1. Max(idle) \in idle
      BY <2>2, Greatest, AnyTLSAssumption DEF TypeInv, TypeOK, Sessions
    <3>2. Max(idle) \in 0..MaxSessions /\ Max(idle) # 0
      <4>1. idle \subseteq Sessions
        BY DEF TypeInv, TypeOK
      <4>2. \A x \in Sessions : x \in 0..MaxSessions /\ x # 0
        BY AnyTLSAssumption DEF Sessions
      <4> QED BY <3>1, <4>1, <4>2
    <3> HIDE DEF Max
    <3> QED BY <1>2, <2>2, <3>2, ZenonT(60)
        DEF getIdleSession, client, pool, caller, ending, TypeInv,
        TypeOK, Shape
  <2> QED BY <2>1, <2>2
<1>3. ASSUME NEW p \in Callers, createSession(p) PROVE TypeInv'
  BY <1>3, AnyTLSAssumption DEF createSession, client, pool, caller, ending, TypeInv, TypeOK,
      Shape, Sessions
<1>4. ASSUME NEW p \in Callers, DialFails(p) PROVE TypeInv'
  BY <1>4 DEF DialFails, client, pool, caller, ending, TypeInv, TypeOK, Shape, Sessions
<1>5. ASSUME NEW p \in Callers, OpenStream(p) PROVE TypeInv'
  <2>1. stage' \in [Sessions -> {"none", "open", "idle", "sessions", "streams", "done"}]
    BY <1>5, CloseType DEF OpenStream, Fail, TypeInv, TypeOK
  <2>2. 0 \in 0..MaxSessions
    BY AnyTLSAssumption
  <2> QED BY <1>5, <2>1, <2>2 DEF OpenStream, Fail, client, pool, caller, ending, TypeInv,
      TypeOK, Shape
<1>6. ASSUME NEW p \in Callers, Register(p) PROVE TypeInv'
  <2>1. stage' \in [Sessions -> {"none", "open", "idle", "sessions", "streams", "done"}]
    BY <1>6, CloseType DEF Register, Fail, TypeInv, TypeOK
  <2>2. 0 \in 0..MaxSessions
    BY AnyTLSAssumption
  <2> QED BY <1>6, <2>1, <2>2 DEF Register, Fail, client, pool, caller, ending, TypeInv, TypeOK,
      Shape
<1>7. ASSUME NEW p \in Callers, SetHook(p) PROVE TypeInv'
  BY <1>7 DEF SetHook, client, pool, caller, ending, TypeInv, TypeOK, Shape, Sessions
<1>8. ASSUME NEW p \in Callers, NEW ok \in BOOLEAN, WriteSYN(p, ok) PROVE TypeInv'
  <2>1. stage' \in [Sessions -> {"none", "open", "idle", "sessions", "streams", "done"}]
    BY <1>8, CloseType DEF WriteSYN, Fail, TypeInv, TypeOK
  <2>2. 0 \in 0..MaxSessions
    BY AnyTLSAssumption
  <2> QED BY <1>8, <2>1, <2>2 DEF WriteSYN, Fail, client, pool, caller, ending, TypeInv, TypeOK,
      Shape
<1>9. ASSUME NEW p \in Callers, StreamClose(p) PROVE TypeInv'
  BY <1>9 DEF StreamClose, dieOnce, client, pool, caller, ending, TypeInv, TypeOK, Shape,
      Sessions
<1>10. ASSUME NEW p \in Callers, RecvError(p) PROVE TypeInv'
  BY <1>10 DEF RecvError, dieOnce, client, pool, caller, ending, TypeInv, TypeOK, Shape,
      Sessions
<1>11. ASSUME NEW p \in Callers, RecvFIN(p) PROVE TypeInv'
  BY <1>11 DEF RecvFIN, client, pool, caller, ending, TypeInv, TypeOK, Shape, Sessions
<1>12. ASSUME NEW p \in Callers, DeleteStream(p) PROVE TypeInv'
  BY <1>12 DEF DeleteStream, client, pool, caller, ending, TypeInv, TypeOK, Shape, Sessions
<1>13. ASSUME NEW p \in Callers, dieHook(p) PROVE TypeInv'
  <2>1. stage' \in [Sessions -> {"none", "open", "idle", "sessions", "streams", "done"}]
    BY <1>13, CloseType DEF dieHook, TypeInv, TypeOK
  <2>2. sess[p] \in Sessions
    BY <1>13, HasSession DEF dieHook
  <2>3. ender' = [ender EXCEPT ![p] = "insert"] \/ ender' = [ender EXCEPT ![p] = "none"]
    BY <1>13 DEF dieHook
  <2>4. lost' \subseteq Sessions
    BY <1>13, <2>2 DEF dieHook, TypeInv, TypeOK
  <2>5. UNCHANGED <<reuse, die, closer, left, cleaner, sweep, counter, pool, streams, recv,
                    caller, stream, hook>> /\ ender[p] = "hook"
    BY <1>13 DEF dieHook
  <2> QED BY <2>1, <2>3, <2>4, <2>5 DEF client, pool, caller, ending, TypeInv, TypeOK, Shape
<1>14. ASSUME NEW p \in Callers, Insert(p) PROVE TypeInv'
  <2>1. sess[p] \in Sessions
    BY <1>14, HasSession DEF Insert
  <2> QED BY <1>14, <2>1 DEF Insert, client, pool, caller, ending, TypeInv, TypeOK, Shape
<1>15. ASSUME NEW p \in Callers, Leave(p) PROVE TypeInv'
  BY <1>15, AnyTLSAssumption DEF Leave, client, pool, caller, ending, TypeInv, TypeOK, Shape,
      Sessions
<1>16. ASSUME NEW p \in Callers, NEW ok \in BOOLEAN, streamClosed(p, ok) PROVE TypeInv'
  BY <1>16, ZenonT(60)
      DEF streamClosed, Close, IsClosed, client, pool, caller, ending, TypeInv, TypeOK,
      Shape, Sessions
<1>17. ASSUME NEW s \in Sessions, RemoveIdle(s) PROVE TypeInv'
  BY <1>17 DEF RemoveIdle, client, pool, caller, ending, TypeInv, TypeOK, Shape, Sessions
<1>18. ASSUME NEW s \in Sessions, DeleteSession(s) PROVE TypeInv'
  BY <1>18 DEF DeleteSession, client, pool, caller, ending, TypeInv, TypeOK, Shape, Sessions
<1>19. ASSUME NEW s \in Sessions, CloseStreams(s) PROVE TypeInv'
  BY <1>19 DEF CloseStreams, client, pool, caller, ending, TypeInv, TypeOK, Shape, Sessions
<1>20. ASSUME NEW s \in Sessions, closeLocally(s) PROVE TypeInv'
  <2>1. recv[s] \in Callers
    BY <1>20 DEF closeLocally, TypeInv, TypeOK
  <2>2. CASE stream[recv[s]] = "open"
    BY <1>20, <2>1, <2>2 DEF closeLocally, dieOnce, client, pool, caller, ending, TypeInv,
        TypeOK, Shape
  <2>3. CASE stream[recv[s]] # "open"
    BY <1>20, <2>1, <2>3 DEF closeLocally, client, pool, caller, ending, TypeInv, TypeOK, Shape
  <2> QED BY <2>2, <2>3
<1>21. ASSUME NEW s \in Sessions, SessionFails(s) PROVE TypeInv'
  BY <1>21 DEF SessionFails, Close, IsClosed, client, pool, caller, ending, TypeInv, TypeOK,
      Shape, Sessions
<1>22. ASSUME NEW s \in Sessions, SweepNext(s) PROVE TypeInv'
  BY <1>22 DEF SweepNext, Close, IsClosed, client, pool, caller, ending, TypeInv, TypeOK, Shape,
      Sessions
<1>23. ASSUME NEW s \in Sessions, CloseNext(s) PROVE TypeInv'
  BY <1>23 DEF CloseNext, Close, IsClosed, client, pool, caller, ending, TypeInv, TypeOK, Shape,
      Sessions
<1>24. ASSUME NEW e \in SUBSET idle, idleCleanup(e) PROVE TypeInv'
  BY <1>24, OnlyExpired DEF idleCleanup, client, pool, caller, ending, TypeInv, TypeOK, Shape,
      Sessions
<1>25. ASSUME SweepDone PROVE TypeInv'
  BY <1>25 DEF SweepDone, client, pool, caller, ending, TypeInv, TypeOK, Shape, Sessions
<1>26. ASSUME ClientClose PROVE TypeInv'
  BY <1>26 DEF ClientClose, client, pool, caller, ending, TypeInv, TypeOK, Shape, Sessions
<1>27. ASSUME SwapSessions PROVE TypeInv'
  BY <1>27 DEF SwapSessions, client, pool, caller, ending, TypeInv, TypeOK, Shape, Sessions
<1>28. ASSUME ClosedAll PROVE TypeInv'
  BY <1>28 DEF ClosedAll, client, pool, caller, ending, TypeInv, TypeOK, Shape, Sessions
<1>29. CASE UNCHANGED vars
  BY <1>29 DEF vars, client, pool, caller, ending, TypeInv, TypeOK, Shape, Sessions
<1> QED BY <1>1, <1>2, <1>3, <1>4, <1>5, <1>6, <1>7, <1>8, <1>9, <1>10, <1>11, <1>12, <1>13,
    <1>14, <1>15, <1>16, <1>17, <1>18, <1>19, <1>20, <1>21, <1>22, <1>23, <1>24, <1>25, <1>26,
    <1>27, <1>28, <1>29 DEF Next, Open, End, Session, Client

-----------------------------------------------------------------------------
(* What refers to what.                                                    *)

\* The sessions that exist are those that were counted; maps, lists and callers refer to
\* nothing else.
Made ==
    /\ \A s \in Sessions : stage[s] = "none" <=> s > counter
    /\ \A s \in sessions \cup idle \cup sweep : stage[s] # "none"
    /\ \A p \in Callers : sess[p] <= counter

\* A stream that a session or its recvLoop refers to is a stream of that session.
Refs ==
    \A s \in Sessions, p \in Callers :
        p \in streams[s] \/ recv[s] = p => stream[p] # "none" /\ sess[p] = s


\* What a step with Close may do to the stages of the sessions.
Closing ==
    \A s \in Sessions :
        /\ stage'[s] = "none" <=> stage[s] = "none"
        /\ stage'[s] = "open" => stage[s] = "open"
        /\ stage'[s] = "streams" <=> stage[s] = "streams"
        /\ stage'[s] = "done" <=> stage[s] = "done"

(* Close closes its session, and touches no other and none that is closed. *)
LEMMA CloseEffect ==
  ASSUME TypeOK, NEW s \in Sessions, Close(s)
  PROVE  Closing /\ stage'[s] # "open"
<1>1. CASE IsClosed(s)
  BY <1>1 DEF Close, TypeOK, IsClosed, Closing
<1>2. CASE ~IsClosed(s)
  <2>1. stage' = [stage EXCEPT ![s] = "idle"] \/ stage' = [stage EXCEPT ![s] = "sessions"]
    BY <1>2 DEF Close
  <2> QED BY <1>2, <2>1 DEF TypeOK, IsClosed, Closing
<1> QED BY <1>1, <1>2

(* Every step keeps Made. *)
LEMMA MadeStep ==
  ASSUME TypeInv, Made, [Next]_vars
  PROVE  Made'
<1>1. ASSUME NEW p \in Callers, CreateStream(p) PROVE Made'
  BY <1>1 DEF CreateStream, client, pool, caller, ending, TypeInv, TypeOK, Made, Sessions
<1>2. ASSUME NEW p \in Callers, getIdleSession(p) PROVE Made'
  <2>1. CASE idle = {}
    BY <1>2, <2>1 DEF getIdleSession, client, pool, caller, ending, TypeInv, TypeOK, Made
  <2>2. CASE idle # {}
    <3>1. Max(idle) \in idle
      BY <2>2, Greatest, AnyTLSAssumption DEF TypeInv, TypeOK, Sessions
    <3>2. Max(idle) \in Sessions /\ stage[Max(idle)] # "none"
      BY <3>1 DEF TypeInv, TypeOK, Made
    <3> HIDE DEF Max
    <3>3. Max(idle) <= counter
      BY <3>2, AnyTLSAssumption DEF TypeInv, TypeOK, Made, Sessions
    <3> QED BY <1>2, <2>2, <3>3 DEF getIdleSession, client, pool, caller, ending, TypeInv,
        TypeOK, Made
  <2> QED BY <2>1, <2>2
<1>3. ASSUME NEW p \in Callers, createSession(p) PROVE Made'
  BY <1>3, AnyTLSAssumption DEF createSession, client, pool, caller, ending, TypeInv, TypeOK,
      Made, Sessions
<1>4. ASSUME NEW p \in Callers, DialFails(p) PROVE Made'
  BY <1>4 DEF DialFails, client, pool, caller, ending, TypeInv, TypeOK, Made, Sessions
<1>5. ASSUME NEW p \in Callers, OpenStream(p) PROVE Made'
  <2>1. sess[p] \in Sessions
    BY <1>5, HasSession DEF OpenStream
  <2>2. Closing
    BY <1>5, <2>1, CloseEffect DEF OpenStream, Fail, Closing, TypeInv
  <2>3. sess' = sess \/ sess' = [sess EXCEPT ![p] = 0]
    BY <1>5 DEF OpenStream, Fail
  <2>4. UNCHANGED <<sessions, idle, sweep, counter>>
    BY <1>5 DEF OpenStream, client, pool
  <2>5. \A q \in Callers : sess'[q] <= counter
    <3>1. counter \in Nat /\ 0 <= counter
      BY AnyTLSAssumption DEF TypeInv, TypeOK
    <3> QED BY <2>3, <3>1 DEF TypeInv, TypeOK, Made
  <2> QED BY <2>2, <2>4, <2>5 DEF Closing, TypeInv, TypeOK, Made
<1>6. ASSUME NEW p \in Callers, Register(p) PROVE Made'
  <2>1. sess[p] \in Sessions
    BY <1>6, HasSession DEF Register
  <2>2. Closing
    BY <1>6, <2>1, CloseEffect DEF Register, Fail, Closing, TypeInv
  <2>3. sess' = sess \/ sess' = [sess EXCEPT ![p] = 0]
    BY <1>6 DEF Register, Fail
  <2>4. UNCHANGED <<sessions, idle, sweep, counter>>
    BY <1>6 DEF Register, client, pool
  <2>5. \A q \in Callers : sess'[q] <= counter
    <3>1. counter \in Nat /\ 0 <= counter
      BY AnyTLSAssumption DEF TypeInv, TypeOK
    <3> QED BY <2>3, <3>1 DEF TypeInv, TypeOK, Made
  <2> QED BY <2>2, <2>4, <2>5 DEF Closing, TypeInv, TypeOK, Made
<1>7. ASSUME NEW p \in Callers, SetHook(p) PROVE Made'
  BY <1>7 DEF SetHook, client, pool, caller, ending, TypeInv, TypeOK, Made, Sessions
<1>8. ASSUME NEW p \in Callers, NEW ok \in BOOLEAN, WriteSYN(p, ok) PROVE Made'
  <2>1. sess[p] \in Sessions
    BY <1>8, HasSession DEF WriteSYN
  <2>2. Closing
    BY <1>8, <2>1, CloseEffect DEF WriteSYN, Fail, Closing, TypeInv
  <2>3. sess' = sess \/ sess' = [sess EXCEPT ![p] = 0]
    BY <1>8 DEF WriteSYN, Fail
  <2>4. UNCHANGED <<sessions, idle, sweep, counter>>
    BY <1>8 DEF WriteSYN, client, pool
  <2>5. \A q \in Callers : sess'[q] <= counter
    <3>1. counter \in Nat /\ 0 <= counter
      BY AnyTLSAssumption DEF TypeInv, TypeOK
    <3> QED BY <2>3, <3>1 DEF TypeInv, TypeOK, Made
  <2> QED BY <2>2, <2>4, <2>5 DEF Closing, TypeInv, TypeOK, Made
<1>9. ASSUME NEW p \in Callers, StreamClose(p) PROVE Made'
  BY <1>9 DEF StreamClose, dieOnce, client, pool, caller, ending, TypeInv, TypeOK, Made,
      Sessions
<1>10. ASSUME NEW p \in Callers, RecvError(p) PROVE Made'
  BY <1>10 DEF RecvError, dieOnce, client, pool, caller, ending, TypeInv, TypeOK, Made, Sessions
<1>11. ASSUME NEW p \in Callers, RecvFIN(p) PROVE Made'
  BY <1>11 DEF RecvFIN, client, pool, caller, ending, TypeInv, TypeOK, Made, Sessions
<1>12. ASSUME NEW p \in Callers, DeleteStream(p) PROVE Made'
  BY <1>12 DEF DeleteStream, client, pool, caller, ending, TypeInv, TypeOK, Made, Sessions
<1>13. ASSUME NEW p \in Callers, dieHook(p) PROVE Made'
  <2>1. sess[p] \in Sessions
    BY <1>13, HasSession DEF dieHook
  <2>2. Closing
    BY <1>13, <2>1, CloseEffect DEF dieHook, Closing, TypeInv
  <2> QED BY <1>13, <2>1, <2>2 DEF dieHook, Closing, client, pool, caller, ending, TypeInv,
      TypeOK, Made, Sessions
<1>14. ASSUME NEW p \in Callers, Insert(p) PROVE Made'
  BY <1>14, HasSession DEF Insert, client, pool, caller, ending, TypeInv, TypeOK, Made, Sessions
<1>15. ASSUME NEW p \in Callers, Leave(p) PROVE Made'
  BY <1>15, AnyTLSAssumption DEF Leave, client, pool, caller, ending, TypeInv, TypeOK, Made,
      Sessions
<1>16. ASSUME NEW p \in Callers, NEW ok \in BOOLEAN, streamClosed(p, ok) PROVE Made'
  <2>1. sess[p] \in Sessions
    BY <1>16, HasSession DEF streamClosed
  <2>2. Closing
    BY <1>16, <2>1, CloseEffect DEF streamClosed, Closing, TypeInv
  <2> QED BY <1>16, <2>1, <2>2 DEF streamClosed, Closing, client, pool, caller, ending, TypeInv,
      TypeOK, Made, Sessions
<1>17. ASSUME NEW s \in Sessions, RemoveIdle(s) PROVE Made'
  BY <1>17 DEF RemoveIdle, client, pool, caller, ending, TypeInv, TypeOK, Made, Sessions
<1>18. ASSUME NEW s \in Sessions, DeleteSession(s) PROVE Made'
  BY <1>18 DEF DeleteSession, client, pool, caller, ending, TypeInv, TypeOK, Made, Sessions
<1>19. ASSUME NEW s \in Sessions, CloseStreams(s) PROVE Made'
  BY <1>19 DEF CloseStreams, client, pool, caller, ending, TypeInv, TypeOK, Made, Sessions
<1>20. ASSUME NEW s \in Sessions, closeLocally(s) PROVE Made'
  BY <1>20 DEF closeLocally, dieOnce, client, pool, caller, ending, TypeInv, TypeOK, Made,
      Sessions
<1>21. ASSUME NEW s \in Sessions, SessionFails(s) PROVE Made'
  BY <1>21 DEF SessionFails, Close, IsClosed, client, pool, caller, ending, TypeInv, TypeOK,
      Made, Sessions
<1>22. ASSUME NEW s \in Sessions, SweepNext(s) PROVE Made'
  BY <1>22 DEF SweepNext, Close, IsClosed, client, pool, caller, ending, TypeInv, TypeOK, Made,
      Sessions
<1>23. ASSUME NEW s \in Sessions, CloseNext(s) PROVE Made'
  BY <1>23 DEF CloseNext, Close, IsClosed, client, pool, caller, ending, TypeInv, TypeOK, Made,
      Sessions
<1>24. ASSUME NEW e \in SUBSET idle, idleCleanup(e) PROVE Made'
  BY <1>24, OnlyExpired DEF idleCleanup, client, pool, caller, ending, TypeInv, TypeOK, Made,
      Sessions
<1>25. ASSUME SweepDone PROVE Made'
  BY <1>25 DEF SweepDone, client, pool, caller, ending, TypeInv, TypeOK, Made, Sessions
<1>26. ASSUME ClientClose PROVE Made'
  BY <1>26 DEF ClientClose, client, pool, caller, ending, TypeInv, TypeOK, Made, Sessions
<1>27. ASSUME SwapSessions PROVE Made'
  BY <1>27 DEF SwapSessions, client, pool, caller, ending, TypeInv, TypeOK, Made, Sessions
<1>28. ASSUME ClosedAll PROVE Made'
  BY <1>28 DEF ClosedAll, client, pool, caller, ending, TypeInv, TypeOK, Made, Sessions
<1>29. CASE UNCHANGED vars
  BY <1>29 DEF vars, client, pool, caller, ending, TypeInv, TypeOK, Made, Sessions
<1> QED BY <1>1, <1>2, <1>3, <1>4, <1>5, <1>6, <1>7, <1>8, <1>9, <1>10, <1>11, <1>12, <1>13,
    <1>14, <1>15, <1>16, <1>17, <1>18, <1>19, <1>20, <1>21, <1>22, <1>23, <1>24, <1>25, <1>26,
    <1>27, <1>28, <1>29 DEF Next, Open, End, Session, Client

(* Every step keeps Refs. *)
LEMMA RefsStep ==
  ASSUME TypeInv, Refs, [Next]_vars
  PROVE  Refs'
<1>1. ASSUME NEW p \in Callers, CreateStream(p) PROVE Refs'
  BY <1>1 DEF CreateStream, client, pool, caller, ending, TypeInv, TypeOK, Shape, Refs
<1>2. ASSUME NEW p \in Callers, getIdleSession(p) PROVE Refs'
  BY <1>2 DEF getIdleSession, client, pool, caller, ending, TypeInv, TypeOK, Shape, Refs
<1>3. ASSUME NEW p \in Callers, createSession(p) PROVE Refs'
  BY <1>3 DEF createSession, client, pool, caller, ending, TypeInv, TypeOK, Shape, Refs
<1>4. ASSUME NEW p \in Callers, DialFails(p) PROVE Refs'
  BY <1>4 DEF DialFails, client, pool, caller, ending, TypeInv, TypeOK, Shape, Refs
<1>5. ASSUME NEW p \in Callers, OpenStream(p) PROVE Refs'
  BY <1>5 DEF OpenStream, Fail, Close, IsClosed, client, pool, caller, ending, TypeInv, TypeOK,
      Shape, Refs
<1>6. ASSUME NEW p \in Callers, Register(p) PROVE Refs'
  BY <1>6, HasSession DEF Register, Fail, Close, IsClosed, client, pool, caller, ending,
      TypeInv, TypeOK, Shape, Refs
<1>7. ASSUME NEW p \in Callers, SetHook(p) PROVE Refs'
  BY <1>7 DEF SetHook, client, pool, caller, ending, TypeInv, TypeOK, Shape, Refs
<1>8. ASSUME NEW p \in Callers, NEW ok \in BOOLEAN, WriteSYN(p, ok) PROVE Refs'
  BY <1>8 DEF WriteSYN, Fail, Close, IsClosed, client, pool, caller, ending, TypeInv, TypeOK,
      Shape, Refs
<1>9. ASSUME NEW p \in Callers, StreamClose(p) PROVE Refs'
  BY <1>9 DEF StreamClose, dieOnce, client, pool, caller, ending, TypeInv, TypeOK, Shape, Refs
<1>10. ASSUME NEW p \in Callers, RecvError(p) PROVE Refs'
  BY <1>10 DEF RecvError, dieOnce, client, pool, caller, ending, TypeInv, TypeOK, Shape, Refs
<1>11. ASSUME NEW p \in Callers, RecvFIN(p) PROVE Refs'
  BY <1>11, HasSession, AnyTLSAssumption DEF RecvFIN, client, pool, caller, ending, TypeInv,
      TypeOK, Shape, Refs
<1>12. ASSUME NEW p \in Callers, DeleteStream(p) PROVE Refs'
  BY <1>12, HasSession DEF DeleteStream, client, pool, caller, ending, TypeInv, TypeOK, Shape,
      Refs
<1>13. ASSUME NEW p \in Callers, dieHook(p) PROVE Refs'
  BY <1>13 DEF dieHook, Close, IsClosed, client, pool, caller, ending, TypeInv, TypeOK, Shape,
      Refs
<1>14. ASSUME NEW p \in Callers, Insert(p) PROVE Refs'
  BY <1>14 DEF Insert, client, pool, caller, ending, TypeInv, TypeOK, Shape, Refs
<1>15. ASSUME NEW p \in Callers, Leave(p) PROVE Refs'
  BY <1>15 DEF Leave, client, pool, caller, ending, TypeInv, TypeOK, Shape, Refs
<1>16. ASSUME NEW p \in Callers, NEW ok \in BOOLEAN, streamClosed(p, ok) PROVE Refs'
  BY <1>16 DEF streamClosed, Close, IsClosed, client, pool, caller, ending, TypeInv, TypeOK,
      Shape, Refs
<1>17. ASSUME NEW s \in Sessions, RemoveIdle(s) PROVE Refs'
  BY <1>17 DEF RemoveIdle, client, pool, caller, ending, TypeInv, TypeOK, Shape, Refs
<1>18. ASSUME NEW s \in Sessions, DeleteSession(s) PROVE Refs'
  BY <1>18 DEF DeleteSession, client, pool, caller, ending, TypeInv, TypeOK, Shape, Refs
<1>19. ASSUME NEW s \in Sessions, CloseStreams(s) PROVE Refs'
  BY <1>19, HasSession DEF CloseStreams, client, pool, caller, ending, TypeInv, TypeOK, Shape,
      Refs
<1>20. ASSUME NEW s \in Sessions, closeLocally(s) PROVE Refs'
  BY <1>20, AnyTLSAssumption DEF closeLocally, dieOnce, client, pool, caller, ending, TypeInv,
      TypeOK, Shape, Refs
<1>21. ASSUME NEW s \in Sessions, SessionFails(s) PROVE Refs'
  BY <1>21 DEF SessionFails, Close, IsClosed, client, pool, caller, ending, TypeInv, TypeOK,
      Shape, Refs
<1>22. ASSUME NEW s \in Sessions, SweepNext(s) PROVE Refs'
  BY <1>22 DEF SweepNext, Close, IsClosed, client, pool, caller, ending, TypeInv, TypeOK, Shape,
      Refs
<1>23. ASSUME NEW s \in Sessions, CloseNext(s) PROVE Refs'
  BY <1>23 DEF CloseNext, Close, IsClosed, client, pool, caller, ending, TypeInv, TypeOK, Shape,
      Refs
<1>24. ASSUME NEW e \in SUBSET idle, idleCleanup(e) PROVE Refs'
  BY <1>24 DEF idleCleanup, client, pool, caller, ending, TypeInv, TypeOK, Shape, Refs
<1>25. ASSUME SweepDone PROVE Refs'
  BY <1>25 DEF SweepDone, client, pool, caller, ending, TypeInv, TypeOK, Shape, Refs
<1>26. ASSUME ClientClose PROVE Refs'
  BY <1>26 DEF ClientClose, client, pool, caller, ending, TypeInv, TypeOK, Shape, Refs
<1>27. ASSUME SwapSessions PROVE Refs'
  BY <1>27 DEF SwapSessions, client, pool, caller, ending, TypeInv, TypeOK, Shape, Refs
<1>28. ASSUME ClosedAll PROVE Refs'
  BY <1>28 DEF ClosedAll, client, pool, caller, ending, TypeInv, TypeOK, Shape, Refs
<1>29. CASE UNCHANGED vars
  BY <1>29 DEF vars, client, pool, caller, ending, TypeInv, TypeOK, Shape, Refs
<1> QED BY <1>1, <1>2, <1>3, <1>4, <1>5, <1>6, <1>7, <1>8, <1>9, <1>10, <1>11, <1>12, <1>13,
    <1>14, <1>15, <1>16, <1>17, <1>18, <1>19, <1>20, <1>21, <1>22, <1>23, <1>24, <1>25, <1>26,
    <1>27, <1>28, <1>29 DEF Next, Open, End, Session, Client

-----------------------------------------------------------------------------
(* Who uses a session.                                                     *)

\* A session is in one place: an idle one is not about to be closed as well.
UseInv ==
    /\ ExclusiveUse /\ NoneLost
    /\ \A s \in Sessions : stage[s] = "open" => ~(s \in idle /\ s \in sweep)
    /\ cleaner # "sweep" => sweep = {}

(* Every step keeps UseInv. *)
LEMMA UseStep ==
  ASSUME TypeInv, TypeInv', Made, Refs, UseInv, [Next]_vars
  PROVE  UseInv'
<1>1. ASSUME NEW p \in Callers, CreateStream(p) PROVE UseInv'
  BY <1>1 DEF CreateStream, client, pool, caller, ending, TypeInv, TypeOK, Shape, UseInv,
      ExclusiveUse, NoneLost, Holds
<1>2. ASSUME NEW p \in Callers, getIdleSession(p) PROVE UseInv'
  <2>1. CASE idle = {}
    BY <1>2, <2>1 DEF getIdleSession, client, pool, caller, ending, TypeInv, TypeOK, Shape,
        UseInv, ExclusiveUse, NoneLost, Holds
  <2>2. CASE idle # {}
    <3>1. Max(idle) \in idle
      BY <2>2, Greatest, AnyTLSAssumption DEF TypeInv, TypeOK, Sessions
    <3> DEFINE m == Max(idle)
    <3>2. m \in idle
      BY <3>1
    <3>3. /\ pc' = [pc EXCEPT ![p] = "open"] /\ sess' = [sess EXCEPT ![p] = m]
          /\ idle' = idle \ {m} /\ pc[p] = "pick"
          /\ UNCHANGED <<client, sessions, stage, streams, recv, ending>>
      BY <1>2, <2>2 DEF getIdleSession
    <3> HIDE DEF m
    <3> QED BY <3>2, <3>3 DEF client, pool, caller, ending, TypeInv, TypeOK, Shape, UseInv,
        ExclusiveUse, NoneLost, Holds
  <2> QED BY <2>1, <2>2
<1>3. ASSUME NEW p \in Callers, createSession(p) PROVE UseInv'
  <2> DEFINE m == counter + 1
  <2>1. m \in Sessions /\ stage[m] = "none"
    BY <1>3, AnyTLSAssumption DEF createSession, TypeInv, TypeOK, Made, Sessions
  <2>2. m \notin idle \cup sweep
    BY <2>1 DEF Made
  <2>3. \A q \in Callers : sess[q] # m
    BY AnyTLSAssumption DEF TypeInv, TypeOK, Made
  <2>4. /\ pc' = [pc EXCEPT ![p] = "open"] /\ sess' = [sess EXCEPT ![p] = m]
        /\ stage' = [stage EXCEPT ![m] = "open"] /\ pc[p] = "dial"
        /\ UNCHANGED <<cleaner, sweep, lost, idle, stream, ender>>
    BY <1>3 DEF createSession, ending
  <2> HIDE DEF m
  <2>5. \A q \in Callers, s \in Sessions : s # m => (Holds(q, s) <=> Holds(q, s)')
    BY <2>3, <2>4 DEF TypeInv, TypeOK, Shape, Holds
  <2>6. \A q \in Callers, s \in Sessions : s = m => (Holds(q, s)' <=> q = p)
    BY <2>1, <2>3, <2>4 DEF TypeInv, TypeOK, Holds
  <2>7. \A s \in Sessions : s # m => stage'[s] = stage[s]
    BY <2>4 DEF TypeInv, TypeOK
  <2> QED BY <2>1, <2>2, <2>4, <2>5, <2>6, <2>7 DEF UseInv, ExclusiveUse, NoneLost
<1>4. ASSUME NEW p \in Callers, DialFails(p) PROVE UseInv'
  BY <1>4 DEF DialFails, client, pool, caller, ending, TypeInv, TypeOK, Shape, UseInv,
      ExclusiveUse, NoneLost, Holds
<1>5. ASSUME NEW p \in Callers, OpenStream(p) PROVE UseInv'
  <2>1. sess[p] \in Sessions
    BY <1>5, HasSession DEF OpenStream
  <2>2. Closing /\ (Close(sess[p]) => stage'[sess[p]] # "open")
    BY <1>5, <2>1, CloseEffect DEF OpenStream, Fail, Closing, TypeInv
  <2> QED BY <1>5, <2>1, <2>2 DEF OpenStream, Fail, Closing, client, pool, caller, ending,
      TypeInv, TypeOK, Shape, UseInv, ExclusiveUse, NoneLost, Holds
<1>6. ASSUME NEW p \in Callers, Register(p) PROVE UseInv'
  <2>1. sess[p] \in Sessions
    BY <1>6, HasSession DEF Register
  <2>2. Closing /\ (Close(sess[p]) => stage'[sess[p]] # "open")
    BY <1>6, <2>1, CloseEffect DEF Register, Fail, Closing, TypeInv
  <2> QED BY <1>6, <2>1, <2>2 DEF Register, Fail, Closing, client, pool, caller, ending,
      TypeInv, TypeOK, Shape, UseInv, ExclusiveUse, NoneLost, Holds
<1>7. ASSUME NEW p \in Callers, SetHook(p) PROVE UseInv'
  BY <1>7 DEF SetHook, client, pool, caller, ending, TypeInv, TypeOK, Shape, UseInv,
      ExclusiveUse, NoneLost, Holds
<1>8. ASSUME NEW p \in Callers, NEW ok \in BOOLEAN, WriteSYN(p, ok) PROVE UseInv'
  <2>1. sess[p] \in Sessions
    BY <1>8, HasSession DEF WriteSYN
  <2>2. Closing /\ (Close(sess[p]) => stage'[sess[p]] # "open")
    BY <1>8, <2>1, CloseEffect DEF WriteSYN, Fail, Closing, TypeInv
  <2> QED BY <1>8, <2>1, <2>2 DEF WriteSYN, Fail, Closing, client, pool, caller, ending,
      TypeInv, TypeOK, Shape, UseInv, ExclusiveUse, NoneLost, Holds
<1>9. ASSUME NEW p \in Callers, StreamClose(p) PROVE UseInv'
  BY <1>9 DEF StreamClose, dieOnce, client, pool, caller, ending, TypeInv, TypeOK, Shape,
      UseInv, ExclusiveUse, NoneLost, Holds
<1>10. ASSUME NEW p \in Callers, RecvError(p) PROVE UseInv'
  BY <1>10 DEF RecvError, dieOnce, client, pool, caller, ending, TypeInv, TypeOK, Shape, UseInv,
      ExclusiveUse, NoneLost, Holds
<1>11. ASSUME NEW p \in Callers, RecvFIN(p) PROVE UseInv'
  BY <1>11 DEF RecvFIN, client, pool, caller, ending, TypeInv, TypeOK, Shape, UseInv,
      ExclusiveUse, NoneLost, Holds
<1>12. ASSUME NEW p \in Callers, DeleteStream(p) PROVE UseInv'
  BY <1>12 DEF DeleteStream, client, pool, caller, ending, TypeInv, TypeOK, Shape, UseInv,
      ExclusiveUse, NoneLost, Holds
<1>13. ASSUME NEW p \in Callers, dieHook(p) PROVE UseInv'
  <2>1. sess[p] \in Sessions
    BY <1>13, HasSession DEF dieHook
  <2>2. Closing /\ (Close(sess[p]) => stage'[sess[p]] # "open")
    BY <1>13, <2>1, CloseEffect DEF dieHook, IsClosed, Closing, TypeInv
  <2> QED BY <1>13, <2>1, <2>2 DEF dieHook, IsClosed, Closing, client, pool, caller, ending,
      TypeInv, TypeOK, Shape, UseInv, ExclusiveUse, NoneLost, Holds
<1>14. ASSUME NEW p \in Callers, Insert(p) PROVE UseInv'
  BY <1>14 DEF Insert, client, pool, caller, ending, TypeInv, TypeOK, Shape, UseInv,
      ExclusiveUse, NoneLost, Holds
<1>15. ASSUME NEW p \in Callers, Leave(p) PROVE UseInv'
  BY <1>15 DEF Leave, client, pool, caller, ending, TypeInv, TypeOK, Shape, UseInv,
      ExclusiveUse, NoneLost, Holds
<1>16. ASSUME NEW p \in Callers, NEW ok \in BOOLEAN, streamClosed(p, ok) PROVE UseInv'
  <2>1. sess[p] \in Sessions
    BY <1>16, HasSession DEF streamClosed
  <2>2. Closing /\ (Close(sess[p]) => stage'[sess[p]] # "open")
    BY <1>16, <2>1, CloseEffect DEF streamClosed, Closing, TypeInv
  <2> QED BY <1>16, <2>1, <2>2 DEF streamClosed, Closing, client, pool, caller, ending, TypeInv,
      TypeOK, Shape, UseInv, ExclusiveUse, NoneLost, Holds
<1>17. ASSUME NEW s \in Sessions, RemoveIdle(s) PROVE UseInv'
  BY <1>17 DEF RemoveIdle, client, pool, caller, ending, TypeInv, TypeOK, Shape, UseInv,
      ExclusiveUse, NoneLost, Holds
<1>18. ASSUME NEW s \in Sessions, DeleteSession(s) PROVE UseInv'
  BY <1>18 DEF DeleteSession, client, pool, caller, ending, TypeInv, TypeOK, Shape, UseInv,
      ExclusiveUse, NoneLost, Holds
<1>19. ASSUME NEW s \in Sessions, CloseStreams(s) PROVE UseInv'
  BY <1>19 DEF CloseStreams, client, pool, caller, ending, Refs, TypeInv, TypeOK, Shape, UseInv,
      ExclusiveUse, NoneLost, Holds
<1>20. ASSUME NEW s \in Sessions, closeLocally(s) PROVE UseInv'
  BY <1>20 DEF closeLocally, dieOnce, client, pool, caller, ending, Refs, TypeInv, TypeOK,
      Shape, UseInv, ExclusiveUse, NoneLost, Holds
<1>21. ASSUME NEW s \in Sessions, SessionFails(s) PROVE UseInv'
  <2>1. Closing /\ stage'[s] # "open"
    BY <1>21, CloseEffect DEF SessionFails, TypeInv
  <2> QED BY <1>21, <2>1 DEF SessionFails, Closing, client, pool, caller, ending, TypeInv,
      TypeOK, Shape, UseInv, ExclusiveUse, NoneLost, Holds
<1>22. ASSUME NEW s \in Sessions, SweepNext(s) PROVE UseInv'
  <2>1. Closing /\ stage'[s] # "open"
    BY <1>22, CloseEffect DEF SweepNext, TypeInv
  <2> QED BY <1>22, <2>1 DEF SweepNext, Closing, client, pool, caller, ending, TypeInv, TypeOK,
      Shape, UseInv, ExclusiveUse, NoneLost, Holds
<1>23. ASSUME NEW s \in Sessions, CloseNext(s) PROVE UseInv'
  <2>1. Closing /\ stage'[s] # "open"
    BY <1>23, CloseEffect DEF CloseNext, TypeInv
  <2> QED BY <1>23, <2>1 DEF CloseNext, Closing, client, pool, caller, ending, TypeInv, TypeOK,
      Shape, UseInv, ExclusiveUse, NoneLost, Holds
<1>24. ASSUME NEW e \in SUBSET idle, idleCleanup(e) PROVE UseInv'
  <2> DEFINE x == Expired(e)
  <2>1. x \subseteq idle
    BY OnlyExpired
  <2>2. /\ idle' = idle \ x /\ sweep' = x /\ sweep = {} /\ cleaner' = "sweep"
        /\ UNCHANGED <<stage, lost, pc, sess, stream, ender>>
    BY <1>24 DEF idleCleanup, UseInv, caller, ending
  <2> HIDE DEF x
  <2> QED BY <2>1, <2>2 DEF TypeInv, TypeOK, Shape, UseInv, ExclusiveUse, NoneLost, Holds
<1>25. ASSUME SweepDone PROVE UseInv'
  BY <1>25 DEF SweepDone, client, pool, caller, ending, TypeInv, TypeOK, Shape, UseInv,
      ExclusiveUse, NoneLost, Holds
<1>26. ASSUME ClientClose PROVE UseInv'
  BY <1>26 DEF ClientClose, client, pool, caller, ending, TypeInv, TypeOK, Shape, UseInv,
      ExclusiveUse, NoneLost, Holds
<1>27. ASSUME SwapSessions PROVE UseInv'
  BY <1>27 DEF SwapSessions, client, pool, caller, ending, TypeInv, TypeOK, Shape, UseInv,
      ExclusiveUse, NoneLost, Holds
<1>28. ASSUME ClosedAll PROVE UseInv'
  BY <1>28 DEF ClosedAll, client, pool, caller, ending, TypeInv, TypeOK, Shape, UseInv,
      ExclusiveUse, NoneLost, Holds
<1>29. CASE UNCHANGED vars
  BY <1>29 DEF vars, client, pool, caller, ending, TypeInv, TypeOK, Shape, UseInv, ExclusiveUse,
      NoneLost, Holds
<1> QED BY <1>1, <1>2, <1>3, <1>4, <1>5, <1>6, <1>7, <1>8, <1>9, <1>10, <1>11, <1>12, <1>13,
    <1>14, <1>15, <1>16, <1>17, <1>18, <1>19, <1>20, <1>21, <1>22, <1>23, <1>24, <1>25, <1>26,
    <1>27, <1>28, <1>29 DEF Next, Open, End, Session, Client

-----------------------------------------------------------------------------
(* The end of a session and of the client.                                 *)

\* An open stream is in the map of its session or in the hands of recvLoop, and Close
\* empties the maps.
Reachable ==
    /\ \A s \in Sessions : stage[s] \in {"streams", "done"} => s \notin sessions
    /\ \A s \in Sessions : stage[s] = "done" => streams[s] = {}
    /\ \A p \in Callers : stream[p] = "open" =>
         p \in streams[sess[p]] \/ recv[sess[p]] = p

\* Until Client.Close takes the sessions all open ones are in the map; those it has not
\* taken were dialled after die, and so no hook puts them into the idle list.
LateSessions ==
    /\ closer # "none" => die
    /\ closer # "closing" => left = {}
    /\ closer \in {"none", "swap"} => \A s \in Sessions : stage[s] = "open" => s \in sessions
    /\ closer \in {"closing", "done"} =>
         \A s \in Sessions : stage[s] = "open" =>
            s \in left \/ (s \notin idle /\ \A p \in Callers : sess[p] = s => ender[p] # "insert")

(* Every step keeps Reachable. *)
LEMMA ReachableStep ==
  ASSUME TypeInv, Made, Refs, Reachable, [Next]_vars
  PROVE  Reachable'
<1>1. ASSUME NEW p \in Callers, CreateStream(p) PROVE Reachable'
  BY <1>1 DEF CreateStream, client, pool, caller, ending, TypeInv, TypeOK, Shape, Reachable
<1>2. ASSUME NEW p \in Callers, getIdleSession(p) PROVE Reachable'
  <2>1. CASE idle = {}
    BY <1>2, <2>1 DEF getIdleSession, client, pool, caller, ending, TypeInv, TypeOK, Shape,
        Reachable
  <2>2. CASE idle # {}
    <3> DEFINE m == Max(idle)
    <3>1. /\ sess' = [sess EXCEPT ![p] = m] /\ idle' = idle \ {m} /\ pc[p] = "pick"
          /\ UNCHANGED <<client, sessions, stage, streams, recv, ending>>
      BY <1>2, <2>2 DEF getIdleSession
    <3> HIDE DEF m
    <3> QED BY <3>1 DEF client, pool, caller, ending, TypeInv, TypeOK, Shape, Reachable
  <2> QED BY <2>1, <2>2
<1>3. ASSUME NEW p \in Callers, createSession(p) PROVE Reachable'
  <2> DEFINE m == counter + 1
  <2>1. m \in Sessions /\ stage[m] = "none"
    BY <1>3, AnyTLSAssumption DEF createSession, TypeInv, TypeOK, Made, Sessions
  <2>2. m \notin idle
    BY <2>1 DEF Made
  <2>3. \A q \in Callers : sess[q] # m
    BY AnyTLSAssumption DEF TypeInv, TypeOK, Made
  <2>4. /\ pc' = [pc EXCEPT ![p] = "open"] /\ sess' = [sess EXCEPT ![p] = m]
        /\ stage' = [stage EXCEPT ![m] = "open"] /\ pc[p] = "dial"
        /\ sessions' = sessions \cup {m}
        /\ UNCHANGED <<die, closer, left, idle, streams, recv, stream, ender>>
    BY <1>3 DEF createSession, ending
  <2> HIDE DEF m
  <2> QED BY <2>1, <2>2, <2>3, <2>4 DEF TypeInv, TypeOK, Shape, Reachable
<1>4. ASSUME NEW p \in Callers, DialFails(p) PROVE Reachable'
  BY <1>4 DEF DialFails, client, pool, caller, ending, TypeInv, TypeOK, Shape, Reachable
<1>5. ASSUME NEW p \in Callers, OpenStream(p) PROVE Reachable'
  <2>1. sess[p] \in Sessions
    BY <1>5, HasSession DEF OpenStream
  <2>2. Closing /\ (Close(sess[p]) => stage'[sess[p]] # "open")
    BY <1>5, <2>1, CloseEffect DEF OpenStream, Fail, Closing, TypeInv
  <2> QED BY <1>5, <2>1, <2>2 DEF OpenStream, Fail, Closing, client, pool, caller, ending,
      TypeInv, TypeOK, Shape, Reachable
<1>6. ASSUME NEW p \in Callers, Register(p) PROVE Reachable'
  <2>1. sess[p] \in Sessions
    BY <1>6, HasSession DEF Register
  <2>2. CASE IsClosed(sess[p])
    <3>1. Closing
      BY <1>6, <2>1, <2>2, CloseEffect DEF Register, Fail, TypeInv
    <3>2. /\ UNCHANGED <<sessions, streams, recv, stream>>
          /\ sess' = [sess EXCEPT ![p] = 0] /\ stream[p] # "open"
      BY <1>6, <2>2 DEF Register, Fail, pool, TypeInv, Shape
    <3> QED BY <3>1, <3>2 DEF Closing, TypeInv, TypeOK, Shape, Reachable
  <2>3. CASE ~IsClosed(sess[p])
    <3>1. /\ streams' = [streams EXCEPT ![sess[p]] = @ \cup {p}]
          /\ stream' = [stream EXCEPT ![p] = "open"]
          /\ UNCHANGED <<sessions, recv, sess, stage>>
      BY <1>6, <2>3 DEF Register, pool
    <3>2. \A q \in Callers : stream[q] # "none" => sess[q] \in Sessions
      BY HasSession
    <3> QED BY <2>1, <2>3, <3>1, <3>2 DEF IsClosed, TypeInv, TypeOK, Shape, Reachable
  <2> QED BY <2>2, <2>3
<1>7. ASSUME NEW p \in Callers, SetHook(p) PROVE Reachable'
  BY <1>7 DEF SetHook, client, pool, caller, ending, TypeInv, TypeOK, Shape, Reachable
<1>8. ASSUME NEW p \in Callers, NEW ok \in BOOLEAN, WriteSYN(p, ok) PROVE Reachable'
  <2>1. sess[p] \in Sessions
    BY <1>8, HasSession DEF WriteSYN
  <2>2. Closing /\ (Close(sess[p]) => stage'[sess[p]] # "open")
    BY <1>8, <2>1, CloseEffect DEF WriteSYN, Fail, Closing, TypeInv
  <2> QED BY <1>8, <2>1, <2>2 DEF WriteSYN, Fail, Closing, client, pool, caller, ending,
      TypeInv, TypeOK, Shape, Reachable
<1>9. ASSUME NEW p \in Callers, StreamClose(p) PROVE Reachable'
  BY <1>9 DEF StreamClose, dieOnce, client, pool, caller, ending, TypeInv, TypeOK, Shape,
      Reachable
<1>10. ASSUME NEW p \in Callers, RecvError(p) PROVE Reachable'
  BY <1>10 DEF RecvError, dieOnce, client, pool, caller, ending, TypeInv, TypeOK, Shape,
      Reachable
<1>11. ASSUME NEW p \in Callers, RecvFIN(p) PROVE Reachable'
  BY <1>11, HasSession, AnyTLSAssumption DEF RecvFIN, client, pool, caller, ending, TypeInv,
      TypeOK, Shape, Reachable
<1>12. ASSUME NEW p \in Callers, DeleteStream(p) PROVE Reachable'
  BY <1>12, HasSession DEF DeleteStream, client, pool, caller, ending, TypeInv, TypeOK, Shape,
      Reachable
<1>13. ASSUME NEW p \in Callers, dieHook(p) PROVE Reachable'
  <2>1. sess[p] \in Sessions
    BY <1>13, HasSession DEF dieHook
  <2>2. Closing /\ (Close(sess[p]) => stage'[sess[p]] # "open")
    BY <1>13, <2>1, CloseEffect DEF dieHook, IsClosed, Closing, TypeInv
  <2> QED BY <1>13, <2>1, <2>2 DEF dieHook, IsClosed, Closing, client, pool, caller, ending,
      TypeInv, TypeOK, Shape, Reachable
<1>14. ASSUME NEW p \in Callers, Insert(p) PROVE Reachable'
  BY <1>14 DEF Insert, client, pool, caller, ending, TypeInv, TypeOK, Shape, Reachable
<1>15. ASSUME NEW p \in Callers, Leave(p) PROVE Reachable'
  BY <1>15 DEF Leave, client, pool, caller, ending, TypeInv, TypeOK, Shape, Reachable
<1>16. ASSUME NEW p \in Callers, NEW ok \in BOOLEAN, streamClosed(p, ok) PROVE Reachable'
  <2>1. sess[p] \in Sessions
    BY <1>16, HasSession DEF streamClosed
  <2>2. Closing /\ (Close(sess[p]) => stage'[sess[p]] # "open")
    BY <1>16, <2>1, CloseEffect DEF streamClosed, Closing, TypeInv
  <2> QED BY <1>16, <2>1, <2>2 DEF streamClosed, Closing, client, pool, caller, ending, TypeInv,
      TypeOK, Shape, Reachable
<1>17. ASSUME NEW s \in Sessions, RemoveIdle(s) PROVE Reachable'
  BY <1>17 DEF RemoveIdle, client, pool, caller, ending, TypeInv, TypeOK, Shape, Reachable
<1>18. ASSUME NEW s \in Sessions, DeleteSession(s) PROVE Reachable'
  BY <1>18 DEF DeleteSession, client, pool, caller, ending, TypeInv, TypeOK, Shape, Reachable
<1>19. ASSUME NEW s \in Sessions, CloseStreams(s) PROVE Reachable'
  BY <1>19 DEF CloseStreams, client, pool, caller, ending, Refs, TypeInv, TypeOK, Shape,
      Reachable
<1>20. ASSUME NEW s \in Sessions, closeLocally(s) PROVE Reachable'
  BY <1>20, AnyTLSAssumption DEF closeLocally, dieOnce, client, pool, caller, ending, Refs,
      TypeInv, TypeOK, Shape, Reachable
<1>21. ASSUME NEW s \in Sessions, SessionFails(s) PROVE Reachable'
  <2>1. Closing /\ stage'[s] # "open"
    BY <1>21, CloseEffect DEF SessionFails, TypeInv
  <2> QED BY <1>21, <2>1 DEF SessionFails, Closing, client, pool, caller, ending, TypeInv,
      TypeOK, Shape, Reachable
<1>22. ASSUME NEW s \in Sessions, SweepNext(s) PROVE Reachable'
  <2>1. Closing /\ stage'[s] # "open"
    BY <1>22, CloseEffect DEF SweepNext, TypeInv
  <2> QED BY <1>22, <2>1 DEF SweepNext, Closing, client, pool, caller, ending, TypeInv, TypeOK,
      Shape, Reachable
<1>23. ASSUME NEW s \in Sessions, CloseNext(s) PROVE Reachable'
  <2>1. Closing /\ stage'[s] # "open"
    BY <1>23, CloseEffect DEF CloseNext, TypeInv
  <2> QED BY <1>23, <2>1 DEF CloseNext, Closing, client, pool, caller, ending, TypeInv, TypeOK,
      Shape, Reachable
<1>24. ASSUME NEW e \in SUBSET idle, idleCleanup(e) PROVE Reachable'
  BY <1>24 DEF idleCleanup, client, pool, caller, ending, TypeInv, TypeOK, Shape, Reachable
<1>25. ASSUME SweepDone PROVE Reachable'
  BY <1>25 DEF SweepDone, client, pool, caller, ending, TypeInv, TypeOK, Shape, Reachable
<1>26. ASSUME ClientClose PROVE Reachable'
  BY <1>26 DEF ClientClose, client, pool, caller, ending, TypeInv, TypeOK, Shape, Reachable
<1>27. ASSUME SwapSessions PROVE Reachable'
  BY <1>27 DEF SwapSessions, client, pool, caller, ending, TypeInv, TypeOK, Shape, Reachable
<1>28. ASSUME ClosedAll PROVE Reachable'
  BY <1>28 DEF ClosedAll, client, pool, caller, ending, TypeInv, TypeOK, Shape, Reachable
<1>29. CASE UNCHANGED vars
  BY <1>29 DEF vars, client, pool, caller, ending, TypeInv, TypeOK, Shape, Reachable
<1> QED BY <1>1, <1>2, <1>3, <1>4, <1>5, <1>6, <1>7, <1>8, <1>9, <1>10, <1>11, <1>12, <1>13,
    <1>14, <1>15, <1>16, <1>17, <1>18, <1>19, <1>20, <1>21, <1>22, <1>23, <1>24, <1>25, <1>26,
    <1>27, <1>28, <1>29 DEF Next, Open, End, Session, Client

(* Every step keeps LateSessions. *)
LEMMA LateStep ==
  ASSUME TypeInv, Made, Refs, LateSessions, [Next]_vars
  PROVE  LateSessions'
<1>1. ASSUME NEW p \in Callers, CreateStream(p) PROVE LateSessions'
  BY <1>1 DEF CreateStream, client, pool, caller, ending, TypeInv, TypeOK, Shape, LateSessions
<1>2. ASSUME NEW p \in Callers, getIdleSession(p) PROVE LateSessions'
  <2>1. CASE idle = {}
    BY <1>2, <2>1 DEF getIdleSession, client, pool, caller, ending, TypeInv, TypeOK, Shape,
        LateSessions
  <2>2. CASE idle # {}
    <3> DEFINE m == Max(idle)
    <3>1. /\ sess' = [sess EXCEPT ![p] = m] /\ idle' = idle \ {m} /\ pc[p] = "pick"
          /\ UNCHANGED <<client, sessions, stage, streams, recv, ending>>
      BY <1>2, <2>2 DEF getIdleSession
    <3> HIDE DEF m
    <3> QED BY <3>1 DEF client, pool, caller, ending, TypeInv, TypeOK, Shape, LateSessions
  <2> QED BY <2>1, <2>2
<1>3. ASSUME NEW p \in Callers, createSession(p) PROVE LateSessions'
  <2> DEFINE m == counter + 1
  <2>1. m \in Sessions /\ stage[m] = "none"
    BY <1>3, AnyTLSAssumption DEF createSession, TypeInv, TypeOK, Made, Sessions
  <2>2. m \notin idle
    BY <2>1 DEF Made
  <2>3. \A q \in Callers : sess[q] # m
    BY AnyTLSAssumption DEF TypeInv, TypeOK, Made
  <2>4. /\ pc' = [pc EXCEPT ![p] = "open"] /\ sess' = [sess EXCEPT ![p] = m]
        /\ stage' = [stage EXCEPT ![m] = "open"] /\ pc[p] = "dial"
        /\ sessions' = sessions \cup {m}
        /\ UNCHANGED <<die, closer, left, idle, streams, recv, stream, ender>>
    BY <1>3 DEF createSession, ending
  <2> HIDE DEF m
  <2> QED BY <2>1, <2>2, <2>3, <2>4 DEF TypeInv, TypeOK, Shape, LateSessions
<1>4. ASSUME NEW p \in Callers, DialFails(p) PROVE LateSessions'
  BY <1>4 DEF DialFails, client, pool, caller, ending, TypeInv, TypeOK, Shape, LateSessions
<1>5. ASSUME NEW p \in Callers, OpenStream(p) PROVE LateSessions'
  <2>1. sess[p] \in Sessions
    BY <1>5, HasSession DEF OpenStream
  <2>2. Closing /\ (Close(sess[p]) => stage'[sess[p]] # "open")
    BY <1>5, <2>1, CloseEffect DEF OpenStream, Fail, Closing, TypeInv
  <2> QED BY <1>5, <2>1, <2>2 DEF OpenStream, Fail, Closing, client, pool, caller, ending,
      TypeInv, TypeOK, Shape, LateSessions
<1>6. ASSUME NEW p \in Callers, Register(p) PROVE LateSessions'
  <2>1. sess[p] \in Sessions
    BY <1>6, HasSession DEF Register
  <2>2. Closing /\ (Close(sess[p]) => stage'[sess[p]] # "open")
    BY <1>6, <2>1, CloseEffect DEF Register, Fail, Closing, TypeInv
  <2> QED BY <1>6, <2>1, <2>2 DEF Register, Fail, IsClosed, Closing, client, pool, caller,
      ending, TypeInv, TypeOK, Shape, LateSessions
<1>7. ASSUME NEW p \in Callers, SetHook(p) PROVE LateSessions'
  BY <1>7 DEF SetHook, client, pool, caller, ending, TypeInv, TypeOK, Shape, LateSessions
<1>8. ASSUME NEW p \in Callers, NEW ok \in BOOLEAN, WriteSYN(p, ok) PROVE LateSessions'
  <2>1. sess[p] \in Sessions
    BY <1>8, HasSession DEF WriteSYN
  <2>2. Closing /\ (Close(sess[p]) => stage'[sess[p]] # "open")
    BY <1>8, <2>1, CloseEffect DEF WriteSYN, Fail, Closing, TypeInv
  <2> QED BY <1>8, <2>1, <2>2 DEF WriteSYN, Fail, Closing, client, pool, caller, ending,
      TypeInv, TypeOK, Shape, LateSessions
<1>9. ASSUME NEW p \in Callers, StreamClose(p) PROVE LateSessions'
  BY <1>9 DEF StreamClose, dieOnce, client, pool, caller, ending, TypeInv, TypeOK, Shape,
      LateSessions
<1>10. ASSUME NEW p \in Callers, RecvError(p) PROVE LateSessions'
  BY <1>10 DEF RecvError, dieOnce, client, pool, caller, ending, TypeInv, TypeOK, Shape,
      LateSessions
<1>11. ASSUME NEW p \in Callers, RecvFIN(p) PROVE LateSessions'
  BY <1>11 DEF RecvFIN, client, pool, caller, ending, TypeInv, TypeOK, Shape, LateSessions
<1>12. ASSUME NEW p \in Callers, DeleteStream(p) PROVE LateSessions'
  BY <1>12 DEF DeleteStream, client, pool, caller, ending, TypeInv, TypeOK, Shape, LateSessions
<1>13. ASSUME NEW p \in Callers, dieHook(p) PROVE LateSessions'
  <2>1. sess[p] \in Sessions
    BY <1>13, HasSession DEF dieHook
  <2>2. Closing /\ (Close(sess[p]) => stage'[sess[p]] # "open")
    BY <1>13, <2>1, CloseEffect DEF dieHook, IsClosed, Closing, TypeInv
  <2> QED BY <1>13, <2>1, <2>2 DEF dieHook, IsClosed, Closing, client, pool, caller, ending,
      TypeInv, TypeOK, Shape, LateSessions
<1>14. ASSUME NEW p \in Callers, Insert(p) PROVE LateSessions'
  BY <1>14 DEF Insert, client, pool, caller, ending, TypeInv, TypeOK, Shape, LateSessions
<1>15. ASSUME NEW p \in Callers, Leave(p) PROVE LateSessions'
  BY <1>15 DEF Leave, client, pool, caller, ending, TypeInv, TypeOK, Shape, LateSessions
<1>16. ASSUME NEW p \in Callers, NEW ok \in BOOLEAN, streamClosed(p, ok) PROVE LateSessions'
  <2>1. sess[p] \in Sessions
    BY <1>16, HasSession DEF streamClosed
  <2>2. Closing /\ (Close(sess[p]) => stage'[sess[p]] # "open")
    BY <1>16, <2>1, CloseEffect DEF streamClosed, Closing, TypeInv
  <2> QED BY <1>16, <2>1, <2>2 DEF streamClosed, Closing, client, pool, caller, ending, TypeInv,
      TypeOK, Shape, LateSessions
<1>17. ASSUME NEW s \in Sessions, RemoveIdle(s) PROVE LateSessions'
  BY <1>17 DEF RemoveIdle, client, pool, caller, ending, TypeInv, TypeOK, Shape, LateSessions
<1>18. ASSUME NEW s \in Sessions, DeleteSession(s) PROVE LateSessions'
  BY <1>18 DEF DeleteSession, client, pool, caller, ending, TypeInv, TypeOK, Shape, LateSessions
<1>19. ASSUME NEW s \in Sessions, CloseStreams(s) PROVE LateSessions'
  BY <1>19 DEF CloseStreams, client, pool, caller, ending, TypeInv, TypeOK, Shape, LateSessions
<1>20. ASSUME NEW s \in Sessions, closeLocally(s) PROVE LateSessions'
  BY <1>20 DEF closeLocally, dieOnce, client, pool, caller, ending, TypeInv, TypeOK, Shape,
      LateSessions
<1>21. ASSUME NEW s \in Sessions, SessionFails(s) PROVE LateSessions'
  <2>1. Closing /\ stage'[s] # "open"
    BY <1>21, CloseEffect DEF SessionFails, TypeInv
  <2> QED BY <1>21, <2>1 DEF SessionFails, Closing, client, pool, caller, ending, TypeInv,
      TypeOK, Shape, LateSessions
<1>22. ASSUME NEW s \in Sessions, SweepNext(s) PROVE LateSessions'
  <2>1. Closing /\ stage'[s] # "open"
    BY <1>22, CloseEffect DEF SweepNext, TypeInv
  <2> QED BY <1>22, <2>1 DEF SweepNext, Closing, client, pool, caller, ending, TypeInv, TypeOK,
      Shape, LateSessions
<1>23. ASSUME NEW s \in Sessions, CloseNext(s) PROVE LateSessions'
  <2>1. Closing /\ stage'[s] # "open"
    BY <1>23, CloseEffect DEF CloseNext, TypeInv
  <2> QED BY <1>23, <2>1 DEF CloseNext, Closing, client, pool, caller, ending, TypeInv, TypeOK,
      Shape, LateSessions
<1>24. ASSUME NEW e \in SUBSET idle, idleCleanup(e) PROVE LateSessions'
  BY <1>24, OnlyExpired DEF idleCleanup, client, pool, caller, ending, TypeInv, TypeOK, Shape,
      LateSessions
<1>25. ASSUME SweepDone PROVE LateSessions'
  BY <1>25 DEF SweepDone, client, pool, caller, ending, TypeInv, TypeOK, Shape, LateSessions
<1>26. ASSUME ClientClose PROVE LateSessions'
  BY <1>26 DEF ClientClose, client, pool, caller, ending, TypeInv, TypeOK, Shape, LateSessions
<1>27. ASSUME SwapSessions PROVE LateSessions'
  BY <1>27 DEF SwapSessions, client, pool, caller, ending, TypeInv, TypeOK, Shape, LateSessions
<1>28. ASSUME ClosedAll PROVE LateSessions'
  BY <1>28 DEF ClosedAll, client, pool, caller, ending, TypeInv, TypeOK, Shape, LateSessions
<1>29. CASE UNCHANGED vars
  BY <1>29 DEF vars, client, pool, caller, ending, TypeInv, TypeOK, Shape, LateSessions
<1> QED BY <1>1, <1>2, <1>3, <1>4, <1>5, <1>6, <1>7, <1>8, <1>9, <1>10, <1>11, <1>12, <1>13,
    <1>14, <1>15, <1>16, <1>17, <1>18, <1>19, <1>20, <1>21, <1>22, <1>23, <1>24, <1>25, <1>26,
    <1>27, <1>28, <1>29 DEF Next, Open, End, Session, Client

-----------------------------------------------------------------------------
(* The theorems.                                                           *)

PoolInv == TypeInv /\ Made /\ Refs /\ UseInv /\ Reachable /\ LateSessions

(* The inductive invariant holds from the start. *)
LEMMA PoolInit == Init => PoolInv
<1> SUFFICES ASSUME Init PROVE PoolInv
  OBVIOUS
<1>1. TypeInv
  BY TypeInit
<1>2. Made
  BY AnyTLSAssumption DEF Init, Made, Sessions
<1>3. Refs
  BY AnyTLSAssumption DEF Init, Refs
<1>4. UseInv
  BY DEF Init, UseInv, ExclusiveUse, NoneLost
<1>5. Reachable
  BY DEF Init, Reachable
<1>6. LateSessions
  BY DEF Init, LateSessions
<1> QED BY <1>1, <1>2, <1>3, <1>4, <1>5, <1>6 DEF PoolInv

(* The inductive invariant always holds. *)
LEMMA PoolAlways == Spec => []PoolInv
<1>1. PoolInv /\ [Next]_vars => PoolInv'
  BY TypeStep, MadeStep, RefsStep, UseStep, ReachableStep, LateStep DEF PoolInv
<1> QED BY PoolInit, <1>1, PTL DEF Spec

(* Sessions, streams and callers stay within their types (client.go, session.go,
   stream.go). *)
THEOREM TypeCorrect == Spec => []TypeOK
<1>1. PoolInv => TypeOK
  BY DEF PoolInv, TypeInv
<1> QED BY PoolAlways, <1>1, PTL

(* An open session serves one stream at a time, and none while it is idle or swept
   (client.go, getIdleSession and dieHook). *)
THEOREM OneStreamAtATime == Spec => []ExclusiveUse
<1>1. PoolInv => ExclusiveUse
  BY DEF PoolInv, UseInv
<1> QED BY PoolAlways, <1>1, PTL

(* Only a stream that ends before it has its hook makes the pool lose an open session
   (client.go, CreateStream). *)
THEOREM PoolKeepsSessions == Spec => []NoneLost
<1>1. PoolInv => NoneLost
  BY DEF PoolInv, UseInv
<1> QED BY PoolAlways, <1>1, PTL

(* A closed session is out of the map and has no open stream, whatever OpenStream,
   recvLoop and Close do to each other (session.go). *)
THEOREM CloseIsComplete == Spec => []ClosedIsForgotten
<1>1. PoolInv => ClosedIsForgotten
  BY DEF PoolInv, Reachable, ClosedIsForgotten
<1> QED BY PoolAlways, <1>1, PTL

(* After Client.Close the idle list holds no open session, though streams end and dials
   finish during Close (client.go, Close). *)
THEOREM ClientCloseIsComplete == Spec => []ClosedWithClient
<1>1. PoolInv => ClosedWithClient
  <2> SUFFICES ASSUME PoolInv, closer = "done", NEW s \in idle PROVE IsClosed(s)
    BY DEF ClosedWithClient
  <2>1. s \in Sessions /\ left = {}
    BY DEF PoolInv, TypeInv, TypeOK, LateSessions
  <2> QED BY <2>1 DEF PoolInv, LateSessions, IsClosed
<1> QED BY PoolAlways, <1>1, PTL

-----------------------------------------------------------------------------
(* The minimum of idle sessions.                                           *)

(* The idle list is finite. *)
LEMMA IdleFinite ==
  ASSUME NEW n \in Nat, NEW S \in SUBSET (1..n)
  PROVE  IsFiniteSet(S) /\ Cardinality(S) \in Nat
<1>1. IsFiniteSet(1..n)
  BY FS_Interval
<1>2. IsFiniteSet(S)
  BY <1>1, FS_Subset
<1> QED BY <1>2, FS_CardinalityType

(* Everything newer than the newest session that the loop of idleCleanupExpTime takes
   stays in the list, and that is MinIdle sessions at least. *)
LEMMA SweepKeeps ==
  ASSUME AnyTLSAssumption, NEW e \in SUBSET idle, idle \subseteq Sessions, Expired(e) # {}
  PROVE  Cardinality(idle \ Expired(e)) >= MinIdle
<1> DEFINE gone == Expired(e)
           s == Max(gone)
           newer == {t \in idle : t > s}
           kept == idle \ gone
<1>1. MaxSessions \in Nat /\ gone \in SUBSET (1..MaxSessions) /\ gone # {}
  BY OnlyExpired DEF AnyTLSAssumption, Sessions
<1>2. s \in gone /\ \A y \in gone : s >= y
  <2> HIDE DEF gone
  <2> QED BY <1>1, Greatest
<1>3. Cardinality(newer) >= MinIdle
  BY <1>2 DEF Expired
<1>4. newer \subseteq kept
  <2> SUFFICES ASSUME NEW t \in idle, t > s, t \in gone PROVE FALSE
    OBVIOUS
  <2>1. s >= t
    BY <1>2
  <2>2. s \in 1..MaxSessions /\ t \in 1..MaxSessions
    BY <1>1, <1>2
  <2> HIDE DEF s
  <2> QED BY <2>1, <2>2
<1>5. kept \in SUBSET (1..MaxSessions) /\ newer \in SUBSET (1..MaxSessions)
  BY DEF Sessions
<1> HIDE DEF kept, newer
<1>6. IsFiniteSet(kept) /\ Cardinality(kept) \in Nat /\ Cardinality(newer) \in Nat
  BY <1>1, <1>5, IdleFinite
<1>7. Cardinality(newer) <= Cardinality(kept)
  BY <1>4, <1>6, FS_Subset
<1>8. Cardinality(kept) >= MinIdle
  BY <1>3, <1>6, <1>7 DEF AnyTLSAssumption
<1> QED BY <1>8 DEF kept

(* A step that fills the list of sessions to close is a sweep of the idle list. *)
LEMMA SweepStarts ==
  ASSUME TypeInv, Next, sweep = {}, sweep' # {}
  PROVE  \E e \in SUBSET idle : idle' = idle \ Expired(e) /\ Expired(e) # {}
<1>1. \A p \in Callers : ~(Open(p) \/ End(p))
  BY DEF Open, End, CreateStream, getIdleSession, createSession, DialFails, OpenStream,
         Register, SetHook, WriteSYN, StreamClose, RecvError, RecvFIN, DeleteStream, dieHook,
         Insert, Leave, streamClosed, client
<1>2. \A s \in Sessions : ~Session(s)
  BY DEF Session, RemoveIdle, DeleteSession, CloseStreams, closeLocally, SessionFails,
         SweepNext, CloseNext, client
<1>3. Client
  BY <1>1, <1>2 DEF Next
<1>4. PICK e \in SUBSET idle : idleCleanup(e)
  BY <1>3 DEF Client, SweepDone, ClientClose, SwapSessions, ClosedAll
<1> QED BY <1>4 DEF idleCleanup

(* One sweep leaves the pool MinIdle sessions, if it had them, however old they are
   (client.go, idleCleanupExpTime). *)
THEOREM MinimumIsKept == Spec => MinimumKept
<1>1. ASSUME PoolInv, [Next]_vars, sweep = {}, sweep' # {}
      PROVE  Cardinality(idle') >= IF Cardinality(idle) < MinIdle THEN Cardinality(idle)
                                   ELSE MinIdle
  <2>1. Next
    BY <1>1 DEF vars, client
  <2>2. PICK e \in SUBSET idle : idle' = idle \ Expired(e) /\ Expired(e) # {}
    BY <1>1, <2>1, SweepStarts DEF PoolInv
  <2>3. idle \subseteq Sessions
    BY <1>1 DEF PoolInv, TypeInv, TypeOK
  <2>4. Cardinality(idle') >= MinIdle
    BY <2>2, <2>3, SweepKeeps, AnyTLSAssumption
  <2>5. Cardinality(idle') \in Nat /\ Cardinality(idle) \in Nat
    BY <2>2, <2>3, IdleFinite, AnyTLSAssumption DEF AnyTLSAssumption, Sessions
  <2> QED BY <2>4, <2>5, AnyTLSAssumption DEF AnyTLSAssumption
<1> QED BY PoolAlways, <1>1, PTL DEF Spec, MinimumKept
=============================================================================
