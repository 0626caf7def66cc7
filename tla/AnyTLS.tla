------------------------------- MODULE AnyTLS -------------------------------
(***************************************************************************)
(* The client of AnyTLS: its pool of sessions                              *)
(* (transport/anytls/session/client.go) with the life of a session         *)
(* (session.go) and of its streams (stream.go).                            *)
(*                                                                         *)
(* Sessions are named by their seq.  A caller has one stream at a time,    *)
(* named after the caller; a user of several streams is several callers.   *)
(* Who wins the dieOnce of a session or stream runs its hook; that is an   *)
(* activity of its own here (stage, ender), so the winner need not wait.   *)
(***************************************************************************)
EXTENDS Integers, FiniteSets, FiniteSetsExt

CONSTANTS
    Callers,
    None,
    MinIdle,       \* Client.minIdleSession
    MaxSessions    \* bound: sessions that are dialled

ASSUME AnyTLSAssumption ==
    /\ None \notin Callers
    /\ MinIdle \in Nat /\ MaxSessions \in Nat

Sessions == 1..MaxSessions

VARIABLES
    reuse,         \* ~Client.disableReuse
    die,           \* Client.die
    closer,        \* where Client.Close is
    left,          \* its sessionToClose
    cleaner,       \* the routine that runs idleCleanup
    sweep,         \* its sessionToClose
    counter,       \* Client.sessionCounter
    sessions,      \* Client.sessions
    idle,          \* Client.idleSession
    stage,         \* of each session: not made, open, or where its Close is
    streams,       \* Session.streams
    recv,          \* the stream whose FIN recvLoop is handling
    pc,            \* where each caller is in CreateStream
    sess,          \* its session
    stream,        \* its stream: none, open, or dead (dieOnce done)
    hook,          \* Stream.dieHook is set
    ender,         \* where the end of its stream is
    lost           \* history: sessions whose stream ended before it had a hook

pool == <<sessions, idle>>
client == <<reuse, die, closer, left, cleaner, sweep, counter, lost>>
caller == <<pc, sess>>
ending == <<stream, hook, ender>>
vars == <<client, pool, stage, streams, recv, caller, ending>>

Init ==
    /\ reuse \in BOOLEAN /\ die = FALSE
    /\ closer = "none" /\ left = {}
    /\ cleaner = (IF reuse THEN "sleep" ELSE "off") /\ sweep = {}
    /\ counter = 0 /\ sessions = {} /\ idle = {} /\ lost = {}
    /\ stage = [s \in Sessions |-> "none"]
    /\ streams = [s \in Sessions |-> {}]
    /\ recv = [s \in Sessions |-> None]
    /\ pc = [p \in Callers |-> "idle"]
    /\ sess = [p \in Callers |-> 0]
    /\ stream = [p \in Callers |-> "none"]
    /\ hook = [p \in Callers |-> FALSE]
    /\ ender = [p \in Callers |-> "none"]

-----------------------------------------------------------------------------
(* Session.Close.                                                          *)

IsClosed(s) == stage[s] # "open"

\* The dieOnce of Close; Session.dieHook and the streams follow.
Close(s) == stage' = IF IsClosed(s) THEN stage
                     ELSE [stage EXCEPT ![s] = IF reuse THEN "idle" ELSE "sessions"]

RemoveIdle(s) ==
    /\ stage[s] = "idle"
    /\ idle' = idle \ {s}
    /\ stage' = [stage EXCEPT ![s] = "sessions"]
    /\ UNCHANGED <<client, sessions, streams, recv, caller, ending>>

DeleteSession(s) ==
    /\ stage[s] = "sessions"
    /\ sessions' = sessions \ {s}
    /\ stage' = [stage EXCEPT ![s] = "streams"]
    /\ UNCHANGED <<client, idle, streams, recv, caller, ending>>

\* closeLocally for every stream, under streamLock.
CloseStreams(s) ==
    /\ stage[s] = "streams"
    /\ LET open == {p \in streams[s] : stream[p] = "open"}
       IN  /\ stream' = [p \in Callers |-> IF p \in open THEN "dead" ELSE stream[p]]
           /\ ender' = [p \in Callers |-> IF p \in open THEN "hook" ELSE ender[p]]
    /\ streams' = [streams EXCEPT ![s] = {}]
    /\ stage' = [stage EXCEPT ![s] = "done"]
    /\ UNCHANGED <<client, pool, recv, caller, hook>>

-----------------------------------------------------------------------------
(* CreateStream, getIdleSession, createSession and OpenStream.             *)

CreateStream(p) ==
    /\ pc[p] = "idle" /\ ender[p] = "none" /\ stream[p] = "none"
    /\ ~die
    /\ pc' = [pc EXCEPT ![p] = IF reuse THEN "pick" ELSE "dial"]
    /\ UNCHANGED <<client, pool, stage, streams, recv, sess, ending>>

\* Mutant: the session stays in the list.
getIdleSession_Peek(p) ==
    /\ pc[p] = "pick"
    /\ IF idle = {}
       THEN /\ pc' = [pc EXCEPT ![p] = "dial"]
            /\ UNCHANGED sess
       ELSE /\ sess' = [sess EXCEPT ![p] = Max(idle)]
            /\ pc' = [pc EXCEPT ![p] = "open"]
    /\ UNCHANGED <<client, pool, stage, streams, recv, ending>>

\* The key of the list is MaxUint64 - seq: the newest session comes first.
getIdleSession(p) ==
    /\ pc[p] = "pick"
    /\ IF idle = {}
       THEN /\ pc' = [pc EXCEPT ![p] = "dial"]
            /\ UNCHANGED <<idle, sess>>
       ELSE /\ sess' = [sess EXCEPT ![p] = Max(idle)]
            /\ idle' = idle \ {Max(idle)}
            /\ pc' = [pc EXCEPT ![p] = "open"]
    /\ UNCHANGED <<client, sessions, stage, streams, recv, ending>>

\* The dial of createSession, which succeeds, and the new session in the map.
createSession(p) ==
    /\ pc[p] = "dial" /\ counter < MaxSessions
    /\ counter' = counter + 1
    /\ sess' = [sess EXCEPT ![p] = counter + 1]
    /\ sessions' = sessions \cup {counter + 1}
    /\ stage' = [stage EXCEPT ![counter + 1] = "open"]
    /\ pc' = [pc EXCEPT ![p] = "open"]
    /\ UNCHANGED <<reuse, die, closer, left, cleaner, sweep, lost, idle, streams, recv,
                   ending>>

DialFails(p) ==
    /\ pc[p] = "dial"
    /\ pc' = [pc EXCEPT ![p] = "idle"]
    /\ UNCHANGED <<client, pool, stage, streams, recv, sess, ending>>

\* OpenStream fails, and CreateStream closes the session.
Fail(p) ==
    /\ pc' = [pc EXCEPT ![p] = "idle"] /\ sess' = [sess EXCEPT ![p] = 0]
    /\ Close(sess[p])

OpenStream(p) ==
    /\ pc[p] = "open"
    /\ IF IsClosed(sess[p]) THEN Fail(p)
       ELSE pc' = [pc EXCEPT ![p] = "syn"] /\ UNCHANGED <<sess, stage>>
    /\ UNCHANGED <<client, pool, streams, recv, ending>>

\* writeControlFrame(cmdSYN).
WriteSYN(p, ok) ==
    /\ pc[p] = "syn"
    /\ IF ok THEN pc' = [pc EXCEPT ![p] = "register"] /\ UNCHANGED <<sess, stage>>
       ELSE Fail(p)
    /\ UNCHANGED <<client, pool, streams, recv, ending>>

\* Mutant: the session is not looked at again under streamLock.
Register_Unchecked(p) ==
    /\ pc[p] = "register"
    /\ streams' = [streams EXCEPT ![sess[p]] = @ \cup {p}]
    /\ stream' = [stream EXCEPT ![p] = "open"]
    /\ pc' = [pc EXCEPT ![p] = "hook"]
    /\ UNCHANGED <<client, pool, stage, recv, sess, hook, ender>>

\* The end of OpenStream, under streamLock.
Register(p) ==
    /\ pc[p] = "register"
    /\ IF IsClosed(sess[p])
       THEN Fail(p) /\ UNCHANGED <<streams, stream>>
       ELSE /\ streams' = [streams EXCEPT ![sess[p]] = @ \cup {p}]
            /\ stream' = [stream EXCEPT ![p] = "open"]
            /\ pc' = [pc EXCEPT ![p] = "hook"]
            /\ UNCHANGED <<sess, stage>>
    /\ UNCHANGED <<client, pool, recv, hook, ender>>

\* stream.dieHook = func() ...; the stream may have ended by now.
SetHook(p) ==
    /\ pc[p] = "hook"
    /\ hook' = [hook EXCEPT ![p] = TRUE]
    /\ pc' = [pc EXCEPT ![p] = "using"]
    /\ UNCHANGED <<client, pool, stage, streams, recv, sess, stream, ender>>

-----------------------------------------------------------------------------
(* The end of a stream.                                                    *)

\* The dieOnce of closeWithError and of closeLocally.
dieOnce(p, next) ==
    /\ stream' = [stream EXCEPT ![p] = "dead"]
    /\ ender' = [ender EXCEPT ![p] = next]

\* The user closes the stream.
StreamClose(p) ==
    /\ pc[p] = "using" /\ stream[p] = "open"
    /\ dieOnce(p, "fin")
    /\ UNCHANGED <<client, pool, stage, streams, recv, caller, hook>>

\* recvLoop gets a SYNACK that carries an error.  The peer may know a stream whose caller
\* is still in CreateStream: once buffering is off, any frame, the answer to a heartbeat
\* too, flushes the SYN.
RecvError(p) ==
    /\ stream[p] = "open" /\ p \in streams[sess[p]] /\ recv[sess[p]] = None
    /\ dieOnce(p, "fin")
    /\ UNCHANGED <<client, pool, stage, streams, recv, caller, hook>>

\* recvLoop gets a FIN: the stream leaves the map, and is closed after that.
RecvFIN(p) ==
    /\ stream[p] # "none" /\ p \in streams[sess[p]] /\ recv[sess[p]] = None
    /\ streams' = [streams EXCEPT ![sess[p]] = @ \ {p}]
    /\ recv' = [recv EXCEPT ![sess[p]] = p]
    /\ UNCHANGED <<client, pool, stage, caller, ending>>

closeLocally(s) ==
    /\ recv[s] # None
    /\ recv' = [recv EXCEPT ![s] = None]
    /\ IF stream[recv[s]] = "open" THEN dieOnce(recv[s], "hook")
       ELSE UNCHANGED <<stream, ender>>
    /\ UNCHANGED <<client, pool, stage, streams, caller, hook>>

\* streamClosed: the FIN, unless the session is closed.
streamClosed(p, ok) ==
    /\ ender[p] = "fin"
    /\ IF IsClosed(sess[p])
       THEN ender' = [ender EXCEPT ![p] = "hook"] /\ UNCHANGED stage
       ELSE /\ ender' = [ender EXCEPT ![p] = "delete"]
            /\ IF ok THEN UNCHANGED stage ELSE Close(sess[p])
    /\ UNCHANGED <<client, pool, streams, recv, caller, stream, hook>>

DeleteStream(p) ==
    /\ ender[p] = "delete"
    /\ streams' = [streams EXCEPT ![sess[p]] = @ \ {p}]
    /\ ender' = [ender EXCEPT ![p] = "hook"]
    /\ UNCHANGED <<client, pool, stage, recv, caller, stream, hook>>

\* Mutant: the hook does not look whether the client is closed.
dieHook_NotClosed(p) ==
    /\ ender[p] = "hook"
    /\ LET s == sess[p]
           put == hook[p] /\ ~IsClosed(s) /\ reuse
       IN  /\ ender' = [ender EXCEPT ![p] = IF put THEN "insert" ELSE "none"]
           /\ IF hook[p] /\ ~put THEN Close(s) ELSE UNCHANGED stage
           /\ lost' = IF hook[p] \/ IsClosed(s) THEN lost ELSE lost \cup {s}
    /\ UNCHANGED <<reuse, die, closer, left, cleaner, sweep, counter, pool, streams, recv,
                   caller, stream, hook>>

\* Mutant: the hook forgets to close a session that is not to be used again.
dieHook_KeepsOpen(p) ==
    /\ ender[p] = "hook"
    /\ LET s == sess[p]
           put == hook[p] /\ ~IsClosed(s) /\ reuse /\ ~die
       IN  /\ ender' = [ender EXCEPT ![p] = IF put THEN "insert" ELSE "none"]
           /\ UNCHANGED stage
           /\ lost' = IF hook[p] \/ IsClosed(s) THEN lost ELSE lost \cup {s}
    /\ UNCHANGED <<reuse, die, closer, left, cleaner, sweep, counter, pool, streams, recv,
                   caller, stream, hook>>

\* Stream.dieHook, up to its lock; without a hook nothing happens.
dieHook(p) ==
    /\ ender[p] = "hook"
    /\ LET s == sess[p]
           put == hook[p] /\ ~IsClosed(s) /\ reuse /\ ~die
       IN  /\ ender' = [ender EXCEPT ![p] = IF put THEN "insert" ELSE "none"]
           /\ IF hook[p] /\ ~put THEN Close(s) ELSE UNCHANGED stage
           /\ lost' = IF hook[p] \/ IsClosed(s) THEN lost ELSE lost \cup {s}
    /\ UNCHANGED <<reuse, die, closer, left, cleaner, sweep, counter, pool, streams, recv,
                   caller, stream, hook>>

Insert(p) ==
    /\ ender[p] = "insert"
    /\ idle' = idle \cup {sess[p]}
    /\ ender' = [ender EXCEPT ![p] = "none"]
    /\ UNCHANGED <<client, sessions, stage, streams, recv, caller, stream, hook>>

\* The user lets go of a stream that has ended; the caller's name is free when nothing
\* refers to the stream.
Leave(p) ==
    /\ pc[p] = "using" /\ stream[p] = "dead" /\ ender[p] = "none"
    /\ \A s \in Sessions : recv[s] # p /\ p \notin streams[s]
    /\ pc' = [pc EXCEPT ![p] = "idle"] /\ sess' = [sess EXCEPT ![p] = 0]
    /\ stream' = [stream EXCEPT ![p] = "none"] /\ hook' = [hook EXCEPT ![p] = FALSE]
    /\ UNCHANGED <<client, pool, stage, streams, recv, ender>>

-----------------------------------------------------------------------------
(* The end of a session, of idle sessions and of the client.               *)

\* recvLoop meets an error or an alert, or no SYNACK comes in time.
SessionFails(s) ==
    /\ stage[s] = "open" /\ Close(s)
    /\ UNCHANGED <<client, pool, streams, recv, caller, ending>>

\* Mutant: the counter of sessions to keep is never raised.
Expired_All(expired) == expired

\* The loop of idleCleanupExpTime, newest session first: until activeCount has reached
\* MinIdle every session raises it, old or not, so an old one goes exactly when MinIdle
\* newer ones came before it.
Expired(expired) ==
    {s \in expired : Cardinality({t \in idle : t > s}) >= MinIdle}

idleCleanup(expired) ==
    /\ cleaner = "sleep" /\ cleaner' = "sweep"
    /\ sweep' = Expired(expired)
    /\ idle' = idle \ Expired(expired)
    /\ UNCHANGED <<reuse, die, closer, left, counter, lost, sessions, stage, streams, recv,
                   caller, ending>>

SweepNext(s) ==
    /\ s \in sweep /\ sweep' = sweep \ {s} /\ Close(s)
    /\ UNCHANGED <<reuse, die, closer, left, cleaner, counter, lost, pool, streams, recv,
                   caller, ending>>

SweepDone ==
    /\ cleaner = "sweep" /\ sweep = {}
    /\ cleaner' = IF die THEN "off" ELSE "sleep"
    /\ UNCHANGED <<reuse, die, closer, left, sweep, counter, lost, pool, stage, streams, recv,
                   caller, ending>>

ClientClose ==
    /\ closer = "none" /\ closer' = "swap" /\ die' = TRUE
    /\ UNCHANGED <<reuse, left, cleaner, sweep, counter, lost, pool, stage, streams, recv,
                   caller, ending>>

SwapSessions ==
    /\ closer = "swap" /\ closer' = "closing"
    /\ left' = sessions /\ sessions' = {}
    /\ UNCHANGED <<reuse, die, cleaner, sweep, counter, lost, idle, stage, streams, recv,
                   caller, ending>>

CloseNext(s) ==
    /\ s \in left /\ left' = left \ {s} /\ Close(s)
    /\ UNCHANGED <<reuse, die, closer, cleaner, sweep, counter, lost, pool, streams, recv,
                   caller, ending>>

ClosedAll ==
    /\ closer = "closing" /\ left = {} /\ closer' = "done"
    /\ UNCHANGED <<reuse, die, left, cleaner, sweep, counter, lost, pool, stage, streams, recv,
                   caller, ending>>

-----------------------------------------------------------------------------
Open(p) ==
    \/ CreateStream(p) \/ getIdleSession(p) \/ createSession(p) \/ DialFails(p)
    \/ OpenStream(p) \/ Register(p) \/ SetHook(p)
    \/ \E ok \in BOOLEAN : WriteSYN(p, ok)

End(p) ==
    \/ StreamClose(p) \/ RecvError(p) \/ RecvFIN(p) \/ DeleteStream(p) \/ dieHook(p)
    \/ Insert(p) \/ Leave(p)
    \/ \E ok \in BOOLEAN : streamClosed(p, ok)

Session(s) ==
    \/ RemoveIdle(s) \/ DeleteSession(s) \/ CloseStreams(s) \/ closeLocally(s)
    \/ SessionFails(s) \/ SweepNext(s) \/ CloseNext(s)

Client ==
    \/ \E expired \in SUBSET idle : idleCleanup(expired)
    \/ SweepDone \/ ClientClose \/ SwapSessions \/ ClosedAll

Next ==
    \/ \E p \in Callers : Open(p) \/ End(p)
    \/ \E s \in Sessions : Session(s)
    \/ Client

Spec == Init /\ [][Next]_vars

-----------------------------------------------------------------------------
TypeOK ==
    /\ reuse \in BOOLEAN /\ die \in BOOLEAN
    /\ closer \in {"none", "swap", "closing", "done"}
    /\ cleaner \in {"sleep", "sweep", "off"}
    /\ left \subseteq Sessions /\ sweep \subseteq Sessions /\ lost \subseteq Sessions
    /\ counter \in 0..MaxSessions
    /\ sessions \subseteq Sessions /\ idle \subseteq Sessions
    /\ stage \in [Sessions -> {"none", "open", "idle", "sessions", "streams", "done"}]
    /\ streams \in [Sessions -> SUBSET Callers]
    /\ recv \in [Sessions -> Callers \cup {None}]
    /\ pc \in [Callers -> {"idle", "pick", "dial", "open", "syn", "register", "hook", "using"}]
    /\ sess \in [Callers -> 0..MaxSessions]
    /\ hook \in [Callers -> BOOLEAN]
    /\ stream \in [Callers -> {"none", "open", "dead"}]
    /\ ender \in [Callers -> {"none", "fin", "delete", "hook", "insert"}]

\* Whoever opens a stream, has it open or runs its end holds the session.
Holds(p, s) ==
    /\ sess[p] = s
    /\ pc[p] \in {"open", "syn", "register"} \/ stream[p] = "open" \/ ender[p] # "none"

(* An open session serves one stream at a time: two callers never hold it together, and
   what is idle, or about to be closed as idle, is held by nobody (client.go,
   getIdleSession, dieHook and idleCleanupExpTime). *)
ExclusiveUse ==
    \A s \in Sessions : stage[s] = "open" =>
        /\ \A p, q \in Callers : Holds(p, s) /\ Holds(q, s) => p = q
        /\ s \in idle \cup sweep => \A p \in Callers : ~Holds(p, s)

(* A session that has been closed is out of the map and has no open stream, but for one
   that recvLoop took out of the map and is closing (session.go, Close and OpenStream
   look at each other's writes; client.go, dieHook). *)
ClosedIsForgotten ==
    \A s \in Sessions : stage[s] = "done" =>
        /\ s \notin sessions
        /\ \A p \in Callers : sess[p] = s /\ stream[p] = "open" => recv[s] = p

(* No open session is left behind: it is held, idle or about to be closed, unless its
   stream ended in the moment between OpenStream and the assignment of its hook
   (client.go, CreateStream). *)
NoneLost ==
    \A s \in Sessions : stage[s] = "open" =>
        s \in idle \cup sweep \cup lost \/ \E p \in Callers : Holds(p, s)

(* After Client.Close no open session is idle: a session that a stream gives back during
   Close, or that was dialled during it, gets closed (client.go, Close and dieHook). *)
ClosedWithClient ==
    closer = "done" => \A s \in idle : IsClosed(s)

(* One sweep leaves the pool MinIdle sessions, if it had them (client.go,
   idleCleanupExpTime; docs: min-idle-session). *)
MinimumKept ==
    [][sweep = {} /\ sweep' # {} =>
         Cardinality(idle') >= IF Cardinality(idle) < MinIdle THEN Cardinality(idle)
                               ELSE MinIdle]_vars
=============================================================================
