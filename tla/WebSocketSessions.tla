------------------------- MODULE WebSocketSessions -------------------------
(***************************************************************************)
(* The WebSocket manager (src/lib/websocket/websocket-manager.ts): the     *)
(* handshake of a socket, the events it puts on the event bus, and         *)
(* shutdown(), over Socket.IO and the HTTP server it is attached to.       *)
(*                                                                         *)
(* The handshake awaits verifyToken(), and so may a guard of the           *)
(* application's own (io.use() on getServer()); the client may leave and   *)
(* the server may close meanwhile.  Socket.IO acts on the outcome in the   *)
(* next tick, if the connection is then still open.                        *)
(***************************************************************************)
EXTENDS Naturals, Sequences, FiniteSets

CONSTANTS
    Sockets,        \* bound: handshakes ever begun
    Tokens, Valid,  \* what clients present; what verifyToken() may accept
    Presents,       \* socket -> what its client may present
    GuardVerdicts,  \* what guards of the application may do
    Closers,        \* who may call shutdown(), once each
    MaxMessages     \* bound: packets a client sends

Absent == "absent"      \* no string there
Empty  == "empty"       \* the empty string
Offered == Tokens \cup {Absent, Empty}
Offers == [auth : Offered, query : Offered, header : Offered]

ASSUME SessionAssumption ==
    /\ Valid \subseteq Tokens /\ Tokens \cap {Absent, Empty} = {}
    /\ Presents \in [Sockets -> SUBSET Offers]
    /\ GuardVerdicts \subseteq {"pass", "refuse", "throw", "wait"}
    /\ MaxMessages \in Nat

VARIABLES
    socks,      \* socket -> what the server knows of it
    log,        \* socket -> the events emitted about it, in order
    listening,  \* the HTTP server accepts connections
    closers     \* caller -> its call of shutdown()

vars == <<socks, log, listening, closers>>

Socket ==
    [phase  : {"none", "verifying", "guarded", "allowed", "refused", "connected", "over"},
     offers : Offers,
     conn   : {"open", "closing", "closed"},
     auth   : Tokens \cup {Absent}]     \* data.auth and data.context

Happening == {"missing_token", "invalid_token", "connected", "message", "error", "disconnected"}

Init ==
    /\ \E offers \in [Sockets -> Offers] :
         /\ \A s \in Sockets : offers[s] \in Presents[s]
         /\ socks = [s \in Sockets |->
                       [phase |-> "none", offers |-> offers[s], conn |-> "open", auth |-> Absent]]
    /\ log = [s \in Sockets |-> <<>>]
    /\ listening = TRUE
    /\ closers = [c \in Closers |-> "idle"]

In(phase) == {s \in Sockets : socks[s].phase = phase}
Emit(s, happening) == log' = [log EXCEPT ![s] = Append(@, happening)]
Goto(s, phase) == socks' = [socks EXCEPT ![s].phase = phase]

-----------------------------------------------------------------------------
(* The handshake.                                                          *)

\* Mutant: the query is looked at first.
QueryFirst(o) == IF o.query # Absent THEN o.query ELSE IF o.auth # Absent THEN o.auth ELSE o.header

\* extractTokenFromHandshake(): the first string of the three, be it empty.
Extracted(o) == IF o.auth # Absent THEN o.auth ELSE IF o.query # Absent THEN o.query ELSE o.header

\* Mutant: next(new Error('Unauthorized')) without return.
RefuseAndGoOn(s) == Goto(s, "verifying") /\ Emit(s, "missing_token")

Unauthorized(s) == Goto(s, "refused") /\ Emit(s, "missing_token")

\* A CONNECT packet: the manager's middleware, up to its await.
Arrive(s) ==
    /\ socks[s].phase = "none" /\ socks[s].conn = "open" /\ listening
    /\ IF Extracted(socks[s].offers) \in {Absent, Empty}
       THEN Unauthorized(s)
       ELSE Goto(s, "verifying") /\ UNCHANGED log
    /\ UNCHANGED <<listening, closers>>

\* Mutant: the try block has no catch, and next() is never called.
Unhandled(s) == socks[s].phase = "verifying" /\ UNCHANGED vars

\* verifyToken() rejects, of a token that has expired meanwhile too.
VerifyFails(s) ==
    /\ socks[s].phase = "verifying"
    /\ Goto(s, "refused")
    /\ Emit(s, "invalid_token")
    /\ UNCHANGED <<listening, closers>>

\* Mutant: the context is attached when the connection is made.
AttachLater(s) == Absent

Attached(s) == Extracted(socks[s].offers)

\* It resolves: the context is attached and next() calls the guards of the
\* application; what one of them throws lands in the manager's catch block.
VerifyResolves(s, verdict) ==
    /\ socks[s].phase = "verifying" /\ Extracted(socks[s].offers) \in Valid
    /\ socks' = [socks EXCEPT ![s].auth = Attached(s),
                              ![s].phase = CASE verdict = "pass" -> "allowed"
                                             [] verdict = "wait" -> "guarded"
                                             [] OTHER -> "refused"]
    /\ IF verdict = "throw" THEN Emit(s, "invalid_token") ELSE UNCHANGED log
    /\ UNCHANGED <<listening, closers>>

\* A guard of the application that waits makes up its mind.
GuardSettles(s, ok) ==
    /\ socks[s].phase = "guarded"
    /\ Goto(s, IF ok THEN "allowed" ELSE "refused")
    /\ UNCHANGED <<log, listening, closers>>

\* The next tick: the client is told that it is refused, or the connection
\* handler runs, or nothing happens as the client has gone.
Decide(s) ==
    /\ socks[s].phase \in {"allowed", "refused"}
    /\ IF socks[s].phase = "allowed" /\ socks[s].conn = "open"
       THEN Goto(s, "connected") /\ Emit(s, "connected")
       ELSE Goto(s, "over") /\ UNCHANGED log
    /\ UNCHANGED <<listening, closers>>

-----------------------------------------------------------------------------
(* The session.                                                            *)

\* A packet: an event of the application, or one by the name "error", which
\* onAny() leaves out and the error handler gets.
Receive(s, happening) ==
    /\ socks[s].phase = "connected" /\ socks[s].conn = "open"
    /\ Len(log[s]) <= MaxMessages
    /\ Emit(s, happening)
    /\ UNCHANGED <<socks, listening, closers>>

\* socket.disconnect() of either side; the connection may remain.
Disconnect(s) ==
    /\ socks[s].phase = "connected" /\ socks[s].conn = "open"
    /\ Goto(s, "over")
    /\ Emit(s, "disconnected")
    /\ UNCHANGED <<listening, closers>>

\* The connection ends, on either side, and a session with it.
ConnectionEnds(s) ==
    /\ socks[s].conn # "closed"
    /\ IF socks[s].phase = "connected"
       THEN /\ socks' = [socks EXCEPT ![s].conn = "closed", ![s].phase = "over"]
            /\ Emit(s, "disconnected")
       ELSE /\ socks' = [socks EXCEPT ![s].conn = "closed"]
            /\ UNCHANGED log
    /\ UNCHANGED <<listening, closers>>

-----------------------------------------------------------------------------
(* shutdown(): io.close().                                                 *)

\* It disconnects the sessions there are and awaits the adapters: handshakes
\* under way may still connect.
CloseNamespaces(c) ==
    /\ closers[c] = "idle"
    /\ closers' = [closers EXCEPT ![c] = "adapters"]
    /\ socks' = [s \in Sockets |->
                   IF socks[s].phase = "connected" THEN [socks[s] EXCEPT !.phase = "over"] ELSE socks[s]]
    /\ log' = [s \in Sockets |->
                 IF socks[s].phase = "connected" THEN Append(log[s], "disconnected") ELSE log[s]]
    /\ UNCHANGED listening

\* It closes every connection and the HTTP server.
CloseEngine(c) ==
    /\ closers[c] = "adapters"
    /\ closers' = [closers EXCEPT ![c] = IF listening THEN "closing" ELSE "late"]
    /\ listening' = FALSE
    /\ socks' = [s \in Sockets |->
                   IF socks[s].conn = "open" THEN [socks[s] EXCEPT !.conn = "closing"] ELSE socks[s]]
    /\ UNCHANGED log

\* Mutant: the promise resolves without waiting for the callback.
Called == ~listening

\* The HTTP server calls back when its last connection is gone.
Drained == ~listening /\ \A s \in Sockets : socks[s].conn = "closed"

\* The promise settles: it rejects if the server was no longer running.
ShutdownSettles(c) ==
    /\ closers[c] \in {"closing", "late"}
    /\ Drained
    /\ closers' = [closers EXCEPT ![c] = IF @ = "closing" THEN "resolved" ELSE "rejected"]
    /\ UNCHANGED <<socks, log, listening>>

-----------------------------------------------------------------------------

Handshake(s) ==
    \/ \E verdict \in GuardVerdicts : VerifyResolves(s, verdict)
    \/ VerifyFails(s)
    \/ \E ok \in BOOLEAN : GuardSettles(s, ok)
    \/ Decide(s)

Client(s) ==
    \/ Arrive(s)
    \/ \E happening \in {"message", "error"} : Receive(s, happening)
    \/ Disconnect(s)
    \/ ConnectionEnds(s)

Closer(c) == CloseNamespaces(c) \/ CloseEngine(c) \/ ShutdownSettles(c)

Next ==
    \/ \E s \in Sockets : Handshake(s) \/ Client(s)
    \/ \E c \in Closers : Closer(c)

Spec == Init /\ [][Next]_vars

(* verifyToken() settles, guards of the application do, and ticks come.    *)
FairSpec == Spec /\ \A s \in Sockets : WF_vars(Handshake(s))

-----------------------------------------------------------------------------
(* Properties.                                                             *)

TypeOK ==
    /\ socks \in [Sockets -> Socket]
    /\ \A s \in Sockets :
         /\ socks[s].phase \in {"none", "verifying"} => socks[s].auth = Absent
         /\ socks[s].phase \in {"guarded", "allowed"} => socks[s].auth # Absent
    /\ log \in [Sockets -> Seq(Happening)]
    /\ listening \in BOOLEAN
    /\ closers \in [Closers -> {"idle", "adapters", "closing", "late", "resolved", "rejected"}]

Occurs(s, happening) == \E i \in DOMAIN log[s] : log[s][i] = happening
Refused(s) == Occurs(s, "missing_token") \/ Occurs(s, "invalid_token")

(* docs/websocket.md:49: "The WebSocket handshake checks for a token in    *)
(* this order".  A session has the context of a verified token, and of the *)
(* one that this order chooses: no token of a lower priority admits a      *)
(* client that presents one of a higher.                                   *)
Authenticated ==
    \A s \in In("connected") :
        LET o == socks[s].offers IN
        /\ socks[s].auth \in Valid
        /\ \/ socks[s].auth = o.auth
           \/ o.auth = Absent /\ socks[s].auth = o.query
           \/ o.auth = Absent /\ o.query = Absent /\ socks[s].auth = o.header

(* Whoever counts the events knows the sessions: connected comes first and *)
(* once, disconnected last and once, and between them the session is open; *)
(* a refused handshake is reported once and never becomes a session,       *)
(* wherever the client leaves or the server closes.                        *)
EventsTrue ==
    \A s \in Sockets :
        /\ Refused(s) => Len(log[s]) = 1
        /\ \A i \in DOMAIN log[s] :
             /\ (log[s][i] = "connected") <=> (i = 1 /\ ~Refused(s))
             /\ log[s][i] = "disconnected" => i = Len(log[s])
        /\ (socks[s].phase = "connected") <=> Occurs(s, "connected") /\ ~Occurs(s, "disconnected")

(* Once a call of shutdown() has settled, even one that came too late, no  *)
(* session is open or opens again, though handshakes were under way.       *)
ClosedForGood ==
    (\E c \in Closers : closers[c] \in {"resolved", "rejected"}) => In("connected") = {}

(* Every handshake is decided: no client waits for an answer for ever.     *)
HandshakeSettles ==
    \A s \in Sockets : socks[s].phase = "verifying" ~> socks[s].phase \in {"connected", "over"}
=============================================================================
