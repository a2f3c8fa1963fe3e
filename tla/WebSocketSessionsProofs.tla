---------------------- MODULE WebSocketSessionsProofs ----------------------
(***************************************************************************)
(* Proofs about WebSocketSessions, for every number of sockets and of      *)
(* callers of shutdown(), all tokens and all guards.                       *)
(***************************************************************************)
EXTENDS WebSocketSessions, SequenceTheorems, TLAPS

\* What the events about a socket look like: none; one refusal; those of a
\* session under way; those of one that is over.
Refusal(l) == Len(l) = 1 /\ l[1] \in {"missing_token", "invalid_token"}

Opened(l) ==
    /\ Len(l) >= 1 /\ l[1] = "connected"
    /\ \A i \in 2 .. Len(l) : l[i] \in {"message", "error"}

Ended(l) ==
    /\ Len(l) >= 2 /\ l[1] = "connected" /\ l[Len(l)] = "disconnected"
    /\ \A i \in 2 .. Len(l) - 1 : l[i] \in {"message", "error"}

\* What the server knows of a socket fits the events about it, and whoever
\* carries a context carries that of the token the documented order chooses.
Fits(r, l) ==
    /\ r \in Socket /\ l \in Seq(Happening)
    /\ r.phase \in {"none", "verifying"} => r.auth = Absent
    /\ r.phase \in {"guarded", "allowed", "connected"} => r.auth # Absent
    /\ r.auth # Absent => r.auth \in Valid /\ r.auth = Extracted(r.offers)
    /\ r.phase = "connected" => r.conn # "closed"
    /\ r.phase \in {"none", "verifying", "guarded", "allowed"} => l = <<>>
    /\ r.phase = "refused" => l = <<>> \/ Refusal(l)
    /\ r.phase = "connected" => Opened(l)
    /\ r.phase = "over" => l = <<>> \/ Refusal(l) \/ Ended(l)

\* A call of shutdown() settles when no connection is left, and none comes back.
StaysDrained ==
    (\E c \in Closers : closers[c] \in {"resolved", "rejected"}) =>
        \A s \in Sockets : socks[s].conn = "closed"

IInv ==
    /\ DOMAIN socks = Sockets /\ socks = [s \in Sockets |-> socks[s]]
    /\ DOMAIN log = Sockets /\ log = [s \in Sockets |-> log[s]]
    /\ \A s \in Sockets : Fits(socks[s], log[s])
    /\ listening \in BOOLEAN
    /\ closers \in [Closers -> {"idle", "adapters", "closing", "late", "resolved", "rejected"}]
    /\ StaysDrained

\* One more event.
LEMMA OneMore ==
    ASSUME NEW l \in Seq(Happening)
    PROVE  /\ \A x \in Happening : Append(l, x) \in Seq(Happening)
           /\ l = <<>> => /\ Opened(Append(l, "connected"))
                          /\ Refusal(Append(l, "missing_token"))
                          /\ Refusal(Append(l, "invalid_token"))
           /\ Opened(l) => /\ Opened(Append(l, "message"))
                           /\ Opened(Append(l, "error"))
                           /\ Ended(Append(l, "disconnected"))
<1>1. Len(l) \in Nat
  BY LenProperties
<1>2. ASSUME NEW x \in Happening
      PROVE  /\ Append(l, x) \in Seq(Happening)
             /\ Len(Append(l, x)) = Len(l) + 1
             /\ \A i \in 1 .. Len(l) : Append(l, x)[i] = l[i]
             /\ Append(l, x)[Len(l) + 1] = x
  BY AppendProperties
<1>3. ASSUME l = <<>>
      PROVE  /\ Opened(Append(l, "connected"))
             /\ Refusal(Append(l, "missing_token"))
             /\ Refusal(Append(l, "invalid_token"))
  <2>1. Len(l) = 0
    BY <1>3
  <2>. QED  BY <1>2, <2>1 DEF Opened, Refusal, Happening
<1>4. ASSUME Opened(l), NEW x \in {"message", "error"} PROVE Opened(Append(l, x))
  BY <1>1, <1>2, <1>4 DEF Opened, Happening
<1>5. ASSUME Opened(l) PROVE Ended(Append(l, "disconnected"))
  <2>1. PICK k : k = Append(l, "disconnected")
    OBVIOUS
  <2>2. /\ Len(k) = Len(l) + 1 /\ k[Len(k)] = "disconnected"
        /\ \A i \in 1 .. Len(l) : k[i] = l[i]
    BY <1>2, <2>1 DEF Happening
  <2>3. Ended(k)
    BY <1>1, <1>5, <2>2 DEF Opened, Ended
  <2>. QED  BY <2>1, <2>3
<1>. QED  BY <1>2, <1>3, <1>4, <1>5

\* One socket becomes r and its events l; no connection comes back.
LEMMA SocketKeeps ==
    ASSUME IInv, NEW s \in Sockets, NEW r, NEW l, Fits(r, l),
           socks' = [socks EXCEPT ![s] = r], log' = [log EXCEPT ![s] = l],
           UNCHANGED <<listening, closers>>,
           socks[s].conn = "closed" => r.conn = "closed"
    PROVE  IInv'
<1>1. /\ socks'[s] = r /\ log'[s] = l
      /\ \A q \in Sockets : q # s => socks'[q] = socks[q] /\ log'[q] = log[q]
      /\ DOMAIN socks' = Sockets /\ DOMAIN log' = Sockets
  BY DEF IInv
<1>2. \A q \in Sockets : Fits(socks'[q], log'[q])
  BY <1>1 DEF IInv
<1>3. StaysDrained'
  BY <1>1 DEF IInv, StaysDrained
<1>4. socks' = [q \in Sockets |-> socks'[q]] /\ log' = [q \in Sockets |-> log'[q]]
  BY <1>1
<1>. QED  BY <1>1, <1>2, <1>3, <1>4 DEF IInv

\* The case where no event is put on the bus.
LEMMA QuietKeeps ==
    ASSUME IInv, NEW s \in Sockets, NEW r, Fits(r, log[s]),
           socks' = [socks EXCEPT ![s] = r], UNCHANGED <<log, listening, closers>>,
           socks[s].conn = "closed" => r.conn = "closed"
    PROVE  IInv'
<1>1. log' = [log EXCEPT ![s] = log[s]]
  BY DEF IInv
<1>. QED  BY <1>1, SocketKeeps

\* The record of a socket after a step.
LEMMA SocketFields ==
    ASSUME NEW r \in Socket,
           NEW x \in {"none", "verifying", "guarded", "allowed", "refused", "connected", "over"}
    PROVE  /\ [r EXCEPT !.phase = x] \in Socket
           /\ [r EXCEPT !.phase = x].phase = x
           /\ [r EXCEPT !.phase = x].conn = r.conn
           /\ [r EXCEPT !.phase = x].auth = r.auth
           /\ [r EXCEPT !.phase = x].offers = r.offers
BY DEF Socket

LEMMA HandshakeKeeps ==
    ASSUME SessionAssumption, IInv, NEW s \in Sockets, Handshake(s) \/ Arrive(s)
    PROVE  IInv'
<1> DEFINE c == socks[s]
           l == log[s]
<1>1. Fits(c, l) /\ c \in Socket /\ l \in Seq(Happening)
  BY DEF IInv, Fits
<1>2. ASSUME c.phase = "none", UNCHANGED <<listening, closers>>,
             IF Extracted(c.offers) \in {Absent, Empty}
             THEN Unauthorized(s) ELSE Goto(s, "verifying") /\ UNCHANGED log
      PROVE  IInv'
  <2>1. CASE Unauthorized(s)
    <3>1. PICK r : r = [c EXCEPT !.phase = "refused"]
      OBVIOUS
    <3>2. PICK m : m = Append(l, "missing_token")
      OBVIOUS
    <3>3. r \in Socket /\ r.phase = "refused" /\ r.conn = c.conn /\ r.auth = Absent
      BY <1>1, <1>2, <3>1, SocketFields DEF Fits
    <3>4. m \in Seq(Happening) /\ Refusal(m)
      BY <1>1, <1>2, <3>2, OneMore DEF Fits, Happening
    <3>5. Fits(r, m)
      BY <3>3, <3>4 DEF Fits
    <3>6. socks' = [socks EXCEPT ![s] = r] /\ log' = [log EXCEPT ![s] = m]
      BY <2>1, <3>1, <3>2 DEF Unauthorized, Goto, Emit
    <3>. QED  BY <1>2, <3>3, <3>5, <3>6, SocketKeeps
  <2>2. CASE Goto(s, "verifying") /\ UNCHANGED log
    <3>1. PICK r : r = [c EXCEPT !.phase = "verifying"]
      OBVIOUS
    <3>2. r \in Socket /\ r.phase = "verifying" /\ r.conn = c.conn /\ r.auth = Absent
      BY <1>1, <1>2, <3>1, SocketFields DEF Fits
    <3>3. Fits(r, l)
      BY <1>1, <1>2, <3>2 DEF Fits
    <3>4. socks' = [socks EXCEPT ![s] = r]
      BY <2>2, <3>1 DEF Goto
    <3>. QED  BY <1>2, <2>2, <3>2, <3>3, <3>4, QuietKeeps
  <2>. QED  BY <1>2, <2>1, <2>2
<1>3. CASE VerifyFails(s)
  <2>1. PICK r : r = [c EXCEPT !.phase = "refused"]
    OBVIOUS
  <2>2. PICK m : m = Append(l, "invalid_token")
    OBVIOUS
  <2>3. /\ c.phase = "verifying" /\ UNCHANGED <<listening, closers>>
        /\ socks' = [socks EXCEPT ![s] = r] /\ log' = [log EXCEPT ![s] = m]
    BY <1>3, <2>1, <2>2 DEF VerifyFails, Goto, Emit
  <2>4. r \in Socket /\ r.phase = "refused" /\ r.conn = c.conn /\ r.auth = Absent
    BY <1>1, <2>1, <2>3, SocketFields DEF Fits
  <2>5. m \in Seq(Happening) /\ Refusal(m)
    BY <1>1, <2>2, <2>3, OneMore DEF Fits, Happening
  <2>6. Fits(r, m)
    BY <2>4, <2>5 DEF Fits
  <2>. QED  BY <2>3, <2>4, <2>6, SocketKeeps
<1>4. ASSUME NEW verdict \in GuardVerdicts, VerifyResolves(s, verdict) PROVE IInv'
  <2>1. PICK x : x = CASE verdict = "pass" -> "allowed"
                       [] verdict = "wait" -> "guarded"
                       [] OTHER -> "refused"
    OBVIOUS
  <2>2. PICK r : r = [c EXCEPT !.auth = Attached(s), !.phase = x]
    OBVIOUS
  <2>3. /\ c.phase = "verifying" /\ UNCHANGED <<listening, closers>>
        /\ Attached(s) \in Valid /\ Attached(s) \in Tokens /\ Attached(s) # Absent
        /\ Attached(s) = Extracted(c.offers)
    BY <1>4 DEF VerifyResolves, Attached, SessionAssumption
  <2>4. x \in {"allowed", "guarded", "refused"} /\ (verdict = "throw" => x = "refused")
    BY <2>1
  <2>5. socks' = [socks EXCEPT ![s] = r]
    BY <1>4, <2>1, <2>2 DEF VerifyResolves
  <2>6. /\ r \in Socket /\ r.phase = x /\ r.conn = c.conn
        /\ r.auth = Attached(s) /\ r.offers = c.offers
    BY <1>1, <2>2, <2>3, <2>4 DEF Socket
  <2>7. CASE verdict = "throw"
    <3>1. PICK m : m = Append(l, "invalid_token")
      OBVIOUS
    <3>2. m \in Seq(Happening) /\ Refusal(m)
      BY <1>1, <2>3, <3>1, OneMore DEF Fits, Happening
    <3>3. Fits(r, m)
      BY <2>3, <2>4, <2>6, <2>7, <3>2 DEF Fits
    <3>4. log' = [log EXCEPT ![s] = m]
      BY <1>4, <2>7, <3>1 DEF VerifyResolves, Emit
    <3>. QED  BY <2>3, <2>5, <2>6, <3>3, <3>4, SocketKeeps
  <2>8. CASE verdict # "throw"
    <3>1. Fits(r, l)
      BY <1>1, <2>3, <2>4, <2>6 DEF Fits
    <3>2. UNCHANGED log
      BY <1>4, <2>8 DEF VerifyResolves
    <3>. QED  BY <2>3, <2>5, <2>6, <3>1, <3>2, QuietKeeps
  <2>. QED  BY <2>7, <2>8
<1>5. ASSUME NEW ok \in BOOLEAN, GuardSettles(s, ok) PROVE IInv'
  <2>1. PICK x : x = IF ok THEN "allowed" ELSE "refused"
    OBVIOUS
  <2>2. PICK r : r = [c EXCEPT !.phase = x]
    OBVIOUS
  <2>3. /\ c.phase = "guarded" /\ UNCHANGED <<log, listening, closers>>
        /\ socks' = [socks EXCEPT ![s] = r]
    BY <1>5, <2>1, <2>2 DEF GuardSettles, Goto
  <2>4. x \in {"allowed", "refused"}
    BY <2>1
  <2>5. /\ r \in Socket /\ r.phase = x /\ r.conn = c.conn
        /\ r.auth = c.auth /\ r.offers = c.offers
    BY <1>1, <2>2, <2>4 DEF Socket
  <2>6. Fits(r, l)
    BY <1>1, <2>3, <2>4, <2>5 DEF Fits
  <2>. QED  BY <2>3, <2>5, <2>6, QuietKeeps
<1>6. CASE Decide(s)
  <2>1. c.phase \in {"allowed", "refused"} /\ UNCHANGED <<listening, closers>>
    BY <1>6 DEF Decide
  <2>2. CASE c.phase = "allowed" /\ c.conn = "open"
    <3>1. PICK r : r = [c EXCEPT !.phase = "connected"]
      OBVIOUS
    <3>2. PICK m : m = Append(l, "connected")
      OBVIOUS
    <3>3. socks' = [socks EXCEPT ![s] = r] /\ log' = [log EXCEPT ![s] = m]
      BY <1>6, <2>2, <3>1, <3>2 DEF Decide, Goto, Emit
    <3>4. /\ r \in Socket /\ r.phase = "connected" /\ r.conn = c.conn
          /\ r.auth = c.auth /\ r.offers = c.offers
      BY <1>1, <3>1, SocketFields
    <3>5. m \in Seq(Happening) /\ Opened(m)
      BY <1>1, <2>2, <3>2, OneMore DEF Fits, Happening
    <3>6. Fits(r, m)
      BY <1>1, <2>2, <3>4, <3>5 DEF Fits
    <3>. QED  BY <2>1, <3>3, <3>4, <3>6, SocketKeeps
  <2>3. CASE ~(c.phase = "allowed" /\ c.conn = "open")
    <3>1. PICK r : r = [c EXCEPT !.phase = "over"]
      OBVIOUS
    <3>2. socks' = [socks EXCEPT ![s] = r] /\ UNCHANGED log
      BY <1>6, <2>3, <3>1 DEF Decide, Goto
    <3>3. /\ r \in Socket /\ r.phase = "over" /\ r.conn = c.conn
          /\ r.auth = c.auth /\ r.offers = c.offers
      BY <1>1, <3>1, SocketFields
    <3>4. Fits(r, l)
      BY <1>1, <2>1, <3>3 DEF Fits
    <3>. QED  BY <2>1, <3>2, <3>3, <3>4, QuietKeeps
  <2>. QED  BY <2>2, <2>3
<1>7. CASE Arrive(s)
  BY <1>2, <1>7 DEF Arrive
<1>. QED  BY <1>3, <1>4, <1>5, <1>6, <1>7 DEF Handshake

LEMMA SessionKeeps ==
    ASSUME IInv, NEW s \in Sockets, Client(s), ~Arrive(s) PROVE IInv'
<1> DEFINE c == socks[s]
           l == log[s]
<1>1. Fits(c, l) /\ c \in Socket /\ l \in Seq(Happening)
  BY DEF IInv, Fits
<1>2. ASSUME NEW x \in {"message", "error"}, Receive(s, x) PROVE IInv'
  <2>1. PICK m : m = Append(l, x)
    OBVIOUS
  <2>2. /\ c.phase = "connected" /\ UNCHANGED <<socks, listening, closers>>
        /\ log' = [log EXCEPT ![s] = m]
    BY <1>2, <2>1 DEF Receive, Emit
  <2>3. m \in Seq(Happening) /\ Opened(m)
    BY <1>1, <1>2, <2>1, <2>2, OneMore DEF Fits, Happening
  <2>4. Fits(c, m)
    BY <1>1, <2>2, <2>3 DEF Fits
  <2>5. socks' = [socks EXCEPT ![s] = c]
    BY <2>2 DEF IInv
  <2>. QED  BY <2>2, <2>4, <2>5, SocketKeeps
<1>3. ASSUME c.phase = "connected", NEW r \in Socket, r.phase = "over",
             r.auth = c.auth, r.offers = c.offers, r.conn \in {c.conn, "closed"},
             socks' = [socks EXCEPT ![s] = r], Emit(s, "disconnected"),
             UNCHANGED <<listening, closers>>
      PROVE  IInv'
  <2>1. PICK m : m = Append(l, "disconnected")
    OBVIOUS
  <2>2. m \in Seq(Happening) /\ Ended(m)
    BY <1>1, <1>3, <2>1, OneMore DEF Fits, Happening
  <2>3. Fits(r, m)
    BY <1>1, <1>3, <2>2 DEF Fits
  <2>4. log' = [log EXCEPT ![s] = m]
    BY <1>3, <2>1 DEF Emit
  <2>. QED  BY <1>3, <2>3, <2>4, SocketKeeps
<1>4. CASE Disconnect(s)
  <2>1. PICK r : r = [c EXCEPT !.phase = "over"]
    OBVIOUS
  <2>2. /\ r \in Socket /\ r.phase = "over" /\ r.conn = c.conn
        /\ r.auth = c.auth /\ r.offers = c.offers
    BY <1>1, <2>1, SocketFields
  <2>3. socks' = [socks EXCEPT ![s] = r]
    BY <1>4, <2>1 DEF Disconnect, Goto
  <2>. QED  BY <1>3, <1>4, <2>2, <2>3 DEF Disconnect
<1>5. CASE ConnectionEnds(s)
  <2>1. CASE c.phase = "connected"
    <3>1. PICK r : r = [c EXCEPT !.conn = "closed", !.phase = "over"]
      OBVIOUS
    <3>2. /\ r \in Socket /\ r.phase = "over" /\ r.conn = "closed"
          /\ r.auth = c.auth /\ r.offers = c.offers
      BY <1>1, <3>1 DEF Socket
    <3>3. socks' = [socks EXCEPT ![s] = r]
      BY <1>5, <2>1, <3>1 DEF ConnectionEnds
    <3>. QED  BY <1>3, <1>5, <2>1, <3>2, <3>3 DEF ConnectionEnds
  <2>2. CASE c.phase # "connected"
    <3>1. PICK r : r = [c EXCEPT !.conn = "closed"]
      OBVIOUS
    <3>2. /\ r \in Socket /\ r.phase = c.phase /\ r.conn = "closed"
          /\ r.auth = c.auth /\ r.offers = c.offers
      BY <1>1, <3>1 DEF Socket
    <3>3. Fits(r, l)
      BY <1>1, <2>2, <3>2 DEF Fits
    <3>4. socks' = [socks EXCEPT ![s] = r] /\ UNCHANGED <<log, listening, closers>>
      BY <1>5, <2>2, <3>1 DEF ConnectionEnds
    <3>. QED  BY <3>2, <3>3, <3>4, QuietKeeps
  <2>. QED  BY <2>1, <2>2
<1>. QED  BY <1>2, <1>4, <1>5 DEF Client

\* A call of shutdown() ends the sessions there are; a handshake under way goes
\* on until its connection is closed.
LEMMA CloserKeeps ==
    ASSUME IInv, NEW c \in Closers, Closer(c) PROVE IInv'
<1>1. \A s \in Sockets : Fits(socks[s], log[s])
  BY DEF IInv
<1>2. CASE CloseNamespaces(c)
  <2>1. ASSUME NEW s \in Sockets
        PROVE  Fits(socks'[s], log'[s]) /\ socks'[s].conn = socks[s].conn
    <3>1. CASE socks[s].phase = "connected"
      <4>1. PICK r : r = [socks[s] EXCEPT !.phase = "over"]
        OBVIOUS
      <4>2. PICK m : m = Append(log[s], "disconnected")
        OBVIOUS
      <4>3. socks'[s] = r /\ log'[s] = m
        BY <1>2, <3>1, <4>1, <4>2 DEF CloseNamespaces
      <4>4. /\ r \in Socket /\ r.phase = "over" /\ r.conn = socks[s].conn
            /\ r.auth = socks[s].auth /\ r.offers = socks[s].offers
        BY <1>1, <4>1, SocketFields DEF Fits
      <4>5. m \in Seq(Happening) /\ Ended(m)
        BY <1>1, <3>1, <4>2, OneMore DEF Fits, Happening
      <4>6. Fits(r, m)
        BY <1>1, <4>4, <4>5 DEF Fits
      <4>. QED  BY <4>3, <4>4, <4>6
    <3>2. CASE socks[s].phase # "connected"
      BY <1>1, <1>2, <3>2 DEF CloseNamespaces
    <3>. QED  BY <3>1, <3>2
  <2>2. closers' = [closers EXCEPT ![c] = "adapters"] /\ UNCHANGED listening
    BY <1>2 DEF CloseNamespaces
  <2>3. StaysDrained'
    BY <2>1, <2>2 DEF IInv, StaysDrained
  <2>4. /\ DOMAIN socks' = Sockets /\ socks' = [s \in Sockets |-> socks'[s]]
        /\ DOMAIN log' = Sockets /\ log' = [s \in Sockets |-> log'[s]]
    BY <1>2 DEF CloseNamespaces
  <2>. QED  BY <2>1, <2>2, <2>3, <2>4 DEF IInv
<1>3. CASE CloseEngine(c)
  <2>1. ASSUME NEW s \in Sockets
        PROVE  /\ Fits(socks'[s], log[s])
               /\ socks[s].conn = "closed" => socks'[s].conn = "closed"
    <3>1. CASE socks[s].conn = "open"
      <4>1. PICK r : r = [socks[s] EXCEPT !.conn = "closing"]
        OBVIOUS
      <4>2. /\ r \in Socket /\ r.phase = socks[s].phase /\ r.conn = "closing"
            /\ r.auth = socks[s].auth /\ r.offers = socks[s].offers
        BY <1>1, <4>1 DEF Fits, Socket
      <4>3. Fits(r, log[s])
        BY <1>1, <4>2 DEF Fits
      <4>. QED  BY <1>3, <3>1, <4>1, <4>3 DEF CloseEngine
    <3>2. CASE socks[s].conn # "open"
      BY <1>1, <1>3, <3>2 DEF CloseEngine
    <3>. QED  BY <3>1, <3>2
  <2>2. /\ closers' = [closers EXCEPT ![c] = IF listening THEN "closing" ELSE "late"]
        /\ listening' = FALSE /\ UNCHANGED log
        /\ DOMAIN socks' = Sockets /\ socks' = [s \in Sockets |-> socks'[s]]
    BY <1>3 DEF CloseEngine
  <2>3. StaysDrained'
    BY <2>1, <2>2 DEF IInv, StaysDrained
  <2>. QED  BY <2>1, <2>2, <2>3 DEF IInv
<1>4. CASE ShutdownSettles(c)
  <2>1. /\ UNCHANGED <<socks, log, listening>> /\ Drained
        /\ closers' \in [Closers -> {"idle", "adapters", "closing", "late", "resolved", "rejected"}]
    BY <1>4 DEF ShutdownSettles, IInv
  <2>2. StaysDrained'
    BY <2>1 DEF Drained, StaysDrained
  <2>. QED  BY <2>1, <2>2 DEF IInv
<1>. QED  BY <1>2, <1>3, <1>4 DEF Closer

LEMMA IInvInit == SessionAssumption /\ Init => IInv
<1>1. SUFFICES ASSUME SessionAssumption, Init PROVE IInv
  OBVIOUS
<1>2. PICK offers \in [Sockets -> Offers] :
         socks = [s \in Sockets |->
                    [phase |-> "none", offers |-> offers[s], conn |-> "open", auth |-> Absent]]
  BY <1>1 DEF Init
<1>3. log = [s \in Sockets |-> <<>>] /\ listening = TRUE
      /\ closers = [c \in Closers |-> "idle"]
  BY <1>1 DEF Init
<1>4. ASSUME NEW s \in Sockets PROVE Fits(socks[s], log[s])
  <2>1. socks[s] = [phase |-> "none", offers |-> offers[s], conn |-> "open", auth |-> Absent]
    BY <1>2
  <2>2. socks[s] \in Socket
    BY <2>1 DEF Socket
  <2>. QED  BY <1>3, <2>1, <2>2 DEF Fits
<1>. QED  BY <1>2, <1>3, <1>4 DEF IInv, StaysDrained

LEMMA IInvStep == SessionAssumption /\ IInv /\ [Next]_vars => IInv'
<1>1. SUFFICES ASSUME SessionAssumption, IInv, [Next]_vars PROVE IInv'
  OBVIOUS
<1>2. CASE UNCHANGED vars
  BY <1>1, <1>2 DEF vars, IInv, StaysDrained
<1>3. ASSUME NEW s \in Sockets, Handshake(s) \/ Client(s) PROVE IInv'
  BY <1>1, <1>3, HandshakeKeeps, SessionKeeps
<1>4. ASSUME NEW c \in Closers, Closer(c) PROVE IInv'
  BY <1>1, <1>4, CloserKeeps
<1>. QED  BY <1>1, <1>2, <1>3, <1>4 DEF Next

LEMMA IInvAlways == Spec => []IInv
<1>1. SessionAssumption
  BY SessionAssumption
<1>. QED  BY <1>1, IInvInit, IInvStep, PTL DEF Spec

\* The variables keep their types: a context is attached by verifyToken(), and
\* not before.
THEOREM TypesHold == Spec => []TypeOK
<1>1. IInv => TypeOK
  BY DEF IInv, Fits, TypeOK
<1>. QED  BY <1>1, IInvAlways, PTL

\* Whoever has a session was verified, by the token that the documented order
\* of handshake.auth, query and header chooses.
THEOREM SessionsAreAuthenticated == Spec => []Authenticated
<1>1. SessionAssumption /\ IInv => Authenticated
  BY DEF IInv, Fits, Authenticated, In, Extracted
<1>2. SessionAssumption
  BY SessionAssumption
<1>. QED  BY <1>1, <1>2, IInvAlways, PTL

\* The events tell the truth about every session: connected first and once,
\* disconnected last and once, nothing but its refusal for who was refused.
THEOREM EventsAreTrue == Spec => []EventsTrue
<1>1. IInv => EventsTrue
  <2>1. SUFFICES ASSUME IInv, NEW s \in Sockets
                 PROVE  /\ Refused(s) => Len(log[s]) = 1
                        /\ \A i \in DOMAIN log[s] :
                             /\ (log[s][i] = "connected") <=> (i = 1 /\ ~Refused(s))
                             /\ log[s][i] = "disconnected" => i = Len(log[s])
                        /\ (socks[s].phase = "connected")
                             <=> Occurs(s, "connected") /\ ~Occurs(s, "disconnected")
    BY DEF EventsTrue
  <2>2. Fits(socks[s], log[s])
    BY <2>1 DEF IInv
  <2>3. Len(log[s]) \in Nat /\ DOMAIN log[s] = 1 .. Len(log[s])
    BY <2>2, LenProperties DEF Fits
  <2>4. CASE log[s] = <<>>
    <3>1. DOMAIN log[s] = {} /\ Len(log[s]) = 0
      BY <2>3, <2>4
    <3>2. ~Occurs(s, "connected") /\ ~Refused(s)
      BY <3>1 DEF Occurs, Refused
    <3>3. socks[s].phase # "connected"
      BY <2>2, <3>1 DEF Fits, Opened
    <3>. QED  BY <3>1, <3>2, <3>3
  <2>5. CASE Refusal(log[s])
    <3>1. DOMAIN log[s] = {1} /\ Len(log[s]) = 1
      BY <2>3, <2>5 DEF Refusal
    <3>2. ~Occurs(s, "connected") /\ Refused(s)
      BY <2>5, <3>1 DEF Occurs, Refused, Refusal
    <3>3. socks[s].phase # "connected"
      BY <2>2, <2>5 DEF Fits, Opened, Refusal
    <3>. QED  BY <2>5, <3>1, <3>2, <3>3 DEF Refusal
  <2>6. CASE Opened(log[s]) /\ socks[s].phase = "connected"
    <3>1. /\ 1 \in DOMAIN log[s] /\ log[s][1] = "connected"
          /\ \A i \in DOMAIN log[s] : i # 1 => log[s][i] \in {"message", "error"}
      BY <2>3, <2>6 DEF Opened
    <3>2. Occurs(s, "connected") /\ ~Occurs(s, "disconnected") /\ ~Refused(s)
      BY <3>1 DEF Occurs, Refused
    <3>. QED  BY <2>6, <3>1, <3>2
  <2>7. CASE Ended(log[s]) /\ socks[s].phase # "connected"
    <3>1. /\ 1 \in DOMAIN log[s] /\ log[s][1] = "connected"
          /\ Len(log[s]) \in DOMAIN log[s] /\ Len(log[s]) # 1
          /\ log[s][Len(log[s])] = "disconnected"
          /\ \A i \in DOMAIN log[s] :
                i # 1 /\ i # Len(log[s]) => log[s][i] \in {"message", "error"}
      BY <2>3, <2>7 DEF Ended
    <3>2. Occurs(s, "disconnected") /\ ~Refused(s)
      BY <3>1 DEF Occurs, Refused
    <3>. QED  BY <2>7, <3>1, <3>2
  <2>8. CASE socks[s].phase = "connected"
    BY <2>2, <2>6, <2>8 DEF Fits
  <2>9. CASE socks[s].phase # "connected"
    BY <2>2, <2>4, <2>5, <2>7, <2>9 DEF Fits, Socket
  <2>. QED  BY <2>8, <2>9
<1>. QED  BY <1>1, IInvAlways, PTL

\* When a call of shutdown() has settled, in time or too late, no session is
\* open and none opens any more.
THEOREM ShutdownClosesForGood == Spec => []ClosedForGood
<1>1. IInv => ClosedForGood
  BY DEF IInv, Fits, StaysDrained, ClosedForGood, In
<1>. QED  BY <1>1, IInvAlways, PTL

=============================================================================
