-------------------------- MODULE RequestPipeline --------------------------
(***************************************************************************)
(* Requests of one server process on their way through the Express stack   *)
(* that createServer() builds (src/index.ts): metrics and telemetry        *)
(* (src/lib/monitoring.ts, src/lib/otel.ts), the guards of SecurityProvider *)
(* (src/lib/security/security-provider.ts), handlers, and the error        *)
(* handler, which is mounted by a timer after createServer() is done.      *)
(*                                                                         *)
(* A request walks the live stack by position.  It waits for the token     *)
(* check, for SECURITY hooks and for handlers; in between, other requests  *)
(* run, the stack grows, and its client may close the connection.          *)
(***************************************************************************)
EXTENDS Integers, Sequences, FiniteSets

CONSTANTS
    Routes,         \* paths of controller routes, below the contextRoot
    Mode,           \* route -> its security mode
    OpsPaths,       \* paths of the ops endpoints, below the contextRoot
    LateRoutes,     \* paths the program adds to runtime.app, outside of it
    Unknown,        \* a path below the contextRoot nothing is registered for
    OpsMode,        \* ops.secure, or "off" for ops.enabled = false
    Hooks,          \* how many SECURITY hooks are registered
    Requests        \* bound: the requests that ever arrive

Paths  == Routes \cup OpsPaths \cup LateRoutes \cup {Unknown}
Modes  == {"none", "basic", "jwt"}
Guards == {"routeGuard", "opsGuard"}
Headers == {"absent", "bearer", "forged", "basic"}  \* what Authorization holds

ASSUME PipelineAssumption ==
    /\ Mode \in [Routes -> Modes]
    /\ OpsMode \in Modes \cup {"off"}
    /\ Hooks \in Nat
    /\ IsFiniteSet(Requests)
    /\ LateRoutes \cap (Routes \cup OpsPaths \cup {Unknown}) = {}
    /\ LateRoutes \cap (Guards \cup {"route", "ops", "errorHandler"}) = {}

VARIABLES
    enabled,    \* the authentication modes of config.auth
    stack,      \* the layers of the app that matter, in their order
    requests,   \* request -> where it is and what happened to it
    inFlight    \* the gauge http_requests_in_flight

vars == <<enabled, stack, requests, inFlight>>

Layers == Guards \cup {"route", "ops", "errorHandler"} \cup LateRoutes

\* Nothing sent; the headers sent; cut off after them by Express; end() called;
\* 'finish' emitted.
Responses == {"open", "begun", "cut", "ended", "finished"}

Request ==
    [phase    : {"none", "verifying", "hooks", "handling", "over"},
     at       : Nat,                \* position in the stack
     path     : Paths,
     header   : Headers,
     agreed   : 0 .. Hooks,         \* hooks of this guard that have agreed
     refused  : BOOLEAN,            \* history: a hook threw
     user     : {"none", "basic", "jwt"},       \* req.auth
     error    : {0, 401, 403, 500, 503},        \* the error given to next()
     response : Responses,
     answers  : Nat,                \* history: how often it was ended
     closed   : BOOLEAN,            \* 'close' was emitted
     spanEnds : Nat,                \* history: calls of span.end()
     listens  : SUBSET {"finish", "close"},     \* the listeners of the span
     verdicts : Seq([guard : Guards, result : {"allowed", "denied"}]),
                                    \* history: authorize events
     ran      : SUBSET Layers]      \* history: handlers that were called

NewRequest(path, header) ==
    [phase |-> "over", at |-> 0, path |-> path, header |-> header, agreed |-> 0,
     refused |-> FALSE, user |-> "none", error |-> 0, response |-> "open", answers |-> 0,
     closed |-> FALSE, spanEnds |-> 0, listens |-> {"finish", "close"},
     verdicts |-> <<>>, ran |-> {}]

Unused == [NewRequest(Unknown, "absent") EXCEPT !.phase = "none"]

\* What createServer() leaves: controllers are mounted before ops.
BootStack ==
    <<"routeGuard", "route">> \o
        CASE OpsMode = "off"  -> <<>>
          [] OpsMode = "none" -> <<"ops">>
          [] OTHER            -> <<"opsGuard", "ops">>

\* validateRuntimeSecurityConfig() sees to it that the mode of the ops endpoints
\* is enabled, but lifecycle hooks may change that before SecurityProvider looks.
Init ==
    /\ enabled \in SUBSET {"jwt", "basic"}
    /\ stack = BootStack
    /\ requests = [r \in Requests |-> Unused]
    /\ inFlight = 0

Mounted(layer) == \E k \in DOMAIN stack : stack[k] = layer

-----------------------------------------------------------------------------
(* Security.                                                               *)

GuardMode(q) == IF stack[q.at] = "opsGuard" THEN OpsMode ELSE Mode[q.path]

\* res.json() and the like, and the end of a response that was begun.
Respond(q) == [q EXCEPT !.response = "ended", !.answers = @ + 1]

\* An answer that looks at res.headersSent first: after that it does nothing,
\* whether the response is over or not.
Answer(q) == IF q.response = "open" THEN Respond(q) ELSE q

\* Mutant: no look at headersSent.
AnswerAgain(q) == Respond(q)

\* errorHandler, when it is mounted further down.
ErrorHandler(q) == Answer(q)

\* Express's own: a response whose headers are sent is cut off.
LastResort(q) == IF q.response = "begun" THEN [q EXCEPT !.response = "cut"] ELSE Answer(q)

\* next(err): the walk is over.
Fail(q, status) ==
    LET failed == [q EXCEPT !.phase = "over", !.error = status]
    IN  IF \E k \in DOMAIN stack : k > q.at /\ stack[k] = "errorHandler"
        THEN ErrorHandler(failed) ELSE LastResort(failed)

Verdict(q, result) ==
    [q EXCEPT !.verdicts = Append(@, [guard |-> stack[q.at], result |-> result])]

Deny(q, status) == Fail(Verdict(q, "denied"), status)

ToHooks(q, user) == [q EXCEPT !.phase = "hooks", !.agreed = 0, !.user = user]

\* Mutant: a route may be called without a token.
TokenOptional(q) ==
    IF "jwt" \notin enabled THEN Deny(q, 503)
    ELSE IF q.header \notin {"bearer", "forged"} THEN ToHooks(q, q.user)
    ELSE [q EXCEPT !.phase = "verifying"]

HandleJwt(q) ==
    IF "jwt" \notin enabled THEN Deny(q, 503)
    ELSE IF q.header \notin {"bearer", "forged"} THEN Deny(q, 401)
    ELSE [q EXCEPT !.phase = "verifying"]

HandleBasic(q) ==
    IF "basic" \notin enabled THEN Deny(q, 503)
    ELSE IF q.header # "basic" THEN Deny(q, 401)
    ELSE ToHooks(q, "basic")

\* handleRequest() up to its first await.
Authorize(q) ==
    CASE GuardMode(q) = "jwt" -> HandleJwt(q)
      [] GuardMode(q) = "basic" -> HandleBasic(q)
      [] OTHER -> ToHooks(q, q.user)

-----------------------------------------------------------------------------
(* The walk.                                                               *)

Applies(layer, path) ==
    CASE layer \in {"routeGuard", "route"} -> path \in Routes
      [] layer = "opsGuard" -> path \notin LateRoutes
      [] layer = "ops" -> path \in OpsPaths
      [] OTHER -> layer = path

Ahead(q) == {k \in DOMAIN stack : k > q.at /\ Applies(stack[k], q.path)}

Least(S) == CHOOSE k \in S : \A l \in S : k <= l

\* next(): a guard, a handler, or Express's answer that nothing matches.
Pass(q) ==
    IF Ahead(q) = {}
    THEN Answer([q EXCEPT !.phase = "over"])
    ELSE LET p == [q EXCEPT !.at = Least(Ahead(q))] IN
         IF stack[p.at] \in Guards
         THEN Authorize(p)
         ELSE [p EXCEPT !.phase = "handling", !.ran = @ \cup {stack[p.at]}]

Becomes(r, q) == requests' = [requests EXCEPT ![r] = q]

\* prometheusMiddleware(), otelMiddleware(), and on.
Arrive(r, path, header) ==
    /\ requests[r].phase = "none"
    /\ Becomes(r, Pass(NewRequest(path, header)))
    /\ inFlight' = inFlight + 1
    /\ UNCHANGED <<enabled, stack>>

\* verifyToken() settles.
Verified(r) ==
    LET q == requests[r] IN
    /\ q.phase = "verifying"
    /\ Becomes(r, IF q.header = "bearer" THEN ToHooks(q, "jwt") ELSE Deny(q, 403))
    /\ UNCHANGED <<enabled, stack, inFlight>>

HookAgrees(r) ==
    /\ requests[r].phase = "hooks" /\ requests[r].agreed < Hooks
    /\ Becomes(r, [requests[r] EXCEPT !.agreed = @ + 1])
    /\ UNCHANGED <<enabled, stack, inFlight>>

\* Mutant: the error of a hook is only logged, as CUSTOM_MIDDLEWARE's is.
OnlyLogged(q, status) == [q EXCEPT !.agreed = @ + 1]

\* HookManager.emit() rethrows.
Rethrown(q, status) == Deny(q, status)

HookThrows(r, status) ==
    /\ requests[r].phase = "hooks" /\ requests[r].agreed < Hooks
    /\ Becomes(r, Rethrown([requests[r] EXCEPT !.refused = TRUE], status))
    /\ UNCHANGED <<enabled, stack, inFlight>>

Allowed(q) == Pass(Verdict(q, "allowed"))

HooksDone(r) ==
    /\ requests[r].phase = "hooks" /\ requests[r].agreed = Hooks
    /\ Becomes(r, Allowed(requests[r]))
    /\ UNCHANGED <<enabled, stack, inFlight>>

-----------------------------------------------------------------------------
(* Handlers of controllers, ops endpoints and late routes.                 *)

\* res.write() and the like: the headers are sent.
HandlerBegins(r) ==
    /\ requests[r].phase = "handling" /\ requests[r].response = "open"
    /\ Becomes(r, [requests[r] EXCEPT !.response = "begun"])
    /\ UNCHANGED <<enabled, stack, inFlight>>

HandlerResponds(r) ==
    /\ requests[r].phase = "handling" /\ requests[r].response \in {"open", "begun"}
    /\ Becomes(r, Respond(requests[r]))
    /\ UNCHANGED <<enabled, stack, inFlight>>

HandlerReturns(r) ==
    /\ requests[r].phase = "handling"
    /\ Becomes(r, [requests[r] EXCEPT !.phase = "over"])
    /\ UNCHANGED <<enabled, stack, inFlight>>

\* It throws or rejects: Express 5 calls next(err).
HandlerThrows(r) ==
    /\ requests[r].phase = "handling"
    /\ Becomes(r, Fail(requests[r], 500))
    /\ UNCHANGED <<enabled, stack, inFlight>>

HandlerPasses(r) ==
    /\ requests[r].phase = "handling"
    /\ Becomes(r, Pass(requests[r]))
    /\ UNCHANGED <<enabled, stack, inFlight>>

-----------------------------------------------------------------------------
(* The end of the response.                                                *)

\* Mutant: it takes only itself off.
EndSpanKeepOther(q, event) ==
    IF event \in q.listens THEN [q EXCEPT !.spanEnds = @ + 1, !.listens = @ \ {event}] ELSE q

\* The listener that runs takes both off.
EndSpan(q, event) ==
    IF event \in q.listens THEN [q EXCEPT !.spanEnds = @ + 1, !.listens = {}] ELSE q

\* Mutant: decremented on 'close' as well.
DecOnBoth(event) == inFlight' = inFlight - 1

\* prometheusMiddleware() decrements on 'finish' only.
DecOnFinish(event) == inFlight' = IF event = "finish" THEN inFlight - 1 ELSE inFlight

\* The response was handed to the operating system; when the connection breaks
\* Node.js may say so after 'close', or never.
Finish(r) ==
    /\ requests[r].response = "ended"
    /\ Becomes(r, [EndSpan(requests[r], "finish") EXCEPT !.response = "finished"])
    /\ DecOnFinish("finish")
    /\ UNCHANGED <<enabled, stack>>

\* The connection is over, after the response or, when it breaks, before.
Close(r) ==
    /\ requests[r].phase # "none" /\ ~requests[r].closed
    /\ Becomes(r, [EndSpan(requests[r], "close") EXCEPT !.closed = TRUE])
    /\ DecOnFinish("close")
    /\ UNCHANGED <<enabled, stack>>

-----------------------------------------------------------------------------
(* The stack after createServer().                                         *)

Mount(layer) ==
    /\ ~Mounted(layer)
    /\ stack' = Append(stack, layer)
    /\ UNCHANGED <<enabled, requests, inFlight>>

\* The timer createServer() set.
MountErrorHandler == Mount("errorHandler")

MountLateRoute(path) == Mount(path)

-----------------------------------------------------------------------------

Security(r) ==
    \/ Verified(r)
    \/ HookAgrees(r)
    \/ \E status \in {403, 500} : HookThrows(r, status)
    \/ HooksDone(r)

Handler(r) ==
    \/ HandlerBegins(r)
    \/ HandlerResponds(r)
    \/ HandlerReturns(r)
    \/ HandlerThrows(r)
    \/ HandlerPasses(r)

Connection(r) ==
    \/ \E path \in Paths, header \in Headers : Arrive(r, path, header)
    \/ Finish(r)
    \/ Close(r)

Next ==
    \/ \E r \in Requests : Connection(r) \/ Security(r) \/ Handler(r)
    \/ MountErrorHandler
    \/ \E path \in LateRoutes : MountLateRoute(path)

Spec == Init /\ [][Next]_vars

-----------------------------------------------------------------------------
(* Properties.                                                             *)

TypeOK ==
    /\ enabled \subseteq {"jwt", "basic"}
    /\ stack \in Seq(Layers)
    /\ \A k, l \in DOMAIN stack : stack[k] = stack[l] => k = l
    /\ requests \in [Requests -> Request]
    /\ inFlight \in Nat

\* What a guard of mode asks for.
Fits(mode, header) ==
    \/ mode = "none"
    \/ mode = "jwt" /\ "jwt" \in enabled /\ header = "bearer"
    \/ mode = "basic" /\ "basic" \in enabled /\ header = "basic"

(* docs/security.md:76-96, fail-closed: handlers of protected routes and   *)
(* ops endpoints run, and SECURITY hooks are asked, only for requests that *)
(* have authenticated in the mode of that route, and that mode is enabled, *)
(* whatever the request passed or was given by guards before.              *)
Entitled ==
    \A r \in Requests : LET q == requests[r] IN
        /\ "route" \in q.ran => Fits(Mode[q.path], q.header)
        /\ "ops" \in q.ran => OpsMode = "none" \/ Fits(OpsMode, q.header)
        /\ q.phase = "hooks" =>
             Fits(GuardMode(q), q.header) /\ GuardMode(q) \in {"none", q.user}

(* docs/security.md:99-104: each decision of a guard is told by one        *)
(* authorize event; a handler behind a guard has an "allowed" before it,   *)
(* and after a "denied" no other guard and no handler sees the request.    *)
(* A SECURITY hook that throws is a denial (docs/lifecycle-hooks.md:74).     *)
Verdicts(q, guard) == {i \in DOMAIN q.verdicts : q.verdicts[i].guard = guard}

OneVerdict ==
    \A r \in Requests : LET q == requests[r] IN
        /\ \A guard \in Guards : Cardinality(Verdicts(q, guard)) <= 1
        /\ "route" \in q.ran => Verdicts(q, "routeGuard") # {}
        /\ "ops" \in q.ran /\ OpsMode # "none" => Verdicts(q, "opsGuard") # {}
        /\ \A i \in DOMAIN q.verdicts : q.verdicts[i].result = "denied" =>
             i = Len(q.verdicts) /\ q.phase = "over" /\ q.error # 0
        /\ q.refused => \E i \in DOMAIN q.verdicts : q.verdicts[i].result = "denied"

(* A response is ended at most once, and an error is answered: what guards *)
(* deny and what fails before anything is sent ends with a response, and   *)
(* only a handler that has sent the headers before something failed leaves *)
(* a response that is neither answered nor completed.                      *)
AnswerOnce ==
    \A r \in Requests : LET q == requests[r] IN
        /\ q.answers <= 1
        /\ q.error # 0 =>
             q.answers = 1 \/ (q.response \in {"begun", "cut"} /\ q.ran # {})

(* The span of a request ends with its response or its connection,         *)
(* whichever is first, and not again with the other; and the gauge of      *)
(* requests in flight never says fewer than there are.                     *)
EndsCounted ==
    /\ \A r \in Requests : LET q == requests[r] IN
          q.spanEnds = IF q.response = "finished" \/ q.closed THEN 1 ELSE 0
    /\ inFlight >= Cardinality({r \in Requests : LET q == requests[r] IN
          q.phase # "none" /\ q.response # "finished" /\ ~q.closed})

-----------------------------------------------------------------------------
(* A claim of the code that the code does not keep.                        *)

(* src/lib/monitoring.ts:39, the help of the gauge: the current number of  *)
(* requests in flight.  When the connections of all of them are closed, no *)
(* handler is at work and no 'finish' is to come, it is zero.              *)
GaugeTrue ==
    (\A r \in Requests : LET q == requests[r] IN
        q.phase # "none" => q.phase = "over" /\ q.closed /\ q.response # "ended")
    => inFlight = 0
=============================================================================
