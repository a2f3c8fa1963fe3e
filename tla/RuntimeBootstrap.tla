-------------------------- MODULE RuntimeBootstrap --------------------------
(***************************************************************************)
(* createServer() (src/index.ts) from the validation of its configuration  *)
(* to the runtime it returns: lifecycle hooks (src/lib/hooks.ts), the      *)
(* start of the scheduler, middleware, the controllers of                  *)
(* ControllerLoading, ops endpoints and the error handler, with            *)
(* app.listen(), which may be called as soon as somebody holds the app.    *)
(*                                                                         *)
(* A callback of a hook is awaited.  While it runs it may put layers on    *)
(* the app, change the configuration, listen, and register callbacks,      *)
(* which anybody may at any time.                                          *)
(***************************************************************************)
EXTENDS ControllerLoading

CONSTANTS
    MaxCallbacks,   \* bound: callbacks ever registered
    MaxLayers,      \* bound: layers mounted by callbacks and by the program
    MaxListens      \* bound: calls of app.listen()

ASSUME BootstrapAssumption == MaxCallbacks \in Nat /\ MaxLayers \in Nat /\ MaxListens \in Nat

Hooks == <<"INITIALIZE", "STARTUP", "PRE_INIT", "CUSTOM_MIDDLEWARE", "POST_INIT">>
HookNames == {Hooks[h] : h \in DOMAIN Hooks}
Order(hook) == CHOOSE h \in DOMAIN Hooks : Hooks[h] = hook

VARIABLES
    phase,      \* the hook that is emitted, or another step of createServer()
    hooks,      \* hook -> how many callbacks are registered
    called,     \* callbacks that were called: <<hook, n>> for its n-th, in order
    running,    \* those that have not settled
    ended,      \* history: hook -> its callbacks when its emission ended
    stack,      \* who put the layers of the app there, in their order
    config,     \* what matters of the configuration
    provider,   \* the JWT settings SecurityProvider took from it
    sockets,    \* and those the WebSocket manager did
    listens,    \* calls of app.listen()
    published,  \* the service "routes": no list, or the one it holds
    timer       \* of the error handler

vars == <<phase, hooks, called, running, ended, stack, config, provider, sockets,
          listens, published, timer, loaderVars>>

hookVars == <<hooks, called, running, ended>>
httpVars == <<config, provider, sockets, listens, published, timer>>

Phases == HookNames \cup {"created", "scheduler", "controllers", "ready", "failed"}

Jwt    == {"off", "broken", "usable"}      \* "broken": enabled, but no proper secret
Config == [jwt : Jwt, websocket : BOOLEAN, ops : {"off", "none", "jwt"}]
Layers == HookNames \cup {"builtin", "accessLog", "controller", "ops", "late", "errorHandler"}
Nothing == "nothing"

Init ==
    /\ phase = "created"
    /\ hooks = [h \in HookNames |-> 0] /\ ended = [h \in HookNames |-> 0]
    /\ called = <<>> /\ running = {}
    /\ stack = <<>>
    /\ config \in Config
    /\ provider = Nothing /\ sockets = Nothing /\ listens = 0
    /\ published = {} /\ timer = "unset"
    /\ LoadInit

Extra == {i \in DOMAIN stack : stack[i] \in HookNames \cup {"late"}}
Layer(layers) == stack' = stack \o layers
Registered == {c \in HookNames \X (1 .. MaxCallbacks) : c[2] <= hooks[c[1]]}

-----------------------------------------------------------------------------
(* Hooks.                                                                  *)

\* A callback, also after it has settled, or the program that called
\* createServer().
HoldsApp == called # <<>> \/ phase = "ready"

\* hookManager.on(), also of a hook that is being emitted or has been.
Register(hook) ==
    /\ Cardinality(Registered) < MaxCallbacks
    /\ hooks' = [hooks EXCEPT ![hook] = @ + 1]
    /\ UNCHANGED <<phase, called, running, ended, stack, httpVars, loaderVars>>

Called(hook) == Cardinality({i \in DOMAIN called : called[i][1] = hook})

\* Mutant: fn(context) without await.
NotAwaited == TRUE

Awaited == running = {}

\* emit(): the next callback of the live list.
CallNext ==
    /\ phase \in HookNames /\ Awaited
    /\ Called(phase) < hooks[phase]
    /\ LET callback == <<phase, Called(phase) + 1>> IN
         /\ called' = Append(called, callback)
         /\ running' = running \cup {callback}
    /\ UNCHANGED <<phase, hooks, ended, stack, httpVars, loaderVars>>

\* It settles; an error ends createServer(), but for one hook.
CallbackSettles(callback, ok) ==
    /\ callback \in running
    /\ running' = running \ {callback}
    /\ phase' = IF ok \/ callback[1] = "CUSTOM_MIDDLEWARE" THEN phase ELSE "failed"
    /\ UNCHANGED <<hooks, called, ended, stack, httpVars, loaderVars>>

CallbackMounts(callback) ==
    /\ callback \in running
    /\ Cardinality(Extra) < MaxLayers
    /\ Layer(<<callback[1]>>)
    /\ UNCHANGED <<phase, hookVars, httpVars, loaderVars>>

\* Somebody will still read config here.
Read == phase \notin {"ready", "failed"} \/ listens < MaxListens

\* ctx.config is the object that createServer() goes on reading, and that the
\* program gets.
Configure ==
    /\ HoldsApp /\ Read
    /\ \E c \in Config :
         /\ Cardinality({k \in DOMAIN c : c[k] # config[k]}) = 1
         /\ config' = c
    /\ UNCHANGED <<phase, hookVars, stack, provider, sockets, listens, published, timer, loaderVars>>

-----------------------------------------------------------------------------
(* app.listen().                                                           *)

\* Mutant: the configuration was checked when createServer() began.
CheckedBefore(c) == TRUE

\* assertJwtAuthConfigured()
JwtConfigured(c) == c.jwt = "usable"

\* attachWebSocketServer(): one manager, on the first server listened on
\* while WebSockets are enabled.  Its constructor may throw, to the caller of
\* listen(), whose server then listens without sockets.
AttachWebSocketServer ==
    sockets' = IF config.websocket /\ sockets = Nothing /\ JwtConfigured(config)
               THEN config.jwt ELSE sockets

Listen ==
    /\ HoldsApp
    /\ listens < MaxListens
    /\ listens' = listens + 1
    /\ AttachWebSocketServer
    /\ UNCHANGED <<phase, hookVars, stack, config, provider, published, timer, loaderVars>>

-----------------------------------------------------------------------------
(* createServer() between its hooks.                                       *)

\* validateRuntimeSecurityConfig()
Validated(c) ==
    /\ c.jwt # "broken"
    /\ c.websocket \/ c.ops = "jwt" => c.jwt = "usable"

Create ==
    /\ phase = "created"
    /\ phase' = IF Validated(config) THEN "INITIALIZE" ELSE "failed"
    /\ UNCHANGED <<hookVars, stack, httpVars, loaderVars>>

\* The emission of a hook is over.
Emitted(hook) ==
    /\ phase = hook /\ Awaited
    /\ Called(hook) >= hooks[hook]
    /\ ended' = [ended EXCEPT ![hook] = hooks[hook]]
    /\ UNCHANGED <<hooks, called, running, loaderVars>>

AfterInitialize ==
    /\ Emitted("INITIALIZE")
    /\ phase' = "STARTUP"
    /\ UNCHANGED <<stack, httpVars>>

AfterStartup ==
    /\ Emitted("STARTUP")
    /\ phase' = "scheduler"
    /\ UNCHANGED <<stack, httpVars>>

\* startScheduler(): see SchedulerService.
SchedulerSettles(ok) ==
    /\ phase = "scheduler"
    /\ phase' = IF ok THEN "PRE_INIT" ELSE "failed"
    /\ UNCHANGED <<hookVars, stack, httpVars, loaderVars>>

\* Middleware, and SecurityProvider, whose constructor asserts what is enabled.
AfterPreInit ==
    /\ Emitted("PRE_INIT")
    /\ Layer(<<"builtin">>)
    /\ IF config.jwt # "broken"
       THEN phase' = "CUSTOM_MIDDLEWARE" /\ provider' = config.jwt
       ELSE phase' = "failed" /\ UNCHANGED provider
    /\ UNCHANGED <<config, sockets, listens, published, timer>>

AfterCustomMiddleware ==
    /\ Emitted("CUSTOM_MIDDLEWARE")
    /\ Layer(<<"accessLog">>)
    /\ phase' = "controllers"
    /\ UNCHANGED httpVars

LoadController ==
    /\ phase = "controllers" \/ status = "loading"
    /\ Load
    /\ Layer(IF mounted' = mounted THEN <<>> ELSE <<"controller">>)
    /\ phase' = IF status' = "failed" THEN "failed" ELSE phase
    /\ UNCHANGED <<hookVars, httpVars>>

\* Mutant: the routes are published before the controllers are loaded.
PublishedBefore == <<>>

\* getRegisteredRoutes(): a copy of the table.
RegisteredRoutes == table

Loaded == status = "done"

\* services.set('routes'), and the ops endpoints with their guard.
AfterControllers ==
    /\ phase = "controllers" /\ Loaded
    /\ published' = {RegisteredRoutes}
    /\ Layer(IF config.ops = "off" THEN <<>> ELSE <<"ops">>)
    /\ phase' = "POST_INIT"
    /\ UNCHANGED <<hookVars, config, provider, sockets, listens, timer, loaderVars>>

\* services.delete('routes') or services.shutdownAll(), which whoever holds the
\* app may call, and the runtime does while it still answers requests.
Withdraw ==
    /\ HoldsApp
    /\ published # {} /\ published' = {}
    /\ UNCHANGED <<phase, hookVars, stack, config, provider, sockets, listens, timer, loaderVars>>

\* GET /__routes: what is published, as it is, or else what the registry of
\* routes that its module exports holds, which nothing ever enters a route into.
Routes == IF published = {} THEN {<<>>} ELSE published

\* The timer of the error handler; process handlers (see RuntimeShutdown).
AfterPostInit ==
    /\ Emitted("POST_INIT")
    /\ timer' = "set"
    /\ phase' = "ready"
    /\ UNCHANGED <<stack, config, provider, sockets, listens, published>>

\* What the program puts on runtime.app itself, or a callback that has settled
\* on the app it kept.
MountLate ==
    /\ HoldsApp
    /\ Cardinality(Extra) < MaxLayers
    /\ Layer(<<"late">>)
    /\ UNCHANGED <<phase, hookVars, httpVars, loaderVars>>

MountErrorHandler ==
    /\ timer = "set"
    /\ timer' = "fired"
    /\ Layer(<<"errorHandler">>)
    /\ UNCHANGED <<phase, hookVars, config, provider, sockets, listens, published, loaderVars>>

-----------------------------------------------------------------------------

Bootstrap ==
    \/ Create
    \/ AfterInitialize
    \/ AfterStartup
    \/ \E ok \in BOOLEAN : SchedulerSettles(ok)
    \/ AfterPreInit
    \/ AfterCustomMiddleware
    \/ LoadController
    \/ AfterControllers
    \/ AfterPostInit
    \/ MountErrorHandler

Callback(c) ==
    \/ \E ok \in BOOLEAN : CallbackSettles(c, ok)
    \/ CallbackMounts(c)

Application ==
    \/ \E hook \in HookNames : Register(hook)
    \/ \E c \in running : Callback(c)
    \/ Configure
    \/ Listen
    \/ MountLate
    \/ Withdraw

Next == Bootstrap \/ CallNext \/ Application

Spec == Init /\ [][Next]_vars

-----------------------------------------------------------------------------
(* Properties.                                                             *)

TypeOK ==
    /\ phase \in Phases
    /\ hooks \in [HookNames -> 0 .. MaxCallbacks] /\ ended \in [HookNames -> 0 .. MaxCallbacks]
    /\ called \in Seq(HookNames \X (1 .. MaxCallbacks))
    /\ running \subseteq {called[i] : i \in DOMAIN called}
    /\ stack \in Seq(Layers)
    /\ config \in Config
    /\ provider \in Jwt \cup {Nothing} /\ sockets \in Jwt \cup {Nothing}
    /\ listens \in 0 .. MaxListens
    /\ Cardinality(published) <= 1 /\ published \subseteq Seq(Entry)
    /\ timer \in {"unset", "set", "fired"}
    /\ LoadTypeOK

\* The documented order of what puts layers on the app.
Stage(layer) ==
    CASE layer \in {"INITIALIZE", "STARTUP", "PRE_INIT"} -> 1
      [] layer = "builtin" -> 2
      [] layer = "CUSTOM_MIDDLEWARE" -> 3
      [] layer = "accessLog" -> 4
      [] layer = "controller" -> 5
      [] layer = "ops" -> 6
      [] layer = "POST_INIT" -> 7
      [] OTHER -> 8

\* Middleware of hooks stands before every controller it is for, and no route
\* stands behind the error handler but a late one, which may stand anywhere.
LayersInOrder ==
    \A i, j \in DOMAIN stack :
        i < j /\ "late" \notin {stack[i], stack[j]} => Stage(stack[i]) <= Stage(stack[j])

\* One at a time, and each once; none is missed that was registered before the
\* emission of its hook was over, be it by a callback of that hook.
CallsInOrder ==
    /\ Cardinality(running) <= 1
    /\ \A i, j \in DOMAIN called : i < j =>
         \/ Order(called[i][1]) < Order(called[j][1])
         \/ called[i][1] = called[j][1] /\ called[i][2] < called[j][2]
    /\ \A h \in HookNames : ended[h] > 0 => Called(h) = ended[h]

(* docs/startup-sequence.md:24-41, docs/lifecycle-hooks.md:10-17: hooks,   *)
(* middleware, controllers, ops endpoints and the error handler come in    *)
(* the documented order, whatever callbacks do and register.               *)
DocumentedOrder == CallsInOrder /\ LayersInOrder

(* What runs with JWT has a proper secret, although callbacks may change   *)
(* the configuration after it was validated.                               *)
SecretsUsable == "broken" \notin {provider, sockets} /\ sockets # "off"

HasOps == \E i \in DOMAIN stack : stack[i] = "ops"

(* Whenever the ops endpoints are there and the list of routes has not     *)
(* been withdrawn, the list that /__routes answers with is true of the app *)
(* (see ControllerLoading), whatever failed while it was made.             *)
OpsTruth == HasOps /\ published # {} => \A list \in Routes : TrueOfApp(list)
=============================================================================
