-------------------------- MODULE RuntimeShutdown --------------------------
(***************************************************************************)
(* The end of one server process: the shutdown() that createServer()       *)
(* installs for signals and for fatal errors (src/index.ts), over the      *)
(* services of ServiceRegistry, the scheduler among them, the SHUTDOWN     *)
(* hook, the HTTP server, the WebSocket server on it and log4js.           *)
(*                                                                         *)
(* Nothing keeps a second signal or an error from starting shutdown()      *)
(* again: its runs are processes that interleave at their awaits, and the  *)
(* first one that gets to process.exit() ends them all.                    *)
(***************************************************************************)
EXTENDS RegistryConstants

CONSTANTS
    HooksMayFail,       \* a SHUTDOWN hook may throw
    MaxRuns             \* bound: runs of shutdown() started

Scheduler == "scheduler"
WebSocket == "websocketManager"
Runs      == 1 .. MaxRuns

ASSUME RuntimeAssumption == HooksMayFail \in BOOLEAN /\ MaxRuns \in Nat

VARIABLES
    slots, made, calls,     \* the registry; run r makes call r of shutdownAll()
    runs,       \* run -> where it is
    server,     \* the HTTP server: listening, and busy with connections
    exit,       \* how the process ended
    logs        \* log appenders: open, or how process.exit() left them

Registry == INSTANCE ServiceRegistry WITH Callers <- Runs

registry == <<slots, made, calls>>
vars == <<slots, made, calls, runs, server, exit, logs>>

Run == [pc    : {"none", "scheduler", "hook", "services", "server", "over"},
        fatal : BOOLEAN,    \* started by onFatal(), which set its 10 s timer
        unstopped : BOOLEAN,    \* history: its stopScheduler() threw
        late  : BOOLEAN]    \* its 30 s for the services ran out

Exits == {"running", "complete", "aborted", "fatal"}

Init ==
    /\ Registry!Init
    /\ runs = [r \in Runs |-> [pc |-> "none", fatal |-> FALSE, unstopped |-> FALSE, late |-> FALSE]]
    /\ server \in [listening : {TRUE}, busy : BOOLEAN]
    /\ exit = "running"
    /\ logs = "open"

Goto(r, pc) == runs' = [runs EXCEPT ![r].pc = pc]

-----------------------------------------------------------------------------
(* The steps of a run.                                                     *)

\* Mutant: the service stays in the registry.
KeepScheduler == UNCHANGED registry

\* services.delete('scheduler'), when its shutdown() is done.
ForgetScheduler ==
    IF Registry!Has(Scheduler) THEN Registry!Delete(Scheduler) ELSE UNCHANGED registry

\* A signal or a fatal error: stopScheduler() calls what is registered as the
\* scheduler.  That may be a service of the application's own, which takes its
\* time: startScheduler() leaves one alone that it finds.
Start(r, fatal) ==
    /\ exit = "running" /\ runs[r].pc = "none"
    /\ \A q \in 1 .. r - 1 : runs[q].pc # "none"
    /\ runs' = [runs EXCEPT ![r] =
                  [@ EXCEPT !.pc = IF Registry!Has(Scheduler) THEN "scheduler" ELSE "hook",
                            !.fatal = fatal]]
    /\ UNCHANGED <<slots, made, calls, server, exit, logs>>

\* The scheduler's shutdown() settles.  If it fails that is logged, and the run
\* goes on with the scheduler still registered.
SchedulerStops(r, ok) ==
    /\ exit = "running" /\ runs[r].pc = "scheduler"
    /\ IF ok THEN ForgetScheduler ELSE UNCHANGED registry
    /\ runs' = [runs EXCEPT ![r] = [@ EXCEPT !.pc = "hook", !.unstopped = ~ok]]
    /\ UNCHANGED <<server, exit, logs>>

\* A service that is asked to shut down may close the HTTP server with it:
\* io.close() of the WebSocket server does.
CloseWithService(r) ==
    LET closing == calls'[r].waits # Registry!NoService
                     /\ slots[calls'[r].at].name = WebSocket
    IN  server' = [server EXCEPT !.listening = @ /\ ~closing]

\* Mutant: shutdownAll() is not called.
SkipServices(r) ==
    /\ Goto(r, "services")
    /\ UNCHANGED <<slots, made, calls, server>>

\* The hook's promise is fulfilled: shutdownAll() begins.
AskServices(r) ==
    /\ Goto(r, "services")
    /\ Registry!Begin(r)
    /\ CloseWithService(r)

HookDone(r) ==
    /\ exit = "running" /\ runs[r].pc = "hook"
    /\ AskServices(r)
    /\ UNCHANGED <<exit, logs>>

\* A hook throws: on to the outer catch block and process.exit(0).
HookThrows(r) ==
    /\ HooksMayFail
    /\ exit = "running" /\ runs[r].pc = "hook"
    /\ Goto(r, "over")
    /\ exit' = "aborted"
    /\ UNCHANGED <<slots, made, calls, server, logs>>

\* A service settles, the WebSocket server when no connection is left; the
\* loop of call r goes on.
ServiceSettles(r, ok) ==
    /\ exit = "running" /\ calls[r].waits # Registry!NoService
    /\ slots[calls[r].at].name = WebSocket => ~server.busy
    /\ Registry!Settle(r, ok)
    /\ CloseWithService(r)
    /\ UNCHANGED <<runs, exit, logs>>

\* Mutant: shutdownAll() is not awaited.
NotAwaited(r) == runs[r].pc = "services"

ServicesDone(r) == runs[r].pc = "services" /\ calls[r].status = "returned"

\* Mutant: shutdownAll() is awaited without the timeout.
NeverLate(r) == FALSE

ServicesLate(r) == runs[r].pc = "services" /\ calls[r].status # "returned"

\* Promise.race() settles, and server.close() is called.
CloseServer(r, late) ==
    /\ exit = "running"
    /\ IF late THEN ServicesLate(r) ELSE ServicesDone(r)
    /\ runs' = [runs EXCEPT ![r] = [@ EXCEPT !.pc = "server", !.late = late]]
    /\ server' = [server EXCEPT !.listening = FALSE]
    /\ UNCHANGED <<slots, made, calls, exit, logs>>

\* server.close() calls back, with an error or not, when no connection is left.
ServerClosed == ~server.listening /\ ~server.busy

\* log4js.shutdown() is called but not waited for: resolve() follows at once.
\* Appenders that write asynchronously are cut off by process.exit(0).
FinishRun(r) ==
    /\ exit = "running" /\ runs[r].pc = "server"
    /\ ServerClosed
    /\ Goto(r, "over")
    /\ logs' \in {"flushed", "cut"}
    /\ exit' = "complete"
    /\ UNCHANGED <<slots, made, calls, server>>

TimerSet(r) == runs[r].fatal /\ runs[r].pc # "over"

\* The timer of onFatal() runs out: process.exit(1).
FatalTimeout(r) ==
    /\ exit = "running" /\ TimerSet(r)
    /\ exit' = "fatal"
    /\ UNCHANGED <<slots, made, calls, runs, server, logs>>

-----------------------------------------------------------------------------
(* The rest of the process.                                                *)

\* Requests, hooks and jobs go on using the registry.  Two names are those of
\* the framework, which registers under them before a shutdown only.
Application ==
    /\ exit = "running"
    /\ \E name \in Names :
         \/ name \notin {Scheduler, WebSocket} /\ Registry!Add(name)
         \/ name \in MayReplace \ {Scheduler, WebSocket} /\ Registry!Replace(name)
         \/ Registry!Delete(name)
    /\ UNCHANGED <<runs, server, exit, logs>>

Connect ==
    /\ exit = "running" /\ server.listening /\ ~server.busy
    /\ server' = [server EXCEPT !.busy = TRUE]
    /\ UNCHANGED <<slots, made, calls, runs, exit, logs>>

Drain ==
    /\ exit = "running" /\ server.busy
    /\ server' = [server EXCEPT !.busy = FALSE]
    /\ UNCHANGED <<slots, made, calls, runs, exit, logs>>

Step(r) ==
    \/ \E fatal \in BOOLEAN : Start(r, fatal)
    \/ \E ok \in BOOLEAN : SchedulerStops(r, ok)
    \/ HookDone(r)
    \/ HookThrows(r)
    \/ \E ok \in BOOLEAN : ServiceSettles(r, ok)
    \/ \E late \in BOOLEAN : CloseServer(r, late)
    \/ FinishRun(r)
    \/ FatalTimeout(r)

Next == Application \/ Connect \/ Drain \/ \E r \in Runs : Step(r)

Spec == Init /\ [][Next]_vars

(* The event loop keeps turning: timers fire and continuations run.  The   *)
(* scheduler's shutdown and the hooks of a run that a signal started       *)
(* settle, and open connections are closed at last; after a fatal error    *)
(* both may hang, and services always may.                                 *)
FairSpec ==
    /\ Spec
    /\ WF_vars(Drain)
    /\ \A r \in Runs :
         /\ WF_vars(~runs[r].fatal /\ \E ok \in BOOLEAN : SchedulerStops(r, ok))
         /\ WF_vars(~runs[r].fatal /\ HookDone(r))
         /\ WF_vars(\E late \in BOOLEAN : CloseServer(r, late))
         /\ WF_vars(FinishRun(r))
         /\ WF_vars(FatalTimeout(r))

-----------------------------------------------------------------------------
(* Properties.                                                             *)

TypeOK ==
    /\ Registry!TypeOK
    /\ runs \in [Runs -> Run]
    /\ \A r \in Runs :
         /\ runs[r].pc \in {"none", "scheduler", "hook"} => calls[r].status = "idle"
         /\ runs[r].pc \in {"services", "server"} => calls[r].status # "idle"
    /\ server \in [listening : BOOLEAN, busy : BOOLEAN]
    /\ exit \in Exits
    /\ logs \in {"open", "flushed", "cut"}

(* docs/scheduler.md:66, docs/startup-sequence.md:65-67: the scheduler is  *)
(* shut down before any service is, so that no job finds its services      *)
(* closed.  A run only asks a service while a scheduler is registered if   *)
(* its own attempt to stop that scheduler has failed; and what other runs  *)
(* and the application do in the meantime brings none back.                *)
SchedulerFirst ==
    \A r \in Runs : calls[r].asked # {} => ~Registry!Has(Scheduler) \/ runs[r].unstopped

(* A service that run r still awaits, and whose time is not up.            *)
Awaits(r) == calls[r].waits # Registry!NoService /\ ~runs[r].late

(* A shutdown that runs to its end cuts off no request: the server is      *)
(* closed and its connections are drained, whoever closed it; and if it    *)
(* runs alone it leaves no service in the middle of its own shutdown, but  *)
(* for one that its 30 seconds ran out on, whatever the application does   *)
(* to the registry and however services fail.                              *)
CompleteExit ==
    exit = "complete" =>
        /\ ~server.listening /\ ~server.busy
        /\ \A r \in Runs : Awaits(r) => \E q \in Runs \ {r} : runs[q].pc # "none"

(* docs/service-registry.md:51: a run whose call of shutdownAll() returns  *)
(* has asked every service that is then registered (see ServiceRegistry).  *)
SweepComplete == Registry!SweepComplete

(* A signal or a fatal error ends the process: in spite of services that   *)
(* hang, by the 30 s timeout, and after a fatal error also in spite of a   *)
(* scheduler, hooks and connections that hang, by the 10 s timer of        *)
(* onFatal().                                                              *)
ProcessEnds == \A r \in Runs : runs[r].pc # "none" ~> exit # "running"

-----------------------------------------------------------------------------
(* Claims of the documentation that the code does not keep.                *)

(* docs/startup-sequence.md:67-70: services are shut down, then the        *)
(* process exits.                                                          *)
NothingCutOff == exit = "complete" => \A r \in Runs : ~Awaits(r)
=============================================================================
