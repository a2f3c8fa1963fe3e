-------------------------- MODULE SchedulerService --------------------------
(***************************************************************************)
(* The scheduler of one process: SchedulerService                          *)
(* (src/lib/scheduler/scheduler-service.ts) with the startScheduler() and  *)
(* stopScheduler() that own it (src/lib/scheduler/runtime.ts).  The class  *)
(* takes a leaderCheck that startScheduler() does not pass; only a service *)
(* that a caller builds by itself, as the tests of the repository do, asks *)
(* it for jobs that are leaderOnly.                                        *)
(*                                                                         *)
(* Every cron task and every timeout is an entry with an identity of its   *)
(* own; the tasks map knows entries by name only.  A cron callback is a    *)
(* process that can wait twice, for leaderCheck() and for the job's run(), *)
(* so several callbacks of one entry may be under way.                     *)
(***************************************************************************)
EXTENDS Naturals, Sequences, Functions

CONSTANTS
    Jobs,               \* enabled jobs of the configuration, in its order
    OtherNames,         \* names the application registers tasks under
    Starts,             \* how the service comes to be, see Phases
    LeaderOnly,         \* tasks registered as leaderOnly
    ModulesMayFail,     \* resolving a job's module, or its cron, may throw
    UseHandles,         \* the application uses what scheduleTimeout() returns
    CancelRunning,      \* it also cancels timeouts whose function is running
    MaxEntries,         \* bound: entries ever made
    MaxCallbacks        \* bound: callbacks of one entry under way

JobNames == {Jobs[i] : i \in 1 .. Len(Jobs)}
Names    == JobNames \cup OtherNames

ASSUME ConfigAssumption ==
    /\ Jobs \in Seq(JobNames)
    /\ Starts \subseteq {"initializing", "own"}
    /\ LeaderOnly \subseteq Names
    /\ {ModulesMayFail, UseHandles, CancelRunning} \subseteq BOOLEAN
    /\ MaxEntries \in Nat /\ MaxCallbacks \in Nat

NoEntry == 0

VARIABLES
    phase,      \* whose the service is and how far that got, see Phases
    resolved,   \* how many of Jobs init() has registered
    tasks,      \* Map name -> Scheduled, or NoEntry
    made,       \* how many entries were made; the last entry's identity
    entries     \* entry -> its task, flags and callbacks

vars == <<phase, resolved, tasks, made, entries>>

\* Those of startScheduler() and stopScheduler(); or the service is a caller's
\* own, built with a leaderCheck: its init() comes to one register() after the
\* other.
Phases == {"initializing", "started", "failed", "stopped", "own"}

CronEntry ==
    [name : Names, kind : {"cron"},
     armed     : BOOLEAN,             \* the cron task ticks
     running   : BOOLEAN,             \* Scheduled.running
     checking  : 0 .. MaxCallbacks,   \* callbacks that await leaderCheck()
     executing : 0 .. MaxCallbacks]   \* callbacks that await run()

TimeoutEntry ==
    [name : Names, kind : {"timeout"},
     armed     : BOOLEAN,             \* the timer is set
     running   : {FALSE}, checking : {0},
     executing : 0 .. 1]              \* fn() is under way

Entries == 1 .. made
Crons    == {e \in Entries : entries[e].kind = "cron"}
Timeouts == {e \in Entries : entries[e].kind = "timeout"}

Init ==
    /\ phase \in Starts
    /\ resolved = 0
    /\ tasks = [n \in Names |-> NoEntry]
    /\ made = 0
    /\ entries = [e \in {} |-> NoEntry]

\* The service is in the registry: services.set() came before init().  Or the
\* caller has it.
Reachable == phase \in {"initializing", "started", "own"}

\* this.leaderCheck is set, and the task wants it asked.
Asks(name) == phase = "own" /\ name \in LeaderOnly

NewEntry(name, kind) ==
    [name |-> name, kind |-> kind, armed |-> TRUE, running |-> FALSE,
     checking |-> 0, executing |-> 0]

NameFree(name) == tasks[name] = NoEntry

\* tasks.set(name, ...) for a task that was just started.
Add(name, kind) ==
    /\ made < MaxEntries
    /\ made' = made + 1
    /\ entries' = [e \in 1 .. made + 1 |->
                     IF e = made + 1 THEN NewEntry(name, kind) ELSE entries[e]]
    /\ tasks' = [tasks EXCEPT ![name] = made + 1]

-----------------------------------------------------------------------------
(* Bootstrap and shutdown.                                                 *)

\* init(): the module of the next job has resolved; register() takes it.
InitJob ==
    /\ phase = "initializing" /\ resolved < Len(Jobs)
    /\ NameFree(Jobs[resolved + 1])
    /\ Add(Jobs[resolved + 1], "cron")
    /\ resolved' = resolved + 1
    /\ UNCHANGED phase

\* It throws: the module does not resolve, its cron expression is invalid, or
\* the name is taken.  startScheduler() forgets the service and rethrows.
InitThrows ==
    /\ phase = "initializing" /\ resolved < Len(Jobs)
    /\ ModulesMayFail \/ ~NameFree(Jobs[resolved + 1])
    /\ phase' = "failed"
    /\ UNCHANGED <<resolved, tasks, made, entries>>

InitDone ==
    /\ phase = "initializing" /\ resolved = Len(Jobs)
    /\ phase' = "started"
    /\ UNCHANGED <<resolved, tasks, made, entries>>

Disarm(stopped) ==
    entries' = [e \in Entries |-> [entries[e] EXCEPT !.armed = @ /\ e \notin stopped]]

\* Mutant: the map is cleared without stopping the tasks in it.
ForgetAll ==
    /\ tasks' = [n \in Names |-> NoEntry]
    /\ UNCHANGED entries

\* cancelAll(): cancel() for every name in the map.
CancelAll ==
    /\ tasks' = [n \in Names |-> NoEntry]
    /\ Disarm(Range(tasks))

\* stopScheduler(): shutdown(), then services.delete('scheduler').
StopScheduler ==
    /\ phase = "started"
    /\ CancelAll
    /\ phase' = "stopped"
    /\ UNCHANGED <<resolved, made>>

-----------------------------------------------------------------------------
(* What the application may ask of the service.                            *)

Register(name) ==
    /\ Reachable /\ NameFree(name)
    /\ Add(name, "cron")
    /\ UNCHANGED <<phase, resolved>>

ScheduleTimeout(name) ==
    /\ Reachable /\ NameFree(name)
    /\ Add(name, "timeout")
    /\ UNCHANGED <<phase, resolved>>

Cancel(name) ==
    /\ Reachable /\ tasks[name] # NoEntry
    /\ CancelRunning \/ tasks[name] \in Crons \/ entries[tasks[name]].executing = 0
    /\ Disarm({tasks[name]})
    /\ tasks' = [tasks EXCEPT ![name] = NoEntry]
    /\ UNCHANGED <<phase, resolved, made>>

\* The function scheduleTimeout() returned: the name stays in the map.
CancelHandle(e) ==
    /\ UseHandles
    /\ e \in Timeouts /\ entries[e].armed
    /\ Disarm({e})
    /\ UNCHANGED <<phase, resolved, tasks, made>>

-----------------------------------------------------------------------------
(* Callbacks.                                                              *)

Begin(e) == [entries[e] EXCEPT !.running = TRUE, !.executing = @ + 1]

Free(e) == ~entries[e].running

\* A cron tick that finds no run in progress and need not ask for the leader.
TickRuns(e) ==
    /\ e \in Crons /\ entries[e].armed /\ Free(e)
    /\ ~Asks(entries[e].name)
    /\ entries[e].executing + entries[e].checking < MaxCallbacks
    /\ entries' = [entries EXCEPT ![e] = Begin(e)]
    /\ UNCHANGED <<phase, resolved, tasks, made>>

\* One that awaits leaderCheck() first.
TickAsks(e) ==
    /\ e \in Crons /\ entries[e].armed /\ Free(e)
    /\ Asks(entries[e].name)
    /\ entries[e].executing + entries[e].checking < MaxCallbacks
    /\ entries' = [entries EXCEPT ![e].checking = @ + 1]
    /\ UNCHANGED <<phase, resolved, tasks, made>>

LeaderAnswers(e, ok) ==
    /\ e \in Crons /\ entries[e].checking > 0
    /\ entries' = [entries EXCEPT ![e] =
                     [(IF ok THEN Begin(e) ELSE entries[e]) EXCEPT !.checking = @ - 1]]
    /\ UNCHANGED <<phase, resolved, tasks, made>>

\* Mutant: running is reset on success only, and this run failed.
FailureKeepsFlag(e) == [entries[e] EXCEPT !.executing = @ - 1]

AfterRun(e) == [entries[e] EXCEPT !.running = FALSE, !.executing = @ - 1]

\* run() settles, either way: the finally block resets the flag.
RunEnds(e) ==
    /\ e \in Crons /\ entries[e].executing > 0
    /\ entries' = [entries EXCEPT ![e] = AfterRun(e)]
    /\ UNCHANGED <<phase, resolved, tasks, made>>

\* Mutant: setInterval() for setTimeout().
IntervalFires(e) ==
    /\ e \in Timeouts /\ entries[e].armed
    /\ entries' = [entries EXCEPT ![e].executing = @ + 1]
    /\ UNCHANGED <<phase, resolved, tasks, made>>

\* The timer of a timeout fires and its function starts.
TimeoutFires(e) ==
    /\ e \in Timeouts /\ entries[e].armed
    /\ entries' = [entries EXCEPT ![e] = [@ EXCEPT !.armed = FALSE, !.executing = 1]]
    /\ UNCHANGED <<phase, resolved, tasks, made>>

\* Mutant: no finally block.
KeepName(name) == tasks

DropName(name) == [tasks EXCEPT ![name] = NoEntry]

\* fn() settles: tasks.delete(name), whatever entry the name stands for now.
TimeoutEnds(e) ==
    /\ e \in Timeouts /\ entries[e].executing > 0
    /\ entries' = [entries EXCEPT ![e].executing = 0]
    /\ tasks' = DropName(entries[e].name)
    /\ UNCHANGED <<phase, resolved, made>>

-----------------------------------------------------------------------------

Bootstrap == InitJob \/ InitThrows \/ InitDone \/ StopScheduler

Application ==
    \/ \E n \in OtherNames : Register(n) \/ ScheduleTimeout(n)
    \/ \E n \in Names : Cancel(n)
    \/ \E e \in Entries : CancelHandle(e)

Callback(e) ==
    \/ TickRuns(e)
    \/ TickAsks(e)
    \/ \E ok \in BOOLEAN : LeaderAnswers(e, ok)
    \/ RunEnds(e)
    \/ TimeoutFires(e)
    \/ TimeoutEnds(e)

Next == Bootstrap \/ Application \/ \E e \in Entries : Callback(e)

Spec == Init /\ [][Next]_vars

(* Timers fire and the functions of timeouts settle.  Nothing makes a cron *)
(* task tick or the application call.                                      *)
FairSpec ==
    /\ Spec
    /\ \A e \in 1 .. MaxEntries : WF_vars(TimeoutFires(e)) /\ WF_vars(TimeoutEnds(e))

-----------------------------------------------------------------------------
(* Properties.                                                             *)

TypeOK ==
    /\ phase \in Phases
    /\ resolved \in 0 .. Len(Jobs)
    /\ tasks \in [Names -> 0 .. made]
    /\ made \in 0 .. MaxEntries
    /\ entries \in [Entries -> CronEntry \cup TimeoutEntry]

(* The reentrancy guard keeps a job from running in parallel with itself,  *)
(* as long as its ticks need not wait for leaderCheck(), and it does not   *)
(* outlive the run it stands for: a job whose last run ended, even by an   *)
(* error, can run at the next tick.                                        *)
Guarded ==
    \A e \in Crons :
        /\ ~Asks(entries[e].name) => entries[e].executing <= 1
        /\ entries[e].running => entries[e].executing > 0

(* The scheduler can reach whatever may still start by itself: every cron  *)
(* task that ticks and every timer that is set is what the map holds under *)
(* its name, so that cancel() and cancelAll() find it; and nothing is left *)
(* of either when the scheduler has stopped.                               *)
Tracked ==
    \A e \in Entries : entries[e].armed =>
        tasks[entries[e].name] = e /\ phase # "stopped"

(* A name taken by scheduleTimeout() becomes free again when its function  *)
(* has run, even if that fails.  (A timeout that is cleared by the function *)
(* scheduleTimeout() returned keeps its name until cancel() is called.)    *)
TimeoutsSettle ==
    \A e \in 1 .. MaxEntries, n \in Names :
        (e \in Timeouts /\ tasks[n] = e /\ entries[e].executing = 1) ~> tasks[n] # e

-----------------------------------------------------------------------------
(* A claim of the documentation that the code does not keep.               *)

(* docs/scheduler.md:65: scheduler shutdown cancels all registered tasks:  *)
(* no tick and no timer that is set may start anything afterwards.         *)
QuietAfterStop == phase = "stopped" => \A e \in Entries : ~entries[e].armed
=============================================================================
