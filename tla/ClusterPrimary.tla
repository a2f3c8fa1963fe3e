--------------------------- MODULE ClusterPrimary ---------------------------
(***************************************************************************)
(* The clustered runtime: the ClusterPrimaryManager of the primary process *)
(* (src/lib/cluster/runtime.ts) and the worker processes it forks, each of *)
(* which runs createServer() and then listens (src/lib/runtime-cli.ts).    *)
(*                                                                         *)
(* The operating system and node:cluster stand between the two: the        *)
(* primary sees a worker's 'listening', 'message' and 'exit' as events in  *)
(* any order, the worker sees the primary's signals some time after they   *)
(* were sent, and either side may stop at any moment.                      *)
(***************************************************************************)
EXTENDS Naturals, FiniteSets, Functions

CONSTANTS
    WorkerCount,        \* cluster.workers
    MaxRestarts,        \* cluster.maxRestarts
    Respawn,            \* cluster.respawn # false
    ReadyObserved,      \* somebody handles a rejection of waitUntilReady()
    WorkersMayLeave,    \* application code calls cluster.worker.disconnect()
    WorkersMayHang      \* a worker's event loop may block for good

ASSUME ConfigAssumption ==
    /\ WorkerCount \in Nat \ {0}
    /\ MaxRestarts \in Nat
    /\ {Respawn, ReadyObserved, WorkersMayLeave, WorkersMayHang} \subseteq BOOLEAN

Ordinals == 0 .. WorkerCount - 1
Leader   == 0                   \* the slot start() marks as scheduler leader
NoWorker == 0                   \* slot.worker = undefined; ids start at 1

VARIABLES
    \* ClusterPrimaryManager
    phase,          \* where the manager stands, see Phases
    slots,          \* Map ordinal -> restartCount, schedulerLeader, worker
    workerToSlot,   \* Map worker id -> ordinal
    readySlots,     \* Set of ordinals that reported ready
    ready,          \* readyPromise: pending, resolved or rejected
    awaited,        \* ids with a waitForWorkerExit() listener still installed
    timer,          \* the workerShutdownTimeoutMs timer of performShutdown()
    exitCode,
    \* the worker processes and what is under way between them and the primary
    forks,          \* how many workers were forked; the last worker id
    proc,           \* worker id -> the process
    events,         \* cluster events not yet delivered to the primary
    sigterm, sigkill    \* worker ids a signal was sent to

manager == <<phase, slots, workerToSlot, readySlots, ready, awaited, timer, exitCode>>
world   == <<forks, proc, events, sigterm, sigkill>>
vars    == <<phase, slots, workerToSlot, readySlots, ready, awaited, timer, exitCode,
             forks, proc, events, sigterm, sigkill>>

Phases == {"created", "supervising", "waiting", "flushing", "exited", "crashed"}
ProcPhases == {"booting", "serving", "stopping", "dead"}
Kinds == {"listening", "message", "exit"}

Slot == [restartCount : Nat, schedulerLeader : BOOLEAN, worker : Nat]
Proc == [ordinal : Ordinals, leader : BOOLEAN, phase : ProcPhases,
         sched : {"off", "running", "stopped"},     \* its attached scheduler
         port  : {"closed", "bound", "announced"},  \* its listen() on the shared port
         hung  : BOOLEAN,                           \* its event loop is blocked
         left  : BOOLEAN]                           \* exitedAfterDisconnect

Ids     == 1 .. forks
Live    == {w \in Ids : proc[w].phase # "dead"}
Gone    == phase \in {"exited", "crashed"}          \* the primary process has ended
\* worker ids the slots hold, and those that hold a worker in s
WorkersOf(s) == {s[o].worker : o \in Ordinals} \ {NoWorker}
\* the processes whose cron tasks fire, and those that ever started them
SchedulersRunning == {w \in Live : proc[w].sched = "running"}
SchedulersUsed    == {w \in Ids : proc[w].sched # "off"}

\* Map.prototype.set()
MapSet(map, key, value) ==
    [k \in DOMAIN map \cup {key} |-> IF k = key THEN value ELSE map[k]]

\* Mutant: every worker is told it leads.
LeaderProc(o, leader) ==
    [ordinal |-> o, leader |-> TRUE, phase |-> "booting",
     sched |-> "off", port |-> "closed", hung |-> FALSE, left |-> FALSE]

\* A forked process with the CLUSTER_ENV variables spawnWorker() gives it.
NewProc(o, leader) ==
    [ordinal |-> o, leader |-> leader, phase |-> "booting",
     sched |-> "off", port |-> "closed", hung |-> FALSE, left |-> FALSE]

Init ==
    /\ phase = "created"
    /\ slots = [o \in Ordinals |->
                  [restartCount |-> 0, schedulerLeader |-> FALSE, worker |-> NoWorker]]
    /\ workerToSlot = [w \in {} |-> Leader]
    /\ readySlots = {}
    /\ ready = "pending"
    /\ awaited = {}
    /\ timer = "off"
    /\ exitCode = 0
    /\ forks = 0
    /\ proc = [w \in {} |-> NewProc(Leader, TRUE)]
    /\ events = {}
    /\ sigterm = {} /\ sigkill = {}

-----------------------------------------------------------------------------
(* The primary.                                                            *)

\* start(): one synchronous loop forks every slot's worker.
Start ==
    /\ phase = "created"
    /\ phase' = "supervising"
    /\ forks' = WorkerCount
    /\ proc' = [w \in 1 .. WorkerCount |-> NewProc(w - 1, w - 1 = Leader)]
    /\ slots' = [o \in Ordinals |->
                   [restartCount |-> 0, schedulerLeader |-> o = Leader, worker |-> o + 1]]
    /\ workerToSlot' = [w \in 1 .. WorkerCount |-> w - 1]
    /\ UNCHANGED <<readySlots, ready, awaited, timer, exitCode, events, sigterm, sigkill>>

\* spawnWorker() for a slot whose restart was just counted.
SpawnWorker(o, schedulerLeader, restartCount, mapping) ==
    /\ forks' = forks + 1
    /\ proc' = MapSet(proc, forks + 1, NewProc(o, schedulerLeader))
    /\ slots' = [slots EXCEPT ![o] = [restartCount |-> restartCount,
                                      schedulerLeader |-> schedulerLeader,
                                      worker |-> forks + 1]]
    /\ workerToSlot' = MapSet(mapping, forks + 1, o)

\* The events somebody still listens for during performShutdown().
Exits(undelivered) == {e \in undelivered : e.kind = "exit"}

\* Mutant: only a worker that was ready is waited for.
ReadyListeners(workers, mapping) ==
    {w \in workers \cap DOMAIN mapping : mapping[w] \in readySlots}

\* waitForWorkerExit() installs no listener for a worker not mapped any more.
ExitListeners(workers, mapping) == workers \cap DOMAIN mapping

\* The synchronous part of performShutdown(): handlers off, SIGTERM to the
\* workers the slots hold, an exit listener for each worker still mapped.
\* From here on nobody hears 'listening' and 'message'.
PerformShutdown(code, workers, mapping, undelivered) ==
    /\ events' = Exits(undelivered)
    /\ exitCode' = code
    /\ sigterm' = sigterm \cup workers
    /\ awaited' = ExitListeners(workers, mapping)
    /\ timer' = "armed"

\* Mutant: readySlots holds worker ids.
SlotOfId(w) == w

SlotOf(w) == workerToSlot[w]

AllReady(reported) == Cardinality(reported) >= WorkerCount

\* markWorkerReady(): ignores a worker no slot is mapped to.
MarkWorkerReady(w) ==
    IF w \notin DOMAIN workerToSlot
    THEN UNCHANGED <<readySlots, ready>>
    ELSE /\ readySlots' = readySlots \cup {SlotOf(w)}
         /\ ready' = IF AllReady(readySlots') /\ ready = "pending"
                     THEN "resolved" ELSE ready

\* 'listening' and 'message' reach the manager while its handlers are on.
WorkerReports(kind, w) ==
    /\ phase = "supervising"
    /\ [kind |-> kind, worker |-> w] \in events
    /\ events' = events \ {[kind |-> kind, worker |-> w]}
    /\ MarkWorkerReady(w)
    /\ UNCHANGED <<phase, slots, workerToSlot, awaited, timer, exitCode,
                   forks, proc, sigterm, sigkill>>

WorkerListening(w) == WorkerReports("listening", w)
WorkerMessage(w)   == WorkerReports("message", w)

\* Mutant: no rejection.
RejectNothing == ready' = ready

\* rejectReady(): the promise settles once.
RejectReady == ready' = IF ready = "pending" THEN "rejected" ELSE ready

\* A rejection nobody handles ends the primary as soon as the handler returns.
PhaseAfterReject(next) ==
    IF ready = "pending" /\ ~ReadyObserved THEN "crashed" ELSE next

\* Mutant: no workerToSlot.delete().
KeepMapping(w) == workerToSlot

\* workerToSlot.delete(worker.id)
Unmap(w) == Restrict(workerToSlot, DOMAIN workerToSlot \ {w})

\* Mutant: off by one.
LateExhausted(restartCount) == restartCount > MaxRestarts + 1

Exhausted(restartCount) == restartCount > MaxRestarts

\* Mutant: the exit of a worker that was not ready yet is no surprise.
UnexpectedIfReady(w) == ~proc[w].left /\ workerToSlot[w] \in readySlots

\* exitedAfterDisconnect # true, while not shutting down
UnexpectedExit(w) == ~proc[w].left

\* The rest of onWorkerExit() for a worker a slot is mapped to.
OnWorkerExit(w, o, undelivered) ==
    LET slot    == slots[o]
        mapping == Unmap(w)
        cleared == [slots EXCEPT ![o].worker = NoWorker]
        counted == [cleared EXCEPT ![o].restartCount = slot.restartCount + 1]
    IN /\ readySlots' = readySlots \ {o}
       /\ \/ /\ ~UnexpectedExit(w)
             /\ slots' = cleared /\ workerToSlot' = mapping
             /\ events' = undelivered
             /\ UNCHANGED <<phase, ready, awaited, timer, exitCode, sigterm, forks, proc>>
          \/ /\ UnexpectedExit(w) /\ ~Respawn           \* capacity reduced
             /\ slots' = cleared /\ workerToSlot' = mapping
             /\ RejectReady
             /\ phase' = PhaseAfterReject(phase)
             /\ events' = undelivered
             /\ UNCHANGED <<awaited, timer, exitCode, sigterm, forks, proc>>
          \/ /\ UnexpectedExit(w) /\ Respawn
             /\ Exhausted(slot.restartCount + 1)      \* restart limit exceeded
             /\ slots' = counted /\ workerToSlot' = mapping
             /\ RejectReady
             /\ PerformShutdown(1, WorkersOf(cleared), mapping, undelivered)
             /\ phase' = PhaseAfterReject("waiting")
             /\ UNCHANGED <<forks, proc>>
          \/ /\ UnexpectedExit(w) /\ Respawn
             /\ ~Exhausted(slot.restartCount + 1)
             /\ SpawnWorker(o, slot.schedulerLeader, slot.restartCount + 1, mapping)
             /\ events' = undelivered
             /\ UNCHANGED <<phase, ready, awaited, timer, exitCode, sigterm>>

\* 'exit' reaches onWorkerExit() while the handlers are on, and the listeners
\* of waitForWorkerExit() once performShutdown() has replaced them.
WorkerExit(w) ==
    LET exit == [kind |-> "exit", worker |-> w]
    IN /\ exit \in events
       /\ \/ /\ phase = "supervising" /\ w \in DOMAIN workerToSlot
             /\ OnWorkerExit(w, workerToSlot[w], events \ {exit})
          \/ /\ ~(phase = "supervising" /\ w \in DOMAIN workerToSlot)
             /\ events' = events \ {exit}
             /\ awaited' = awaited \ {w}
             /\ UNCHANGED <<phase, slots, workerToSlot, readySlots, ready, timer,
                            exitCode, forks, proc, sigterm>>
       /\ UNCHANGED sigkill

\* SIGINT, SIGTERM or a call of shutdown() by the embedding program.
Shutdown ==
    /\ phase = "supervising"
    /\ phase' = "waiting"
    /\ PerformShutdown(0, WorkersOf(slots), workerToSlot, events)
    /\ UNCHANGED <<slots, workerToSlot, readySlots, ready, forks, proc, sigkill>>

\* A second signal: the handlers are off, its default action ends the primary.
SecondSignal ==
    /\ phase \in {"waiting", "flushing"}
    /\ phase' = "crashed"
    /\ events' = {}
    /\ UNCHANGED <<slots, workerToSlot, readySlots, ready, awaited, timer, exitCode,
                   forks, proc, sigterm, sigkill>>

TimerFires ==
    /\ phase = "waiting" /\ timer = "armed"
    /\ timer' = "fired"
    /\ UNCHANGED <<phase, slots, workerToSlot, readySlots, ready, awaited, exitCode, world>>

\* Mutant: no timeout in the race.
AllExited == awaited = {}

WaitOver == awaited = {} \/ timer = "fired"

\* Mutant: only the workers of ready slots.
ReadyWorkers == {slots[o].worker : o \in readySlots}

Remaining == WorkersOf(slots)

\* Promise.race() has settled: SIGKILL to every worker a slot still holds.
Escalate ==
    /\ phase = "waiting"
    /\ WaitOver
    /\ phase' = "flushing"
    /\ sigkill' = sigkill \cup Remaining
    /\ events' = {}                              \* nothing awaits them any more
    /\ UNCHANGED <<slots, workerToSlot, readySlots, ready, awaited, timer, exitCode,
                   forks, proc, sigterm>>

\* flushLogger() called back; process.exit().
Flushed ==
    /\ phase = "flushing"
    /\ phase' = "exited"
    /\ UNCHANGED <<slots, workerToSlot, readySlots, ready, awaited, timer, exitCode, world>>

-----------------------------------------------------------------------------
(* A worker process.                                                       *)

\* An event is on its way for as long as the primary has a handler for it.
Emit(kind, w) ==
    IF phase = "supervising" \/ (phase = "waiting" /\ kind = "exit")
    THEN events' = events \cup {[kind |-> kind, worker |-> w]}
    ELSE UNCHANGED events

Running(w) == w \in Live /\ ~proc[w].hung

\* Mutant: no leader check.
AnyWorkerSchedules(w) == proc[w].sched = "off"

\* startScheduler(): a non-leader worker skips the attached scheduler.
LeaderSchedules(w) == proc[w].leader /\ proc[w].sched = "off"

\* createServer(): the leader's attached scheduler starts during bootstrap.
StartScheduler(w) ==
    /\ Running(w) /\ proc[w].phase = "booting"
    /\ LeaderSchedules(w)
    /\ proc' = [proc EXCEPT ![w].sched = "running"]
    /\ UNCHANGED <<manager, forks, events, sigterm, sigkill>>

\* createServer() ends by installing the process handlers.
InstallHandlers(w) ==
    /\ Running(w) /\ proc[w].phase = "booting"
    /\ proc[w].leader => proc[w].sched = "running"
    /\ proc' = [proc EXCEPT ![w].phase = "serving"]
    /\ UNCHANGED <<manager, forks, events, sigterm, sigkill>>

\* The shared port is bound: node:cluster tells the primary.
Listen(w) ==
    /\ Running(w) /\ proc[w].phase = "serving" /\ proc[w].port = "closed"
    /\ proc' = [proc EXCEPT ![w].port = "bound"]
    /\ Emit("listening", w)
    /\ UNCHANGED <<manager, forks, sigterm, sigkill>>

\* listen() called back: the worker sends CLUSTER_WORKER_READY_MESSAGE.
Announce(w) ==
    /\ Running(w) /\ proc[w].phase = "serving" /\ proc[w].port = "bound"
    /\ proc' = [proc EXCEPT ![w].port = "announced"]
    /\ Emit("message", w)
    /\ UNCHANGED <<manager, forks, sigterm, sigkill>>

\* The worker's own shutdown(), on a signal of the terminal or a fatal error.
BeginStop(w) ==
    /\ Running(w) /\ proc[w].phase = "serving"
    /\ proc' = [proc EXCEPT ![w].phase = "stopping"]
    /\ UNCHANGED <<manager, forks, events, sigterm, sigkill>>

StopScheduler(w) ==
    /\ Running(w) /\ proc[w].phase = "stopping" /\ proc[w].sched = "running"
    /\ proc' = [proc EXCEPT ![w].sched = "stopped"]
    /\ UNCHANGED <<manager, forks, events, sigterm, sigkill>>

\* Every end of a process puts its exit event on the way to the primary.
Die(w) ==
    /\ proc' = [proc EXCEPT ![w] = [@ EXCEPT !.phase = "dead", !.hung = FALSE]]
    /\ Emit("exit", w)
    /\ UNCHANGED <<manager, forks, sigterm, sigkill>>

\* process.exit() at the end of the worker's shutdown.
ExitWorker(w) ==
    /\ Running(w) /\ proc[w].phase = "stopping" /\ proc[w].sched # "running"
    /\ Die(w)

\* Bootstrap failure, fatal timer, out of memory, kill from outside.
Crash(w) == w \in Live /\ Die(w)

\* cluster.worker.disconnect() by application code; the process then ends.
Leave(w) ==
    /\ WorkersMayLeave
    /\ Running(w)
    /\ proc' = [proc EXCEPT ![w] = [@ EXCEPT !.phase = "dead", !.left = TRUE]]
    /\ Emit("exit", w)
    /\ UNCHANGED <<manager, forks, sigterm, sigkill>>

\* A callback of the application never returns.
Hang(w) ==
    /\ WorkersMayHang
    /\ Running(w)
    /\ proc' = [proc EXCEPT ![w].hung = TRUE]
    /\ UNCHANGED <<manager, forks, events, sigterm, sigkill>>

\* SIGTERM: deadly before the handlers are on, afterwards a shutdown request.
TakeSigterm(w) ==
    /\ w \in sigterm \cap Live
    /\ \/ /\ proc[w].phase = "booting"
          /\ Die(w)
       \/ /\ ~proc[w].hung /\ proc[w].phase = "serving"
          /\ proc' = [proc EXCEPT ![w].phase = "stopping"]
          /\ UNCHANGED <<manager, forks, events, sigterm, sigkill>>

TakeSigkill(w) == w \in sigkill \cap Live /\ Die(w)

\* The primary has ended: node:cluster ends a worker whose channel closes.
ChannelLost(w) == Gone /\ Running(w) /\ Die(w)

-----------------------------------------------------------------------------

PrimaryStep ==
    \/ Start
    \/ Shutdown
    \/ SecondSignal
    \/ TimerFires
    \/ Escalate
    \/ Flushed
    \/ \E w \in Ids : WorkerListening(w) \/ WorkerMessage(w) \/ WorkerExit(w)

WorkerStep(w) ==
    \/ StartScheduler(w)
    \/ InstallHandlers(w)
    \/ Listen(w)
    \/ Announce(w)
    \/ BeginStop(w)
    \/ StopScheduler(w)
    \/ ExitWorker(w)
    \/ Crash(w)
    \/ Leave(w)
    \/ Hang(w)
    \/ TakeSigterm(w)
    \/ TakeSigkill(w)
    \/ ChannelLost(w)

Next == PrimaryStep \/ \E w \in Ids : WorkerStep(w)

Spec == Init /\ [][Next]_vars

(* Timers fire, log4js.shutdown() calls back, events are delivered, a      *)
(* SIGKILL ends its process, and a process whose event loop is not blocked *)
(* gets on with its bootstrap, its shutdown and a closed channel.  Nothing *)
(* makes a crash, a signal, a disconnect or a blocked loop happen.         *)
MaxForks == WorkerCount * (MaxRestarts + 1)

Fairness ==
    /\ WF_vars(Start) /\ WF_vars(TimerFires) /\ WF_vars(Escalate) /\ WF_vars(Flushed)
    /\ \A w \in 1 .. MaxForks :
          /\ WF_vars(WorkerListening(w)) /\ WF_vars(WorkerMessage(w))
          /\ WF_vars(WorkerExit(w))
          /\ WF_vars(StartScheduler(w)) /\ WF_vars(InstallHandlers(w))
          /\ WF_vars(Listen(w)) /\ WF_vars(Announce(w))
          /\ WF_vars(StopScheduler(w)) /\ WF_vars(ExitWorker(w))
          /\ WF_vars(TakeSigkill(w)) /\ WF_vars(ChannelLost(w))

FairSpec == Spec /\ Fairness

-----------------------------------------------------------------------------
(* Properties.                                                             *)

TypeOK ==
    /\ phase \in Phases
    /\ slots \in [Ordinals -> Slot]
    /\ \A o \in Ordinals : slots[o].worker \in 0 .. forks
    /\ DOMAIN workerToSlot \subseteq Ids
    /\ workerToSlot \in [DOMAIN workerToSlot -> Ordinals]
    /\ readySlots \subseteq Ordinals
    /\ ready \in {"pending", "resolved", "rejected"}
    /\ awaited \subseteq Ids
    /\ timer \in {"off", "armed", "fired"}
    /\ exitCode \in {0, 1}
    /\ forks \in Nat
    /\ proc \in [Ids -> Proc]
    /\ events \subseteq [kind : Kinds, worker : Ids]
    /\ sigterm \subseteq Ids /\ sigkill \subseteq Ids

(* Attached scheduler jobs run in at most one process of the cluster, over *)
(* every respawn of the leader, whatever the primary still has to hear     *)
(* (docs/clustering.md, "only the leader worker starts the scheduler").    *)
SchedulerSingleton == \A v, w \in SchedulersRunning : v = w

ExitPending(w) == [kind |-> "exit", worker |-> w] \in events

(* A slot counts as ready only for the worker it holds now: a late         *)
(* 'listening' or ready message of an exited incarnation is not taken for  *)
(* its replacement (markWorkerReady(), onWorkerExit()).                    *)
ReadyIsCurrent ==
    phase = "supervising" =>
        \A o \in readySlots : /\ slots[o].worker # NoWorker
                              /\ proc[slots[o].worker].port # "closed"

(* While the primary supervises, a slot is only empty if its worker left   *)
(* on purpose or respawn is off; any other slot has a worker that is alive *)
(* or whose exit event the manager will still handle for that slot.        *)
SlotsSupervised ==
    phase = "supervising" => \A o \in Ordinals :
        LET w == slots[o].worker
        IN IF w = NoWorker
           THEN ~Respawn \/ \E v \in Ids : proc[v].ordinal = o /\ proc[v].left
           ELSE /\ w \in Live \/ ExitPending(w)
                /\ w \in DOMAIN workerToSlot /\ workerToSlot[w] = o

Incarnations(o) == {w \in Ids : proc[w].ordinal = o}

(* No slot is forked more than 1 + maxRestarts times, and the primary only *)
(* gives up (exit code 1) over a slot that has used its restarts up.       *)
RestartBudget ==
    /\ \A o \in Ordinals : Cardinality(Incarnations(o)) <= MaxRestarts + 1
    /\ exitCode = 1 =>
          \E o \in Ordinals : Cardinality(Incarnations(o)) = MaxRestarts + 1

(* The bookkeeping behind the properties, inductive together with TypeOK   *)
(* (proved in ClusterPrimaryProofs): slots, workerToSlot and the processes *)
(* agree; an event on its way tells the truth about its sender; only slot  *)
(* Leader's incarnations lead, and the slot's worker is its youngest.      *)
NothingForked == phase = "created" => forks = 0 /\ events = {}

LiveInSlot == \A w \in Live : slots[proc[w].ordinal].worker = w

SlotsMapped ==
    \A o \in Ordinals : slots[o].worker # NoWorker =>
        /\ slots[o].worker \in DOMAIN workerToSlot
        /\ proc[slots[o].worker].ordinal = o

MappedInSlot ==
    \A w \in DOMAIN workerToSlot :
        proc[w].ordinal = workerToSlot[w] /\ slots[workerToSlot[w]].worker = w

EventsTrue ==
    \A e \in events :
        IF e.kind = "exit" THEN proc[e.worker].phase = "dead"
                           ELSE proc[e.worker].port # "closed"

LeaderSlotOnly ==
    /\ \A o \in Ordinals : slots[o].schedulerLeader => o = Leader
    /\ \A w \in Ids : /\ proc[w].leader => proc[w].ordinal = Leader
                      /\ proc[w].sched # "off" => proc[w].leader

YoungestInSlot ==
    \A w \in Ids : LET o == proc[w].ordinal
                   IN slots[o].worker # NoWorker => w <= slots[o].worker

Bookkeeping ==
    /\ NothingForked /\ LiveInSlot /\ SlotsMapped /\ MappedInSlot
    /\ EventsTrue /\ LeaderSlotOnly /\ YoungestInSlot

KillOrder ==
    /\ phase = "waiting" => Live \subseteq awaited
    /\ phase \in {"created", "supervising", "waiting"} => sigkill = {}

(* Once the primary is past its wait, every worker still alive has had a   *)
(* SIGKILL sent to it, and a worker is only killed alive after the timeout *)
(* (performShutdown(), waitForWorkerExit()).                               *)
KillEscalation ==
    /\ phase \in {"flushing", "exited"} => Live \subseteq sigkill
    /\ Live \cap sigkill # {} => timer = "fired"

(* waitUntilReady() settles once; it resolves only in a step after which   *)
(* every slot is held by a worker that has bound the shared port.          *)
ReadyVerdict ==
    [][ready' # ready =>
          /\ ready = "pending"
          /\ ready' = "resolved" => \A o \in Ordinals :
                /\ slots'[o].worker # NoWorker
                /\ proc'[slots'[o].worker].port # "closed"]_vars

(* The one-owner protocol of SchedulerOwner.                               *)
Owner == INSTANCE SchedulerOwner WITH running <- SchedulersRunning, used <- SchedulersUsed
OwnerSpec == Owner!Spec

(* A shutdown of the primary ends, even if a worker never exits.           *)
ShutdownEnds == phase = "waiting" ~> Gone

(* No worker outlives an orderly shutdown, not even one whose event loop   *)
(* is blocked and which neither a SIGTERM nor a closed channel can end.    *)
NoWorkerOutlives == phase = "exited" ~> Live = {}

(* With workers that neither hang nor leave, waitUntilReady() settles      *)
(* unless the primary is shut down first: by the last ready worker, or     *)
(* rejected by a crash on the way that leaves the cluster without one.     *)
ReadySettles ==
    phase = "supervising" ~>
        \/ ready # "pending" \/ phase # "supervising"
        \/ \E w \in Ids : proc[w].hung \/ proc[w].left

=============================================================================
