----------------------- MODULE RuntimeShutdownProofs -----------------------
(***************************************************************************)
(* Proofs about RuntimeShutdown, for every set of services, every number   *)
(* of shutdown() runs and every bound.  What is known of the registry is   *)
(* taken over from ServiceRegistryProofs.                                  *)
(***************************************************************************)
EXTENDS RuntimeShutdown, TLAPS

RegistryProofs == INSTANCE ServiceRegistryProofs WITH Callers <- Runs

\* The registry's own invariant, with the runs as its callers.
RegistryInv == RegistryProofs!IInv

\* The two instances are of one registry.
LEMMA SameRegistry ==
    /\ Registry!Init <=> RegistryProofs!Init
    /\ Registry!Next <=> RegistryProofs!Next
    /\ RegistryInv => Registry!TypeOK
<1>1. Registry!Init <=> RegistryProofs!Init
  BY DEF Registry!Init, RegistryProofs!Init, Registry!NewSlot, RegistryProofs!NewSlot,
         Registry!NoService, RegistryProofs!NoService
<1>2. Registry!Application <=> RegistryProofs!Application
  BY DEF Registry!Application, Registry!Add, Registry!Replace, Registry!Delete,
         Registry!Has, Registry!Live, Registry!NewSlot,
         RegistryProofs!Application, RegistryProofs!Add, RegistryProofs!Replace,
         RegistryProofs!Delete, RegistryProofs!Has, RegistryProofs!Live,
         RegistryProofs!NewSlot
<1>3. ASSUME NEW r \in Runs PROVE Registry!Caller(r) <=> RegistryProofs!Caller(r)
  BY DEF Registry!Caller, Registry!Begin, Registry!Settle, Registry!AfterError,
         Registry!Advance, Registry!Visit, Registry!Finish, Registry!Ahead,
         Registry!Closable, Registry!NoService,
         RegistryProofs!Caller, RegistryProofs!Begin, RegistryProofs!Settle,
         RegistryProofs!AfterError, RegistryProofs!Advance, RegistryProofs!Visit,
         RegistryProofs!Finish, RegistryProofs!Ahead, RegistryProofs!Closable,
         RegistryProofs!NoService
<1>4. Registry!Next <=> RegistryProofs!Next
  BY <1>2, <1>3 DEF Registry!Next, RegistryProofs!Next
<1>5. RegistryInv => Registry!TypeOK
  BY DEF RegistryInv, RegistryProofs!IInv, RegistryProofs!TypeOK, Registry!TypeOK,
         RegistryProofs!Slot, Registry!Slot, RegistryProofs!Call, Registry!Call,
         RegistryProofs!Live, Registry!Live
<1>. QED  BY <1>1, <1>4, <1>5

\* Every step of the process is a step of the registry or leaves it alone.
LEMMA RegistryStep == RegistryInv /\ [Next]_vars => [Registry!Next]_registry
<1> USE DEF registry
<1>1. SUFFICES ASSUME RegistryInv, Next PROVE [Registry!Next]_registry
  BY DEF vars
<1>2. CASE Application
  BY <1>2 DEF Application, Registry!Next, Registry!Application
<1>3. CASE Connect \/ Drain
  BY <1>3 DEF Connect, Drain
<1>4. ASSUME NEW r \in Runs, Step(r) PROVE [Registry!Next]_registry
  <2>1. ASSUME NEW ok \in BOOLEAN, SchedulerStops(r, ok) PROVE [Registry!Next]_registry
    <3>1. CASE ok /\ Registry!Has(Scheduler)
      <4>1. Scheduler \in Names
        <5>1. RegistryProofs!TypeOK
          BY <1>1 DEF RegistryInv, RegistryProofs!IInv
        <5>2. \A k \in DOMAIN slots : slots[k].name \in Names
          BY <5>1, RegistryAssumption, RegistryProofs!SlotsAreList DEF RegistryAssumption
        <5>. QED  BY <3>1, <5>2 DEF Registry!Has, Registry!Live
      <4>2. Registry!Delete(Scheduler)
        BY <2>1, <3>1 DEF SchedulerStops, ForgetScheduler
      <4>. QED  BY <4>1, <4>2 DEF Registry!Next, Registry!Application
    <3>2. CASE ~(ok /\ Registry!Has(Scheduler))
      BY <2>1, <3>2 DEF SchedulerStops, ForgetScheduler
    <3>. QED  BY <3>1, <3>2
  <2>2. CASE HookDone(r)
    BY <2>2 DEF HookDone, AskServices, Registry!Next, Registry!Caller
  <2>3. CASE HookThrows(r) \/ FinishRun(r) \/ FatalTimeout(r)
             \/ (\E fatal \in BOOLEAN : Start(r, fatal))
             \/ (\E late \in BOOLEAN : CloseServer(r, late))
    BY <2>3 DEF Start, HookThrows, FinishRun, FatalTimeout, CloseServer
  <2>4. ASSUME NEW ok \in BOOLEAN, ServiceSettles(r, ok) PROVE [Registry!Next]_registry
    BY <2>4 DEF ServiceSettles, Registry!Next, Registry!Caller
  <2>. QED  BY <1>4, <2>1, <2>2, <2>3, <2>4 DEF Step
<1>. QED  BY <1>1, <1>2, <1>3, <1>4 DEF Next

LEMMA RegistryInvAlways == Spec => []RegistryInv
<1>1. RegistryAssumption
  BY RegistryAssumption
<1>2. Init => RegistryInv
  BY <1>1, SameRegistry, RegistryProofs!IInvInit DEF Init, RegistryInv
<1>3. RegistryInv /\ [Next]_vars => RegistryInv'
  BY <1>1, SameRegistry, RegistryStep, RegistryProofs!IInvStep
     DEF RegistryInv, registry, RegistryProofs!vars
<1>. QED  BY <1>2, <1>3, PTL DEF Spec

\* A run whose shutdownAll() returns has asked a service in every slot that
\* has something to close, however many runs sweep the registry at once.
THEOREM SweepIsComplete == Spec => SweepComplete
<1>1. RegistryInv /\ [Next]_vars =>
        [\A c \in Runs :
            calls[c].status # "returned" /\ calls'[c].status = "returned" =>
               \A k \in DOMAIN slots : Registry!Closable(k) => Registry!Asked(c, k)]_registry
  <2>1. RegistryInv /\ [Next]_vars => [RegistryProofs!Next]_RegistryProofs!vars
    BY SameRegistry, RegistryStep DEF registry, RegistryProofs!vars
  <2>2. \A k : Registry!Closable(k) <=> RegistryProofs!Closable(k)
    BY DEF RegistryProofs!Closable, Registry!Closable
  <2>3. \A c, k : Registry!Asked(c, k) <=> RegistryProofs!Asked(c, k)
    BY DEF RegistryProofs!Asked, Registry!Asked
  <2>. QED
    BY <2>1, <2>2, <2>3, RegistryAssumption, RegistryProofs!SweepStep
       DEF RegistryAssumption, RegistryInv, registry, RegistryProofs!vars
<1>. QED
  BY <1>1, RegistryInvAlways, PTL
     DEF Spec, SweepComplete, Registry!SweepComplete, registry, Registry!vars

-----------------------------------------------------------------------------
(* The process around the registry.                                        *)

\* Where each run is, and with it its call of shutdownAll().
Shape ==
    /\ runs \in [Runs -> Run]
    /\ \A r \in Runs :
         /\ runs[r].pc \in {"none", "scheduler", "hook"} => calls[r].status = "idle"
         /\ runs[r].pc \in {"services", "server"} => calls[r].status # "idle"
    /\ server \in [listening : BOOLEAN, busy : BOOLEAN]
    /\ exit \in Exits
    /\ logs \in {"open", "flushed", "cut"}

\* Once a run has stopped the scheduler it is gone, and nobody brings it back.
SchedulerGone ==
    \A r \in Runs :
        runs[r].pc \notin {"none", "scheduler"} =>
            ~Registry!Has(Scheduler) \/ runs[r].unstopped

\* A run goes on to the HTTP server when its services are done or late.
ServicesFirst ==
    \A r \in Runs :
        runs[r].pc = "server" /\ ~runs[r].late => calls[r].status = "returned"

ProcessInv == Shape /\ SchedulerGone /\ ServicesFirst /\ CompleteExit

LEMMA TypesFromShape == RegistryInv /\ Shape => TypeOK
BY SameRegistry DEF Shape, TypeOK

\* What the registry's invariant says of the calls.
LEMMA CallFacts ==
    ASSUME RegistryInv, NEW r \in Runs
    PROVE  /\ calls \in [Runs -> RegistryProofs!Call]
           /\ calls[r].status \in {"idle", "running", "returned"}
           /\ calls[r].status = "idle" => calls[r].asked = {}
           /\ calls[r].waits # Registry!NoService => calls[r].status = "running"
BY DEF RegistryInv, RegistryProofs!IInv, RegistryProofs!TypeOK, RegistryProofs!Call,
       RegistryProofs!CallsPlaced, RegistryProofs!NoService, Registry!NoService

\* A call that goes on is under way, and brings no service back.
LEMMA AdvanceFacts ==
    ASSUME RegistryInv, NEW r \in Runs, Registry!Advance(r)
    PROVE  /\ calls'[r].status # "idle"
           /\ \A q \in Runs \ {r} : calls'[q] = calls[q]
           /\ ~Registry!Has(Scheduler) => ~Registry!Has(Scheduler)'
<1>1. calls \in [Runs -> RegistryProofs!Call]
  BY CallFacts
<1>2. CASE Registry!Visit(r)
  BY <1>1, <1>2 DEF Registry!Visit, Registry!Has, Registry!Live
<1>3. CASE Registry!Finish(r)
  <2>1. RegistryProofs!TypeOK
    BY DEF RegistryInv, RegistryProofs!IInv
  <2>2. \A k \in DOMAIN slots : slots[k] \in RegistryProofs!Slot
    BY <2>1, RegistryAssumption, RegistryProofs!SlotsAreList DEF RegistryAssumption
  <2>3. slots' = [k \in DOMAIN slots |-> [slots[k] EXCEPT !.live = FALSE]]
    BY <1>3 DEF Registry!Finish
  <2>4. ~Registry!Has(Scheduler)'
    BY <2>2, <2>3 DEF RegistryProofs!Slot, Registry!Has, Registry!Live
  <2>5. calls[r] \in RegistryProofs!Call
    BY <1>1
  <2>6. calls' = [calls EXCEPT ![r] =
                    [calls[r] EXCEPT !.status = "returned", !.waits = Registry!NoService]]
    BY <1>3 DEF Registry!Finish
  <2>7. calls'[r].status = "returned"
    BY <1>1, <2>5, <2>6 DEF RegistryProofs!Call
  <2>. QED  BY <1>1, <2>4, <2>6, <2>7
<1>. QED  BY <1>2, <1>3 DEF Registry!Advance

\* The application registers no scheduler.
LEMMA ApplicationFacts ==
    ASSUME RegistryInv, Application, ~Registry!Has(Scheduler)
    PROVE  ~Registry!Has(Scheduler)' /\ UNCHANGED calls
<1> USE DEF Registry!Has, Registry!Live
<1>1. PICK name \in Names :
         \/ name # Scheduler /\ Registry!Add(name)
         \/ Registry!Replace(name)
         \/ Registry!Delete(name)
  BY DEF Application
<1>2. /\ slots \in Seq(RegistryProofs!Slot)
      /\ Len(slots) \in Nat /\ DOMAIN slots = 1 .. Len(slots)
      /\ \A k \in DOMAIN slots : slots[k] \in RegistryProofs!Slot
  BY RegistryAssumption, RegistryProofs!SlotsAreList
     DEF RegistryAssumption, RegistryInv, RegistryProofs!IInv, RegistryProofs!TypeOK
<1>3. CASE name # Scheduler /\ Registry!Add(name)
  <2>1. PICK new : new = Registry!NewSlot(name, made + 1)
    OBVIOUS
  <2>2. slots' = Append(slots, new) /\ UNCHANGED calls
    BY <1>3, <2>1 DEF Registry!Add
  <2>3. \A k \in DOMAIN slots' : \/ k \in DOMAIN slots /\ slots'[k] = slots[k]
                                 \/ slots'[k] = new
    BY <1>2, <2>2
  <2>4. new.name # Scheduler
    BY <1>1, <1>3, <2>1 DEF Registry!NewSlot
  <2>. QED  BY <2>2, <2>3, <2>4
<1>4. CASE Registry!Replace(name)
  <2>1. UNCHANGED calls /\ DOMAIN slots' = DOMAIN slots
    BY <1>4 DEF Registry!Replace
  <2>2. ASSUME NEW k \in DOMAIN slots
        PROVE  slots'[k].name = slots[k].name /\ slots'[k].live = slots[k].live
    BY <1>2, <1>4 DEF Registry!Replace, RegistryProofs!Slot
  <2>. QED  BY <2>1, <2>2
<1>5. CASE Registry!Delete(name)
  <2>1. UNCHANGED calls /\ DOMAIN slots' = DOMAIN slots
    BY <1>5 DEF Registry!Delete
  <2>2. ASSUME NEW k \in DOMAIN slots
        PROVE  slots'[k].name = slots[k].name /\ (slots'[k].live => slots[k].live)
    BY <1>2, <1>5 DEF Registry!Delete, RegistryProofs!Slot
  <2>. QED  BY <2>1, <2>2
<1>. QED  BY <1>1, <1>3, <1>4, <1>5

\* One run goes on; the other runs and their calls stay where they are.
Moves(r, q) ==
    /\ q \in Run /\ runs' = [runs EXCEPT ![r] = q]
    /\ \A p \in Runs \ {r} : calls'[p] = calls[p]
    /\ q.pc \in {"none", "scheduler", "hook"} => calls'[r].status = "idle"
    /\ q.pc \in {"services", "server"} => calls'[r].status # "idle"
    /\ q.pc = "server" /\ ~q.late => calls'[r].status = "returned"
    /\ server' \in [listening : BOOLEAN, busy : BOOLEAN]
    /\ exit' \in Exits
    /\ logs' \in {"open", "flushed", "cut"}

LEMMA MovesKeeps ==
    ASSUME ProcessInv, NEW r \in Runs, NEW q, Moves(r, q),
           (SchedulerGone /\ CompleteExit)'
    PROVE  ProcessInv'
<1>1. /\ runs \in [Runs -> Run] /\ runs' \in [Runs -> Run] /\ runs'[r] = q
      /\ \A p \in Runs \ {r} : runs'[p] = runs[p] /\ calls'[p] = calls[p]
  BY DEF Moves, ProcessInv, Shape
<1>2. Shape'
  BY <1>1 DEF Moves, ProcessInv, Shape
<1>3. ServicesFirst'
  BY <1>1 DEF Moves, ProcessInv, ServicesFirst
<1>. QED  BY <1>2, <1>3 DEF ProcessInv

\* The record of a run after a step.
LEMMA RunFields ==
    ASSUME NEW q \in Run,
           NEW x \in {"none", "scheduler", "hook", "services", "server", "over"}
    PROVE  /\ [q EXCEPT !.pc = x] \in Run
           /\ [q EXCEPT !.pc = x].pc = x /\ [q EXCEPT !.pc = x].late = q.late
           /\ [q EXCEPT !.pc = x].unstopped = q.unstopped
BY DEF Run

LEMMA StepKeeps ==
    ASSUME RegistryInv, ProcessInv, NEW r \in Runs, Step(r) PROVE ProcessInv'
<1>1. /\ runs \in [Runs -> Run] /\ runs[r] \in Run
      /\ server \in [listening : BOOLEAN, busy : BOOLEAN]
      /\ exit \in Exits /\ logs \in {"open", "flushed", "cut"}
      /\ runs[r].pc \in {"none", "scheduler", "hook"} => calls[r].status = "idle"
      /\ runs[r].pc \in {"services", "server"} => calls[r].status # "idle"
      /\ SchedulerGone /\ ServicesFirst /\ CompleteExit
  BY DEF ProcessInv, Shape
<1>2. \A x \in BOOLEAN : [server EXCEPT !.listening = x]
                            \in [listening : BOOLEAN, busy : BOOLEAN]
  BY <1>1
<1>3. ASSUME NEW fatal \in BOOLEAN, Start(r, fatal) PROVE ProcessInv'
  <2>1. PICK q : q = [runs[r] EXCEPT !.pc = IF Registry!Has(Scheduler)
                                            THEN "scheduler" ELSE "hook",
                                     !.fatal = fatal]
    OBVIOUS
  <2>2. /\ q \in Run /\ q.pc \in {"scheduler", "hook"}
        /\ q.pc = "hook" => ~Registry!Has(Scheduler)
    BY <1>1, <2>1 DEF Run
  <2>3. /\ UNCHANGED <<slots, calls, server, exit, logs>>
        /\ exit = "running" /\ runs[r].pc = "none"
    BY <1>3 DEF Start
  <2>4. runs' = [runs EXCEPT ![r] = q]
    BY <1>3, <2>1 DEF Start
  <2>5. Moves(r, q)
    BY <1>1, <2>2, <2>3, <2>4 DEF Moves
  <2>6. (SchedulerGone /\ CompleteExit)'
    BY <1>1, <2>2, <2>3, <2>4
       DEF SchedulerGone, CompleteExit, Registry!Has, Registry!Live
  <2>. QED  BY <2>5, <2>6, MovesKeeps
<1>10. ASSUME NEW ok \in BOOLEAN, SchedulerStops(r, ok) PROVE ProcessInv'
  <2>1. PICK q : q = [runs[r] EXCEPT !.pc = "hook", !.unstopped = ~ok]
    OBVIOUS
  <2>2. q \in Run /\ q.pc = "hook" /\ q.unstopped = ~ok
    BY <1>1, <2>1 DEF Run
  <2>3. /\ UNCHANGED <<calls, server, exit, logs>>
        /\ exit = "running" /\ runs[r].pc = "scheduler"
    BY <1>10 DEF SchedulerStops, ForgetScheduler, Registry!Delete, registry
  <2>4. runs' = [runs EXCEPT ![r] = q]
    BY <1>10, <2>1 DEF SchedulerStops
  <2>5. Moves(r, q)
    BY <1>1, <2>2, <2>3, <2>4 DEF Moves
  <2>6. ASSUME ok PROVE ~Registry!Has(Scheduler)'
    <3>1. \A k \in DOMAIN slots : slots[k] \in RegistryProofs!Slot
      BY RegistryAssumption, RegistryProofs!SlotsAreList
         DEF RegistryAssumption, RegistryInv, RegistryProofs!IInv
    <3>2. ForgetScheduler
      BY <1>10, <2>6 DEF SchedulerStops
    <3>3. CASE Registry!Has(Scheduler)
      <4>1. Registry!Delete(Scheduler)
        BY <3>2, <3>3 DEF ForgetScheduler
      <4>. QED
        BY <3>1, <4>1 DEF Registry!Delete, RegistryProofs!Slot, Registry!Has, Registry!Live
    <3>4. CASE ~Registry!Has(Scheduler)
      BY <3>2, <3>4 DEF ForgetScheduler, registry, Registry!Has, Registry!Live
    <3>. QED  BY <3>3, <3>4
  <2>7. ~Registry!Has(Scheduler) => ~Registry!Has(Scheduler)'
    <3>1. ~Registry!Has(Scheduler) => UNCHANGED slots
      BY <1>10 DEF SchedulerStops, ForgetScheduler, registry
    <3>. QED  BY <3>1 DEF Registry!Has, Registry!Live
  <2>8. (SchedulerGone /\ CompleteExit)'
    BY <1>1, <2>2, <2>3, <2>4, <2>6, <2>7 DEF SchedulerGone, CompleteExit
  <2>. QED  BY <2>5, <2>8, MovesKeeps
<1>4. CASE HookDone(r)
  <2>1. PICK q : q = [runs[r] EXCEPT !.pc = "services"]
    OBVIOUS
  <2>2. q \in Run /\ q.pc = "services" /\ q.unstopped = runs[r].unstopped
    BY <1>1, <2>1, RunFields
  <2>3. /\ UNCHANGED <<exit, logs>> /\ exit = "running" /\ runs[r].pc = "hook"
        /\ Registry!Advance(r) /\ CloseWithService(r)
        /\ runs' = [runs EXCEPT ![r].pc = "services"]
    BY <1>4 DEF HookDone, AskServices, Registry!Begin, Goto
  <2>4. /\ calls'[r].status # "idle"
        /\ \A p \in Runs \ {r} : calls'[p] = calls[p]
        /\ ~Registry!Has(Scheduler) => ~Registry!Has(Scheduler)'
    BY <1>1, <2>3, AdvanceFacts
  <2>5. server' \in [listening : BOOLEAN, busy : BOOLEAN]
    BY <1>1, <1>2, <2>3 DEF CloseWithService
  <2>6. Moves(r, q)
    BY <1>1, <2>1, <2>2, <2>3, <2>4, <2>5 DEF Moves
  <2>7. (SchedulerGone /\ CompleteExit)'
    BY <1>1, <2>1, <2>2, <2>3, <2>4 DEF SchedulerGone, CompleteExit
  <2>. QED  BY <2>6, <2>7, MovesKeeps
<1>5. CASE HookThrows(r)
  <2>1. PICK q : q = [runs[r] EXCEPT !.pc = "over"]
    OBVIOUS
  <2>2. q \in Run /\ q.pc = "over" /\ q.unstopped = runs[r].unstopped
    BY <1>1, <2>1, RunFields
  <2>3. /\ UNCHANGED <<slots, calls, server, logs>> /\ exit' = "aborted"
        /\ runs[r].pc = "hook" /\ runs' = [runs EXCEPT ![r].pc = "over"]
    BY <1>5 DEF HookThrows, Goto
  <2>4. Moves(r, q)
    BY <1>1, <2>1, <2>2, <2>3 DEF Moves, Exits
  <2>5. (SchedulerGone /\ CompleteExit)'
    BY <1>1, <2>1, <2>2, <2>3 DEF SchedulerGone, CompleteExit, Registry!Has, Registry!Live
  <2>. QED  BY <2>4, <2>5, MovesKeeps
<1>6. ASSUME NEW ok \in BOOLEAN, ServiceSettles(r, ok) PROVE ProcessInv'
  <2>1. /\ UNCHANGED <<runs, exit, logs>> /\ exit = "running"
        /\ calls[r].waits # Registry!NoService
        /\ Registry!Advance(r) /\ CloseWithService(r)
    BY <1>6 DEF ServiceSettles, Registry!Settle, Registry!AfterError
  <2>2. /\ calls'[r].status # "idle"
        /\ \A p \in Runs \ {r} : calls'[p] = calls[p]
        /\ ~Registry!Has(Scheduler) => ~Registry!Has(Scheduler)'
    BY <2>1, AdvanceFacts
  <2>3. calls[r].status = "running"
    BY <2>1, CallFacts
  <2>4. server' \in [listening : BOOLEAN, busy : BOOLEAN]
    BY <1>1, <1>2, <2>1 DEF CloseWithService
  <2>5. Moves(r, runs[r])
    BY <1>1, <2>1, <2>2, <2>3, <2>4 DEF Moves, ServicesFirst
  <2>6. (SchedulerGone /\ CompleteExit)'
    BY <1>1, <2>1, <2>2 DEF SchedulerGone, CompleteExit
  <2>. QED  BY <2>5, <2>6, MovesKeeps
<1>7. ASSUME NEW late \in BOOLEAN, CloseServer(r, late) PROVE ProcessInv'
  <2>1. PICK q : q = [runs[r] EXCEPT !.pc = "server", !.late = late]
    OBVIOUS
  <2>2. /\ q \in Run /\ q.pc = "server" /\ q.late = late
        /\ q.unstopped = runs[r].unstopped
    BY <1>1, <2>1 DEF Run
  <2>3. /\ UNCHANGED <<slots, calls, exit, logs>> /\ exit = "running"
        /\ runs[r].pc = "services" /\ (~late => calls[r].status = "returned")
        /\ server' = [server EXCEPT !.listening = FALSE]
    BY <1>7 DEF CloseServer, ServicesDone, ServicesLate
  <2>4. runs' = [runs EXCEPT ![r] = q]
    BY <1>7, <2>1 DEF CloseServer
  <2>5. server' \in [listening : BOOLEAN, busy : BOOLEAN]
    BY <1>2, <2>3
  <2>6. Moves(r, q)
    BY <1>1, <2>2, <2>3, <2>4, <2>5 DEF Moves
  <2>7. (SchedulerGone /\ CompleteExit)'
    BY <1>1, <2>2, <2>3, <2>4 DEF SchedulerGone, CompleteExit, Registry!Has, Registry!Live
  <2>. QED  BY <2>6, <2>7, MovesKeeps
<1>8. CASE FinishRun(r)
  <2>1. PICK q : q = [runs[r] EXCEPT !.pc = "over"]
    OBVIOUS
  <2>2. /\ q \in Run /\ q.pc = "over" /\ q.late = runs[r].late
        /\ q.unstopped = runs[r].unstopped
    BY <1>1, <2>1, RunFields
  <2>3. /\ UNCHANGED <<slots, calls, server>> /\ exit' = "complete"
        /\ runs[r].pc = "server" /\ runs' = [runs EXCEPT ![r].pc = "over"]
        /\ ServerClosed /\ logs' \in {"flushed", "cut"}
    BY <1>8 DEF FinishRun, Goto
  <2>4. Moves(r, q)
    BY <1>1, <2>1, <2>2, <2>3 DEF Moves, Exits
  <2>5. SchedulerGone'
    BY <1>1, <2>1, <2>2, <2>3 DEF SchedulerGone, Registry!Has, Registry!Live
  <2>6. runs'[r] = q /\ \A p \in Runs \ {r} : runs'[p] = runs[p]
    BY <1>1, <2>1, <2>3
  <2>7. ~Awaits(r)'
    BY <1>1, <2>2, <2>3, <2>6, CallFacts DEF Awaits, ServicesFirst
  <2>8. CompleteExit'
    BY <2>2, <2>3, <2>6, <2>7 DEF CompleteExit, ServerClosed
  <2>. QED  BY <2>4, <2>5, <2>8, MovesKeeps
<1>9. CASE FatalTimeout(r)
  <2>1. /\ UNCHANGED <<slots, calls, runs, server, logs>> /\ exit' = "fatal"
    BY <1>9 DEF FatalTimeout
  <2>2. Moves(r, runs[r])
    BY <1>1, <2>1 DEF Moves, Exits, ServicesFirst
  <2>3. (SchedulerGone /\ CompleteExit)'
    BY <1>1, <2>1 DEF SchedulerGone, CompleteExit, Registry!Has, Registry!Live
  <2>. QED  BY <2>2, <2>3, MovesKeeps
<1>. QED  BY <1>3, <1>4, <1>5, <1>6, <1>7, <1>8, <1>9, <1>10 DEF Step

LEMMA ProcessInvInit == RegistryInv /\ Init => ProcessInv
<1>1. SUFFICES ASSUME RegistryInv, Init PROVE ProcessInv
  OBVIOUS
<1>2. /\ runs = [r \in Runs |-> [pc |-> "none", fatal |-> FALSE, unstopped |-> FALSE, late |-> FALSE]]
      /\ server \in [listening : {TRUE}, busy : BOOLEAN]
      /\ exit = "running" /\ logs = "open"
      /\ \A r \in Runs : calls[r].status = "idle"
  BY <1>1 DEF Init, Registry!Init
<1>3. Shape
  BY <1>2 DEF Shape, Run, Exits
<1>. QED
  BY <1>2, <1>3 DEF ProcessInv, SchedulerGone, ServicesFirst, CompleteExit

LEMMA ProcessInvStep == RegistryInv /\ ProcessInv /\ [Next]_vars => ProcessInv'
<1>1. SUFFICES ASSUME RegistryInv, ProcessInv, [Next]_vars PROVE ProcessInv'
  OBVIOUS
<1>2. CASE UNCHANGED vars
  BY <1>1, <1>2 DEF vars, ProcessInv, Shape, SchedulerGone, ServicesFirst,
                    CompleteExit, Awaits, Registry!Has, Registry!Live
<1>3. CASE Application
  <2>1. UNCHANGED <<runs, server, exit, logs, calls>> /\ exit = "running"
    BY <1>3 DEF Application, Registry!Add, Registry!Replace, Registry!Delete
  <2>2. SchedulerGone'
    BY <1>1, <1>3, <2>1, ApplicationFacts DEF ProcessInv, SchedulerGone
  <2>. QED
    BY <1>1, <2>1, <2>2 DEF ProcessInv, Shape, ServicesFirst, CompleteExit
<1>4. CASE Connect \/ Drain
  <2>1. UNCHANGED <<slots, calls, runs, exit, logs>> /\ exit = "running"
    BY <1>4 DEF Connect, Drain
  <2>2. server' \in [listening : BOOLEAN, busy : BOOLEAN]
    BY <1>1, <1>4 DEF Connect, Drain, ProcessInv, Shape
  <2>. QED
    BY <1>1, <2>1, <2>2 DEF ProcessInv, Shape, SchedulerGone, ServicesFirst,
                            CompleteExit, Registry!Has, Registry!Live
<1>5. CASE \E r \in Runs : Step(r)
  BY <1>1, <1>5, StepKeeps
<1>. QED  BY <1>1, <1>2, <1>3, <1>4, <1>5 DEF Next

LEMMA ProcessInvAlways == Spec => []ProcessInv
<1>1. Init => RegistryInv
  BY RegistryAssumption, SameRegistry, RegistryProofs!IInvInit
     DEF RegistryAssumption, Init, RegistryInv
<1>. QED
  BY <1>1, ProcessInvInit, ProcessInvStep, RegistryInvAlways, PTL DEF Spec

\* The variables keep their types, and each run is where its call of
\* shutdownAll() is: none begins before the hook is done.
THEOREM TypesHold == Spec => []TypeOK
<1>1. RegistryInv /\ ProcessInv => TypeOK
  BY TypesFromShape DEF ProcessInv
<1>. QED  BY <1>1, RegistryInvAlways, ProcessInvAlways, PTL

\* A run that asks services to shut down while a scheduler is registered has
\* failed to stop it itself: whatever other runs and the application do, none
\* that a run has stopped is found again.
THEOREM SchedulerGoesFirst == Spec => []SchedulerFirst
<1>1. RegistryInv /\ ProcessInv => SchedulerFirst
  BY CallFacts DEF ProcessInv, Shape, Run, SchedulerGone, SchedulerFirst
<1>. QED  BY <1>1, RegistryInvAlways, ProcessInvAlways, PTL

\* A shutdown that runs to its end leaves no connection and, if it runs alone,
\* no service in the middle of its own shutdown that had time left.
THEOREM ExitIsComplete == Spec => []CompleteExit
<1>1. ProcessInv => CompleteExit
  BY DEF ProcessInv
<1>. QED  BY <1>1, ProcessInvAlways, PTL
=============================================================================
