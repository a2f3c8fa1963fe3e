------------------------ MODULE ClusterPrimaryProofs ------------------------
(***************************************************************************)
(* Proofs about ClusterPrimary, for every number of workers, every restart *)
(* limit and every setting of its switches.                                *)
(***************************************************************************)
EXTENDS ClusterPrimary, FiniteSetTheorems, TLAPS

IInv == TypeOK /\ Bookkeeping

\* What a change of some fields leaves of a process.
LEMMA ProcFields ==
    ASSUME NEW p \in Proc,
           NEW x \in ProcPhases, NEW s \in {"off", "running", "stopped"},
           NEW t \in {"closed", "bound", "announced"}
    PROVE  /\ [p EXCEPT !.phase = x] \in Proc
           /\ [p EXCEPT !.sched = s] \in Proc
           /\ [p EXCEPT !.port = t] \in Proc
           /\ [p EXCEPT !.hung = TRUE] \in Proc
           /\ [p EXCEPT !.phase = x, !.hung = FALSE] \in Proc
           /\ [p EXCEPT !.phase = x, !.left = TRUE] \in Proc
BY DEF Proc

\* Process w becomes q and may have sent events about itself: it keeps its
\* slot, stays dead, keeps its port, and schedules only as a leader.
Becomes(w, q) ==
    /\ q \in Proc
    /\ proc' = [proc EXCEPT ![w] = q]
    /\ q.ordinal = proc[w].ordinal
    /\ q.leader = proc[w].leader
    /\ q.sched # "off" => proc[w].leader
    /\ q.phase # "dead" => proc[w].phase # "dead"
    /\ q.port = "closed" => proc[w].port = "closed"
    /\ \A e \in events' :
          e \in events \/ (/\ e \in [kind : Kinds, worker : {w}]
                           /\ e.kind = "exit" => q.phase = "dead"
                           /\ e.kind # "exit" => q.port # "closed")
    /\ UNCHANGED <<manager, forks, sigterm, sigkill>>

LEMMA BecomesKeeps ==
    ASSUME IInv, NEW w \in Ids, NEW q, Becomes(w, q) PROVE IInv'
<1> USE DEF Ids, NoWorker, manager, Becomes
<1>1. TypeOK /\ Bookkeeping /\ forks \in Nat /\ forks # 0
  BY DEF IInv, TypeOK
<1>2. /\ proc' \in [Ids' -> Proc] /\ forks' = forks
      /\ proc'[w] = q /\ \A v \in Ids : v # w => proc'[v] = proc[v]
  BY <1>1 DEF TypeOK
<1>3. /\ \A v \in Ids : proc'[v].ordinal = proc[v].ordinal
      /\ \A v \in Ids : proc'[v].leader = proc[v].leader
      /\ \A v \in Ids : proc'[v].sched # "off" =>
                           proc[v].leader \/ proc[v].sched # "off"
      /\ \A v \in Ids : proc[v].phase = "dead" => proc'[v].phase = "dead"
      /\ \A v \in Ids : proc'[v].port = "closed" => proc[v].port = "closed"
  BY <1>1, <1>2 DEF TypeOK
<1>4. events' \subseteq [kind : Kinds, worker : Ids]
  BY <1>1 DEF TypeOK
<1>5. TypeOK'
  BY <1>1, <1>2, <1>4 DEF TypeOK
<1>6. NothingForked'
  BY <1>1 DEF Bookkeeping, NothingForked
<1>7. LiveInSlot'
  BY <1>1, <1>3 DEF Bookkeeping, LiveInSlot, Live
<1>8. SlotsMapped'
  BY <1>1, <1>3 DEF Bookkeeping, SlotsMapped, TypeOK
<1>9. MappedInSlot'
  BY <1>1, <1>3 DEF Bookkeeping, MappedInSlot, TypeOK
<1>10. EventsTrue'
  BY <1>1, <1>2, <1>3, <1>4 DEF Bookkeeping, EventsTrue, TypeOK
<1>11. LeaderSlotOnly'
  BY <1>1, <1>3 DEF Bookkeeping, LeaderSlotOnly
<1>12. YoungestInSlot'
  BY <1>1, <1>3 DEF Bookkeeping, YoungestInSlot
<1>. QED
  BY <1>5, <1>6, <1>7, <1>8, <1>9, <1>10, <1>11, <1>12 DEF IInv, Bookkeeping

\* Every step of a worker process is such a change.
LEMMA WorkerBecomes ==
    ASSUME IInv, NEW w \in Ids, WorkerStep(w) PROVE \E q : Becomes(w, q)
<1> DEFINE p == proc[w]
<1> USE DEF Running, Live, Kinds, Becomes
<1>1. p \in Proc /\ proc \in [Ids -> Proc] /\ events \subseteq [kind : Kinds, worker : Ids]
  BY DEF IInv, TypeOK
<1>2. p.sched # "off" => p.leader
  BY DEF IInv, Bookkeeping, LeaderSlotOnly
<1>3. CASE StartScheduler(w)
  <2>1. Becomes(w, [p EXCEPT !.sched = "running"])
    BY <1>1, <1>2, <1>3 DEF StartScheduler, LeaderSchedules, manager, Proc
  <2>. QED  BY <2>1
<1>4. CASE InstallHandlers(w)
  <2>1. Becomes(w, [p EXCEPT !.phase = "serving"])
    BY <1>1, <1>2, <1>4 DEF InstallHandlers, manager, Proc, ProcPhases
  <2>. QED  BY <2>1
<1>5. CASE Listen(w)
  <2>1. Becomes(w, [p EXCEPT !.port = "bound"])
    BY <1>1, <1>2, <1>5 DEF Listen, Emit, manager, Proc
  <2>. QED  BY <2>1
<1>6. CASE Announce(w)
  <2>1. Becomes(w, [p EXCEPT !.port = "announced"])
    BY <1>1, <1>2, <1>6 DEF Announce, Emit, manager, Proc
  <2>. QED  BY <2>1
<1>7. CASE proc' = [proc EXCEPT ![w].phase = "stopping"] /\ Running(w)
           /\ UNCHANGED <<manager, forks, events, sigterm, sigkill>>
  <2>1. Becomes(w, [p EXCEPT !.phase = "stopping"])
    BY <1>1, <1>2, <1>7 DEF manager, Proc, ProcPhases
  <2>. QED  BY <2>1
<1>8. CASE StopScheduler(w)
  <2>1. Becomes(w, [p EXCEPT !.sched = "stopped"])
    BY <1>1, <1>2, <1>8 DEF StopScheduler, manager, Proc
  <2>. QED  BY <2>1
<1>9. CASE Leave(w)
  <2>1. PICK q : q = [p EXCEPT !.phase = "dead", !.left = TRUE]
    OBVIOUS
  <2>2. /\ q \in Proc /\ q.phase = "dead"
        /\ q.ordinal = p.ordinal /\ q.leader = p.leader
        /\ q.sched = p.sched /\ q.port = p.port
    BY <1>1, <2>1 DEF Proc, ProcPhases
  <2>3. proc' = [proc EXCEPT ![w] = q]
    BY <2>1, <1>9 DEF Leave
  <2>4. \A e \in events' : e \in events \/ e = [kind |-> "exit", worker |-> w]
    BY <1>9 DEF Leave, Emit
  <2>5. \A e \in events' :
           e \in events \/ (e \in [kind : Kinds, worker : {w}] /\ e.kind = "exit")
    BY <2>4
  <2>6. UNCHANGED <<manager, forks, sigterm, sigkill>> /\ p.phase # "dead"
    BY <1>9 DEF Leave
  <2>7. Becomes(w, q)
    BY <1>2, <2>2, <2>3, <2>5, <2>6
  <2>. QED  BY <2>7
<1>10. CASE Hang(w)
  <2>1. Becomes(w, [p EXCEPT !.hung = TRUE])
    BY <1>1, <1>2, <1>10 DEF Hang, manager, Proc
  <2>. QED  BY <2>1
<1>11. CASE Die(w) /\ w \in Live
  <2>1. PICK q : q = [p EXCEPT !.phase = "dead", !.hung = FALSE]
    OBVIOUS
  <2>2. /\ q \in Proc /\ q.phase = "dead"
        /\ q.ordinal = p.ordinal /\ q.leader = p.leader
        /\ q.sched = p.sched /\ q.port = p.port
    BY <1>1, <2>1 DEF Proc, ProcPhases
  <2>3. proc' = [proc EXCEPT ![w] = q]
    BY <2>1, <1>11 DEF Die
  <2>4. \A e \in events' : e \in events \/ e = [kind |-> "exit", worker |-> w]
    BY <1>11 DEF Die, Emit
  <2>5. \A e \in events' :
           e \in events \/ (e \in [kind : Kinds, worker : {w}] /\ e.kind = "exit")
    BY <2>4
  <2>6. UNCHANGED <<manager, forks, sigterm, sigkill>> /\ p.phase # "dead"
    BY <1>11 DEF Die
  <2>7. Becomes(w, q)
    BY <1>2, <2>2, <2>3, <2>5, <2>6
  <2>. QED  BY <2>7
<1>. QED
  BY <1>3, <1>4, <1>5, <1>6, <1>7, <1>8, <1>9, <1>10, <1>11
  DEF WorkerStep, BeginStop, ExitWorker, Crash, TakeSigterm, TakeSigkill, ChannelLost

-----------------------------------------------------------------------------
(* The primary.                                                            *)

\* What spawnWorker() makes of the process table and the worker map.
LEMMA SpawnFacts ==
    ASSUME IInv, NEW o \in Ordinals, NEW leader \in BOOLEAN, NEW count \in Nat,
           NEW m, DOMAIN m \subseteq Ids, m \in [DOMAIN m -> Ordinals],
           SpawnWorker(o, leader, count, m)
    PROVE  /\ forks' = forks + 1
           /\ proc' \in [Ids' -> Proc]
           /\ proc'[forks'] = NewProc(o, leader)
           /\ \A v \in Ids : proc'[v] = proc[v]
           /\ DOMAIN workerToSlot' = DOMAIN m \cup {forks'}
           /\ workerToSlot' \in [DOMAIN workerToSlot' -> Ordinals]
           /\ workerToSlot'[forks'] = o
           /\ \A v \in DOMAIN m : workerToSlot'[v] = m[v]
           /\ slots' \in [Ordinals -> Slot]
           /\ slots'[o].worker = forks' /\ slots'[o].schedulerLeader = leader
           /\ slots'[o].restartCount = count
           /\ \A r \in Ordinals \ {o} : slots'[r] = slots[r]
<1>1. forks \in Nat /\ proc \in [Ids -> Proc] /\ slots \in [Ordinals -> Slot]
  BY DEF IInv, TypeOK
<1>2. NewProc(o, leader) \in Proc
  BY DEF NewProc, Proc, ProcPhases
<1>3. forks' = forks + 1 /\ Ids' = Ids \cup {forks'} /\ forks' \notin Ids
  BY <1>1 DEF SpawnWorker, Ids
<1>4. /\ proc' \in [Ids' -> Proc]
      /\ proc'[forks'] = NewProc(o, leader)
      /\ \A v \in Ids : proc'[v] = proc[v]
  BY <1>1, <1>2, <1>3 DEF SpawnWorker, MapSet
<1>5. /\ DOMAIN workerToSlot' = DOMAIN m \cup {forks'}
      /\ workerToSlot' \in [DOMAIN workerToSlot' -> Ordinals]
      /\ workerToSlot'[forks'] = o
      /\ \A v \in DOMAIN m : workerToSlot'[v] = m[v]
  BY <1>3 DEF SpawnWorker, MapSet
<1>6. /\ slots' \in [Ordinals -> Slot]
      /\ slots'[o].worker = forks' /\ slots'[o].schedulerLeader = leader
      /\ slots'[o].restartCount = count
      /\ \A r \in Ordinals \ {o} : slots'[r] = slots[r]
  BY <1>1, <1>3 DEF SpawnWorker, Slot
<1>. QED  BY <1>3, <1>4, <1>5, <1>6

\* workerToSlot.delete(worker.id)
LEMMA UnmapFacts ==
    ASSUME IInv, NEW w
    PROVE  /\ DOMAIN Unmap(w) = DOMAIN workerToSlot \ {w}
           /\ Unmap(w) \in [DOMAIN Unmap(w) -> Ordinals]
           /\ \A v \in DOMAIN Unmap(w) : Unmap(w)[v] = workerToSlot[v]
BY DEF IInv, TypeOK, Unmap, Restrict

\* Taking a dead worker out of its slot keeps the bookkeeping.
LEMMA ClearKeeps ==
    ASSUME IInv, NEW w \in DOMAIN workerToSlot, NEW o, o = workerToSlot[w],
           proc[w].phase = "dead",
           slots' \in [Ordinals -> Slot],
           slots'[o].worker = NoWorker,
           slots'[o].schedulerLeader = slots[o].schedulerLeader,
           \A r \in Ordinals \ {o} : slots'[r] = slots[r],
           workerToSlot' = Unmap(w),
           events' \subseteq events, phase' # "created",
           UNCHANGED <<forks, proc>>
    PROVE  /\ Bookkeeping'
           /\ \A r \in Ordinals : slots'[r].worker \in 0 .. forks'
           /\ DOMAIN workerToSlot' \subseteq Ids'
           /\ workerToSlot' \in [DOMAIN workerToSlot' -> Ordinals]
<1> USE DEF NoWorker
<1>1. TypeOK /\ Bookkeeping
  BY DEF IInv
<1>2. /\ DOMAIN workerToSlot' = DOMAIN workerToSlot \ {w}
      /\ workerToSlot' \in [DOMAIN workerToSlot' -> Ordinals]
      /\ \A v \in DOMAIN workerToSlot' : workerToSlot'[v] = workerToSlot[v]
  BY UnmapFacts
<1>3. Ids' = Ids /\ Live' = Live /\ forks \in Nat
  BY <1>1 DEF Ids, Live, TypeOK
<1>4. o \in Ordinals /\ w \in Ids /\ proc[w].ordinal = o /\ slots[o].worker = w
  BY <1>1 DEF TypeOK, Bookkeeping, MappedInSlot
<1>5. NothingForked'
  BY DEF NothingForked
<1>6. LiveInSlot'
  <2> SUFFICES ASSUME NEW v \in Live PROVE slots'[proc[v].ordinal].worker = v
    BY <1>3 DEF LiveInSlot
  <2>1. slots[proc[v].ordinal].worker = v /\ proc[v].ordinal \in Ordinals
    BY <1>1 DEF Bookkeeping, LiveInSlot, TypeOK, Proc, Live
  <2>2. proc[v].ordinal # o
    BY <2>1, <1>4 DEF Live
  <2>. QED  BY <2>1, <2>2
<1>7. SlotsMapped'
  BY <1>1, <1>2, <1>4 DEF Bookkeeping, SlotsMapped
<1>8. MappedInSlot'
  BY <1>1, <1>2, <1>4 DEF Bookkeeping, MappedInSlot, TypeOK
<1>9. EventsTrue'
  BY <1>1 DEF Bookkeeping, EventsTrue
<1>10. LeaderSlotOnly'
  BY <1>1, <1>3, <1>4 DEF Bookkeeping, LeaderSlotOnly
<1>11. YoungestInSlot'
  BY <1>1, <1>3, <1>4 DEF Bookkeeping, YoungestInSlot, TypeOK, Proc
<1>12. \A r \in Ordinals : slots'[r].worker \in 0 .. forks'
  BY <1>1, <1>3, <1>4 DEF TypeOK
<1>. QED
  BY <1>1, <1>2, <1>3, <1>5, <1>6, <1>7, <1>8, <1>9, <1>10, <1>11, <1>12
  DEF Bookkeeping, TypeOK

\* Replacing it by a new worker keeps the bookkeeping, too.
LEMMA RespawnKeeps ==
    ASSUME IInv, NEW w \in DOMAIN workerToSlot, NEW o, o = workerToSlot[w],
           proc[w].phase = "dead", NEW count \in Nat,
           SpawnWorker(o, slots[o].schedulerLeader, count, Unmap(w)),
           events' \subseteq events, phase' # "created"
    PROVE  /\ Bookkeeping'
           /\ proc' \in [Ids' -> Proc] /\ forks' = forks + 1
           /\ slots' \in [Ordinals -> Slot]
           /\ \A r \in Ordinals : slots'[r].worker \in 0 .. forks'
           /\ DOMAIN workerToSlot' \subseteq Ids'
           /\ workerToSlot' \in [DOMAIN workerToSlot' -> Ordinals]
<1> DEFINE n == forks + 1
<1> USE DEF NoWorker
<1>1. TypeOK /\ Bookkeeping
  BY DEF IInv
<1>2. /\ DOMAIN Unmap(w) = DOMAIN workerToSlot \ {w}
      /\ Unmap(w) \in [DOMAIN Unmap(w) -> Ordinals]
      /\ \A v \in DOMAIN Unmap(w) : Unmap(w)[v] = workerToSlot[v]
  BY UnmapFacts
<1>3. o \in Ordinals /\ w \in Ids /\ proc[w].ordinal = o /\ slots[o].worker = w
      /\ slots[o].schedulerLeader \in BOOLEAN
  BY <1>1 DEF TypeOK, Bookkeeping, MappedInSlot, Slot
<1>4. /\ forks' = n /\ forks \in Nat /\ n \notin Ids /\ Ids' = Ids \cup {n}
      /\ proc' \in [Ids' -> Proc]
      /\ proc'[n] = NewProc(o, slots[o].schedulerLeader)
      /\ \A v \in Ids : proc'[v] = proc[v]
      /\ DOMAIN workerToSlot' = (DOMAIN workerToSlot \ {w}) \cup {n}
      /\ workerToSlot' \in [DOMAIN workerToSlot' -> Ordinals]
      /\ workerToSlot'[n] = o
      /\ \A v \in DOMAIN workerToSlot \ {w} : workerToSlot'[v] = workerToSlot[v]
      /\ slots' \in [Ordinals -> Slot]
      /\ slots'[o].worker = n /\ slots'[o].schedulerLeader = slots[o].schedulerLeader
      /\ \A r \in Ordinals \ {o} : slots'[r] = slots[r]
  <2>1. forks \in Nat /\ DOMAIN Unmap(w) \subseteq Ids
    BY <1>1, <1>2 DEF TypeOK
  <2>2. n \notin Ids /\ (forks' = n => Ids' = Ids \cup {n})
    BY <2>1 DEF Ids
  <2>3. PICK m, leader : m = Unmap(w) /\ leader = slots[o].schedulerLeader
    OBVIOUS
  <2>4. SpawnWorker(o, leader, count, m)
    BY <2>3 DEF SpawnWorker
  <2>5. DOMAIN m \subseteq Ids /\ m \in [DOMAIN m -> Ordinals] /\ leader \in BOOLEAN
    BY <1>2, <1>3, <2>1, <2>3
  <2>6. /\ forks' = forks + 1
        /\ proc' \in [Ids' -> Proc]
        /\ proc'[forks'] = NewProc(o, leader)
        /\ \A v \in Ids : proc'[v] = proc[v]
        /\ DOMAIN workerToSlot' = DOMAIN m \cup {forks'}
        /\ workerToSlot' \in [DOMAIN workerToSlot' -> Ordinals]
        /\ workerToSlot'[forks'] = o
        /\ \A v \in DOMAIN m : workerToSlot'[v] = m[v]
        /\ slots' \in [Ordinals -> Slot]
        /\ slots'[o].worker = forks' /\ slots'[o].schedulerLeader = leader
        /\ slots'[o].restartCount = count
        /\ \A r \in Ordinals \ {o} : slots'[r] = slots[r]
    BY <1>3, <2>4, <2>5, SpawnFacts
  <2>. QED  BY <1>2, <2>1, <2>2, <2>3, <2>6
<1>5. /\ proc'[n].ordinal = o /\ proc'[n].leader = slots[o].schedulerLeader
      /\ proc'[n].phase = "booting" /\ proc'[n].sched = "off"
  BY <1>4 DEF NewProc
<1>6. NothingForked'
  BY DEF NothingForked
<1>7. LiveInSlot'
  <2> SUFFICES ASSUME NEW v \in Live' PROVE slots'[proc'[v].ordinal].worker = v
    BY DEF LiveInSlot
  <2>1. CASE v = n
    BY <2>1, <1>4, <1>5
  <2>2. CASE v \in Ids
    <3>1. v \in Live /\ proc'[v] = proc[v]
      BY <2>2, <1>4 DEF Live
    <3>2. slots[proc[v].ordinal].worker = v /\ proc[v].ordinal \in Ordinals
      BY <3>1, <1>1 DEF Bookkeeping, LiveInSlot, TypeOK, Proc, Live
    <3>3. proc[v].ordinal # o
      BY <3>1, <3>2, <1>3 DEF Live
    <3>. QED  BY <3>1, <3>2, <3>3, <1>4
  <2>. QED  BY <1>4, <2>1, <2>2 DEF Live
<1>8. SlotsMapped'
  BY <1>1, <1>3, <1>4, <1>5 DEF Bookkeeping, SlotsMapped, TypeOK
<1>9. MappedInSlot'
  BY <1>1, <1>3, <1>4, <1>5 DEF Bookkeeping, MappedInSlot, TypeOK
<1>10. EventsTrue'
  BY <1>1, <1>4 DEF Bookkeeping, EventsTrue, TypeOK
<1>11. LeaderSlotOnly'
  BY <1>1, <1>3, <1>4, <1>5 DEF Bookkeeping, LeaderSlotOnly
<1>12. YoungestInSlot'
  BY <1>1, <1>3, <1>4, <1>5 DEF Bookkeeping, YoungestInSlot, TypeOK, Proc, Ids
<1>13. \A r \in Ordinals : slots'[r].worker \in 0 .. forks'
  BY <1>1, <1>4 DEF TypeOK
<1>14. DOMAIN workerToSlot' \subseteq Ids'
  BY <1>1, <1>4 DEF TypeOK
<1>. QED
  BY <1>4, <1>6, <1>7, <1>8, <1>9, <1>10, <1>11, <1>12, <1>13, <1>14 DEF Bookkeeping

LEMMA InitKeeps == Init => IInv
<1> SUFFICES ASSUME Init PROVE IInv
  OBVIOUS
<1> USE ConfigAssumption DEF Init, Ordinals, Ids, Leader, NoWorker
<1>1. Ids = {} /\ DOMAIN workerToSlot = {}
  OBVIOUS
<1>2. TypeOK
  BY <1>1 DEF TypeOK, Phases, Slot, Kinds
<1>3. Bookkeeping
  BY <1>1 DEF Bookkeeping, NothingForked, LiveInSlot, SlotsMapped, MappedInSlot,
              EventsTrue, LeaderSlotOnly, YoungestInSlot, Live
<1>. QED  BY <1>2, <1>3 DEF IInv

LEMMA StartKeeps ==
    ASSUME IInv, Start PROVE IInv'
<1> USE ConfigAssumption DEF Ordinals, Ids, Leader, NoWorker
<1>1. TypeOK /\ forks = 0 /\ events = {} /\ phase' = "supervising"
  BY DEF IInv, Bookkeeping, NothingForked, Start
<1>2. /\ forks' = WorkerCount /\ Ids' = 1 .. WorkerCount
      /\ DOMAIN workerToSlot' = Ids'
      /\ \A w \in Ids' : workerToSlot'[w] = w - 1 /\ w - 1 \in Ordinals
      /\ \A w \in Ids' : proc'[w] = NewProc(w - 1, w - 1 = 0)
      /\ \A o \in Ordinals : slots'[o] = [restartCount |-> 0, schedulerLeader |-> o = 0,
                                          worker |-> o + 1]
  BY DEF Start
<1>3. \A w \in Ids' : /\ proc'[w].ordinal = w - 1 /\ (proc'[w].leader => w - 1 = 0)
                      /\ proc'[w].phase = "booting" /\ proc'[w].sched = "off"
                      /\ proc'[w] \in Proc
  <2> SUFFICES ASSUME NEW w \in Ids'
               PROVE  /\ proc'[w].ordinal = w - 1 /\ (proc'[w].leader => w - 1 = 0)
                      /\ proc'[w].phase = "booting" /\ proc'[w].sched = "off"
                      /\ proc'[w] \in Proc
    OBVIOUS
  <2>1. PICK l \in BOOLEAN : l <=> w - 1 = 0
    OBVIOUS
  <2>2. proc'[w] = NewProc(w - 1, l) /\ w - 1 \in Ordinals
    BY <1>2, <2>1
  <2>. QED  BY <2>1, <2>2 DEF NewProc, Proc, ProcPhases
<1>4. \A o \in Ordinals : /\ slots'[o].worker = o + 1
                          /\ slots'[o].schedulerLeader => o = 0
                          /\ slots'[o] \in Slot
  <2> SUFFICES ASSUME NEW o \in Ordinals
               PROVE  /\ slots'[o].worker = o + 1
                      /\ slots'[o].schedulerLeader => o = 0
                      /\ slots'[o] \in Slot
    OBVIOUS
  <2>1. PICK l \in BOOLEAN : l <=> o = 0
    OBVIOUS
  <2>2. slots'[o] = [restartCount |-> 0, schedulerLeader |-> l, worker |-> o + 1]
    BY <1>2, <2>1
  <2>. QED  BY <2>1, <2>2 DEF Slot
<1>5. proc' \in [Ids' -> Proc] /\ slots' \in [Ordinals -> Slot]
      /\ workerToSlot' \in [Ids' -> Ordinals]
  BY <1>2, <1>3, <1>4 DEF Start
<1>6. TypeOK'
  <2>1. \A o \in Ordinals : slots'[o].worker \in 0 .. forks'
    BY <1>2, <1>4
  <2>2. forks' \in Nat /\ phase' \in Phases /\ events' = {} /\ Ids \subseteq Ids'
    BY <1>1, <1>2 DEF Phases, Start
  <2>3. UNCHANGED <<readySlots, ready, awaited, timer, exitCode, sigterm, sigkill>>
    BY DEF Start
  <2>. QED  BY <1>1, <1>2, <1>5, <2>1, <2>2, <2>3 DEF TypeOK
<1>7. NothingForked' /\ EventsTrue'
  BY <1>1 DEF NothingForked, EventsTrue, Start
<1>8. LiveInSlot' /\ SlotsMapped' /\ MappedInSlot' /\ YoungestInSlot'
  BY <1>2, <1>3, <1>4 DEF LiveInSlot, SlotsMapped, MappedInSlot, YoungestInSlot, Live
<1>9. LeaderSlotOnly'
  BY <1>3, <1>4 DEF LeaderSlotOnly
<1>. QED  BY <1>6, <1>7, <1>8, <1>9 DEF IInv, Bookkeeping

\* A step of the primary that forks nothing and leaves the slots alone.
LEMMA ManagerKeeps ==
    ASSUME IInv, TypeOK', UNCHANGED <<slots, workerToSlot, forks, proc>>,
           events' \subseteq events, phase' = "created" => phase = "created"
    PROVE  IInv'
BY DEF IInv, Bookkeeping, NothingForked, LiveInSlot, SlotsMapped, MappedInSlot,
       EventsTrue, LeaderSlotOnly, YoungestInSlot, Live, Ids

LEMMA ReportKeeps ==
    ASSUME IInv, NEW w \in Ids, WorkerListening(w) \/ WorkerMessage(w) PROVE IInv'
<1>1. PICK kind \in Kinds : WorkerReports(kind, w)
  BY DEF WorkerListening, WorkerMessage, Kinds
<1>2. TypeOK
  BY DEF IInv
<1>3. /\ UNCHANGED <<phase, slots, workerToSlot, forks, proc, awaited, timer, exitCode,
                     sigterm, sigkill>>
      /\ events' \subseteq events
  BY <1>1 DEF WorkerReports
<1>4. readySlots' \subseteq Ordinals /\ ready' \in {"pending", "resolved", "rejected"}
  BY <1>1, <1>2 DEF WorkerReports, MarkWorkerReady, SlotOf, TypeOK
<1>5. TypeOK'
  BY <1>2, <1>3, <1>4 DEF TypeOK, Ids
<1>. QED  BY <1>3, <1>5, ManagerKeeps

\* The slots' workers are worker ids.
LEMMA WorkersOfIds ==
    ASSUME TypeOK PROVE WorkersOf(slots) \subseteq Ids
BY DEF TypeOK, WorkersOf, Ids, NoWorker

LEMMA ShutdownKeeps ==
    ASSUME IInv, Shutdown \/ SecondSignal \/ TimerFires \/ Escalate \/ Flushed
    PROVE  IInv'
<1>1. TypeOK /\ WorkersOf(slots) \subseteq Ids
  BY WorkersOfIds DEF IInv
<1>2. /\ UNCHANGED <<slots, workerToSlot, forks, proc, readySlots, ready>>
      /\ events' \subseteq events
      /\ phase' \in Phases \ {"created"}
  BY <1>1 DEF Shutdown, PerformShutdown, ExitListeners, Exits, SecondSignal, TimerFires, Escalate, Flushed,
              world, Phases
<1>3. /\ awaited' \subseteq Ids /\ sigterm' \subseteq Ids /\ sigkill' \subseteq Ids
      /\ timer' \in {"off", "armed", "fired"} /\ exitCode' \in {0, 1}
  BY <1>1 DEF Shutdown, PerformShutdown, ExitListeners, SecondSignal, TimerFires, Escalate, Remaining, Flushed,
              world, TypeOK
<1>4. TypeOK'
  BY <1>1, <1>2, <1>3 DEF TypeOK, Ids
<1>. QED  BY <1>2, <1>4, ManagerKeeps

LEMMA ExitKeeps ==
    ASSUME IInv, NEW w \in Ids, WorkerExit(w) PROVE IInv'
<1> DEFINE exit == [kind |-> "exit", worker |-> w]
           o == workerToSlot[w]
           cleared == [slots EXCEPT ![o].worker = NoWorker]
           counted == [cleared EXCEPT ![o].restartCount = slots[o].restartCount + 1]
<1>1. TypeOK /\ exit \in events /\ UNCHANGED sigkill
  BY DEF IInv, WorkerExit
<1>2. proc[w].phase = "dead"
  BY <1>1 DEF IInv, Bookkeeping, EventsTrue
<1>3. CASE ~(phase = "supervising" /\ w \in DOMAIN workerToSlot)
  <2>1. /\ UNCHANGED <<phase, slots, workerToSlot, readySlots, ready, timer, exitCode,
                       forks, proc, sigterm, sigkill>>
        /\ events' \subseteq events /\ awaited' \subseteq awaited
    BY <1>1, <1>3 DEF WorkerExit
  <2>2. TypeOK'
    BY <1>1, <2>1 DEF TypeOK, Ids
  <2>. QED  BY <2>1, <2>2, ManagerKeeps
<1>4. CASE phase = "supervising" /\ w \in DOMAIN workerToSlot
  <2>1. OnWorkerExit(w, o, events \ {exit})
    BY <1>4 DEF WorkerExit
  <2>2. o \in Ordinals /\ slots \in [Ordinals -> Slot]
    BY <1>1, <1>4 DEF TypeOK
  <2>3. readySlots' \subseteq Ordinals
    BY <1>1, <2>1 DEF OnWorkerExit, TypeOK
  <2>4. /\ cleared \in [Ordinals -> Slot] /\ counted \in [Ordinals -> Slot]
        /\ cleared[o].worker = NoWorker /\ counted[o].worker = NoWorker
        /\ cleared[o].schedulerLeader = slots[o].schedulerLeader
        /\ counted[o].schedulerLeader = slots[o].schedulerLeader
        /\ \A r \in Ordinals \ {o} : cleared[r] = slots[r] /\ counted[r] = slots[r]
        /\ slots[o].restartCount + 1 \in Nat
    BY <2>2 DEF Slot, NoWorker
  <2>5. WorkersOf(cleared) \subseteq Ids
    BY <1>1, <2>2, <2>4 DEF TypeOK, WorkersOf, Ids, NoWorker
  <2>6. CASE slots' \in {cleared, counted} /\ workerToSlot' = Unmap(w)
             /\ UNCHANGED <<forks, proc>>
    <3>1. /\ events' \subseteq events
          /\ phase' \in {"supervising", "waiting", "crashed"}
          /\ ready' \in {"pending", "resolved", "rejected"}
      BY <1>1, <1>4, <2>1, <2>6
      DEF OnWorkerExit, PerformShutdown, ExitListeners, Exits, PhaseAfterReject, RejectReady, TypeOK,
          SpawnWorker
    <3>2. /\ timer' \in {"off", "armed", "fired"} /\ exitCode' \in {0, 1}
          /\ sigterm' \subseteq Ids /\ awaited' \subseteq Ids
      BY <1>1, <2>1, <2>5, <2>6 DEF OnWorkerExit, PerformShutdown, ExitListeners, TypeOK
    <3>3. /\ Bookkeeping'
          /\ slots' \in [Ordinals -> Slot]
          /\ \A r \in Ordinals : slots'[r].worker \in 0 .. forks'
          /\ DOMAIN workerToSlot' \subseteq Ids'
          /\ workerToSlot' \in [DOMAIN workerToSlot' -> Ordinals]
      BY <1>2, <1>4, <2>4, <2>6, <3>1, ClearKeeps
    <3>4. TypeOK'
      BY <1>1, <2>3, <2>6, <3>1, <3>2, <3>3 DEF TypeOK, Ids, Phases
    <3>. QED  BY <3>3, <3>4 DEF IInv
  <2>7. CASE /\ SpawnWorker(o, slots[o].schedulerLeader, slots[o].restartCount + 1, Unmap(w))
             /\ events' = events \ {exit}
             /\ UNCHANGED <<phase, ready, awaited, timer, exitCode, sigterm>>
    <3>1. PICK count \in Nat : count = slots[o].restartCount + 1
      BY <2>4
    <3>2. SpawnWorker(o, slots[o].schedulerLeader, count, Unmap(w))
      BY <2>7, <3>1 DEF SpawnWorker
    <3>3. events' \subseteq events /\ phase' # "created"
      BY <1>4, <2>7
    <3>4. /\ Bookkeeping'
          /\ proc' \in [Ids' -> Proc] /\ forks' = forks + 1
          /\ slots' \in [Ordinals -> Slot]
          /\ \A r \in Ordinals : slots'[r].worker \in 0 .. forks'
          /\ DOMAIN workerToSlot' \subseteq Ids'
          /\ workerToSlot' \in [DOMAIN workerToSlot' -> Ordinals]
      BY <1>2, <1>4, <3>2, <3>3, RespawnKeeps
    <3>5. Ids \subseteq Ids' /\ forks' \in Nat
      BY <1>1, <3>4 DEF TypeOK, Ids
    <3>6. TypeOK'
      BY <1>1, <2>3, <2>7, <3>3, <3>4, <3>5 DEF TypeOK
    <3>. QED  BY <3>4, <3>6 DEF IInv
  <2>. QED
    BY <2>1, <2>6, <2>7 DEF OnWorkerExit
<1>. QED  BY <1>3, <1>4

LEMMA StutterKeeps == IInv /\ UNCHANGED vars => IInv'
BY DEF vars, IInv, TypeOK, Bookkeeping, NothingForked, LiveInSlot, SlotsMapped,
       MappedInSlot, EventsTrue, LeaderSlotOnly, YoungestInSlot, Live, Ids

LEMMA NextKeeps == IInv /\ [Next]_vars => IInv'
BY StartKeeps, ShutdownKeeps, ReportKeeps, ExitKeeps, WorkerBecomes, BecomesKeeps, StutterKeeps
DEF Next, PrimaryStep

\* The bookkeeping of the primary is right in every reachable state.
THEOREM Invariance == Spec => []IInv
BY InitKeeps, NextKeeps, PTL DEF Spec

(* Type correctness of the clustered runtime.                              *)
THEOREM TypeCorrect == Spec => []TypeOK
<1>1. IInv => TypeOK
  BY DEF IInv
<1>. QED  BY <1>1, Invariance, PTL

-----------------------------------------------------------------------------
(* One scheduler.                                                          *)

\* A process whose scheduler runs holds the leader's slot.
LEMMA RunningLeads ==
    ASSUME IInv, NEW w \in SchedulersRunning
    PROVE  w \in Live /\ slots[Leader].worker = w
BY DEF IInv, Bookkeeping, LiveInSlot, LeaderSlotOnly, SchedulersRunning, Live

(* Attached scheduler jobs run in at most one process, over every respawn  *)
(* of the leader (spawnWorker() only after the 'exit' of its predecessor). *)
THEOREM Singleton == Spec => []SchedulerSingleton
<1>1. IInv => SchedulerSingleton
  BY RunningLeads DEF SchedulerSingleton
<1>. QED  BY <1>1, Invariance, PTL

\* Starting the scheduler takes the ownership: no other process holds it,
\* and every earlier owner was an older incarnation of the leader's slot.
LEMMA StartAcquires ==
    ASSUME IInv, NEW w \in Ids, StartScheduler(w)
    PROVE  Owner!Acquire(w) /\ w \in SchedulersRunning'
<1>1. /\ w \in Live /\ proc[w].sched = "off" /\ proc[w].leader
      /\ forks' = forks /\ proc \in [Ids -> Proc]
      /\ proc' = [proc EXCEPT ![w].sched = "running"]
  BY DEF StartScheduler, LeaderSchedules, Running, IInv, TypeOK
<1>2. /\ \A v \in Ids : v # w => proc'[v] = proc[v]
      /\ proc'[w].sched = "running" /\ proc'[w].phase = proc[w].phase
      /\ Ids' = Ids
  BY <1>1 DEF Proc, Ids
<1>3. proc[w].ordinal = Leader /\ slots[Leader].worker = w /\ w # NoWorker
  BY <1>1 DEF IInv, Bookkeeping, LeaderSlotOnly, LiveInSlot, Live, Ids, NoWorker
<1>4. SchedulersRunning = {}
  BY <1>1, <1>3, RunningLeads DEF SchedulersRunning
<1>5. \A u \in SchedulersUsed : u < w
  <2> SUFFICES ASSUME NEW u \in SchedulersUsed PROVE u < w
    OBVIOUS
  <2>1. u \in Ids /\ proc[u].ordinal = Leader /\ u # w
    BY <1>1 DEF SchedulersUsed, IInv, Bookkeeping, LeaderSlotOnly
  <2>2. u <= w
    BY <1>3, <2>1 DEF IInv, Bookkeeping, YoungestInSlot
  <2>. QED  BY <2>1, <2>2, <1>1 DEF Ids, Live, IInv, TypeOK
<1>6. SchedulersRunning' = {w}
  BY <1>1, <1>2, <1>4 DEF SchedulersRunning, Live
<1>7. SchedulersUsed' = SchedulersUsed \cup {w}
  BY <1>1, <1>2 DEF SchedulersUsed, Live
<1>. QED  BY <1>4, <1>5, <1>6, <1>7 DEF Owner!Acquire

\* A process that changes without starting its scheduler keeps the
\* ownership where it is or gives it up.
LEMMA OthersRelease ==
    ASSUME IInv, NEW w \in Ids, NEW q, Becomes(w, q),
           q.sched = proc[w].sched \/ (proc[w].sched = "running" /\ q.sched = "stopped")
    PROVE  Owner!Release \/ UNCHANGED <<SchedulersRunning, SchedulersUsed>>
<1>1. /\ proc \in [Ids -> Proc] /\ Ids' = Ids
      /\ \A v \in Ids : v # w => proc'[v] = proc[v]
      /\ proc'[w] = q /\ (q.phase # "dead" => proc[w].phase # "dead")
  BY DEF Becomes, IInv, TypeOK, Ids
<1>2. SchedulersUsed' = SchedulersUsed
  BY <1>1 DEF SchedulersUsed
<1>3. SchedulersRunning' \subseteq SchedulersRunning
  BY <1>1 DEF SchedulersRunning, Live
<1>4. \A u, v \in SchedulersRunning : u = v
  BY RunningLeads
<1>5. SchedulersRunning' = {} \/ SchedulersRunning' = SchedulersRunning
  BY <1>3, <1>4
<1>. QED  BY <1>2, <1>5 DEF Owner!Release

LEMMA SchedulerSteps ==
    ASSUME IInv, NEW w \in Ids, WorkerStep(w), ~StartScheduler(w)
    PROVE  \/ proc'[w].sched = proc[w].sched
           \/ proc[w].sched = "running" /\ proc'[w].sched = "stopped"
<1>1. proc \in [Ids -> Proc]
  BY DEF IInv, TypeOK
<1>2. CASE \E x \in ProcPhases : proc' = [proc EXCEPT ![w].phase = x]
  BY <1>1, <1>2 DEF Proc
<1>3. CASE \E x \in {"bound", "announced"} : proc' = [proc EXCEPT ![w].port = x]
  BY <1>1, <1>3 DEF Proc
<1>4. CASE Hang(w)
  BY <1>1, <1>4 DEF Hang, Proc
<1>5. CASE StopScheduler(w)
  BY <1>1, <1>5 DEF StopScheduler, Proc
<1>6. CASE Leave(w)
  <2>1. PICK q : q = [proc[w] EXCEPT !.phase = "dead", !.left = TRUE]
    OBVIOUS
  <2>2. proc'[w] = q
    BY <1>1, <1>6, <2>1 DEF Leave
  <2>. QED  BY <1>1, <2>1, <2>2 DEF Proc
<1>7. CASE Die(w)
  <2>1. PICK q : q = [proc[w] EXCEPT !.phase = "dead", !.hung = FALSE]
    OBVIOUS
  <2>2. proc'[w] = q
    BY <1>1, <1>7, <2>1 DEF Die
  <2>. QED  BY <1>1, <2>1, <2>2 DEF Proc
<1>. QED
  BY <1>2, <1>3, <1>4, <1>5, <1>6, <1>7
  DEF WorkerStep, InstallHandlers, Listen, Announce, BeginStop, ExitWorker, Crash,
      TakeSigterm, TakeSigkill, ChannelLost, ProcPhases

\* The primary hands the ownership to nobody: a fork starts no scheduler.
LEMMA PrimaryOwns ==
    ASSUME IInv, IInv', PrimaryStep
    PROVE  UNCHANGED <<SchedulersRunning, SchedulersUsed>>
<1>1. CASE UNCHANGED <<forks, proc>>
  BY <1>1 DEF SchedulersRunning, SchedulersUsed, Live, Ids
<1>2. CASE Start
  <2>1. Ids = {} /\ Ids' = 1 .. WorkerCount
    BY <1>2 DEF Start, IInv, Bookkeeping, NothingForked, Ids
  <2>2. \A w \in Ids' : proc'[w].sched = "off"
    BY <1>2, <2>1 DEF Start, NewProc
  <2>. QED  BY <2>1, <2>2 DEF SchedulersRunning, SchedulersUsed, Live
<1>3. CASE \E w \in Ids : WorkerExit(w) /\ ~UNCHANGED <<forks, proc>>
  <2>1. PICK w \in Ids : WorkerExit(w) /\ ~UNCHANGED <<forks, proc>>
    BY <1>3
  <2>2. PICK o, leader, count, m : SpawnWorker(o, leader, count, m)
    BY <2>1 DEF WorkerExit, OnWorkerExit
  <2>3. forks \in Nat /\ proc \in [Ids -> Proc] /\ forks' = forks + 1
    BY <2>2 DEF IInv, TypeOK, SpawnWorker
  <2>4. Ids' = Ids \cup {forks'} /\ forks' \notin Ids
    BY <2>3 DEF Ids
  <2>5. proc'[forks'].sched = "off" /\ \A v \in Ids : proc'[v] = proc[v]
    BY <2>2, <2>3, <2>4 DEF SpawnWorker, MapSet, NewProc
  <2>. QED  BY <2>4, <2>5 DEF SchedulersRunning, SchedulersUsed, Live
<1>. QED
  BY <1>1, <1>2, <1>3
  DEF PrimaryStep, Shutdown, SecondSignal, TimerFires, Escalate, Flushed, world,
      WorkerListening, WorkerMessage, WorkerReports

LEMMA OwnerStep ==
    ASSUME IInv, IInv', [Next]_vars
    PROVE  [Owner!Next]_<<SchedulersRunning, SchedulersUsed>>
<1>1. CASE UNCHANGED vars
  BY <1>1 DEF vars, SchedulersRunning, SchedulersUsed, Live, Ids
<1>2. CASE PrimaryStep
  BY <1>2, PrimaryOwns
<1>3. ASSUME NEW w \in Ids, StartScheduler(w) PROVE Owner!Next
  BY <1>3, StartAcquires DEF Owner!Next
<1>4. ASSUME NEW w \in Ids, WorkerStep(w), ~StartScheduler(w)
      PROVE  Owner!Next \/ UNCHANGED <<SchedulersRunning, SchedulersUsed>>
  <2>1. PICK q : Becomes(w, q)
    BY <1>4, WorkerBecomes
  <2>2. proc'[w] = q
    BY <2>1 DEF Becomes, IInv, TypeOK
  <2>3. q.sched = proc[w].sched \/ (proc[w].sched = "running" /\ q.sched = "stopped")
    BY <1>4, <2>2, SchedulerSteps
  <2>. QED  BY <2>1, <2>3, OthersRelease DEF Owner!Next
<1>. QED  BY <1>1, <1>2, <1>3, <1>4 DEF Next

(* The clustered runtime implements the one-owner protocol: ownership of   *)
(* the scheduler passes only to a later fork, and never comes back.        *)
THEOREM Ownership == Spec => OwnerSpec
<1>1. Init => Owner!Init
  BY DEF Init, Owner!Init, SchedulersRunning, SchedulersUsed, Live, Ids
<1>2. IInv /\ IInv' /\ [Next]_vars => [Owner!Next]_<<SchedulersRunning, SchedulersUsed>>
  BY OwnerStep
<1>. QED  BY <1>1, <1>2, Invariance, PTL DEF Spec, OwnerSpec, Owner!Spec

-----------------------------------------------------------------------------
(* Readiness.                                                              *)

ReadyInv == ReadyIsCurrent /\ (phase = "created" => readySlots = {})

LEMMA ReadyExit ==
    ASSUME IInv, IInv', ReadyInv, NEW w \in Ids, WorkerExit(w) PROVE ReadyInv'
<1> DEFINE o == workerToSlot[w]
           exit == [kind |-> "exit", worker |-> w]
<1>1. CASE ~(phase = "supervising" /\ w \in DOMAIN workerToSlot)
  BY <1>1 DEF WorkerExit, ReadyInv, ReadyIsCurrent
<1>2. CASE phase = "supervising" /\ w \in DOMAIN workerToSlot
  <2>1. OnWorkerExit(w, o, events \ {exit})
    BY <1>2 DEF WorkerExit
  <2>2. o \in Ordinals /\ slots \in [Ordinals -> Slot] /\ readySlots \subseteq Ordinals
        /\ proc \in [Ids -> Proc] /\ forks \in Nat
    BY <1>2 DEF IInv, TypeOK
  <2>3. readySlots' = readySlots \ {o} /\ phase' # "created"
    BY <1>2, <2>1 DEF OnWorkerExit, PhaseAfterReject
  <2>4. \A r \in Ordinals \ {o} : slots'[r].worker = slots[r].worker
    BY <2>1, <2>2 DEF OnWorkerExit, SpawnWorker
  <2>5. \A v \in Ids : proc'[v] = proc[v]
    <3>1. CASE UNCHANGED proc
      BY <3>1
    <3>2. CASE \E l, c, m : SpawnWorker(o, l, c, m)
      BY <2>2, <3>2 DEF SpawnWorker, MapSet, Ids
    <3>. QED  BY <2>1, <3>1, <3>2 DEF OnWorkerExit
  <2>6. \A r \in Ordinals : slots[r].worker # NoWorker => slots[r].worker \in Ids
    BY <2>2 DEF IInv, TypeOK, Ids, NoWorker
  <2>. QED  BY <1>2, <2>2, <2>3, <2>4, <2>5, <2>6 DEF ReadyInv, ReadyIsCurrent
<1>. QED  BY <1>1, <1>2

LEMMA ReadyReport ==
    ASSUME IInv, ReadyInv, NEW w \in Ids, WorkerListening(w) \/ WorkerMessage(w)
    PROVE  ReadyInv'
<1>1. PICK kind \in {"listening", "message"} : WorkerReports(kind, w)
  BY DEF WorkerListening, WorkerMessage
<1>2. proc[w].port # "closed"
  BY <1>1 DEF WorkerReports, IInv, Bookkeeping, EventsTrue
<1>3. w \in DOMAIN workerToSlot => slots[workerToSlot[w]].worker = w
  BY DEF IInv, Bookkeeping, MappedInSlot
<1>4. w # NoWorker
  BY DEF IInv, TypeOK, Ids, NoWorker
<1>. QED
  BY <1>1, <1>2, <1>3, <1>4 DEF WorkerReports, MarkWorkerReady, SlotOf, ReadyInv, ReadyIsCurrent

LEMMA ReadyWorker ==
    ASSUME IInv, ReadyInv, NEW w \in Ids, WorkerStep(w) PROVE ReadyInv'
<1>1. PICK q : Becomes(w, q)
  BY WorkerBecomes
<1>2. /\ \A v \in Ids : proc'[v].port = "closed" => proc[v].port = "closed"
      /\ UNCHANGED <<phase, slots, readySlots>>
  BY <1>1 DEF Becomes, IInv, TypeOK, manager
<1>3. \A r \in Ordinals : slots[r].worker # NoWorker => slots[r].worker \in Ids
  BY DEF IInv, TypeOK, Ids, NoWorker
<1>4. readySlots \subseteq Ordinals
  BY DEF IInv, TypeOK
<1>. QED  BY <1>2, <1>3, <1>4 DEF ReadyInv, ReadyIsCurrent

(* A slot counts as ready only for the worker it holds now: a report of an *)
(* exited incarnation never vouches for its replacement.                   *)
THEOREM Readiness == Spec => []ReadyIsCurrent
<1>1. Init => ReadyInv
  BY DEF Init, ReadyInv, ReadyIsCurrent
<1>2. IInv /\ IInv' /\ ReadyInv /\ [Next]_vars => ReadyInv'
  <2> SUFFICES ASSUME IInv, IInv', ReadyInv, [Next]_vars PROVE ReadyInv'
    OBVIOUS
  <2>1. CASE UNCHANGED vars
    BY <2>1 DEF vars, ReadyInv, ReadyIsCurrent
  <2>2. CASE Start
    BY <2>2 DEF Start, ReadyInv, ReadyIsCurrent
  <2>3. CASE Shutdown \/ SecondSignal \/ TimerFires \/ Escalate \/ Flushed
    BY <2>3 DEF Shutdown, SecondSignal, TimerFires, Escalate, Flushed, ReadyInv, ReadyIsCurrent
  <2>. QED
    BY <2>1, <2>2, <2>3, ReadyExit, ReadyReport, ReadyWorker DEF Next, PrimaryStep
<1>. QED  BY <1>1, <1>2, Invariance, PTL DEF Spec, ReadyInv

-----------------------------------------------------------------------------
(* Escalation to SIGKILL.                                                  *)

KillInv == KillOrder /\ KillEscalation

\* The exit event of a live worker does not exist, and every live worker is
\* held by its slot and mapped.
LEMMA LiveMapped ==
    ASSUME IInv
    PROVE  Live \subseteq WorkersOf(slots) \cap DOMAIN workerToSlot
<1> SUFFICES ASSUME NEW w \in Live PROVE w \in WorkersOf(slots) \cap DOMAIN workerToSlot
  OBVIOUS
<1>1. /\ w \in Ids /\ w # NoWorker /\ proc[w].ordinal \in Ordinals
      /\ slots[proc[w].ordinal].worker = w
  BY DEF IInv, Bookkeeping, LiveInSlot, Live, TypeOK, Proc, Ids, NoWorker
<1>. QED  BY <1>1 DEF WorkersOf, IInv, Bookkeeping, SlotsMapped

LEMMA KillWorker ==
    ASSUME IInv, KillInv, NEW w \in Ids, WorkerStep(w) PROVE KillInv'
<1>1. PICK q : Becomes(w, q)
  BY WorkerBecomes
<1>2. /\ Live' \subseteq Live
      /\ UNCHANGED <<phase, awaited, timer, sigkill>>
  BY <1>1 DEF Becomes, IInv, TypeOK, manager, Live, Ids
<1>. QED  BY <1>2 DEF KillInv, KillOrder, KillEscalation

LEMMA KillExit ==
    ASSUME IInv, KillInv, NEW w \in Ids, WorkerExit(w) PROVE KillInv'
<1> DEFINE exit == [kind |-> "exit", worker |-> w]
           o == workerToSlot[w]
<1>1. proc[w].phase = "dead" /\ UNCHANGED sigkill
  BY DEF WorkerExit, IInv, Bookkeeping, EventsTrue
<1>2. CASE ~(phase = "supervising" /\ w \in DOMAIN workerToSlot)
  <2>1. /\ UNCHANGED <<phase, timer, forks, proc>>
        /\ awaited' = awaited \ {w}
    BY <1>2 DEF WorkerExit
  <2>2. Live' = Live /\ w \notin Live
    BY <1>1, <2>1 DEF Live, Ids
  <2>. QED  BY <1>1, <2>1, <2>2 DEF KillInv, KillOrder, KillEscalation
<1>3. CASE phase = "supervising" /\ w \in DOMAIN workerToSlot
  <2>1. OnWorkerExit(w, o, events \ {exit})
    BY <1>3 DEF WorkerExit
  <2>2. sigkill' = {} /\ phase' \in {"supervising", "waiting", "crashed"}
    BY <1>1, <1>3, <2>1 DEF KillInv, KillOrder, OnWorkerExit, PhaseAfterReject
  <2>3. ASSUME phase' = "waiting" PROVE Live' \subseteq awaited'
    <3> DEFINE cleared == [slots EXCEPT ![o].worker = NoWorker]
    <3>1. /\ awaited' = WorkersOf(cleared) \cap DOMAIN Unmap(w)
          /\ UNCHANGED <<forks, proc>>
      BY <1>3, <2>1, <2>3 DEF OnWorkerExit, PerformShutdown, ExitListeners, PhaseAfterReject
    <3>2. Live' = Live /\ w \notin Live
      BY <1>1, <3>1 DEF Live, Ids
    <3>3. o \in Ordinals /\ slots[o].worker = w /\ slots \in [Ordinals -> Slot]
      BY <1>3 DEF IInv, TypeOK, Bookkeeping, MappedInSlot
    <3>4. WorkersOf(slots) \ {w} \subseteq WorkersOf(cleared)
      BY <3>3 DEF WorkersOf, Slot, NoWorker
    <3>5. DOMAIN Unmap(w) = DOMAIN workerToSlot \ {w}
      BY UnmapFacts
    <3>. QED  BY <3>1, <3>2, <3>4, <3>5, LiveMapped
  <2>. QED  BY <2>2, <2>3 DEF KillInv, KillOrder, KillEscalation
<1>. QED  BY <1>2, <1>3

(* A primary that is past its wait has sent SIGKILL to every worker still  *)
(* alive, and kills a live worker only after workerShutdownTimeoutMs.      *)
THEOREM Escalation == Spec => []KillEscalation
<1>1. Init => KillInv
  BY DEF Init, KillInv, KillOrder, KillEscalation, Live, Ids
<1>2. IInv /\ KillInv /\ [Next]_vars => KillInv'
  <2> SUFFICES ASSUME IInv, KillInv, [Next]_vars PROVE KillInv'
    OBVIOUS
  <2> USE DEF KillInv, KillOrder, KillEscalation
  <2>1. CASE UNCHANGED vars
    BY <2>1 DEF vars, Live, Ids
  <2>2. CASE Start
    BY <2>2 DEF Start
  <2>3. CASE Shutdown
    <3>1. awaited' = WorkersOf(slots) \cap DOMAIN workerToSlot /\ Live' = Live
      BY <2>3 DEF Shutdown, PerformShutdown, ExitListeners, Live, Ids
    <3>. QED  BY <2>3, <3>1, LiveMapped DEF Shutdown
  <2>4. CASE SecondSignal \/ TimerFires \/ Flushed
    <3>1. Live' = Live
      BY <2>4 DEF SecondSignal, TimerFires, Flushed, world, Live, Ids
    <3>. QED  BY <2>4, <3>1 DEF SecondSignal, TimerFires, Flushed, world
  <2>5. CASE Escalate
    <3>1. Live' = Live
      BY <2>5 DEF Escalate, WaitOver, Remaining, Live, Ids
    <3>. QED  BY <2>5, <3>1, LiveMapped DEF Escalate, WaitOver, Remaining
  <2>6. ASSUME NEW w \in Ids, WorkerListening(w) \/ WorkerMessage(w) PROVE KillInv'
    BY <2>6 DEF WorkerListening, WorkerMessage, WorkerReports, Live, Ids
  <2>. QED
    BY <2>1, <2>2, <2>3, <2>4, <2>5, <2>6, KillExit, KillWorker DEF Next, PrimaryStep
<1>. QED  BY <1>1, <1>2, Invariance, PTL DEF Spec, KillInv
-----------------------------------------------------------------------------
(* Supervision and the restart budget.                                     *)

\* The three ways the exit of a mapped worker w can go for its slot o.
Emptied(w, o) ==        \* the worker left, or respawn is off
    /\ slots'[o].worker = NoWorker
    /\ Respawn => proc[w].left
    /\ UNCHANGED <<forks, proc, exitCode>>
    /\ events' = events \ {[kind |-> "exit", worker |-> w]}

GivenUp(w, o) ==        \* the restarts are used up
    /\ slots'[o].worker = NoWorker
    /\ slots[o].restartCount + 1 > MaxRestarts
    /\ UNCHANGED <<forks, proc>>
    /\ exitCode' = 1 /\ phase' \in {"waiting", "crashed"}

Replaced(w, o) ==       \* a new process has taken the slot
    /\ forks' = forks + 1
    /\ slots'[o].worker = forks'
    /\ slots'[o].restartCount = slots[o].restartCount + 1
    /\ slots[o].restartCount + 1 <= MaxRestarts
    /\ proc'[forks'].ordinal = o /\ proc'[forks'].phase = "booting"
    /\ UNCHANGED exitCode
    /\ events' = events \ {[kind |-> "exit", worker |-> w]}

LEMMA MappedExit ==
    ASSUME IInv, NEW w \in Ids, WorkerExit(w),
           phase = "supervising", w \in DOMAIN workerToSlot,
           NEW o, o = workerToSlot[w]
    PROVE  /\ o \in Ordinals /\ slots[o].worker = w /\ proc[w].ordinal = o
           /\ slots[o].restartCount \in Nat
           /\ phase' # "created"
           /\ \A r \in Ordinals \ {o} : slots'[r] = slots[r]
           /\ \A v \in Ids : proc'[v] = proc[v]
           /\ Emptied(w, o) \/ GivenUp(w, o) \/ Replaced(w, o)
<1> DEFINE exit == [kind |-> "exit", worker |-> w]
           cleared == [slots EXCEPT ![o].worker = NoWorker]
           counted == [cleared EXCEPT ![o].restartCount = slots[o].restartCount + 1]
<1>1. TypeOK /\ OnWorkerExit(w, o, events \ {exit})
  BY DEF WorkerExit, IInv
<1>2. /\ o \in Ordinals /\ slots[o].worker = w /\ proc[w].ordinal = o
      /\ slots[o].restartCount \in Nat /\ slots[o].schedulerLeader \in BOOLEAN
      /\ slots \in [Ordinals -> Slot] /\ MaxRestarts \in Nat
  BY <1>1, ConfigAssumption DEF IInv, TypeOK, Bookkeeping, MappedInSlot, Slot
<1>3. phase' # "created"
  BY <1>1 DEF OnWorkerExit, PhaseAfterReject
<1>4. /\ cleared[o].worker = NoWorker /\ counted[o].worker = NoWorker
      /\ \A r \in Ordinals \ {o} : cleared[r] = slots[r] /\ counted[r] = slots[r]
  BY <1>2 DEF Slot, NoWorker
<1>5. CASE /\ UnexpectedExit(w) => ~Respawn
           /\ slots' = cleared /\ events' = events \ {exit}
           /\ UNCHANGED <<exitCode, forks, proc>>
  <2>1. Emptied(w, o)
    BY <1>4, <1>5, <1>1 DEF Emptied, UnexpectedExit, IInv, TypeOK, Proc
  <2>. QED  BY <1>2, <1>3, <1>4, <1>5, <2>1
<1>6. CASE /\ Exhausted(slots[o].restartCount + 1)
           /\ slots' = counted /\ exitCode' = 1
           /\ phase' = PhaseAfterReject("waiting")
           /\ UNCHANGED <<forks, proc>>
  <2>1. GivenUp(w, o)
    BY <1>4, <1>6 DEF GivenUp, Exhausted, PhaseAfterReject
  <2>. QED  BY <1>2, <1>3, <1>4, <1>6, <2>1
<1>7. CASE /\ ~Exhausted(slots[o].restartCount + 1)
           /\ SpawnWorker(o, slots[o].schedulerLeader, slots[o].restartCount + 1, Unmap(w))
           /\ events' = events \ {exit} /\ UNCHANGED exitCode
  <2>1. PICK m, leader, count : /\ m = Unmap(w) /\ leader = slots[o].schedulerLeader
                                /\ count = slots[o].restartCount + 1
    OBVIOUS
  <2>2. SpawnWorker(o, leader, count, m)
    BY <1>7, <2>1 DEF SpawnWorker
  <2>3. /\ DOMAIN m \subseteq Ids /\ m \in [DOMAIN m -> Ordinals]
        /\ leader \in BOOLEAN /\ count \in Nat
    <3>1. DOMAIN m = DOMAIN workerToSlot \ {w} /\ m \in [DOMAIN m -> Ordinals]
      BY <2>1, UnmapFacts
    <3>. QED  BY <1>1, <1>2, <2>1, <3>1 DEF TypeOK
  <2>4. /\ forks' = forks + 1
        /\ proc' \in [Ids' -> Proc]
        /\ proc'[forks'] = NewProc(o, leader)
        /\ \A v \in Ids : proc'[v] = proc[v]
        /\ DOMAIN workerToSlot' = DOMAIN m \cup {forks'}
        /\ workerToSlot' \in [DOMAIN workerToSlot' -> Ordinals]
        /\ workerToSlot'[forks'] = o
        /\ \A v \in DOMAIN m : workerToSlot'[v] = m[v]
        /\ slots' \in [Ordinals -> Slot]
        /\ slots'[o].worker = forks' /\ slots'[o].schedulerLeader = leader
        /\ slots'[o].restartCount = count
        /\ \A r \in Ordinals \ {o} : slots'[r] = slots[r]
    BY <1>2, <2>2, <2>3, SpawnFacts
  <2>5. count <= MaxRestarts
    BY <1>2, <1>7, <2>1, <2>3 DEF Exhausted
  <2>6. Replaced(w, o)
    BY <1>7, <2>1, <2>4, <2>5 DEF Replaced, NewProc
  <2>. QED  BY <1>2, <1>3, <2>4, <2>6
<1>. QED
  BY <1>1, <1>5, <1>6, <1>7 DEF OnWorkerExit, PerformShutdown

\* What no step of a worker takes back: its slot, its end, and that it left.
LEMMA WorkerKeeps ==
    ASSUME IInv, NEW w \in Ids, WorkerStep(w)
    PROVE  /\ UNCHANGED <<manager, forks>>
           /\ \A v \in Ids : /\ proc'[v].ordinal = proc[v].ordinal
                             /\ proc[v].left => proc'[v].left
           /\ phase = "supervising" =>
                 /\ events \subseteq events'
                 /\ \A v \in Ids : v \in Live =>
                       proc'[v].phase # "dead" \/ [kind |-> "exit", worker |-> v] \in events'
<1>1. /\ proc \in [Ids -> Proc]
      /\ UNCHANGED <<manager, forks>>
      /\ \A v \in Ids : proc'[v].ordinal = proc[v].ordinal
  <2>1. PICK q : Becomes(w, q)
    BY WorkerBecomes
  <2>. QED  BY <2>1 DEF Becomes, IInv, TypeOK
<1>2. \A v \in Ids : v # w => proc'[v] = proc[v]
  <2>1. PICK q : Becomes(w, q)
    BY WorkerBecomes
  <2>. QED  BY <1>1, <2>1 DEF Becomes
<1>3. CASE Die(w) /\ w \in Live
  <2>1. PICK q : q = [proc[w] EXCEPT !.phase = "dead", !.hung = FALSE]
    OBVIOUS
  <2>2. proc'[w] = q /\ q.left = proc[w].left
    BY <1>1, <1>3, <2>1 DEF Die, Proc
  <2>3. phase = "supervising" => events' = events \cup {[kind |-> "exit", worker |-> w]}
    BY <1>3 DEF Die, Emit
  <2>. QED  BY <1>1, <1>2, <2>2, <2>3 DEF Live
<1>4. CASE Leave(w)
  <2>1. PICK q : q = [proc[w] EXCEPT !.phase = "dead", !.left = TRUE]
    OBVIOUS
  <2>2. proc'[w] = q /\ q.left
    BY <1>1, <1>4, <2>1 DEF Leave, Proc
  <2>3. phase = "supervising" => events' = events \cup {[kind |-> "exit", worker |-> w]}
    BY <1>4 DEF Leave, Emit
  <2>. QED  BY <1>1, <1>2, <2>2, <2>3 DEF Live
<1>5. CASE /\ proc'[w].left = proc[w].left
           /\ proc'[w].phase = "dead" => w \notin Live
           /\ phase = "supervising" => events \subseteq events'
  <2>1. \A v \in Ids : proc[v].left => proc'[v].left
    BY <1>2, <1>5
  <2>2. \A v \in Ids : v \in Live => proc'[v].phase # "dead"
    BY <1>2, <1>5 DEF Live
  <2>. QED  BY <1>1, <1>5, <2>1, <2>2
<1>6. CASE \E x \in {"serving", "stopping"} : proc' = [proc EXCEPT ![w].phase = x]
           /\ UNCHANGED events
  BY <1>1, <1>5, <1>6 DEF Proc
<1>7. CASE Listen(w) \/ Announce(w)
  BY <1>1, <1>5, <1>7 DEF Listen, Announce, Emit, Proc, Live
<1>8. CASE Hang(w)
  BY <1>1, <1>5, <1>8 DEF Hang, Proc, Live
<1>9. CASE StartScheduler(w) \/ StopScheduler(w)
  BY <1>1, <1>5, <1>9 DEF StartScheduler, StopScheduler, Proc, Live
<1>. QED
  BY <1>3, <1>4, <1>6, <1>7, <1>8, <1>9
  DEF WorkerStep, InstallHandlers, BeginStop, ExitWorker, Crash,
      TakeSigterm, TakeSigkill, ChannelLost, Running

\* A worker's step touches no slot, and the end of one is announced.
LEMMA WorkerSupervised ==
    ASSUME IInv, SlotsSupervised, NEW w \in Ids, WorkerStep(w) PROVE SlotsSupervised'
<1>1. /\ UNCHANGED <<phase, slots, workerToSlot>> /\ Ids' = Ids
      /\ \A v \in Ids : proc'[v].ordinal = proc[v].ordinal /\ (proc[v].left => proc'[v].left)
      /\ phase = "supervising" =>
            /\ events \subseteq events'
            /\ \A v \in Ids : v \in Live =>
                  proc'[v].phase # "dead" \/ [kind |-> "exit", worker |-> v] \in events'
  BY WorkerKeeps DEF manager, Ids
<1> SUFFICES ASSUME phase = "supervising", NEW o \in Ordinals
             PROVE  LET v == slots[o].worker
                    IN IF v = NoWorker
                       THEN ~Respawn \/ \E u \in Ids : proc'[u].ordinal = o /\ proc'[u].left
                       ELSE /\ v \in Live' \/ [kind |-> "exit", worker |-> v] \in events'
                            /\ v \in DOMAIN workerToSlot /\ workerToSlot[v] = o
  BY <1>1 DEF SlotsSupervised, ExitPending
<1>2. slots[o].worker # NoWorker => slots[o].worker \in Ids
  BY DEF IInv, TypeOK, Ids, NoWorker
<1>3. \A v \in Ids : v \in Live' <=> proc'[v].phase # "dead"
  BY <1>1 DEF Live
<1>. QED  BY <1>1, <1>2, <1>3 DEF SlotsSupervised, ExitPending

LEMMA ExitSupervised ==
    ASSUME IInv, IInv', SlotsSupervised, NEW w \in Ids, WorkerExit(w)
    PROVE  SlotsSupervised'
<1> DEFINE exit == [kind |-> "exit", worker |-> w]
<1> SUFFICES ASSUME phase' = "supervising", NEW r \in Ordinals
             PROVE  IF slots'[r].worker = NoWorker
                    THEN ~Respawn \/ \E v \in Ids' : proc'[v].ordinal = r /\ proc'[v].left
                    ELSE /\ \/ slots'[r].worker \in Live'
                            \/ [kind |-> "exit", worker |-> slots'[r].worker] \in events'
                         /\ slots'[r].worker \in DOMAIN workerToSlot'
                         /\ workerToSlot'[slots'[r].worker] = r
  BY DEF SlotsSupervised, ExitPending
<1>1. forks \in Nat /\ slots[r].worker # NoWorker => slots[r].worker \in Ids
  BY DEF IInv, TypeOK, Ids, NoWorker
<1>2. slots'[r].worker # NoWorker =>
         /\ slots'[r].worker \in DOMAIN workerToSlot'
         /\ workerToSlot'[slots'[r].worker] = r
  BY DEF IInv, Bookkeeping, SlotsMapped, MappedInSlot
<1>3. CASE ~(phase = "supervising" /\ w \in DOMAIN workerToSlot)
  <2>1. /\ phase = "supervising" /\ events' = events \ {exit} /\ w \notin DOMAIN workerToSlot
        /\ UNCHANGED <<slots, workerToSlot, forks, proc>>
    BY <1>3 DEF WorkerExit
  <2>2. Live' = Live /\ Ids' = Ids
    BY <2>1 DEF Live, Ids
  <2>3. slots[r].worker # NoWorker =>
           /\ slots[r].worker # w
           /\ slots[r].worker \in Live \/ ExitPending(slots[r].worker)
    BY <2>1 DEF SlotsSupervised
  <2>. QED  BY <1>2, <2>1, <2>2, <2>3 DEF SlotsSupervised, ExitPending
<1>4. CASE phase = "supervising" /\ w \in DOMAIN workerToSlot
  <2>1. PICK o : o = workerToSlot[w]
    OBVIOUS
  <2>2. /\ o \in Ordinals /\ slots[o].worker = w /\ proc[w].ordinal = o
        /\ \A q \in Ordinals \ {o} : slots'[q] = slots[q]
        /\ \A v \in Ids : proc'[v] = proc[v]
        /\ Emptied(w, o) \/ Replaced(w, o)
    BY <1>4, <2>1, MappedExit DEF GivenUp
  <2>3. Ids \subseteq Ids' /\ events' = events \ {exit} /\ forks \in Nat
    BY <2>2 DEF Ids, Emptied, Replaced, IInv, TypeOK
  <2>4. CASE r # o
    <3>1. slots'[r] = slots[r]
      BY <2>2, <2>4
    <3>2. slots[r].worker # NoWorker => slots[r].worker # w
      BY <1>4, <2>1, <2>2, <2>4 DEF IInv, Bookkeeping, SlotsMapped, MappedInSlot
    <3>3. slots[r].worker \in Live => slots[r].worker \in Live'
      BY <2>2, <2>3 DEF Live
    <3>4. slots[r].worker # NoWorker /\ ExitPending(slots[r].worker)
             => [kind |-> "exit", worker |-> slots'[r].worker] \in events'
      BY <2>3, <3>1, <3>2 DEF ExitPending
    <3>5. slots[r].worker = NoWorker =>
             ~Respawn \/ \E v \in Ids' : proc'[v].ordinal = r /\ proc'[v].left
      BY <1>4, <2>2, <2>3 DEF SlotsSupervised
    <3>. QED  BY <1>2, <1>4, <3>1, <3>3, <3>4, <3>5 DEF SlotsSupervised
  <2>5. CASE r = o /\ Emptied(w, o)
    <3>1. Respawn => proc'[w].ordinal = o /\ proc'[w].left
      BY <2>2, <2>5 DEF Emptied
    <3>. QED  BY <2>3, <2>5, <3>1 DEF Emptied
  <2>6. CASE r = o /\ Replaced(w, o)
    <3>1. slots'[r].worker = forks' /\ forks' \in Ids' /\ proc'[forks'].phase = "booting"
      BY <2>3, <2>6 DEF Replaced, Ids
    <3>2. slots'[r].worker # NoWorker /\ slots'[r].worker \in Live'
      BY <3>1 DEF Live, Ids, NoWorker
    <3>. QED  BY <1>2, <3>2
  <2>. QED  BY <2>2, <2>4, <2>5, <2>6
<1>. QED  BY <1>3, <1>4

(* While the primary supervises, no slot is forgotten: a slot is empty     *)
(* only after its worker left on purpose or without respawn, and the exit  *)
(* of a dead worker a slot still holds is yet to be handled for that slot. *)
THEOREM Supervision == Spec => []SlotsSupervised
<1>1. Init => SlotsSupervised
  BY DEF Init, SlotsSupervised
<1>2. IInv /\ IInv' /\ SlotsSupervised /\ [Next]_vars => SlotsSupervised'
  <2> SUFFICES ASSUME IInv, IInv', SlotsSupervised, [Next]_vars PROVE SlotsSupervised'
    OBVIOUS
  <2>1. CASE UNCHANGED vars
    BY <2>1 DEF vars, SlotsSupervised, ExitPending, Live, Ids
  <2>2. CASE Start
    <3>1. \A o \in Ordinals : slots'[o].worker = o + 1
      BY <2>2 DEF Start
    <3>2. /\ forks' = WorkerCount /\ Ids' = 1 .. WorkerCount
          /\ \A v \in Ids' : proc'[v].phase = "booting"
      BY <2>2 DEF Start, NewProc, Ids
    <3>3. \A o \in Ordinals : slots'[o].worker # NoWorker /\ slots'[o].worker \in Live'
      BY <3>1, <3>2, ConfigAssumption DEF Ordinals, Live, NoWorker
    <3>. QED  BY <3>3 DEF SlotsSupervised, IInv, Bookkeeping, SlotsMapped, MappedInSlot
  <2>3. CASE Shutdown \/ SecondSignal \/ TimerFires \/ Escalate \/ Flushed
    BY <2>3 DEF Shutdown, SecondSignal, TimerFires, Escalate, Flushed, SlotsSupervised
  <2>4. ASSUME NEW w \in Ids, WorkerListening(w) \/ WorkerMessage(w)
        PROVE  SlotsSupervised'
    <3>1. /\ UNCHANGED <<phase, slots, workerToSlot, forks, proc>>
          /\ \A v \in Ids : ExitPending(v) => ExitPending(v)'
      BY <2>4 DEF WorkerListening, WorkerMessage, WorkerReports, ExitPending
    <3>2. \A o \in Ordinals : slots[o].worker # NoWorker => slots[o].worker \in Ids
      BY DEF IInv, TypeOK, Ids, NoWorker
    <3>3. Live' = Live /\ Ids' = Ids
      BY <3>1 DEF Live, Ids
    <3>. QED  BY <3>1, <3>2, <3>3 DEF SlotsSupervised
  <2>. QED
    BY <2>1, <2>2, <2>3, <2>4, ExitSupervised, WorkerSupervised DEF Next, PrimaryStep
<1>. QED  BY <1>1, <1>2, Invariance, PTL DEF Spec

\* How often the slots were forked: a slot that holds a worker has counted
\* every incarnation but the first, one over which the primary gave up has
\* had them all.
BudgetInv ==
    /\ \A o \in Ordinals :
          /\ Cardinality(Incarnations(o)) <= MaxRestarts + 1
          /\ slots[o].worker # NoWorker =>
                Cardinality(Incarnations(o)) = slots[o].restartCount + 1
    /\ exitCode = 1 =>
          \E o \in Ordinals : Cardinality(Incarnations(o)) = MaxRestarts + 1

LEMMA IncarnationsFinite ==
    ASSUME IInv, NEW o
    PROVE  IsFiniteSet(Incarnations(o)) /\ Cardinality(Incarnations(o)) \in Nat
<1>1. IsFiniteSet(Ids)
  BY FS_Interval DEF IInv, TypeOK, Ids
<1>2. Incarnations(o) \in SUBSET Ids
  BY DEF Incarnations
<1>. QED  BY <1>1, <1>2, FS_Subset, FS_CardinalityType

\* A step that forks nothing and moves no process keeps the count.
LEMMA SameIncarnations ==
    ASSUME forks' = forks, \A v \in Ids : proc'[v].ordinal = proc[v].ordinal
    PROVE  \A o \in Ordinals : Incarnations(o)' = Incarnations(o)
BY DEF Incarnations, Ids

LEMMA ExitBudget ==
    ASSUME IInv, BudgetInv, NEW w \in Ids, WorkerExit(w) PROVE BudgetInv'
<1>1. CASE ~(phase = "supervising" /\ w \in DOMAIN workerToSlot)
  <2>1. UNCHANGED <<slots, forks, proc, exitCode>>
    BY <1>1 DEF WorkerExit
  <2>. QED  BY <2>1 DEF BudgetInv, Incarnations, Ids
<1>2. CASE phase = "supervising" /\ w \in DOMAIN workerToSlot
  <2>1. PICK o : o = workerToSlot[w]
    OBVIOUS
  <2>2. /\ o \in Ordinals /\ slots[o].worker = w
        /\ slots[o].restartCount \in Nat
        /\ \A r \in Ordinals \ {o} : slots'[r] = slots[r]
        /\ \A v \in Ids : proc'[v] = proc[v]
        /\ Emptied(w, o) \/ GivenUp(w, o) \/ Replaced(w, o)
    BY <1>2, <2>1, MappedExit
  <2>3. w # NoWorker /\ MaxRestarts \in Nat /\ forks \in Nat
    BY ConfigAssumption DEF IInv, TypeOK, Ids, NoWorker
  <2>4. Cardinality(Incarnations(o)) = slots[o].restartCount + 1
    BY <2>2, <2>3 DEF BudgetInv
  <2>5. CASE Emptied(w, o)
    <3>1. \A r \in Ordinals : Incarnations(r)' = Incarnations(r)
      BY <2>2, <2>5, SameIncarnations DEF Emptied
    <3>. QED  BY <2>2, <2>5, <3>1 DEF Emptied, BudgetInv
  <2>6. CASE GivenUp(w, o)
    <3>1. \A r \in Ordinals : Incarnations(r)' = Incarnations(r)
      BY <2>2, <2>6, SameIncarnations DEF GivenUp
    <3>2. Cardinality(Incarnations(o)) = MaxRestarts + 1
      BY <2>2, <2>3, <2>4, <2>6 DEF GivenUp, BudgetInv
    <3>. QED  BY <2>2, <2>6, <3>1, <3>2 DEF GivenUp, BudgetInv
  <2>7. CASE Replaced(w, o)
    <3>1. Ids' = Ids \cup {forks'} /\ forks' \notin Ids
      BY <2>3, <2>7 DEF Replaced, Ids
    <3>2. /\ Incarnations(o)' = Incarnations(o) \cup {forks'}
          /\ forks' \notin Incarnations(o)
      BY <2>2, <2>7, <3>1 DEF Replaced, Incarnations
    <3>3. \A r \in Ordinals \ {o} : Incarnations(r)' = Incarnations(r)
      BY <2>2, <2>7, <3>1 DEF Replaced, Incarnations
    <3>4. Cardinality(Incarnations(o)') = Cardinality(Incarnations(o)) + 1
      BY <3>2, IncarnationsFinite, FS_AddElement
    <3>5. /\ Cardinality(Incarnations(o)') <= MaxRestarts + 1
          /\ Cardinality(Incarnations(o)') = slots'[o].restartCount + 1
          /\ Cardinality(Incarnations(o)) # MaxRestarts + 1
      BY <2>2, <2>3, <2>4, <2>7, <3>4 DEF Replaced
    <3>. QED  BY <2>2, <2>7, <3>3, <3>5 DEF Replaced, BudgetInv
  <2>. QED  BY <2>2, <2>5, <2>6, <2>7
<1>. QED  BY <1>1, <1>2

(* No slot is forked more than 1 + maxRestarts times, over any sequence of *)
(* crashes, and the primary ends with exit code 1 only over a slot that    *)
(* has used its restarts up.                                               *)
THEOREM Budget == Spec => []RestartBudget
<1>1. Init => BudgetInv
  <2> SUFFICES ASSUME Init PROVE BudgetInv
    OBVIOUS
  <2>1. \A o : Incarnations(o) = {}
    BY DEF Init, Incarnations, Ids
  <2>2. \A o : Cardinality(Incarnations(o)) = 0
    BY <2>1, FS_EmptySet
  <2>3. \A o \in Ordinals : slots[o].worker = NoWorker
    BY DEF Init
  <2>4. exitCode = 0 /\ MaxRestarts \in Nat
    BY ConfigAssumption DEF Init
  <2>. QED  BY <2>2, <2>3, <2>4 DEF BudgetInv
<1>2. IInv /\ IInv' /\ BudgetInv /\ [Next]_vars => BudgetInv'
  <2> SUFFICES ASSUME IInv, IInv', BudgetInv, [Next]_vars PROVE BudgetInv'
    OBVIOUS
  <2>1. CASE UNCHANGED vars
    BY <2>1 DEF vars, BudgetInv, Incarnations, Ids
  <2>2. CASE Start
    <3>1. /\ Ids' = 1 .. WorkerCount /\ exitCode' = exitCode
          /\ \A v \in Ids' : proc'[v].ordinal = v - 1
          /\ \A o \in Ordinals : slots'[o].restartCount = 0
      BY <2>2 DEF Start, NewProc, Ids
    <3>2. exitCode # 1
      <4>1. \A o \in Ordinals : Cardinality(Incarnations(o)) = 0
        <5>1. \A o \in Ordinals : Incarnations(o) = {}
          BY <2>2 DEF Start, IInv, Bookkeeping, NothingForked, Incarnations, Ids
        <5>. QED  BY <5>1, FS_EmptySet
      <4>. QED  BY <4>1, ConfigAssumption DEF BudgetInv
    <3>3. \A o \in Ordinals : Incarnations(o)' = {o + 1}
      BY <3>1, ConfigAssumption DEF Incarnations, Ordinals
    <3>4. \A o \in Ordinals : Cardinality(Incarnations(o)') = 1
      BY <3>3, FS_Singleton
    <3>. QED  BY <3>1, <3>2, <3>4, ConfigAssumption DEF BudgetInv
  <2>3. CASE Shutdown
    BY <2>3 DEF Shutdown, PerformShutdown, BudgetInv, Incarnations, Ids
  <2>4. CASE SecondSignal \/ TimerFires \/ Escalate \/ Flushed
    BY <2>4 DEF SecondSignal, TimerFires, Escalate, Flushed, world, BudgetInv, Incarnations, Ids
  <2>5. ASSUME NEW w \in Ids, WorkerListening(w) \/ WorkerMessage(w) PROVE BudgetInv'
    BY <2>5 DEF WorkerListening, WorkerMessage, WorkerReports, BudgetInv, Incarnations, Ids
  <2>6. ASSUME NEW w \in Ids, WorkerStep(w) PROVE BudgetInv'
    <3>1. \A o \in Ordinals : Incarnations(o)' = Incarnations(o)
      BY <2>6, WorkerKeeps, SameIncarnations
    <3>2. UNCHANGED <<slots, exitCode>>
      BY <2>6, WorkerKeeps DEF manager
    <3>. QED  BY <3>1, <3>2 DEF BudgetInv
  <2>. QED
    BY <2>1, <2>2, <2>3, <2>4, <2>5, <2>6, ExitBudget DEF Next, PrimaryStep
<1>3. BudgetInv => RestartBudget
  BY DEF BudgetInv, RestartBudget
<1>. QED  BY <1>1, <1>2, <1>3, Invariance, PTL DEF Spec

-----------------------------------------------------------------------------
(* The verdict of waitUntilReady().                                        *)

\* WorkerCount ordinals reported are all of them.
LEMMA AllReported ==
    ASSUME NEW reported \in SUBSET Ordinals, AllReady(reported)
    PROVE  reported = Ordinals
<1>1. IsFiniteSet(Ordinals) /\ Cardinality(Ordinals) = WorkerCount
  BY ConfigAssumption, FS_Interval DEF Ordinals
<1>2. /\ IsFiniteSet(reported)
      /\ Cardinality(reported) <= Cardinality(Ordinals)
      /\ Cardinality(Ordinals) = Cardinality(reported) => Ordinals = reported
  BY <1>1, FS_Subset
<1>3. Cardinality(reported) \in Nat
  BY <1>2, FS_CardinalityType
<1>. QED  BY <1>1, <1>2, <1>3, ConfigAssumption DEF AllReady

(* waitUntilReady() settles once, and resolves only when every slot holds  *)
(* a worker that has bound the shared port, whichever worker reported last *)
(* and whatever crashed on the way.                                        *)
THEOREM Verdict == Spec => ReadyVerdict
<1> DEFINE Settled ==
      ready' # ready =>
          /\ ready = "pending"
          /\ ready' = "resolved" => \A o \in Ordinals :
                /\ slots'[o].worker # NoWorker
                /\ proc'[slots'[o].worker].port # "closed"
<1>1. ASSUME IInv, IInv', ReadyIsCurrent', [Next]_vars PROVE Settled
  <2>1. CASE ready' = ready
    BY <2>1
  <2>2. ASSUME NEW w \in Ids, WorkerListening(w) \/ WorkerMessage(w), ready' # ready
        PROVE  Settled
    <3>1. /\ phase' = "supervising" /\ ready = "pending" /\ AllReady(readySlots')
      BY <2>2 DEF WorkerListening, WorkerMessage, WorkerReports, MarkWorkerReady
    <3>2. readySlots' = Ordinals
      BY <1>1, <3>1, AllReported DEF IInv, TypeOK
    <3>. QED  BY <1>1, <3>1, <3>2 DEF ReadyIsCurrent
  <2>3. ASSUME NEW w \in Ids, WorkerExit(w), ready' # ready PROVE Settled
    BY <2>3 DEF WorkerExit, OnWorkerExit, RejectReady
  <2>4. ASSUME NEW w \in Ids, WorkerStep(w) PROVE ready' = ready
    BY <1>1, <2>4, WorkerKeeps DEF manager
  <2>5. CASE \/ Start \/ Shutdown \/ SecondSignal \/ TimerFires \/ Escalate \/ Flushed
             \/ UNCHANGED vars
    BY <2>5 DEF Start, Shutdown, SecondSignal, TimerFires, Escalate, Flushed, vars
  <2>. QED
    BY <1>1, <2>1, <2>2, <2>3, <2>4, <2>5 DEF Next, PrimaryStep
<1>2. IInv /\ IInv' /\ ReadyIsCurrent' /\ [Next]_vars => [Settled]_vars
  BY <1>1
<1>. QED  BY <1>2, Invariance, Readiness, PTL DEF Spec, ReadyVerdict

=============================================================================
