----------------------- MODULE SchedulerServiceProofs -----------------------
(***************************************************************************)
(* Proofs about SchedulerService, for every configuration of jobs, every   *)
(* choice of switches and every bound.                                     *)
(***************************************************************************)
EXTENDS SchedulerService, TLAPS

\* Callbacks that wait for leaderCheck() are room kept for their run().
RoomKept ==
    \A e \in Crons : entries[e].executing + entries[e].checking <= MaxCallbacks

\* What Guarded needs: a job nobody asks the leader about runs under its flag.
FlagHeld ==
    \A e \in Crons :
        /\ entries[e].running => entries[e].executing > 0
        /\ ~Asks(entries[e].name) =>
              /\ entries[e].checking = 0
              /\ entries[e].executing <= 1
              /\ entries[e].executing = 1 => entries[e].running

\* Once its function runs a timeout cannot fire again.
FiresOnce == \A e \in Timeouts : entries[e].executing = 1 => ~entries[e].armed

\* A timeout holds its name beyond its timer, until its function has ended:
\* TimeoutEnds drops the name without looking at whose it is.
NameHeld ==
    \A e \in Entries :
        /\ entries[e].armed => phase # "stopped"
        /\ phase # "stopped"
             /\ (entries[e].armed \/ (e \in Timeouts /\ entries[e].executing = 1))
           => tasks[entries[e].name] = e

IInv ==
    /\ TypeOK
    /\ RoomKept
    /\ FlagHeld
    /\ FiresOnce
    /\ ~CancelRunning => NameHeld

\* Reading the invariant entry by entry.
EntryOK(e) ==
    /\ entries[e] \in CronEntry \cup TimeoutEntry
    /\ entries[e].kind = "cron" =>
          /\ entries[e].executing + entries[e].checking <= MaxCallbacks
          /\ entries[e].running => entries[e].executing > 0
          /\ ~Asks(entries[e].name) =>
                /\ entries[e].checking = 0
                /\ entries[e].executing <= 1
                /\ entries[e].executing = 1 => entries[e].running
    /\ entries[e].kind = "timeout" /\ entries[e].executing = 1 => ~entries[e].armed

Shape ==
    /\ phase \in Phases
    /\ resolved \in 0 .. Len(Jobs)
    /\ tasks \in [Names -> 0 .. made]
    /\ made \in 0 .. MaxEntries
    /\ DOMAIN entries = Entries
    /\ entries = [e \in Entries |-> entries[e]]

LEMMA EntryByEntry ==
    IInv <=> /\ Shape
             /\ \A e \in Entries : EntryOK(e)
             /\ ~CancelRunning => NameHeld
<1>1. TypeOK <=> Shape /\ \A e \in Entries : entries[e] \in CronEntry \cup TimeoutEntry
  BY DEF TypeOK, Shape
<1>. QED
  BY <1>1 DEF IInv, RoomKept, FlagHeld, FiresOnce, EntryOK, Crons, Timeouts

\* A name that was free is taken by a new entry.
LEMMA AddKeeps ==
    ASSUME ConfigAssumption, IInv, NEW n \in Names, NEW k \in {"cron", "timeout"},
           Reachable, NameFree(n), Add(n, k),
           phase' = phase, resolved' \in 0 .. Len(Jobs)
    PROVE  IInv'
<1>1. Shape /\ (\A e \in Entries : EntryOK(e)) /\ (~CancelRunning => NameHeld)
  BY EntryByEntry
<1>0. PICK new \in Nat : new = made + 1
  BY <1>1, ConfigAssumption DEF Shape, ConfigAssumption
<1>2. /\ Entries' = Entries \cup {new} /\ new \notin Entries /\ made' = new
      /\ made \in Nat /\ new # NoEntry /\ new \in 0 .. MaxEntries
      /\ \A e \in Entries : e \in 0 .. made
  BY <1>0, <1>1, ConfigAssumption DEF ConfigAssumption, Shape, Entries, Add, NoEntry
<1>3. /\ \A e \in Entries : entries'[e] = entries[e]
      /\ entries'[new] = NewEntry(n, k)
      /\ DOMAIN entries' = Entries'
      /\ entries' = [e \in Entries' |-> entries'[e]]
  BY <1>0, <1>1, <1>2 DEF Add, Entries
<1>4. tasks' \in [Names -> 0 .. new] /\ tasks'[n] = new
      /\ \A x \in Names : x # n => tasks'[x] = tasks[x]
  BY <1>0, <1>1, <1>2 DEF Add, Shape
<1>5. Shape'
  BY <1>1, <1>2, <1>3, <1>4 DEF Shape
<1>6. \A e \in Entries' : EntryOK(e)'
  <2>1. EntryOK(new)'
    BY <1>2, <1>3, ConfigAssumption
       DEF EntryOK, NewEntry, CronEntry, TimeoutEntry, ConfigAssumption
  <2>2. \A e \in Entries : EntryOK(e)'
    BY <1>1, <1>3 DEF EntryOK, Asks
  <2>. QED  BY <1>2, <2>1, <2>2
<1>7. ASSUME ~CancelRunning PROVE NameHeld'
  <2>1. \A e \in Entries : entries[e].name \in Names
    BY <1>1 DEF EntryOK, CronEntry, TimeoutEntry
  <2>2. NameHeld /\ phase # "stopped" /\ tasks[n] = NoEntry
    BY <1>1, <1>7 DEF Reachable, NameFree
  <2>3. \A e \in Entries : e # NoEntry
    BY <1>2 DEF Entries, NoEntry
  <2>4. entries'[new].name = n
    BY <1>3 DEF NewEntry
  <2>. QED
    BY <1>2, <1>3, <1>4, <2>1, <2>2, <2>3, <2>4 DEF NameHeld, Timeouts
<1>. QED
  BY <1>5, <1>6, <1>7, EntryByEntry DEF IInv, TypeOK, Shape, RoomKept, FlagHeld, FiresOnce, EntryOK, Crons, Timeouts

\* Tasks are stopped: flags and callbacks of every entry stay as they are.
LEMMA DisarmKeeps ==
    ASSUME IInv, NEW S, Disarm(S),
           phase' \in Phases, UNCHANGED <<resolved, made>>,
           phase' = "own" <=> phase = "own",
           tasks' \in [Names -> 0 .. made],
           (~CancelRunning => NameHeld)'
    PROVE  IInv'
<1>1. Shape /\ (\A e \in Entries : EntryOK(e))
  BY EntryByEntry
<1>2. Entries' = Entries
  BY DEF Entries
<1>3. DOMAIN entries' = Entries' /\ entries' = [e \in Entries' |-> entries'[e]]
  BY <1>2 DEF Disarm
<1>4. Shape'
  BY <1>1, <1>3 DEF Shape
<1>5. ASSUME NEW e \in Entries PROVE EntryOK(e)'
  <2>1. entries'[e] = [entries[e] EXCEPT !.armed = @ /\ e \notin S]
    BY DEF Disarm
  <2>2. EntryOK(e)
    BY <1>1
  <2>3. CASE entries[e] \in CronEntry
    BY <2>1, <2>2, <2>3 DEF EntryOK, CronEntry, Asks
  <2>4. CASE entries[e] \in TimeoutEntry
    BY <2>1, <2>2, <2>4 DEF EntryOK, TimeoutEntry
  <2>. QED  BY <2>2, <2>3, <2>4 DEF EntryOK
<1>. QED
  BY <1>2, <1>4, <1>5, EntryByEntry DEF IInv, TypeOK, Shape, RoomKept, FlagHeld, FiresOnce, EntryOK, Crons, Timeouts

\* One entry becomes r: the same task, not armed anew.
LEMMA BecomesKeeps ==
    ASSUME IInv, NEW x \in Entries, NEW r,
           entries' = [entries EXCEPT ![x] = r],
           UNCHANGED <<phase, resolved, made>>, tasks' \in [Names -> 0 .. made],
           r.kind = entries[x].kind,
           EntryOK(x)',
           (~CancelRunning => NameHeld)'
    PROVE  IInv'
<1>1. Shape /\ (\A e \in Entries : EntryOK(e))
  BY EntryByEntry
<1>2. Entries' = Entries /\ DOMAIN entries' = Entries'
  BY <1>1 DEF Entries, Shape
<1>3. Shape' /\ \A e \in Entries : e # x => entries'[e] = entries[e]
  BY <1>1, <1>2 DEF Shape
<1>4. \A e \in Entries : EntryOK(e)'
  BY <1>1, <1>3 DEF EntryOK, Asks
<1>. QED
  BY <1>2, <1>3, <1>4, EntryByEntry DEF IInv, TypeOK, Shape, RoomKept, FlagHeld, FiresOnce, EntryOK, Crons, Timeouts

\* What a change of some fields leaves of a cron task, and of a timeout.
CronBecomes(r, c, running, executing, checking) ==
    /\ r \in CronEntry
    /\ r.name = c.name /\ r.armed = c.armed
    /\ r.running = running /\ r.executing = executing /\ r.checking = checking

LEMMA CronFields ==
    ASSUME NEW c \in CronEntry, NEW b \in BOOLEAN,
           NEW i \in 0 .. MaxCallbacks, NEW j \in 0 .. MaxCallbacks
    PROVE  /\ CronBecomes([c EXCEPT !.running = b, !.executing = i],
                          c, b, i, c.checking)
           /\ CronBecomes([c EXCEPT !.checking = j],
                          c, c.running, c.executing, j)
           /\ CronBecomes([[c EXCEPT !.running = b, !.executing = i] EXCEPT !.checking = j],
                          c, b, i, j)
<1>1. ASSUME NEW d \in CronEntry PROVE [d EXCEPT !.checking = j] \in CronEntry
  BY DEF CronEntry
<1>2. [c EXCEPT !.running = b, !.executing = i] \in CronEntry
  BY DEF CronEntry
<1>. QED  BY <1>1, <1>2 DEF CronBecomes, CronEntry

LEMMA TimeoutFields ==
    ASSUME NEW c \in TimeoutEntry
    PROVE  /\ c.executing \in 0 .. 1
           /\ [c EXCEPT !.armed = FALSE, !.executing = 1] \in TimeoutEntry
           /\ [c EXCEPT !.executing = 0] \in TimeoutEntry
<1>1. c.executing \in 0 .. 1
  BY DEF TimeoutEntry
<1>2. ASSUME NEW i \in 0 .. 1
      PROVE  /\ [c EXCEPT !.armed = FALSE, !.executing = i] \in TimeoutEntry
             /\ [c EXCEPT !.executing = i] \in TimeoutEntry
  BY DEF TimeoutEntry
<1>. QED  BY <1>1, <1>2

\* A step of a callback that leaves the map, the entry's name and its timer
\* alone keeps what a timeout holds.
LEMMA CronKeeps ==
    ASSUME IInv, NEW x \in Crons, NEW r, NEW b, NEW i, NEW j,
           CronBecomes(r, entries[x], b, i, j),
           entries' = [entries EXCEPT ![x] = r],
           UNCHANGED <<phase, resolved, tasks, made>>,
           i + j <= MaxCallbacks,
           b => i > 0,
           ~Asks(entries[x].name) => j = 0 /\ i <= 1 /\ (i = 1 => b)
    PROVE  IInv'
<1> USE DEF CronBecomes
<1>1. Shape /\ (\A e \in Entries : EntryOK(e)) /\ x \in Entries /\ entries[x].kind = "cron"
  BY EntryByEntry DEF Crons
<1>2. Entries' = Entries /\ entries'[x] = r /\ r.kind = "cron"
      /\ \A e \in Entries : e # x => entries'[e] = entries[e]
  BY <1>1 DEF Entries, Shape, CronEntry
<1>3. EntryOK(x)'
  BY <1>2 DEF EntryOK, Asks
<1>4. ASSUME ~CancelRunning PROVE NameHeld'
  <2>1. NameHeld
    BY <1>4, EntryByEntry
  <2>2. \A e \in Entries : /\ entries'[e].name = entries[e].name
                           /\ entries'[e].armed = entries[e].armed
    BY <1>2
  <2>3. \A e \in Timeouts' : e # x
    BY <1>2 DEF Timeouts
  <2>4. \A e \in Timeouts' : e \in Timeouts /\ entries'[e].executing = entries[e].executing
    BY <1>2, <2>3 DEF Timeouts
  <2>. QED  BY <1>2, <2>1, <2>2, <2>4 DEF NameHeld
<1>. QED
  BY <1>1, <1>2, <1>3, <1>4, BecomesKeeps DEF Shape

LEMMA CallbackKeeps ==
    ASSUME ConfigAssumption, IInv, NEW x \in Entries, Callback(x) PROVE IInv'
<1> DEFINE c == entries[x]
<1>1. Shape /\ EntryOK(x) /\ MaxCallbacks \in Nat
  BY EntryByEntry, ConfigAssumption DEF ConfigAssumption
<1>2. x \in Crons => c \in CronEntry
  BY <1>1 DEF EntryOK, TimeoutEntry, Crons
<1>3. x \in Timeouts => c \in TimeoutEntry
  BY <1>1 DEF EntryOK, CronEntry, Timeouts
<1>4. CASE TickRuns(x)
  <2>1. PICK r : r = Begin(x)
    OBVIOUS
  <2>2. c \in CronEntry /\ x \in Crons /\ c.kind = "cron" /\ ~c.running
    BY <1>2, <1>4 DEF TickRuns, Crons, Free
  <2>3. /\ ~Asks(c.name) /\ c.checking = 0 /\ c.executing = 0
        /\ c.executing + 1 \in 0 .. MaxCallbacks
    BY <1>1, <1>4, <2>2 DEF EntryOK, TickRuns, CronEntry
  <2>4. CronBecomes(r, c, TRUE, c.executing + 1, c.checking)
    BY <2>1, <2>2, <2>3, CronFields DEF Begin
  <2>5. entries' = [entries EXCEPT ![x] = r] /\ UNCHANGED <<phase, resolved, tasks, made>>
    BY <1>4, <2>1 DEF TickRuns
  <2>6. /\ (c.executing + 1) + c.checking <= MaxCallbacks
        /\ TRUE => c.executing + 1 > 0
        /\ c.checking = 0 /\ c.executing + 1 <= 1
    BY <1>1, <2>3
  <2>. QED
    BY <2>2, <2>4, <2>5, <2>6, CronKeeps
<1>5. CASE TickAsks(x)
  <2>1. PICK r : r = [c EXCEPT !.checking = c.checking + 1]
    OBVIOUS
  <2>2. c \in CronEntry /\ x \in Crons /\ c.kind = "cron"
    BY <1>2, <1>5 DEF TickAsks, Crons
  <2>3. /\ c.executing \in Nat /\ c.checking \in Nat
        /\ c.executing + c.checking < MaxCallbacks
        /\ c.checking + 1 \in 0 .. MaxCallbacks
    BY <1>1, <1>5, <2>2 DEF EntryOK, TickAsks, CronEntry
  <2>4. CronBecomes(r, c, c.running, c.executing, c.checking + 1)
    <3>1. c.executing \in 0 .. MaxCallbacks
      BY <2>2 DEF CronEntry
    <3>. QED  BY <2>1, <2>2, <2>3, <3>1, CronFields
  <2>5. entries' = [entries EXCEPT ![x] = r] /\ UNCHANGED <<phase, resolved, tasks, made>>
    BY <1>5, <2>1 DEF TickAsks
  <2>6. Asks(c.name) /\ (c.running => c.executing > 0)
    BY <1>1, <1>5, <2>2 DEF EntryOK, TickAsks
  <2>7. c.executing + (c.checking + 1) <= MaxCallbacks
    BY <1>1, <2>3
  <2>. QED
    BY <2>2, <2>4, <2>5, <2>6, <2>7, CronKeeps
<1>6. ASSUME NEW ok \in BOOLEAN, LeaderAnswers(x, ok) PROVE IInv'
  <2>2. /\ c \in CronEntry /\ x \in Crons /\ c.kind = "cron" /\ c.checking > 0
        /\ UNCHANGED <<phase, resolved, tasks, made>>
    BY <1>2, <1>6 DEF LeaderAnswers, Crons
  <2>3. c.executing \in 0 .. MaxCallbacks /\ c.checking \in 0 .. MaxCallbacks
    BY <2>2 DEF CronEntry
  <2>4. /\ Asks(c.name) /\ c.executing + c.checking <= MaxCallbacks
        /\ c.running => c.executing > 0
    BY <1>1, <2>2, <2>3 DEF EntryOK
  <2>5. CASE ok
    <3>1. PICK r : r = [Begin(x) EXCEPT !.checking = c.checking - 1]
      OBVIOUS
    <3>2. Begin(x).checking = c.checking
      BY <2>2 DEF Begin, CronEntry
    <3>3. entries' = [entries EXCEPT ![x] = r]
      BY <1>6, <2>5, <3>1, <3>2 DEF LeaderAnswers
    <3>4. c.executing + 1 \in 0 .. MaxCallbacks /\ c.checking - 1 \in 0 .. MaxCallbacks
      BY <1>1, <2>2, <2>3, <2>4
    <3>5. CronBecomes(r, c, TRUE, c.executing + 1, c.checking - 1)
      BY <2>2, <3>1, <3>4, CronFields DEF Begin
    <3>6. /\ (c.executing + 1) + (c.checking - 1) <= MaxCallbacks
          /\ TRUE => c.executing + 1 > 0
      BY <1>1, <2>3, <2>4
    <3>. QED
      BY <2>2, <2>4, <3>3, <3>5, <3>6, CronKeeps
  <2>6. CASE ~ok
    <3>1. PICK r : r = [c EXCEPT !.checking = c.checking - 1]
      OBVIOUS
    <3>2. entries' = [entries EXCEPT ![x] = [c EXCEPT !.checking = @ - 1]]
      BY <1>6, <2>6 DEF LeaderAnswers
    <3>3. entries' = [entries EXCEPT ![x] = r]
      BY <3>1, <3>2
    <3>4. c.checking - 1 \in 0 .. MaxCallbacks
      BY <1>1, <2>2, <2>3
    <3>5. CronBecomes(r, c, c.running, c.executing, c.checking - 1)
      BY <2>2, <2>3, <3>1, <3>4, CronFields
    <3>6. c.executing + (c.checking - 1) <= MaxCallbacks
      BY <1>1, <2>3, <2>4
    <3>. QED
      BY <2>2, <2>4, <3>3, <3>5, <3>6, CronKeeps
  <2>. QED  BY <2>5, <2>6
<1>7. CASE RunEnds(x)
  <2>1. PICK r : r = AfterRun(x)
    OBVIOUS
  <2>2. c \in CronEntry /\ x \in Crons /\ c.kind = "cron" /\ c.executing > 0
    BY <1>2, <1>7 DEF RunEnds, Crons
  <2>3. /\ c.executing \in 0 .. MaxCallbacks /\ c.checking \in 0 .. MaxCallbacks
        /\ c.executing - 1 \in 0 .. MaxCallbacks
    BY <1>1, <2>2 DEF CronEntry
  <2>4. /\ c.executing + c.checking <= MaxCallbacks
        /\ ~Asks(c.name) => c.checking = 0 /\ c.executing <= 1
    BY <1>1, <2>2, <2>3 DEF EntryOK
  <2>5. CronBecomes(r, c, FALSE, c.executing - 1, c.checking)
    BY <2>1, <2>2, <2>3, CronFields DEF AfterRun
  <2>6. entries' = [entries EXCEPT ![x] = r] /\ UNCHANGED <<phase, resolved, tasks, made>>
    BY <1>7, <2>1 DEF RunEnds
  <2>7. /\ (c.executing - 1) + c.checking <= MaxCallbacks
        /\ FALSE => c.executing - 1 > 0
        /\ ~Asks(c.name) =>
              c.checking = 0 /\ c.executing - 1 <= 1 /\ (c.executing - 1 = 1 => FALSE)
    BY <1>1, <2>3, <2>4
  <2>. QED
    BY <2>2, <2>5, <2>6, <2>7, CronKeeps
<1>8. CASE TimeoutFires(x)
  <2>1. PICK r : r = [c EXCEPT !.armed = FALSE, !.executing = 1]
    OBVIOUS
  <2>2. c \in TimeoutEntry /\ x \in Timeouts /\ c.kind = "timeout" /\ c.armed
    BY <1>3, <1>8 DEF TimeoutFires, Timeouts
  <2>3. r \in TimeoutEntry /\ r.name = c.name /\ ~r.armed /\ r.kind = "timeout"
    <3>1. r \in TimeoutEntry
      BY <2>1, <2>2, TimeoutFields
    <3>. QED  BY <2>1, <2>2, <3>1 DEF TimeoutEntry
  <2>4. entries' = [entries EXCEPT ![x] = r] /\ entries'[x] = r /\ Entries' = Entries
        /\ \A e \in Entries : e # x => entries'[e] = entries[e]
    BY <1>1, <1>8, <2>1 DEF TimeoutFires, Shape, Entries
  <2>5. EntryOK(x)'
    BY <2>3, <2>4 DEF EntryOK
  <2>6. ASSUME ~CancelRunning PROVE NameHeld'
    <3>1. NameHeld /\ phase # "stopped" /\ tasks[c.name] = x
      BY <2>2, <2>6, EntryByEntry DEF NameHeld
    <3>2. phase' = phase /\ tasks' = tasks
      BY <1>8 DEF TimeoutFires
    <3>. QED  BY <2>3, <2>4, <3>1, <3>2 DEF NameHeld, Timeouts
  <2>. QED
    BY <1>1, <1>8, <2>2, <2>3, <2>4, <2>5, <2>6, BecomesKeeps DEF TimeoutFires, Shape
<1>9. CASE TimeoutEnds(x)
  <2>1. PICK r : r = [c EXCEPT !.executing = 0]
    OBVIOUS
  <2>2. c \in TimeoutEntry /\ x \in Timeouts /\ c.kind = "timeout" /\ c.executing = 1
        /\ ~c.armed
    <3>1. c \in TimeoutEntry /\ x \in Timeouts /\ c.kind = "timeout" /\ c.executing > 0
      BY <1>3, <1>9 DEF TimeoutEnds, Timeouts
    <3>2. c.executing \in 0 .. 1
      BY <3>1, TimeoutFields
    <3>3. c.executing = 1
      BY <3>1, <3>2
    <3>. QED  BY <1>1, <3>1, <3>3 DEF EntryOK
  <2>3. r \in TimeoutEntry /\ r.name = c.name /\ ~r.armed /\ r.kind = "timeout"
        /\ r.executing = 0
    <3>1. r \in TimeoutEntry
      BY <2>1, <2>2, TimeoutFields
    <3>. QED  BY <2>1, <2>2, <3>1 DEF TimeoutEntry
  <2>4. entries' = [entries EXCEPT ![x] = r] /\ entries'[x] = r /\ Entries' = Entries
        /\ \A e \in Entries : e # x => entries'[e] = entries[e]
    BY <1>1, <1>9, <2>1 DEF TimeoutEnds, Shape, Entries
  <2>5. EntryOK(x)'
    BY <2>3, <2>4 DEF EntryOK
  <2>6. tasks' \in [Names -> 0 .. made]
        /\ \A m \in Names : m # c.name => tasks'[m] = tasks[m]
    <3>1. tasks \in [Names -> 0 .. made] /\ NoEntry \in 0 .. made
      BY <1>1, ConfigAssumption DEF ConfigAssumption, Shape, NoEntry
    <3>2. tasks' = [tasks EXCEPT ![c.name] = NoEntry]
      BY <1>9 DEF TimeoutEnds, DropName
    <3>. QED  BY <3>1, <3>2
  <2>7. ASSUME ~CancelRunning PROVE NameHeld'
    <3>1. NameHeld /\ (phase # "stopped" => tasks[c.name] = x) /\ phase' = phase
      BY <1>9, <2>2, <2>7, EntryByEntry DEF NameHeld, TimeoutEnds
    <3>2. \A e \in Entries : entries[e].name \in Names
      BY EntryByEntry DEF EntryOK, CronEntry, TimeoutEntry
    <3>. QED  BY <2>3, <2>4, <2>6, <3>1, <3>2 DEF NameHeld, Timeouts
  <2>. QED
    BY <1>1, <1>9, <2>2, <2>3, <2>4, <2>5, <2>6, <2>7, BecomesKeeps DEF TimeoutEnds
<1>. QED
  BY <1>4, <1>5, <1>6, <1>7, <1>8, <1>9 DEF Callback

\* cancel() for one name: whoever else is armed holds another name.
LEMMA CancelKeeps ==
    ASSUME ConfigAssumption, IInv, NEW n \in Names, Cancel(n) PROVE IInv'
<1>1. Shape /\ \A e \in Entries : EntryOK(e)
  BY EntryByEntry
<1>2. /\ Disarm({tasks[n]}) /\ tasks' = [tasks EXCEPT ![n] = NoEntry]
      /\ UNCHANGED <<phase, resolved, made>> /\ Entries' = Entries
  BY DEF Cancel, Entries
<1>3. tasks' \in [Names -> 0 .. made] /\ \A m \in Names : m # n => tasks'[m] = tasks[m]
  <2>1. tasks \in [Names -> 0 .. made] /\ NoEntry \in 0 .. made
    BY <1>1, ConfigAssumption DEF ConfigAssumption, Shape, NoEntry
  <2>. QED  BY <1>2, <2>1
<1>4. ASSUME NEW e \in Entries
      PROVE  /\ entries'[e].armed => entries[e].armed /\ e # tasks[n]
             /\ entries'[e].name = entries[e].name
             /\ entries'[e].kind = entries[e].kind
             /\ entries'[e].executing = entries[e].executing
             /\ entries[e].name \in Names
  <2>1. entries'[e] = [entries[e] EXCEPT !.armed = @ /\ e \notin {tasks[n]}]
    BY <1>2 DEF Disarm
  <2>2. entries[e] \in CronEntry \cup TimeoutEntry
    BY <1>1 DEF EntryOK
  <2>3. CASE entries[e] \in CronEntry
    BY <2>1, <2>3 DEF CronEntry
  <2>4. CASE entries[e] \in TimeoutEntry
    BY <2>1, <2>4 DEF TimeoutEntry
  <2>. QED  BY <2>2, <2>3, <2>4
<1>5. ASSUME ~CancelRunning PROVE NameHeld'
  <2>1. NameHeld /\ phase # "stopped"
    BY <1>5, EntryByEntry DEF Cancel, Reachable
  <2>2. tasks[n] \in Crons \/ entries[tasks[n]].executing = 0
    BY <1>5 DEF Cancel
  <2>3. ASSUME NEW e \in Entries,
               entries'[e].armed \/ (e \in Timeouts' /\ entries'[e].executing = 1)
        PROVE  tasks'[entries'[e].name] = e
    <3>1. entries[e].armed \/ (e \in Timeouts /\ entries[e].executing = 1)
      BY <1>4, <2>3 DEF Timeouts
    <3>2. tasks[entries[e].name] = e
      BY <2>1, <3>1 DEF NameHeld
    <3>3. e # tasks[n]
      BY <1>4, <2>2, <2>3 DEF Timeouts, Crons
    <3>. QED  BY <1>3, <1>4, <3>2, <3>3
  <2>. QED  BY <1>2, <1>4, <2>1, <2>3 DEF NameHeld
<1>. QED
  BY <1>1, <1>2, <1>3, <1>5, DisarmKeeps DEF Shape

\* Only a timer is cleared: its name stays in the map.
LEMMA CancelHandleKeeps ==
    ASSUME IInv, NEW x \in Entries, CancelHandle(x) PROVE IInv'
<1>1. Shape /\ \A e \in Entries : EntryOK(e)
  BY EntryByEntry
<1>2. Disarm({x}) /\ UNCHANGED <<phase, resolved, tasks, made>> /\ Entries' = Entries
  BY DEF CancelHandle, Entries
<1>3. ASSUME NEW e \in Entries
      PROVE  /\ entries'[e].armed => entries[e].armed
             /\ entries'[e].name = entries[e].name
             /\ entries'[e].kind = entries[e].kind
             /\ entries'[e].executing = entries[e].executing
  <2>1. entries'[e] = [entries[e] EXCEPT !.armed = @ /\ e \notin {x}]
    BY <1>2 DEF Disarm
  <2>2. entries[e] \in CronEntry \cup TimeoutEntry
    BY <1>1 DEF EntryOK
  <2>3. CASE entries[e] \in CronEntry
    BY <2>1, <2>3 DEF CronEntry
  <2>4. CASE entries[e] \in TimeoutEntry
    BY <2>1, <2>4 DEF TimeoutEntry
  <2>. QED  BY <2>2, <2>3, <2>4
<1>4. ASSUME ~CancelRunning PROVE NameHeld'
  <2>1. NameHeld
    BY <1>4, EntryByEntry
  <2>. QED  BY <1>2, <1>3, <2>1 DEF NameHeld, Timeouts
<1>. QED
  BY <1>1, <1>2, <1>4, DisarmKeeps DEF Shape

\* cancelAll() finds whatever is armed, because it stands in the map.
LEMMA StopKeeps ==
    ASSUME ConfigAssumption, IInv, StopScheduler PROVE IInv'
<1>1. Shape /\ \A e \in Entries : EntryOK(e)
  BY EntryByEntry
<1>2. /\ Disarm(Range(tasks)) /\ tasks' = [n \in Names |-> NoEntry]
      /\ phase = "started" /\ phase' = "stopped"
      /\ UNCHANGED <<resolved, made>> /\ Entries' = Entries
  BY DEF StopScheduler, CancelAll, Entries
<1>3. tasks' \in [Names -> 0 .. made] /\ phase' \in Phases
  BY <1>1, <1>2, ConfigAssumption DEF ConfigAssumption, Shape, NoEntry, Phases
<1>4. ASSUME ~CancelRunning, NEW e \in Entries PROVE ~entries'[e].armed
  <2>1. entries[e].name \in Names
    BY <1>1 DEF EntryOK, CronEntry, TimeoutEntry
  <2>2. entries[e].armed => e \in Range(tasks)
    BY <1>1, <1>2, <1>4, <2>1, EntryByEntry DEF NameHeld, Range, Shape
  <2>3. entries'[e] = [entries[e] EXCEPT !.armed = @ /\ e \notin Range(tasks)]
    BY <1>2 DEF Disarm
  <2>4. CASE entries[e] \in CronEntry
    BY <2>2, <2>3, <2>4 DEF CronEntry
  <2>5. CASE entries[e] \in TimeoutEntry
    BY <2>2, <2>3, <2>5 DEF TimeoutEntry
  <2>. QED  BY <1>1, <2>4, <2>5 DEF EntryOK
<1>5. ~CancelRunning => NameHeld'
  BY <1>2, <1>4 DEF NameHeld
<1>. QED
  BY <1>2, <1>3, <1>5, DisarmKeeps

LEMMA IInvInit == ConfigAssumption /\ Init => IInv
<1>1. SUFFICES ASSUME ConfigAssumption, Init PROVE IInv
  OBVIOUS
<1>2. Entries = {} /\ Len(Jobs) \in Nat
  BY <1>1 DEF Init, Entries, ConfigAssumption
<1>. QED
  BY <1>1, <1>2 DEF Init, IInv, TypeOK, RoomKept, FlagHeld, FiresOnce, NameHeld,
                    Crons, Timeouts, Phases, NoEntry, ConfigAssumption

LEMMA IInvStep == ConfigAssumption /\ IInv /\ [Next]_vars => IInv'
<1>1. SUFFICES ASSUME ConfigAssumption, IInv, [Next]_vars PROVE IInv'
  OBVIOUS
<1>2. Shape /\ Len(Jobs) \in Nat /\ \A i \in 1 .. Len(Jobs) : Jobs[i] \in Names
  BY <1>1, EntryByEntry DEF ConfigAssumption, Names, JobNames
<1>3. CASE UNCHANGED vars
  BY <1>1, <1>3 DEF vars, IInv, TypeOK, RoomKept, FlagHeld, FiresOnce, NameHeld,
                    Entries, Crons, Timeouts, Asks
<1>4. CASE InitJob
  <2>1. resolved + 1 \in 1 .. Len(Jobs) /\ resolved' \in 0 .. Len(Jobs)
    BY <1>2, <1>4 DEF InitJob, Shape
  <2>. QED  BY <1>1, <1>2, <1>4, <2>1, AddKeeps DEF InitJob, Reachable
<1>5. CASE InitThrows \/ InitDone
  <2>1. /\ phase # "stopped" /\ phase' \in Phases /\ phase' # "stopped"
        /\ phase # "own" /\ phase' # "own"
        /\ UNCHANGED <<resolved, tasks, made, entries>>
    BY <1>5 DEF InitThrows, InitDone, Phases
  <2>. QED
    BY <1>1, <2>1 DEF IInv, TypeOK, RoomKept, FlagHeld, FiresOnce, NameHeld,
                      Entries, Crons, Timeouts, Asks
<1>6. CASE StopScheduler
  BY <1>1, <1>6, StopKeeps
<1>7. CASE Application
  <2>1. ASSUME NEW n \in OtherNames, Register(n) \/ ScheduleTimeout(n) PROVE IInv'
    BY <1>1, <1>2, <2>1, AddKeeps DEF Register, ScheduleTimeout, Names, Shape
  <2>2. ASSUME NEW n \in Names, Cancel(n) PROVE IInv'
    BY <1>1, <2>2, CancelKeeps
  <2>3. ASSUME NEW e \in Entries, CancelHandle(e) PROVE IInv'
    BY <1>1, <2>3, CancelHandleKeeps
  <2>. QED  BY <1>7, <2>1, <2>2, <2>3 DEF Application
<1>8. CASE \E e \in Entries : Callback(e)
  BY <1>1, <1>8, CallbackKeeps
<1>. QED
  BY <1>1, <1>3, <1>4, <1>5, <1>6, <1>7, <1>8 DEF Next, Bootstrap

LEMMA IInvAlways == Spec => []IInv
<1>1. ConfigAssumption
  BY ConfigAssumption
<1>. QED  BY <1>1, IInvInit, IInvStep, PTL DEF Spec

\* The variables keep their types: no more callbacks of a task than it has room
\* for, and the map holds entries that were made.
THEOREM TypesHold == Spec => []TypeOK
<1>1. IInv => TypeOK
  BY DEF IInv
<1>. QED  BY <1>1, IInvAlways, PTL

\* A job that does not wait for leaderCheck() never overlaps itself, whatever
\* the interleaving of ticks, failures and cancellations; and a flag that is
\* set has a run behind it, so no error keeps a job from its next tick.
THEOREM GuardHolds == Spec => []Guarded
<1>1. IInv => Guarded
  BY DEF IInv, FlagHeld, Guarded
<1>. QED  BY <1>1, IInvAlways, PTL

\* As long as nobody cancels a timeout whose function is running, whatever may
\* start by itself can be found under its name, and nothing outlives a stop.
THEOREM ArmedIsTracked == ~CancelRunning => (Spec => []Tracked)
<1>1. SUFFICES ASSUME ~CancelRunning PROVE Spec => []Tracked
  OBVIOUS
<1>2. IInv => Tracked
  BY <1>1 DEF IInv, NameHeld, Tracked
<1>. QED  BY <1>2, IInvAlways, PTL

=============================================================================
