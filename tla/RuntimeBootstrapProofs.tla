----------------------- MODULE RuntimeBootstrapProofs -----------------------
(***************************************************************************)
(* Proofs about RuntimeBootstrap and ControllerLoading, for every set of   *)
(* controllers and handlers and every number of callbacks and layers.      *)
(***************************************************************************)
EXTENDS RuntimeBootstrap, FiniteSetTheorems, SequenceTheorems, TLAPS

-----------------------------------------------------------------------------
(* Loading controllers.                                                    *)

\* A file is in one place at a time: to be looked at, awaited, mounted or
\* reported.
Placed ==
    /\ loading # NoFile => status = "loading" /\ loading \in Files \ todo
    /\ status = "idle" => mounted = <<>> /\ failed = {} /\ loading = NoFile
    /\ \A f \in todo \cup ({loading} \ {NoFile}) : f \notin MountedFiles \cup failed

\* The routers of the app name their controller in every route.
RoutersNamed ==
    \A i \in DOMAIN mounted : \A k \in DOMAIN mounted[i].routes :
        mounted[i].routes[k].controller = mounted[i].file

LoadInv ==
    /\ LoadTypeOK /\ Placed /\ RoutersNamed
    /\ TrueOfApp(table)
    /\ status = "done" => conflicts = Conflicts(table)

-----------------------------------------------------------------------------
(* Hooks, layers and what createServer() reads.                            *)

\* How far createServer() has come.
StepOf(p) ==
    CASE p = "created"           -> 1
      [] p = "INITIALIZE"        -> 2
      [] p = "STARTUP"           -> 3
      [] p = "scheduler"         -> 4
      [] p = "PRE_INIT"          -> 5
      [] p = "CUSTOM_MIDDLEWARE" -> 6
      [] p = "controllers"       -> 7
      [] p = "POST_INIT"         -> 8
      [] p = "ready"             -> 9
      [] OTHER                   -> 10

\* How many callbacks of each hook were called.
Counts == [h \in HookNames |-> Called(h)]

\* Callbacks were called in order, as many of a hook as are numbered, and only
\* of hooks that were reached; a hook that was left has had all of its own.
CallsInv ==
    /\ \A i, j \in DOMAIN called : i < j =>
         \/ StepOf(called[i][1]) < StepOf(called[j][1])
         \/ called[i][1] = called[j][1] /\ called[i][2] < called[j][2]
    /\ \A i \in DOMAIN called : /\ StepOf(called[i][1]) <= StepOf(phase)
                                /\ called[i][2] <= Counts[called[i][1]]
    /\ \A h \in HookNames : /\ Counts[h] <= hooks[h]
                            /\ ended[h] > 0 => Counts[h] = ended[h] /\ StepOf(h) < StepOf(phase)
    /\ running = {} \/ \E c \in running : running = {c} /\ c[1] = phase /\ phase \in HookNames

\* The last stage of the documented order that may be on the app in a phase.
StageOf(p) ==
    CASE p \in {"created", "INITIALIZE", "STARTUP", "scheduler", "PRE_INIT"} -> 1
      [] p = "CUSTOM_MIDDLEWARE" -> 3
      [] p = "controllers" -> 5
      [] p = "POST_INIT" -> 7
      [] OTHER -> 8

LayersInv ==
    /\ LayersInOrder
    /\ \A i \in DOMAIN stack : stack[i] # "late" => Stage(stack[i]) <= StageOf(phase)
    /\ timer # "unset" => phase = "ready"

\* What is published is the finished table.
PublishedInv ==
    /\ status = "loading" => phase = "controllers"
    /\ phase \in {"POST_INIT", "ready"} => status = "done"
    /\ published # {} => status = "done" /\ published = {table}

SecretsInv == provider # "broken" /\ sockets \in {Nothing, "usable"}

Calls == HookNames \X (1 .. MaxCallbacks)

HooksTyped ==
    /\ hooks \in [HookNames -> 0 .. MaxCallbacks] /\ ended \in [HookNames -> 0 .. MaxCallbacks]
    /\ called \in Seq(Calls)
    /\ running \subseteq {called[i] : i \in DOMAIN called}

HttpTyped ==
    /\ stack \in Seq(Layers)
    /\ config \in Config
    /\ provider \in Jwt \cup {Nothing} /\ sockets \in Jwt \cup {Nothing}
    /\ listens \in 0 .. MaxListens
    /\ published \subseteq Seq(Entry)
    /\ timer \in {"unset", "set", "fired"}

IInv ==
    /\ phase \in Phases /\ HooksTyped /\ HttpTyped /\ LoadInv
    /\ CallsInv /\ LayersInv /\ PublishedInv /\ SecretsInv

\* Elements and domain of a list.
LEMMA ListOf ==
    ASSUME NEW S, NEW s \in Seq(S)
    PROVE  /\ Len(s) \in Nat /\ DOMAIN s = 1 .. Len(s)
           /\ \A i \in DOMAIN s : s[i] \in S
BY LenProperties, ElementOfSeq

\* What s \o t holds, and where.
LEMMA Joined ==
    ASSUME NEW S, NEW s \in Seq(S), NEW t \in Seq(S)
    PROVE  /\ s \o t \in Seq(S)
           /\ Len(s \o t) = Len(s) + Len(t) /\ DOMAIN (s \o t) = 1 .. Len(s) + Len(t)
           /\ \A i \in DOMAIN s : i \in DOMAIN (s \o t) /\ (s \o t)[i] = s[i]
           /\ \A k \in DOMAIN t : Len(s) + k \in DOMAIN (s \o t) /\ (s \o t)[Len(s) + k] = t[k]
           /\ \A i \in DOMAIN (s \o t) : i \in DOMAIN s \/ \E k \in DOMAIN t : i = Len(s) + k
<1> DEFINE u == s \o t
<1>1. /\ u \in Seq(S)
      /\ Len(u) = Len(s) + Len(t)
      /\ \A i \in 1 .. Len(s) + Len(t) : u[i] = IF i <= Len(s) THEN s[i] ELSE t[i - Len(s)]
  BY ConcatProperties
<1> HIDE DEF u
<1>2. /\ Len(s) \in Nat /\ DOMAIN s = 1 .. Len(s)
      /\ Len(t) \in Nat /\ DOMAIN t = 1 .. Len(t)
  BY ListOf
<1>3. DOMAIN u = 1 .. Len(s) + Len(t)
  BY <1>1, ListOf
<1>4. \A i \in DOMAIN s : i \in DOMAIN u /\ u[i] = s[i]
  BY <1>1, <1>2, <1>3
<1>5. \A k \in DOMAIN t : Len(s) + k \in DOMAIN u /\ u[Len(s) + k] = t[k]
  <2> SUFFICES ASSUME NEW k \in DOMAIN t
               PROVE  Len(s) + k \in DOMAIN u /\ u[Len(s) + k] = t[k]
    OBVIOUS
  <2>1. Len(s) + k \in 1 .. Len(s) + Len(t) /\ ~(Len(s) + k <= Len(s)) /\ (Len(s) + k) - Len(s) = k
    BY <1>2
  <2>. QED  BY <1>1, <1>3, <2>1
<1>6. \A i \in DOMAIN u : i \in DOMAIN s \/ \E k \in DOMAIN t : i = Len(s) + k
  <2> SUFFICES ASSUME NEW i \in DOMAIN u, i \notin DOMAIN s
               PROVE  \E k \in DOMAIN t : i = Len(s) + k
    OBVIOUS
  <2>1. i - Len(s) \in DOMAIN t /\ i = Len(s) + (i - Len(s))
    BY <1>2, <1>3
  <2>. QED  BY <2>1
<1>. QED  BY <1>1, <1>3, <1>4, <1>5, <1>6 DEF u

\* The routes of a controller.
LEMMA RouterFacts ==
    ASSUME NEW f \in Files, NEW n \in 0 .. Len(Handlers[f])
    PROVE  /\ RouterOf(f, n) \in Seq(Entry)
           /\ Len(RouterOf(f, n)) = n
           /\ \A k \in DOMAIN RouterOf(f, n) : RouterOf(f, n)[k].controller = f
<1>1. /\ Len(Handlers[f]) \in Nat /\ DOMAIN Handlers[f] = 1 .. Len(Handlers[f])
      /\ n \in Nat /\ 1 .. n \subseteq DOMAIN Handlers[f]
  <2>1. Handlers[f] \in Seq(Handler)
    BY LoadingAssumption
  <2>2. Len(Handlers[f]) \in Nat /\ DOMAIN Handlers[f] = 1 .. Len(Handlers[f])
    BY <2>1, LenProperties
  <2>. QED  BY <2>2
<1>2. \A k \in 1 .. n : EntryOf(f, k) \in Entry /\ EntryOf(f, k).controller = f
  <2> SUFFICES ASSUME NEW k \in 1 .. n
               PROVE  EntryOf(f, k) \in Entry /\ EntryOf(f, k).controller = f
    OBVIOUS
  <2>1. Handlers[f][k] \in Handler
    <3>1. Handlers[f] \in Seq(Handler) /\ k \in DOMAIN Handlers[f]
      BY <1>1, LoadingAssumption
    <3>. QED  BY <3>1, ListOf
  <2>2. /\ Handlers[f][k].method \in STRING /\ Handlers[f][k].path \in STRING
        /\ Handlers[f][k].fullPath \in STRING
    BY <2>1 DEF Handler
  <2>3. SecurityMode(Handlers[f][k].secure) \in {"none", "basic", "jwt"}
    BY DEF SecurityMode
  <2>. QED  BY <2>2, <2>3 DEF EntryOf, Entry
<1>3. RouterOf(f, n) \in [1 .. n -> Entry]
  BY <1>2 DEF RouterOf
<1>4. RouterOf(f, n) \in Seq(Entry)
  BY <1>1, <1>3 DEF Seq
<1>5. DOMAIN RouterOf(f, n) = 1 .. n /\ \A k \in 1 .. n : RouterOf(f, n)[k] = EntryOf(f, k)
  BY DEF RouterOf
<1>6. Len(RouterOf(f, n)) = n
  BY <1>1, <1>4, <1>5, ListOf
<1>. QED  BY <1>2, <1>4, <1>5, <1>6

\* A block of routes of f behind a list: other controllers' routes stand
\* where they did, and f's stand there if the list had none of f before.
Extended(list, f, block) ==
    /\ list \o block \in Seq(Entry)
    /\ \A g, routes : g # f /\ StandIn(list, g, routes) => StandIn(list \o block, g, routes)
    /\ (\A i \in DOMAIN list : list[i].controller # f) => StandIn(list \o block, f, block)
    /\ \A i \in DOMAIN (list \o block) :
          \/ (list \o block)[i].controller = f
          \/ \E j \in DOMAIN list : (list \o block)[i] = list[j]

LEMMA BlockBehind ==
    ASSUME NEW list \in Seq(Entry), NEW f, NEW block \in Seq(Entry),
           \A k \in DOMAIN block : block[k].controller = f
    PROVE  Extended(list, f, block)
<1> DEFINE new == list \o block
<1>1. /\ new \in Seq(Entry)
      /\ Len(new) = Len(list) + Len(block) /\ DOMAIN new = 1 .. Len(list) + Len(block)
      /\ \A i \in DOMAIN list : i \in DOMAIN new /\ new[i] = list[i]
      /\ \A k \in DOMAIN block : Len(list) + k \in DOMAIN new /\ new[Len(list) + k] = block[k]
      /\ \A i \in DOMAIN new : i \in DOMAIN list \/ \E k \in DOMAIN block : i = Len(list) + k
  BY Joined
<1> HIDE DEF new
<1>2. Len(list) \in Nat /\ Len(block) \in Nat
  BY ListOf
<1>3. 0 .. Len(list) \subseteq 0 .. Len(new) /\ Len(list) \in 0 .. Len(new)
  BY <1>1, <1>2
<1>4. \A i \in DOMAIN new : new[i].controller = f \/ (i \in DOMAIN list /\ new[i] = list[i])
  BY <1>1
<1>5. ASSUME NEW g, NEW routes, g # f, StandIn(list, g, routes) PROVE StandIn(new, g, routes)
  <2>1. PICK n \in 0 .. Len(list) :
          /\ \A k \in DOMAIN routes : n + k \in DOMAIN list /\ list[n + k] = routes[k]
          /\ \A i \in DOMAIN list : list[i].controller = g => \E k \in DOMAIN routes : i = n + k
    BY <1>5 DEF StandIn
  <2>2. \A k \in DOMAIN routes : n + k \in DOMAIN new /\ new[n + k] = routes[k]
    BY <1>1, <2>1
  <2>3. \A i \in DOMAIN new : new[i].controller = g => \E k \in DOMAIN routes : i = n + k
    BY <1>4, <1>5, <2>1
  <2>. QED  BY <1>3, <2>2, <2>3 DEF StandIn
<1>6. ASSUME \A i \in DOMAIN list : list[i].controller # f PROVE StandIn(new, f, block)
  <2>1. \A i \in DOMAIN new : new[i].controller = f => \E k \in DOMAIN block : i = Len(list) + k
    BY <1>1, <1>6
  <2>. QED  BY <1>1, <1>3, <2>1 DEF StandIn
<1>. QED  BY <1>1, <1>4, <1>5, <1>6 DEF new, Extended

\* What LoadInv says of the routers on the app and the list of routes t.
RoutersOK(t) ==
    /\ mounted \in Seq(Router)
    /\ \A i, j \in DOMAIN mounted : mounted[i].file = mounted[j].file => i = j
    /\ \A i \in DOMAIN mounted : mounted[i].file \notin failed
    /\ RoutersNamed
    /\ \A i \in DOMAIN mounted : StandIn(t, mounted[i].file, mounted[i].routes)

\* Mounting one more router, of a controller that was on none.
LEMMA MountOK ==
    ASSUME NEW t, RoutersOK(t), NEW f \in Files, f \notin MountedFiles \cup failed,
           NEW routes \in Seq(Entry), Mount(f, routes),
           \A k \in DOMAIN routes : routes[k].controller = f,
           StandIn(t, f, routes)
    PROVE  /\ mounted' \in Seq(Router)
           /\ \A i, j \in DOMAIN mounted' : mounted'[i].file = mounted'[j].file => i = j
           /\ \A i \in DOMAIN mounted' : mounted'[i].file \notin failed'
           /\ RoutersNamed'
           /\ \A i \in DOMAIN mounted' : StandIn(t, mounted'[i].file, mounted'[i].routes)
           /\ MountedFiles' = MountedFiles \cup {f}
           /\ failed' = failed
<1>1. PICK r \in Router : r = [file |-> f, routes |-> routes]
  BY DEF Router
<1>2. mounted' = Append(mounted, r) /\ failed' = failed /\ r.file = f /\ r.routes = routes
  BY <1>1 DEF Mount
<1>3. mounted \in Seq(Router)
  BY DEF RoutersOK
<1>4. /\ mounted' \in Seq(Router) /\ Len(mounted') = Len(mounted) + 1
      /\ \A i \in 1 .. Len(mounted) : mounted'[i] = mounted[i]
      /\ mounted'[Len(mounted) + 1] = r
  BY <1>2, <1>3, AppendProperties
<1>5. /\ Len(mounted) \in Nat /\ DOMAIN mounted = 1 .. Len(mounted)
      /\ DOMAIN mounted' = 1 .. Len(mounted')
  BY <1>3, <1>4, ListOf
<1>6. \A i \in DOMAIN mounted' :
         \/ i \in DOMAIN mounted /\ mounted'[i] = mounted[i]
         \/ i = Len(mounted) + 1 /\ mounted'[i] = r
  BY <1>4, <1>5
<1>7. \A i \in DOMAIN mounted : i \in DOMAIN mounted' /\ mounted'[i] = mounted[i] /\ mounted[i].file # f
  BY <1>4, <1>5 DEF MountedFiles
<1>8. MountedFiles' = MountedFiles \cup {f}
  <2>1. Len(mounted) + 1 \in DOMAIN mounted'
    BY <1>4, <1>5
  <2>. QED  BY <1>2, <1>4, <1>6, <1>7, <2>1 DEF MountedFiles
<1>9. \A i, j \in DOMAIN mounted' : mounted'[i].file = mounted'[j].file => i = j
  BY <1>2, <1>6, <1>7 DEF RoutersOK
<1>10. \A i \in DOMAIN mounted' : mounted'[i].file \notin failed'
  BY <1>2, <1>6 DEF RoutersOK
<1>11. RoutersNamed'
  BY <1>2, <1>6 DEF RoutersOK, RoutersNamed
<1>12. \A i \in DOMAIN mounted' : StandIn(t, mounted'[i].file, mounted'[i].routes)
  BY <1>2, <1>6 DEF RoutersOK
<1>. QED  BY <1>2, <1>4, <1>8, <1>9, <1>10, <1>11, <1>12

LEMMA HandlersKeep ==
    ASSUME LoadInv, NEW f \in Files, LoadHandlers(f) PROVE LoadInv'
<1>1. PICK n \in 0 .. Len(Handlers[f]) :
        /\ table' = table \o RouterOf(f, n)
        /\ \/ n = Len(Handlers[f]) /\ Mount(f, RouterOf(f, n))
           \/ Report(f)
  BY DEF LoadHandlers
<1>2. PICK block : block = RouterOf(f, n)
  OBVIOUS
<1>3. PICK new : new = table'
  OBVIOUS
<1>4. block \in Seq(Entry) /\ \A k \in DOMAIN block : block[k].controller = f
  BY <1>2, RouterFacts
<1>5. /\ Take(f) /\ UNCHANGED <<loading, conflicts, status>>
      /\ f \notin MountedFiles \cup failed /\ f # NoFile
      /\ \A i \in DOMAIN table : table[i].controller # f
  BY LoadingAssumption DEF LoadHandlers, LoadInv, Placed, TrueOfApp, Take
<1>6. table \in Seq(Entry) /\ new = table \o block
  BY <1>1, <1>2, <1>3 DEF LoadInv, LoadTypeOK
<1>7. /\ new \in Seq(Entry)
      /\ \A g, routes : g # f /\ StandIn(table, g, routes) => StandIn(new, g, routes)
      /\ StandIn(new, f, block)
      /\ \A i \in DOMAIN new : new[i].controller = f \/ \E j \in DOMAIN table : new[i] = table[j]
  <2>0. table \in Seq(Entry)
    BY DEF LoadInv, LoadTypeOK
  <2>1. Extended(table, f, block)
    BY <1>4, <2>0, BlockBehind
  <2>. QED  BY <1>5, <1>6, <2>1 DEF Extended
<1>8. RoutersOK(new)
  <2>1. \A i \in DOMAIN mounted : mounted[i].file # f
    BY <1>5 DEF MountedFiles
  <2>. QED  BY <1>7, <2>1 DEF LoadInv, LoadTypeOK, TrueOfApp, RoutersOK
<1>9. /\ mounted' \in Seq(Router)
      /\ \A i, j \in DOMAIN mounted' : mounted'[i].file = mounted'[j].file => i = j
      /\ \A i \in DOMAIN mounted' : mounted'[i].file \notin failed'
      /\ RoutersNamed'
      /\ \A i \in DOMAIN mounted' : StandIn(new, mounted'[i].file, mounted'[i].routes)
      /\ MountedFiles' \cup failed' = MountedFiles \cup failed \cup {f}
      /\ failed' \subseteq failed \cup {f}
  <2>1. CASE Mount(f, block)
    BY <1>4, <1>5, <1>7, <1>8, <2>1, MountOK
  <2>2. CASE Report(f)
    BY <1>5, <1>8, <2>2 DEF Report, RoutersOK, RoutersNamed, MountedFiles
  <2>. QED  BY <1>1, <1>2, <2>1, <2>2
<1>10. LoadTypeOK'
  BY <1>3, <1>5, <1>7, <1>9 DEF LoadInv, LoadTypeOK, Take
<1>11. Placed'
  BY <1>5, <1>9 DEF LoadInv, Placed, Take
<1>12. TrueOfApp(table)'
  <2>1. \A i \in DOMAIN new : new[i].controller \in MountedFiles \cup failed \cup {f}
    BY <1>7 DEF LoadInv, TrueOfApp
  <2>. QED  BY <1>3, <1>9, <2>1 DEF TrueOfApp
<1>13. status' # "done"
  BY <1>5 DEF Take
<1>. QED  BY <1>9, <1>10, <1>11, <1>12, <1>13 DEF LoadInv

LEMMA ReportedKeep ==
    ASSUME LoadInv, NEW f \in Files, f \notin MountedFiles \cup failed,
           Report(f), todo' \subseteq todo \ {f}, loading' = NoFile,
           UNCHANGED <<table, conflicts, status>>, status = "loading"
    PROVE  LoadInv'
<1>1. failed' = failed \cup {f} /\ UNCHANGED <<mounted, MountedFiles>>
  BY DEF Report, MountedFiles
<1>2. LoadTypeOK'
  BY <1>1 DEF LoadInv, LoadTypeOK, MountedFiles
<1>3. Placed' /\ RoutersNamed'
  BY <1>1 DEF LoadInv, Placed, RoutersNamed
<1>4. TrueOfApp(table)'
  BY <1>1 DEF LoadInv, TrueOfApp
<1>. QED  BY <1>2, <1>3, <1>4 DEF LoadInv

LEMMA InitKeeps ==
    ASSUME LoadInv, NEW ok \in BOOLEAN, InitSettles(ok) PROVE LoadInv'
<1>1. /\ loading \in Files /\ loading \notin MountedFiles \cup failed /\ loading # NoFile
      /\ loading \notin todo /\ status = "loading"
      /\ \A i \in DOMAIN table : table[i].controller # loading
  BY DEF InitSettles, LoadInv, Placed, TrueOfApp
<1>2. loading' = NoFile /\ UNCHANGED <<todo, table, conflicts, status>>
  BY DEF InitSettles
<1>3. CASE ~ok
  BY <1>1, <1>2, <1>3, ReportedKeep DEF InitSettles
<1>4. CASE ok
  <2>1. PICK none \in Seq(Entry) : none = <<>> /\ DOMAIN none = {}
    <3>1. <<>> \in Seq(Entry) /\ DOMAIN <<>> = {}
      BY EmptySeq
    <3>. QED  BY <3>1
  <2>2. Mount(loading, none)
    BY <1>4, <2>1 DEF InitSettles
  <2>3. StandIn(table, loading, none)
    <3>1. 0 \in 0 .. Len(table)
      BY ListOf DEF LoadInv, LoadTypeOK
    <3>. QED  BY <1>1, <2>1, <3>1 DEF StandIn
  <2>4. RoutersOK(table)
    BY DEF LoadInv, LoadTypeOK, TrueOfApp, RoutersOK
  <2>5. /\ mounted' \in Seq(Router)
        /\ \A i, j \in DOMAIN mounted' : mounted'[i].file = mounted'[j].file => i = j
        /\ \A i \in DOMAIN mounted' : mounted'[i].file \notin failed'
        /\ RoutersNamed'
        /\ \A i \in DOMAIN mounted' : StandIn(table, mounted'[i].file, mounted'[i].routes)
        /\ MountedFiles' = MountedFiles \cup {loading}
        /\ failed' = failed
    BY <1>1, <2>1, <2>2, <2>3, <2>4, MountOK
  <2>6. LoadTypeOK'
    BY <1>2, <2>5 DEF LoadInv, LoadTypeOK
  <2>7. Placed'
    BY <1>1, <1>2, <2>5 DEF LoadInv, Placed
  <2>8. TrueOfApp(table)'
    BY <1>2, <2>5 DEF LoadInv, TrueOfApp
  <2>. QED  BY <1>1, <1>2, <2>5, <2>6, <2>7, <2>8 DEF LoadInv
<1>. QED  BY <1>3, <1>4

LEMMA LoadStarts == LoadInit => LoadInv
<1> SUFFICES ASSUME LoadInit PROVE LoadInv
  OBVIOUS
<1>1. /\ table \in Seq(Entry) /\ mounted \in Seq(Router)
      /\ DOMAIN table = {} /\ DOMAIN mounted = {}
  BY EmptySeq DEF LoadInit
<1>. QED
  BY <1>1 DEF LoadInit, LoadInv, LoadTypeOK, Placed, RoutersNamed, TrueOfApp, MountedFiles

LEMMA ConflictsAreKeys ==
    ASSUME NEW t \in Seq(Entry) PROVE Conflicts(t) \subseteq STRING \X STRING
<1>1. \A i \in DOMAIN t : t[i] \in Entry
  BY ListOf
<1>. QED  BY <1>1 DEF Conflicts, Entry, Key

\* Every step of load() keeps the table true of the app.
LEMMA LoadKeeps ==
    ASSUME LoadInv, Load PROVE LoadInv'
<1>1. ASSUME NEW ok \in BOOLEAN, ReadDir(ok) PROVE LoadInv'
  <2>1. /\ status = "idle" /\ status' \in {"loading", "failed"} /\ todo' \subseteq Files
        /\ UNCHANGED <<loading, failed, table, mounted, conflicts, MountedFiles>>
    BY <1>1 DEF ReadDir, MountedFiles
  <2>2. MountedFiles = {} /\ failed = {} /\ loading = NoFile
    BY <2>1 DEF LoadInv, Placed, MountedFiles
  <2>. QED
    BY <2>1, <2>2 DEF LoadInv, LoadTypeOK, Placed, RoutersNamed, TrueOfApp
<1>2. ASSUME NEW f \in Files, LoadNothing(f) PROVE LoadInv'
  <2>1. /\ f \notin MountedFiles \cup failed /\ status = "loading"
        /\ todo' \subseteq todo \ {f} /\ loading' = NoFile
        /\ Report(f) /\ UNCHANGED <<table, conflicts, status>>
    BY <1>2 DEF LoadNothing, Take, LoadInv, Placed
  <2>. QED  BY <2>1, ReportedKeep
<1>3. ASSUME NEW f \in Files, CallInit(f) PROVE LoadInv'
  <2>1. /\ status = "loading" /\ f \in todo /\ todo' = todo \ {f} /\ loading' = f
        /\ UNCHANGED <<failed, table, mounted, conflicts, status, MountedFiles>>
    BY <1>3 DEF CallInit, Take, MountedFiles
  <2>. QED
    BY <2>1 DEF LoadInv, LoadTypeOK, Placed, RoutersNamed, TrueOfApp
<1>4. CASE Finalize
  <2>1. /\ UNCHANGED <<todo, loading, failed, table, mounted, MountedFiles>>
        /\ conflicts' = Conflicts(table) /\ status' = "done" /\ loading = NoFile
    BY <1>4 DEF Finalize, MountedFiles
  <2>2. conflicts' \subseteq STRING \X STRING
    BY <2>1, ConflictsAreKeys DEF LoadInv, LoadTypeOK
  <2>. QED
    BY <2>1, <2>2 DEF LoadInv, LoadTypeOK, Placed, RoutersNamed, TrueOfApp
<1>. QED
  BY <1>1, <1>2, <1>3, <1>4, HandlersKeep, InitKeeps DEF Load

LEMMA LoadUnchanged == LoadInv /\ UNCHANGED loaderVars => LoadInv'
BY DEF loaderVars, LoadInv, LoadTypeOK, Placed, RoutersNamed, TrueOfApp, MountedFiles

\* A route with the key of another file's route is one of the table's conflicts.
LEMMA RepeatIsConflict == LoadInv => ConflictsCounted
<1> SUFFICES ASSUME LoadInv, status = "done",
                    NEW i \in DOMAIN mounted, NEW j \in DOMAIN mounted, i # j,
                    NEW k \in DOMAIN mounted[i].routes, NEW l \in DOMAIN mounted[j].routes,
                    Key(mounted[i].routes[k]) = Key(mounted[j].routes[l])
             PROVE  Key(mounted[i].routes[k]) \in conflicts
  BY DEF ConflictsCounted
<1>1. /\ StandIn(table, mounted[i].file, mounted[i].routes)
      /\ StandIn(table, mounted[j].file, mounted[j].routes)
      /\ conflicts = Conflicts(table)
  BY DEF LoadInv, TrueOfApp
<1>2. PICK p \in DOMAIN table : table[p] = mounted[i].routes[k]
  BY <1>1 DEF StandIn
<1>3. PICK q \in DOMAIN table : table[q] = mounted[j].routes[l]
  BY <1>1 DEF StandIn
<1>4. p # q
  <2>1. mounted[i].routes[k].controller # mounted[j].routes[l].controller
    BY DEF LoadInv, LoadTypeOK, RoutersNamed
  <2>. QED  BY <1>2, <1>3, <2>1
<1>. QED  BY <1>1, <1>2, <1>3, <1>4 DEF Conflicts

-----------------------------------------------------------------------------
(* Hooks.                                                                  *)

LEMMA HookNamesAre ==
    HookNames = {"INITIALIZE", "STARTUP", "PRE_INIT", "CUSTOM_MIDDLEWARE", "POST_INIT"}
<1>1. DOMAIN Hooks = 1 .. 5
  BY DEF Hooks
<1>2. /\ Hooks[1] = "INITIALIZE" /\ Hooks[2] = "STARTUP" /\ Hooks[3] = "PRE_INIT"
      /\ Hooks[4] = "CUSTOM_MIDDLEWARE" /\ Hooks[5] = "POST_INIT"
  BY DEF Hooks
<1>3. \A h \in 1 .. 5 : h = 1 \/ h = 2 \/ h = 3 \/ h = 4 \/ h = 5
  OBVIOUS
<1>4. 1 \in 1 .. 5 /\ 2 \in 1 .. 5 /\ 3 \in 1 .. 5 /\ 4 \in 1 .. 5 /\ 5 \in 1 .. 5
  OBVIOUS
<1>. QED  BY <1>1, <1>2, <1>3, <1>4 DEF HookNames

\* The hooks come in the order of the steps of createServer().
LEMMA HookOrder ==
    ASSUME NEW a \in HookNames, NEW b \in HookNames, StepOf(a) < StepOf(b)
    PROVE  Order(a) < Order(b)
<1>1. DOMAIN Hooks = 1 .. 5
  BY DEF Hooks
<1>2. /\ Hooks[1] = "INITIALIZE" /\ Hooks[2] = "STARTUP" /\ Hooks[3] = "PRE_INIT"
      /\ Hooks[4] = "CUSTOM_MIDDLEWARE" /\ Hooks[5] = "POST_INIT"
  BY DEF Hooks
<1>3. \A h \in 1 .. 5 : h = 1 \/ h = 2 \/ h = 3 \/ h = 4 \/ h = 5
  OBVIOUS
<1>4. 1 \in 1 .. 5 /\ 2 \in 1 .. 5 /\ 3 \in 1 .. 5 /\ 4 \in 1 .. 5 /\ 5 \in 1 .. 5
  OBVIOUS
<1>5. ASSUME NEW n \in 1 .. 5, NEW x, Hooks[n] = x, \A m \in 1 .. 5 : Hooks[m] = x => m = n
      PROVE  Order(x) = n
  BY <1>1, <1>5 DEF Order
<1>6. /\ Order("INITIALIZE") = 1 /\ Order("STARTUP") = 2 /\ Order("PRE_INIT") = 3
      /\ Order("CUSTOM_MIDDLEWARE") = 4 /\ Order("POST_INIT") = 5
  BY <1>2, <1>3, <1>4, <1>5
<1>. QED  BY <1>6, HookNamesAre DEF StepOf

LEMMA StepsDiffer ==
    /\ \A p : StepOf(p) \in Nat
    /\ \A a, b \in HookNames : StepOf(a) = StepOf(b) => a = b
<1>1. \A p : StepOf(p) \in Nat
  BY DEF StepOf
<1>2. /\ StepOf("INITIALIZE") = 2 /\ StepOf("STARTUP") = 3 /\ StepOf("PRE_INIT") = 5
      /\ StepOf("CUSTOM_MIDDLEWARE") = 6 /\ StepOf("POST_INIT") = 8
  BY DEF StepOf
<1>3. \A a, b \in HookNames : StepOf(a) = StepOf(b) => a = b
  BY <1>2, HookNamesAre
<1>. QED  BY <1>1, <1>3

\* The calls of the callbacks of a hook can be counted.
LEMMA CalledFacts ==
    ASSUME HooksTyped, NEW h
    PROVE  IsFiniteSet({i \in DOMAIN called : called[i][1] = h}) /\ Called(h) \in Nat
<1>1. Len(called) \in Nat /\ DOMAIN called = 1 .. Len(called)
  BY ListOf DEF HooksTyped
<1>2. IsFiniteSet(DOMAIN called)
  BY <1>1, FS_Interval
<1>. QED  BY <1>2, FS_Subset, FS_CardinalityType DEF Called

\* Callback c is called.
LEMMA CalledNext ==
    ASSUME HooksTyped, NEW c \in Calls, called' = Append(called, c)
    PROVE  /\ called' \in Seq(Calls)
           /\ \A i \in DOMAIN called : i \in DOMAIN called' /\ called'[i] = called[i] /\ i < Len(called) + 1
           /\ \A i \in DOMAIN called' : i \in DOMAIN called \/ i = Len(called) + 1
           /\ Len(called) + 1 \in DOMAIN called' /\ called'[Len(called) + 1] = c
           /\ Counts' = [Counts EXCEPT ![c[1]] = Counts[c[1]] + 1]
<1> DEFINE n == Len(called) + 1
           S(h) == {i \in DOMAIN called : called[i][1] = h}
<1>1. called \in Seq(Calls)
  BY DEF HooksTyped
<1>2. /\ called' \in Seq(Calls) /\ Len(called') = n
      /\ \A i \in 1 .. Len(called) : called'[i] = called[i]
      /\ called'[n] = c
  BY <1>1, AppendProperties
<1>3. Len(called) \in Nat /\ DOMAIN called = 1 .. Len(called) /\ DOMAIN called' = 1 .. n
  BY <1>1, <1>2, ListOf
<1>4. /\ \A i \in DOMAIN called : i \in DOMAIN called' /\ called'[i] = called[i] /\ i < n
      /\ \A i \in DOMAIN called' : i \in DOMAIN called \/ i = n
      /\ n \in DOMAIN called' /\ n \notin DOMAIN called
  BY <1>2, <1>3
<1>5. S(c[1])' = S(c[1]) \cup {n} /\ n \notin S(c[1])
  BY <1>2, <1>4
<1>6. \A h : h # c[1] => S(h)' = S(h)
  BY <1>2, <1>4
<1>7. IsFiniteSet(S(c[1])) /\ Called(c[1]) = Cardinality(S(c[1])) /\ Called(c[1])' = Cardinality(S(c[1])')
  BY CalledFacts DEF Called
<1>8. Called(c[1])' = Called(c[1]) + 1
  <2>1. PICK T : T = S(c[1])
    OBVIOUS
  <2>2. IsFiniteSet(T) /\ n \notin T
    BY <1>5, <1>7, <2>1
  <2>3. Cardinality(T \cup {n}) = Cardinality(T) + 1
    BY <2>2, FS_AddElement
  <2>. QED  BY <1>5, <1>7, <2>1, <2>3
<1>9. \A h : h # c[1] => Called(h)' = Called(h)
  BY <1>6 DEF Called
<1>10. Counts' = [Counts EXCEPT ![c[1]] = Counts[c[1]] + 1]
  <2>1. c[1] \in HookNames
    BY DEF Calls
  <2>. QED  BY <1>8, <1>9, <2>1 DEF Counts
<1>. QED  BY <1>2, <1>4, <1>10

LEMMA CountsFacts ==
    ASSUME HooksTyped
    PROVE  /\ Counts \in [HookNames -> Nat]
           /\ \A h \in HookNames : Called(h) = Counts[h]
BY CalledFacts DEF Counts

LEMMA CountsKept == UNCHANGED called => UNCHANGED Counts
BY DEF Counts, Called

\* No hook has more callbacks than there are at all.
LEMMA RoomToRegister ==
    ASSUME HooksTyped, NEW h \in HookNames, Cardinality(Registered) < MaxCallbacks
    PROVE  hooks[h] < MaxCallbacks
<1>1. MaxCallbacks \in Nat /\ hooks[h] \in 0 .. MaxCallbacks
  BY BootstrapAssumption DEF HooksTyped
<1> SUFFICES ASSUME hooks[h] = MaxCallbacks PROVE FALSE
  BY <1>1
<1> DEFINE f == [k \in 1 .. MaxCallbacks |-> <<h, k>>]
<1>2. IsFiniteSet(Registered)
  <2>1. IsFiniteSet(HookNames)
    <3>1. IsFiniteSet({"INITIALIZE"} \cup {"STARTUP"})
      BY FS_Singleton, FS_AddElement
    <3>2. IsFiniteSet({"INITIALIZE", "STARTUP"} \cup {"PRE_INIT"})
      BY <3>1, FS_AddElement
    <3>3. IsFiniteSet({"INITIALIZE", "STARTUP", "PRE_INIT"} \cup {"CUSTOM_MIDDLEWARE"})
      BY <3>2, FS_AddElement
    <3>4. IsFiniteSet({"INITIALIZE", "STARTUP", "PRE_INIT", "CUSTOM_MIDDLEWARE"} \cup {"POST_INIT"})
      BY <3>3, FS_AddElement
    <3>. QED  BY <3>4, HookNamesAre
  <2>2. IsFiniteSet(1 .. MaxCallbacks)
    BY <1>1, FS_Interval
  <2>3. IsFiniteSet(HookNames \X (1 .. MaxCallbacks))
    BY <2>1, <2>2, FS_Product
  <2>. QED  BY <2>3, FS_Subset DEF Registered
<1>3. f \in Injection(1 .. MaxCallbacks, Registered)
  BY <1>1 DEF Injection, IsInjective, Registered
<1>4. /\ IsFiniteSet(1 .. MaxCallbacks)
      /\ Cardinality(1 .. MaxCallbacks) <= Cardinality(Registered)
  BY <1>2, <1>3, FS_Injection
<1>5. Cardinality(1 .. MaxCallbacks) = MaxCallbacks
  BY <1>1, FS_Interval
<1>6. Cardinality(Registered) \in Nat
  BY <1>2, FS_CardinalityType
<1>. QED  BY <1>1, <1>4, <1>5, <1>6

\* A step that touches no callback, and goes on only when none runs.
LEMMA CallsKept ==
    ASSUME HooksTyped, CallsInv, UNCHANGED hookVars,
           StepOf(phase) <= StepOf(phase'), phase' = phase \/ running = {}
    PROVE  HooksTyped' /\ CallsInv'
<1>1. UNCHANGED <<hooks, called, running, ended>> /\ Counts' = Counts
  BY CountsKept DEF hookVars
<1>2. HooksTyped'
  BY <1>1 DEF HooksTyped
<1>3. ASSUME NEW p, StepOf(p) <= StepOf(phase) PROVE StepOf(p) <= StepOf(phase')
  BY <1>3, StepsDiffer
<1>4. ASSUME NEW p, StepOf(p) < StepOf(phase) PROVE StepOf(p) < StepOf(phase')
  BY <1>4, StepsDiffer
<1>5. CallsInv'
  BY <1>1, <1>3, <1>4 DEF CallsInv
<1>. QED  BY <1>2, <1>5

\* The emission of a hook ends.
LEMMA EmittedKeeps ==
    ASSUME HooksTyped, CallsInv, NEW hook \in HookNames, Emitted(hook),
           StepOf(hook) < StepOf(phase')
    PROVE  HooksTyped' /\ CallsInv'
<1>1. /\ UNCHANGED <<hooks, called, running>> /\ Counts' = Counts
      /\ running = {} /\ phase = hook
      /\ Counts[hook] >= hooks[hook] /\ ended' = [ended EXCEPT ![hook] = hooks[hook]]
  BY CountsKept, CountsFacts DEF Emitted, Awaited
<1>2. HooksTyped'
  BY <1>1 DEF HooksTyped
<1>3. Counts[hook] = hooks[hook]
  BY <1>1, CountsFacts DEF CallsInv, HooksTyped
<1>4. ASSUME NEW p, StepOf(p) <= StepOf(phase) PROVE StepOf(p) <= StepOf(phase')
  BY <1>1, <1>4, StepsDiffer
<1>5. ASSUME NEW p, StepOf(p) < StepOf(phase) PROVE StepOf(p) < StepOf(phase')
  BY <1>1, <1>5, StepsDiffer
<1>6. \A h \in HookNames : ended'[h] > 0 => Counts[h] = ended'[h] /\ StepOf(h) < StepOf(phase')
  BY <1>1, <1>3, <1>5 DEF CallsInv, HooksTyped
<1>7. CallsInv'
  BY <1>1, <1>4, <1>6 DEF CallsInv
<1>. QED  BY <1>2, <1>7

LEMMA RegisterKeeps ==
    ASSUME HooksTyped, CallsInv, NEW hook \in HookNames, Register(hook)
    PROVE  HooksTyped' /\ CallsInv'
<1>1. /\ UNCHANGED <<phase, called, running, ended>> /\ Counts' = Counts
      /\ hooks' = [hooks EXCEPT ![hook] = hooks[hook] + 1]
      /\ hooks[hook] < MaxCallbacks /\ MaxCallbacks \in Nat
  BY CountsKept, RoomToRegister, BootstrapAssumption DEF Register
<1>2. HooksTyped'
  BY <1>1 DEF HooksTyped
<1>3. \A h \in HookNames : Counts[h] <= hooks'[h]
  <2>1. \A h \in HookNames : Counts[h] <= hooks[h] /\ hooks[h] <= hooks'[h]
    BY <1>1 DEF CallsInv, HooksTyped
  <2>. QED  BY <1>1, <1>2, <2>1, CountsFacts DEF HooksTyped
<1>4. CallsInv'
  BY <1>1, <1>3 DEF CallsInv
<1>. QED  BY <1>2, <1>4

LEMMA CallNextKeeps ==
    ASSUME HooksTyped, CallsInv, CallNext PROVE HooksTyped' /\ CallsInv'
<1> DEFINE n == Len(called) + 1
<1>1. PICK c : c = <<phase, Counts[phase] + 1>>
  OBVIOUS
<1>2. /\ phase \in HookNames /\ running = {} /\ Counts[phase] < hooks[phase]
      /\ called' = Append(called, c) /\ running' = {c}
      /\ UNCHANGED <<phase, hooks, ended>>
      /\ c[1] = phase /\ c[2] = Counts[phase] + 1
  BY <1>1, CountsFacts DEF CallNext, Awaited
<1>3. Counts \in [HookNames -> Nat] /\ Counts[phase] \in Nat /\ hooks[phase] \in 0 .. MaxCallbacks /\ MaxCallbacks \in Nat
  BY <1>2, CountsFacts, BootstrapAssumption DEF HooksTyped
<1>4. c \in Calls
  BY <1>1, <1>2, <1>3 DEF Calls
<1>5. /\ called' \in Seq(Calls)
      /\ \A i \in DOMAIN called : i \in DOMAIN called' /\ called'[i] = called[i] /\ i < n
      /\ \A i \in DOMAIN called' : i \in DOMAIN called \/ i = n
      /\ n \in DOMAIN called' /\ called'[n] = c
      /\ Counts' = [Counts EXCEPT ![c[1]] = Counts[c[1]] + 1]
  BY <1>2, <1>4, CalledNext
<1>6. /\ Counts'[phase] = Counts[phase] + 1
      /\ \A h \in HookNames : h # phase => Counts'[h] = Counts[h]
  BY <1>2, <1>3, <1>5
<1>7. HooksTyped'
  <2>1. c \in {called'[i] : i \in DOMAIN called'}
    BY <1>5
  <2>. QED  BY <1>2, <1>5, <2>1 DEF HooksTyped
<1>8. /\ Len(called) \in Nat /\ \A i \in DOMAIN called : i \in Nat /\ called[i] \in Calls
  BY ListOf DEF HooksTyped
<1>9. \A i, j \in DOMAIN called' : i < j =>
         \/ StepOf(called'[i][1]) < StepOf(called'[j][1])
         \/ called'[i][1] = called'[j][1] /\ called'[i][2] < called'[j][2]
  <2> SUFFICES ASSUME NEW i \in DOMAIN called', NEW j \in DOMAIN called', i < j
               PROVE  \/ StepOf(called'[i][1]) < StepOf(called'[j][1])
                      \/ called'[i][1] = called'[j][1] /\ called'[i][2] < called'[j][2]
    OBVIOUS
  <2>1. i \in DOMAIN called /\ called'[i] = called[i]
    BY <1>5, <1>8
  <2>2. CASE j \in DOMAIN called
    BY <1>5, <2>1, <2>2 DEF CallsInv
  <2>3. CASE j = n
    <3>1. StepOf(called[i][1]) <= StepOf(phase) /\ called[i][2] <= Counts[called[i][1]]
      BY <2>1 DEF CallsInv
    <3>2. called[i][1] \in HookNames /\ called[i][2] \in Nat
      BY <1>8, <2>1 DEF Calls
    <3>3. StepOf(called[i][1]) < StepOf(phase) \/ called[i][1] = phase
      BY <1>2, <3>1, <3>2, StepsDiffer
    <3>4. called[i][1] = phase => called[i][2] < Counts[phase] + 1
      BY <1>3, <3>1, <3>2
    <3>. QED  BY <1>2, <1>5, <2>1, <2>3, <3>3, <3>4
  <2>. QED  BY <1>5, <2>2, <2>3
<1>10. \A i \in DOMAIN called' : /\ StepOf(called'[i][1]) <= StepOf(phase)
                                 /\ called'[i][2] <= Counts'[called'[i][1]]
  <2> SUFFICES ASSUME NEW i \in DOMAIN called', NEW k, k = called'[i]
               PROVE  StepOf(k[1]) <= StepOf(phase) /\ k[2] <= Counts'[k[1]]
    OBVIOUS
  <2>1. CASE i \in DOMAIN called
    <3>1. k = called[i] /\ k[1] \in HookNames /\ k[2] \in Nat
      BY <1>5, <1>8, <2>1 DEF Calls
    <3>2. StepOf(k[1]) <= StepOf(phase) /\ k[2] <= Counts[k[1]]
      BY <2>1, <3>1 DEF CallsInv
    <3>3. Counts'[k[1]] = Counts[k[1]] \/ Counts'[k[1]] = Counts[k[1]] + 1
      BY <1>6, <3>1
    <3>. QED  BY <1>3, <3>1, <3>2, <3>3
  <2>2. CASE i = n
    <3>1. k = c /\ Counts'[k[1]] = Counts[phase] + 1
      BY <1>2, <1>5, <1>6, <2>2
    <3>. QED  BY <1>2, <1>3, <3>1, StepsDiffer
  <2>. QED  BY <1>5, <2>1, <2>2
<1>11. \A h \in HookNames :
          /\ Counts'[h] <= hooks[h]
          /\ ended[h] > 0 => Counts'[h] = ended[h] /\ StepOf(h) < StepOf(phase)
  <2>1. \A h \in HookNames : ended[h] > 0 => h # phase
    BY StepsDiffer DEF CallsInv
  <2>2. Counts'[phase] <= hooks[phase]
    BY <1>2, <1>3, <1>6
  <2>. QED  BY <1>6, <2>1, <2>2 DEF CallsInv
<1>12. CallsInv'
  BY <1>2, <1>9, <1>10, <1>11 DEF CallsInv
<1>. QED  BY <1>7, <1>12

LEMMA SettlesKeeps ==
    ASSUME HooksTyped, CallsInv, NEW c, NEW ok \in BOOLEAN, CallbackSettles(c, ok)
    PROVE  HooksTyped' /\ CallsInv'
<1>1. /\ running = {c} /\ running' = {} /\ phase' \in {phase, "failed"}
      /\ UNCHANGED <<hooks, called, ended>> /\ Counts' = Counts
  BY CountsKept DEF CallbackSettles, CallsInv
<1>2. HooksTyped'
  BY <1>1 DEF HooksTyped
<1>3. StepOf(phase) <= StepOf(phase')
  BY <1>1 DEF StepOf
<1>4. ASSUME NEW p, StepOf(p) <= StepOf(phase) PROVE StepOf(p) <= StepOf(phase')
  BY <1>3, <1>4, StepsDiffer
<1>5. ASSUME NEW p, StepOf(p) < StepOf(phase) PROVE StepOf(p) < StepOf(phase')
  BY <1>3, <1>5, StepsDiffer
<1>6. CallsInv'
  BY <1>1, <1>4, <1>5 DEF CallsInv
<1>. QED  BY <1>2, <1>6

LEMMA CallsStep ==
    ASSUME IInv, Next PROVE HooksTyped' /\ CallsInv'
<1>1. HooksTyped /\ CallsInv
  BY DEF IInv
<1>2. phase \in HookNames \/ running = {}
  BY DEF IInv, CallsInv
<1>3. status = "loading" => phase = "controllers"
  BY DEF IInv, PublishedInv
<1>4. CASE AfterInitialize
  BY <1>1, <1>4, EmittedKeeps, HookNamesAre DEF AfterInitialize, StepOf
<1>5. CASE AfterStartup
  BY <1>1, <1>5, EmittedKeeps, HookNamesAre DEF AfterStartup, StepOf
<1>6. CASE AfterPreInit
  <2>1. phase' \in {"CUSTOM_MIDDLEWARE", "failed"}
    BY <1>6 DEF AfterPreInit
  <2>2. StepOf("PRE_INIT") < StepOf(phase')
    BY <2>1 DEF StepOf
  <2>. QED  BY <1>1, <1>6, <2>2, EmittedKeeps, HookNamesAre DEF AfterPreInit
<1>7. CASE AfterCustomMiddleware
  BY <1>1, <1>7, EmittedKeeps, HookNamesAre DEF AfterCustomMiddleware, StepOf
<1>8. CASE AfterPostInit
  BY <1>1, <1>8, EmittedKeeps, HookNamesAre DEF AfterPostInit, StepOf
<1>9. CASE UNCHANGED hookVars /\ (phase' = phase \/ (running = {} /\ StepOf(phase) <= StepOf(phase')))
  <2>1. StepOf(phase) <= StepOf(phase')
    BY <1>9, StepsDiffer
  <2>. QED  BY <1>1, <1>9, <2>1, CallsKept
<1>10. CASE Create
  <2>1. running = {} /\ StepOf(phase) <= StepOf(phase')
    BY <1>2, <1>10, HookNamesAre DEF Create, StepOf
  <2>. QED  BY <1>9, <1>10, <2>1 DEF Create
<1>11. ASSUME NEW ok \in BOOLEAN, SchedulerSettles(ok) PROVE HooksTyped' /\ CallsInv'
  <2>1. running = {} /\ StepOf(phase) <= StepOf(phase')
    BY <1>2, <1>11, HookNamesAre DEF SchedulerSettles, StepOf
  <2>. QED  BY <1>9, <1>11, <2>1 DEF SchedulerSettles
<1>12. CASE LoadController
  <2>1. running = {} /\ StepOf(phase) <= StepOf(phase')
    BY <1>2, <1>3, <1>12, HookNamesAre DEF LoadController, StepOf
  <2>. QED  BY <1>9, <1>12, <2>1 DEF LoadController
<1>13. CASE AfterControllers
  <2>1. running = {} /\ StepOf(phase) <= StepOf(phase')
    BY <1>2, <1>13, HookNamesAre DEF AfterControllers, StepOf
  <2>. QED  BY <1>9, <1>13, <2>1 DEF AfterControllers
<1>14. CASE MountErrorHandler \/ Configure \/ Listen \/ MountLate \/ Withdraw
            \/ \E c \in running : CallbackMounts(c)
  BY <1>9, <1>14 DEF MountErrorHandler, Configure, Listen, MountLate, Withdraw, CallbackMounts
<1>. QED
  BY <1>1, <1>4, <1>5, <1>6, <1>7, <1>8, <1>10, <1>11, <1>12, <1>13, <1>14,
     RegisterKeeps, CallNextKeeps, SettlesKeeps
  DEF Next, Bootstrap, Application, Callback

-----------------------------------------------------------------------------
(* Layers.                                                                 *)

LEMMA StagesAre ==
    /\ \A l \in Layers : Stage(l) \in 1 .. 8
    /\ \A p : StageOf(p) \in 1 .. 8
    /\ \A p \in HookNames : Stage(p) = StageOf(p)
<1>1. \A l \in Layers : Stage(l) \in 1 .. 8
  BY DEF Stage
<1>2. \A p : StageOf(p) \in 1 .. 8
  BY DEF StageOf
<1>3. \A p \in HookNames : Stage(p) = StageOf(p)
  BY HookNamesAre DEF Stage, StageOf
<1>. QED  BY <1>1, <1>2, <1>3

LEMMA LayerAdded ==
    ASSUME stack \in Seq(Layers), LayersInv, NEW l \in Layers, stack' = stack \o <<l>>,
           \/ l = "late" /\ phase' = phase
           \/ StageOf(phase) <= Stage(l) /\ Stage(l) <= StageOf(phase'),
           timer' # "unset" => phase' = "ready"
    PROVE  stack' \in Seq(Layers) /\ LayersInv' /\ (HasOps' => HasOps \/ l = "ops")
<1>1. PICK t \in Seq(Layers) : t = <<l>>
  <2>1. <<l>> \in Seq(Layers)
    OBVIOUS
  <2>. QED  BY <2>1
<1>2. DOMAIN t = {1} /\ t[1] = l
  BY <1>1
<1>3. stack' = stack \o t
  BY <1>1
<1>4. /\ stack \o t \in Seq(Layers)
      /\ Len(stack \o t) = Len(stack) + Len(t) /\ DOMAIN (stack \o t) = 1 .. Len(stack) + Len(t)
      /\ \A i \in DOMAIN stack : i \in DOMAIN (stack \o t) /\ (stack \o t)[i] = stack[i]
      /\ \A k \in DOMAIN t : Len(stack) + k \in DOMAIN (stack \o t) /\ (stack \o t)[Len(stack) + k] = t[k]
      /\ \A i \in DOMAIN (stack \o t) : i \in DOMAIN stack \/ \E k \in DOMAIN t : i = Len(stack) + k
  BY Joined
<1>5. Len(stack) \in Nat /\ DOMAIN stack = 1 .. Len(stack) /\ \A i \in DOMAIN stack : stack[i] \in Layers
  BY ListOf
<1>6. /\ stack' \in Seq(Layers)
      /\ \A i \in DOMAIN stack' : \/ i \in DOMAIN stack /\ stack'[i] = stack[i]
                                  \/ i = Len(stack) + 1 /\ stack'[i] = l
  BY <1>2, <1>3, <1>4
<1>7. \A i \in DOMAIN stack : Stage(stack[i]) \in 1 .. 8
  BY <1>5, StagesAre
<1>8. StageOf(phase) \in 1 .. 8 /\ StageOf(phase') \in 1 .. 8 /\ Stage(l) \in 1 .. 8
  BY StagesAre
<1>9. \A i \in DOMAIN stack : "late" \notin {stack[i], l} => Stage(stack[i]) <= Stage(l)
  <2>1. \A i \in DOMAIN stack : stack[i] # "late" => Stage(stack[i]) <= StageOf(phase)
    BY DEF LayersInv
  <2>2. l # "late" => StageOf(phase) <= Stage(l)
    OBVIOUS
  <2>3. ASSUME NEW a \in 1 .. 8, NEW b \in 1 .. 8, NEW d \in 1 .. 8, a <= b, b <= d PROVE a <= d
    BY <2>3
  <2>. QED  BY ONLY <1>7, <1>8, <2>1, <2>2, <2>3
<1>10. LayersInOrder'
  <2> SUFFICES ASSUME NEW i \in DOMAIN stack', NEW j \in DOMAIN stack', i < j,
                      "late" \notin {stack'[i], stack'[j]}
               PROVE  Stage(stack'[i]) <= Stage(stack'[j])
    BY DEF LayersInOrder
  <2>1. i \in DOMAIN stack /\ stack'[i] = stack[i]
    BY <1>5, <1>6
  <2>. QED  BY <1>6, <1>9, <2>1 DEF LayersInv, LayersInOrder
<1>11. \A i \in DOMAIN stack' : stack'[i] # "late" => Stage(stack'[i]) <= StageOf(phase')
  <2>1. \A i \in DOMAIN stack : stack[i] # "late" => Stage(stack[i]) <= StageOf(phase')
    <3>2. StageOf(phase) <= StageOf(phase')
      <4>1. CASE phase' = phase
        BY <1>8, <4>1
      <4>2. CASE StageOf(phase) <= Stage(l) /\ Stage(l) <= StageOf(phase')
        BY <1>8, <4>2
      <4>. QED  BY <4>1, <4>2
    <3> SUFFICES ASSUME NEW i \in DOMAIN stack, stack[i] # "late"
                 PROVE  Stage(stack[i]) <= StageOf(phase')
      OBVIOUS
    <3>3. Stage(stack[i]) <= StageOf(phase)
      BY DEF LayersInv
    <3>. QED  BY <1>7, <1>8, <3>2, <3>3
  <2>. QED  BY <1>6, <2>1
<1>12. HasOps' => HasOps \/ l = "ops"
  BY <1>6 DEF HasOps
<1>. QED  BY <1>6, <1>10, <1>11, <1>12 DEF LayersInv

LEMMA LayersKept ==
    ASSUME stack \in Seq(Layers), LayersInv, stack' = stack \/ stack' = stack \o <<>>,
           StageOf(phase) <= StageOf(phase'),
           timer' # "unset" => phase' = "ready"
    PROVE  stack' \in Seq(Layers) /\ LayersInv' /\ (HasOps' => HasOps)
<1>1. stack' = stack
  BY ConcatEmptySeq
<1>2. \A i \in DOMAIN stack : stack[i] \in Layers
  BY ListOf
<1>3. \A i \in DOMAIN stack : stack[i] # "late" => Stage(stack[i]) <= StageOf(phase')
  <2>1. \A i \in DOMAIN stack : stack[i] # "late" => Stage(stack[i]) <= StageOf(phase)
    BY DEF LayersInv
  <2>. QED  BY <1>2, <2>1, StagesAre
<1>. QED  BY <1>1, <1>3 DEF LayersInv, LayersInOrder, HasOps

LEMMA LayersStep ==
    ASSUME IInv, Next
    PROVE  /\ stack' \in Seq(Layers) /\ LayersInv'
           /\ HasOps' => HasOps \/ AfterControllers
<1> DEFINE Goal == /\ stack' \in Seq(Layers) /\ LayersInv'
                   /\ HasOps' => HasOps \/ AfterControllers
<1>1. stack \in Seq(Layers) /\ LayersInv /\ (timer # "unset" => phase = "ready")
  BY DEF IInv, HttpTyped, LayersInv
<1>2. status = "loading" => phase = "controllers"
  BY DEF IInv, PublishedInv
<1>3. CASE UNCHANGED <<stack, timer>> /\ timer = "unset" /\ StageOf(phase) <= StageOf(phase')
  BY <1>1, <1>3, LayersKept
<1>4. CASE UNCHANGED <<stack, timer, phase>>
  BY <1>1, <1>4, LayersKept, StagesAre
<1>5. CASE Create
  BY <1>1, <1>3, <1>5 DEF Create, httpVars, StageOf
<1>6. CASE AfterInitialize
  BY <1>1, <1>3, <1>6, HookNamesAre DEF AfterInitialize, Emitted, httpVars, StageOf
<1>7. CASE AfterStartup
  BY <1>1, <1>3, <1>7, HookNamesAre DEF AfterStartup, Emitted, httpVars, StageOf
<1>8. ASSUME NEW ok \in BOOLEAN, SchedulerSettles(ok) PROVE Goal
  BY <1>1, <1>3, <1>8 DEF SchedulerSettles, httpVars, StageOf
<1>9. CASE AfterPreInit
  <2>1. /\ phase = "PRE_INIT" /\ phase' \in {"CUSTOM_MIDDLEWARE", "failed"}
        /\ timer' = timer /\ stack' = stack \o <<"builtin">> /\ "builtin" \in Layers
    BY <1>9 DEF AfterPreInit, Emitted, Layer, Layers
  <2>2. StageOf(phase) <= Stage("builtin") /\ Stage("builtin") <= StageOf(phase')
    BY <2>1 DEF StageOf, Stage
  <2>. QED  BY <1>1, <2>1, <2>2, LayerAdded
<1>10. CASE AfterCustomMiddleware
  <2>1. /\ phase = "CUSTOM_MIDDLEWARE" /\ phase' = "controllers"
        /\ timer' = timer /\ stack' = stack \o <<"accessLog">> /\ "accessLog" \in Layers
    BY <1>10 DEF AfterCustomMiddleware, Emitted, Layer, Layers, httpVars
  <2>2. StageOf(phase) <= Stage("accessLog") /\ Stage("accessLog") <= StageOf(phase')
    BY <2>1 DEF StageOf, Stage
  <2>. QED  BY <1>1, <2>1, <2>2, LayerAdded
<1>11. CASE LoadController
  <2>1. /\ phase = "controllers" /\ phase' \in {"controllers", "failed"} /\ timer' = timer
        /\ \/ stack' = stack \o <<>>
           \/ stack' = stack \o <<"controller">>
        /\ "controller" \in Layers
    BY <1>2, <1>11 DEF LoadController, Layer, Layers, httpVars
  <2>2. /\ StageOf(phase) <= Stage("controller") /\ Stage("controller") <= StageOf(phase')
        /\ StageOf(phase) <= StageOf(phase')
    BY <2>1 DEF StageOf, Stage
  <2>3. timer' # "unset" => phase' = "ready"
    BY <1>1, <2>1
  <2>. QED  BY <1>1, <2>1, <2>2, <2>3, LayerAdded, LayersKept
<1>12. CASE AfterControllers
  <2>1. /\ phase = "controllers" /\ phase' = "POST_INIT" /\ timer' = timer
        /\ stack' = stack \o <<>> \/ stack' = stack \o <<"ops">>
        /\ "ops" \in Layers
    BY <1>12 DEF AfterControllers, Layer, Layers
  <2>2. /\ StageOf(phase) <= Stage("ops") /\ Stage("ops") <= StageOf(phase')
        /\ StageOf(phase) <= StageOf(phase')
    BY <2>1 DEF StageOf, Stage
  <2>. QED  BY <1>1, <1>12, <2>1, <2>2, LayerAdded, LayersKept
<1>13. CASE AfterPostInit
  <2>1. stack' = stack /\ phase = "POST_INIT" /\ phase' = "ready"
    BY <1>13 DEF AfterPostInit, Emitted
  <2>2. StageOf(phase) <= StageOf(phase')
    BY <2>1 DEF StageOf
  <2>. QED  BY <1>1, <2>1, <2>2, LayersKept
<1>14. CASE MountLate
  <2>1. UNCHANGED <<phase, timer>> /\ stack' = stack \o <<"late">> /\ "late" \in Layers
    BY <1>14 DEF MountLate, Layer, Layers, httpVars
  <2>. QED  BY <1>1, <2>1, LayerAdded
<1>15. CASE MountErrorHandler
  <2>1. /\ phase = "ready" /\ phase' = phase /\ stack' = stack \o <<"errorHandler">>
        /\ "errorHandler" \in Layers
    BY <1>1, <1>15 DEF MountErrorHandler, Layer, Layers
  <2>2. StageOf(phase) <= Stage("errorHandler") /\ Stage("errorHandler") <= StageOf(phase')
    BY <2>1 DEF StageOf, Stage
  <2>. QED  BY <1>1, <2>1, <2>2, LayerAdded
<1>16. ASSUME NEW c \in running, CallbackMounts(c) PROVE Goal
  <2>1. c[1] = phase /\ phase \in HookNames
    BY <1>16 DEF IInv, CallsInv
  <2>2. /\ stack' = stack \o <<phase>> /\ phase \in Layers /\ phase # "ops"
        /\ phase' = phase /\ timer' = timer
    BY <1>16, <2>1, HookNamesAre DEF CallbackMounts, Layer, Layers, httpVars
  <2>3. StageOf(phase) <= Stage(phase) /\ Stage(phase) <= StageOf(phase)
    BY <2>1, StagesAre
  <2>4. timer' # "unset" => phase' = "ready"
    BY <1>1, <2>2
  <2>. QED  BY <1>1, <2>2, <2>3, <2>4, LayerAdded
<1>17. ASSUME NEW c \in running, NEW ok \in BOOLEAN, CallbackSettles(c, ok) PROVE Goal
  <2>1. phase \in HookNames /\ timer = "unset"
    BY <1>1, <1>17, HookNamesAre DEF IInv, CallsInv
  <2>2. phase' \in {phase, "failed"} /\ UNCHANGED <<stack, timer>>
    BY <1>17 DEF CallbackSettles, httpVars
  <2>3. StageOf(phase) <= StageOf(phase')
    BY <2>2, StagesAre DEF StageOf
  <2>. QED  BY <1>3, <2>1, <2>2, <2>3
<1>18. CASE CallNext \/ Configure \/ Listen \/ Withdraw \/ \E hook \in HookNames : Register(hook)
  BY <1>4, <1>18 DEF CallNext, Configure, Listen, Withdraw, Register, httpVars
<1>. QED
  BY <1>5, <1>6, <1>7, <1>8, <1>9, <1>10, <1>11, <1>12, <1>13, <1>14, <1>15, <1>16,
     <1>17, <1>18
  DEF Next, Bootstrap, Application, Callback

-----------------------------------------------------------------------------
(* The published routes, the configuration and its secrets.                *)

LEMMA LoadIsNotDone ==
    ASSUME LoadInv, Load PROVE status \in {"idle", "loading"}
BY DEF LoadInv, Placed, Load, ReadDir, InitSettles, LoadHandlers, LoadNothing, CallInit,
       Take, Finalize

\* Every step but one of load() leaves its state alone.
LEMMA LoaderStep ==
    ASSUME IInv, Next PROVE UNCHANGED loaderVars \/ LoadController
BY DEF Next, Bootstrap, Application, Callback, Create, AfterInitialize, AfterStartup, SchedulerSettles,
       AfterPreInit, AfterCustomMiddleware, AfterControllers, AfterPostInit, MountErrorHandler,
       Emitted, CallNext, Register, CallbackSettles, CallbackMounts, Configure, Listen, MountLate, Withdraw

\* Where createServer() may go from a phase.
LEMMA PhaseStep ==
    ASSUME IInv, Next
    PROVE  /\ phase' \in Phases
           /\ phase = "controllers" =>
                 phase' = "controllers" \/ LoadController \/ AfterControllers
           /\ phase' \in {"POST_INIT", "ready"} =>
                 phase \in {"POST_INIT", "ready"} \/ AfterControllers
           /\ phase' = "controllers" => phase = "controllers" \/ AfterCustomMiddleware
<1>1. phase \in Phases /\ \A c \in running : phase \in HookNames
  BY DEF IInv, CallsInv
<1>2. HookNames = {"INITIALIZE", "STARTUP", "PRE_INIT", "CUSTOM_MIDDLEWARE", "POST_INIT"}
  BY HookNamesAre
<1>3. CASE phase' = phase
  BY <1>1, <1>3
<1>4. CASE \/ Create \/ AfterInitialize \/ AfterStartup \/ AfterPreInit \/ AfterCustomMiddleware
           \/ AfterPostInit \/ \E ok \in BOOLEAN : SchedulerSettles(ok)
  BY <1>2, <1>4 DEF Create, AfterInitialize, AfterStartup, SchedulerSettles, AfterPreInit,
                    AfterCustomMiddleware, AfterPostInit, Emitted, Phases
<1>5. CASE AfterControllers
  BY <1>2, <1>5 DEF AfterControllers, Phases
<1>6. CASE LoadController
  <2>1. phase = "controllers" /\ phase' \in {"controllers", "failed"}
    BY <1>6 DEF LoadController, IInv, PublishedInv
  <2>. QED  BY <1>6, <2>1 DEF Phases
<1>7. ASSUME NEW c \in running, NEW ok \in BOOLEAN, CallbackSettles(c, ok), phase' # phase
      PROVE  phase \in HookNames /\ phase' = "failed"
  BY <1>1, <1>7 DEF CallbackSettles
<1>8. CASE \E c \in running, ok \in BOOLEAN : CallbackSettles(c, ok) /\ phase' # phase
  BY <1>2, <1>7, <1>8 DEF Phases
<1>. QED
  BY <1>3, <1>4, <1>5, <1>6, <1>8
  DEF Next, Bootstrap, Application, Callback, MountErrorHandler, CallNext, Register, CallbackMounts,
      Configure, Listen, MountLate, Withdraw

LEMMA PublishedStep ==
    ASSUME IInv, Next PROVE LoadInv' /\ PublishedInv' /\ published' \subseteq Seq(Entry)
<1> USE DEF PublishedInv
<1>1. LoadInv /\ PublishedInv /\ published \subseteq Seq(Entry)
  BY DEF IInv, HttpTyped
<1>4. CASE LoadController
  <2>1. Load /\ published' = published
    BY <1>4 DEF LoadController, httpVars
  <2>2. LoadInv' /\ published = {} /\ ~AfterControllers
    <3>1. status # "done" /\ LoadInv'
      BY <1>1, <2>1, LoadIsNotDone, LoadKeeps
    <3>. QED  BY <1>1, <3>1 DEF AfterControllers, Loaded
  <2>3. phase = "controllers" /\ phase' \in {"controllers", "failed"}
        /\ (status' = "loading" => phase' = "controllers")
    BY <1>1, <1>4 DEF LoadController
  <2>. QED  BY <1>1, <2>1, <2>2, <2>3
<1>5. CASE AfterControllers
  <2>1. /\ published' = {table} /\ status = "done" /\ phase' = "POST_INIT"
        /\ UNCHANGED <<table, status>> /\ LoadInv'
    BY <1>1, <1>5, LoadUnchanged DEF AfterControllers, RegisteredRoutes, Loaded, loaderVars
  <2>2. table \in Seq(Entry)
    BY <1>1 DEF LoadInv, LoadTypeOK
  <2>. QED  BY <2>1, <2>2
<1>6. CASE UNCHANGED loaderVars /\ ~AfterControllers /\ ~LoadController
  <2>1. LoadInv' /\ UNCHANGED <<table, status>>
    BY <1>1, <1>6, LoadUnchanged DEF loaderVars
  <2>2. published' \in {published, {}}
    BY <1>6
    DEF Next, Bootstrap, Application, Callback, Create, AfterInitialize, AfterStartup, SchedulerSettles,
        AfterPreInit, AfterCustomMiddleware, AfterPostInit, MountErrorHandler, httpVars,
        CallNext, Register, CallbackSettles, CallbackMounts, Configure, Listen, MountLate, Withdraw
  <2>3. /\ phase = "controllers" => phase' = "controllers"
        /\ phase' \in {"POST_INIT", "ready"} => phase \in {"POST_INIT", "ready"}
    BY <1>6, PhaseStep
  <2>. QED  BY <1>1, <1>6, <2>1, <2>2, <2>3
<1>. QED  BY <1>4, <1>5, <1>6, LoaderStep

LEMMA HttpStep ==
    ASSUME IInv, Next PROVE HttpTyped' /\ SecretsInv'
<1>1. /\ config \in Config /\ provider \in Jwt \cup {Nothing} /\ sockets \in Jwt \cup {Nothing}
      /\ listens \in 0 .. MaxListens /\ timer \in {"unset", "set", "fired"}
      /\ provider # "broken" /\ sockets \in {Nothing, "usable"}
  BY DEF IInv, HttpTyped, SecretsInv
<1>2. stack' \in Seq(Layers) /\ published' \subseteq Seq(Entry)
  BY LayersStep, PublishedStep
<1>3. /\ config' \in Config /\ provider' \in Jwt \cup {Nothing} /\ sockets' \in Jwt \cup {Nothing}
      /\ listens' \in 0 .. MaxListens /\ timer' \in {"unset", "set", "fired"}
      /\ provider' # "broken" /\ sockets' \in {Nothing, "usable"}
  <2>1. CASE UNCHANGED <<config, provider, sockets, listens>> /\ timer' \in {timer, "set", "fired"}
    BY <1>1, <2>1
  <2>2. CASE Configure
    BY <1>1, <2>2 DEF Configure
  <2>3. CASE Listen
    <3>1. /\ listens < MaxListens /\ listens' = listens + 1
          /\ UNCHANGED <<config, provider, timer>>
          /\ sockets' = sockets \/ (sockets' = config.jwt /\ config.jwt = "usable")
      BY <2>3 DEF Listen, AttachWebSocketServer, JwtConfigured
    <3>2. listens' \in 0 .. MaxListens
      BY <1>1, <3>1, BootstrapAssumption
    <3>. QED  BY <1>1, <3>1, <3>2 DEF Jwt
  <2>4. CASE AfterPreInit
    BY <1>1, <2>4 DEF AfterPreInit, Config, Jwt
  <2>. QED
    BY <2>1, <2>2, <2>3, <2>4
    DEF Next, Bootstrap, Application, Callback, Create, AfterInitialize, AfterStartup, SchedulerSettles,
        AfterCustomMiddleware, LoadController, AfterControllers, AfterPostInit, MountErrorHandler, httpVars,
        CallNext, Register, CallbackSettles, CallbackMounts, MountLate, Withdraw
<1>. QED  BY <1>2, <1>3 DEF HttpTyped, SecretsInv

-----------------------------------------------------------------------------
(* The theorems.                                                           *)

LEMMA IInvStarts == Init => IInv
<1> SUFFICES ASSUME Init PROVE IInv
  OBVIOUS
<1>1. MaxCallbacks \in Nat /\ MaxListens \in Nat
  BY BootstrapAssumption
<1>2. /\ called \in Seq(Calls) /\ DOMAIN called = {}
      /\ stack \in Seq(Layers) /\ DOMAIN stack = {}
  BY EmptySeq DEF Init
<1>3. HooksTyped
  BY <1>1, <1>2 DEF Init, HooksTyped
<1>4. HttpTyped
  BY <1>1, <1>2 DEF Init, HttpTyped
<1>5. LoadInv
  BY LoadStarts DEF Init
<1>6. \A h \in HookNames : Counts[h] = 0
  <2>1. \A h \in HookNames : {i \in DOMAIN called : called[i][1] = h} = {}
    BY <1>2
  <2>. QED  BY <2>1, FS_EmptySet DEF Counts, Called
<1>7. CallsInv
  BY <1>2, <1>6 DEF Init, CallsInv
<1>8. LayersInv
  BY <1>2 DEF Init, LayersInv, LayersInOrder
<1>9. PublishedInv /\ SecretsInv
  BY <1>2 DEF Init, PublishedInv, SecretsInv, Nothing, LoadInit
<1>. QED  BY <1>3, <1>4, <1>5, <1>7, <1>8, <1>9 DEF IInv, Init, Phases

LEMMA IInvStep == IInv /\ [Next]_vars => IInv'
<1> SUFFICES ASSUME IInv, [Next]_vars PROVE IInv'
  OBVIOUS
<1>1. CASE Next
  BY <1>1, PhaseStep, CallsStep, LayersStep, PublishedStep, HttpStep DEF IInv
<1>2. CASE UNCHANGED vars
  <2>1. /\ UNCHANGED <<phase, hooks, called, running, ended, stack, config, provider, sockets,
                       listens, published, timer, table, status, Counts>>
        /\ UNCHANGED loaderVars
    BY <1>2, CountsKept DEF vars, loaderVars
  <2>2. LoadInv'
    BY <2>1, LoadUnchanged DEF IInv
  <2>3. HooksTyped' /\ HttpTyped' /\ SecretsInv'
    BY <2>1 DEF IInv, HooksTyped, HttpTyped, SecretsInv
  <2>4. CallsInv'
    BY <2>1 DEF IInv, CallsInv
  <2>5. LayersInv' /\ PublishedInv'
    BY <2>1 DEF IInv, LayersInv, LayersInOrder, PublishedInv
  <2>. QED  BY <2>1, <2>2, <2>3, <2>4, <2>5 DEF IInv
<1>. QED  BY <1>1, <1>2

LEMMA Invariance == Spec => []IInv
BY IInvStarts, IInvStep, PTL DEF Spec

(* Type correctness of createServer(), its hooks and the loader.           *)
THEOREM TypesHold == Spec => []TypeOK
<1>1. IInv => TypeOK
  <2> SUFFICES ASSUME IInv PROVE TypeOK
    OBVIOUS
  <2>1. published = {} \/ published = {table}
    BY DEF IInv, PublishedInv
  <2>2. Cardinality(published) <= 1
    <3>1. Cardinality({}) = 0 /\ Cardinality({table}) = 1
      BY FS_EmptySet, FS_Singleton
    <3>. QED  BY <2>1, <3>1
  <2>. QED  BY <2>2 DEF IInv, HooksTyped, HttpTyped, Calls, LoadInv, TypeOK
<1>. QED  BY <1>1, Invariance, PTL

(* Hooks, middleware, controllers, ops endpoints and the error handler     *)
(* come in the documented order, and every callback is called once and in  *)
(* its turn, whatever callbacks mount, register or throw.                  *)
THEOREM StartupIsOrdered == Spec => []DocumentedOrder
<1>1. IInv => DocumentedOrder
  <2> SUFFICES ASSUME IInv PROVE CallsInOrder /\ LayersInOrder
    BY DEF DocumentedOrder
  <2>1. HooksTyped /\ CallsInv /\ LayersInOrder
    BY DEF IInv, LayersInv
  <2>2. Cardinality(running) <= 1
    <3>1. running = {} \/ \E c \in running : running = {c}
      BY <2>1 DEF CallsInv
    <3>. QED  BY <3>1, FS_EmptySet, FS_Singleton
  <2>3. \A i \in DOMAIN called : called[i][1] \in HookNames
    BY <2>1, ListOf DEF HooksTyped, Calls
  <2>4. \A i, j \in DOMAIN called : i < j =>
           \/ Order(called[i][1]) < Order(called[j][1])
           \/ called[i][1] = called[j][1] /\ called[i][2] < called[j][2]
    BY <2>1, <2>3, HookOrder DEF CallsInv
  <2>5. \A h \in HookNames : ended[h] > 0 => Called(h) = ended[h]
    BY <2>1, CountsFacts DEF CallsInv
  <2>. QED  BY <2>1, <2>2, <2>4, <2>5 DEF CallsInOrder
<1>. QED  BY <1>1, Invariance, PTL

(* SecurityProvider and the WebSocket manager never work with a broken or  *)
(* missing secret, although callbacks may change the configuration after   *)
(* it was validated.                                                       *)
THEOREM SecretsHold == Spec => []SecretsUsable
<1>1. IInv => SecretsUsable
  BY DEF IInv, SecretsInv, SecretsUsable, Nothing
<1>. QED  BY <1>1, Invariance, PTL

(* While ops endpoints are on the app and the list of routes was not       *)
(* withdrawn, what /__routes answers is true of the app, whichever         *)
(* controllers failed half-way.                                            *)
THEOREM OpsTellTheTruth == Spec => []OpsTruth
<1>1. IInv => OpsTruth
  BY DEF IInv, PublishedInv, LoadInv, OpsTruth, Routes
<1>. QED  BY <1>1, Invariance, PTL

(* Routes with one method and path on the routers of two files are counted *)
(* as a conflict once load() is done, whatever their modes.                *)
THEOREM ConflictsAreCounted == Spec => []ConflictsCounted
<1>1. IInv => ConflictsCounted
  BY RepeatIsConflict DEF IInv
<1>. QED  BY <1>1, Invariance, PTL
=============================================================================
