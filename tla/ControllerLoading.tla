------------------------- MODULE ControllerLoading -------------------------
(***************************************************************************)
(* ControllerLoader.load() (src/lib/controller-loader.ts) and the registry *)
(* of routes (src/lib/routing/route-registry.ts): the files of a directory *)
(* are imported one after the other; a controller lists its handlers, or   *)
(* builds its router itself in an init() that is awaited.                  *)
(*                                                                         *)
(* A route is entered into the table when it is put on the router of its   *)
(* controller; the router is mounted when the controller is complete.  A   *)
(* controller that fails is reported and loading goes on with the next.    *)
(***************************************************************************)
EXTENDS Naturals, Sequences, FiniteSets

CONSTANTS
    Files,      \* the entries of the directory of controllers
    Kind,       \* file -> "handlers", "init", "neither", or "other" for no module
    Handlers    \* file -> its handlers: method, relative and full path, what "secure" says

NoFile == "-"
Handler == [method : STRING, path : STRING, fullPath : STRING,
            secure : {"jwt", "basic", "none", "true", "absent"}]

ASSUME LoadingAssumption ==
    /\ NoFile \notin Files
    /\ Kind \in [Files -> {"handlers", "init", "neither", "other"}]
    /\ Handlers \in [Files -> Seq(Handler)]
    /\ \A f \in Files : Kind[f] = "handlers" \/ Handlers[f] = <<>>

VARIABLES
    todo,       \* files that have not been looked at
    loading,    \* the file whose init() is awaited, or NoFile
    failed,     \* files that were reported as failed
    table,      \* the routes of the table, in the order of registration
    mounted,    \* the routers of the app, in the order of mounting
    conflicts,  \* <<method, full path>> of each conflict message; the gauge is their number
    status      \* of load()

loaderVars == <<todo, loading, failed, table, mounted, conflicts, status>>

\* ControllerRouteInfo; the registry of routes holds the same but for the
\* relative path, as path, secure and source.
Entry  == [controller : Files, method : STRING, path : STRING, fullPath : STRING,
           secure : {"none", "basic", "jwt"}]
Router == [file : Files, routes : Seq(Entry)]
Key(route) == <<route.method, route.fullPath>>

LoadInit ==
    /\ todo = {} /\ loading = NoFile /\ failed = {}
    /\ table = <<>> /\ mounted = <<>> /\ conflicts = {}
    /\ status = "idle"

-----------------------------------------------------------------------------
(* Loading.                                                                *)

\* readdir() promises no order; what is no module by its name is left out.
ReadDir(ok) ==
    /\ status = "idle"
    /\ status' = IF ok THEN "loading" ELSE "failed"
    /\ todo' = IF ok THEN {f \in Files : Kind[f] # "other"} ELSE {}
    /\ UNCHANGED <<loading, failed, table, mounted, conflicts>>

\* resolveSecurityMode(): true stands for jwt, everything unknown for none.
SecurityMode(secure) ==
    CASE secure \in {"jwt", "true"} -> "jwt" [] secure = "basic" -> "basic" [] OTHER -> "none"

EntryOf(f, k) ==
    LET handler == Handlers[f][k]
    IN  [controller |-> f, method |-> handler.method, path |-> handler.path,
         fullPath |-> handler.fullPath, secure |-> SecurityMode(handler.secure)]

\* The router of f when n of its handlers are registered.
RouterOf(f, n) == [k \in 1 .. n |-> EntryOf(f, k)]

Take(f) == status = "loading" /\ loading = NoFile /\ f \in todo /\ todo' = todo \ {f}

\* Mutant: the router is mounted before it is complete.
MountedAlready(f) ==
    /\ failed' = failed \cup {f}
    /\ mounted' = Append(mounted, [file |-> f, routes |-> <<>>])

\* The catch block: reported, and that is all; the table keeps what it has.
Report(f) ==
    /\ failed' = failed \cup {f}
    /\ UNCHANGED mounted

\* app.use(): the router of a complete controller.
Mount(f, routes) ==
    /\ mounted' = Append(mounted, [file |-> f, routes |-> routes])
    /\ UNCHANGED failed

\* registerSimpleRoute() for one handler after the other, until one fails, or
\* app.use() does.
LoadHandlers(f) ==
    /\ Kind[f] = "handlers" /\ Take(f)
    /\ \E n \in 0 .. Len(Handlers[f]) :
         /\ table' = table \o RouterOf(f, n)
         /\ \/ n = Len(Handlers[f]) /\ Mount(f, RouterOf(f, n))
            \/ Report(f)
    /\ UNCHANGED <<loading, conflicts, status>>

\* import() rejects, or the module exports neither handlers nor init().
LoadNothing(f) ==
    /\ Take(f)
    /\ Report(f)
    /\ UNCHANGED <<loading, table, conflicts, status>>

\* init() is called and awaited; its routes are none of the table's.
CallInit(f) ==
    /\ Kind[f] = "init" /\ Take(f)
    /\ loading' = f
    /\ UNCHANGED <<failed, table, mounted, conflicts, status>>

InitSettles(ok) ==
    /\ loading # NoFile
    /\ IF ok THEN Mount(loading, <<>>) ELSE Report(loading)
    /\ loading' = NoFile
    /\ UNCHANGED <<todo, table, conflicts, status>>

\* Mutant: routes that differ in their mode are told apart.
SameMode(t) ==
    {Key(t[i]) : i \in {i \in DOMAIN t :
        \E j \in DOMAIN t : j # i /\ Key(t[j]) = Key(t[i]) /\ t[j].secure = t[i].secure}}

\* detectConflicts(): keys that were registered more than once.
Conflicts(t) ==
    {Key(t[i]) : i \in {i \in DOMAIN t : \E j \in DOMAIN t : j # i /\ Key(t[j]) = Key(t[i])}}

\* finalizeRouteRegistration()
Finalize ==
    /\ status = "loading" /\ todo = {} /\ loading = NoFile
    /\ conflicts' = Conflicts(table)
    /\ status' = "done"
    /\ UNCHANGED <<todo, loading, failed, table, mounted>>

Load ==
    \/ \E ok \in BOOLEAN : ReadDir(ok) \/ InitSettles(ok)
    \/ \E f \in Files : LoadHandlers(f) \/ LoadNothing(f) \/ CallInit(f)
    \/ Finalize

-----------------------------------------------------------------------------

LoadTypeOK ==
    /\ todo \subseteq Files /\ loading \in Files \cup {NoFile} /\ failed \subseteq Files
    /\ table \in Seq(Entry)
    /\ mounted \in Seq(Router)
    /\ \A i, j \in DOMAIN mounted : mounted[i].file = mounted[j].file => i = j
    /\ \A i \in DOMAIN mounted : mounted[i].file \notin failed
    /\ conflicts \subseteq STRING \X STRING
    /\ status \in {"idle", "loading", "done", "failed"}

MountedFiles == {mounted[i].file : i \in DOMAIN mounted}

\* The routes stand in the list one behind the other, and no other of f does.
StandIn(list, f, routes) ==
    \E n \in 0 .. Len(list) :
       /\ \A k \in DOMAIN routes : n + k \in DOMAIN list /\ list[n + k] = routes[k]
       /\ \A i \in DOMAIN list : list[i].controller = f => \E k \in DOMAIN routes : i = n + k

(* A list of routes is true of the app: of a controller that lists its     *)
(* handlers and is mounted it has exactly the routes on its router, in     *)
(* their order and with the mode of their guards; and any other route it   *)
(* has is one of a controller whose failure was reported.                  *)
TrueOfApp(list) ==
    /\ \A i \in DOMAIN mounted : StandIn(list, mounted[i].file, mounted[i].routes)
    /\ \A i \in DOMAIN list : list[i].controller \in MountedFiles \cup failed

(* docs/routing.md:27-32: when load() is done, routes with one method and  *)
(* full path on the routers of two files are a conflict, whatever their    *)
(* modes, and however their files were ordered or others failed.           *)
ConflictsCounted ==
    status = "done" =>
        \A i, j \in DOMAIN mounted : \A k \in DOMAIN mounted[i].routes, l \in DOMAIN mounted[j].routes :
            LET one   == mounted[i].routes[k]
                other == mounted[j].routes[l]
            IN  i # j /\ Key(one) = Key(other) => Key(one) \in conflicts
=============================================================================
