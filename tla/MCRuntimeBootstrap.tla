------------------------- MODULE MCRuntimeBootstrap -------------------------
(* RuntimeBootstrap for TLC: one controller has a route twice and another  *)
(* once more, with another mode; one has init(), and one file is no module.*)
EXTENDS RuntimeBootstrap

Get(path, fullPath, secure) ==
    [method |-> "get", path |-> path, fullPath |-> fullPath, secure |-> secure]

MCKind == [a |-> "handlers", b |-> "handlers", c |-> "init", d |-> "other"]
MCHandlers ==
    [a |-> <<Get("/x", "/api/x", "jwt"), Get("/x", "/api/x", "absent")>>,
     b |-> <<Get("/y", "/api/y", "true"), Get("/", "/api/x", "basic")>>,
     c |-> <<>>,
     d |-> <<>>]

\* Bound: where callbacks are registered, controllers with handlers fail before
\* the first of them.  Nothing the loader does depends on callbacks.
FewRoutes == Registered # {} => table = <<>>
=============================================================================
