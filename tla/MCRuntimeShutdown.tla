------------------------- MODULE MCRuntimeShutdown -------------------------
(* RuntimeShutdown for TLC: a server with a scheduler, a WebSocket server, *)
(* its table of routes, and one service of the application.                *)
EXTENDS RuntimeShutdown

MCBoot == <<"db", "scheduler", "routes", "websocketManager">>
=============================================================================
