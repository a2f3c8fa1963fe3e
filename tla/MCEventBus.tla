----------------------------- MODULE MCEventBus -----------------------------
(* EventBus for TLC: one event of the framework, a prefix that covers it   *)
(* and the event of listener errors, two handlers.                         *)
EXTENDS EventBus, TLC

CONSTANTS h1, h2

MCEvents    == {"shutdown.started"}
MCPrefixes  == {"expresto-server."}
MCCovers    == [p \in MCPrefixes |-> MCEvents \cup {ListenerError}]
MCHandlers  == {h1, h2}
MCSymmetry  == Permutations(MCHandlers)
=============================================================================
