------------------------ MODULE MCWebSocketSessions ------------------------
(* WebSocketSessions for TLC: one client may present anything, the other   *)
(* comes with a good token and is there to interleave with.                *)
EXTENDS WebSocketSessions

MCPresents ==
    <<Offers, {[auth |-> "good", query |-> Absent, header |-> Absent]}>>
=============================================================================
