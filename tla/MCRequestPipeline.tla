------------------------- MODULE MCRequestPipeline -------------------------
(* RequestPipeline for TLC: a route of each security mode, one ops path,   *)
(* protected by tokens, a path nothing is registered for, and a route that *)
(* the program adds after createServer().                                  *)
EXTENDS RequestPipeline, TLC

CONSTANTS r1, r2

MCMode == [r \in {"/open", "/token", "/basic"} |->
             CASE r = "/open" -> "none" [] r = "/token" -> "jwt" [] OTHER -> "basic"]
MCRequests == {r1, r2}
MCSymmetry == Permutations(MCRequests)
=============================================================================
