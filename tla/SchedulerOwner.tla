--------------------------- MODULE SchedulerOwner ---------------------------
(***************************************************************************)
(* What the clustered runtime promises about attached scheduler jobs: they *)
(* run in one process at a time, ownership passes only to a process that   *)
(* was forked later than every earlier owner, and a process that has given *)
(* ownership up never takes it again.  ClusterPrimary implements it.       *)
(***************************************************************************)
EXTENDS Naturals

VARIABLES
    running,    \* the worker ids whose scheduler runs now
    used        \* the worker ids that have ever started the scheduler

Init ==
    /\ running = {}
    /\ used = {}

Acquire(e) ==
    /\ running = {}
    /\ \A u \in used : u < e
    /\ running' = {e}
    /\ used' = used \cup {e}

Release ==
    /\ running # {}
    /\ running' = {}
    /\ UNCHANGED used

Next == \/ \E e \in running' : Acquire(e)
        \/ Release

Spec == Init /\ [][Next]_<<running, used>>
=============================================================================
