-------------------------- MODULE MCClusterPrimary --------------------------
(***************************************************************************)
(* ClusterPrimary for TLC.  The cfg files choose the constants; the forks  *)
(* are bounded by MaxForks, so no state constraint is needed.              *)
(***************************************************************************)
EXTENDS ClusterPrimary

\* The run's bounds leave room for the respawn of a worker or for several
\* workers at once.
ASSUME BoundsAssumption == WorkerCount > 1 \/ MaxRestarts > 0
=============================================================================
