------------------------- MODULE MCWatchSupervisor --------------------------
(***************************************************************************)
(* Small instances of the supervisor for TLC.                              *)
(***************************************************************************)
EXTENDS WatchSupervisorProps

FairSupSpec == SupSpec /\ SupFairness

=============================================================================
