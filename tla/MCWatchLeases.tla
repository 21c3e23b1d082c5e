---------------------------- MODULE MCWatchLeases ----------------------------
(***************************************************************************)
(* Small instances of the leases for TLC.                                  *)
(***************************************************************************)
EXTENDS WatchLeasesProps, TLC

SessionSymmetry == Permutations(Sessions)

FairLeaseSpec == LeaseSpec /\ LeaseFairness

=============================================================================
