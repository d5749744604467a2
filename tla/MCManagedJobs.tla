---------------------------- MODULE MCManagedJobs ----------------------------
(* Small instances of ManagedJobs for TLC.                                 *)
EXTENDS ManagedJobs, TLC

Symmetry == Permutations(Procs) \cup Permutations(Jobs)

=============================================================================
