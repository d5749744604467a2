------------------------- MODULE MCRemoteEnrollment -------------------------
(* Small instances of RemoteEnrollment for TLC.                            *)
EXTENDS RemoteEnrollment, TLC

Symmetry == Permutations(WorkerNames) \cup Permutations(Workers)
              \cup Permutations(Tokens) \cup Permutations(Invites)

=============================================================================
