-------------------------- MODULE MCRemoteDispatch --------------------------
(* Small instances of RemoteDispatch for TLC.                              *)
EXTENDS RemoteDispatch, TLC

Symmetry == Permutations(Names) \cup Permutations(Regs) \cup Permutations(Jobs)

(* The behaviours in which two workers stay connected while the           *)
(* administrator registers, renames and revokes them.                      *)
AdminNext ==
  \/ AdminStep
  \/ \E j \in Jobs : CallStep(j)
  \/ \E r \in Regs :
       \/ PollStart(r) \/ PollDrop(r) \/ Execute(r) \/ Finish(r) \/ Submit(r)
       \/ SubmitRefused(r) \/ Resume(r)
       \/ \E p \in PollKinds : PollSkip(r, p) \/ PollDeliver(r, p)
  \/ Tick \/ Close \/ Restart
AdminSpec == Init /\ [][AdminNext]_vars

=============================================================================
