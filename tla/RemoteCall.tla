----------------------------- MODULE RemoteCall -----------------------------
(***************************************************************************)
(* What RemoteManager.call promises its caller: the tool runs at most once,*)
(* a result is returned only if it ran, "expired before execution" only if *)
(* it never does, and a call that fails says nothing about either.         *)
(***************************************************************************)
EXTENDS Naturals

CONSTANT Jobs

VARIABLES
  call,  \* what the caller sees of each call
  ran    \* how often the tool was executed for it

Init ==
  /\ call = [j \in Jobs |-> "idle"]
  /\ ran  = [j \in Jobs |-> 0]

Issue(j) ==
  /\ call[j] = "idle"
  /\ call' = [call EXCEPT ![j] = "waiting"]
  /\ UNCHANGED ran

(* The tool may run while the caller waits, or after it stopped waiting.   *)
Run(j) ==
  /\ call[j] \in {"waiting", "failed"}
  /\ ran[j] = 0
  /\ ran' = [ran EXCEPT ![j] = 1]
  /\ UNCHANGED call

Return(j) ==
  /\ call[j] = "waiting"
  /\ ran[j] = 1
  /\ call' = [call EXCEPT ![j] = "returned"]
  /\ UNCHANGED ran

Decline(j) ==
  /\ call[j] = "waiting"
  /\ ran[j] = 0
  /\ call' = [call EXCEPT ![j] = "declined"]
  /\ UNCHANGED ran

(* One call times out or is cancelled; a controller that ends fails all.   *)
Fail ==
  \E S \in SUBSET {j \in Jobs : call[j] = "waiting"} :
    /\ call' = [j \in Jobs |-> IF j \in S THEN "failed" ELSE call[j]]
    /\ UNCHANGED ran

Next ==
  \/ \E j \in Jobs : Issue(j) \/ Run(j) \/ Return(j) \/ Decline(j)
  \/ Fail

Spec == Init /\ [][Next]_<<call, ran>>

=============================================================================
