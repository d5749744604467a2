------------------------ MODULE RemoteDispatchProofs ------------------------
(***************************************************************************)
(* Proofs about RemoteDispatch, for every value of its constants.          *)
(***************************************************************************)
EXTENDS RemoteDispatch, FiniteSetTheorems, TLAPS

(* The range of the tombstone map.                                         *)
Ages == Lapsed .. TombTTL + 1

-----------------------------------------------------------------------------
(* Pruning yields a tombstone map and adds no tombstone.                   *)
LEMMA PrunedType ==
  ASSUME NEW t \in [Jobs -> Ages], NEW u \in Pruned(t)
  PROVE  /\ u \in [Jobs -> Ages]
         /\ \A j \in Jobs : u[j] = t[j] \/ u[j] = Lapsed
<1>1. PICK K \in Kept(t) :
        u = [j \in Jobs |-> IF j \in Buried(t) \ K THEN Lapsed ELSE t[j]]
  BY DEF Pruned
<1>2. Lapsed \in Ages
  BY TombTTLAssumption DEF Lapsed, Ages
<1> QED
  BY <1>1, <1>2

(* Cancelling any jobs leaves the maps of the calls well typed.            *)
LEMMA ForgetType ==
  ASSUME TypeOK, NEW S, Forget(S)
  PROVE  /\ pending' \subseteq Jobs
         /\ assigned' \in [Jobs -> Names \cup {None}]
         /\ tomb' \in [Jobs -> Ages]
<1>1. pending' \subseteq Jobs /\ assigned' \in [Jobs -> Names \cup {None}]
  BY DEF TypeOK, Forget
<1> DEFINE t == [j \in Jobs |-> IF j \in S THEN 0 ELSE tomb[j]]
<1>2. t \in [Jobs -> Ages]
  BY TombTTLAssumption DEF TypeOK, Ages, Lapsed
<1>3. tomb' \in Pruned(t)
  BY DEF Forget
<1>4. tomb' \in [Jobs -> Ages]
  <2> HIDE DEF t
  <2> QED BY <1>2, <1>3, PrunedType
<1> QED
  BY <1>1, <1>4

LEMMA CancelJobsType ==
  ASSUME TypeOK, NEW S, CancelJobs(S)
  PROVE  /\ pending' \subseteq Jobs
         /\ assigned' \in [Jobs -> Names \cup {None}]
         /\ tomb' \in [Jobs -> Ages]
         /\ future' \in [Jobs -> FutureStates]
<1>1. future' \in [Jobs -> FutureStates]
  BY DEF TypeOK, CancelJobs, CancelFutures, FutureStates
<1> QED
  BY <1>1, ForgetType DEF CancelJobs

(* The calls' steps, the poll's, the worker's and the administrator's each *)
(* keep the types.                                                         *)
LEMMA TypeAdmin == ASSUME TypeOK, AdminStep PROVE TypeOK'
<1> USE DEF TypeOK, registry, work, jobs
<1>1. ASSUME NEW r \in Regs, NEW n \in Names, Register(r, n) PROVE TypeOK'
  BY <1>1 DEF Register, WorkerStates
<1>2. ASSUME NEW n \in Names, Revoke(n) PROVE TypeOK'
  <2>1. CancelJobs(PendingOf(n))
    BY <1>2 DEF Revoke
  <2>2. /\ pending' \subseteq Jobs
        /\ assigned' \in [Jobs -> Names \cup {None}]
        /\ tomb' \in [Jobs -> Ages]
        /\ future' \in [Jobs -> FutureStates]
    BY <2>1, CancelJobsType
  <2> QED
    BY <1>2, <2>2 DEF Revoke, Ages
<1>3. ASSUME NEW n \in Names, NEW m \in Names, Rename(n, m) PROVE TypeOK'
  BY <1>3 DEF Rename, MoveWorker
<1> QED
  BY <1>1, <1>2, <1>3 DEF AdminStep

LEMMA TypeCall == ASSUME TypeOK, NEW j \in Jobs, CallStep(j) PROVE TypeOK'
<1> USE DEF registry, work, jobs
<1>1. ASSUME NEW n \in Names, NEW t \in CallTimeouts, Call(j, n, t) PROVE TypeOK'
  <2>1. queue' \in [Regs -> Seq(Jobs)]
    BY <1>1 DEF TypeOK, Call
  <2>2. left' \in [Jobs -> Nat]
    BY <1>1, CallTimeoutsAssumption DEF TypeOK, Call
  <2> QED
    BY <1>1, <2>1, <2>2 DEF TypeOK, Call, FutureStates, CallStates
<1>2. ASSUME EndCall(j, "failed") PROVE call' \in [Jobs -> CallStates] /\ future' \in [Jobs -> FutureStates]
  BY <1>2 DEF TypeOK, EndCall, CallStates, FutureStates
<1>3. CASE CallReturn(j)
  BY <1>3 DEF TypeOK, CallReturn, EndCall, CallStates, FutureStates
<1>4. ASSUME CallTimeout(j) \/ CallCancelled(j) PROVE TypeOK'
  <2>1. Forget({j}) /\ EndCall(j, "failed")
    BY <1>4 DEF CallTimeout, CallCancelled
  <2>2. /\ pending' \subseteq Jobs
        /\ assigned' \in [Jobs -> Names \cup {None}]
        /\ tomb' \in [Jobs -> Ages]
    BY <2>1, ForgetType
  <2> QED
    BY <1>4, <1>2, <2>1, <2>2 DEF TypeOK, CallTimeout, CallCancelled, Ages
<1>5. CASE CallClosed(j)
  BY <1>5, <1>2 DEF TypeOK, CallClosed
<1> QED
  BY <1>1, <1>3, <1>4, <1>5 DEF CallStep

LEMMA TypePoll == ASSUME TypeOK, NEW r \in Regs, PollStep(r) PROVE TypeOK'
<1> USE DEF registry, work, jobs
<1>1. CASE PollStart(r)
  BY <1>1 DEF TypeOK, PollStart, PollKinds, WorkerStates
<1>2. CASE PollDrop(r)
  BY <1>2 DEF TypeOK, PollDrop, PollKinds, WorkerStates
<1>3. CASE PollRefused(r)
  BY <1>3 DEF TypeOK, PollRefused, Halt, WorkerStates
<1>4. ASSUME NEW p \in PollKinds, PollTimeout(r, p) PROVE TypeOK'
  BY <1>4 DEF TypeOK, PollTimeout, PollKinds, WorkerStates
<1>5. ASSUME NEW p \in PollKinds, Wakes(r, p)
      PROVE  queue' \in [Regs -> Seq(Jobs)] /\ Head(queue[r]) \in Jobs
  <2>1. queue[r] \in Seq(Jobs) /\ queue[r] # <<>>
    BY <1>5 DEF TypeOK, Wakes
  <2>2. Tail(queue[r]) \in Seq(Jobs) /\ Head(queue[r]) \in Jobs
    BY <2>1
  <2> QED
    BY <1>5, <2>2 DEF TypeOK, Wakes
<1>6. ASSUME NEW t \in Pruned(tomb) PROVE t \in [Jobs -> Ages]
  <2>1. tomb \in [Jobs -> Ages]
    BY DEF TypeOK, Ages
  <2> QED
    BY <2>1, PrunedType
<1>7. Absent \in Ages
  BY TombTTLAssumption DEF Absent, Lapsed, Ages
<1>8. ASSUME NEW p \in PollKinds, PollSkip(r, p) PROVE TypeOK'
  <2>1. PICK t \in Pruned(tomb) : tomb' = [t EXCEPT ![Head(queue[r])] = Absent]
    BY <1>8 DEF PollSkip
  <2>2. tomb' \in [Jobs -> Ages]
    BY <2>1, <1>6, <1>7
  <2>3. queue' \in [Regs -> Seq(Jobs)]
    BY <1>8, <1>5 DEF PollSkip
  <2> QED
    BY <1>8, <2>2, <2>3 DEF TypeOK, PollSkip, Ages
<1>9. ASSUME NEW p \in PollKinds, PollExpire(r, p) PROVE TypeOK'
  <2>1. CancelJobs({Head(queue[r])})
    BY <1>9 DEF PollExpire
  <2>2. /\ pending' \subseteq Jobs
        /\ assigned' \in [Jobs -> Names \cup {None}]
        /\ tomb' \in [Jobs -> Ages]
        /\ future' \in [Jobs -> FutureStates]
    BY <2>1, CancelJobsType
  <2>3. queue' \in [Regs -> Seq(Jobs)]
    BY <1>9, <1>5 DEF PollExpire
  <2> QED
    BY <1>9, <2>2, <2>3 DEF TypeOK, PollExpire, Ages
<1>10. ASSUME NEW p \in PollKinds, PollDeliver(r, p) PROVE TypeOK'
  <2>1. tomb' \in [Jobs -> Ages]
    BY <1>10, <1>6 DEF PollDeliver
  <2>2. queue' \in [Regs -> Seq(Jobs)] /\ Head(queue[r]) \in Jobs
    BY <1>10, <1>5 DEF PollDeliver
  <2>3. wstate' \in [Regs -> WorkerStates] /\ wjob' \in [Regs -> Jobs \cup {None}]
    <3>1. CASE wstate' = [wstate EXCEPT ![r] = "received"]
               /\ wjob' = [wjob EXCEPT ![r] = Head(queue[r])]
      BY <3>1, <2>2 DEF TypeOK, WorkerStates
    <3>2. CASE wstate' = [wstate EXCEPT ![r] = IF p = "live" THEN "idle" ELSE @]
               /\ wjob' = wjob
      BY <3>2 DEF TypeOK, WorkerStates
    <3> QED
      BY <1>10, <3>1, <3>2 DEF PollDeliver
  <2> QED
    BY <1>10, <2>1, <2>2, <2>3 DEF TypeOK, PollDeliver, Ages, PollKinds
<1> QED
  BY <1>1, <1>2, <1>3, <1>4, <1>8, <1>9, <1>10 DEF PollStep

LEMMA TypeWorker == ASSUME TypeOK, NEW r \in Regs, WorkerStep(r) PROVE TypeOK'
<1> USE DEF registry, work, jobs
<1>1. ASSUME NEW t \in Pruned(tomb) PROVE t \in [Jobs -> Ages]
  <2>1. tomb \in [Jobs -> Ages]
    BY DEF TypeOK, Ages
  <2> QED
    BY <2>1, PrunedType
<1>2. CASE Execute(r)
  <2>1. \A j \in Jobs : ran[j] \in Nat /\ ran[j] + 1 \in Nat
    BY DEF TypeOK
  <2>2. ran' = [ran EXCEPT ![wjob[r]] = @ + 1] /\ ran \in [Jobs -> Nat]
    BY <1>2 DEF TypeOK, Execute
  <2>3. ran' \in [Jobs -> Nat]
    BY <2>1, <2>2
  <2> QED
    BY <1>2, <2>3 DEF TypeOK, Execute, WorkerStates
<1>3. CASE Decline(r)
  BY <1>3 DEF TypeOK, Decline, WorkerStates
<1>4. CASE Finish(r)
  BY <1>4 DEF TypeOK, Finish, WorkerStates
<1>5. CASE Heartbeat(r)
  BY <1>5, <1>1 DEF TypeOK, Heartbeat, Ages
<1>6. CASE Submit(r)
  <2>1. /\ pending' \subseteq Jobs
        /\ assigned' \in [Jobs -> Names \cup {None}]
        /\ future' \in [Jobs -> FutureStates]
        /\ tomb' \in [Jobs -> Ages]
    <3>1. TakeResult(r)
      BY <1>6 DEF Submit
    <3>2. CASE wjob[r] \in Alive(tomb)
      <4>1. PICK t \in Pruned(tomb) : tomb' = [t EXCEPT ![wjob[r]] = Absent]
        BY <3>1, <3>2 DEF TakeResult
      <4>2. Absent \in Ages
        BY TombTTLAssumption DEF Absent, Lapsed, Ages
      <4> QED
        BY <4>1, <4>2, <3>1, <3>2, <1>1 DEF TakeResult, TypeOK
    <3>3. CASE wjob[r] \notin Alive(tomb)
      <4> DEFINE answer == IF wstate[r] = "submitting" THEN "result" ELSE "declined"
      <4>1. /\ tomb' \in Pruned(tomb)
            /\ pending' = pending \ {wjob[r]}
            /\ assigned' = [assigned EXCEPT ![wjob[r]] = None]
            /\ future' = [future EXCEPT ![wjob[r]] =
                            IF wjob[r] \in pending /\ @ = "open" THEN answer ELSE @]
        BY <3>1, <3>3 DEF TakeResult
      <4>2. answer \in FutureStates
        BY DEF FutureStates
      <4>3. future' \in [Jobs -> FutureStates]
        <5> HIDE DEF answer
        <5> QED BY <4>1, <4>2 DEF TypeOK
      <4> QED
        BY <4>1, <4>3, <1>1 DEF TypeOK
    <3> QED
      BY <3>2, <3>3
  <2>2. wstate' \in [Regs -> WorkerStates] /\ wjob' \in [Regs -> Jobs \cup {None}]
    BY <1>6 DEF TypeOK, Submit, WorkerStates
  <2> QED
    BY <1>6, <2>1, <2>2 DEF TypeOK, Submit, Ages
<1>7. ASSUME Halt(r)
      PROVE  wstate' \in [Regs -> WorkerStates] /\ wjob' \in [Regs -> Jobs \cup {None}]
  BY <1>7 DEF TypeOK, Halt, WorkerStates
<1>8. CASE SubmitRefused(r)
  <2>1. tomb' \in [Jobs -> Ages]
    BY <1>8, <1>1 DEF TypeOK, SubmitRefused, Ages
  <2>2. online' \in [Regs -> BOOLEAN]
    BY <1>8 DEF TypeOK, SubmitRefused
  <2> QED
    BY <1>8, <1>7, <2>1, <2>2 DEF TypeOK, SubmitRefused, Halt, Ages
<1>9. CASE WorkerCrash(r)
  <2>1. polls' \in [Regs -> SUBSET PollKinds]
    BY <1>9 DEF TypeOK, WorkerCrash, PollKinds
  <2> QED
    BY <1>9, <1>7, <2>1 DEF TypeOK, WorkerCrash, Halt
<1>10. CASE Resume(r)
  BY <1>10 DEF TypeOK, Resume, WorkerStates
<1> QED
  BY <1>2, <1>3, <1>4, <1>5, <1>6, <1>8, <1>9, <1>10 DEF WorkerStep

LEMMA TypeRest ==
  ASSUME TypeOK, Tick \/ Close \/ Restart \/ \E r \in Regs : GoesQuiet(r)
  PROVE  TypeOK'
<1> USE DEF registry, work, jobs
<1>1. CASE Tick
  <2>1. left' \in [Jobs -> Nat]
    BY <1>1 DEF TypeOK, Tick
  <2>2. tomb' \in [Jobs -> Lapsed .. TombTTL + 1]
    BY <1>1, TombTTLAssumption DEF TypeOK, Tick, Alive, Buried, Lapsed
  <2> QED
    BY <1>1, <2>1, <2>2 DEF TypeOK, Tick
<1>2. ASSUME DropPolls
      PROVE  polls' \in [Regs -> SUBSET PollKinds] /\ wstate' \in [Regs -> WorkerStates]
  BY <1>2 DEF TypeOK, DropPolls, WorkerStates
<1>3. [j \in Jobs |-> Absent] \in [Jobs -> Lapsed .. TombTTL + 1]
  BY TombTTLAssumption DEF Absent, Lapsed
<1>4. CASE Close
  <2>1. future' \in [Jobs -> FutureStates]
    BY <1>4 DEF TypeOK, Close, CancelFutures, FutureStates
  <2>2. queue' \in [Regs -> Seq(Jobs)]
    BY <1>4 DEF TypeOK, Close
  <2> QED
    BY <1>4, <1>2, <1>3, <2>1, <2>2 DEF TypeOK, Close
<1>5. CASE Restart
  <2>1. call' \in [Jobs -> CallStates]
    BY <1>5 DEF TypeOK, Restart, CallStates
  <2>2. queue' \in [Regs -> Seq(Jobs)]
    BY <1>5 DEF TypeOK, Restart
  <2>3. future' \in [Jobs -> FutureStates]
    BY <1>5 DEF TypeOK, Restart, FutureStates
  <2> QED
    BY <1>5, <1>2, <1>3, <2>1, <2>2, <2>3 DEF TypeOK, Restart
<1>6. ASSUME NEW r \in Regs, GoesQuiet(r) PROVE TypeOK'
  BY <1>6 DEF TypeOK, GoesQuiet
<1> QED
  BY <1>1, <1>4, <1>5, <1>6

LEMMA TypeStep == TypeOK /\ [Next]_vars => TypeOK'
<1> SUFFICES ASSUME TypeOK, [Next]_vars PROVE TypeOK'
  OBVIOUS
<1>1. CASE UNCHANGED vars
  BY <1>1 DEF TypeOK, vars, registry, work, jobs
<1> QED
  BY <1>1, TypeAdmin, TypeCall, TypePoll, TypeWorker, TypeRest DEF Next

LEMMA TypeInit == Init => TypeOK
<1> SUFFICES ASSUME Init PROVE TypeOK
  OBVIOUS
<1>1. [j \in Jobs |-> Absent] \in [Jobs -> Lapsed .. TombTTL + 1]
  BY TombTTLAssumption DEF Absent, Lapsed
<1>2. [r \in Regs |-> <<>>] \in [Regs -> Seq(Jobs)]
  OBVIOUS
<1> QED
  BY <1>1, <1>2 DEF Init, TypeOK, FutureStates, CallStates, WorkerStates

(* Every variable keeps its type in every reachable state.                 *)
THEOREM TypeCorrect == Spec => []TypeOK
  BY TypeInit, TypeStep, PTL DEF Spec

-----------------------------------------------------------------------------
(* The registry.                                                           *)

RegistryInv == TokensIssued /\ RegistryConsistent

(* Only the administrator's handlers touch the registry.                   *)
LEMMA RegistryFrame ==
  ASSUME [Next]_vars, ~AdminStep
  PROVE  UNCHANGED registry
<1> USE DEF registry
<1>1. ASSUME NEW j \in Jobs, CallStep(j) PROVE UNCHANGED registry
  BY <1>1 DEF CallStep, Call, CallReturn, CallTimeout, CallCancelled, CallClosed
<1>2. ASSUME NEW r \in Regs, PollStep(r) PROVE UNCHANGED registry
  BY <1>2 DEF PollStep, PollStart, PollDrop, PollRefused, Halt, PollTimeout,
              PollSkip, PollExpire, PollDeliver
<1>3. ASSUME NEW r \in Regs, WorkerStep(r) PROVE UNCHANGED registry
  BY <1>3 DEF WorkerStep, Execute, Decline, Finish, Heartbeat, Submit,
              SubmitRefused, WorkerCrash, Halt, Resume
<1>4. ASSUME Tick \/ Close \/ Restart \/ UNCHANGED vars \/ \E r \in Regs : GoesQuiet(r)
      PROVE  UNCHANGED registry
  BY <1>4 DEF Tick, Close, Restart, vars, GoesQuiet
<1> QED
  BY <1>1, <1>2, <1>3, <1>4 DEF Next

LEMMA RegistryStep ==
  ASSUME TypeOK, RegistryInv, [Next]_vars
  PROVE  RegistryInv'
<1> USE NoneAssumption DEF RegistryInv, TokensIssued, RegistryConsistent
<1>1. ASSUME NEW r \in Regs, NEW n \in Names, Register(r, n) PROVE RegistryInv'
  BY <1>1 DEF TypeOK, Register
<1>2. ASSUME NEW n \in Names, Revoke(n) PROVE RegistryInv'
  BY <1>2 DEF TypeOK, Revoke
<1>3. ASSUME NEW n \in Names, NEW m \in Names, Rename(n, m) PROVE RegistryInv'
  <2> DEFINE w == workers[n]
  <2>1. w \in Regs /\ tokens[w] = n /\ n # m
    BY <1>3 DEF TypeOK, Rename
  <2>2. /\ workers' = [workers EXCEPT ![n] = None, ![m] = w]
        /\ tokens'  = [tokens EXCEPT ![w] = m]
        /\ wname'   = [wname EXCEPT ![w] = m]
        /\ issued'  = issued
        /\ workers[m] = None
    BY <1>3 DEF Rename, MoveWorker
  <2>3. \A r \in Regs : tokens'[r] # None => r \in issued'
    BY <2>1, <2>2 DEF TypeOK
  <2>4. ASSUME NEW r \in Regs, tokens'[r] # None
        PROVE  workers'[tokens'[r]] = r /\ wname'[r] = tokens'[r]
    BY <2>1, <2>2, <2>4 DEF TypeOK
  <2>5. ASSUME NEW k \in Names, workers'[k] # None
        PROVE  tokens'[workers'[k]] = k
    <3>1. CASE k = m
      BY <2>1, <2>2, <3>1 DEF TypeOK
    <3>2. CASE k # m
      <4>1. k # n /\ workers'[k] = workers[k]
        BY <2>1, <2>2, <2>5, <3>2 DEF TypeOK
      <4>2. workers[k] \in Regs /\ tokens[workers[k]] = k
        BY <2>5, <4>1 DEF TypeOK
      <4> QED
        BY <2>1, <2>2, <4>1, <4>2 DEF TypeOK
    <3> QED
      BY <3>1, <3>2
  <2> QED
    BY <2>3, <2>4, <2>5
<1>4. CASE ~AdminStep
  <2>1. UNCHANGED registry
    BY <1>4, RegistryFrame
  <2> QED
    BY <2>1 DEF registry
<1> QED
  BY <1>1, <1>2, <1>3, <1>4 DEF AdminStep

(* Names, tokens and worker objects agree in every reachable state.        *)
THEOREM NamesTheorem == Spec => []RegistryConsistent
<1>1. Init => RegistryInv
  BY NoneAssumption DEF Init, RegistryInv, TokensIssued, RegistryConsistent
<1>2. TypeOK /\ RegistryInv /\ [Next]_vars => RegistryInv'
  BY RegistryStep
<1>3. RegistryInv => RegistryConsistent
  BY DEF RegistryInv
<1> QED
  BY <1>1, <1>2, <1>3, TypeCorrect, PTL DEF Spec

-----------------------------------------------------------------------------
(* Reservations and capacity.                                              *)

CallInv == ClosedIsEmpty /\ Reservations

(* Every handler that is not about calls leaves the calls alone.           *)
ElsewhereStep ==
  \/ \E r \in Regs :
       \/ PollStart(r) \/ PollDrop(r) \/ PollRefused(r)
       \/ \E p \in PollKinds : PollTimeout(r, p) \/ PollSkip(r, p) \/ PollDeliver(r, p)
       \/ Execute(r) \/ Decline(r) \/ Finish(r) \/ Heartbeat(r)
       \/ SubmitRefused(r) \/ WorkerCrash(r) \/ Resume(r) \/ GoesQuiet(r)
  \/ Tick
  \/ UNCHANGED vars

LEMMA ElsewhereFrame ==
  ASSUME ElsewhereStep
  PROVE  UNCHANGED <<closed, registry, pending, assigned, future, call>>
<1> USE DEF registry, jobs, work, vars
<1>1. ASSUME NEW r \in Regs, PollStart(r) \/ PollDrop(r) \/ PollRefused(r)
      PROVE  UNCHANGED <<closed, registry, pending, assigned, future, call>>
  BY <1>1 DEF PollStart, PollDrop, PollRefused, Halt
<1>2. ASSUME NEW r \in Regs, NEW p \in PollKinds,
             PollTimeout(r, p) \/ PollSkip(r, p) \/ PollDeliver(r, p)
      PROVE  UNCHANGED <<closed, registry, pending, assigned, future, call>>
  BY <1>2 DEF PollTimeout, PollSkip, PollDeliver
<1>3. ASSUME NEW r \in Regs,
             Execute(r) \/ Decline(r) \/ Finish(r) \/ Heartbeat(r)
               \/ SubmitRefused(r) \/ WorkerCrash(r) \/ Resume(r) \/ GoesQuiet(r)
      PROVE  UNCHANGED <<closed, registry, pending, assigned, future, call>>
  BY <1>3 DEF Execute, Decline, Finish, Heartbeat, SubmitRefused, WorkerCrash, Halt,
              Resume, GoesQuiet
<1>4. ASSUME Tick \/ UNCHANGED vars
      PROVE  UNCHANGED <<closed, registry, pending, assigned, future, call>>
  BY <1>4 DEF Tick
<1> QED
  BY <1>1, <1>2, <1>3, <1>4 DEF ElsewhereStep

(* The other steps, each with what it does to the calls.                   *)
LEMMA CallInvStep ==
  ASSUME TypeOK, RegistryConsistent, CallInv, [Next]_vars
  PROVE  CallInv'
<1> USE NoneAssumption DEF CallInv, ClosedIsEmpty, Reservations
<1>1. CASE ElsewhereStep
  <2>1. UNCHANGED <<closed, registry, pending, assigned, future, call>>
    BY <1>1, ElsewhereFrame
  <2> QED
    BY <2>1 DEF registry
<1>2. ASSUME NEW r \in Regs, NEW n \in Names, Register(r, n) PROVE CallInv'
  BY <1>2 DEF TypeOK, Register, jobs
<1>3. ASSUME NEW n \in Names, Revoke(n) PROVE CallInv'
  BY <1>3 DEF TypeOK, Revoke, CancelJobs, Forget, CancelFutures, PendingOf
<1>4. ASSUME NEW n \in Names, NEW m \in Names, Rename(n, m) PROVE CallInv'
  BY <1>4 DEF TypeOK, Rename, MoveWorker
<1>5. ASSUME NEW j \in Jobs, NEW n \in Names, NEW t \in CallTimeouts, Call(j, n, t)
      PROVE  CallInv'
  BY <1>5 DEF TypeOK, Call, registry
<1>6. ASSUME NEW j \in Jobs, CallReturn(j) PROVE CallInv'
  BY <1>6 DEF TypeOK, CallReturn, EndCall, registry
<1>7. ASSUME NEW j \in Jobs, CallTimeout(j) \/ CallCancelled(j) PROVE CallInv'
  BY <1>7 DEF TypeOK, CallTimeout, CallCancelled, EndCall, Forget, registry
<1>8. ASSUME NEW j \in Jobs, CallClosed(j) PROVE CallInv'
  BY <1>8 DEF TypeOK, CallClosed, EndCall, registry
<1>9. ASSUME NEW r \in Regs, NEW p \in PollKinds, PollExpire(r, p) PROVE CallInv'
  BY <1>9 DEF TypeOK, PollExpire, CancelJobs, Forget, CancelFutures, registry
<1>10. ASSUME NEW r \in Regs, Submit(r) PROVE CallInv'
  BY <1>10 DEF TypeOK, Submit, TakeResult, registry
<1>11. CASE Close \/ Restart
  BY <1>11 DEF TypeOK, Close, Restart, registry
<1> QED
  BY <1>1, <1>2, <1>3, <1>4, <1>5, <1>6, <1>7, <1>8, <1>9, <1>10, <1>11
     DEF Next, AdminStep, CallStep, PollStep, WorkerStep, ElsewhereStep

LEMMA PendingFinite ==
  \A n : IsFiniteSet(PendingOf(n)) /\ Cardinality(PendingOf(n)) \in Nat
<1>1. ASSUME NEW n PROVE IsFiniteSet(PendingOf(n))
  <2>1. PendingOf(n) \subseteq Jobs
    BY DEF PendingOf
  <2> QED
    BY <2>1, JobsAssumption, FS_Subset
<1> QED
  BY <1>1, FS_CardinalityType

(* A step that gives no machine a new call keeps the capacity.             *)
LEMMA CapacityShrinks ==
  ASSUME CapacityRespected, NEW n \in Names,
         NEW S, S \subseteq PendingOf(n)
  PROVE  Cardinality(S) <= MaxPending
<1>1. Cardinality(S) <= Cardinality(PendingOf(n)) /\ Cardinality(S) \in Nat
  BY PendingFinite, FS_Subset, FS_CardinalityType
<1> QED
  BY <1>1, PendingFinite, PendingAssumption DEF CapacityRespected

LEMMA CapacityStep ==
  ASSUME TypeOK, RegistryConsistent, CallInv, CapacityRespected, [Next]_vars
  PROVE  CapacityRespected'
<1>1. SUFFICES ASSUME NEW k \in Names
               PROVE  Cardinality(PendingOf(k)') <= MaxPending
  BY DEF CapacityRespected
<1>2. CASE \A j \in Jobs : assigned'[j] \in {None, assigned[j]}
  <2>1. PendingOf(k)' \subseteq PendingOf(k)
    BY <1>2, NoneAssumption DEF PendingOf
  <2> QED
    BY <2>1, CapacityShrinks
<1>3. ASSUME NEW n \in Names, NEW m \in Names, Rename(n, m)
      PROVE  Cardinality(PendingOf(k)') <= MaxPending
  <2>1. \A j \in Jobs : assigned'[j] = IF assigned[j] = n THEN m ELSE assigned[j]
    BY <1>3 DEF Rename
  <2>2. workers[m] = None
    BY <1>3 DEF Rename
  <2>3. \A j \in Jobs : assigned[j] # m
    BY <2>2, NoneAssumption DEF CallInv, Reservations
  <2>4. CASE k = m
    <3>1. PendingOf(k)' \subseteq PendingOf(n)
      BY <2>1, <2>3, <2>4 DEF PendingOf
    <3> QED
      BY <3>1, CapacityShrinks
  <2>5. CASE k # m
    <3>1. PendingOf(k)' \subseteq PendingOf(k)
      BY <2>1, <2>5 DEF PendingOf
    <3> QED
      BY <3>1, CapacityShrinks
  <2> QED
    BY <2>4, <2>5
<1>4. ASSUME NEW j \in Jobs, NEW n \in Names, NEW t \in CallTimeouts, Call(j, n, t)
      PROVE  Cardinality(PendingOf(k)') <= MaxPending
  <2>1. assigned' = [assigned EXCEPT ![j] = n] /\ Cardinality(PendingOf(n)) < MaxPending
    BY <1>4 DEF Call
  <2>2. CASE k = n
    <3>1. PendingOf(k)' \subseteq PendingOf(n) \cup {j}
      BY <2>1, <2>2 DEF PendingOf, TypeOK
    <3>2. /\ IsFiniteSet(PendingOf(n) \cup {j})
          /\ Cardinality(PendingOf(n) \cup {j}) <= Cardinality(PendingOf(n)) + 1
          /\ Cardinality(PendingOf(n) \cup {j}) \in Nat
      <4> DEFINE P == PendingOf(n)
      <4>1. IsFiniteSet(P) /\ Cardinality(P) \in Nat
        BY PendingFinite
      <4> HIDE DEF P
      <4>2. /\ IsFiniteSet(P \cup {j})
            /\ Cardinality(P \cup {j}) = IF j \in P THEN Cardinality(P) ELSE Cardinality(P) + 1
        BY <4>1, FS_AddElement
      <4>3. Cardinality(P \cup {j}) <= Cardinality(P) + 1 /\ Cardinality(P \cup {j}) \in Nat
        BY <4>1, <4>2
      <4> QED
        BY <4>2, <4>3 DEF P
    <3>3. /\ Cardinality(PendingOf(k)') <= Cardinality(PendingOf(n) \cup {j})
          /\ Cardinality(PendingOf(k)') \in Nat
      BY <3>1, <3>2, FS_Subset, FS_CardinalityType
    <3> QED
      BY <2>1, <3>2, <3>3, PendingFinite, PendingAssumption
  <2>3. CASE k # n
    <3>1. PendingOf(k)' \subseteq PendingOf(k)
      BY <2>1, <2>3 DEF PendingOf, TypeOK
    <3> QED
      BY <3>1, CapacityShrinks
  <2> QED
    BY <2>2, <2>3
<1>5. CASE ElsewhereStep
  <2>1. \A j \in Jobs : assigned'[j] = assigned[j]
    BY <1>5, ElsewhereFrame
  <2> QED
    BY <1>2, <2>1
<1>6. ASSUME NEW r \in Regs, NEW n \in Names, Register(r, n) PROVE assigned' = assigned
  BY <1>6 DEF Register, jobs
<1>7. ASSUME NEW S, Forget(S) PROVE \A j \in Jobs : assigned'[j] \in {None, assigned[j]}
  BY <1>7 DEF Forget
<1>8. ASSUME NEW n \in Names, Revoke(n) PROVE \A j \in Jobs : assigned'[j] \in {None, assigned[j]}
  BY <1>8, <1>7 DEF Revoke, CancelJobs
<1>9. ASSUME NEW j \in Jobs, CallReturn(j) \/ CallTimeout(j) \/ CallCancelled(j) \/ CallClosed(j)
      PROVE  \A i \in Jobs : assigned'[i] \in {None, assigned[i]}
  BY <1>9, <1>7 DEF TypeOK, CallReturn, CallTimeout, CallCancelled, CallClosed
<1>10. ASSUME NEW r \in Regs, NEW p \in PollKinds, PollExpire(r, p)
       PROVE  \A j \in Jobs : assigned'[j] \in {None, assigned[j]}
  BY <1>10, <1>7 DEF PollExpire, CancelJobs
<1>11. ASSUME NEW r \in Regs, Submit(r) PROVE \A j \in Jobs : assigned'[j] \in {None, assigned[j]}
  BY <1>11 DEF TypeOK, Submit, TakeResult
<1>12. CASE Close \/ Restart
  <2>1. \A j \in Jobs : assigned'[j] = None
    BY <1>12 DEF Close, Restart
  <2> QED
    BY <1>2, <2>1
<1> QED
  BY <1>2, <1>3, <1>4, <1>5, <1>6, <1>8, <1>9, <1>10, <1>11, <1>12
     DEF Next, AdminStep, CallStep, PollStep, WorkerStep, ElsewhereStep

(* The invariant is inductive.                                             *)
LEMMA DispatchInit == Init => DispatchInv
<1> SUFFICES ASSUME Init PROVE DispatchInv
  OBVIOUS
<1>1. TypeOK
  BY TypeInit
<1>2. TokensIssued /\ RegistryConsistent /\ ClosedIsEmpty /\ Reservations
  BY NoneAssumption DEF Init, TokensIssued, RegistryConsistent, ClosedIsEmpty, Reservations
<1>3. ASSUME NEW n \in Names PROVE Cardinality(PendingOf(n)) <= MaxPending
  <2>1. PendingOf(n) = {}
    BY NoneAssumption DEF Init, PendingOf
  <2> QED
    BY <2>1, FS_EmptySet, PendingAssumption
<1> QED
  BY <1>1, <1>2, <1>3 DEF DispatchInv, CapacityRespected

LEMMA DispatchStep == DispatchInv /\ [Next]_vars => DispatchInv'
<1> SUFFICES ASSUME DispatchInv, [Next]_vars PROVE DispatchInv'
  OBVIOUS
<1>1. TypeOK'
  BY TypeStep DEF DispatchInv
<1>2. RegistryInv'
  BY RegistryStep DEF DispatchInv, RegistryInv
<1>3. CallInv'
  BY CallInvStep DEF DispatchInv, CallInv
<1>4. CapacityRespected'
  BY CapacityStep DEF DispatchInv, CallInv
<1> QED
  BY <1>1, <1>2, <1>3, <1>4 DEF DispatchInv, RegistryInv, CallInv

THEOREM DispatchCorrect == Spec => []DispatchInv
  BY DispatchInit, DispatchStep, PTL DEF Spec

(* No end of a call, revocation or rename leaks a reservation.             *)
THEOREM ReservationsTheorem == Spec => []Reservations
<1>1. DispatchInv => Reservations
  BY DEF DispatchInv
<1> QED
  BY <1>1, DispatchCorrect, PTL

(* No machine ever has more than MaxPending outstanding calls.             *)
THEOREM CapacityTheorem == Spec => []CapacityRespected
<1>1. DispatchInv => CapacityRespected
  BY DEF DispatchInv
<1> QED
  BY <1>1, DispatchCorrect, PTL

(* Names, tokens and worker objects agree, and the limit is kept, in every *)
(* state that register, rename, revoke and the calls between them reach.   *)
THEOREM RegistryTheorem == Spec => []RegistrySound
  BY NamesTheorem, CapacityTheorem, PTL DEF RegistrySound

-----------------------------------------------------------------------------
(* Where a job is: in one queue, once, or in the hands of one worker.      *)

Queued(r) == {queue[r][i] : i \in 1 .. Len(queue[r])}

QueuedOnce ==
  \A r, s \in Regs : \A i \in 1 .. Len(queue[r]), k \in 1 .. Len(queue[s]) :
    queue[r][i] = queue[s][k] => r = s /\ i = k

(* Nothing has become of the job yet.                                      *)
Untouched(j) ==
  /\ call[j] \in {"waiting", "failed"}
  /\ future[j] \notin {"result", "declined"}
  /\ ran[j] = 0

QueuedUntouched ==
  \A r \in Regs : \A j \in Queued(r) :
    /\ Untouched(j)
    /\ assigned[j] \in {None, tokens[r]}
    /\ \A s \in Regs : wjob[s] # j

HeldOnce == \A r, s \in Regs : wjob[r] # None /\ wjob[r] = wjob[s] => r = s

HeldAsFar ==
  \A r \in Regs :
    /\ wjob[r] = None <=> wstate[r] \in {"idle", "polling", "stopped"}
    /\ wstate[r] = "received" => Untouched(wjob[r])
    /\ wstate[r] \in {"running", "submitting"} => ran[wjob[r]] = 1
    /\ wstate[r] = "declining" => ran[wjob[r]] = 0
    /\ wjob[r] # None => call[wjob[r]] # "idle"
    /\ "live" \in polls[r] => wstate[r] = "polling"
    /\ r \notin issued => wstate[r] = "stopped"

Outcomes ==
  \A j \in Jobs :
    /\ future[j] = "result" => ran[j] = 1
    /\ future[j] = "declined" => ran[j] = 0
    /\ future[j] # "none" => call[j] = "waiting"
    /\ call[j] = "idle" => ran[j] = 0
    /\ ran[j] \in {0, 1}

JobInv ==
  QueuedUntouched /\ HeldOnce /\ HeldAsFar /\ Outcomes /\ AnswersItsOwn

LEMMA QueuesShrink ==
  ASSUME TypeOK, QueuedOnce, \A r \in Regs : queue'[r] \in {queue[r], <<>>}
  PROVE  QueuedOnce' /\ \A r \in Regs : Queued(r)' \subseteq Queued(r)
<1>1. \A r \in Regs : \A i \in 1 .. Len(queue'[r]) :
        i \in 1 .. Len(queue[r]) /\ queue'[r][i] = queue[r][i]
  <2> SUFFICES ASSUME NEW r \in Regs, NEW i \in 1 .. Len(queue'[r])
               PROVE  i \in 1 .. Len(queue[r]) /\ queue'[r][i] = queue[r][i]
    OBVIOUS
  <2>1. CASE queue'[r] = <<>>
    <3>1. Len(queue'[r]) = 0
      BY <2>1
    <3> QED
      BY <3>1
  <2> QED
    BY <2>1
<1>2. QueuedOnce'
  BY <1>1 DEF QueuedOnce
<1> QED
  BY <1>1, <1>2 DEF Queued

LEMMA HeadTaken ==
  ASSUME TypeOK, QueuedOnce, NEW r \in Regs, NEW p \in PollKinds, Wakes(r, p)
  PROVE  /\ QueuedOnce'
         /\ Head(queue[r]) \in Queued(r) /\ Head(queue[r]) \in Jobs
         /\ \A s \in Regs : Queued(s)' \subseteq Queued(s) \ {Head(queue[r])}
<1>1. queue[r] \in Seq(Jobs) /\ queue[r] # <<>> /\ queue \in [Regs -> Seq(Jobs)]
  BY DEF Wakes, TypeOK
<1>2. /\ Len(queue[r]) \in Nat /\ Len(queue[r]) >= 1
      /\ Head(queue[r]) = queue[r][1] /\ Head(queue[r]) \in Jobs
  BY <1>1
<1>3. Head(queue[r]) \in Queued(r)
  BY <1>2 DEF Queued
<1>4. queue' = [queue EXCEPT ![r] = Tail(queue[r])]
  BY DEF Wakes
<1>5. /\ Len(queue'[r]) = Len(queue[r]) - 1
      /\ \A i \in 1 .. Len(queue'[r]) : i + 1 \in 1 .. Len(queue[r]) /\ queue'[r][i] = queue[r][i + 1]
  BY <1>1, <1>2, <1>4
<1>6. \A s \in Regs : s # r => queue'[s] = queue[s]
  BY <1>1, <1>4
<1>7. QueuedOnce'
  <2> SUFFICES ASSUME NEW u \in Regs, NEW v \in Regs,
                      NEW i \in 1 .. Len(queue'[u]), NEW k \in 1 .. Len(queue'[v]),
                      queue'[u][i] = queue'[v][k]
               PROVE  u = v /\ i = k
    BY DEF QueuedOnce
  <2>1. i \in Nat /\ k \in Nat
    BY <1>1, <1>5, <1>6
  <2>2. CASE u = r /\ v = r
    BY <2>2, <2>1, <1>5 DEF QueuedOnce
  <2>3. CASE u = r /\ v # r
    BY <2>3, <2>1, <1>5, <1>6 DEF QueuedOnce
  <2>4. CASE u # r /\ v = r
    BY <2>4, <2>1, <1>5, <1>6 DEF QueuedOnce
  <2>5. CASE u # r /\ v # r
    BY <2>5, <1>6 DEF QueuedOnce
  <2> QED
    BY <2>2, <2>3, <2>4, <2>5
<1>8. ASSUME NEW s \in Regs, NEW i \in 1 .. Len(queue'[s])
      PROVE  queue'[s][i] \in Queued(s) \ {Head(queue[r])}
  <2>1. CASE s = r
    <3>1. i + 1 \in 1 .. Len(queue[r]) /\ queue'[r][i] = queue[r][i + 1] /\ i + 1 # 1
      BY <2>1, <1>2, <1>5
    <3> QED
      BY <2>1, <3>1, <1>2 DEF QueuedOnce, Queued
  <2>2. CASE s # r
    BY <2>2, <1>2, <1>6 DEF QueuedOnce, Queued
  <2> QED
    BY <2>1, <2>2
<1> QED
  BY <1>2, <1>3, <1>7, <1>8 DEF Queued

LEMMA JobAppended ==
  ASSUME TypeOK, QueuedOnce, NEW j \in Jobs, NEW w \in Regs,
         queue' = [queue EXCEPT ![w] = Append(@, j)],
         \A r \in Regs : j \notin Queued(r)
  PROVE  /\ QueuedOnce'
         /\ \A r \in Regs : Queued(r)' \subseteq IF r = w THEN Queued(r) \cup {j} ELSE Queued(r)
<1>1. queue[w] \in Seq(Jobs) /\ queue \in [Regs -> Seq(Jobs)] /\ Len(queue[w]) \in Nat
  BY DEF TypeOK
<1>2. /\ Len(queue'[w]) = Len(queue[w]) + 1
      /\ \A i \in 1 .. Len(queue[w]) : queue'[w][i] = queue[w][i]
      /\ queue'[w][Len(queue[w]) + 1] = j
  BY <1>1
<1>3. \A i \in 1 .. Len(queue'[w]) : i \in 1 .. Len(queue[w]) \/ i = Len(queue[w]) + 1
  BY <1>1, <1>2
<1>4. \A s \in Regs : s # w => queue'[s] = queue[s]
  BY <1>1
<1>5. \A r \in Regs : \A i \in 1 .. Len(queue[r]) : queue[r][i] # j
  BY DEF Queued
<1>6. QueuedOnce'
  <2> SUFFICES ASSUME NEW u \in Regs, NEW v \in Regs,
                      NEW i \in 1 .. Len(queue'[u]), NEW k \in 1 .. Len(queue'[v]),
                      queue'[u][i] = queue'[v][k]
               PROVE  u = v /\ i = k
    BY DEF QueuedOnce
  <2>2. CASE u = w /\ v = w
    BY <2>2, <1>2, <1>3, <1>5 DEF QueuedOnce
  <2>3. CASE u = w /\ v # w
    BY <2>3, <1>2, <1>3, <1>4, <1>5 DEF QueuedOnce
  <2>4. CASE u # w /\ v = w
    BY <2>4, <1>2, <1>3, <1>4, <1>5 DEF QueuedOnce
  <2>5. CASE u # w /\ v # w
    BY <2>5, <1>4 DEF QueuedOnce
  <2> QED
    BY <2>2, <2>3, <2>4, <2>5
<1>7. \A r \in Regs : Queued(r)' \subseteq IF r = w THEN Queued(r) \cup {j} ELSE Queued(r)
  BY <1>2, <1>3, <1>4 DEF Queued
<1> QED
  BY <1>6, <1>7

(* Each handler keeps the queues' jobs and the held jobs as they should be.*)
LEMMA JobsOfAdmin ==
  ASSUME DispatchInv, QueuedOnce, JobInv, AdminStep
  PROVE  QueuedOnce' /\ JobInv'
<1> USE NoneAssumption DEF DispatchInv, registry, work, jobs
<1>1. queue' = queue
  BY DEF AdminStep, Register, Revoke, Rename, MoveWorker
<1>2. QueuedOnce' /\ \A r \in Regs : Queued(r)' = Queued(r)
  BY <1>1 DEF QueuedOnce, Queued
<1>3. \A r \in Regs : Queued(r) \subseteq Jobs
  BY DEF Queued, TypeOK
<1>4. ASSUME NEW r \in Regs, NEW n \in Names, Register(r, n) PROVE JobInv'
  <2>1. tokens[r] = None /\ wstate[r] = "stopped" /\ wjob[r] = None
    BY <1>4 DEF Register, TokensIssued, JobInv, HeldAsFar
  <2>2. QueuedUntouched'
    BY <1>2, <1>3, <1>4, <2>1 DEF JobInv, QueuedUntouched, Untouched, Register, TypeOK
  <2>3. HeldAsFar'
    BY <1>4, <2>1 DEF JobInv, HeldAsFar, Untouched, Register, TypeOK
  <2>4. HeldOnce' /\ Outcomes' /\ AnswersItsOwn'
    BY <1>4, <2>1 DEF JobInv, HeldOnce, Outcomes, AnswersItsOwn, Register, TypeOK
  <2> QED
    BY <2>2, <2>3, <2>4 DEF JobInv
<1>5. ASSUME NEW n \in Names, Revoke(n) PROVE JobInv'
  <2>1. /\ UNCHANGED <<issued, polls, left, call, wstate, wjob, ran>>
        /\ \A j \in Jobs : assigned'[j] = IF assigned[j] = n THEN None ELSE assigned[j]
        /\ \A j \in Jobs : future'[j] \in {future[j], "cancelled"}
        /\ \A j \in Jobs : future'[j] # future[j] => future[j] = "open"
        /\ \A r \in Regs : tokens'[r] = IF tokens[r] = n THEN None ELSE tokens[r]
    BY <1>5 DEF Revoke, CancelJobs, Forget, CancelFutures, PendingOf, TypeOK, RegistryConsistent
  <2>2. QueuedUntouched'
    BY <1>2, <1>3, <2>1 DEF JobInv, QueuedUntouched, Untouched, TypeOK
  <2>3. HeldAsFar'
    BY <2>1 DEF JobInv, HeldAsFar, Untouched, TypeOK
  <2>4. HeldOnce' /\ Outcomes' /\ AnswersItsOwn'
    BY <2>1 DEF JobInv, HeldOnce, Outcomes, AnswersItsOwn, TypeOK
  <2> QED
    BY <2>2, <2>3, <2>4 DEF JobInv
<1>6. ASSUME NEW n \in Names, NEW m \in Names, Rename(n, m) PROVE JobInv'
  <2>1. /\ UNCHANGED <<issued, polls, left, call, future, wstate, wjob, ran>>
        /\ \A j \in Jobs : assigned'[j] = IF assigned[j] = n THEN m ELSE assigned[j]
        /\ \A r \in Regs : tokens'[r] = IF tokens[r] = n THEN m ELSE tokens[r]
    BY <1>6 DEF Rename, MoveWorker, TypeOK, RegistryConsistent
  <2>5. \A j \in Jobs, r \in Regs :
          assigned[j] \in {None, tokens[r]} => assigned'[j] \in {None, tokens'[r]}
    BY <2>1
  <2>2. QueuedUntouched'
    BY <1>2, <1>3, <2>1, <2>5 DEF JobInv, QueuedUntouched, Untouched, TypeOK
  <2>3. HeldAsFar'
    BY <2>1 DEF JobInv, HeldAsFar, Untouched, TypeOK
  <2>4. HeldOnce' /\ Outcomes' /\ AnswersItsOwn'
    BY <2>1, <2>5 DEF JobInv, HeldOnce, Outcomes, AnswersItsOwn, TypeOK
  <2> QED
    BY <2>2, <2>3, <2>4 DEF JobInv
<1> QED
  BY <1>2, <1>4, <1>5, <1>6 DEF AdminStep

LEMMA JobsOfCall ==
  ASSUME DispatchInv, QueuedOnce, JobInv, NEW j \in Jobs, CallStep(j)
  PROVE  QueuedOnce' /\ JobInv'
<1> USE NoneAssumption DEF DispatchInv, registry, work, jobs
<1>1. ASSUME NEW n \in Names, NEW t \in CallTimeouts, Call(j, n, t)
      PROVE  QueuedOnce' /\ JobInv'
  <2> DEFINE w == workers[n]
  <2>1. w \in Regs /\ tokens[w] = n /\ call[j] = "idle"
    BY <1>1 DEF Call, TypeOK, RegistryConsistent
  <2>2. \A r \in Regs : j \notin Queued(r) /\ wjob[r] # j
    BY <2>1 DEF JobInv, QueuedUntouched, Untouched, HeldAsFar
  <2>3. queue' = [queue EXCEPT ![w] = Append(@, j)]
    BY <1>1 DEF Call
  <2> HIDE DEF w
  <2>4. /\ QueuedOnce'
        /\ \A r \in Regs : Queued(r)' \subseteq IF r = w THEN Queued(r) \cup {j} ELSE Queued(r)
    BY <2>1, <2>2, <2>3, JobAppended
  <2>5. ran[j] = 0
    BY <2>1 DEF JobInv, Outcomes
  <2>6. /\ UNCHANGED <<issued, tokens, polls, wstate, wjob, ran>>
        /\ assigned' = [assigned EXCEPT ![j] = n]
        /\ future'   = [future EXCEPT ![j] = "open"]
        /\ call'     = [call EXCEPT ![j] = "waiting"]
    BY <1>1 DEF Call
  <2>7. \A r \in Regs : Queued(r) \subseteq Jobs
    BY DEF Queued, TypeOK
  <2>8. QueuedUntouched'
    BY <2>1, <2>2, <2>4, <2>5, <2>6, <2>7 DEF JobInv, QueuedUntouched, Untouched, TypeOK
  <2>9. HeldAsFar'
    BY <2>2, <2>6 DEF JobInv, HeldAsFar, Untouched, TypeOK
  <2>10. HeldOnce' /\ Outcomes' /\ AnswersItsOwn'
    BY <2>2, <2>5, <2>6 DEF JobInv, HeldOnce, Outcomes, AnswersItsOwn, TypeOK
  <2> QED
    BY <2>4, <2>8, <2>9, <2>10 DEF JobInv
<1>2. ASSUME CallReturn(j) \/ CallTimeout(j) \/ CallCancelled(j) \/ CallClosed(j)
      PROVE  QueuedOnce' /\ JobInv'
  <2>1. /\ UNCHANGED <<issued, tokens, queue, polls, wstate, wjob, ran>>
        /\ call[j] = "waiting"
        /\ \A i \in Jobs : assigned'[i] \in {None, assigned[i]}
        /\ future' = [future EXCEPT ![j] = "none"]
        /\ \E c \in {"returned", "declined", "failed"} :
             /\ call' = [call EXCEPT ![j] = c]
             /\ c # "failed" => future[j] \in {"result", "declined"}
    BY <1>2 DEF CallReturn, CallTimeout, CallCancelled, CallClosed, EndCall, Forget, TypeOK
  <2>2. QueuedOnce' /\ \A r \in Regs : Queued(r)' = Queued(r)
    BY <2>1 DEF QueuedOnce, Queued
  <2>3. \A r \in Regs : Queued(r) \subseteq Jobs
    BY DEF Queued, TypeOK
  <2>4. PICK c \in {"returned", "declined", "failed"} :
             /\ call' = [call EXCEPT ![j] = c]
             /\ c # "failed" => future[j] \in {"result", "declined"}
    BY <2>1
  <2>5. QueuedUntouched'
    BY <2>1, <2>2, <2>3, <2>4 DEF JobInv, QueuedUntouched, Untouched, TypeOK
  <2>6. HeldAsFar'
    BY <2>1, <2>4 DEF JobInv, HeldAsFar, Untouched, TypeOK
  <2>7. HeldOnce' /\ Outcomes' /\ AnswersItsOwn'
    BY <2>1, <2>4 DEF JobInv, HeldOnce, Outcomes, AnswersItsOwn, TypeOK
  <2> QED
    BY <2>2, <2>5, <2>6, <2>7 DEF JobInv
<1> QED
  BY <1>1, <1>2 DEF CallStep

LEMMA JobsOfPoll ==
  ASSUME DispatchInv, QueuedOnce, JobInv, NEW r \in Regs, PollStep(r)
  PROVE  QueuedOnce' /\ JobInv'
<1> USE NoneAssumption DEF DispatchInv, registry, work, jobs
<1>0. \A s \in Regs : Queued(s) \subseteq Jobs
  BY DEF Queued, TypeOK
<1>1. ASSUME UNCHANGED <<issued, tokens, queue, assigned, future, call, wjob, ran>>,
             \A s \in Regs :
               /\ wstate'[s] = wstate[s] \/
                    {wstate'[s], wstate[s]} \subseteq {"idle", "polling", "stopped"}
               /\ "live" \in polls'[s] => wstate'[s] = "polling"
               /\ s \notin issued => wstate'[s] = "stopped"
      PROVE  QueuedOnce' /\ JobInv'
  <2>1. QueuedOnce' /\ \A s \in Regs : Queued(s)' = Queued(s)
    BY <1>1 DEF QueuedOnce, Queued
  <2>2. QueuedUntouched'
    BY <1>0, <1>1, <2>1 DEF JobInv, QueuedUntouched, Untouched, TypeOK
  <2>3. HeldAsFar'
    BY <1>1 DEF JobInv, HeldAsFar, Untouched, TypeOK
  <2>4. HeldOnce' /\ Outcomes' /\ AnswersItsOwn'
    BY <1>1 DEF JobInv, HeldOnce, Outcomes, AnswersItsOwn, TypeOK
  <2> QED
    BY <2>1, <2>2, <2>3, <2>4 DEF JobInv
<1>2. CASE PollStart(r)
  <2>1. r \in issued
    BY <1>2 DEF PollStart, TokenValid, TokensIssued
  <2> QED
    BY <1>1, <1>2, <2>1 DEF PollStart, TypeOK, JobInv, HeldAsFar
<1>3. CASE PollDrop(r)
  BY <1>1, <1>3 DEF PollDrop, TypeOK, JobInv, HeldAsFar
<1>4. CASE PollRefused(r)
  <2>1. wjob[r] = None /\ wjob' = wjob
    BY <1>4 DEF PollRefused, Halt, JobInv, HeldAsFar, TypeOK
  <2> QED
    BY <1>1, <1>4, <2>1 DEF PollRefused, Halt, TypeOK, JobInv, HeldAsFar
<1>5. ASSUME NEW p \in PollKinds, PollTimeout(r, p) PROVE QueuedOnce' /\ JobInv'
  BY <1>1, <1>5 DEF PollTimeout, TypeOK, JobInv, HeldAsFar
<1>6. ASSUME NEW p \in PollKinds, PollSkip(r, p) PROVE QueuedOnce' /\ JobInv'
  <2>1. QueuedOnce' /\ \A s \in Regs : Queued(s)' \subseteq Queued(s)
    BY <1>6, HeadTaken DEF PollSkip
  <2>2. UNCHANGED <<issued, tokens, polls, assigned, future, call, wstate, wjob, ran>>
    BY <1>6 DEF PollSkip
  <2>3. QueuedUntouched'
    BY <1>0, <2>1, <2>2 DEF JobInv, QueuedUntouched, Untouched, TypeOK
  <2>4. HeldAsFar' /\ HeldOnce' /\ Outcomes' /\ AnswersItsOwn'
    BY <2>2 DEF JobInv, HeldAsFar, Untouched, HeldOnce, Outcomes, AnswersItsOwn, TypeOK
  <2> QED
    BY <2>1, <2>3, <2>4 DEF JobInv
<1>7. ASSUME NEW p \in PollKinds, PollExpire(r, p) PROVE QueuedOnce' /\ JobInv'
  <2>1. QueuedOnce' /\ \A s \in Regs : Queued(s)' \subseteq Queued(s)
    BY <1>7, HeadTaken DEF PollExpire
  <2>2. /\ UNCHANGED <<issued, tokens, polls, call, wstate, wjob, ran>>
        /\ \A j \in Jobs : assigned'[j] \in {None, assigned[j]}
        /\ \A j \in Jobs : future'[j] \in {future[j], "cancelled"}
        /\ \A j \in Jobs : future'[j] # future[j] => future[j] = "open"
    BY <1>7 DEF PollExpire, CancelJobs, Forget, CancelFutures, TypeOK
  <2>3. QueuedUntouched'
    BY <1>0, <2>1, <2>2 DEF JobInv, QueuedUntouched, Untouched, TypeOK
  <2>4. HeldAsFar'
    BY <2>2 DEF JobInv, HeldAsFar, Untouched, TypeOK
  <2>5. HeldOnce' /\ Outcomes' /\ AnswersItsOwn'
    BY <2>2 DEF JobInv, HeldOnce, Outcomes, AnswersItsOwn, TypeOK
  <2> QED
    BY <2>1, <2>3, <2>4, <2>5 DEF JobInv
<1>8. ASSUME NEW p \in PollKinds, PollDeliver(r, p) PROVE QueuedOnce' /\ JobInv'
  <2> DEFINE j == Head(queue[r])
  <2>1. /\ QueuedOnce' /\ j \in Queued(r) /\ j \in Jobs
        /\ \A s \in Regs : Queued(s)' \subseteq Queued(s) \ {j}
    BY <1>8, HeadTaken DEF PollDeliver
  <2>2. Untouched(j) /\ assigned[j] \in {None, tokens[r]} /\ \A s \in Regs : wjob[s] # j
    BY <2>1 DEF JobInv, QueuedUntouched
  <2>3. /\ UNCHANGED <<issued, tokens, assigned, future, call, ran>>
        /\ polls' = [polls EXCEPT ![r] = @ \ {p}]
    BY <1>8 DEF PollDeliver
  <2>4. \/ /\ p = "live"
           /\ wstate' = [wstate EXCEPT ![r] = "received"]
           /\ wjob'   = [wjob EXCEPT ![r] = j]
        \/ /\ wstate' = [wstate EXCEPT ![r] = IF p = "live" THEN "idle" ELSE @]
           /\ wjob'   = wjob
    BY <1>8 DEF PollDeliver
  <2>5. p = "live" => wstate[r] = "polling"
    BY <1>8 DEF PollDeliver, Wakes, JobInv, HeldAsFar
  <2> HIDE DEF j
  <2>6. \A s \in Regs : wjob'[s] \in {wjob[s], j}
    BY <2>4 DEF TypeOK
  <2>7. QueuedUntouched'
    BY <1>0, <2>1, <2>3, <2>6 DEF JobInv, QueuedUntouched, Untouched, TypeOK
  <2>8. HeldAsFar' /\ HeldOnce' /\ AnswersItsOwn'
    <3>1. CASE /\ p = "live"
               /\ wstate' = [wstate EXCEPT ![r] = "received"]
               /\ wjob'   = [wjob EXCEPT ![r] = j]
      <4>1. wjob'[r] = j /\ j # None /\ wstate'[r] = "received" /\ r \in issued /\ "live" \notin polls'[r]
        BY <2>1, <2>3, <2>5, <3>1 DEF TypeOK, JobInv, HeldAsFar
      <4>2. \A s \in Regs \ {r} : wjob'[s] = wjob[s] /\ wstate'[s] = wstate[s] /\ polls'[s] = polls[s]
        BY <2>3, <3>1 DEF TypeOK
      <4>3. HeldAsFar'
        BY <2>2, <2>3, <4>1, <4>2 DEF JobInv, HeldAsFar, Untouched
      <4>4. HeldOnce' /\ AnswersItsOwn'
        BY <2>2, <2>3, <4>1, <4>2 DEF JobInv, HeldOnce, AnswersItsOwn
      <4> QED
        BY <4>3, <4>4
    <3>2. CASE /\ wstate' = [wstate EXCEPT ![r] = IF p = "live" THEN "idle" ELSE @]
               /\ wjob'   = wjob
      BY <2>3, <2>5, <3>2 DEF JobInv, HeldAsFar, HeldOnce, Untouched, AnswersItsOwn, TypeOK
    <3> QED
      BY <2>4, <3>1, <3>2
  <2>9. Outcomes'
    BY <2>3 DEF JobInv, Outcomes
  <2> QED
    BY <2>1, <2>7, <2>8, <2>9 DEF JobInv
<1> QED
  BY <1>2, <1>3, <1>4, <1>5, <1>6, <1>7, <1>8 DEF PollStep

LEMMA JobsOfWorker ==
  ASSUME DispatchInv, QueuedOnce, JobInv, NEW r \in Regs, WorkerStep(r)
  PROVE  QueuedOnce' /\ JobInv'
<1> USE NoneAssumption DEF DispatchInv, registry, work, jobs
<1>0. \A s \in Regs : Queued(s) \subseteq Jobs
  BY DEF Queued, TypeOK
<1>1. queue' = queue /\ UNCHANGED <<issued, tokens, call>>
  BY DEF WorkerStep, Execute, Decline, Finish, Heartbeat, Submit, SubmitRefused, Halt,
         WorkerCrash, Resume
<1>2. QueuedOnce' /\ \A s \in Regs : Queued(s)' = Queued(s)
  BY <1>1 DEF QueuedOnce, Queued
<1>3. CASE Execute(r)
  <2> DEFINE j == wjob[r]
  <2>1. /\ j \in Jobs /\ j # None /\ Untouched(j)
        /\ \A s \in Regs : s # r => wjob[s] # j
        /\ \A s \in Regs : j \notin Queued(s)
    <3>1. wstate[r] = "received"
      BY <1>3 DEF Execute
    <3>2. wjob[r] # None
      BY <3>1 DEF JobInv, HeldAsFar
    <3>3. wjob[r] \in Jobs
      BY <3>2 DEF TypeOK
    <3>4. Untouched(wjob[r])
      BY <3>1 DEF JobInv, HeldAsFar
    <3>5. \A s \in Regs : s # r => wjob[s] # wjob[r]
      BY <3>2 DEF JobInv, HeldOnce
    <3>6. \A s \in Regs : wjob[r] \notin Queued(s)
      BY DEF JobInv, QueuedUntouched
    <3> QED
      BY <3>2, <3>3, <3>4, <3>5, <3>6
  <2>2. /\ UNCHANGED <<polls, assigned, future, wjob>>
        /\ wstate[r] = "received"
        /\ wstate' = [wstate EXCEPT ![r] = "running"]
        /\ ran'    = [ran EXCEPT ![j] = @ + 1]
    BY <1>3 DEF Execute
  <2> HIDE DEF j
  <2>3. /\ ran'[j] = 1
        /\ \A i \in Jobs \ {j} : ran'[i] = ran[i]
        /\ wstate'[r] = "running"
        /\ \A s \in Regs \ {r} : wstate'[s] = wstate[s]
    BY <2>1, <2>2 DEF TypeOK, Untouched
  <2>4. QueuedUntouched'
    BY <1>0, <1>1, <1>2, <2>1, <2>2, <2>3 DEF JobInv, QueuedUntouched, Untouched
  <2>5. HeldAsFar'
    <3>1. \A s \in Regs \ {r} : wjob[s] \in (Jobs \ {j}) \cup {None}
      BY <2>1 DEF TypeOK
    <3>2. j = wjob[r]
      BY DEF j
    <3>3. ASSUME NEW s \in Regs \ {r}, wjob[s] # None PROVE ran'[wjob[s]] = ran[wjob[s]]
      BY <2>3, <3>1, <3>3
    <3> QED
      BY <1>1, <2>1, <2>2, <2>3, <3>1, <3>2, <3>3 DEF JobInv, HeldAsFar, Untouched, TypeOK
  <2>6. HeldOnce' /\ Outcomes' /\ AnswersItsOwn'
    BY <1>1, <2>1, <2>2, <2>3 DEF JobInv, HeldOnce, Outcomes, Untouched, AnswersItsOwn, TypeOK
  <2> QED
    BY <1>2, <2>4, <2>5, <2>6 DEF JobInv
<1>4. CASE Decline(r) \/ Finish(r)
  <2>1. /\ UNCHANGED <<polls, assigned, future, wjob, ran>>
        /\ \/ wstate[r] = "received" /\ wstate' = [wstate EXCEPT ![r] = "declining"]
           \/ wstate[r] = "running" /\ wstate' = [wstate EXCEPT ![r] = "submitting"]
    BY <1>4 DEF Decline, Finish
  <2>2. QueuedUntouched'
    BY <1>0, <1>1, <1>2, <2>1 DEF JobInv, QueuedUntouched, Untouched, TypeOK
  <2>3. HeldAsFar'
    BY <1>1, <2>1 DEF JobInv, HeldAsFar, Untouched, TypeOK
  <2>4. HeldOnce' /\ Outcomes' /\ AnswersItsOwn'
    BY <1>1, <2>1 DEF JobInv, HeldOnce, Outcomes, AnswersItsOwn, TypeOK
  <2> QED
    BY <1>2, <2>2, <2>3, <2>4 DEF JobInv
<1>5. CASE Heartbeat(r)
  <2>1. UNCHANGED <<polls, assigned, future, wstate, wjob, ran>>
    BY <1>5 DEF Heartbeat
  <2>2. QueuedUntouched'
    BY <1>0, <1>1, <1>2, <2>1 DEF JobInv, QueuedUntouched, Untouched, TypeOK
  <2>3. HeldAsFar' /\ HeldOnce' /\ Outcomes' /\ AnswersItsOwn'
    BY <1>1, <2>1 DEF JobInv, HeldAsFar, Untouched, HeldOnce, Outcomes, AnswersItsOwn, TypeOK
  <2> QED
    BY <1>2, <2>2, <2>3 DEF JobInv
<1>6. CASE Submit(r)
  <2> DEFINE j == wjob[r]
             answer == IF wstate[r] = "submitting" THEN "result" ELSE "declined"
  <2>1. /\ wstate[r] \in {"submitting", "declining"} /\ j \in Jobs /\ j # None
        /\ \A s \in Regs : s # r => wjob[s] # j
        /\ \A s \in Regs : j \notin Queued(s)
        /\ ran[j] = IF wstate[r] = "submitting" THEN 1 ELSE 0
        /\ r \in issued
    BY <1>6 DEF Submit, Submitting, JobInv, HeldAsFar, HeldOnce, QueuedUntouched, TypeOK
  <2>2. /\ UNCHANGED <<polls, ran>>
        /\ \/ /\ wstate' = [wstate EXCEPT ![r] = "idle"]
              /\ wjob'   = [wjob EXCEPT ![r] = None]
           \/ UNCHANGED <<wstate, wjob>>
    BY <1>6 DEF Submit
  <2>3. /\ \A i \in Jobs : assigned'[i] \in {None, assigned[i]}
        /\ \A i \in Jobs \ {j} : future'[i] = future[i]
        /\ future'[j] # future[j] =>
             future[j] = "open" /\ future'[j] = answer
    BY <1>6 DEF Submit, TakeResult, TypeOK
  <2> HIDE DEF j
  <2>4. future'[j] # future[j] => future[j] = "open" /\
          future'[j] = IF ran[j] = 1 THEN "result" ELSE "declined"
    BY <2>1, <2>3
  <2> HIDE DEF answer
  <2>5. \A s \in Regs : wjob'[s] \in {None, wjob[s]}
    BY <2>2 DEF TypeOK
  <2>6. QueuedUntouched'
    BY <1>0, <1>1, <1>2, <2>1, <2>2, <2>3, <2>5 DEF JobInv, QueuedUntouched, Untouched, TypeOK
  <2>7. HeldAsFar'
    <3>1. wjob[r] = j /\ wstate[r] # "polling" /\ "live" \notin polls[r]
      BY <2>1 DEF j, JobInv, HeldAsFar
    <3>2. \A s \in Regs \ {r} : wjob[s] # None => future'[wjob[s]] = future[wjob[s]]
      BY <2>1, <2>3 DEF TypeOK
    <3>3. CASE UNCHANGED <<wstate, wjob>>
      BY <1>1, <2>1, <2>2, <3>1, <3>2, <3>3 DEF JobInv, HeldAsFar, Untouched, TypeOK
    <3>4. CASE /\ wstate' = [wstate EXCEPT ![r] = "idle"]
               /\ wjob'   = [wjob EXCEPT ![r] = None]
      BY <1>1, <2>1, <2>2, <3>1, <3>2, <3>4 DEF JobInv, HeldAsFar, Untouched, TypeOK
    <3> QED
      BY <2>2, <3>3, <3>4
  <2>8. HeldOnce' /\ AnswersItsOwn'
    BY <1>1, <2>3, <2>5 DEF JobInv, HeldOnce, AnswersItsOwn, TypeOK
  <2>9. Outcomes'
    BY <1>1, <2>2, <2>3, <2>4 DEF JobInv, Outcomes, TypeOK
  <2> QED
    BY <1>2, <2>6, <2>7, <2>8, <2>9 DEF JobInv
<1>7. CASE SubmitRefused(r) \/ WorkerCrash(r) \/ Resume(r)
  <2>1. /\ UNCHANGED <<assigned, future, ran>>
        /\ \A s \in Regs : "live" \in polls'[s] => "live" \in polls[s] /\ (s # r \/ wstate[r] # "polling")
        /\ \A s \in Regs \ {r} : wstate'[s] = wstate[s] /\ wjob'[s] = wjob[s]
        /\ wstate'[r] \in {"stopped", "idle"} /\ wjob'[r] = None
        /\ r \notin issued => wstate'[r] = "stopped"
    <3>1. CASE SubmitRefused(r)
      BY <3>1 DEF SubmitRefused, Submitting, Halt, TypeOK
    <3>2. CASE WorkerCrash(r)
      <4>1. \A s \in Regs : "live" \in polls'[s] => "live" \in polls[s] /\ s # r
        BY <3>2 DEF WorkerCrash, TypeOK
      <4> QED
        BY <3>2, <4>1 DEF WorkerCrash, Halt, TypeOK
    <3>3. CASE Resume(r)
      BY <3>3 DEF Resume, TokenValid, TokensIssued, JobInv, HeldAsFar, TypeOK
    <3> QED
      BY <1>7, <3>1, <3>2, <3>3
  <2>2. QueuedUntouched'
    BY <1>0, <1>1, <1>2, <2>1 DEF JobInv, QueuedUntouched, Untouched, TypeOK
  <2>3. HeldAsFar'
    BY <1>1, <2>1 DEF JobInv, HeldAsFar, Untouched, TypeOK
  <2>4. \A s \in Regs : wjob'[s] \in {None, wjob[s]}
    BY <2>1
  <2>5. HeldOnce'
    BY <2>4 DEF JobInv, HeldOnce
  <2>6. Outcomes'
    BY <1>1, <2>1 DEF JobInv, Outcomes
  <2>7. AnswersItsOwn'
    BY <1>1, <2>1, <2>4 DEF JobInv, AnswersItsOwn
  <2> QED
    BY <1>2, <2>2, <2>3, <2>5, <2>6, <2>7 DEF JobInv
<1> QED
  BY <1>3, <1>4, <1>5, <1>6, <1>7 DEF WorkerStep

LEMMA JobsOfRest ==
  ASSUME DispatchInv, QueuedOnce, JobInv,
         Tick \/ Close \/ Restart \/ UNCHANGED vars \/ \E r \in Regs : GoesQuiet(r)
  PROVE  QueuedOnce' /\ JobInv'
<1> USE NoneAssumption DEF DispatchInv, registry, work, jobs
<1>0. \A s \in Regs : Queued(s) \subseteq Jobs
  BY DEF Queued, TypeOK
<1>1. \A r \in Regs : queue'[r] \in {queue[r], <<>>}
  BY DEF Tick, Close, Restart, GoesQuiet, vars, TypeOK
<1>2. QueuedOnce' /\ \A r \in Regs : Queued(r)' \subseteq Queued(r)
  BY <1>1, QueuesShrink
<1>3. /\ UNCHANGED <<issued, tokens, wjob, ran>>
      /\ \A j \in Jobs : assigned'[j] \in {None, assigned[j]}
      /\ \A j \in Jobs : \/ future'[j] = future[j] /\ call'[j] = call[j]
                         \/ future'[j] = "cancelled" /\ future[j] = "open" /\ call'[j] = call[j]
                         \/ future'[j] = "none" /\ call'[j] \in {call[j], "failed"} /\ (call[j] = "idle" => call'[j] = "idle")
      /\ \A r \in Regs : wstate'[r] = wstate[r] \/ (wstate[r] = "polling" /\ wstate'[r] = "idle")
      /\ \A r \in Regs : "live" \in polls'[r] => "live" \in polls[r] /\ wstate'[r] = wstate[r]
  <2>1. CASE Tick
    BY <2>1 DEF Tick
  <2>2. CASE Close
    <3>1. UNCHANGED <<issued, tokens, wjob, ran, call>> /\ \A j \in Jobs : assigned'[j] = None
      BY <2>2 DEF Close
    <3>2. \A j \in Jobs : \/ future'[j] = future[j]
                          \/ future'[j] = "cancelled" /\ future[j] = "open"
      BY <2>2 DEF Close, CancelFutures, TypeOK
    <3>3. /\ \A r \in Regs : wstate'[r] = wstate[r] \/ (wstate[r] = "polling" /\ wstate'[r] = "idle")
          /\ \A r \in Regs : "live" \in polls'[r] => "live" \in polls[r] /\ wstate'[r] = wstate[r]
      BY <2>2 DEF Close, DropPolls, TypeOK
    <3> QED
      BY <3>1, <3>2, <3>3
  <2>3. CASE Restart
    <3>1. UNCHANGED <<issued, tokens, wjob, ran>> /\ \A j \in Jobs : assigned'[j] = None
      BY <2>3 DEF Restart
    <3>2. \A j \in Jobs : future'[j] = "none" /\ call'[j] \in {call[j], "failed"} /\ (call[j] = "idle" => call'[j] = "idle")
      BY <2>3 DEF Restart
    <3>3. /\ \A r \in Regs : wstate'[r] = wstate[r] \/ (wstate[r] = "polling" /\ wstate'[r] = "idle")
          /\ \A r \in Regs : "live" \in polls'[r] => "live" \in polls[r] /\ wstate'[r] = wstate[r]
      BY <2>3 DEF Restart, DropPolls, TypeOK
    <3> QED
      BY <3>1, <3>2, <3>3
  <2>4. CASE UNCHANGED vars
    BY <2>4 DEF vars
  <2>5. CASE \E r \in Regs : GoesQuiet(r)
    BY <2>5 DEF GoesQuiet
  <2> QED
    BY <2>1, <2>2, <2>3, <2>4, <2>5
<1>4. QueuedUntouched'
  <2> SUFFICES ASSUME NEW r \in Regs, NEW j \in Queued(r)'
               PROVE  /\ Untouched(j)'
                      /\ assigned'[j] \in {None, tokens'[r]}
                      /\ \A s \in Regs : wjob'[s] # j
    BY DEF QueuedUntouched
  <2>1. j \in Queued(r) /\ j \in Jobs
    BY <1>0, <1>2
  <2>2. Untouched(j) /\ assigned[j] \in {None, tokens[r]} /\ \A s \in Regs : wjob[s] # j
    BY <2>1 DEF JobInv, QueuedUntouched
  <2>3. Untouched(j)'
    BY <1>3, <2>1, <2>2 DEF Untouched
  <2> QED
    BY <1>3, <2>1, <2>2, <2>3
<1>5. HeldAsFar'
  <2> SUFFICES ASSUME NEW r \in Regs
               PROVE /\ wjob'[r] = None <=> wstate'[r] \in {"idle", "polling", "stopped"}
                     /\ wstate'[r] = "received" => Untouched(wjob[r])'
                     /\ wstate'[r] \in {"running", "submitting"} => ran'[wjob'[r]] = 1
                     /\ wstate'[r] = "declining" => ran'[wjob'[r]] = 0
                     /\ wjob'[r] # None => call'[wjob'[r]] # "idle"
                     /\ "live" \in polls'[r] => wstate'[r] = "polling"
                     /\ r \notin issued' => wstate'[r] = "stopped"
    BY DEF HeldAsFar
  <2>1. wjob[r] \in Jobs \cup {None}
    BY DEF TypeOK
  <2>2. wstate'[r] = "received" => Untouched(wjob[r]) /\ wjob[r] \in Jobs
    BY <1>3, <2>1 DEF JobInv, HeldAsFar
  <2>3. wstate'[r] = "received" => Untouched(wjob[r])'
    BY <1>3, <2>2 DEF Untouched
  <2>4. wjob[r] # None => call[wjob[r]] # "idle" /\ call'[wjob[r]] # "idle"
    BY <1>3, <2>1 DEF JobInv, HeldAsFar
  <2> QED
    BY <1>3, <2>3, <2>4 DEF JobInv, HeldAsFar
<1>6. HeldOnce' /\ Outcomes' /\ AnswersItsOwn'
  <2>1. HeldOnce'
    BY <1>3 DEF JobInv, HeldOnce
  <2>2. Outcomes'
    BY <1>3 DEF JobInv, Outcomes
  <2>3. \A r \in Regs : wjob[r] # None => wjob[r] \in Jobs
    BY DEF TypeOK
  <2>4. AnswersItsOwn'
    BY <1>3, <2>3 DEF JobInv, AnswersItsOwn
  <2> QED
    BY <2>1, <2>2, <2>4
<1> QED
  BY <1>2, <1>4, <1>5, <1>6 DEF JobInv

(* The invariant of the jobs: it is inductive together with DispatchInv.   *)
JobsInv == DispatchInv /\ QueuedOnce /\ JobInv

LEMMA JobsInit == Init => JobsInv
<1> SUFFICES ASSUME Init PROVE JobsInv
  OBVIOUS
<1>1. DispatchInv
  BY DispatchInit
<1>2. \A r \in Regs : Len(queue[r]) = 0 /\ Queued(r) = {}
  BY DEF Init, Queued
<1>3. QueuedOnce /\ QueuedUntouched
  BY <1>2 DEF QueuedOnce, QueuedUntouched
<1>4. HeldOnce /\ HeldAsFar /\ Outcomes /\ AnswersItsOwn
  BY DEF Init, HeldOnce, HeldAsFar, Outcomes, AnswersItsOwn
<1> QED
  BY <1>1, <1>3, <1>4 DEF JobsInv, JobInv

LEMMA JobsStep == JobsInv /\ [Next]_vars => JobsInv'
<1> SUFFICES ASSUME JobsInv, [Next]_vars PROVE JobsInv'
  OBVIOUS
<1>1. DispatchInv'
  BY DispatchStep DEF JobsInv
<1>2. QueuedOnce' /\ JobInv'
  BY JobsOfAdmin, JobsOfCall, JobsOfPoll, JobsOfWorker, JobsOfRest DEF JobsInv, Next
<1> QED
  BY <1>1, <1>2 DEF JobsInv

THEOREM JobsCorrect == Spec => []JobsInv
  BY JobsInit, JobsStep, PTL DEF Spec

(* A worker's result is never refused as another worker's while a call     *)
(* waits for it.                                                           *)
THEOREM AnswersTheorem == Spec => []AnswersItsOwn
<1>1. JobsInv => AnswersItsOwn
  BY DEF JobsInv, JobInv
<1> QED
  BY <1>1, JobsCorrect, PTL

-----------------------------------------------------------------------------
(* The dispatcher implements RemoteCall.                                   *)

(* A step that does not run a tool or end a call changes nothing the       *)
(* caller sees.                                                            *)
LEMMA PromiseStep == JobsInv /\ [Next]_vars => [Promise!Next]_<<call, ran>>
<1> SUFFICES ASSUME JobsInv, [Next]_vars PROVE Promise!Next \/ UNCHANGED <<call, ran>>
  OBVIOUS
<1> USE DEF JobsInv, DispatchInv, jobs, work, registry
<1>1. ASSUME AdminStep \/ Tick \/ Close \/ UNCHANGED vars
               \/ \E r \in Regs : PollStep(r) \/ GoesQuiet(r)
      PROVE  UNCHANGED <<call, ran>>
  <2>1. ASSUME NEW r \in Regs, PollStep(r) PROVE UNCHANGED <<call, ran>>
    BY <2>1 DEF PollStep, PollStart, PollDrop, PollRefused, Halt, PollTimeout, PollSkip,
                PollExpire, PollDeliver
  <2> QED
    BY <1>1, <2>1 DEF AdminStep, Register, Revoke, Rename, MoveWorker, Tick, Close, GoesQuiet, vars
<1>2. ASSUME NEW j \in Jobs, NEW n \in Names, NEW t \in CallTimeouts, Call(j, n, t)
      PROVE  Promise!Issue(j)
  BY <1>2 DEF Call, Promise!Issue
<1>3. ASSUME NEW j \in Jobs, CallReturn(j) PROVE Promise!Return(j) \/ Promise!Decline(j)
  <2>1. CASE future[j] = "result"
    <3>1. ran[j] = 1
      BY <2>1 DEF JobInv, Outcomes
    <3> QED
      BY <1>3, <2>1, <3>1 DEF CallReturn, EndCall, Promise!Return
  <2>2. CASE future[j] = "declined"
    <3>1. ran[j] = 0
      BY <2>2 DEF JobInv, Outcomes
    <3> QED
      BY <1>3, <2>2, <3>1 DEF CallReturn, EndCall, Promise!Decline
  <2> QED
    BY <1>3, <2>1, <2>2 DEF CallReturn
<1>4. ASSUME NEW j \in Jobs, CallTimeout(j) \/ CallCancelled(j) \/ CallClosed(j)
      PROVE  Promise!Fail
  <2>1. call[j] = "waiting" /\ call' = [call EXCEPT ![j] = "failed"] /\ ran' = ran
    BY <1>4 DEF CallTimeout, CallCancelled, CallClosed, EndCall
  <2>2. call' = [i \in Jobs |-> IF i \in {j} THEN "failed" ELSE call[i]]
    BY <2>1 DEF TypeOK
  <2>3. {j} \in SUBSET {i \in Jobs : call[i] = "waiting"}
    BY <2>1
  <2> QED
    BY <2>1, <2>2, <2>3 DEF Promise!Fail
<1>5. CASE Restart
  <2> DEFINE S == {i \in Jobs : call[i] = "waiting"}
  <2>1. call' = [i \in Jobs |-> IF i \in S THEN "failed" ELSE call[i]] /\ ran' = ran
    BY <1>5 DEF Restart
  <2>2. S \in SUBSET {i \in Jobs : call[i] = "waiting"}
    OBVIOUS
  <2> HIDE DEF S
  <2> QED
    BY <2>1, <2>2 DEF Promise!Fail, Promise!Next
<1>6. ASSUME NEW r \in Regs, Execute(r) PROVE wjob[r] \in Jobs /\ Promise!Run(wjob[r])
  <2>1. wjob[r] \in Jobs /\ Untouched(wjob[r])
    BY <1>6 DEF Execute, JobInv, HeldAsFar, TypeOK
  <2>2. call' = call /\ ran' = [ran EXCEPT ![wjob[r]] = 1]
    BY <1>6, <2>1 DEF Execute, Untouched, TypeOK
  <2> QED
    BY <2>1, <2>2 DEF Untouched, Promise!Run
<1>7. ASSUME NEW r \in Regs, WorkerStep(r), ~Execute(r) PROVE UNCHANGED <<call, ran>>
  BY <1>7 DEF WorkerStep, Decline, Finish, Heartbeat, Submit, SubmitRefused, WorkerCrash, Halt, Resume
<1> QED
  BY <1>1, <1>2, <1>3, <1>4, <1>5, <1>6, <1>7 DEF Next, CallStep, Promise!Next

(* The tool of a call runs at most once, a result is returned only after a *)
(* run, and a call that reports "expired before execution" has not run and *)
(* never will: every behaviour of the dispatcher is one of RemoteCall.     *)
THEOREM CallRefinement == Spec => ImplementsCall
<1>1. Init => Promise!Init
  BY DEF Init, Promise!Init
<1>2. JobsInv /\ [Next]_vars => [Promise!Next]_<<call, ran>>
  BY PromiseStep
<1> QED
  BY <1>1, <1>2, JobsCorrect, PTL DEF Spec, ImplementsCall, Promise!Spec

-----------------------------------------------------------------------------
(* The tombstones.  A job in a queue is outstanding, or its tombstone is   *)
(* there or was pruned: whatever ends a call buries its job, and only the  *)
(* poll that takes the job off its queue uses the tombstone up.            *)
QueuedOrBuried ==
  \A r \in Regs : \A j \in Queued(r) : closed \/ j \in pending \/ tomb[j] # Absent

PollsOpen ==
  /\ closed => \A r \in Regs : polls[r] = {}
  /\ \A r \in Regs : wstate[r] = "polling" => "live" \in polls[r]

(* A tombstone that is not too old is pruned only by number: as many as    *)
(* the cap allows are kept, and none of those is older.                    *)
THEOREM PrunedTheorem ==
  ASSUME NEW t \in [Jobs -> Ages], NEW u \in Pruned(t),
         NEW j \in Jobs, t[j] \in 0 .. TombTTL, u[j] = Lapsed
  PROVE  \E K \in SUBSET Jobs :
           /\ Cardinality(K) = TombCap
           /\ \A k \in K : u[k] = t[k] /\ t[k] \in 0 .. t[j]
<1>1. PICK K \in Kept(t) :
        u = [k \in Jobs |-> IF k \in Buried(t) \ K THEN Lapsed ELSE t[k]]
  BY DEF Pruned
<1>2. j \in Alive(t) /\ j \notin K
  BY <1>1, TombTTLAssumption DEF Alive, Buried, Lapsed
<1>3. /\ K \in SUBSET Alive(t)
      /\ Cardinality(K) = TombCap
      /\ \A kept \in K, gone \in Alive(t) \ K : t[kept] <= t[gone]
  BY <1>1, <1>2 DEF Kept
<1>4. K \in SUBSET Jobs /\ \A k \in K : t[k] \in Int /\ t[k] >= 0
  BY <1>3, TombTTLAssumption DEF Alive, Buried, Ages, Lapsed
<1>5. \A k \in K : u[k] = t[k] /\ t[k] \in 0 .. t[j]
  BY <1>1, <1>2, <1>3, <1>4, TombTTLAssumption
<1> QED
  BY <1>3, <1>4, <1>5

LEMMA ForgetKeeps ==
  ASSUME TypeOK, NEW S \in SUBSET Jobs, Forget(S)
  PROVE  /\ \A j \in S : tomb'[j] # Absent
         /\ \A j \in Jobs : tomb[j] # Absent => tomb'[j] # Absent
         /\ pending' = pending \ S
<1> DEFINE t == [j \in Jobs |-> IF j \in S THEN 0 ELSE tomb[j]]
<1>1. t \in [Jobs -> Ages] /\ tomb' \in Pruned(t) /\ pending' = pending \ S
  BY TombTTLAssumption DEF TypeOK, Ages, Lapsed, Forget
<1>2. \A j \in Jobs : t[j] = IF j \in S THEN 0 ELSE tomb[j]
  OBVIOUS
<1> HIDE DEF t
<1>3. \A j \in Jobs : tomb'[j] = t[j] \/ tomb'[j] = Lapsed
  BY <1>1, PrunedType
<1> QED
  BY <1>1, <1>2, <1>3 DEF Absent, Lapsed

LEMMA PruneKeeps ==
  ASSUME TypeOK, NEW u \in Pruned(tomb), NEW j \in Jobs, tomb[j] # Absent
  PROVE  u[j] # Absent
<1>1. tomb \in [Jobs -> Ages]
  BY DEF TypeOK, Ages
<1> QED
  BY <1>1, PrunedType DEF Absent, Lapsed

(* What a step may do to the jobs that stay in the queues.                 *)
LEMMA StaysBuried ==
  ASSUME QueuedOrBuried, closed => closed',
         \A r \in Regs : \A j \in Queued(r)' :
           /\ j \in Queued(r)
           /\ j \in pending => j \in pending' \/ tomb'[j] # Absent
           /\ tomb[j] # Absent => tomb'[j] # Absent
  PROVE  QueuedOrBuried'
  BY DEF QueuedOrBuried

LEMMA BuriedStep ==
  ASSUME JobsInv, QueuedOrBuried, [Next]_vars
  PROVE  QueuedOrBuried'
<1> USE NoneAssumption DEF JobsInv, DispatchInv, registry, work, jobs
<1>0. \A r \in Regs : Queued(r) \subseteq Jobs
  BY DEF Queued, TypeOK
<1>1. ASSUME queue' = queue, UNCHANGED <<closed, pending, tomb>>
      PROVE  QueuedOrBuried'
  <2>1. \A r \in Regs : Queued(r)' = Queued(r)
    BY <1>1 DEF Queued
  <2> QED
    BY <1>1, <2>1, StaysBuried
<1>2. ASSUME queue' = queue, UNCHANGED <<closed, pending>>, tomb' \in Pruned(tomb)
      PROVE  QueuedOrBuried'
  <2>1. \A r \in Regs : Queued(r)' = Queued(r)
    BY <1>2 DEF Queued
  <2>2. \A j \in Jobs : tomb[j] # Absent => tomb'[j] # Absent
    BY <1>2, PruneKeeps
  <2> QED
    BY <1>0, <1>2, <2>1, <2>2, StaysBuried
<1>3. ASSUME NEW S \in SUBSET Jobs, Forget(S), UNCHANGED closed,
             \A r \in Regs : Queued(r)' \subseteq Queued(r)
      PROVE  QueuedOrBuried'
  <2>1. /\ \A j \in S : tomb'[j] # Absent
        /\ \A j \in Jobs : tomb[j] # Absent => tomb'[j] # Absent
        /\ pending' = pending \ S
    BY <1>3, ForgetKeeps
  <2> QED
    BY <1>0, <1>3, <2>1, StaysBuried
<1>4. ASSUME AdminStep PROVE QueuedOrBuried'
  <2>1. ASSUME NEW n \in Names, Revoke(n) PROVE QueuedOrBuried'
    <3>1. Forget(PendingOf(n)) /\ UNCHANGED <<closed, queue>> /\ PendingOf(n) \in SUBSET Jobs
      BY <2>1 DEF Revoke, CancelJobs, PendingOf
    <3>2. \A r \in Regs : Queued(r)' \subseteq Queued(r)
      BY <3>1 DEF Queued
    <3> QED
      BY <1>3, <3>1, <3>2
  <2> QED
    BY <1>1, <1>4, <2>1 DEF AdminStep, Register, Rename, MoveWorker
<1>5. ASSUME NEW j \in Jobs, NEW n \in Names, NEW t \in CallTimeouts, Call(j, n, t)
      PROVE  QueuedOrBuried'
  <2> DEFINE w == workers[n]
  <2>1. w \in Regs /\ call[j] = "idle"
    BY <1>5 DEF Call, TypeOK
  <2>2. \A r \in Regs : j \notin Queued(r)
    BY <2>1 DEF JobInv, QueuedUntouched, Untouched
  <2>3. queue' = [queue EXCEPT ![w] = Append(@, j)]
    BY <1>5 DEF Call
  <2> HIDE DEF w
  <2>4. \A r \in Regs : Queued(r)' \subseteq IF r = w THEN Queued(r) \cup {j} ELSE Queued(r)
    BY <2>1, <2>2, <2>3, JobAppended
  <2>5. UNCHANGED <<closed, tomb>> /\ pending' = pending \cup {j}
    BY <1>5 DEF Call
  <2> QED
    BY <1>0, <2>4, <2>5 DEF QueuedOrBuried
<1>6. ASSUME NEW j \in Jobs, CallReturn(j) PROVE QueuedOrBuried'
  <2>1. /\ UNCHANGED <<closed, queue, tomb>>
        /\ pending' = pending \ {j} /\ future[j] \in {"result", "declined"}
    BY <1>6 DEF CallReturn
  <2>2. \A r \in Regs : Queued(r)' = Queued(r) /\ j \notin Queued(r)
    BY <2>1 DEF Queued, JobInv, QueuedUntouched, Untouched
  <2> QED
    BY <2>1, <2>2, StaysBuried
<1>7. ASSUME NEW j \in Jobs, CallTimeout(j) \/ CallCancelled(j) PROVE QueuedOrBuried'
  <2>1. Forget({j}) /\ UNCHANGED <<closed, queue>>
    BY <1>7 DEF CallTimeout, CallCancelled
  <2>2. \A r \in Regs : Queued(r)' \subseteq Queued(r)
    BY <2>1 DEF Queued
  <2> QED
    BY <1>3, <2>1, <2>2
<1>8. ASSUME NEW j \in Jobs, CallClosed(j) PROVE QueuedOrBuried'
  BY <1>1, <1>8 DEF CallClosed
<1>9. ASSUME NEW r \in Regs, NEW p \in PollKinds, PollSkip(r, p) PROVE QueuedOrBuried'
  <2> DEFINE j == Head(queue[r])
  <2>1. j \in Jobs /\ \A s \in Regs : Queued(s)' \subseteq Queued(s) \ {j}
    BY <1>9, HeadTaken DEF PollSkip
  <2>2. PICK t \in Pruned(tomb) : tomb' = [t EXCEPT ![j] = Absent]
    BY <1>9 DEF PollSkip
  <2>3. UNCHANGED <<closed, pending>>
    BY <1>9 DEF PollSkip
  <2>4. \A i \in Jobs : tomb[i] # Absent => t[i] # Absent
    BY PruneKeeps
  <2>5. t \in [Jobs -> Ages]
    BY PrunedType DEF TypeOK, Ages
  <2> HIDE DEF j
  <2>6. \A i \in Jobs \ {j} : tomb'[i] = t[i]
    BY <2>2, <2>5
  <2> QED
    BY <1>0, <2>1, <2>3, <2>4, <2>6, StaysBuried
<1>10. ASSUME NEW r \in Regs, NEW p \in PollKinds, PollExpire(r, p) PROVE QueuedOrBuried'
  <2>1. Head(queue[r]) \in Jobs /\ \A s \in Regs : Queued(s)' \subseteq Queued(s)
    BY <1>10, HeadTaken DEF PollExpire
  <2>2. Forget({Head(queue[r])}) /\ UNCHANGED closed
    BY <1>10 DEF PollExpire, CancelJobs
  <2> QED
    BY <1>3, <2>1, <2>2
<1>11. ASSUME NEW r \in Regs, NEW p \in PollKinds, PollDeliver(r, p) PROVE QueuedOrBuried'
  <2>1. \A s \in Regs : Queued(s)' \subseteq Queued(s)
    BY <1>11, HeadTaken DEF PollDeliver
  <2>2. UNCHANGED <<closed, pending>> /\ tomb' \in Pruned(tomb)
    BY <1>11 DEF PollDeliver
  <2>3. \A j \in Jobs : tomb[j] # Absent => tomb'[j] # Absent
    BY <2>2, PruneKeeps
  <2> QED
    BY <1>0, <2>1, <2>2, <2>3, StaysBuried
<1>12. ASSUME NEW r \in Regs, Submit(r) PROVE QueuedOrBuried'
  <2> DEFINE j == wjob[r]
  <2>1. j \in Jobs /\ \A s \in Regs : j \notin Queued(s)
    BY <1>12 DEF Submit, Submitting, JobInv, HeldAsFar, QueuedUntouched, TypeOK
  <2>2. UNCHANGED <<closed, queue>>
    BY <1>12 DEF Submit
  <2>3. \A s \in Regs : Queued(s)' = Queued(s)
    BY <2>2 DEF Queued
  <2>4. \E t \in Pruned(tomb) : tomb' = t \/ tomb' = [t EXCEPT ![j] = Absent]
    BY <1>12 DEF Submit, TakeResult
  <2>5. pending \ {j} \subseteq pending'
    BY <1>12 DEF Submit, TakeResult
  <2> HIDE DEF j
  <2>6. PICK t \in Pruned(tomb) : tomb' = t \/ tomb' = [t EXCEPT ![j] = Absent]
    BY <2>4
  <2>7. t \in [Jobs -> Ages]
    BY PrunedType DEF TypeOK, Ages
  <2>8. \A i \in Jobs : tomb[i] # Absent => t[i] # Absent
    BY PruneKeeps
  <2>9. \A i \in Jobs \ {j} : tomb'[i] = t[i]
    BY <2>6, <2>7
  <2> QED
    BY <1>0, <2>1, <2>2, <2>3, <2>5, <2>8, <2>9, StaysBuried
<1>13. CASE Tick
  <2>1. /\ UNCHANGED <<closed, queue, pending>>
        /\ \A j \in Jobs : tomb[j] # Absent => tomb'[j] # Absent
    BY <1>13 DEF Tick, Alive, Buried, Absent, TypeOK
  <2>2. \A r \in Regs : Queued(r)' = Queued(r)
    BY <2>1 DEF Queued
  <2> QED
    BY <1>0, <2>1, <2>2, StaysBuried
<1>14. CASE Close
  BY <1>14 DEF Close, QueuedOrBuried
<1>15. CASE Restart
  <2>1. \A r \in Regs : queue'[r] = <<>>
    BY <1>15 DEF Restart
  <2>2. \A r \in Regs : Queued(r)' = {}
    BY <2>1 DEF Queued
  <2> QED
    BY <2>2 DEF QueuedOrBuried
<1>16. ASSUME NEW r \in Regs, GoesQuiet(r) \/ PollStart(r) \/ PollDrop(r) \/ PollRefused(r)
                \/ Execute(r) \/ Decline(r) \/ Finish(r) \/ WorkerCrash(r) \/ Resume(r)
      PROVE QueuedOrBuried'
  BY <1>1, <1>16 DEF GoesQuiet, PollStart, PollDrop, PollRefused, Halt, Execute, Decline, Finish,
                     WorkerCrash, Resume
<1>17. ASSUME NEW r \in Regs, NEW p \in PollKinds, PollTimeout(r, p) PROVE QueuedOrBuried'
  BY <1>1, <1>17 DEF PollTimeout
<1>18. ASSUME NEW r \in Regs, Heartbeat(r) \/ SubmitRefused(r) PROVE QueuedOrBuried'
  BY <1>1, <1>2, <1>18 DEF Heartbeat, SubmitRefused, Halt
<1>19. CASE UNCHANGED vars
  BY <1>1, <1>19 DEF vars
<1> QED
  BY <1>4, <1>5, <1>6, <1>7, <1>8, <1>9, <1>10, <1>11, <1>12, <1>13, <1>14, <1>15, <1>16,
     <1>17, <1>18, <1>19 DEF Next, CallStep, PollStep, WorkerStep

LEMMA PollsStep ==
  ASSUME JobsInv, PollsOpen, [Next]_vars
  PROVE  PollsOpen'
<1> USE DEF registry, work, jobs, JobsInv, DispatchInv
<1>1. ASSUME UNCHANGED <<closed, polls, wstate>> PROVE PollsOpen'
  BY <1>1 DEF PollsOpen
<1>2. ASSUME NEW r \in Regs, NEW n \in Names, Register(r, n) PROVE PollsOpen'
  BY <1>2 DEF Register, PollsOpen, TypeOK
<1>3. ASSUME NEW j \in Jobs, CallStep(j) PROVE PollsOpen'
  BY <1>1, <1>3 DEF CallStep, Call, CallReturn, CallTimeout, CallCancelled, CallClosed
<1>4. ASSUME NEW r \in Regs, PollStart(r) PROVE PollsOpen'
  BY <1>4 DEF PollStart, PollsOpen, TypeOK
<1>5. ASSUME NEW r \in Regs, PollDrop(r) PROVE PollsOpen'
  BY <1>5 DEF PollDrop, PollsOpen, TypeOK
<1>6. ASSUME NEW r \in Regs, PollRefused(r) PROVE PollsOpen'
  BY <1>6 DEF PollRefused, Halt, PollsOpen, TypeOK
<1>7. ASSUME NEW r \in Regs, NEW p \in PollKinds, PollTimeout(r, p) PROVE PollsOpen'
  BY <1>7 DEF PollTimeout, PollsOpen, TypeOK, PollKinds
<1>8. ASSUME NEW r \in Regs, NEW p \in PollKinds, PollSkip(r, p) \/ PollExpire(r, p)
      PROVE PollsOpen'
  BY <1>1, <1>8 DEF PollSkip, PollExpire
<1>9. ASSUME NEW r \in Regs, NEW p \in PollKinds, PollDeliver(r, p) PROVE PollsOpen'
  <2>1. /\ polls' = [polls EXCEPT ![r] = @ \ {p}] /\ p \in polls[r] /\ closed' = closed
        /\ \/ wstate' = [wstate EXCEPT ![r] = "received"] /\ p = "live"
           \/ wstate' = [wstate EXCEPT ![r] = IF p = "live" THEN "idle" ELSE @]
    BY <1>9 DEF PollDeliver, Wakes
  <2> QED
    BY <2>1 DEF PollsOpen, TypeOK, PollKinds
<1>10. ASSUME NEW r \in Regs, Execute(r) \/ Decline(r) \/ Finish(r) \/ Resume(r)
       PROVE PollsOpen'
  BY <1>10 DEF Execute, Decline, Finish, Resume, PollsOpen, TypeOK
<1>11. ASSUME NEW r \in Regs, Heartbeat(r) PROVE PollsOpen'
  BY <1>1, <1>11 DEF Heartbeat
<1>12. ASSUME NEW r \in Regs, Submit(r) PROVE PollsOpen'
  <2>1. /\ UNCHANGED <<closed, polls>>
        /\ \/ wstate' = [wstate EXCEPT ![r] = "idle"]
           \/ wstate' = wstate
    BY <1>12 DEF Submit
  <2> QED
    BY <2>1 DEF PollsOpen, TypeOK
<1>13. ASSUME NEW r \in Regs, SubmitRefused(r) \/ WorkerCrash(r) PROVE PollsOpen'
  <2>1. CASE SubmitRefused(r)
    BY <2>1 DEF SubmitRefused, Halt, PollsOpen, TypeOK
  <2>2. CASE WorkerCrash(r)
    <3>1. /\ closed' = closed
          /\ wstate' = [wstate EXCEPT ![r] = "stopped"]
          /\ polls'[r] = {"orphan" : p \in polls[r]}
          /\ \A s \in Regs \ {r} : polls'[s] = polls[s]
      BY <2>2 DEF WorkerCrash, Halt, TypeOK
    <3>2. polls[r] = {} => polls'[r] = {}
      BY <3>1
    <3> QED
      BY <3>1, <3>2 DEF PollsOpen, TypeOK
  <2> QED
    BY <1>13, <2>1, <2>2
<1>14. CASE Close \/ Restart
  BY <1>14 DEF Close, Restart, DropPolls, PollsOpen, TypeOK
<1>15. ASSUME Tick \/ UNCHANGED vars \/ (\E r \in Regs : GoesQuiet(r))
                \/ (\E n \in Names : Revoke(n)) \/ (\E n, m \in Names : Rename(n, m))
       PROVE  PollsOpen'
  BY <1>1, <1>15 DEF Tick, vars, GoesQuiet, Revoke, Rename, MoveWorker
<1> QED
  BY <1>2, <1>3, <1>4, <1>5, <1>6, <1>7, <1>8, <1>9, <1>10, <1>11, <1>12, <1>13, <1>14, <1>15
     DEF Next, AdminStep, PollStep, WorkerStep

TombsInv == JobsInv /\ QueuedOrBuried /\ PollsOpen

LEMMA TombsInit == Init => TombsInv
<1> SUFFICES ASSUME Init PROVE TombsInv
  OBVIOUS
<1>1. \A r \in Regs : Queued(r) = {}
  BY DEF Init, Queued
<1>2. QueuedOrBuried /\ PollsOpen
  BY <1>1 DEF Init, QueuedOrBuried, PollsOpen
<1> QED
  BY <1>2, JobsInit DEF TombsInv

LEMMA TombsStep == TombsInv /\ [Next]_vars => TombsInv'
<1> SUFFICES ASSUME TombsInv, [Next]_vars PROVE TombsInv'
  OBVIOUS
<1>1. JobsInv' /\ QueuedOrBuried' /\ PollsOpen'
  BY JobsStep, BuriedStep, PollsStep DEF TombsInv, JobsInv, DispatchInv
<1> QED
  BY <1>1 DEF TombsInv

(* Who receives a job: its call waits and its worker is registered, unless *)
(* its tombstone was pruned.                                               *)
LEMMA DeliveryStep ==
  ASSUME TombsInv, [Next]_vars, NEW r \in Regs, Receives(r)
  PROVE  (wjob'[r] \in pending /\ TokenValid(r)) \/ TombGone(wjob'[r])
<1> USE NoneAssumption DEF Receives, TombsInv, JobsInv, DispatchInv, registry, work, jobs
<1>1. ASSUME NEW s \in Regs, WorkerStep(s) PROVE FALSE
  BY <1>1 DEF WorkerStep, Execute, Decline, Finish, Heartbeat, Submit, SubmitRefused,
              WorkerCrash, Halt, Resume, TypeOK
<1>2. ASSUME AdminStep \/ Tick \/ Close \/ Restart \/ UNCHANGED vars
               \/ (\E s \in Regs : GoesQuiet(s)) \/ (\E j \in Jobs : CallStep(j))
      PROVE FALSE
  <2>1. ASSUME NEW s \in Regs, NEW n \in Names, Register(s, n) PROVE FALSE
    BY <2>1 DEF Register, TypeOK
  <2>2. CASE Close \/ Restart
    BY <2>2 DEF Close, Restart, DropPolls
  <2>3. ASSUME NEW j \in Jobs, CallStep(j) PROVE FALSE
    BY <2>3 DEF CallStep, Call, CallReturn, CallTimeout, CallCancelled, CallClosed
  <2>4. ASSUME NEW n \in Names, Revoke(n) PROVE FALSE
    BY <2>4 DEF Revoke
  <2>5. ASSUME NEW n \in Names, NEW m \in Names, Rename(n, m) PROVE FALSE
    BY <2>5 DEF Rename, MoveWorker
  <2>6. CASE Tick \/ UNCHANGED vars \/ \E s \in Regs : GoesQuiet(s)
    BY <2>6 DEF Tick, vars, GoesQuiet
  <2> QED
    BY <1>2, <2>1, <2>2, <2>3, <2>4, <2>5, <2>6 DEF AdminStep
<1>3. PICK s \in Regs : PollStep(s)
  BY <1>1, <1>2 DEF Next
<1>4. PICK p \in PollKinds : PollDeliver(s, p)
  BY <1>3 DEF PollStep, PollStart, PollDrop, PollRefused, Halt, PollTimeout, PollSkip,
              PollExpire, TypeOK
<1> DEFINE j == Head(queue[s])
<1>5. s = r /\ wjob'[r] = j
  BY <1>4 DEF PollDeliver, TypeOK
<1>6. j \in Queued(r) /\ j \in Jobs
  BY <1>4, <1>5, HeadTaken DEF PollDeliver
<1>7. ~closed /\ j \notin Alive(tomb)
  BY <1>4, <1>5 DEF PollDeliver, Wakes, PollsOpen
<1> HIDE DEF j
<1>8. tomb[j] \in Ages
  BY <1>6 DEF TypeOK, Ages
<1>9. CASE TombGone(j)
  BY <1>5, <1>9 DEF TombGone
<1>10. CASE ~TombGone(j)
  <2>1. tomb[j] = Absent
    BY <1>6, <1>7, <1>8, <1>10, TombTTLAssumption DEF TombGone, Alive, Buried, Ages, Absent, Lapsed
  <2>2. j \in pending
    BY <1>6, <1>7, <2>1 DEF QueuedOrBuried
  <2>3. /\ assigned[j] # None /\ workers[assigned[j]] # None
        /\ assigned[j] \in {None, tokens[r]}
    BY <1>6, <2>2 DEF Reservations, JobInv, QueuedUntouched
  <2> QED
    BY <1>5, <2>2, <2>3 DEF TokenValid
<1> QED
  BY <1>9, <1>10

(* A job is delivered only to a call that still waits for it, or its       *)
(* tombstone was pruned.                                                   *)
THEOREM DeliveryTheorem == Spec => NoDeadDelivery
<1>1. TombsInv /\ [Next]_vars =>
        [\A j \in Jobs : Delivers(j) => call[j] = "waiting" \/ TombGone(j)]_vars
  <2>1. ASSUME TombsInv, [Next]_vars, NEW j \in Jobs, Delivers(j), ~TombGone(j)
        PROVE  call[j] = "waiting"
    <3>1. PICK r \in Regs : Receives(r) /\ wjob'[r] = j
      BY <2>1 DEF Delivers, Receives
    <3>2. j \in pending
      BY <2>1, <3>1, DeliveryStep
    <3> QED
      BY <2>1, <3>2 DEF TombsInv, JobsInv, DispatchInv, Reservations
  <2> QED
    BY <2>1
<1> QED
  BY <1>1, TombsInit, TombsStep, PTL DEF Spec, NoDeadDelivery

(* A revoked worker receives no job but one whose tombstone was pruned.    *)
THEOREM RevocationTheorem == Spec => RevokedGetsNothing
<1>1. TombsInv /\ [Next]_vars =>
        [\A r \in Regs : Receives(r) => TokenValid(r) \/ TombGone(wjob'[r])]_vars
  BY DeliveryStep
<1> QED
  BY <1>1, TombsInit, TombsStep, PTL DEF Spec, RevokedGetsNothing
=============================================================================
