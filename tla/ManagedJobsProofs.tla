-------------------------- MODULE ManagedJobsProofs --------------------------
(***************************************************************************)
(* Proofs about ManagedJobs, for every set of processes and jobs and every *)
(* number of launches.                                                     *)
(***************************************************************************)
EXTENDS ManagedJobs, WellFoundedInduction, TLAPS

(* A nonempty set of naturals has a least element.                         *)
LEMMA Least ==
  ASSUME NEW S, S \subseteq Nat, S # {}
  PROVE  \E i \in S : \A k \in S : i <= k
<1>1. PICK i \in S : \A k \in S : ~ (<<k, i>> \in OpToRel(<, Nat))
  BY NatLessThanWellFounded, WFMin, Zenon
<1>2. \A k \in S : ~ (k < i)
  BY <1>1 DEF OpToRel
<1> QED
  BY <1>2

(* What the replay finds for a job is an update of that job.               *)
LEMMA FirstIsUpdate ==
  ASSUME journal \in Seq(Updates), NEW j \in Jobs, Unseen(j) # {}
  PROVE  First(j) \in Updates /\ First(j).job = j
<1>1. Unseen(j) \subseteq Nat
  BY DEF Unseen
<1>2. \E i \in Unseen(j) : \A k \in Unseen(j) : i <= k
  BY <1>1, Least
<1> DEFINE m == CHOOSE i \in Unseen(j) : \A k \in Unseen(j) : i <= k
<1>3. m \in Unseen(j)
  BY <1>2
<1>4. First(j) = journal[m]
  BY DEF First
<1> HIDE DEF m
<1>5. m \in DOMAIN journal /\ journal[m].job = j
  BY <1>3 DEF Unseen
<1>6. journal[m] \in Updates
  BY <1>5
<1> QED
  BY <1>4, <1>5, <1>6

(* One more landing of a verdict.                                          *)
LEMMA OneMore ==
  ASSUME NEW f \in [1 .. MaxLaunches -> Nat], NEW n \in 1 .. MaxLaunches
  PROVE  [f EXCEPT ![n] = @ + 1] \in [1 .. MaxLaunches -> Nat]
<1>1. f[n] + 1 \in Nat
  OBVIOUS
<1> QED
  BY <1>1

(* What the replay does to one row.                                        *)
LEMMA ReplayOne ==
  ASSUME TypeOK, NEW j \in Jobs
  PROVE  /\ Replayed[j] \in Statuses
         /\ Tokens[j] \in {None, token[j]}
         /\ Landings[j] \in [1 .. MaxLaunches -> Nat]
         /\ Replayed[j] # status[j] => status[j] \in Active /\ Replayed[j] \in Verdicts
         /\ Replayed[j] # status[j] => Tokens[j] = None
<1>0. /\ status[j] \in Statuses
      /\ landed[j] \in [1 .. MaxLaunches -> Nat]
      /\ journal \in Seq(Updates)
  BY DEF TypeOK
<1>1. CASE ~Lands(j)
  BY <1>0, <1>1 DEF Replayed, Tokens, Landings
<1>2. CASE Lands(j)
  <2>1. First(j) \in Updates
    BY <1>0, <1>2, FirstIsUpdate DEF Lands
  <2>2. First(j).status \in Verdicts /\ First(j).launch \in 1 .. MaxLaunches
    BY <2>1 DEF Updates
  <2>3. Replayed[j] = First(j).status /\ Tokens[j] = None
    BY <1>2 DEF Replayed, Tokens
  <2>4. Landings[j] = [landed[j] EXCEPT ![First(j).launch] = @ + 1]
    BY <1>2 DEF Landings
  <2>5. Landings[j] \in [1 .. MaxLaunches -> Nat]
    BY <1>0, <2>2, <2>4, OneMore
  <2>6. status[j] \in Active
    BY <1>2 DEF Lands
  <2> QED
    BY <2>2, <2>3, <2>5, <2>6 DEF Statuses, Terminal
<1> QED
  BY <1>1, <1>2

LEMMA ReplayType ==
  ASSUME TypeOK
  PROVE  /\ Replayed \in [Jobs -> Statuses]
         /\ Tokens \in [Jobs -> Procs \cup {None}]
         /\ Landings \in [Jobs -> [1 .. MaxLaunches -> Nat]]
<1>1. \A j \in Jobs : token[j] \in Procs \cup {None}
  BY DEF TypeOK
<1>2. Replayed = [j \in Jobs |-> Replayed[j]] /\ Tokens = [j \in Jobs |-> Tokens[j]]
      /\ Landings = [j \in Jobs |-> Landings[j]]
  BY DEF Replayed, Tokens, Landings
<1>3. \A j \in Jobs : /\ Replayed[j] \in Statuses
                      /\ Tokens[j] \in Procs \cup {None}
                      /\ Landings[j] \in [1 .. MaxLaunches -> Nat]
  BY <1>1, ReplayOne
<1> QED
  BY <1>2, <1>3

(* The types of the store, and that a transaction keeps them.              *)
StoreType ==
  /\ status \in [Jobs -> Statuses]
  /\ token \in [Jobs -> Procs \cup {None}]
  /\ journal \in Seq(Updates)
  /\ applied \subseteq Updates
  /\ landed \in [Jobs -> [1 .. MaxLaunches -> Nat]]

LEMMA TransactType ==
  ASSUME TypeOK,
         NEW s \in [Jobs -> Statuses], NEW t \in [Jobs -> Procs \cup {None}],
         NEW l \in [Jobs -> [1 .. MaxLaunches -> Nat]],
         Transact(s, t, l)
  PROVE  StoreType'
<1>1. Journaled \subseteq Updates
  BY DEF TypeOK, Journaled
<1>2. <<>> \in Seq(Updates) /\ {} \subseteq Updates
  OBVIOUS
<1>3. journal' \in Seq(Updates) /\ applied' \subseteq Updates
  BY <1>1, <1>2 DEF TypeOK, Transact
<1>4. status' = s /\ token' = t /\ landed' = l
  BY DEF Transact
<1> QED
  BY <1>3, <1>4 DEF StoreType

(* A transaction that sets one row after the replay keeps the types.       *)
LEMMA TransactKeepsType ==
  ASSUME TypeOK,
         NEW j \in Jobs, NEW x \in Statuses, NEW y \in Procs \cup {None},
         Transact([Replayed EXCEPT ![j] = x], [Tokens EXCEPT ![j] = y], Landings)
  PROVE  StoreType'
<1>1. /\ [Replayed EXCEPT ![j] = x] \in [Jobs -> Statuses]
      /\ [Tokens EXCEPT ![j] = y] \in [Jobs -> Procs \cup {None}]
      /\ Landings \in [Jobs -> [1 .. MaxLaunches -> Nat]]
  BY ReplayType
<1> QED
  BY <1>1, TransactType

(* So does one that only replays, and a step that leaves the store alone.  *)
LEMMA ReplayKeepsType ==
  ASSUME TypeOK, Transact(Replayed, Tokens, Landings) \/ UNCHANGED store
  PROVE  StoreType'
<1>1. CASE Transact(Replayed, Tokens, Landings)
  BY <1>1, ReplayType, TransactType
<1>2. CASE UNCHANGED store
  BY <1>2 DEF store, StoreType, TypeOK
<1> QED
  BY <1>1, <1>2

(* A refresh finds a status for the row.                                   *)
LEMMA RefreshedType ==
  ASSUME TypeOK, NEW p \in Procs, NEW j \in Jobs
  PROVE  /\ Refreshed(p, j) \in Statuses
         /\ (IF Orphaned(p, j) THEN None ELSE Tokens[j]) \in Procs \cup {None}
<1>1. Replayed[j] \in Statuses /\ Tokens[j] \in Procs \cup {None}
  BY ReplayType
<1> QED
  BY <1>1 DEF Refreshed, Statuses, Terminal, Verdicts

(* The types of the loop's state and of what only the operations write.    *)
LoopType ==
  /\ up \in [Procs -> {"open", "closing", "closed", "down"}]
  /\ task \in [Procs -> [Jobs -> TaskStates]]
  /\ cancelling \in [Procs -> SUBSET Jobs]
  /\ threads \in [Procs -> SUBSET Updates]
  /\ lease \in [Jobs -> Procs \cup {None}]
  /\ op \in [Jobs -> Procs \cup {None}]
  /\ kind \in [Jobs -> OpKinds]
  /\ owner \in [Jobs -> Procs \cup {None}]
  /\ launches \in [Jobs -> 0 .. MaxLaunches]

(* The two halves of the type invariant.                                   *)
LEMMA TypeSplit == TypeOK <=> LoopType /\ StoreType
BY DEF TypeOK, LoopType, StoreType

(* A launch keeps the types of the owner and of the launch count.          *)
LEMMA RelaunchType ==
  ASSUME LoopType, NEW p \in Procs, NEW j \in Jobs, Relaunch(p, j)
  PROVE  owner' \in [Jobs -> Procs \cup {None}] /\ launches' \in [Jobs -> 0 .. MaxLaunches]
<1>1. launches[j] + 1 \in 0 .. MaxLaunches
  BY MaxLaunchesAssumption DEF LoopType, Relaunch
<1> QED
  BY <1>1 DEF LoopType, Relaunch

(* The operations, their ends, the tasks, the threads and the processes    *)
(* each keep the types.                                                    *)
LEMMA TypeSession ==
  ASSUME TypeOK, NEW p \in Procs, NEW j \in Jobs, SessionStep(p, j)
  PROVE  TypeOK'
<1> SUFFICES StoreType' /\ LoopType'
  BY TypeSplit, PTL
<1>a. LoopType
  BY TypeSplit
<1> USE <1>a DEF Active, Terminal, Verdicts
<1>0. "running" \in Statuses /\ "stopping" \in Statuses /\ "retrying" \in Statuses
  BY DEF Statuses
<1>1. CASE Start(p, j)
  <2>1. [Tokens EXCEPT ![j] = Tokens[j]] = Tokens /\ Tokens[j] \in Procs \cup {None}
    BY ReplayType
  <2>2. StoreType'
    BY <1>0, <1>1, <2>1, TransactKeepsType DEF Start
  <2>3. LoopType'
    BY <1>1, MaxLaunchesAssumption DEF LoopType, Start, TaskStates
  <2> QED
    BY <2>2, <2>3
<1>2. CASE Refresh(p, j)
  <2>1. StoreType'
    BY <1>2, RefreshedType, TransactKeepsType DEF Refresh
  <2>2. LoopType'
    BY <1>2 DEF LoopType, Refresh, loop
  <2> QED
    BY <2>1, <2>2
<1>3. CASE Stop(p, j)
  <2>1. StoreType'
    BY <1>0, <1>3, TransactKeepsType DEF Stop
  <2>2. LoopType'
    BY <1>3 DEF LoopType, Stop, OpKinds
  <2> QED
    BY <2>1, <2>2
<1>4. CASE Retry(p, j)
  <2>1. StoreType'
    BY <1>0, <1>4, TransactKeepsType DEF Retry
  <2>2. LoopType'
    BY <1>4, RelaunchType DEF LoopType, Retry, TaskStates
  <2> QED
    BY <2>1, <2>2
<1>5. CASE RetryUndo(p, j)
  <2>1. StoreType'
    BY <1>0, <1>5, TransactKeepsType DEF RetryUndo
  <2>2. LoopType'
    BY <1>5, RelaunchType DEF LoopType, RetryUndo, TaskStates, OpKinds
  <2> QED
    BY <2>1, <2>2
<1>6. CASE RetryRefused(p, j)
  <2>1. StoreType'
    BY <1>6, RefreshedType, TransactKeepsType, ReplayKeepsType DEF RetryRefused, RefusedStore
  <2>2. /\ cancelling' \in {cancelling, [cancelling EXCEPT ![p] = @ \cup {j}]}
        /\ op' \in {op, [op EXCEPT ![j] = p]}
        /\ kind' \in {kind, [kind EXCEPT ![j] = "refused"]}
        /\ lease' \in {lease, [lease EXCEPT ![j] = IF @ = p THEN None ELSE @]}
        /\ UNCHANGED <<up, task, threads, owner, launches>>
    BY <1>6, Zenon DEF RetryRefused, Release
  <2>3. cancelling' \in [Procs -> SUBSET Jobs]
    BY <2>2 DEF LoopType
  <2>4. op' \in [Jobs -> Procs \cup {None}]
    BY <2>2 DEF LoopType
  <2>6. kind' \in [Jobs -> OpKinds]
    BY <2>2 DEF LoopType, OpKinds
  <2>5. lease' \in [Jobs -> Procs \cup {None}]
    BY <2>2 DEF LoopType
  <2> QED
    BY <2>1, <2>2, <2>3, <2>4, <2>5, <2>6 DEF LoopType
<1> QED
  BY <1>1, <1>2, <1>3, <1>4, <1>5, <1>6 DEF SessionStep

(* The end of an operation keeps the types.                                *)
LEMMA TypeOp ==
  ASSUME TypeOK, NEW p \in Procs, NEW j \in Jobs, OpEnds(p, j)
  PROVE  TypeOK'
<1> SUFFICES StoreType' /\ LoopType'
  BY TypeSplit, PTL
<1>a. LoopType
  BY TypeSplit
<1>b. "stopped" \in Statuses /\ "failed" \in Statuses
  BY DEF Statuses, Terminal, Verdicts
<1>c. ASSUME NEW k, Awaited(p, j, k)
      PROVE  op' \in [Jobs -> Procs \cup {None}] /\ kind' \in [Jobs -> OpKinds]
  BY <1>a, <1>c DEF LoopType, Awaited, OpKinds
<1>1. CASE StopCommit(p, j)
  <2>1. StoreType'
    BY <1>b, <1>1, TransactKeepsType, ReplayKeepsType DEF StopCommit
  <2>2. LoopType'
    BY <1>a, <1>c, <1>1 DEF LoopType, StopCommit
  <2> QED
    BY <2>1, <2>2
<1>2. CASE StopBusy(p, j)
  BY <1>a, <1>c, <1>2, ReplayKeepsType DEF LoopType, StopBusy
<1>3. CASE RetryUndone(p, j)
  <2>1. StoreType'
    BY <1>b, <1>3, TransactKeepsType, ReplayKeepsType DEF RetryUndone
  <2>2. LoopType'
    BY <1>a, <1>c, <1>3 DEF LoopType, RetryUndone, Release
  <2> QED
    BY <2>1, <2>2
<1>4. CASE RetryRefusedEnd(p, j)
  BY <1>a, <1>c, <1>4, ReplayKeepsType DEF LoopType, RetryRefusedEnd, Release
<1> QED
  BY <1>1, <1>2, <1>3, <1>4 DEF OpEnds

(* A verdict is submitted by a task, so its job was launched.              *)
LEMMA TypeTask ==
  ASSUME TypeOK, NEW p \in Procs, NEW j \in Jobs,
         \A k \in Jobs : task[p][k] # "none" => launches[k] # 0,
         HandlerEnds(p, j) \/ LoopStep(p, j)
  PROVE  TypeOK'
<1> SUFFICES StoreType' /\ LoopType'
  BY TypeSplit, PTL
<1>a. LoopType
  BY TypeSplit
<1>b. StoreType'
  <2>1. UNCHANGED store
    BY DEF HandlerEnds, Succeed, Fail, LoopStep, Begin, NeverBegins,
           HandlerCancelled, Logged, Interrupted, Finish
  <2> QED
    BY <2>1, ReplayKeepsType
<1>c. ASSUME NEW s \in Verdicts, task[p][j] # "none", Submit(p, j, s)
      PROVE  /\ task' \in [Procs -> [Jobs -> TaskStates]]
             /\ threads' \in [Procs -> SUBSET Updates]
  <2>1. launches[j] \in 1 .. MaxLaunches
    BY <1>a, <1>c, MaxLaunchesAssumption DEF LoopType
  <2>2. Verdict(j, s) \in Updates
    BY <2>1 DEF Verdict, Updates
  <2> QED
    BY <1>a, <1>c, <2>2 DEF LoopType, Submit, TaskStates
<1>1. CASE Succeed(p, j)
  <2>1. task[p][j] # "none" /\ "succeeded" \in Verdicts /\ Submit(p, j, "succeeded")
    BY <1>1 DEF Succeed, Verdicts
  <2> QED
    BY <1>a, <1>b, <1>c, <1>1, <2>1 DEF LoopType, Succeed
<1>2. CASE Fail(p, j)
  BY <1>a, <1>b, <1>2 DEF LoopType, Fail, TaskStates
<1>3. CASE Begin(p, j)
  BY <1>a, <1>b, <1>3 DEF LoopType, Begin, TaskStates
<1>4. CASE NeverBegins(p, j)
  BY <1>a, <1>b, <1>4 DEF LoopType, NeverBegins, TaskStates
<1>5. CASE HandlerCancelled(p, j)
  BY <1>a, <1>b, <1>5 DEF LoopType, HandlerCancelled, TaskStates
<1>6. CASE Logged(p, j)
  <2>1. task[p][j] # "none" /\ \E s \in Verdicts : Submit(p, j, s)
    BY <1>6 DEF Logged, Verdicts
  <2> QED
    BY <1>a, <1>b, <1>c, <1>6, <2>1 DEF LoopType, Logged
<1>7. CASE Interrupted(p, j)
  BY <1>a, <1>b, <1>7 DEF LoopType, Interrupted, Exit, Release, TaskStates
<1>8. CASE Finish(p, j)
  BY <1>a, <1>b, <1>8 DEF LoopType, Finish, Exit, Release, TaskStates
<1> QED
  BY <1>1, <1>2, <1>3, <1>4, <1>5, <1>6, <1>7, <1>8 DEF HandlerEnds, LoopStep

(* A thread that writes or defers a verdict keeps the types.               *)
LEMMA TypeThread ==
  ASSUME TypeOK, NEW p \in Procs, ThreadStep(p)
  PROVE  TypeOK'
<1> SUFFICES StoreType' /\ LoopType'
  BY TypeSplit, PTL
<1>a. LoopType /\ StoreType
  BY TypeSplit
<1>b. PICK u \in threads[p] : Write(p, u) \/ Defer(p, u)
  BY DEF ThreadStep
<1>c. u \in Updates /\ u.job \in Jobs /\ u.launch \in 1 .. MaxLaunches
      /\ u.status \in Verdicts /\ u.status \in Statuses
  BY <1>a DEF LoopType, Updates, Statuses, Terminal
<1>1. CASE Write(p, u)
  <2>1. LoopType'
    BY <1>a, <1>1 DEF LoopType, Write
  <2>2. Landings[u.job] \in [1 .. MaxLaunches -> Nat]
    BY <1>c, ReplayOne
  <2>3. [Landings EXCEPT ![u.job][u.launch] = @ + 1]
          \in [Jobs -> [1 .. MaxLaunches -> Nat]]
    <3>1. [Landings EXCEPT ![u.job][u.launch] = @ + 1]
            = [Landings EXCEPT ![u.job] = [Landings[u.job] EXCEPT ![u.launch] = @ + 1]]
      BY ReplayType
    <3> QED
      BY <1>c, <2>2, <3>1, ReplayType, OneMore
  <2>4. /\ [Replayed EXCEPT ![u.job] = u.status] \in [Jobs -> Statuses]
        /\ [Tokens EXCEPT ![u.job] = None] \in [Jobs -> Procs \cup {None}]
    BY <1>c, ReplayType
  <2>5. StoreType'
    BY <1>1, <2>3, <2>4, TransactType, ReplayKeepsType DEF Write
  <2> QED
    BY <2>1, <2>5
<1>2. CASE Defer(p, u)
  BY <1>a, <1>c, <1>2 DEF LoopType, StoreType, Defer
<1> QED
  BY <1>b, <1>1, <1>2

(* The end of a process keeps the types of the loop's state.               *)
LEMMA GoneType ==
  ASSUME LoopType, NEW p \in Procs, Gone(p),
         owner' \in [Jobs -> Procs \cup {None}], launches' \in [Jobs -> 0 .. MaxLaunches]
  PROVE  LoopType'
BY DEF LoopType, Gone, ReleaseAll, TaskStates, OpKinds

(* The steps of a process keep the types.                                  *)
LEMMA TypeProcess ==
  ASSUME TypeOK, NEW p \in Procs, ProcessStep(p)
  PROVE  TypeOK'
<1> SUFFICES StoreType' /\ LoopType'
  BY TypeSplit, PTL
<1>a. LoopType
  BY TypeSplit
<1>1. CASE Close(p)
  BY <1>a, <1>1, ReplayKeepsType DEF LoopType, Close, HasTask
<1>2. CASE Closed(p)
  BY <1>a, <1>2, ReplayKeepsType DEF LoopType, Closed, ReleaseAll
<1>3. CASE Leave(p) \/ Crash(p)
  <2>1. Gone(p) /\ UNCHANGED <<store, owner, launches>>
    BY <1>3 DEF Leave, Crash
  <2> QED
    BY <1>a, <2>1, GoneType, ReplayKeepsType DEF LoopType
<1>4. CASE Boot(p)
  BY <1>a, <1>4, ReplayKeepsType DEF LoopType, Boot
<1>5. ASSUME NEW j \in Jobs, CrashInRetry(p, j)
      PROVE  StoreType' /\ LoopType'
  <2>1. "retrying" \in Statuses
    BY DEF Statuses, Active
  <2> QED
    BY <1>a, <1>5, <2>1, TransactKeepsType, RelaunchType, GoneType DEF CrashInRetry
<1> QED
  BY <1>1, <1>2, <1>3, <1>4, <1>5 DEF ProcessStep

-----------------------------------------------------------------------------
(* What a step does to one row that it does not launch again.              *)
NoTask(j) == \A p \in Procs : task[p][j] = "none"

RowStep(j) ==
  /\ status'[j] = "absent" <=> status[j] = "absent"
  /\ status'[j] = "lost" => status[j] = "lost" \/ NoTask(j)
  /\ token'[j] # None => status'[j] \in Active
  /\ status[j] \in Terminal => status'[j] = status[j]

Launched(j) ==
  /\ status'[j] \in Active
  /\ status[j] \in Terminal => launches'[j] = launches[j] + 1

(* The replay takes active rows to verdicts, clears their token and leaves *)
(* all other rows alone.                                                   *)
LEMMA ReplayedRow ==
  ASSUME JobsInv, NEW j \in Jobs
  PROVE  /\ Replayed[j] = "absent" <=> status[j] = "absent"
         /\ Replayed[j] = "lost" => status[j] = "lost"
         /\ Tokens[j] # None => Replayed[j] \in Active
         /\ status[j] \in Terminal => Replayed[j] = status[j]
<1>1. /\ Tokens[j] \in {None, token[j]}
      /\ Replayed[j] # status[j] =>
           status[j] \in Active /\ Replayed[j] \in Verdicts /\ Tokens[j] = None
  BY ReplayOne DEF JobsInv
<1>2. token[j] # None => status[j] \in Active
  BY DEF JobsInv, TokenIsActive
<1> QED
  BY <1>1, <1>2 DEF Active, Verdicts, Terminal

(* A row that a transaction leaves to the replay, or does not touch.       *)
LEMMA RowLeft ==
  ASSUME JobsInv, NEW j \in Jobs,
         \/ status'[j] = Replayed[j] /\ token'[j] = Tokens[j]
         \/ UNCHANGED store
  PROVE  RowStep(j)
<1>1. CASE status'[j] = Replayed[j] /\ token'[j] = Tokens[j]
  BY <1>1, ReplayedRow DEF RowStep
<1>2. CASE UNCHANGED store
  <2>1. status' = status /\ token' = token
    BY <1>2 DEF store
  <2> QED
    BY <2>1 DEF RowStep, JobsInv, TokenIsActive
<1> QED
  BY <1>1, <1>2

(* What a transaction that sets one row does to every row.                 *)
LEMMA TransactRows ==
  ASSUME TypeOK, NEW j \in Jobs, NEW x, NEW y,
         NEW l, Transact([Replayed EXCEPT ![j] = x], [Tokens EXCEPT ![j] = y], l)
  PROVE  /\ status'[j] = x /\ token'[j] = y
         /\ \A k \in Jobs \ {j} : status'[k] = Replayed[k] /\ token'[k] = Tokens[k]
<1>1. Replayed \in [Jobs -> Statuses] /\ Tokens \in [Jobs -> Procs \cup {None}]
  BY ReplayType
<1>2. status' = [Replayed EXCEPT ![j] = x] /\ token' = [Tokens EXCEPT ![j] = y]
  BY DEF Transact
<1> QED
  BY <1>1, <1>2

(* A row is marked lost only when nobody holds its lease, and so when no   *)
(* process has a task for it.                                              *)
LEMMA RefreshedRow ==
  ASSUME JobsInv, NEW p \in Procs, NEW j \in Jobs
  PROVE  /\ Refreshed(p, j) = "absent" <=> status[j] = "absent"
         /\ Refreshed(p, j) = "lost" => status[j] = "lost" \/ NoTask(j)
         /\ (IF Orphaned(p, j) THEN None ELSE Tokens[j]) # None => Refreshed(p, j) \in Active
         /\ status[j] \in Terminal => Refreshed(p, j) = status[j]
<1>1. CASE Orphaned(p, j)
  <2>1. Replayed[j] \in Active /\ lease[j] = None
    BY <1>1 DEF Orphaned
  <2>2. NoTask(j)
    BY <2>1, NoneAssumption DEF JobsInv, RunnerHoldsLease, NoTask
  <2>3. status[j] \notin Terminal /\ status[j] # "absent"
    BY <2>1, ReplayedRow DEF Active, Terminal, Verdicts
  <2>4. Refreshed(p, j) \in {"stopped", "lost"}
    BY <1>1 DEF Refreshed
  <2> QED
    BY <1>1, <2>2, <2>3, <2>4
<1>2. CASE ~Orphaned(p, j)
  BY <1>2, ReplayedRow DEF Refreshed
<1> QED
  BY <1>1, <1>2

(* A refresh leaves every row as RowStep says.                             *)
LEMMA RefreshRows ==
  ASSUME JobsInv, NEW p \in Procs, NEW j \in Jobs,
         Transact([Replayed EXCEPT ![j] = Refreshed(p, j)],
                  [Tokens EXCEPT ![j] = IF Orphaned(p, j) THEN None ELSE @], Landings)
  PROVE  \A k \in Jobs : RowStep(k)
<1>1. TypeOK /\ Tokens \in [Jobs -> Procs \cup {None}]
  BY ReplayType DEF JobsInv
<1>2. [Tokens EXCEPT ![j] = IF Orphaned(p, j) THEN None ELSE @]
        = [Tokens EXCEPT ![j] = IF Orphaned(p, j) THEN None ELSE Tokens[j]]
  BY <1>1
<1>3. /\ status'[j] = Refreshed(p, j)
      /\ token'[j] = IF Orphaned(p, j) THEN None ELSE Tokens[j]
      /\ \A k \in Jobs \ {j} : status'[k] = Replayed[k] /\ token'[k] = Tokens[k]
  BY <1>1, <1>2, TransactRows
<1>4. RowStep(j)
  BY <1>3, RefreshedRow DEF RowStep
<1> QED
  BY <1>3, <1>4, RowLeft

(* A row that was active after the replay gets the status of an operation  *)
(* or of a verdict.                                                        *)
LEMMA SetRows ==
  ASSUME JobsInv, NEW j \in Jobs, Replayed[j] \in Active,
         NEW x \in Active \cup Verdicts, NEW y, y # None => x \in Active,
         NEW l, Transact([Replayed EXCEPT ![j] = x], [Tokens EXCEPT ![j] = y], l)
  PROVE  \A k \in Jobs : RowStep(k)
<1>1. /\ status'[j] = x /\ token'[j] = y
      /\ \A k \in Jobs \ {j} : status'[k] = Replayed[k] /\ token'[k] = Tokens[k]
  BY TransactRows DEF JobsInv
<1>2. status[j] \notin Terminal /\ status[j] # "absent"
  BY ReplayedRow DEF Active, Terminal, Verdicts
<1>3. x # "absent" /\ x # "lost"
  BY DEF Active, Verdicts
<1>4. RowStep(j)
  BY <1>1, <1>2, <1>3 DEF RowStep
<1> QED
  BY <1>1, <1>4, RowLeft

(* A launch: the row becomes active, the others are left to the replay.    *)
LEMMA LaunchRows ==
  ASSUME JobsInv, NEW j \in Jobs, NEW x \in Active, NEW y, NEW l,
         Transact([Replayed EXCEPT ![j] = x], [Tokens EXCEPT ![j] = y], l),
         status[j] \in Terminal => launches'[j] = launches[j] + 1
  PROVE  /\ \A k \in Jobs : RowStep(k) \/ Launched(k)
         /\ status'[j] \in Active
<1>1. /\ status'[j] = x
      /\ \A k \in Jobs \ {j} : status'[k] = Replayed[k] /\ token'[k] = Tokens[k]
  BY TransactRows DEF JobsInv
<1> QED
  BY <1>1, RowLeft DEF Launched

(* A retry's mark on the row is a launch.                                  *)
LEMMA RelaunchRows ==
  ASSUME JobsInv, NEW p \in Procs, NEW j \in Jobs, Relaunch(p, j),
         NEW x \in Active, NEW y, NEW l,
         Transact([Replayed EXCEPT ![j] = x], [Tokens EXCEPT ![j] = y], l)
  PROVE  /\ \A k \in Jobs : RowStep(k) \/ Launched(k)
         /\ status'[j] \in Active
<1>1. launches'[j] = launches[j] + 1
  BY DEF Relaunch, JobsInv, TypeOK
<1> QED
  BY <1>1, LaunchRows

-----------------------------------------------------------------------------
(* What a step does to the tasks and the leases: it leaves every task its  *)
(* lease, and only a launch, which makes the row active, adds any.         *)
TasksStep ==
  /\ RunnerHoldsLease'
  /\ TaskIsLaunched'
  /\ \A k \in Jobs : lease'[k] \in {lease[k], None} \/ status'[k] \in Active
  /\ \A p \in Procs, k \in Jobs :
       task'[p][k] # "none" => task[p][k] # "none" \/ status'[k] \in Active

(* A step that starts no task and releases no lease of a running one.      *)
LEMMA TasksKept ==
  ASSUME JobsInv,
         UNCHANGED launches,
         \A p \in Procs, k \in Jobs :
           task'[p][k] # "none" => task[p][k] # "none" /\ lease'[k] = lease[k],
         \A k \in Jobs : lease'[k] \in {lease[k], None}
  PROVE  TasksStep
BY DEF JobsInv, RunnerHoldsLease, TaskIsLaunched, TasksStep

(* The task of p and j has ended, and p releases the lease.                *)
LEMMA TaskReleased ==
  ASSUME JobsInv, NEW p \in Procs, NEW j \in Jobs,
         UNCHANGED launches,
         task' = [task EXCEPT ![p][j] = "none"],
         Release(p, j)
  PROVE  TasksStep
<1>1. task \in [Procs -> [Jobs -> TaskStates]] /\ lease \in [Jobs -> Procs \cup {None}]
  BY DEF JobsInv, TypeOK
<1>2. \A k \in Jobs : lease'[k] \in {lease[k], None}
  BY <1>1 DEF Release
<1>3. ASSUME NEW q \in Procs, NEW k \in Jobs, task'[q][k] # "none"
      PROVE  task[q][k] # "none" /\ lease'[k] = lease[k]
  <2>1. ~(q = p /\ k = j) /\ task[q][k] # "none"
    BY <1>1, <1>3
  <2>2. lease[k] = q
    BY <2>1 DEF JobsInv, RunnerHoldsLease
  <2> QED
    BY <1>1, <2>1, <2>2 DEF Release
<1> QED
  BY <1>2, <1>3, TasksKept

(* A launch by p of a job that nobody runs.                                *)
LEMMA TaskAdded ==
  ASSUME JobsInv, NEW p \in Procs, NEW j \in Jobs,
         lease[j] = None,
         lease' = [lease EXCEPT ![j] = p],
         task' = [task EXCEPT ![p][j] = "scheduled"],
         launches'[j] # 0,
         \A k \in Jobs \ {j} : launches'[k] = launches[k],
         status'[j] \in Active
  PROVE  TasksStep
<1>1. task \in [Procs -> [Jobs -> TaskStates]] /\ lease \in [Jobs -> Procs \cup {None}]
  BY DEF JobsInv, TypeOK
<1>2. NoTask(j)
  BY NoneAssumption DEF JobsInv, RunnerHoldsLease, NoTask
<1>3. \A q \in Procs, k \in Jobs :
        task'[q][k] # "none" => (q = p /\ k = j) \/ (k # j /\ task[q][k] # "none")
  BY <1>1, <1>2 DEF NoTask
<1>4. lease'[j] = p /\ \A k \in Jobs \ {j} : lease'[k] = lease[k]
  BY <1>1
<1> QED
  BY <1>3, <1>4 DEF JobsInv, RunnerHoldsLease, TaskIsLaunched, TasksStep

(* Leaving the process, with or without a launch just marked.              *)
LEMMA GoneTasks ==
  ASSUME JobsInv, NEW p \in Procs, Gone(p),
         \A k \in Jobs : launches[k] # 0 => launches'[k] # 0
  PROVE  TasksStep
<1>1. task \in [Procs -> [Jobs -> TaskStates]] /\ lease \in [Jobs -> Procs \cup {None}]
  BY DEF JobsInv, TypeOK
<1>2. \A k \in Jobs : lease'[k] = IF lease[k] = p THEN None ELSE lease[k]
  BY DEF Gone, ReleaseAll
<1>3. \A q \in Procs, k \in Jobs :
        task'[q][k] # "none" => q # p /\ task[q][k] # "none"
  BY <1>1 DEF Gone
<1> QED
  BY <1>2, <1>3 DEF JobsInv, RunnerHoldsLease, TaskIsLaunched, TasksStep

(* A step is safe.                                                        *)
StepSafe == TasksStep /\ \A k \in Jobs : RowStep(k) \/ Launched(k)

(* Every kind of step is safe: first the operations of a session.          *)
LEMMA SafeSession ==
  ASSUME JobsInv, NEW p \in Procs, NEW j \in Jobs, SessionStep(p, j)
  PROVE  StepSafe
<1>a. TypeOK /\ launches \in [Jobs -> 0 .. MaxLaunches]
  BY DEF JobsInv, TypeOK
<1>b. "running" \in Active /\ "stopping" \in Active /\ "retrying" \in Active
  BY DEF Active
<1>1. CASE Start(p, j)
  <2>1. [Tokens EXCEPT ![j] = Tokens[j]] = Tokens
    BY <1>a, ReplayType
  <2>2. status[j] \notin Terminal
    BY <1>1 DEF Start, Terminal, Verdicts
  <2>3. (\A k \in Jobs : RowStep(k) \/ Launched(k)) /\ status'[j] \in Active
    BY <1>1, <1>b, <2>1, <2>2, LaunchRows, SMTT(20) DEF Start
  <2>4. lease[j] = None
    BY <1>1 DEF Start, JobsInv, AbsentIsFree
  <2>5. launches'[j] # 0 /\ \A k \in Jobs \ {j} : launches'[k] = launches[k]
    BY <1>1, <1>a DEF Start
  <2> QED
    BY <1>1, <2>3, <2>4, <2>5, TaskAdded DEF Start, StepSafe
<1>2. CASE Refresh(p, j)
  BY <1>2, RefreshRows, TasksKept DEF Refresh, loop, StepSafe
<1>3. CASE Stop(p, j)
  <2>1. Replayed[j] \in Active
    BY <1>3, <1>b DEF Stop
  <2> QED
    BY <1>3, <1>b, <2>1, SetRows, TasksKept DEF Stop, StepSafe
<1>4. ASSUME Relaunch(p, j)
      PROVE  /\ lease[j] = None /\ launches'[j] # 0
             /\ \A k \in Jobs \ {j} : launches'[k] = launches[k]
  BY <1>4, <1>a DEF Relaunch
<1>5. CASE Retry(p, j)
  <2>1. (\A k \in Jobs : RowStep(k) \/ Launched(k)) /\ status'[j] \in Active
    BY <1>5, <1>b, RelaunchRows DEF Retry
  <2> QED
    BY <1>4, <1>5, <2>1, TaskAdded DEF Retry, StepSafe
<1>6. CASE RetryUndo(p, j)
  <2>1. (\A k \in Jobs : RowStep(k) \/ Launched(k)) /\ status'[j] \in Active
    BY <1>6, <1>b, RelaunchRows DEF RetryUndo
  <2> QED
    BY <1>4, <1>6, <2>1, TaskAdded DEF RetryUndo, StepSafe
<1>7. CASE RetryRefused(p, j)
  <2>1. \A k \in Jobs : RowStep(k)
    BY <1>7, RefreshRows, RowLeft DEF RetryRefused, RefusedStore
  <2>2. TasksStep
    <3>1. CASE task[p][j] = "none"
      <4>1. task' = [task EXCEPT ![p][j] = "none"]
        BY <1>7, <1>a, <3>1 DEF RetryRefused, TypeOK
      <4> QED
        BY <1>7, <3>1, <4>1, TaskReleased DEF RetryRefused
    <3>2. CASE task[p][j] # "none"
      BY <1>7, <3>2, TasksKept DEF RetryRefused
    <3> QED
      BY <3>1, <3>2
  <2> QED
    BY <2>1, <2>2 DEF StepSafe
<1> QED
  BY <1>1, <1>2, <1>3, <1>5, <1>6, <1>7 DEF SessionStep

(* The end of an operation is safe: its token stands in an active row.     *)
LEMMA SafeOp ==
  ASSUME JobsInv, NEW p \in Procs, NEW j \in Jobs, OpEnds(p, j)
  PROVE  StepSafe
<1>a. ASSUME Tokens[j] = p
      PROVE  Replayed[j] \in Active
  BY <1>a, ReplayedRow, NoneAssumption
<1>b. ASSUME NEW k, Awaited(p, j, k), UNCHANGED task
      PROVE  task' = [task EXCEPT ![p][j] = "none"]
  BY <1>b DEF Awaited, JobsInv, TypeOK
<1>c. "stopped" \in Verdicts /\ "failed" \in Verdicts
  BY DEF Verdicts
<1>1. CASE StopCommit(p, j)
  <2>1. \A k \in Jobs : RowStep(k)
    <3>1. CASE Replayed[j] = "stopping" /\ Tokens[j] = p
      BY <1>1, <1>a, <1>c, <3>1, SetRows DEF StopCommit
    <3>2. CASE ~(Replayed[j] = "stopping" /\ Tokens[j] = p)
      BY <1>1, <3>2, RowLeft DEF StopCommit, Transact
    <3> QED
      BY <3>1, <3>2
  <2> QED
    BY <1>1, <2>1, TasksKept DEF StopCommit, StepSafe
<1>2. CASE StopBusy(p, j)
  BY <1>2, RowLeft, TasksKept DEF StopBusy, StepSafe
<1>3. CASE RetryUndone(p, j)
  <2>1. \A k \in Jobs : RowStep(k)
    <3>1. CASE Tokens[j] = p /\ Transact([Replayed EXCEPT ![j] = "failed"],
                                         [Tokens EXCEPT ![j] = None], Landings)
      BY <1>a, <1>c, <3>1, SetRows
    <3>2. CASE Transact(Replayed, Tokens, Landings) \/ UNCHANGED store
      BY <3>2, RowLeft DEF Transact
    <3> QED
      BY <1>3, <3>1, <3>2 DEF RetryUndone
  <2> QED
    BY <1>3, <1>b, <2>1, TaskReleased DEF RetryUndone, StepSafe
<1>4. CASE RetryRefusedEnd(p, j)
  BY <1>4, <1>b, RowLeft, TaskReleased DEF RetryRefusedEnd, StepSafe
<1> QED
  BY <1>1, <1>2, <1>3, <1>4 DEF OpEnds

(* The steps of a task touch no row, and release only its own lease.       *)
LEMMA SafeTask ==
  ASSUME JobsInv, NEW p \in Procs, NEW j \in Jobs, HandlerEnds(p, j) \/ LoopStep(p, j)
  PROVE  StepSafe
<1>a. task \in [Procs -> [Jobs -> TaskStates]]
  BY DEF JobsInv, TypeOK
<1>b. UNCHANGED launches /\ \A k \in Jobs : RowStep(k)
  <2>1. UNCHANGED <<store, launches>>
    BY DEF HandlerEnds, Succeed, Fail, LoopStep, Begin, NeverBegins,
           HandlerCancelled, Logged, Interrupted, Finish
  <2> QED
    BY <2>1, RowLeft
<1>c. ASSUME NEW s, task[p][j] # "none", task' = [task EXCEPT ![p][j] = s], UNCHANGED lease
      PROVE  TasksStep
  BY <1>a, <1>b, <1>c, TasksKept
<1>1. CASE Succeed(p, j) \/ Fail(p, j) \/ Begin(p, j) \/ NeverBegins(p, j)
             \/ HandlerCancelled(p, j) \/ Logged(p, j)
  <2>1. /\ task[p][j] # "none" /\ UNCHANGED lease
        /\ \E s : task' = [task EXCEPT ![p][j] = s]
    BY <1>1 DEF Succeed, Fail, Begin, Runs, NeverBegins, HandlerCancelled, Logged, Submit
  <2> QED
    BY <1>b, <1>c, <2>1 DEF StepSafe
<1>2. CASE Interrupted(p, j) \/ Finish(p, j)
  BY <1>2, <1>b, TaskReleased DEF Interrupted, Finish, Exit, StepSafe
<1> QED
  BY <1>1, <1>2 DEF HandlerEnds, LoopStep

(* A verdict reaches active rows only.                                     *)
LEMMA SafeThread ==
  ASSUME JobsInv, NEW p \in Procs, ThreadStep(p)
  PROVE  StepSafe
<1>1. PICK u \in threads[p] : Write(p, u) \/ Defer(p, u)
  BY DEF ThreadStep
<1>2. TasksStep
  BY <1>1, TasksKept DEF Write, Defer
<1>3. u.job \in Jobs /\ u.status \in Verdicts
  BY DEF JobsInv, TypeOK, Updates
<1>4. CASE Write(p, u)
  <2>1. CASE Replayed[u.job] \in Active
    BY <1>2, <1>3, <1>4, <2>1, SetRows DEF Write, StepSafe
  <2>2. CASE Replayed[u.job] \notin Active
    BY <1>2, <1>4, <2>2, RowLeft DEF Write, Transact, StepSafe
  <2> QED
    BY <2>1, <2>2
<1>5. CASE Defer(p, u)
  BY <1>2, <1>5 DEF Defer, StepSafe, RowStep, JobsInv, TokenIsActive
<1> QED
  BY <1>1, <1>4, <1>5

(* A process releases its leases only when its tasks are gone.             *)
LEMMA SafeProcess ==
  ASSUME JobsInv, NEW p \in Procs, ProcessStep(p)
  PROVE  StepSafe
<1>a. TypeOK /\ launches \in [Jobs -> 0 .. MaxLaunches]
  BY DEF JobsInv, TypeOK
<1>1. CASE Close(p) \/ Boot(p)
  BY <1>1, RowLeft, TasksKept DEF Close, Boot, StepSafe
<1>2. CASE Closed(p)
  <2>1. \A q \in Procs, k \in Jobs :
          task'[q][k] # "none" => task[q][k] # "none" /\ lease'[k] = lease[k]
    BY <1>2 DEF Closed, HasTask, ReleaseAll, JobsInv, RunnerHoldsLease
  <2> QED
    BY <1>2, <2>1, RowLeft, TasksKept DEF Closed, ReleaseAll, StepSafe
<1>3. CASE Leave(p) \/ Crash(p)
  BY <1>3, RowLeft, GoneTasks DEF Leave, Crash, StepSafe
<1>4. ASSUME NEW j \in Jobs, CrashInRetry(p, j)
      PROVE  StepSafe
  <2>1. "retrying" \in Active
    BY DEF Active
  <2>2. \A k \in Jobs : RowStep(k) \/ Launched(k)
    BY <1>4, <2>1, RelaunchRows DEF CrashInRetry
  <2>3. \A k \in Jobs : launches[k] # 0 => launches'[k] # 0
    BY <1>4, <1>a DEF CrashInRetry, Relaunch
  <2> QED
    BY <1>4, <2>2, <2>3, GoneTasks DEF CrashInRetry, StepSafe
<1> QED
  BY <1>1, <1>2, <1>3, <1>4 DEF ProcessStep

(* Every step keeps the types and is safe.                                 *)
LEMMA StepIsSafe == ASSUME JobsInv, Next PROVE TypeOK' /\ StepSafe
<1>a. TypeOK /\ \A p \in Procs, k \in Jobs : task[p][k] # "none" => launches[k] # 0
  BY DEF JobsInv, TaskIsLaunched
<1>1. ASSUME NEW p \in Procs, NEW j \in Jobs, SessionStep(p, j) PROVE TypeOK' /\ StepSafe
  BY <1>a, <1>1, TypeSession, SafeSession
<1>2. ASSUME NEW p \in Procs, NEW j \in Jobs, OpEnds(p, j) PROVE TypeOK' /\ StepSafe
  BY <1>a, <1>2, TypeOp, SafeOp
<1>3. ASSUME NEW p \in Procs, NEW j \in Jobs, HandlerEnds(p, j) \/ LoopStep(p, j)
      PROVE  TypeOK' /\ StepSafe
  BY <1>a, <1>3, TypeTask, SafeTask
<1>4. ASSUME NEW p \in Procs, ThreadStep(p) PROVE TypeOK' /\ StepSafe
  BY <1>a, <1>4, TypeThread, SafeThread
<1>5. ASSUME NEW p \in Procs, ProcessStep(p) PROVE TypeOK' /\ StepSafe
  BY <1>a, <1>5, TypeProcess, SafeProcess
<1> QED
  BY <1>1, <1>2, <1>3, <1>4, <1>5 DEF Next

(* The invariant holds initially.                                          *)
LEMMA JobsInvInit == Init => JobsInv
<1> SUFFICES ASSUME Init PROVE JobsInv
  OBVIOUS
<1>1. <<>> \in Seq(Updates)
  OBVIOUS
<1>2. TypeOK
  BY <1>1, MaxLaunchesAssumption
     DEF Init, TypeOK, TaskStates, OpKinds, Statuses, Terminal
<1>3. RunnerHoldsLease /\ LostIsDead /\ AbsentIsFree /\ TokenIsActive /\ TaskIsLaunched
  BY DEF Init, RunnerHoldsLease, LostIsDead, AbsentIsFree, TokenIsActive, TaskIsLaunched
<1> QED
  BY <1>2, <1>3 DEF JobsInv

(* Every step keeps the invariant.                                         *)
LEMMA JobsInvStep == JobsInv /\ [Next]_vars => JobsInv'
<1> SUFFICES ASSUME JobsInv, [Next]_vars PROVE JobsInv'
  OBVIOUS
<1>1. CASE Next
  <2>1. TypeOK' /\ TasksStep /\ \A k \in Jobs : RowStep(k) \/ Launched(k)
    BY <1>1, StepIsSafe DEF StepSafe
  <2>2. RunnerHoldsLease' /\ TaskIsLaunched'
    BY <2>1 DEF TasksStep
  <2>3. ASSUME NEW k \in Jobs, status'[k] = "lost"
        PROVE  \A p \in Procs : task'[p][k] = "none"
    <3>1. status'[k] \notin Active
      BY <2>3 DEF Active
    <3>2. NoTask(k)
      BY <2>1, <2>3, <3>1 DEF RowStep, Launched, JobsInv, LostIsDead, NoTask
    <3> QED
      BY <2>1, <3>1, <3>2 DEF TasksStep, NoTask
  <2>4. ASSUME NEW k \in Jobs, status'[k] = "absent"
        PROVE  lease'[k] = None
    <3>1. status'[k] \notin Active
      BY <2>4 DEF Active
    <3>2. lease[k] = None
      BY <2>1, <2>4, <3>1 DEF RowStep, Launched, JobsInv, AbsentIsFree
    <3> QED
      BY <2>1, <3>1, <3>2 DEF TasksStep
  <2>5. ASSUME NEW k \in Jobs, token'[k] # None
        PROVE  status'[k] \in Active
    BY <2>1, <2>5 DEF RowStep, Launched
  <2> QED
    BY <2>1, <2>2, <2>3, <2>4, <2>5 DEF JobsInv, LostIsDead, AbsentIsFree, TokenIsActive
<1>2. CASE UNCHANGED vars
  BY <1>2 DEF vars, loop, store, JobsInv, TypeOK, RunnerHoldsLease, LostIsDead,
              AbsentIsFree, TokenIsActive, TaskIsLaunched
<1> QED
  BY <1>1, <1>2

(* The managed jobs keep their invariant.                                  *)
THEOREM JobsInvariant == Spec => []JobsInv
BY JobsInvInit, JobsInvStep, PTL DEF Spec

(* Every variable of the job store and of the runtimes keeps its type.     *)
THEOREM TypeCorrect == Spec => []TypeOK
<1>1. JobsInv => TypeOK
  BY DEF JobsInv
<1> QED
  BY <1>1, JobsInvariant, PTL

(* Whoever runs a job holds its lease, through refused retries, second     *)
(* cancellations, closes and crashes: two processes never run one job.     *)
THEOREM RunnerTheorem == Spec => []RunnerHoldsLease
<1>1. JobsInv => RunnerHoldsLease
  BY DEF JobsInv
<1> QED
  BY <1>1, JobsInvariant, PTL

(* A peer never reports a job as lost that some process still runs.        *)
THEOREM LostTheorem == Spec => []LostIsDead
<1>1. JobsInv => LostIsDead
  BY DEF JobsInv
<1> QED
  BY <1>1, JobsInvariant, PTL

(* A lease has one holder that is alive, and a peer's verdict respects it. *)
THEOREM LeaseTheorem == Spec => []LeasesSound
  BY RunnerTheorem, LostTheorem, PTL DEF LeasesSound

(* A terminal row changes by a retry only, whatever late verdicts and      *)
(* journaled updates a transaction finds.                                  *)
THEOREM StickyTheorem == Spec => TerminalSticks
<1> DEFINE Sticks == \A j \in Jobs : status[j] \in Terminal =>
                       status'[j] = status[j] \/ launches'[j] = launches[j] + 1
<1>1. JobsInv /\ [Next]_vars => [Sticks]_vars
  <2> SUFFICES ASSUME JobsInv, Next PROVE Sticks
    OBVIOUS
  <2>1. \A k \in Jobs : RowStep(k) \/ Launched(k)
    BY StepIsSafe DEF StepSafe
  <2> QED
    BY <2>1 DEF RowStep, Launched
<1> QED
  BY <1>1, JobsInvariant, PTL DEF Spec, TerminalSticks

-----------------------------------------------------------------------------
(* What a process owes each of its leases. A cancelled task that has not   *)
(* begun will end without its finally block, so that somebody else must    *)
(* release its lease: the operation that cancelled it, or the close. A     *)
(* stop releases nothing itself; the task it waits for does.               *)
LeaseKept(p, j) ==
  /\ up[p] = "open" /\ lease[j] = p => task[p][j] # "none" \/ op[j] = p
  /\ up[p] \in {"closed", "down"} => lease[j] # p
  /\ j \in cancelling[p] => task[p][j] # "none"
  /\ j \in cancelling[p] /\ task[p][j] = "scheduled" => op[j] = p \/ up[p] # "open"
  /\ op[j] = p /\ kind[j] = "stop" =>
       task[p][j] # "scheduled" /\ (task[p][j] = "none" => lease[j] # p)

(* A verdict on its way: in a thread, or journaled and not yet applied.    *)
InThread(p, j, n) == \E u \in threads[p] : u.job = j /\ u.launch = n
Unapplied(j, n) ==
  \E i \in DOMAIN journal :
    journal[i].job = j /\ journal[i].launch = n /\ journal[i] \notin applied
(* The launches that have not made their verdict.                          *)
Unfinished == {"scheduled", "running", "failing", "cancelled"}
Fresh(j, n) ==
  \/ n > launches[j]
  \/ n = launches[j] /\ \E p \in Procs : task[p][j] \in Unfinished

(* A launch makes one verdict, which is in one place at a time: a thread,  *)
(* the journal, or the row.                                                *)
OneVerdict(j, n) ==
  /\ landed[j][n] <= 1
  /\ Unapplied(j, n) => landed[j][n] = 0
  /\ \A p \in Procs : InThread(p, j, n) =>
       /\ landed[j][n] = 0 /\ ~Unapplied(j, n)
       /\ \A q \in Procs : InThread(q, j, n) => q = p
       /\ \A u, v \in threads[p] :
            u.job = j /\ u.launch = n /\ v.job = j /\ v.launch = n => u = v
  /\ Fresh(j, n) =>
       landed[j][n] = 0 /\ ~Unapplied(j, n) /\ \A p \in Procs : ~InThread(p, j, n)

AbsentUnlaunched == \A j \in Jobs : status[j] = "absent" => launches[j] = 0

VerdictInv ==
  /\ JobsInv
  /\ \A p \in Procs, j \in Jobs : LeaseKept(p, j)
  /\ \A j \in Jobs, n \in 1 .. MaxLaunches : OneVerdict(j, n)
  /\ AbsentUnlaunched

-----------------------------------------------------------------------------
(* A step about p and j leaves everything else as it was, and takes from   *)
(* no other process what it has of j.                                      *)
OnlyAbout(p, j) ==
  /\ UNCHANGED up
  /\ \A q \in Procs, k \in Jobs :
       q # p \/ k # j => /\ task'[q][k] = task[q][k]
                         /\ k \in cancelling'[q] <=> k \in cancelling[q]
  /\ \A k \in Jobs \ {j} : lease'[k] = lease[k] /\ op'[k] = op[k] /\ kind'[k] = kind[k]
  /\ lease'[j] = lease[j] \/ {lease[j], lease'[j]} \subseteq {None, p}
  /\ \/ op'[j] = op[j] /\ kind'[j] = kind[j]
     \/ {op[j], op'[j]} \subseteq {None, p}

LEMMA KeptElsewhere ==
  ASSUME JobsInv, NEW p \in Procs, NEW j \in Jobs, OnlyAbout(p, j),
         \A q \in Procs, k \in Jobs : LeaseKept(q, k),
         LeaseKept(p, j)'
  PROVE  \A q \in Procs, k \in Jobs : LeaseKept(q, k)'
<1> SUFFICES ASSUME NEW q \in Procs, NEW k \in Jobs, q # p \/ k # j
             PROVE  LeaseKept(q, k)'
  OBVIOUS
<1>1. /\ up' = up /\ task'[q][k] = task[q][k]
      /\ k \in cancelling'[q] <=> k \in cancelling[q]
  BY DEF OnlyAbout
<1>2. /\ lease'[k] = q <=> lease[k] = q
      /\ op'[k] = q <=> op[k] = q
      /\ op[k] = q => kind'[k] = kind[k]
  BY NoneAssumption DEF OnlyAbout
<1> QED
  BY <1>1, <1>2 DEF LeaseKept

(* An operation of a session: what it starts it has a lease for, and what  *)
(* it cancels before its first step it waits for.                          *)
LEMMA KeptSession ==
  ASSUME JobsInv, NEW p \in Procs, NEW j \in Jobs, SessionStep(p, j),
         \A q \in Procs, k \in Jobs : LeaseKept(q, k)
  PROVE  \A q \in Procs, k \in Jobs : LeaseKept(q, k)'
<1>t. /\ task \in [Procs -> [Jobs -> TaskStates]] /\ cancelling \in [Procs -> SUBSET Jobs]
      /\ lease \in [Jobs -> Procs \cup {None}] /\ op \in [Jobs -> Procs \cup {None}]
      /\ kind \in [Jobs -> OpKinds] /\ up \in [Procs -> {"open", "closing", "closed", "down"}]
  BY DEF JobsInv, TypeOK
<1>k. LeaseKept(p, j) /\ p # None
  BY NoneAssumption
<1>1. CASE Start(p, j) \/ Retry(p, j)
  <2>1. /\ lease[j] = None /\ op[j] = None /\ up[p] = "open"
        /\ lease' = [lease EXCEPT ![j] = p] /\ task' = [task EXCEPT ![p][j] = "scheduled"]
        /\ UNCHANGED <<up, cancelling, op, kind>>
    BY <1>1 DEF Start, Retry, Relaunch, Free, JobsInv, AbsentIsFree
  <2>2. j \notin cancelling[p]
    BY <1>k, <2>1 DEF LeaseKept, JobsInv, RunnerHoldsLease
  <2>3. OnlyAbout(p, j)
    BY <1>t, <2>1 DEF OnlyAbout
  <2>4. LeaseKept(p, j)'
    BY <1>t, <1>k, <2>1, <2>2 DEF LeaseKept
  <2> QED
    BY <2>3, <2>4, KeptElsewhere
<1>2. CASE Refresh(p, j)
  <2>1. UNCHANGED <<up, task, cancelling, lease, op, kind>>
    BY <1>2 DEF Refresh, loop
  <2> QED
    BY <2>1 DEF LeaseKept
<1>3. CASE Stop(p, j)
  <2>1. /\ op[j] = None /\ task[p][j] \notin {"none", "scheduled"}
        /\ op' = [op EXCEPT ![j] = p] /\ kind' = [kind EXCEPT ![j] = "stop"]
        /\ cancelling' = [cancelling EXCEPT ![p] = @ \cup {j}]
        /\ UNCHANGED <<up, task, lease>>
    BY <1>3 DEF Stop, Free, LocalTask
  <2>2. OnlyAbout(p, j)
    BY <1>t, <2>1 DEF OnlyAbout
  <2>3. LeaseKept(p, j)'
    BY <1>t, <1>k, <2>1 DEF LeaseKept
  <2> QED
    BY <2>2, <2>3, KeptElsewhere
<1>4. CASE RetryUndo(p, j)
  <2>1. /\ lease[j] = None /\ op[j] = None /\ up[p] = "open"
        /\ lease' = [lease EXCEPT ![j] = p] /\ task' = [task EXCEPT ![p][j] = "scheduled"]
        /\ op' = [op EXCEPT ![j] = p] /\ kind' = [kind EXCEPT ![j] = "undo"]
        /\ cancelling' = [cancelling EXCEPT ![p] = @ \cup {j}]
        /\ UNCHANGED up
    BY <1>4 DEF RetryUndo, Relaunch, Free
  <2>2. OnlyAbout(p, j)
    BY <1>t, <2>1 DEF OnlyAbout
  <2>3. LeaseKept(p, j)'
    BY <1>t, <1>k, <2>1 DEF LeaseKept
  <2> QED
    BY <2>2, <2>3, KeptElsewhere
<1>5. CASE RetryRefused(p, j)
  <2>0. op[j] = None /\ task[p][j] # "scheduled" /\ UNCHANGED <<up, task>>
    BY <1>5 DEF RetryRefused, Free
  <2>1. CASE task[p][j] # "none"
    <3>1. /\ cancelling' = [cancelling EXCEPT ![p] = @ \cup {j}]
          /\ op' = [op EXCEPT ![j] = p] /\ kind' = [kind EXCEPT ![j] = "refused"]
          /\ UNCHANGED lease
      BY <1>5, <2>1 DEF RetryRefused
    <3>2. OnlyAbout(p, j)
      BY <1>t, <2>0, <3>1 DEF OnlyAbout
    <3>3. LeaseKept(p, j)'
      BY <1>t, <1>k, <2>0, <2>1, <3>1 DEF LeaseKept
    <3> QED
      BY <3>2, <3>3, KeptElsewhere
  <2>2. CASE task[p][j] = "none"
    <3>1. Release(p, j) /\ UNCHANGED <<cancelling, op, kind>>
      BY <1>5, <2>2 DEF RetryRefused
    <3>2. OnlyAbout(p, j)
      BY <1>t, <2>0, <3>1 DEF OnlyAbout, Release
    <3>3. LeaseKept(p, j)'
      BY <1>t, <1>k, <2>0, <2>2, <3>1 DEF LeaseKept, Release
    <3> QED
      BY <3>2, <3>3, KeptElsewhere
  <2> QED
    BY <2>1, <2>2
<1> QED
  BY <1>1, <1>2, <1>3, <1>4, <1>5 DEF SessionStep

(* An operation that ends leaves no lease behind: a stop finds it released *)
(* by its task, a retry releases it.                                       *)
LEMMA KeptOp ==
  ASSUME JobsInv, NEW p \in Procs, NEW j \in Jobs, OpEnds(p, j),
         \A q \in Procs, k \in Jobs : LeaseKept(q, k)
  PROVE  \A q \in Procs, k \in Jobs : LeaseKept(q, k)'
<1>t. /\ lease \in [Jobs -> Procs \cup {None}] /\ op \in [Jobs -> Procs \cup {None}]
      /\ kind \in [Jobs -> OpKinds]
  BY DEF JobsInv, TypeOK
<1>k. LeaseKept(p, j) /\ p # None
  BY NoneAssumption
<1>1. /\ op[j] = p /\ task[p][j] = "none"
      /\ op' = [op EXCEPT ![j] = None] /\ kind' = [kind EXCEPT ![j] = "none"]
      /\ UNCHANGED <<up, task, cancelling>>
      /\ \/ kind[j] = "stop" /\ UNCHANGED lease
         \/ Release(p, j)
  BY DEF OpEnds, StopCommit, StopBusy, RetryUndone, RetryRefusedEnd, Awaited
<1>2. OnlyAbout(p, j)
  BY <1>t, <1>1 DEF OnlyAbout, Release
<1>3. lease'[j] # p
  BY <1>t, <1>k, <1>1 DEF LeaseKept, Release
<1>4. LeaseKept(p, j)'
  BY <1>t, <1>k, <1>1, <1>3 DEF LeaseKept
<1> QED
  BY <1>2, <1>4, KeptElsewhere

(* A task that ends releases its lease, unless it never began.             *)
LEMMA KeptTask ==
  ASSUME JobsInv, NEW p \in Procs, NEW j \in Jobs, HandlerEnds(p, j) \/ LoopStep(p, j),
         \A q \in Procs, k \in Jobs : LeaseKept(q, k)
  PROVE  \A q \in Procs, k \in Jobs : LeaseKept(q, k)'
<1>t. /\ task \in [Procs -> [Jobs -> TaskStates]] /\ cancelling \in [Procs -> SUBSET Jobs]
      /\ lease \in [Jobs -> Procs \cup {None}]
  BY DEF JobsInv, TypeOK
<1>k. LeaseKept(p, j) /\ p # None
  BY NoneAssumption
<1>1. CASE Succeed(p, j) \/ Fail(p, j) \/ Begin(p, j) \/ HandlerCancelled(p, j) \/ Logged(p, j)
  <2>1. /\ task[p][j] # "none" /\ UNCHANGED <<up, lease, op, kind>>
        /\ \E s \in {"running", "failing", "cancelled", "finishing"} :
             task' = [task EXCEPT ![p][j] = s]
        /\ cancelling' \in {cancelling, [cancelling EXCEPT ![p] = @ \ {j}]}
    BY <1>1 DEF Succeed, Fail, Begin, Runs, HandlerCancelled, Logged, Submit
  <2>2. OnlyAbout(p, j)
    BY <1>t, <2>1 DEF OnlyAbout
  <2>3. task'[p][j] \notin {"none", "scheduled"}
    BY <1>t, <2>1
  <2>4. LeaseKept(p, j)'
    BY <1>k, <2>1, <2>3 DEF LeaseKept, JobsInv, RunnerHoldsLease
  <2> QED
    BY <2>2, <2>4, KeptElsewhere
<1>2. CASE NeverBegins(p, j)
  <2>1. /\ task[p][j] = "scheduled" /\ j \in cancelling[p] /\ UNCHANGED <<up, lease, op, kind>>
        /\ task' = [task EXCEPT ![p][j] = "none"]
        /\ cancelling' = [cancelling EXCEPT ![p] = @ \ {j}]
    BY <1>2 DEF NeverBegins
  <2>2. OnlyAbout(p, j)
    BY <1>t, <2>1 DEF OnlyAbout
  <2>3. LeaseKept(p, j)'
    BY <1>t, <1>k, <2>1 DEF LeaseKept
  <2> QED
    BY <2>2, <2>3, KeptElsewhere
<1>3. CASE Interrupted(p, j) \/ Finish(p, j)
  <2>1. /\ task' = [task EXCEPT ![p][j] = "none"] /\ Release(p, j) /\ UNCHANGED <<up, op, kind>>
        /\ \/ cancelling' = [cancelling EXCEPT ![p] = @ \ {j}]
           \/ j \notin cancelling[p] /\ UNCHANGED cancelling
    BY <1>3 DEF Interrupted, Finish, Exit
  <2>2. OnlyAbout(p, j)
    BY <1>t, <2>1 DEF OnlyAbout, Release
  <2>3. lease'[j] # p /\ task'[p][j] = "none" /\ j \notin cancelling'[p]
    BY <1>t, <1>k, <2>1 DEF Release
  <2>4. LeaseKept(p, j)'
    BY <2>3 DEF LeaseKept
  <2> QED
    BY <2>2, <2>4, KeptElsewhere
<1> QED
  BY <1>1, <1>2, <1>3 DEF HandlerEnds, LoopStep

(* A process that closes, leaves or crashes takes nothing from the others. *)
LEMMA KeptProcess ==
  ASSUME JobsInv, NEW p \in Procs, ProcessStep(p),
         \A q \in Procs, k \in Jobs : LeaseKept(q, k)
  PROVE  \A q \in Procs, k \in Jobs : LeaseKept(q, k)'
<1> SUFFICES ASSUME NEW q \in Procs, NEW k \in Jobs PROVE LeaseKept(q, k)'
  OBVIOUS
<1>t. /\ task \in [Procs -> [Jobs -> TaskStates]] /\ cancelling \in [Procs -> SUBSET Jobs]
      /\ up \in [Procs -> {"open", "closing", "closed", "down"}]
  BY DEF JobsInv, TypeOK
<1>k. LeaseKept(q, k) /\ p # None
  BY NoneAssumption
<1>1. CASE Close(p)
  BY <1>t, <1>k, <1>1 DEF Close, HasTask, LeaseKept
<1>2. CASE Closed(p)
  <2>1. /\ UNCHANGED <<task, cancelling, op, kind>> /\ \A m \in Jobs : task[p][m] = "none"
        /\ up[p] = "closing" /\ up'[p] = "closed" /\ \A r \in Procs \ {p} : up'[r] = up[r]
        /\ \A m \in Jobs : lease'[m] = IF lease[m] = p THEN None ELSE lease[m]
    BY <1>t, <1>2 DEF Closed, HasTask, ReleaseAll
  <2>2. CASE q = p
    BY <1>k, <2>1, <2>2 DEF LeaseKept
  <2>3. CASE q # p
    <3>1. up'[q] = up[q] /\ (lease'[k] = q <=> lease[k] = q)
      BY <1>k, <2>1, <2>3, NoneAssumption
    <3> QED
      BY <1>k, <2>1, <3>1 DEF LeaseKept
  <2> QED
    BY <2>2, <2>3
<1>3. CASE Boot(p)
  <2>1. up[p] = "down" /\ up' = [up EXCEPT ![p] = "open"]
        /\ UNCHANGED <<task, cancelling, lease, op, kind>>
    BY <1>3 DEF Boot
  <2> QED
    BY <1>t, <1>k, <2>1 DEF LeaseKept, JobsInv, RunnerHoldsLease
<1>4. ASSUME Gone(p)
      PROVE  LeaseKept(q, k)'
  <2>1. CASE q = p
    <3>1. /\ up'[q] = "down" /\ task'[q][k] = "none" /\ k \notin cancelling'[q]
          /\ lease'[k] # q /\ op'[k] # q
      BY <1>t, <1>k, <1>4, <2>1 DEF Gone, ReleaseAll
    <3> QED
      BY <3>1 DEF LeaseKept
  <2>2. CASE q # p
    <3>1. /\ up'[q] = up[q] /\ task'[q][k] = task[q][k] /\ cancelling'[q] = cancelling[q]
          /\ lease'[k] = q <=> lease[k] = q
          /\ op'[k] = q <=> op[k] = q
          /\ op[k] = q => kind'[k] = kind[k]
      BY <1>t, <1>4, <2>2, NoneAssumption DEF Gone, ReleaseAll
    <3> QED
      BY <1>k, <3>1 DEF LeaseKept
  <2> QED
    BY <2>1, <2>2
<1> QED
  BY <1>1, <1>2, <1>3, <1>4 DEF ProcessStep, Leave, Crash, CrashInRetry

LEMMA KeptStep ==
  ASSUME JobsInv, [Next]_vars, \A q \in Procs, k \in Jobs : LeaseKept(q, k)
  PROVE  \A q \in Procs, k \in Jobs : LeaseKept(q, k)'
<1>1. ASSUME NEW p \in Procs, ThreadStep(p)
      PROVE  \A q \in Procs, k \in Jobs : LeaseKept(q, k)'
  <2>1. UNCHANGED <<up, task, cancelling, lease, op, kind>>
    BY <1>1 DEF ThreadStep, Write, Defer
  <2> QED
    BY <2>1 DEF LeaseKept
<1>2. CASE UNCHANGED vars
  BY <1>2 DEF vars, loop, LeaseKept
<1> QED
  BY <1>1, <1>2, KeptSession, KeptOp, KeptTask, KeptProcess DEF Next

-----------------------------------------------------------------------------
(* The verdict that the replay lands was on its way.                       *)
LEMMA LandingsOne ==
  ASSUME TypeOK, NEW j \in Jobs, NEW n \in 1 .. MaxLaunches
  PROVE  \/ Landings[j][n] = landed[j][n]
         \/ Unapplied(j, n) /\ Landings[j][n] = landed[j][n] + 1
<1>0. landed[j] \in [1 .. MaxLaunches -> Nat]
  BY DEF TypeOK
<1>1. CASE ~Lands(j)
  BY <1>1 DEF Landings
<1>2. CASE Lands(j)
  <2>1. Unseen(j) \subseteq Nat /\ Unseen(j) # {}
    BY <1>2 DEF TypeOK, Unseen, Lands
  <2> DEFINE m == CHOOSE i \in Unseen(j) : \A k \in Unseen(j) : i <= k
  <2>2. m \in Unseen(j)
    BY <2>1, Least
  <2>3. First(j) = journal[m]
    BY DEF First
  <2> HIDE DEF m
  <2>4. First(j).launch = n => Unapplied(j, n)
    BY <2>2, <2>3 DEF Unseen, Unapplied
  <2>5. Landings[j] = [landed[j] EXCEPT ![First(j).launch] = @ + 1]
    BY <1>2 DEF Landings
  <2> QED
    BY <1>0, <2>4, <2>5
<1> QED
  BY <1>1, <1>2

(* Every transaction has seen the whole journal when it ends.              *)
LEMMA AllApplied ==
  ASSUME NEW s, NEW t, NEW l, Transact(s, t, l), NEW j \in Jobs, NEW n
  PROVE  ~Unapplied(j, n)'
<1>1. CASE journal' = <<>>
  BY <1>1 DEF Unapplied
<1>2. CASE journal' = journal /\ applied' = Journaled
  BY <1>2 DEF Unapplied, Journaled
<1> QED
  BY <1>1, <1>2 DEF Transact

(* A step that makes no verdict and moves none but through the replay.     *)
Quiet == UNCHANGED <<landed, journal, applied>> \/ \E s, t : Transact(s, t, Landings)

LEMMA QuietVerdicts ==
  ASSUME JobsInv, NEW j \in Jobs, NEW n \in 1 .. MaxLaunches, OneVerdict(j, n),
         Quiet, \A p \in Procs : threads'[p] \subseteq threads[p],
         Fresh(j, n)' => Fresh(j, n)
  PROVE  OneVerdict(j, n)'
<1>0. landed[j][n] \in Nat
  BY ZenonT(40) DEF JobsInv, TypeOK
<1>1. /\ Unapplied(j, n)' => Unapplied(j, n) /\ landed'[j][n] = landed[j][n]
      /\ \/ landed'[j][n] = landed[j][n]
         \/ Unapplied(j, n) /\ landed'[j][n] = landed[j][n] + 1
  <2>1. CASE UNCHANGED <<landed, journal, applied>>
    BY <2>1 DEF Unapplied
  <2>2. ASSUME NEW s, NEW t, Transact(s, t, Landings)
        PROVE  <1>1!1 /\ <1>1!2
    <3>1. landed' = Landings
      BY <2>2 DEF Transact
    <3> QED
      BY <2>2, <3>1, AllApplied, LandingsOne DEF JobsInv
  <2> QED
    BY <2>1, <2>2 DEF Quiet
<1>2. \A p \in Procs : InThread(p, j, n)' => InThread(p, j, n)
  BY DEF InThread
<1>3. landed'[j][n] <= 1 /\ (Unapplied(j, n)' => landed'[j][n] = 0)
  BY <1>0, <1>1 DEF OneVerdict
<1>4. ASSUME NEW p \in Procs, InThread(p, j, n)'
      PROVE  /\ landed'[j][n] = 0 /\ ~Unapplied(j, n)'
             /\ \A q \in Procs : InThread(q, j, n)' => q = p
             /\ \A u, v \in threads'[p] :
                  u.job = j /\ u.launch = n /\ v.job = j /\ v.launch = n => u = v
  BY <1>1, <1>2, <1>4 DEF OneVerdict
<1>5. ASSUME Fresh(j, n)'
      PROVE  landed'[j][n] = 0 /\ ~Unapplied(j, n)' /\ \A p \in Procs : ~InThread(p, j, n)'
  BY <1>1, <1>2, <1>5 DEF OneVerdict
<1> QED
  BY <1>3, <1>4, <1>5 DEF OneVerdict

(* No launch becomes fresh by a step that starts no task.                  *)
LEMMA NoneFresher ==
  ASSUME JobsInv, NEW j \in Jobs, NEW n \in 1 .. MaxLaunches,
         launches'[j] \in Nat, launches[j] <= launches'[j],
         \A p \in Procs : task'[p][j] \in Unfinished =>
           task[p][j] \in Unfinished /\ launches'[j] = launches[j]
  PROVE  Fresh(j, n)' => Fresh(j, n)
<1>1. launches[j] \in Nat
  BY DEF JobsInv, TypeOK
<1> QED
  BY <1>1 DEF Fresh

(* A launch was fresh before, too: it was still to come.                   *)
LEMMA FresherLaunch ==
  ASSUME JobsInv, NEW p \in Procs, NEW j \in Jobs, launches'[j] = launches[j] + 1,
         NEW n \in 1 .. MaxLaunches
  PROVE  Fresh(j, n)' => Fresh(j, n)
<1>1. launches[j] \in Nat
  BY DEF JobsInv, TypeOK
<1> QED
  BY <1>1 DEF Fresh

LEMMA VerdictsSession ==
  ASSUME JobsInv, AbsentUnlaunched, NEW p \in Procs, NEW j \in Jobs, SessionStep(p, j),
         \A k \in Jobs, n \in 1 .. MaxLaunches : OneVerdict(k, n)
  PROVE  \A k \in Jobs, n \in 1 .. MaxLaunches : OneVerdict(k, n)'
<1> SUFFICES ASSUME NEW k \in Jobs, NEW n \in 1 .. MaxLaunches PROVE OneVerdict(k, n)'
  OBVIOUS
<1>t. /\ task \in [Procs -> [Jobs -> TaskStates]] /\ launches \in [Jobs -> 0 .. MaxLaunches]
  BY DEF JobsInv, TypeOK
<1>1. Quiet
  BY DEF SessionStep, Start, Refresh, Stop, Retry, RetryUndo, RetryRefused, RefusedStore,
         store, Quiet
<1>2. UNCHANGED threads
  BY DEF SessionStep, Start, Refresh, Stop, Retry, RetryUndo, RetryRefused, loop
<1>3. Fresh(k, n)' => Fresh(k, n)
  <2>1. CASE UNCHANGED <<task, launches>>
    BY <1>t, <2>1, NoneFresher
  <2>2. CASE /\ launches' = [launches EXCEPT ![j] = launches[j] + 1]
             /\ task' = [task EXCEPT ![p][j] = "scheduled"]
    <3>1. CASE k = j
      BY <1>t, <2>2, <3>1, FresherLaunch
    <3>2. CASE k # j
      BY <1>t, <2>2, <3>2, NoneFresher
    <3> QED
      BY <3>1, <3>2
  <2>3. Start(p, j) => launches[j] = 0
    BY DEF Start, AbsentUnlaunched
  <2>4. Start(p, j) => /\ launches' = [launches EXCEPT ![j] = launches[j] + 1]
                       /\ task' = [task EXCEPT ![p][j] = "scheduled"]
    BY <1>t, <2>3 DEF Start
  <2>5. Retry(p, j) \/ RetryUndo(p, j) =>
          /\ launches' = [launches EXCEPT ![j] = launches[j] + 1]
          /\ task' = [task EXCEPT ![p][j] = "scheduled"]
    BY <1>t DEF Retry, RetryUndo, Relaunch
  <2>6. Refresh(p, j) \/ Stop(p, j) \/ RetryRefused(p, j) => UNCHANGED <<task, launches>>
    BY DEF Refresh, Stop, RetryRefused, loop
  <2> QED
    BY <2>1, <2>2, <2>4, <2>5, <2>6 DEF SessionStep
<1> QED
  BY <1>1, <1>2, <1>3, QuietVerdicts

LEMMA VerdictsOp ==
  ASSUME JobsInv, NEW p \in Procs, NEW j \in Jobs, OpEnds(p, j),
         \A k \in Jobs, n \in 1 .. MaxLaunches : OneVerdict(k, n)
  PROVE  \A k \in Jobs, n \in 1 .. MaxLaunches : OneVerdict(k, n)'
<1> SUFFICES ASSUME NEW k \in Jobs, NEW n \in 1 .. MaxLaunches PROVE OneVerdict(k, n)'
  OBVIOUS
<1>1. Quiet
  BY DEF OpEnds, StopCommit, StopBusy, RetryUndone, RetryRefusedEnd, store, Quiet
<1>2. UNCHANGED <<threads, task, launches>>
  BY DEF OpEnds, StopCommit, StopBusy, RetryUndone, RetryRefusedEnd
<1>3. Fresh(k, n)' => Fresh(k, n)
  BY <1>2 DEF Fresh
<1> QED
  BY <1>1, <1>2, <1>3, QuietVerdicts

(* A task that submits its verdict has made none before.                   *)
LEMMA VerdictsTask ==
  ASSUME JobsInv, NEW p \in Procs, NEW j \in Jobs, HandlerEnds(p, j) \/ LoopStep(p, j),
         \A k \in Jobs, n \in 1 .. MaxLaunches : OneVerdict(k, n)
  PROVE  \A k \in Jobs, n \in 1 .. MaxLaunches : OneVerdict(k, n)'
<1> SUFFICES ASSUME NEW k \in Jobs, NEW n \in 1 .. MaxLaunches PROVE OneVerdict(k, n)'
  OBVIOUS
<1>t. /\ task \in [Procs -> [Jobs -> TaskStates]] /\ launches \in [Jobs -> 0 .. MaxLaunches]
      /\ threads \in [Procs -> SUBSET Updates]
  BY DEF JobsInv, TypeOK
<1>0. UNCHANGED <<landed, journal, applied, launches>>
  BY DEF HandlerEnds, Succeed, Fail, LoopStep, Begin, NeverBegins, HandlerCancelled, Logged,
         Interrupted, Finish, store
<1>1. CASE \/ Fail(p, j) \/ Begin(p, j) \/ NeverBegins(p, j) \/ HandlerCancelled(p, j)
           \/ Interrupted(p, j) \/ Finish(p, j)
  <2>1. /\ UNCHANGED threads
        /\ \/ task[p][j] \in Unfinished /\ \E s : task' = [task EXCEPT ![p][j] = s]
           \/ task' = [task EXCEPT ![p][j] = "none"]
    BY <1>1 DEF Fail, Begin, Runs, NeverBegins, HandlerCancelled, Interrupted, Finish, Exit,
                Unfinished
  <2>2. \A q \in Procs : task'[q][k] \in Unfinished => task[q][k] \in Unfinished
    <3>1. /\ \A q \in Procs : q # p \/ k # j => task'[q][k] = task[q][k]
          /\ task[p][j] \in Unfinished \/ task'[p][j] = "none"
      BY <1>t, <2>1
    <3> QED
      BY <3>1 DEF Unfinished
  <2>3. Fresh(k, n)' => Fresh(k, n)
    BY <1>0, <2>2 DEF Fresh
  <2> QED
    BY <1>0, <2>1, <2>3, QuietVerdicts DEF Quiet
<1>2. ASSUME NEW s, Submit(p, j, s), task[p][j] \in Unfinished
      PROVE  OneVerdict(k, n)'
  <2>1. /\ task' = [task EXCEPT ![p][j] = "finishing"]
        /\ threads'[p] = threads[p] \cup {Verdict(j, s)}
        /\ \A q \in Procs \ {p} : threads'[q] = threads[q]
    BY <1>t, <1>2 DEF Submit
  <2>2. Unapplied(k, n)' = Unapplied(k, n) /\ landed'[k][n] = landed[k][n]
    BY <1>0 DEF Unapplied
  <2>3. Fresh(k, n)' => Fresh(k, n)
    BY <1>t, <1>0, <2>1 DEF Fresh, Unfinished
  <2>4. CASE k = j /\ n = launches[j]
    <3>1. Fresh(k, n)
      BY <1>2, <2>4 DEF Fresh
    <3>2. /\ landed[k][n] = 0 /\ ~Unapplied(k, n) /\ \A q \in Procs : ~InThread(q, k, n)
      BY <3>1 DEF OneVerdict
    <3>3. \A q \in Procs : InThread(q, k, n)' => q = p
      BY <2>1, <3>2 DEF InThread
    <3>4. \A u \in threads'[p] : u.job = k /\ u.launch = n => u = Verdict(j, s)
      BY <2>1, <3>2 DEF InThread
    <3>5. ~Fresh(k, n)'
      <4>1. \A q \in Procs : task'[q][j] \notin Unfinished
        BY <1>t, <1>2, <2>1 DEF Unfinished, JobsInv, RunnerHoldsLease
      <4> QED
        BY <1>t, <1>0, <2>4, <4>1 DEF Fresh
    <3> QED
      BY <2>2, <3>2, <3>3, <3>4, <3>5 DEF OneVerdict
  <2>5. CASE ~(k = j /\ n = launches[j])
    <3>1. ~(Verdict(j, s).job = k /\ Verdict(j, s).launch = n)
      BY <2>5 DEF Verdict
    <3>2. \A q \in Procs : InThread(q, k, n)' = InThread(q, k, n)
      BY <2>1, <3>1 DEF InThread
    <3>3. \A q \in Procs : \A u \in threads'[q] :
            u.job = k /\ u.launch = n => u \in threads[q]
      BY <2>1, <3>1
    <3> QED
      BY <2>2, <2>3, <3>2, <3>3 DEF OneVerdict
  <2> QED
    BY <2>4, <2>5
<1>3. CASE Succeed(p, j) \/ Logged(p, j)
  <2>1. task[p][j] \in Unfinished /\ \E s : Submit(p, j, s)
    BY <1>3 DEF Succeed, Logged, Unfinished
  <2> QED
    BY <1>2, <2>1
<1> QED
  BY <1>1, <1>3 DEF HandlerEnds, LoopStep

(* A thread moves its verdict to the row or to the journal.                *)
LEMMA VerdictsThread ==
  ASSUME JobsInv, NEW p \in Procs, ThreadStep(p),
         \A k \in Jobs, n \in 1 .. MaxLaunches : OneVerdict(k, n)
  PROVE  \A k \in Jobs, n \in 1 .. MaxLaunches : OneVerdict(k, n)'
<1> SUFFICES ASSUME NEW k \in Jobs, NEW n \in 1 .. MaxLaunches PROVE OneVerdict(k, n)'
  OBVIOUS
<1>t. /\ threads \in [Procs -> SUBSET Updates] /\ journal \in Seq(Updates)
      /\ landed[k] \in [1 .. MaxLaunches -> Nat] /\ landed[k][n] \in Nat
  <2>1. /\ threads \in [Procs -> SUBSET Updates] /\ journal \in Seq(Updates)
        /\ landed \in [Jobs -> [1 .. MaxLaunches -> Nat]]
    BY DEF JobsInv, TypeOK
  <2> QED
    BY <2>1
<1>0. PICK u \in threads[p] : Write(p, u) \/ Defer(p, u)
  BY DEF ThreadStep
<1>u. u.job \in Jobs /\ u.launch \in 1 .. MaxLaunches /\ u \in Updates
  BY <1>t DEF Updates
<1>1. /\ threads'[p] = threads[p] \ {u} /\ \A q \in Procs \ {p} : threads'[q] = threads[q]
      /\ UNCHANGED <<task, launches>>
  BY <1>t, <1>0 DEF Write, Defer
<1>2. \A q \in Procs : threads'[q] \subseteq threads[q]
  BY <1>1
<1>3. Fresh(k, n)' => Fresh(k, n)
  BY <1>1 DEF Fresh
<1>4. ASSUME k = u.job, n = u.launch
      PROVE  /\ landed[k][n] = 0 /\ ~Unapplied(k, n) /\ ~Fresh(k, n)
             /\ \A q \in Procs : ~InThread(q, k, n)'
  <2>1. InThread(p, k, n)
    BY <1>4 DEF InThread
  <2>2. landed[k][n] = 0 /\ ~Unapplied(k, n) /\ ~Fresh(k, n)
    BY <2>1 DEF OneVerdict
  <2>3. \A q \in Procs : InThread(q, k, n) => q = p
    BY <2>1 DEF OneVerdict
  <2>4. \A v \in threads[p] : v.job = k /\ v.launch = n => v = u
    BY <1>4, <2>1 DEF OneVerdict
  <2> QED
    BY <1>1, <2>2, <2>3, <2>4 DEF InThread
<1>5. CASE Write(p, u)
  <2>1. CASE Replayed[u.job] \notin Active
    <3>1. Quiet
      BY <1>5, <2>1 DEF Write, Quiet
    <3> QED
      BY <1>2, <1>3, <3>1, QuietVerdicts
  <2>2. CASE Replayed[u.job] \in Active
    <3>1. /\ landed' = [Landings EXCEPT ![u.job][u.launch] = @ + 1]
          /\ ~Unapplied(k, n)'
      <4>1. Transact([Replayed EXCEPT ![u.job] = u.status], [Tokens EXCEPT ![u.job] = None],
                     [Landings EXCEPT ![u.job][u.launch] = @ + 1])
        BY <1>5, <2>2 DEF Write
      <4> QED
        BY <4>1, AllApplied DEF Transact
    <3>2. Landings \in [Jobs -> [1 .. MaxLaunches -> Nat]]
      BY ReplayType DEF JobsInv
    <3>3. CASE k = u.job /\ n = u.launch
      <4>1. landed[k][n] = 0 /\ ~Unapplied(k, n) /\ ~Fresh(k, n)
            /\ \A q \in Procs : ~InThread(q, k, n)'
        BY <1>4, <3>3
      <4>2. Landings[k][n] = 0
        BY <4>1, LandingsOne DEF JobsInv
      <4>3. landed'[k][n] = Landings[k][n] + 1
        BY <1>u, <3>1, <3>2, <3>3
      <4>4. landed'[k][n] = 1
        BY <4>2, <4>3
      <4> QED
        BY <1>3, <3>1, <4>1, <4>4 DEF OneVerdict
    <3>4. CASE ~(k = u.job /\ n = u.launch)
      <4>1. landed'[k][n] = Landings[k][n]
        BY <1>u, <3>1, <3>2, <3>4
      <4>2. \/ landed'[k][n] = landed[k][n]
            \/ Unapplied(k, n) /\ landed'[k][n] = landed[k][n] + 1
        BY <4>1, LandingsOne DEF JobsInv
      <4>3. \A q \in Procs : InThread(q, k, n)' => InThread(q, k, n)
        BY <1>2 DEF InThread
      <4>4. landed'[k][n] <= 1
        BY <1>t, <4>2 DEF OneVerdict
      <4>5. Fresh(k, n)' => landed'[k][n] = 0 /\ \A q \in Procs : ~InThread(q, k, n)'
        BY <1>3, <4>2, <4>3 DEF OneVerdict
      <4>6. ASSUME NEW q \in Procs, InThread(q, k, n)'
            PROVE  /\ landed'[k][n] = 0
                   /\ \A r \in Procs : InThread(r, k, n)' => r = q
                   /\ \A v, w \in threads'[q] :
                        v.job = k /\ v.launch = n /\ w.job = k /\ w.launch = n => v = w
        BY <1>2, <4>2, <4>3, <4>6 DEF OneVerdict
      <4> QED
        BY <3>1, <4>4, <4>5, <4>6 DEF OneVerdict
    <3> QED
      BY <3>3, <3>4
  <2> QED
    BY <2>1, <2>2
<1>6. CASE Defer(p, u)
  <2>1. journal' = Append(journal, u) /\ UNCHANGED <<applied, landed>>
    BY <1>6 DEF Defer
  <2>2. Unapplied(k, n)' => Unapplied(k, n) \/ (k = u.job /\ n = u.launch)
    <3>1. SUFFICES ASSUME NEW i \in DOMAIN journal', journal'[i].job = k,
                          journal'[i].launch = n, journal'[i] \notin applied,
                          ~(k = u.job /\ n = u.launch)
                   PROVE  Unapplied(k, n)
      BY <2>1 DEF Unapplied
    <3>2. journal'[i] = IF i = Len(journal) + 1 THEN u ELSE journal[i]
      BY <1>t, <1>u, <2>1
    <3>3. i # Len(journal) + 1 /\ i \in DOMAIN journal
      BY <1>t, <1>u, <2>1, <3>1, <3>2
    <3> QED
      BY <3>1, <3>2, <3>3 DEF Unapplied
  <2>3. CASE k = u.job /\ n = u.launch
    BY <1>3, <1>4, <2>1, <2>3 DEF OneVerdict
  <2>4. CASE ~(k = u.job /\ n = u.launch)
    <3>1. \A q \in Procs : InThread(q, k, n)' => InThread(q, k, n)
      BY <1>2 DEF InThread
    <3>2. Unapplied(k, n)' => Unapplied(k, n)
      BY <2>2, <2>4
    <3> QED
      BY <1>2, <1>3, <2>1, <3>1, <3>2 DEF OneVerdict
  <2> QED
    BY <2>3, <2>4
<1> QED
  BY <1>0, <1>5, <1>6

(* A process that dies takes the verdicts of its threads with it.          *)
LEMMA VerdictsProcess ==
  ASSUME JobsInv, NEW p \in Procs, ProcessStep(p),
         \A k \in Jobs, n \in 1 .. MaxLaunches : OneVerdict(k, n)
  PROVE  \A k \in Jobs, n \in 1 .. MaxLaunches : OneVerdict(k, n)'
<1> SUFFICES ASSUME NEW k \in Jobs, NEW n \in 1 .. MaxLaunches PROVE OneVerdict(k, n)'
  OBVIOUS
<1>t. /\ task \in [Procs -> [Jobs -> TaskStates]] /\ launches \in [Jobs -> 0 .. MaxLaunches]
      /\ threads \in [Procs -> SUBSET Updates]
  BY DEF JobsInv, TypeOK
<1>1. Quiet
  BY DEF ProcessStep, Close, Closed, Leave, Crash, Boot, CrashInRetry, store, Quiet
<1>2. \A q \in Procs : threads'[q] \subseteq threads[q]
  BY <1>t DEF ProcessStep, Close, Closed, Leave, Crash, Boot, CrashInRetry, Gone
<1>3. \A q \in Procs : task'[q][k] \in Unfinished => task'[q][k] = task[q][k]
  <2>1. UNCHANGED task \/ task' = [task EXCEPT ![p] = [m \in Jobs |-> "none"]]
    BY DEF ProcessStep, Close, Closed, Leave, Crash, Boot, CrashInRetry, Gone
  <2> QED
    BY <1>t, <2>1 DEF Unfinished
<1>4. Fresh(k, n)' => Fresh(k, n)
  <2>1. CASE UNCHANGED launches
    BY <1>3, <2>1 DEF Fresh
  <2>2. ASSUME NEW j \in Jobs, CrashInRetry(p, j)
        PROVE  Fresh(k, n)' => Fresh(k, n)
    <3>1. launches' = [launches EXCEPT ![j] = launches[j] + 1] /\ lease[j] = None
      BY <1>t, <2>2 DEF CrashInRetry, Relaunch
    <3>2. CASE k = j
      BY <1>t, <3>1, <3>2, FresherLaunch
    <3>3. CASE k # j
      BY <1>t, <1>3, <3>1, <3>3 DEF Fresh
    <3> QED
      BY <3>2, <3>3
  <2>3. UNCHANGED launches \/ \E j \in Jobs : CrashInRetry(p, j)
    BY DEF ProcessStep, Close, Closed, Leave, Crash, Boot
  <2> QED
    BY <2>1, <2>2, <2>3
<1> QED
  BY <1>1, <1>2, <1>4, QuietVerdicts

LEMMA VerdictsStep ==
  ASSUME JobsInv, AbsentUnlaunched, [Next]_vars,
         \A k \in Jobs, n \in 1 .. MaxLaunches : OneVerdict(k, n)
  PROVE  \A k \in Jobs, n \in 1 .. MaxLaunches : OneVerdict(k, n)'
<1>1. CASE UNCHANGED vars
  BY <1>1 DEF vars, loop, store, OneVerdict, InThread, Unapplied, Fresh
<1> QED
  BY <1>1, VerdictsSession, VerdictsOp, VerdictsTask, VerdictsThread, VerdictsProcess DEF Next

(* A job without a row was never launched.                                 *)
LEMMA AbsentStep ==
  ASSUME JobsInv, AbsentUnlaunched, [Next]_vars
  PROVE  AbsentUnlaunched'
<1>1. CASE UNCHANGED vars
  BY <1>1 DEF vars, store, AbsentUnlaunched
<1>2. CASE Next
  <2> SUFFICES ASSUME NEW k \in Jobs, status'[k] = "absent" PROVE launches'[k] = 0
    BY DEF AbsentUnlaunched
  <2>1. StepSafe
    BY <1>2, StepIsSafe
  <2>2. status'[k] \notin Active
    BY DEF Active
  <2>3. status[k] = "absent" /\ launches[k] = 0
    BY <2>1, <2>2 DEF StepSafe, RowStep, Launched, AbsentUnlaunched
  <2>4. ASSUME NEW p \in Procs
        PROVE  ~Start(p, k) /\ ~Relaunch(p, k)
    <3>1. ~Relaunch(p, k)
      <4>1. Refreshed(p, k) = "absent"
        BY <2>3, RefreshedRow
      <4> QED
        BY <4>1 DEF Relaunch, Terminal, Verdicts
    <3>2. ASSUME Start(p, k)
          PROVE  status'[k] = "running"
      BY <3>2, ReplayType DEF Start, Transact, JobsInv
    <3> QED
      BY <2>2, <3>1, <3>2 DEF Active
  <2>5. ASSUME NEW p \in Procs, NEW j \in Jobs, SessionStep(p, j)
        PROVE  launches' = launches \/ Start(p, j) \/ Relaunch(p, j)
    BY <2>5 DEF SessionStep, Refresh, Stop, Retry, RetryUndo, RetryRefused
  <2>6. ASSUME NEW p \in Procs, NEW j \in Jobs,
               OpEnds(p, j) \/ HandlerEnds(p, j) \/ LoopStep(p, j)
        PROVE  launches' = launches
    BY <2>6 DEF OpEnds, StopCommit, StopBusy, RetryUndone, RetryRefusedEnd, HandlerEnds,
                Succeed, Fail, LoopStep, Begin, NeverBegins, HandlerCancelled, Logged,
                Interrupted, Finish
  <2>7. ASSUME NEW p \in Procs, ThreadStep(p)
        PROVE  launches' = launches
    BY <2>7 DEF ThreadStep, Write, Defer
  <2>8. ASSUME NEW p \in Procs, ProcessStep(p)
        PROVE  launches' = launches \/ \E j \in Jobs : Relaunch(p, j)
    BY <2>8 DEF ProcessStep, Close, Closed, Leave, Crash, Boot, CrashInRetry
  <2>9. \/ launches' = launches
        \/ \E p \in Procs, j \in Jobs : Start(p, j) \/ Relaunch(p, j)
    BY <1>2, <2>5, <2>6, <2>7, <2>8 DEF Next
  <2>10. CASE launches' = launches
    BY <2>3, <2>10
  <2>11. ASSUME NEW p \in Procs, NEW j \in Jobs, Start(p, j) \/ Relaunch(p, j)
         PROVE  launches'[k] = 0
    <3>1. j # k
      BY <2>4, <2>11
    <3> QED
      BY <2>3, <2>11, <3>1 DEF Start, Relaunch, JobsInv, TypeOK
  <2> QED
    BY <2>9, <2>10, <2>11
<1> QED
  BY <1>1, <1>2

LEMMA VerdictInvInit == Init => VerdictInv
<1> SUFFICES ASSUME Init PROVE VerdictInv
  OBVIOUS
<1>1. JobsInv
  BY JobsInvInit
<1>2. \A p \in Procs, j \in Jobs : LeaseKept(p, j)
  BY NoneAssumption DEF Init, LeaseKept
<1>3. ASSUME NEW j \in Jobs, NEW n \in 1 .. MaxLaunches
      PROVE  OneVerdict(j, n)
  <2>1. landed[j][n] = 0 /\ \A p \in Procs : threads[p] = {}
    BY DEF Init
  <2>2. ~Unapplied(j, n) /\ \A p \in Procs : ~InThread(p, j, n)
    BY <2>1 DEF Init, Unapplied, InThread
  <2> QED
    BY <2>1, <2>2 DEF OneVerdict
<1>4. AbsentUnlaunched
  BY DEF Init, AbsentUnlaunched
<1> QED
  BY <1>1, <1>2, <1>3, <1>4 DEF VerdictInv

LEMMA VerdictInvStep == VerdictInv /\ [Next]_vars => VerdictInv'
<1> SUFFICES ASSUME VerdictInv, [Next]_vars PROVE VerdictInv'
  OBVIOUS
<1>1. JobsInv /\ AbsentUnlaunched
  BY DEF VerdictInv
<1>2. JobsInv'
  BY <1>1, JobsInvStep
<1>3. \A p \in Procs, j \in Jobs : LeaseKept(p, j)'
  BY <1>1, KeptStep DEF VerdictInv
<1>4. \A j \in Jobs, n \in 1 .. MaxLaunches : OneVerdict(j, n)'
  BY <1>1, VerdictsStep DEF VerdictInv
<1>5. AbsentUnlaunched'
  BY <1>1, AbsentStep
<1> QED
  BY <1>2, <1>3, <1>4, <1>5 DEF VerdictInv

(* Every lease has a task or an operation that will release it, and the    *)
(* verdict of a launch changes the row at most once, through second        *)
(* cancellations, busy stores, journals that outlive their replay, crashes *)
(* and restarts.                                                           *)
THEOREM VerdictTheorem == Spec => []VerdictsAccounted
<1>1. VerdictInv => VerdictsAccounted
  BY DEF VerdictInv, VerdictsAccounted, LeaseHasPurpose, VerdictLandsOnce, LeaseKept, OneVerdict
<1> QED
  BY <1>1, VerdictInvInit, VerdictInvStep, PTL DEF Spec

=============================================================================
