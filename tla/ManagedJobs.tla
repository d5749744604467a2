----------------------------- MODULE ManagedJobs -----------------------------
(***************************************************************************)
(* Controller-managed jobs: durable rows in a store that several server    *)
(* processes share, one asyncio task per running job in the process that   *)
(* launched it, and one file lease per job that tells the peers whether    *)
(* that process still lives.                                               *)
(*                                                                         *)
(* A store transaction is serialised by a thread lock and a file lock, so  *)
(* it is one action.  The coroutines of a process run on one loop; a task  *)
(* writes its verdict in a thread of its own, which runs on when the task  *)
(* that awaits it is cancelled.  Start, stop and retry of a job hold its   *)
(* session's lifecycle lock, which reaches across processes: one of them   *)
(* is in flight at a time, and by the time the next has taken the lock the *)
(* loop has run the first step of a task the last one created.             *)
(*                                                                         *)
(* The file system does what it is asked, except that locks time out and a *)
(* journal file may survive its removal.  Logs, progress and the eviction  *)
(* of old rows are left out: no decision here reads them.                  *)
(***************************************************************************)
EXTENDS Naturals, Sequences, FiniteSets

CONSTANTS
  Procs,       \* server processes that share the state directory
  Jobs,        \* job ids
  None,        \* no process
  MaxLaunches  \* bound of the model: starts plus retries of one job

ASSUME NoneAssumption == None \notin Procs
ASSUME MaxLaunchesAssumption == MaxLaunches \in Nat \ {0}

VARIABLES
  up,          \* the process and its ManagedJobsRuntime
  task,        \* tasks: the asyncio task of a job in a process
  cancelling,  \* jobs whose task was cancelled but has not run since
  threads,     \* verdicts being written by a thread of the process
  lease,       \* the process that holds the job's lease
  op,          \* the process whose stop or retry of the job is in flight
  kind,        \* what that operation waits for
  status,      \* row: status
  owner,       \* row: runtime_instance_id
  token,       \* row: operation_id, named by its process
  journal,     \* deferred updates on disk, in their order
  applied,     \* rows: managed_deferred_update_ids
  launches,    \* launches of the job so far
  landed       \* how often the verdict of a launch changed the row

loop  == <<up, task, cancelling, threads, lease, op, kind>>
store == <<status, token, journal, applied, landed>>
vars  == <<loop, store, owner, launches>>

Active   == {"running", "stopping", "retrying"}
Verdicts == {"succeeded", "failed", "stopped"}
Terminal == Verdicts \cup {"lost"}
Statuses == Active \cup Terminal \cup {"absent"}
Updates  == [job : Jobs, launch : 1 .. MaxLaunches, status : Verdicts]

(* A task logs the end of its handler ("failing", "cancelled") and awaits  *)
(* the thread that writes the verdict ("finishing").                       *)
TaskStates == {"none", "scheduled", "running", "failing", "cancelled",
               "finishing"}
OpKinds    == {"none", "stop", "refused", "undo"}

Init ==
  /\ up         = [p \in Procs |-> "open"]
  /\ task       = [p \in Procs |-> [j \in Jobs |-> "none"]]
  /\ cancelling = [p \in Procs |-> {}]
  /\ threads    = [p \in Procs |-> {}]
  /\ lease      = [j \in Jobs |-> None]
  /\ op         = [j \in Jobs |-> None]
  /\ kind       = [j \in Jobs |-> "none"]
  /\ status     = [j \in Jobs |-> "absent"]
  /\ owner      = [j \in Jobs |-> None]
  /\ token      = [j \in Jobs |-> None]
  /\ journal    = <<>>
  /\ applied    = {}
  /\ launches   = [j \in Jobs |-> 0]
  /\ landed     = [j \in Jobs |-> [n \in 1 .. MaxLaunches |-> 0]]

-----------------------------------------------------------------------------
(* The store transaction.                                                  *)

Journaled == {journal[i] : i \in DOMAIN journal}

(* Fault: what a row has seen is not remembered.                           *)
UnseenAgain(j) == {i \in DOMAIN journal : journal[i].job = j}

(* The places of the journaled updates of j that its row has not seen yet. *)
Unseen(j) ==
  {i \in DOMAIN journal : journal[i].job = j /\ journal[i] \notin applied}

First(j) == journal[CHOOSE i \in Unseen(j) : \A k \in Unseen(j) : i <= k]

(* Fault: a completed row is overwritten.                                  *)
LandsAnywhere(j) == status[j] # "absent" /\ Unseen(j) # {}

(* Only the first can land: a row it completes ignores the others.         *)
Lands(j) == status[j] \in Active /\ Unseen(j) # {}

(* reconcile_managed_deferred_updates, the start of every transaction.     *)
Replayed == [j \in Jobs |-> IF Lands(j) THEN First(j).status ELSE status[j]]
Tokens   == [j \in Jobs |-> IF Lands(j) THEN None ELSE token[j]]
Landings == [j \in Jobs |->
               IF Lands(j) THEN [landed[j] EXCEPT ![First(j).launch] = @ + 1]
                           ELSE landed[j]]

(* A transaction leaves the rows s with the operation tokens t.  Journal   *)
(* files go once the rows are saved; the process can die in between, and a *)
(* file that cannot be removed stays, too.                                 *)
Transact(s, t, l) ==
  /\ status' = s
  /\ token'  = t
  /\ landed' = l
  /\ \/ journal' = <<>>     /\ applied' = {}
     \/ journal' = journal /\ applied' = Journaled

(* _refresh_job_status of j by process p, after the replay.                *)
OperationActive(p, j) ==
  op[j] = p /\ kind[j] \in {"stop", "undo"} /\ Tokens[j] = p
LocalTask(p, j) == owner[j] = p /\ task[p][j] # "none"

(* Fault: a peer's job counts as dead, whoever holds its lease.            *)
OrphanedLocally(p, j) ==
  /\ Replayed[j] \in Active
  /\ ~OperationActive(p, j)
  /\ ~LocalTask(p, j)

Orphaned(p, j) ==
  /\ Replayed[j] \in Active
  /\ ~OperationActive(p, j)
  /\ ~LocalTask(p, j)
  /\ lease[j] = None

Refreshed(p, j) ==
  IF Orphaned(p, j)
    THEN IF Replayed[j] = "stopping" THEN "stopped" ELSE "lost"
    ELSE Replayed[j]

-----------------------------------------------------------------------------
(* Operations of a session.                                                *)

Free(j) == op[j] = None

(* start_managed_job: the lease, the row, the task, without a wait.        *)
Start(p, j) ==
  /\ up[p] = "open"
  /\ Free(j)
  /\ status[j] = "absent"
  /\ lease'    = [lease EXCEPT ![j] = p]
  /\ task'     = [task EXCEPT ![p][j] = "scheduled"]
  /\ owner'    = [owner EXCEPT ![j] = p]
  /\ launches' = [launches EXCEPT ![j] = 1]
  /\ Transact([Replayed EXCEPT ![j] = "running"], Tokens, Landings)
  /\ UNCHANGED <<up, cancelling, threads, op, kind>>

(* managed_job_list_execute, and every operation that refreshes the row    *)
(* and then has nothing to do.                                             *)
Refresh(p, j) ==
  /\ up[p] \in {"open", "closing"}
  /\ status[j] # "absent"
  /\ Transact([Replayed EXCEPT ![j] = Refreshed(p, j)],
              [Tokens EXCEPT ![j] = IF Orphaned(p, j) THEN None ELSE @],
              Landings)
  /\ UNCHANGED <<loop, owner, launches>>

(* _stop_managed_job_without_session_admission: mark the row, cancel the   *)
(* task and wait for it.                                                   *)
Stop(p, j) ==
  /\ up[p] \in {"open", "closing"}
  /\ Free(j)
  /\ Replayed[j] = "running"
  /\ LocalTask(p, j)
  /\ task[p][j] # "scheduled"
  /\ Transact([Replayed EXCEPT ![j] = "stopping"], [Tokens EXCEPT ![j] = p],
              Landings)
  /\ op'         = [op EXCEPT ![j] = p]
  /\ kind'       = [kind EXCEPT ![j] = "stop"]
  /\ cancelling' = [cancelling EXCEPT ![p] = @ \cup {j}]
  /\ UNCHANGED <<up, task, threads, lease, owner, launches>>

(* The operation of p on j that waited for the task goes on.               *)
Awaited(p, j, k) ==
  /\ up[p] # "down"
  /\ op[j] = p
  /\ kind[j] = k
  /\ task[p][j] = "none"
  /\ op'   = [op EXCEPT ![j] = None]
  /\ kind' = [kind EXCEPT ![j] = "none"]

(* _stop_managed_job, after the wait.                                      *)
StopCommit(p, j) ==
  /\ Awaited(p, j, "stop")
  /\ IF Replayed[j] = "stopping" /\ Tokens[j] = p
       THEN Transact([Replayed EXCEPT ![j] = "stopped"],
                     [Tokens EXCEPT ![j] = None], Landings)
       ELSE Transact(Replayed, Tokens, Landings)
  /\ UNCHANGED <<up, task, cancelling, threads, lease, owner, launches>>

(* The store is busy: stop raises, its token is no longer active.          *)
StopBusy(p, j) ==
  /\ Awaited(p, j, "stop")
  /\ UNCHANGED <<up, task, cancelling, threads, lease, store, owner, launches>>

(* The row is terminal and the lease free: _retry_managed_job reserves the *)
(* lease, marks the row and launches the task.                             *)
Relaunch(p, j) ==
  /\ up[p] = "open"
  /\ Free(j)
  /\ Refreshed(p, j) \in Terminal
  /\ lease[j] = None
  /\ launches[j] < MaxLaunches
  /\ launches' = [launches EXCEPT ![j] = @ + 1]
  /\ owner'    = [owner EXCEPT ![j] = p]

(* _retry_managed_job to its end: the loop never waits on that way.        *)
Retry(p, j) ==
  /\ Relaunch(p, j)
  /\ Transact([Replayed EXCEPT ![j] = "running"],
              [Tokens EXCEPT ![j] = None], Landings)
  /\ lease' = [lease EXCEPT ![j] = p]
  /\ task'  = [task EXCEPT ![p][j] = "scheduled"]
  /\ UNCHANGED <<up, cancelling, threads, op, kind>>

(* The store is busy after the launch: the new task is cancelled again.    *)
RetryUndo(p, j) ==
  /\ Relaunch(p, j)
  /\ Transact([Replayed EXCEPT ![j] = "retrying"], [Tokens EXCEPT ![j] = p],
              Landings)
  /\ lease'      = [lease EXCEPT ![j] = p]
  /\ task'       = [task EXCEPT ![p][j] = "scheduled"]
  /\ cancelling' = [cancelling EXCEPT ![p] = @ \cup {j}]
  /\ op'         = [op EXCEPT ![j] = p]
  /\ kind'       = [kind EXCEPT ![j] = "undo"]
  /\ UNCHANGED <<up, threads>>

(* release_lease by p: a lease it does not hold is left alone.             *)
Release(p, j) == lease' = [lease EXCEPT ![j] = IF @ = p THEN None ELSE @]

RetryUndone(p, j) ==
  /\ Awaited(p, j, "undo")
  /\ Release(p, j)
  /\ \/ /\ Tokens[j] = p
        /\ Transact([Replayed EXCEPT ![j] = "failed"],
                    [Tokens EXCEPT ![j] = None], Landings)
     \/ /\ Tokens[j] # p
        /\ Transact(Replayed, Tokens, Landings)
     \/ UNCHANGED store   \* busy again
  /\ UNCHANGED <<up, task, cancelling, threads, owner, launches>>

(* What a refused retry leaves in the store: nothing when the row is still *)
(* active or the store busy, the refreshed row when the lease is held.     *)
RefusedStore(p, j) ==
  \/ UNCHANGED store
  \/ /\ Refreshed(p, j) \in Terminal
     /\ lease[j] # None
     /\ Transact([Replayed EXCEPT ![j] = Refreshed(p, j)],
                 [Tokens EXCEPT ![j] = IF Orphaned(p, j) THEN None ELSE @],
                 Landings)

(* Fault: the lease is released without waiting for the task.              *)
RetryRefusedAtOnce(p, j) ==
  /\ up[p] = "open"
  /\ Free(j)
  /\ task[p][j] \notin {"none", "scheduled"}
  /\ RefusedStore(p, j)
  /\ cancelling' = [cancelling EXCEPT ![p] = @ \cup {j}]
  /\ Release(p, j)
  /\ UNCHANGED <<up, task, threads, op, kind, owner, launches>>

(* The retry is refused: the error path cancels the job's task, waits for  *)
(* it and releases the lease.                                              *)
RetryRefused(p, j) ==
  /\ up[p] = "open"
  /\ Free(j)
  /\ status[j] # "absent"
  /\ task[p][j] # "scheduled"
  /\ RefusedStore(p, j)
  /\ \/ /\ task[p][j] # "none"
        /\ cancelling' = [cancelling EXCEPT ![p] = @ \cup {j}]
        /\ op'   = [op EXCEPT ![j] = p]
        /\ kind' = [kind EXCEPT ![j] = "refused"]
        /\ UNCHANGED lease
     \/ /\ task[p][j] = "none"
        /\ Release(p, j)
        /\ UNCHANGED <<cancelling, op, kind>>
  /\ UNCHANGED <<up, task, threads, owner, launches>>

RetryRefusedEnd(p, j) ==
  /\ Awaited(p, j, "refused")
  /\ Release(p, j)
  /\ UNCHANGED <<up, task, cancelling, threads, store, owner, launches>>

-----------------------------------------------------------------------------
(* _run_managed_job.                                                       *)

Verdict(j, s) == [job |-> j, launch |-> launches[j], status |-> s]

Runs(p, j) == task[p][j] = "scheduled" /\ j \notin cancelling[p]

Begin(p, j) ==
  /\ Runs(p, j)
  /\ task' = [task EXCEPT ![p][j] = "running"]
  /\ UNCHANGED <<up, cancelling, threads, lease, op, kind, store, owner, launches>>

(* A task cancelled before its first step never enters its try block.      *)
NeverBegins(p, j) ==
  /\ task[p][j] = "scheduled"
  /\ j \in cancelling[p]
  /\ task'       = [task EXCEPT ![p][j] = "none"]
  /\ cancelling' = [cancelling EXCEPT ![p] = @ \ {j}]
  /\ UNCHANGED <<up, threads, lease, op, kind, store, owner, launches>>

(* The task hands its verdict to a thread and awaits it.                   *)
Submit(p, j, s) ==
  /\ task'    = [task EXCEPT ![p][j] = "finishing"]
  /\ threads' = [threads EXCEPT ![p] = @ \cup {Verdict(j, s)}]

Succeed(p, j) ==
  /\ task[p][j] = "running"
  /\ j \notin cancelling[p]
  /\ Submit(p, j, "succeeded")
  /\ UNCHANGED <<up, cancelling, lease, op, kind, store, owner, launches>>

Fail(p, j) ==
  /\ task[p][j] = "running"
  /\ j \notin cancelling[p]
  /\ task' = [task EXCEPT ![p][j] = "failing"]
  /\ UNCHANGED <<up, cancelling, threads, lease, op, kind, store, owner, launches>>

HandlerCancelled(p, j) ==
  /\ task[p][j] = "running"
  /\ j \in cancelling[p]
  /\ task'       = [task EXCEPT ![p][j] = "cancelled"]
  /\ cancelling' = [cancelling EXCEPT ![p] = @ \ {j}]
  /\ UNCHANGED <<up, threads, lease, op, kind, store, owner, launches>>

(* The last log line is written.                                           *)
Logged(p, j) ==
  /\ j \notin cancelling[p]
  /\ \/ task[p][j] = "failing"   /\ Submit(p, j, "failed")
     \/ task[p][j] = "cancelled" /\ Submit(p, j, "stopped")
  /\ UNCHANGED <<up, cancelling, lease, op, kind, store, owner, launches>>

(* Fault: the finally block forgets the lease.                             *)
ExitKeepsLease(p, j) ==
  /\ task' = [task EXCEPT ![p][j] = "none"]
  /\ UNCHANGED lease

(* The finally block.                                                      *)
Exit(p, j) ==
  /\ task' = [task EXCEPT ![p][j] = "none"]
  /\ Release(p, j)

(* A (second) cancellation ends the wait for the log or for the thread;    *)
(* the thread itself runs on.                                              *)
Interrupted(p, j) ==
  /\ task[p][j] \in {"failing", "cancelled", "finishing"}
  /\ j \in cancelling[p]
  /\ Exit(p, j)
  /\ cancelling' = [cancelling EXCEPT ![p] = @ \ {j}]
  /\ UNCHANGED <<up, threads, op, kind, store, owner, launches>>

(* Fault: the task waits until the row shows its verdict.                  *)
FinishWhenShown(p, j) ==
  /\ task[p][j] = "finishing"
  /\ j \notin cancelling[p]
  /\ status[j] \in Terminal
  /\ Exit(p, j)
  /\ UNCHANGED <<up, cancelling, threads, op, kind, store, owner, launches>>

Finish(p, j) ==
  /\ task[p][j] = "finishing"
  /\ j \notin cancelling[p]
  /\ \A u \in threads[p] : u.job = j => u.launch # launches[j]
  /\ Exit(p, j)
  /\ UNCHANGED <<up, cancelling, threads, op, kind, store, owner, launches>>

(* _finish_managed_job in its thread: the verdict reaches an active row,   *)
(* whichever launch made it active.                                        *)
Write(p, u) ==
  /\ threads' = [threads EXCEPT ![p] = @ \ {u}]
  /\ IF Replayed[u.job] \in Active
       THEN Transact([Replayed EXCEPT ![u.job] = u.status],
                     [Tokens EXCEPT ![u.job] = None],
                     [Landings EXCEPT ![u.job][u.launch] = @ + 1])
       ELSE Transact(Replayed, Tokens, Landings)
  /\ UNCHANGED <<up, task, cancelling, lease, op, kind, owner, launches>>

(* The store was busy twice: the verdict goes to the journal.              *)
Defer(p, u) ==
  /\ threads' = [threads EXCEPT ![p] = @ \ {u}]
  /\ journal' = Append(journal, u)
  /\ UNCHANGED <<up, task, cancelling, lease, op, kind, status, token, applied,
                 landed, owner, launches>>

-----------------------------------------------------------------------------
(* The process.                                                            *)

HasTask(p) == {j \in Jobs : task[p][j] # "none"}

(* ManagedJobsRuntime.aclose, up to its wait for the tasks.                *)
Close(p) ==
  /\ up[p] = "open"
  /\ up'         = [up EXCEPT ![p] = "closing"]
  /\ cancelling' = [cancelling EXCEPT ![p] = HasTask(p)]
  /\ UNCHANGED <<task, threads, lease, op, kind, store, owner, launches>>

ReleaseAll(p) ==
  lease' = [j \in Jobs |-> IF lease[j] = p THEN None ELSE lease[j]]

Closed(p) ==
  /\ up[p] = "closing"
  /\ HasTask(p) = {}
  /\ up' = [up EXCEPT ![p] = "closed"]
  /\ ReleaseAll(p)
  /\ UNCHANGED <<task, cancelling, threads, op, kind, store, owner, launches>>

(* The process is gone, and with it what only its memory held.             *)
Gone(p) ==
  /\ up'         = [up EXCEPT ![p] = "down"]
  /\ task'       = [task EXCEPT ![p] = [j \in Jobs |-> "none"]]
  /\ cancelling' = [cancelling EXCEPT ![p] = {}]
  /\ threads'    = [threads EXCEPT ![p] = {}]
  /\ ReleaseAll(p)
  /\ op'   = [j \in Jobs |-> IF op[j] = p THEN None ELSE op[j]]
  /\ kind' = [j \in Jobs |-> IF op[j] = p THEN "none" ELSE kind[j]]

(* After its close the process waits for its threads.                      *)
Leave(p) ==
  /\ up[p] = "closed"
  /\ threads[p] = {}
  /\ Gone(p)
  /\ UNCHANGED <<store, owner, launches>>

Crash(p) ==
  /\ up[p] # "down"
  /\ Gone(p)
  /\ UNCHANGED <<store, owner, launches>>

(* The crash falls between the retry's mark and its last transaction.      *)
CrashInRetry(p, j) ==
  /\ Relaunch(p, j)
  /\ Transact([Replayed EXCEPT ![j] = "retrying"], [Tokens EXCEPT ![j] = p],
              Landings)
  /\ Gone(p)

Boot(p) ==
  /\ up[p] = "down"
  /\ up' = [up EXCEPT ![p] = "open"]
  /\ UNCHANGED <<task, cancelling, threads, lease, op, kind, store, owner, launches>>

SessionStep(p, j) ==
  \/ Start(p, j)
  \/ Refresh(p, j)
  \/ Stop(p, j)
  \/ Retry(p, j)
  \/ RetryUndo(p, j)
  \/ RetryRefused(p, j)

(* An operation in flight ends.                                            *)
OpEnds(p, j) ==
  \/ StopCommit(p, j)
  \/ StopBusy(p, j)
  \/ RetryUndone(p, j)
  \/ RetryRefusedEnd(p, j)

HandlerEnds(p, j) == Succeed(p, j) \/ Fail(p, j)

(* The loop and the threads go on without the handler.                     *)
LoopStep(p, j) ==
  \/ Begin(p, j)
  \/ NeverBegins(p, j)
  \/ HandlerCancelled(p, j)
  \/ Logged(p, j)
  \/ Interrupted(p, j)
  \/ Finish(p, j)

ThreadStep(p) == \E u \in threads[p] : Write(p, u) \/ Defer(p, u)

ProcessStep(p) ==
  \/ Close(p)
  \/ Closed(p)
  \/ Leave(p)
  \/ Crash(p)
  \/ Boot(p)
  \/ \E j \in Jobs : CrashInRetry(p, j)

Next ==
  \E p \in Procs :
    \/ \E j \in Jobs : SessionStep(p, j) \/ OpEnds(p, j) \/ HandlerEnds(p, j)
                         \/ LoopStep(p, j)
    \/ ThreadStep(p)
    \/ ProcessStep(p)

Spec == Init /\ [][Next]_vars

(* The loop runs what is ready, threads end, and a cancelled handler lets  *)
(* its cancellation through; nobody has to call, and no process to restart.*)
FairSpec ==
  /\ Spec
  /\ \A p \in Procs :
       /\ \A j \in Jobs : WF_vars(OpEnds(p, j)) /\ WF_vars(LoopStep(p, j))
       /\ WF_vars(ThreadStep(p))
       /\ WF_vars(Closed(p))

-----------------------------------------------------------------------------
(* Every variable has its type.                                            *)
TypeOK ==
  /\ up \in [Procs -> {"open", "closing", "closed", "down"}]
  /\ task \in [Procs -> [Jobs -> TaskStates]]
  /\ cancelling \in [Procs -> SUBSET Jobs]
  /\ threads \in [Procs -> SUBSET Updates]
  /\ lease \in [Jobs -> Procs \cup {None}]
  /\ op \in [Jobs -> Procs \cup {None}]
  /\ kind \in [Jobs -> OpKinds]
  /\ status \in [Jobs -> Statuses]
  /\ owner \in [Jobs -> Procs \cup {None}]
  /\ token \in [Jobs -> Procs \cup {None}]
  /\ journal \in Seq(Updates)
  /\ applied \subseteq Updates
  /\ launches \in [Jobs -> 0 .. MaxLaunches]
  /\ landed \in [Jobs -> [1 .. MaxLaunches -> Nat]]

(* A process whose task of a job is not done holds the job's lease: no     *)
(* error path, second cancellation or close releases it under a running    *)
(* handler, and so no two processes ever run the same job.                 *)
RunnerHoldsLease ==
  \A p \in Procs, j \in Jobs : task[p][j] # "none" => lease[j] = p

(* A row says "lost" only when no process runs the job any more.           *)
LostIsDead ==
  \A j \in Jobs : status[j] = "lost" => \A p \in Procs : task[p][j] = "none"

(* Both: the lease tells who runs a job, and a row believes no less.       *)
LeasesSound == RunnerHoldsLease /\ LostIsDead

(* What makes these inductive: a job without a row has no lease, an        *)
(* operation token stands in active rows only, and a task was launched.    *)
AbsentIsFree   == \A j \in Jobs : status[j] = "absent" => lease[j] = None
TokenIsActive  == \A j \in Jobs : token[j] # None => status[j] \in Active
TaskIsLaunched == \A p \in Procs, j \in Jobs : task[p][j] # "none" => launches[j] # 0

JobsInv ==
  /\ TypeOK
  /\ RunnerHoldsLease
  /\ LostIsDead
  /\ AbsentIsFree
  /\ TokenIsActive
  /\ TaskIsLaunched

(* A terminal row changes only by a retry: no late verdict, refresh, stop  *)
(* or replayed journal overwrites it.                                      *)
TerminalSticks ==
  [][\A j \in Jobs : status[j] \in Terminal =>
       status'[j] = status[j] \/ launches'[j] = launches[j] + 1]_vars

(* The verdict of a launch changes the row at most once, though it may be  *)
(* journaled, replayed and its journal file outlive the replay.            *)
VerdictLandsOnce ==
  \A j \in Jobs, n \in 1 .. MaxLaunches : landed[j][n] <= 1

(* A stop or a refused retry ends, and so does a close.                    *)
OperationsEnd ==
  /\ \A j \in Jobs : op[j] # None ~> op[j] = None
  /\ \A p \in Procs : up[p] = "closing" ~> up[p] # "closing"

(* A lease is held for a task or for an operation that will release it: no *)
(* job is left that can neither run nor be retried.                        *)
LeaseHasPurpose ==
  \A p \in Procs, j \in Jobs :
    up[p] = "open" /\ lease[j] = p => task[p][j] # "none" \/ op[j] = p

(* Both: every launch has at most one verdict, and every lease an end.     *)
VerdictsAccounted == LeaseHasPurpose /\ VerdictLandsOnce

(* A task is cancelled by a stop, a close or its own retry's undoing, never*)
(* by a retry that was refused because the job is still active.            *)
CancelledOnPurpose ==
  [][\A p \in Procs, j \in Jobs :
       j \in cancelling'[p] \ cancelling[p] /\ status[j] = "running" =>
         status'[j] \in {"stopping", "retrying"} \/ up'[p] = "closing"]_vars

=============================================================================
