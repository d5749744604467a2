--------------------------- MODULE RemoteDispatch ---------------------------
(***************************************************************************)
(* The controller's RemoteManager as a dispatcher of tool calls: a call is *)
(* put on the queue of one registered worker, a long poll of that worker   *)
(* takes it, the worker runs it and submits the result, and the call ends  *)
(* with that result, a timeout, a cancellation or the manager's close.     *)
(*                                                                         *)
(* Every handler runs on one event loop and never awaits inside its locked *)
(* section, so one handler section is one action.  A wait (the long poll's *)
(* queue.get, the call's wait_for) is a state between two actions, and the *)
(* wake-up is an action of its own: other handlers run in between.         *)
(*                                                                         *)
(* Time is relative: a call carries the time it has left and a tombstone   *)
(* its age, so no clock needs a horizon.                                   *)
(***************************************************************************)
EXTENDS Integers, Sequences, FiniteSets

CONSTANTS
  Names,        \* machine names
  Regs,         \* registrations: one bearer token, one worker object each
  Jobs,         \* job ids, one per call
  None,         \* no name, no job
  MaxPending,   \* remote_max_pending_jobs
  CallTimeouts, \* the timeouts a caller may ask for, in ticks
  TombTTL,      \* how long a cancelled job's tombstone is kept, in ticks
  TombCap       \* how many tombstones are kept

ASSUME NoneAssumption == None \notin Names \cup Regs \cup Jobs
ASSUME PendingAssumption == MaxPending \in Nat \ {0}
ASSUME CallTimeoutsAssumption == CallTimeouts \subseteq Nat \ {0}
ASSUME TombTTLAssumption == TombTTL \in Nat
ASSUME TombCapAssumption == TombCap \in Nat
ASSUME JobsAssumption == IsFiniteSet(Jobs)

VARIABLES
  closed,    \* _closed
  issued,    \* registrations ever made: their tokens are never issued again
  workers,   \* workers: name -> registration
  tokens,    \* tokens: registration's token -> name
  wname,     \* RemoteWorker.name of the registration
  online,    \* the worker was heard of within the offline threshold
  queue,     \* RemoteWorker.queue
  polls,     \* poll handlers waiting on that queue
  pending,   \* keys of pending
  assigned,  \* pending_machines
  future,    \* the future a call waits for
  tomb,      \* cancelled_jobs: age of the tombstone, Absent or Lapsed
  left,      \* time to the job's expires_at
  call,      \* the call coroutine
  wstate,    \* the worker process of the registration
  wjob,      \* the job that process holds
  ran        \* how often a job was executed

registry == <<issued, workers, tokens, wname>>
work     == <<wstate, wjob, ran>>
jobs     == <<pending, assigned, future, tomb>>
vars     == <<closed, registry, online, queue, polls, jobs, left, call, work>>

(* A job without a tombstone: it never had one or has used it, or its      *)
(* tombstone was pruned.  The code tells the two apart no more than the    *)
(* actions do; the properties do.                                          *)
Absent == -1
Lapsed == -2

(* A client keeps at most one poll open.  A poll whose connection broke    *)
(* stays on the server as an orphan until its wait ends; one orphan at a   *)
(* time is a bound of the model.                                           *)
PollKinds    == {"live", "orphan"}
FutureStates == {"none", "open", "result", "declined", "cancelled"}
CallStates   == {"idle", "waiting", "returned", "declined", "failed"}
WorkerStates == {"idle", "polling", "received", "running", "submitting",
                 "declining", "stopped"}

Init ==
  /\ closed   = FALSE
  /\ issued   = {}
  /\ workers  = [n \in Names |-> None]
  /\ tokens   = [r \in Regs |-> None]
  /\ wname    = [r \in Regs |-> None]
  /\ online   = [r \in Regs |-> FALSE]
  /\ queue    = [r \in Regs |-> <<>>]
  /\ polls    = [r \in Regs |-> {}]
  /\ pending  = {}
  /\ assigned = [j \in Jobs |-> None]
  /\ future   = [j \in Jobs |-> "none"]
  /\ tomb     = [j \in Jobs |-> Absent]
  /\ left     = [j \in Jobs |-> 0]
  /\ call     = [j \in Jobs |-> "idle"]
  /\ wstate   = [r \in Regs |-> "stopped"]
  /\ wjob     = [r \in Regs |-> None]
  /\ ran      = [j \in Jobs |-> 0]

-----------------------------------------------------------------------------
(* Tombstones and the registry, as the handlers see them.                  *)

Buried(t) == {j \in Jobs : t[j] >= 0}

(* _prune_cancelled_jobs_unlocked: what is too old goes, and of the rest   *)
(* the newest TombCap stay.  Pruned(t) are the maps t can be pruned to:    *)
(* more than one only when tombstones of one age straddle the cap.         *)
Alive(t) == {j \in Buried(t) : t[j] <= TombTTL}

Kept(t) ==
  IF Cardinality(Alive(t)) <= TombCap
    THEN {Alive(t)}
    ELSE {K \in SUBSET Alive(t) :
            /\ Cardinality(K) = TombCap
            /\ \A kept \in K, gone \in Alive(t) \ K : t[kept] <= t[gone]}

Pruned(t) ==
  {[j \in Jobs |-> IF j \in Buried(t) \ K THEN Lapsed ELSE t[j]] : K \in Kept(t)}

(* The two halves of _cancel_job_unlocked, for every job of S.             *)
CancelFutures(S) ==
  future' = [j \in Jobs |-> IF j \in S \cap pending /\ future[j] = "open"
                               THEN "cancelled" ELSE future[j]]

(* Fault: the machine's reservation survives its call.                     *)
ForgetPendingOnly(S) ==
  /\ pending' = pending \ S
  /\ tomb' \in Pruned([j \in Jobs |-> IF j \in S THEN 0 ELSE tomb[j]])
  /\ UNCHANGED assigned

(* Fault: the job is forgotten without a tombstone.                        *)
ForgetUnmarked(S) ==
  /\ pending'  = pending \ S
  /\ assigned' = [j \in Jobs |-> IF j \in S THEN None ELSE assigned[j]]
  /\ tomb' \in Pruned(tomb)

Forget(S) ==
  /\ pending'  = pending \ S
  /\ assigned' = [j \in Jobs |-> IF j \in S THEN None ELSE assigned[j]]
  /\ tomb' \in Pruned([j \in Jobs |-> IF j \in S THEN 0 ELSE tomb[j]])

CancelJobs(S) == Forget(S) /\ CancelFutures(S)

(* Fault: a call can end twice.                                            *)
EndCallAgain(j, outcome) ==
  /\ call'   = [call EXCEPT ![j] = outcome]
  /\ future' = [future EXCEPT ![j] = "none"]

(* The coroutine of j ends, and with it the future only it refers to.      *)
EndCall(j, outcome) ==
  /\ call[j] = "waiting"
  /\ call'   = [call EXCEPT ![j] = outcome]
  /\ future' = [future EXCEPT ![j] = "none"]

(* _worker_by_token_unlocked finds a worker for the token of r.            *)
TokenValid(r) == tokens[r] # None /\ workers[tokens[r]] # None

PendingOf(n) == {j \in Jobs : assigned[j] = n}

-----------------------------------------------------------------------------
(* Enrollment and administration.                                          *)

(* register_worker: an accepted invite binds a new token to a free name.   *)
Register(r, n) ==
  /\ ~closed
  /\ r \notin issued
  /\ workers[n] = None
  /\ issued'  = issued \cup {r}
  /\ workers' = [workers EXCEPT ![n] = r]
  /\ tokens'  = [tokens EXCEPT ![r] = n]
  /\ wname'   = [wname EXCEPT ![r] = n]
  /\ online'  = [online EXCEPT ![r] = TRUE]
  /\ wstate'  = [wstate EXCEPT ![r] = "idle"]
  /\ UNCHANGED <<closed, queue, polls, jobs, left, call, wjob, ran>>

(* Fault: the token stays valid.                                           *)
RevokeKeepsToken(n) ==
  /\ ~closed
  /\ workers[n] # None
  /\ workers' = [workers EXCEPT ![n] = None]
  /\ CancelJobs(PendingOf(n))
  /\ UNCHANGED <<closed, issued, tokens, wname, online, queue, polls, left, call,
                 work>>

(* Fault: the outstanding jobs are not cancelled.                          *)
RevokeWithoutCancel(n) ==
  /\ ~closed
  /\ workers[n] # None
  /\ workers' = [workers EXCEPT ![n] = None]
  /\ tokens'  = [tokens EXCEPT ![workers[n]] = None]
  /\ UNCHANGED <<closed, issued, wname, online, queue, polls, jobs, left, call,
                 work>>

(* revoke: forget the worker and its token, cancel its outstanding jobs.   *)
Revoke(n) ==
  /\ ~closed
  /\ workers[n] # None
  /\ workers' = [workers EXCEPT ![n] = None]
  /\ tokens'  = [tokens EXCEPT ![workers[n]] = None]
  /\ CancelJobs(PendingOf(n))
  /\ UNCHANGED <<closed, issued, wname, online, queue, polls, left, call, work>>

(* The part of rename that moves the registration.                         *)
MoveWorker(n, m) ==
  /\ wname'   = [wname EXCEPT ![workers[n]] = m]
  /\ workers' = [workers EXCEPT ![n] = None, ![m] = workers[n]]
  /\ tokens'  = [tokens EXCEPT ![workers[n]] = m]
  /\ UNCHANGED <<closed, issued, online, queue, polls, pending, future, tomb,
                 left, call, work>>

(* Fault: pending jobs keep the old name.                                  *)
RenameKeepsAssigned(n, m) ==
  /\ ~closed
  /\ workers[m] = None
  /\ workers[n] # None
  /\ MoveWorker(n, m)
  /\ UNCHANGED assigned

(* Fault: the new name may be taken.                                       *)
RenameOntoTaken(n, m) ==
  /\ ~closed
  /\ workers[n] # None
  /\ MoveWorker(n, m)
  /\ assigned' = [j \in Jobs |-> IF assigned[j] = n THEN m ELSE assigned[j]]

(* rename: the worker, its token and its pending jobs follow the new name. *)
Rename(n, m) ==
  /\ ~closed
  /\ workers[m] = None
  /\ workers[n] # None
  /\ MoveWorker(n, m)
  /\ assigned' = [j \in Jobs |-> IF assigned[j] = n THEN m ELSE assigned[j]]

-----------------------------------------------------------------------------
(* The call coroutine.                                                     *)

(* call, up to its wait: refused when the machine is unknown, offline or   *)
(* has MaxPending jobs outstanding.                                        *)
Call(j, n, t) ==
  /\ ~closed
  /\ call[j] = "idle"
  /\ workers[n] # None
  /\ online[workers[n]]
  /\ Cardinality(PendingOf(n)) < MaxPending
  /\ pending'  = pending \cup {j}
  /\ assigned' = [assigned EXCEPT ![j] = n]
  /\ future'   = [future EXCEPT ![j] = "open"]
  /\ queue'    = [queue EXCEPT ![workers[n]] = Append(@, j)]
  /\ left'     = [left EXCEPT ![j] = t]
  /\ call'     = [call EXCEPT ![j] = "waiting"]
  /\ UNCHANGED <<closed, registry, online, polls, tomb, work>>

(* The future has a result and the coroutine wakes up.                     *)
CallReturn(j) ==
  /\ \/ future[j] = "result"   /\ EndCall(j, "returned")
     \/ future[j] = "declined" /\ EndCall(j, "declined")
  /\ pending'  = pending \ {j}
  /\ assigned' = [assigned EXCEPT ![j] = None]
  /\ UNCHANGED <<closed, registry, online, queue, polls, tomb, left, work>>

(* Fault: the timer is tied to the reservation.                            *)
CallTimeoutPendingOnly(j) ==
  /\ left[j] = 0
  /\ j \in pending
  /\ EndCall(j, "failed")
  /\ Forget({j})
  /\ UNCHANGED <<closed, registry, online, queue, polls, left, work>>

(* wait_for's timer fires.  It wins even over a result that has been set   *)
(* but not yet been seen by the coroutine.                                 *)
CallTimeout(j) ==
  /\ left[j] = 0
  /\ EndCall(j, "failed")
  /\ Forget({j})
  /\ UNCHANGED <<closed, registry, online, queue, polls, left, work>>

(* The caller's task is cancelled, or the future was: by revoke, by a poll *)
(* that met the expired job, or by aclose.                                 *)
CallCancelled(j) ==
  /\ ~closed
  /\ EndCall(j, "failed")
  /\ Forget({j})
  /\ UNCHANGED <<closed, registry, online, queue, polls, left, work>>

CallClosed(j) ==
  /\ closed
  /\ EndCall(j, "failed")
  /\ UNCHANGED <<closed, registry, online, queue, polls, pending, assigned, tomb,
                 left, work>>

-----------------------------------------------------------------------------
(* The long poll.                                                          *)

(* poll, up to its wait on the worker's queue.                             *)
PollStart(r) ==
  /\ ~closed
  /\ wstate[r] = "idle"
  /\ TokenValid(r)
  /\ online' = [online EXCEPT ![r] = TRUE]
  /\ polls'  = [polls EXCEPT ![r] = @ \cup {"live"}]
  /\ wstate' = [wstate EXCEPT ![r] = "polling"]
  /\ UNCHANGED <<closed, registry, queue, jobs, left, call, wjob, ran>>

(* The connection breaks: the client polls again, the handler stays.       *)
PollDrop(r) ==
  /\ wstate[r] = "polling"
  /\ "orphan" \notin polls[r]
  /\ polls'  = [polls EXCEPT ![r] = {"orphan"}]
  /\ wstate' = [wstate EXCEPT ![r] = "idle"]
  /\ UNCHANGED <<closed, registry, online, queue, jobs, left, call, wjob, ran>>

(* The wait times out: an empty answer.                                    *)
PollTimeout(r, p) ==
  /\ p \in polls[r]
  /\ polls'  = [polls EXCEPT ![r] = @ \ {p}]
  /\ wstate' = [wstate EXCEPT ![r] = IF p = "live" THEN "idle" ELSE @]
  /\ UNCHANGED <<closed, registry, online, queue, jobs, left, call, wjob, ran>>

(* Fault: the job is read but not taken.                                   *)
WakesPeeking(r, p) ==
  /\ p \in polls[r]
  /\ queue[r] # <<>>
  /\ UNCHANGED queue

(* A waiting poll wakes up with the head of the queue.                     *)
Wakes(r, p) ==
  /\ p \in polls[r]
  /\ queue[r] # <<>>
  /\ queue' = [queue EXCEPT ![r] = Tail(@)]

(* The job has a tombstone: drop both and wait on.                         *)
PollSkip(r, p) ==
  /\ Wakes(r, p)
  /\ Head(queue[r]) \in Alive(tomb)
  /\ tomb' \in {[t EXCEPT ![Head(queue[r])] = Absent] : t \in Pruned(tomb)}
  /\ UNCHANGED <<closed, registry, online, polls, pending, assigned, future,
                 left, call, work>>

(* The job has expired: cancel it and wait on.                             *)
PollExpire(r, p) ==
  /\ Wakes(r, p)
  /\ Head(queue[r]) \notin Alive(tomb)
  /\ left[Head(queue[r])] = 0
  /\ CancelJobs({Head(queue[r])})
  /\ UNCHANGED <<closed, registry, online, polls, left, call, work>>

(* The job is answered.  The answer reaches the worker if the poll is the  *)
(* one its client waits for and the network does not lose it.              *)
PollDeliver(r, p) ==
  /\ Wakes(r, p)
  /\ Head(queue[r]) \notin Alive(tomb)
  /\ left[Head(queue[r])] > 0
  /\ tomb' \in Pruned(tomb)
  /\ polls' = [polls EXCEPT ![r] = @ \ {p}]
  /\ \/ /\ p = "live"
        /\ wstate' = [wstate EXCEPT ![r] = "received"]
        /\ wjob'   = [wjob EXCEPT ![r] = Head(queue[r])]
     \/ /\ wstate' = [wstate EXCEPT ![r] = IF p = "live" THEN "idle" ELSE @]
        /\ wjob'   = wjob
  /\ UNCHANGED <<closed, registry, online, pending, assigned, future, left,
                 call, ran>>

-----------------------------------------------------------------------------
(* The worker process.                                                     *)

(* It executes a job that has not expired on the way, and answers one that *)
(* has with an error.                                                      *)
Execute(r) ==
  /\ wstate[r] = "received"
  /\ left[wjob[r]] > 0
  /\ wstate' = [wstate EXCEPT ![r] = "running"]
  /\ ran'    = [ran EXCEPT ![wjob[r]] = @ + 1]
  /\ UNCHANGED <<closed, registry, online, queue, polls, jobs, left, call, wjob>>

Decline(r) ==
  /\ wstate[r] = "received"
  /\ left[wjob[r]] = 0
  /\ wstate' = [wstate EXCEPT ![r] = "declining"]
  /\ UNCHANGED <<closed, registry, online, queue, polls, jobs, left, call, wjob,
                 ran>>

Finish(r) ==
  /\ wstate[r] = "running"
  /\ wstate' = [wstate EXCEPT ![r] = "submitting"]
  /\ UNCHANGED <<closed, registry, online, queue, polls, jobs, left, call, wjob,
                 ran>>

Heartbeat(r) ==
  /\ ~closed
  /\ wstate[r] \in {"running", "submitting", "declining"}
  /\ TokenValid(r)
  /\ tomb' \in Pruned(tomb)
  /\ online' = [online EXCEPT ![r] = TRUE]
  /\ UNCHANGED <<closed, registry, queue, polls, pending, assigned, future, left,
                 call, work>>

Submitting(r) == wstate[r] \in {"submitting", "declining"}

(* submit_result raises: the manager is closed or the token is unknown, or *)
(* the job is another worker's.  The endpoint answers 401 to all of them.  *)
Unknown(r) == closed \/ ~TokenValid(r)
Foreign(r) == assigned[wjob[r]] \notin {None, wname[r]}

(* What submit_result does with an accepted request.                       *)
TakeResult(r) ==
  LET j == wjob[r]
      answer == IF wstate[r] = "submitting" THEN "result" ELSE "declined"
  IN  \/ /\ j \in Alive(tomb)
         /\ tomb' \in {[t EXCEPT ![j] = Absent] : t \in Pruned(tomb)}
         /\ UNCHANGED <<pending, assigned, future>>
      \/ /\ j \notin Alive(tomb)
         /\ tomb' \in Pruned(tomb)
         /\ pending'  = pending \ {j}
         /\ assigned' = [assigned EXCEPT ![j] = None]
         /\ future'   = [future EXCEPT ![j] =
                           IF j \in pending /\ @ = "open" THEN answer ELSE @]

(* The worker submits until an answer reaches it: a lost answer leaves it  *)
(* submitting the same result again.                                       *)
Submit(r) ==
  /\ Submitting(r)
  /\ ~Unknown(r)
  /\ ~Foreign(r)
  /\ TakeResult(r)
  /\ online' = [online EXCEPT ![r] = TRUE]
  /\ \/ /\ wstate' = [wstate EXCEPT ![r] = "idle"]
        /\ wjob'   = [wjob EXCEPT ![r] = None]
     \/ UNCHANGED <<wstate, wjob>>
  /\ UNCHANGED <<closed, registry, queue, polls, left, call, ran>>

(* A 401 ends the worker process; so does a crash of its machine.          *)
Halt(r) ==
  /\ wstate' = [wstate EXCEPT ![r] = "stopped"]
  /\ wjob'   = [wjob EXCEPT ![r] = None]
  /\ UNCHANGED <<closed, registry, queue, pending, assigned, future, left, call,
                 ran>>

SubmitRefused(r) ==
  /\ Submitting(r)
  /\ Unknown(r) \/ Foreign(r)
  /\ Halt(r)
  /\ tomb'   \in IF Unknown(r) THEN {tomb} ELSE Pruned(tomb)
  /\ online' = [online EXCEPT ![r] = @ \/ ~Unknown(r)]
  /\ UNCHANGED polls

PollRefused(r) ==
  /\ ~closed
  /\ wstate[r] = "idle"
  /\ ~TokenValid(r)
  /\ Halt(r)
  /\ UNCHANGED <<online, polls, tomb>>

WorkerCrash(r) ==
  /\ wstate[r] # "stopped"
  /\ "orphan" \notin polls[r]
  /\ Halt(r)
  /\ polls' = [polls EXCEPT ![r] = {"orphan" : p \in @}]
  /\ UNCHANGED <<online, tomb>>

(* The worker is started again with its saved identity: resume_worker.     *)
Resume(r) ==
  /\ ~closed
  /\ wstate[r] = "stopped"
  /\ TokenValid(r)
  /\ online' = [online EXCEPT ![r] = TRUE]
  /\ wstate' = [wstate EXCEPT ![r] = "idle"]
  /\ UNCHANGED <<closed, registry, queue, polls, jobs, left, call, wjob, ran>>

-----------------------------------------------------------------------------
(* Time, and the manager's own life.                                       *)

Tick ==
  /\ left' = [j \in Jobs |-> IF left[j] > 0 THEN left[j] - 1 ELSE 0]
  /\ tomb' = [j \in Jobs |-> IF j \in Alive(tomb) THEN tomb[j] + 1
                                                   ELSE tomb[j]]
  /\ UNCHANGED <<closed, registry, online, queue, polls, pending, assigned,
                 future, call, work>>

(* The worker has not been heard of for the offline threshold.             *)
GoesQuiet(r) ==
  /\ online[r]
  /\ online' = [online EXCEPT ![r] = FALSE]
  /\ UNCHANGED <<closed, registry, queue, polls, jobs, left, call, work>>

(* The polling clients whose handler goes away poll again.                 *)
DropPolls ==
  /\ polls'  = [r \in Regs |-> {}]
  /\ wstate' = [r \in Regs |-> IF wstate[r] = "polling" THEN "idle"
                                                         ELSE wstate[r]]

(* aclose: stop admission, drop everything, cancel futures and waiters.    *)
Close ==
  /\ ~closed
  /\ closed'   = TRUE
  /\ pending'  = {}
  /\ assigned' = [j \in Jobs |-> None]
  /\ tomb'     = [j \in Jobs |-> Absent]
  /\ queue'    = [r \in Regs |-> IF tokens[r] # None THEN <<>> ELSE queue[r]]
  /\ CancelFutures(pending)
  /\ DropPolls
  /\ UNCHANGED <<registry, online, left, call, wjob, ran>>

(* The controller process ends, in order or not, and starts again from the *)
(* registry on disk, which holds every registration of the last handler.   *)
Restart ==
  /\ closed'   = FALSE
  /\ online'   = [r \in Regs |-> FALSE]
  /\ queue'    = [r \in Regs |-> <<>>]
  /\ pending'  = {}
  /\ assigned' = [j \in Jobs |-> None]
  /\ future'   = [j \in Jobs |-> "none"]
  /\ tomb'     = [j \in Jobs |-> Absent]
  /\ call'     = [j \in Jobs |-> IF call[j] = "waiting" THEN "failed"
                                                         ELSE call[j]]
  /\ DropPolls
  /\ UNCHANGED <<registry, left, wjob, ran>>

CallStep(j) ==
  \/ \E n \in Names, t \in CallTimeouts : Call(j, n, t)
  \/ CallReturn(j)
  \/ CallTimeout(j)
  \/ CallCancelled(j)
  \/ CallClosed(j)

PollStep(r) ==
  \/ PollStart(r)
  \/ PollDrop(r)
  \/ PollRefused(r)
  \/ \E p \in PollKinds : PollTimeout(r, p) \/ PollSkip(r, p)
                            \/ PollExpire(r, p) \/ PollDeliver(r, p)

WorkerStep(r) ==
  \/ Execute(r)
  \/ Decline(r)
  \/ Finish(r)
  \/ Heartbeat(r)
  \/ Submit(r)
  \/ SubmitRefused(r)
  \/ WorkerCrash(r)
  \/ Resume(r)

AdminStep ==
  \/ \E r \in Regs, n \in Names : Register(r, n)
  \/ \E n \in Names : Revoke(n)
  \/ \E n, m \in Names : Rename(n, m)

Next ==
  \/ AdminStep
  \/ \E j \in Jobs : CallStep(j)
  \/ \E r \in Regs : PollStep(r) \/ WorkerStep(r) \/ GoesQuiet(r)
  \/ Tick
  \/ Close
  \/ Restart

Spec == Init /\ [][Next]_vars

(* Time passes, and the loop runs what is due: a call whose timer fired    *)
(* and a call whose manager closed wake up.                                *)
FairSpec ==
  /\ Spec
  /\ WF_vars(Tick)
  /\ \A j \in Jobs : WF_vars(CallTimeout(j) \/ CallClosed(j))

-----------------------------------------------------------------------------
(* Every variable has its type.                                            *)
TypeOK ==
  /\ closed \in BOOLEAN
  /\ issued \subseteq Regs
  /\ workers \in [Names -> Regs \cup {None}]
  /\ tokens \in [Regs -> Names \cup {None}]
  /\ wname \in [Regs -> Names \cup {None}]
  /\ online \in [Regs -> BOOLEAN]
  /\ queue \in [Regs -> Seq(Jobs)]
  /\ polls \in [Regs -> SUBSET PollKinds]
  /\ pending \subseteq Jobs
  /\ assigned \in [Jobs -> Names \cup {None}]
  /\ future \in [Jobs -> FutureStates]
  /\ tomb \in [Jobs -> Lapsed .. TombTTL + 1]
  /\ left \in [Jobs -> Nat]
  /\ call \in [Jobs -> CallStates]
  /\ wstate \in [Regs -> WorkerStates]
  /\ wjob \in [Regs -> Jobs \cup {None}]
  /\ ran \in [Jobs -> Nat]

(* The two maps of the registry and the worker objects' own names agree,   *)
(* through every interleaving of register, rename and revoke: a token      *)
(* leads to the worker object that holds it, and no object is reachable    *)
(* under two names.                                                        *)
RegistryConsistent ==
  /\ \A r \in Regs : tokens[r] # None =>
       /\ workers[tokens[r]] = r
       /\ wname[r] = tokens[r]
  /\ \A n \in Names : workers[n] # None => tokens[workers[n]] = n

(* An outstanding call is in both maps or in neither, its caller still     *)
(* waits on an open future, and the machine it counts against is           *)
(* registered: no end of a call, revocation or rename leaks a reservation. *)
Reservations ==
  \A j \in Jobs :
    /\ j \in pending <=> assigned[j] # None
    /\ j \in pending => /\ future[j] = "open"
                        /\ call[j] = "waiting"
                        /\ workers[assigned[j]] # None

(* A machine never has more outstanding jobs than remote_max_pending_jobs, *)
(* whatever renames happen.                                                *)
CapacityRespected ==
  \A n \in Names : Cardinality(PendingOf(n)) <= MaxPending

(* Both: a rename or a registration that takes a name over leaves the maps *)
(* in agreement and no machine with more calls than it may have.           *)
RegistrySound == RegistryConsistent /\ CapacityRespected

(* What makes the registry and the reservations inductive: a token in use  *)
(* was issued, and a closed manager holds no call.                         *)
TokensIssued  == \A r \in Regs : tokens[r] # None => r \in issued
ClosedIsEmpty == closed => pending = {}

DispatchInv ==
  /\ TypeOK
  /\ TokensIssued
  /\ RegistryConsistent
  /\ ClosedIsEmpty
  /\ Reservations
  /\ CapacityRespected

(* The job a worker holds is, as long as a call waits for it, assigned to  *)
(* that worker: no rename or re-registration of a name makes submit_result *)
(* refuse a result as "another worker's".                                  *)
AnswersItsOwn ==
  \A r \in Regs : wjob[r] # None => assigned[wjob[r]] \in {None, tokens[r]}

(* The tombstone of j was given up: pruned for its age or for the number   *)
(* of newer ones, or too old and pruned by the handler that asks for it.   *)
TombGone(j) == tomb[j] = Lapsed \/ tomb[j] > TombTTL

(* poll answers with a job only while the call that queued it still waits: *)
(* the job of a call that was cancelled or timed out, revoked or closed is *)
(* skipped, unless its tombstone was pruned before a poll met it.          *)
Delivers(j) ==
  \E r \in Regs : /\ wstate[r] # "received"
                  /\ wstate'[r] = "received"
                  /\ wjob'[r] = j
NoDeadDelivery ==
  [][\A j \in Jobs : Delivers(j) => call[j] = "waiting" \/ TombGone(j)]_vars

(* A revoked worker receives no more jobs, not even through a poll that    *)
(* was already waiting when it was revoked, but a job whose tombstone was  *)
(* pruned.                                                                 *)
Receives(r) == wstate[r] # "received" /\ wstate'[r] = "received"
RevokedGetsNothing ==
  [][\A r \in Regs : Receives(r) => TokenValid(r) \/ TombGone(wjob'[r])]_vars

(* To its callers the dispatcher is RemoteCall.                            *)
Promise == INSTANCE RemoteCall WITH call <- call, ran <- ran
ImplementsCall == Promise!Spec

(* Every call ends.                                                        *)
CallsEnd == \A j \in Jobs : call[j] = "waiting" ~> call[j] # "waiting"

=============================================================================
