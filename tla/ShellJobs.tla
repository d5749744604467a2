------------------------------ MODULE ShellJobs ------------------------------
(***************************************************************************)
(* Shell-backed tracked jobs of one session.  A job is a durable row; each *)
(* attempt of it is a persistent shell (a tmux session) that runs a small  *)
(* runner, which runs the command and at its end writes a status file.     *)
(* The controller may be cancelled, find the store busy or die between any *)
(* two awaits of an operation, and shells end or vanish on their own: rows *)
(* are repaired later from the inventory of shells and the status files.   *)
(*                                                                         *)
(* Every operation holds the session's lifecycle lock, across processes,   *)
(* from its first look at the inventory to its last transaction.  A store  *)
(* transaction is one action.  The inventory may be unavailable (Unknown). *)
(* A shell that died takes its runner with it.  Logs, the reservation of   *)
(* shell ids in the session and the number of retained rows are left out;  *)
(* any row that may be evicted can be evicted at any time.                 *)
(***************************************************************************)
EXTENDS Naturals, FiniteSets

CONSTANTS
  Callers,     \* concurrent requests to the servers that share the store
  Server,      \* the server process of each caller
  Jobs,        \* job ids of the session
  None,        \* no caller, no job
  Unknown,     \* an inventory that could not be read
  MaxAttempts  \* bound of the model: attempts of one job

ASSUME NoneAssumption == None \notin Callers \cup Jobs
ASSUME UnknownAssumption ==
  \A S \in SUBSET (Jobs \X (1 .. MaxAttempts)) : Unknown # S
ASSUME MaxAttemptsAssumption == MaxAttempts \in Nat \ {0}

VARIABLES
  rows,      \* the job store
  shells,    \* the shell of each attempt
  files,     \* the status file of each attempt
  op,        \* what each caller is doing
  over,      \* the session was ended
  launched,  \* the last attempt of each job that got a shell
  stray,     \* shells whose failed start was cleaned up without confirmation
  truth      \* what each runner found out, kept when its file is removed

disk  == <<shells, files, launched, stray, truth>>
vars  == <<rows, disk, op, over>>

Attempts  == 1 .. MaxAttempts
Shells    == Jobs \X Attempts
Active    == {"starting", "running", "stopping", "retrying"}
Confirmed == {"succeeded", "failed", "stopped"}
Statuses  == Active \cup Confirmed \cup {"lost", "none", "evicted"}
Verdicts  == {"succeeded", "failed"}

Live == {s \in Shells : shells[s] # "none"}

NoRow == [status |-> "none", shell |-> 0, path |-> 0, attempts |-> 0,
          pending |-> 0, paths |-> FALSE, token |-> None]
Idle  == [pc |-> "idle", kind |-> "none", job |-> None, seen |-> {},
          todo |-> {}, owns |-> None]

Init ==
  /\ rows     = [j \in Jobs |-> NoRow]
  /\ shells   = [s \in Shells |-> "none"]
  /\ files    = [s \in Shells |-> "none"]
  /\ op       = [c \in Callers |-> Idle]
  /\ over     = FALSE
  /\ launched = [j \in Jobs |-> 0]
  /\ stray    = {}
  /\ truth    = [s \in Shells |-> "none"]

-----------------------------------------------------------------------------
(* Reconciliation of one row.                                              *)

(* The operation that put its token into the row of j is still in flight,  *)
(* as far as c's process can tell.                                         *)
InFlight(c, j) ==
  LET d == rows[j].token
  IN d # None /\ Server[d] = Server[c] /\ op[d].owns = j

Settled(r, s) == [r EXCEPT !.status = s, !.token = None]
NotPending(r) == [r EXCEPT !.pending = 0, !.paths = FALSE]

(* Fault: the interrupted attempt leaves its number free.                  *)
AdoptedAgain(r) ==
  NotPending([r EXCEPT !.shell = r.pending,
                       !.path  = IF r.paths THEN r.pending ELSE @])

(* The pending attempt of a retry becomes the active one.                  *)
Adopted(r) ==
  NotPending([r EXCEPT !.attempts = r.pending,
                       !.shell    = r.pending,
                       !.path     = IF r.paths THEN r.pending ELSE @])

(* What a row turns into when its shell is there, and when it is not.      *)
WhenLive   == [s \in Active \cup {"lost"} |-> "running"]
WhenAbsent == [starting |-> "failed", retrying |-> "failed",
               stopping |-> "stopped", running |-> "lost", lost |-> "lost"]

(* Fault: the inventory is consulted before the status file.               *)
DecidedByShell(r, shell, verdict, seen) ==
  Settled(r, IF seen = Unknown THEN verdict
             ELSE IF shell \in seen THEN WhenLive[r.status]
             ELSE WhenAbsent[r.status])

(* The verdict of the status file, if there is one, else the inventory.    *)
Decided(r, shell, verdict, seen) ==
  Settled(r, IF verdict # "none" THEN verdict
             ELSE IF shell \in seen THEN WhenLive[r.status]
             ELSE WhenAbsent[r.status])

(* _refresh_job_status of the row of j with the inventory seen.            *)
Refreshed(c, j, seen) ==
  LET r       == rows[j]
      retry   == r.status = "retrying"
      new     == IF retry THEN Adopted(r) ELSE r
      read    == IF retry /\ ~r.paths THEN 0 ELSE new.path
      verdict == IF read = 0 THEN "none" ELSE files[<<j, read>>]
  IN IF \/ r.status \notin Active \cup {"lost"}
        \/ InFlight(c, j)
        \/ verdict = "none" /\ seen = Unknown
       THEN r
       ELSE Decided(new, <<j, new.shell>>, verdict, seen)

-----------------------------------------------------------------------------
(* Operations: the lifecycle lock and the first look at the inventory.     *)

Inventories == {Live, Unknown}
Become(c, o) == op' = [op EXCEPT ![c] = o]
SetRow(j, r) == rows' = [rows EXCEPT ![j] = r]

(* Fault: operations of one session run side by side.                      *)
LockIgnored == TRUE

LockFree == \A c \in Callers : op[c].pc = "idle"

HasRow(j) == rows[j].status \notin {"none", "evicted"}

(* reconcile_shell_jobs lists the rows of sessions that are gone, too.     *)
Admissible(k, j) ==
  \/ k = "list" /\ j = None
  \/ k = "end" /\ j = None /\ ~over
  \/ k = "start" /\ j \in Jobs /\ rows[j].status = "none" /\ ~over
  \/ k \in {"tail", "stop", "retry"} /\ j \in Jobs /\ HasRow(j) /\ ~over

Admit(c, k, j) ==
  /\ LockFree
  /\ Admissible(k, j)
  /\ \E seen \in Inventories :
       Become(c, [Idle EXCEPT !.pc = "sampled", !.kind = k, !.job = j,
                              !.seen = seen])
  /\ UNCHANGED <<rows, disk, over>>

(* A request is cancelled, meets a busy store, is refused or loses its     *)
(* process: its lock and its token are gone, the rows stay as they are.    *)
Interrupted(c) ==
  /\ op[c].pc # "idle"
  /\ Become(c, Idle)
  /\ UNCHANGED <<rows, disk, over>>

At(c, pc, kinds) == op[c].pc = pc /\ op[c].kind \in kinds

RefreshedRows(c) == [j \in Jobs |-> Refreshed(c, j, op[c].seen)]

List(c) ==
  /\ At(c, "sampled", {"list"})
  /\ rows' = RefreshedRows(c)
  /\ Become(c, Idle)
  /\ UNCHANGED <<disk, over>>

(* A job without a log is shown from its shell, which may be gone by then. *)
TailLog(c) ==
  LET j == op[c].job
      r == Refreshed(c, j, op[c].seen)
  IN /\ At(c, "sampled", {"tail"})
     /\ HasRow(j)
     /\ SetRow(j, r)
     /\ \/ Become(c, Idle)
        \/ r.status \in Active /\ Become(c, [op[c] EXCEPT !.pc = "tailing"])
     /\ UNCHANGED <<disk, over>>

TailLogFails(c) ==
  LET j == op[c].job
      r == rows[j]
      gone == /\ op[c].seen # Unknown
              /\ r.status = "running"
              /\ <<j, r.shell>> \notin op[c].seen
  IN /\ At(c, "tailing", {"tail"})
     /\ HasRow(j)
     /\ SetRow(j, IF gone THEN [r EXCEPT !.status = "lost"] ELSE r)
     /\ Become(c, Idle)
     /\ UNCHANGED <<disk, over>>

-----------------------------------------------------------------------------
(* Start and retry.                                                        *)

Start(c) ==
  LET j == op[c].job
  IN /\ At(c, "sampled", {"start"})
     /\ rows' = [RefreshedRows(c) EXCEPT
                   ![j] = [NoRow EXCEPT !.status = "starting", !.shell = 1,
                                        !.path = 1, !.attempts = 1,
                                        !.token = c]]
     /\ Become(c, [op[c] EXCEPT !.pc = "spawning", !.owns = j])
     /\ UNCHANGED <<disk, over>>

Retry(c) ==
  LET j == op[c].job
      r == Refreshed(c, j, op[c].seen)
  IN /\ At(c, "sampled", {"retry"})
     /\ HasRow(j)
     /\ r.status \notin Active
     /\ r.attempts < MaxAttempts
     /\ SetRow(j, [r EXCEPT !.status = "retrying", !.token = c,
                            !.pending = r.attempts + 1])
     /\ Become(c, [op[c] EXCEPT !.pc = "preparing", !.owns = j])
     /\ UNCHANGED <<disk, over>>

Owns(c) == LET j == op[c].job
           IN /\ rows[j].token = c
              /\ rows[j].status = IF op[c].kind = "start" THEN "starting"
                                                          ELSE "retrying"
Attempt(c) == LET r == rows[op[c].job]
              IN IF op[c].kind = "start" THEN 1 ELSE r.pending

(* Fault: the paths of the new attempt are not recorded before its start.  *)
PrepareUnrecorded(c) ==
  /\ At(c, "preparing", {"retry"})
  /\ Owns(c)
  /\ Become(c, [op[c] EXCEPT !.pc = "spawning"])
  /\ UNCHANGED <<rows, disk, over>>

Prepare(c) ==
  LET j == op[c].job
  IN /\ At(c, "preparing", {"retry"})
     /\ Owns(c)
     /\ files' = [files EXCEPT ![<<j, Attempt(c)>>] = "none"]
     /\ SetRow(j, [rows[j] EXCEPT !.paths = TRUE])
     /\ Become(c, [op[c] EXCEPT !.pc = "spawning"])
     /\ UNCHANGED <<shells, launched, stray, truth, over>>

Spawned(s) ==
  /\ shells'   = [shells EXCEPT ![s] = "up"]
  /\ launched' = [launched EXCEPT ![s[1]] = s[2]]

Spawn(c) ==
  /\ op[c].pc = "spawning"
  /\ Spawned(<<op[c].job, Attempt(c)>>)
  /\ Become(c, [op[c] EXCEPT !.pc = "spawned"])
  /\ UNCHANGED <<rows, files, stray, truth, over>>

(* The row of a start or retry that failed.                                *)
Failed(r) ==
  Settled(NotPending([r EXCEPT !.attempts = IF r.pending = 0 THEN @
                                            ELSE r.pending]), "failed")

(* The attempt could not be prepared, or its shell was not started.        *)
SpawnFails(c) ==
  LET j == op[c].job
  IN /\ op[c].pc \in {"preparing", "spawning"}
     /\ Owns(c)
     /\ files' = [files EXCEPT ![<<j, Attempt(c)>>] = "none"]
     /\ SetRow(j, Failed(rows[j]))
     /\ Become(c, Idle)
     /\ UNCHANGED <<shells, launched, stray, truth, over>>

(* The start failed and the shell it left behind could not be removed.     *)
SpawnUncertain(c) ==
  LET s == <<op[c].job, Attempt(c)>>
  IN /\ op[c].pc = "spawning"
     /\ Owns(c)
     /\ Spawned(s)
     /\ stray' = stray \cup {s}
     /\ files' = [files EXCEPT ![s] = "none"]
     /\ SetRow(s[1], Failed(rows[s[1]]))
     /\ Become(c, Idle)
     /\ UNCHANGED <<truth, over>>

(* A retry removes the files of the attempts before it.                    *)
Commit(c) ==
  LET j == op[c].job
      r == rows[j]
      a == Attempt(c)
  IN /\ op[c].pc = "spawned"
     /\ Owns(c)
     /\ SetRow(j, Settled(IF op[c].kind = "retry" THEN Adopted(r) ELSE r,
                          "running"))
     /\ files' = [s \in Shells |->
                    IF op[c].kind = "retry" /\ s[1] = j /\ s[2] # a
                      THEN "none" ELSE files[s]]
     /\ Become(c, Idle)
     /\ UNCHANGED <<shells, launched, stray, truth, over>>

(* The row cannot be committed: the shell is killed, if that works.        *)
CommitFails(c) ==
  LET s == <<op[c].job, Attempt(c)>>
  IN /\ op[c].pc = "spawned"
     /\ \E left \in {"none", shells[s]} :
          shells' = [shells EXCEPT ![s] = left]
     /\ files' = [files EXCEPT ![s] = "none"]
     /\ Become(c, Idle)
     /\ UNCHANGED <<rows, launched, stray, truth, over>>

-----------------------------------------------------------------------------
(* Stop, alone or as part of the end of the session.                       *)

(* The end goes on with the next job if this one is confirmed stopped.     *)
StopReturns(c, confirmed) ==
  Become(c, IF op[c].kind = "end" /\ confirmed
              THEN [op[c] EXCEPT !.pc = "ending", !.job = None, !.seen = {},
                                 !.todo = @ \ {op[c].job}, !.owns = None]
              ELSE Idle)

Stop(c) ==
  LET j    == op[c].job
      seen == op[c].seen
      r    == Refreshed(c, j, seen)
      there == seen # Unknown /\ <<j, r.shell>> \in seen
      status == IF r.status # "lost" \/ seen = Unknown THEN r.status
                ELSE IF there THEN "running" ELSE "stopped"
  IN /\ op[c].pc = "sampled"
     /\ op[c].kind \in {"stop", "end"} /\ j # None
     /\ HasRow(j)
     /\ IF status = "running"
          THEN /\ SetRow(j, [r EXCEPT !.status = "stopping", !.token = c])
               /\ Become(c, [op[c] EXCEPT !.pc = "killing", !.owns = j,
                                          !.seen = {}])
          ELSE /\ SetRow(j, [r EXCEPT !.status = status])
               /\ StopReturns(c, status \in Confirmed)
     /\ UNCHANGED <<disk, over>>

Target(c) == <<op[c].job, rows[op[c].job].shell>>

Kill(c) ==
  /\ op[c].pc = "killing"
  /\ shells[Target(c)] # "none"
  /\ shells' = [shells EXCEPT ![Target(c)] = "none"]
  /\ Become(c, [op[c] EXCEPT !.pc = "killed"])
  /\ UNCHANGED <<rows, files, launched, stray, truth, over>>

(* The kill fails, because the shell ended or for a reason of its own.     *)
KillMisses(c) ==
  /\ op[c].pc = "killing"
  /\ \E seen \in Inventories :
       Become(c, [op[c] EXCEPT !.pc = "missed", !.seen = seen])
  /\ UNCHANGED <<rows, disk, over>>

(* A kill that raised ends the request once the row is written.            *)
StopCommit(c) ==
  LET j == op[c].job
      r == rows[j]
      stays == /\ op[c].pc = "missed"
               /\ op[c].seen = Unknown \/ Target(c) \in op[c].seen
  IN /\ op[c].pc \in {"killed", "missed"}
     /\ r.status = "stopping" /\ r.token = c
     /\ SetRow(j, Settled(r, IF stays THEN "running" ELSE "stopped"))
     /\ \/ StopReturns(c, ~stays)
        \/ op[c].pc = "missed" /\ Become(c, Idle)
     /\ UNCHANGED <<disk, over>>

-----------------------------------------------------------------------------
(* The end of the session: its jobs, its shells, then its record.          *)

EndList(c) ==
  /\ At(c, "sampled", {"end"})
  /\ op[c].job = None
  /\ rows' = RefreshedRows(c)
  /\ Become(c, [op[c] EXCEPT !.pc = "ending", !.seen = {},
                 !.todo = {j \in Jobs : /\ HasRow(j)
                                        /\ rows'[j].status \notin Confirmed}])
  /\ UNCHANGED <<disk, over>>

EndStop(c, j) ==
  /\ op[c].pc = "ending"
  /\ j \in op[c].todo
  /\ \E seen \in Inventories :
       Become(c, [op[c] EXCEPT !.pc = "sampled", !.job = j, !.seen = seen])
  /\ UNCHANGED <<rows, disk, over>>

(* Fault: the session's shells are those its rows name.                    *)
OwnedByRows == {s \in Live : rows[s[1]].shell = s[2]}

(* Shells carry the tag of the session that owns them.                     *)
Owned == Live

EndShells(c) ==
  /\ op[c].pc = "ending"
  /\ op[c].todo = {}
  /\ Become(c, [op[c] EXCEPT !.pc = "clearing", !.seen = Owned])
  /\ UNCHANGED <<rows, disk, over>>

(* A shell that is gone by now is passed over.                             *)
EndKill(c) ==
  /\ op[c].pc = "clearing"
  /\ \E s \in op[c].seen :
       /\ shells' = [shells EXCEPT ![s] = "none"]
       /\ Become(c, [op[c] EXCEPT !.seen = @ \ {s}])
  /\ UNCHANGED <<rows, files, launched, stray, truth, over>>

EndSession(c) ==
  /\ op[c].pc = "clearing"
  /\ op[c].seen = {}
  /\ over' = TRUE
  /\ Become(c, Idle)
  /\ UNCHANGED <<rows, disk>>

-----------------------------------------------------------------------------
(* Shells, their runners and the retention of rows.                        *)

(* The command ends; the runner writes the status file and will exit.      *)
RunnerEnds(s, v) ==
  /\ shells[s] = "up"
  /\ shells' = [shells EXCEPT ![s] = "done"]
  /\ files'  = [files EXCEPT ![s] = v]
  /\ truth'  = [truth EXCEPT ![s] = v]
  /\ UNCHANGED <<rows, launched, stray, op, over>>

(* The runner exits, or the shell is killed or its host goes down.         *)
ShellGone(s) ==
  /\ shells[s] # "none"
  /\ shells' = [shells EXCEPT ![s] = "none"]
  /\ UNCHANGED <<rows, files, launched, stray, truth, op, over>>

(* prune_store, in any transaction on the store that finds too many rows.  *)
Evict(j) ==
  /\ rows[j].status \in Confirmed \cup {"lost"}
  /\ SetRow(j, [NoRow EXCEPT !.status = "evicted"])
  /\ files' = [s \in Shells |-> IF s[1] = j THEN "none" ELSE files[s]]
  /\ UNCHANGED <<shells, launched, stray, truth, op, over>>

Kinds == {"list", "tail", "start", "retry", "stop", "end"}

CallerStep(c) ==
  \/ \E k \in Kinds, j \in Jobs \cup {None} : Admit(c, k, j)
  \/ Interrupted(c) \/ List(c) \/ TailLog(c) \/ TailLogFails(c)
  \/ Start(c) \/ Retry(c) \/ Prepare(c) \/ Spawn(c) \/ SpawnFails(c)
  \/ SpawnUncertain(c) \/ Commit(c) \/ CommitFails(c)
  \/ Stop(c) \/ Kill(c) \/ KillMisses(c) \/ StopCommit(c)
  \/ EndList(c) \/ (\E j \in Jobs : EndStop(c, j))
  \/ EndShells(c) \/ EndKill(c) \/ EndSession(c)

Next ==
  \/ \E c \in Callers : CallerStep(c)
  \/ \E s \in Shells : (\E v \in Verdicts : RunnerEnds(s, v)) \/ ShellGone(s)
  \/ \E j \in Jobs : Evict(j)

Spec == Init /\ [][Next]_vars

-----------------------------------------------------------------------------
(* Properties.                                                             *)

(* Every variable has its type, and a row names a pending attempt exactly  *)
(* while it is retrying.                                                   *)
TypeOK ==
  /\ rows \in [Jobs -> [status : Statuses, shell : 0 .. MaxAttempts,
                        path : 0 .. MaxAttempts, attempts : 0 .. MaxAttempts,
                        pending : 0 .. MaxAttempts, paths : BOOLEAN,
                        token : Callers \cup {None}]]
  /\ \A j \in Jobs : rows[j].pending # 0 <=> rows[j].status = "retrying"
  /\ shells \in [Shells -> {"none", "up", "done"}]
  /\ files \in [Shells -> Verdicts \cup {"none"}]
  /\ truth \in [Shells -> Verdicts \cup {"none"}]
  /\ launched \in [Jobs -> 0 .. MaxAttempts]
  /\ stray \in SUBSET Shells
  /\ over \in BOOLEAN

(* A shell whose command still runs is one its job's row will find: the    *)
(* row is active and names it, whatever was cancelled, failed or crashed   *)
(* since.  So a job never runs twice at a time, and no row that says       *)
(* failed, stopped, lost or succeeded, or was evicted, hides a running     *)
(* command.  Only a start whose cleanup was not confirmed leaves such a    *)
(* shell, and start_persistent_shell keeps that one's reservation.         *)
ShellHasRow ==
  \A j \in Jobs, a \in Attempts :
    shells[<<j, a>>] = "up" /\ <<j, a>> \notin stray =>
      \/ rows[j].status \in {"starting", "running", "stopping"}
         /\ rows[j].shell = a
      \/ rows[j].status = "retrying" /\ rows[j].pending = a

(* A job that succeeded did so in the attempt its row names: no status     *)
(* file of an earlier attempt is taken for that of a later one.            *)
VerdictIsTrue ==
  \A j \in Jobs : rows[j].status = "succeeded" =>
                    truth[<<j, rows[j].shell>>] = "succeeded"

(* A job is called lost only if its runner left no verdict: the inventory  *)
(* is read before the status file, and the runner writes before it exits.  *)
LostIsSilent ==
  \A j \in Jobs : rows[j].status = "lost" =>
                    files[<<j, rows[j].path>>] = "none"

(* A row tells the truth about the attempt it names.                       *)
RowsTellTruth == TypeOK /\ VerdictIsTrue /\ LostIsSilent

(* The end of a session leaves none of its shells, not even those no row   *)
(* of it names any more.                                                   *)
EndedLeavesNothing == over => Live = {}

(* Rows and shells agree, of a session that lives and of one that ended.   *)
JobsAgree == ShellHasRow /\ RowsTellTruth /\ EndedLeavesNothing

(* Every shell gets an attempt number of its own, above all before it,     *)
(* also when the retry that chose the number was interrupted.              *)
FreshAttempt ==
  [][\A j \in Jobs, a \in Attempts :
       shells[<<j, a>>] # "up" /\ shells'[<<j, a>>] = "up" =>
         a > launched[j]]_vars

=============================================================================
