# Workgate in TLA+

Workgate is a Python server that offers tools (files, commands, tracked jobs,
sessions) to MCP clients, on its own machine and, through workers that connect
to it, on others. This directory models the parts of it whose correctness
depends on interleavings, failures and restarts: TLA+ modules translated from
`src/src/workgate`, TLC runs that check them on small instances, and proofs
checked by TLAPS. Paths below are relative to `src/src/workgate` unless they
start with `src/` or `docs/` (`src/docs/`). `PROJECT.json` maps every definition
to the lines it stands for and lists the runs, the mutants that show what each
property can catch, the hazards, the findings and the theorems.

    tlc -workers 4 -config Progress.cfg MCProgress.tla
    tlapm ManagedJobsProofs.tla

## 1. The system

| component | state | operations | who it talks to |
|---|---|---|---|
| **Remote manager** `remote/manager.py`, `remote/http.py` | workers and tokens by name, one queue per worker, pending calls and their machines, futures, tombstones of cancelled calls, invites, the registry in two files | `call`, `poll`, `heartbeat`, `submit_result`, `register`, `resume`, `revoke`, `rename`, `create_invite`, `aclose` | tool handlers call it; workers reach it over HTTP long polls |
| **Remote worker** `remote_worker/` | identity file, the poll loop, one job at a time, profiles, service | poll, run, submit, heartbeat; install, upgrade | the manager; the tools of its own machine |
| **Managed jobs** `jobs/managed.py`, `jobs/recovery.py` | rows in a shared file, one asyncio task per running job, a file lease per job, a journal of deferred verdicts | start, stop, retry, list, `aclose`, reconcile | session copy is its handler; sessions hold it to their lifecycle lock |
| **Shell jobs** `jobs/shell.py`, `jobs/lifecycle.py`, `jobs/reconciliation.py`, `jobs/runner.py` | rows, and per attempt a shell, a command file, a log and a status file | start, list, tail, stop, retry, reconcile | persistent shells; a runner process inside the shell |
| **Sessions** `tool_session/`, `ops/session.py` | one file per session, its reserved shells, lifecycle locks and leases | start, touch, change directory, end, prune | every tool; jobs and shells keep a session alive |
| **Persistent shells** `ops/shell.py`, `terminal/` | tmux or ConPTY sessions with their owner, one admission lock over all processes, raw bridges with their clients and timers | start, send, read, resize, kill, inventory; open, use and close a bridge | shell jobs, the terminal UI |
| **Transfers** `remote/transfer_gateway.py`, `ops/utils/session_copy.py`, `ops/transfer.py` | per transfer a metadata file, a spool file and a claim; a partial file at the destination | prepare, claim, commit a chunk, consume, abort, expire; pack and unpack a directory | workers upload and download through the controller |
| **Downloads** `ops/downloads.py`, `ops/utils/download_store.py` | links in a file with a copy, a private snapshot per link | create, list, revoke, claim, prune | browsers, over HTTP |
| **OAuth** `oauth/core/` | clients, approvals on disk, pending codes | register, authorize, approve, exchange | HTTP endpoints, bearer checks |
| **Bounded commands** `ops/utils/bounded_runner.py` | the processes of one command, a tracker or a launchd job | run, signal, clean up | every tool that runs a command |
| **File tools** `ops/files.py` | snapshots of what was read | read, edit by line numbers, edit several files | path locks |
| **State store and locks** `persistence/store.py`, `utils/path_locks.py` | JSON files replaced atomically, a thread lock and a file lock per identity | read, write, `transaction` | everything durable |
| **Worker service** `remote_worker/lifecycle.py`, `runtime.py`, `service.py` | per profile a lock and the runtime it names, the runtimes, the launcher and the unit of one native service | start by hand or by the service, upgrade and replace itself, install, update, start, stop, uninstall | systemd or launchd; the controller offers runtimes |
| **Agent bridge** `agent_bridge/mcp.py`, `auth_store.py` | one file with the credentials of all servers; per stdio server a thread with an event loop and a child process, one request at a time | list tools, call a tool, retire, replace | tool calls; reloads of the configuration |
| **Audit log** `audit/`, `executors/mcp/watchdogs.py` | one line per record, payload files of large values | append, limit, prune, read calls back | every tool call; several processes |
| **Human UI** `ui/http/` | slots and tasks of terminal connections, sessions on workers that its Files page keeps, login sessions | connect, type, idle out; list, read, write, delete | bridges and shells of a machine; workers through the manager |
| **Controller runtime** `executors/runtime.py`, `composition/` | the parts of a server process and the global bindings to them | start, undo, close | owns all of the above |
| **MCP and HTTP limits** `executors/mcp/session_limits.py`, `http/request_limits.py` | places reserved for sessions, buffered bodies | admit, reject, release | the MCP SDK's session manager |
| **Others** | tool registry, configuration, packaging | | |

What is hard about it:

* **One loop, many waits.** Handlers of the manager and of the job runtime are
  coroutines. Between two awaits they are atomic; across an await anything else
  may run: a revocation while a poll waits, a second cancellation while a task
  waits for the thread that writes its verdict.
* **Threads behind coroutines.** A cancelled coroutine leaves its thread running:
  a prepared transfer, an attached terminal client, a verdict that is written.
* **Several processes, one state directory.** Server processes share rows,
  sessions, leases, shells and links. Each decides from files and locks whether a
  peer is alive.
* **Failure between two steps.** A request can be cancelled, the store busy or
  the disk full, and the process can die between the start of a shell and the
  commit of its row, or between the two copies of a file.
* **Unreliable messages.** An answer to a poll, a result, a chunk or a
  registration can be lost, and the client repeats the request.
* **An operating system that moves.** Processes fork and exit while they are
  listed, files change while they are read.
* **Bounds.** Queues, tombstones, pending calls, retained rows, shells, bridges,
  links and codes are limited, some by count and some by age.

What makes each component correct: a call has one outcome and runs at most
once; names, tokens and reservations agree; identities and revocations survive
every crash; a job is run by one process at a time, is not called lost while it
runs, and its verdict lands once; no command runs that no row names; a session
that is used is kept and one that ended left nothing running; a copy delivers
exactly the bytes it announced or nothing; a code is exchanged once; an edit
changes only the lines it was shown; a runner that reports success left no
process; limits hold across processes; and whatever began comes to an end.

## 2. The modules

| module | models | checked in | proved in |
|---|---|---|---|
| `RemoteCall` | abstract: what one remote call promises | `remote_dispatch` (as `ImplementsCall`) | `RemoteDispatchProofs` |
| `RemoteDispatch` | the manager as dispatcher, its workers' poll loops | `remote_dispatch`, `services` | `RemoteDispatchProofs` |
| `RemoteEnrollment` | invites, identities, the registry on disk | `services`, `enrollment_identity` | `RemoteEnrollmentProofs` |
| `ManagedJobs` | the managed-job runtime in several processes | `managed_jobs`, `managed_retry_cancels` | `ManagedJobsProofs` |
| `ShellJobs` | shell-backed jobs of one session, and its end | `host_safety` | `ShellJobsProofs` |
| `Sessions` | session records, leases, pruning, teardown, shells and their admission | `progress` | `SessionsProofs` |
| `CopyPromise` | abstract: what one copy of a file promises | `worker_hosts` (as `KeepsPromise`) | `SessionsProofs` |
| `TransferFile` | the transactional write of one destination file | `worker_hosts`, `progress` | `SessionsProofs` |
| `TransferGateway` | the durable object between two workers | `worker_hosts`, `progress` | `SessionsProofs` |
| `SessionCopy` | one copy over every route, composed of the two above and its HTTP clients | `worker_hosts`, `progress`, `copy_cancelled` | `SessionsProofs` |
| `DirectoryCopy` | pack, copy, unpack and the exchange of the trees | `progress`, `unpack_loses_tree` | `FileProofs` |
| `OAuth` | registration, approval, codes and their exchange | `progress` | `EndpointProofs` |
| `PathLocks` | locks of threads and lock files, sets of paths | `host_safety`, `progress` | `FileProofs` |
| `FileEdits` | reads that ground edits, and the edits | `host_safety`, `managed_jobs`, `unseen_lines` | |
| `ProcessTree` | the kernel's side of a bounded command (external) | through the next two | |
| `BoundedRunner` | the runner on Linux and on kqueue hosts | `host_safety`, `managed_jobs` | `TerminalProofs` |
| `LaunchdRunner` | the runner under launchd | `host_safety`, `coalition_escape` | `TerminalProofs` |
| `TerminalBridges` | raw terminal clients, their threads and timers | `host_safety`, `progress` | `TerminalProofs` |
| `Downloads` | links, their store file and their snapshots | `host_safety` | `FileProofs` |
| `WorkerService` | profile locks, runtimes, re-execution and the native service of a worker's host | `worker_hosts` | `RemoteEnrollmentProofs` |
| `AgentWorkers` | the threads and processes of stdio agent servers | `services`, `progress` | `EndpointProofs` |
| `AgentCredentials` | the credential file of agent servers, its OAuth sessions and the administrator's commands | `host_safety` | `EndpointProofs` |
| `AuditLog` | the audit log and its payload files | `services` | |
| `ConPtyShells` | persistent shells of Windows, their leases and closes | `managed_jobs`, `progress` | `TerminalProofs` |
| `TerminalSockets` | terminal connections of the Human UI | `worker_hosts`, `progress` | `TerminalProofs` |
| `RemoteFiles` | the sessions of workers behind the Files page | `worker_hosts` | `TerminalProofs` |
| `McpSessions` | bodies, places and sessions of the MCP endpoint | `progress` | `EndpointProofs` |
| `ControllerRuntime` | start and close of a server process, nested | `host_safety` | |

`SessionCopy` EXTENDS `TransferGateway` and `TransferFile`: a copy drives the
gateway and the destination file, and what it does at one affects the other.
`BoundedRunner` EXTENDS `ProcessTree`, and `LaunchdRunner` EXTENDS `BoundedRunner`,
whose runner rests while launchd has the command. The others meet at
narrow edges and are not composed: `RemoteEnrollment` takes from
`RemoteDispatch` that names, tokens and workers agree and models the registry as
name -> token; `ManagedJobs` and `ShellJobs` keep disjoint rows of one store,
whose transaction is one action in both; `FileEdits` takes from `PathLocks` that
a path is held by one at a time, in one order.

Since such parts share no state, several are checked in one run: a variable
`which` picks a part in the initial state, only its actions are taken, and every
other part stays in its initial state (`MCSafety`, `MCProgress`, `MCJobs`,
`MCServices`, `MCHosts`). The state space is the sum of the parts, and each property
says what it says of its part.

### RemoteDispatch

A *registration* is one token with its worker object. A handler section between
two awaits is one action: `PollStart` is `poll` up to `queue.get`, and
`PollDeliver`, `PollSkip`, `PollExpire` and `PollTimeout` are its ways out.
`Call` is `call` up to `wait_for`; `CallReturn`, `CallTimeout`, `CallCancelled`
and `CallClosed` are the coroutine's ends. `Forget` is `_cancel_job_unlocked`
with its tombstones, and `Pruned` is `_prune_cancelled_jobs_unlocked`. The worker
side (`Execute`, `Finish`, `Submit`, `SubmitRefused`, `Decline`) is the poll loop
of `remote_worker/worker.py`, with requests that are lost, repeated and refused
(`PollDrop`, `PollRefused`).

Abstractions: `time.time()` and the loop's clock are one clock, and time is
relative (time left of a call, age of a tombstone), so no horizon is needed. The
choice between tombstones of one age is free. One orphaned poll per worker at a
time is a bound of the model. The offline threshold is the action `GoesQuiet`,
enabled at any time. The cap of `max(64, 4 * remote_max_pending_jobs)`
tombstones is the constant `TombCap`, of which nothing is assumed but that it is a
number, and the age limit of `max(60, remote_job_timeout_s)` is `TombTTL`, which a
caller's timeout may exceed (`remote/manager.py:922`). A pruned tombstone leaves
`Lapsed` instead of `Absent`: the actions treat the two alike, and the properties
know by it which dead calls the manager has forgotten.

### RemoteEnrollment

A handler and its registry write are one action with an outcome: saved, answer
lost, failed before the first file, failed between the two, or the process died
at one of the three points. `BootPrimary`, `BootBackup` and `BootEmpty` are
`_load_registry`; the worker's `ResumeKnown`, `ResumeUnknown`, `PollKnown` and
`PollUnknown` are what it does with the answers, deletion of its identity
included. At most `MaxDamage` files are damaged from outside. The controller
refuses to start when neither file can be read, so these runs do not check
deadlock.

### ManagedJobs

One asyncio task per job and process, in the states of `_run_managed_job`; a
cancellation is requested (`cancelling`) and takes effect when the task runs
next. The thread that writes a verdict (`threads`, `Write`) goes on when the
task that awaits it is cancelled. A transaction replays the journal first
(`Transact`, `Replayed`), whoever opens it. Stop and retry are split at their
awaits, with the store busy at each transaction (`StopBusy`, `RetryUndo`), and
the retry that is refused (`RetryRefused`) goes through the same clean-up as the
one that failed. `Refresh` is the reconciliation by any process, from the lease.
`Close`, `Leave`, `Crash` and `Boot` are the life of a process.

Left out: logs, progress and payload updates of a running row, the eviction of
old rows, and I/O errors other than a busy store and a journal file that cannot
be removed. No decision of the module reads them.

A close that comes before a task's first step cancels a coroutine that never
entered its try block. The model has this step (`NeverBegins`): the row stays
`running` until a refresh calls it lost, and a retry is possible then. A lease
may be released while the thread still writes the verdict
(`jobs/managed.py:454`): a second cancellation at that await does it. The row is
then judged by whoever looks before the write lands; `VerdictsAccounted` and
`TerminalSticks` hold nevertheless.

### ShellJobs

The row of a job, its shells by attempt number, the status file of each attempt
and `op`, what each caller is doing. `Admit` takes the session's lifecycle lock,
with the first look at the inventory, which may be unavailable (`Unknown`).
`Refreshed` is `_refresh_job_status` with `reconcile_job`; `Start`, `Prepare`,
`Spawn`, `Commit` and their failures are start and retry; `Stop`, `Kill`,
`KillMisses` and `StopCommit` are the stop; `EndList` to `EndSession` are
`session_end`. `Interrupted` ends a request between any two of its awaits, for
every reason: cancellation, a busy store, a retry refused inside its
transaction (which then saves nothing), the death of the process. `RunnerEnds`
and `ShellGone` are the runner: it writes the status file and exits, or dies
with its shell.

Abstractions: logs, reservations of shell ids and the capacity for shells are
left out (they are in `Sessions`), and any evictable row may be evicted at any
time. A tmux client that outlives its crashed controller and creates a shell
after the lock is free is left out. A failed start whose clean-up is not
confirmed (`stray`) is the one case in which the code gives up on a shell and
says so (`PersistentShellCleanupUncertainError`): `ShellHasRow` exempts it,
`EndedLeavesNothing` does not. `JobsAgree` is the conjunction of these two and of
`RowsTellTruth`. A stop that races the command's own end reports
"stopped" although a status file holds the verdict; nothing in the repository
says which should win, and no property does.

### Sessions

Each member of `Procs` is a server process that carries out one operation at a
time; all locks are lock files, so that two processes and two tasks of one
process meet in the same way. A store operation under one transaction is one
step, one that takes several locks has a step for each: pruning holds the
registry (`tx`) and tries the lifecycle lease of each candidate without waiting
(`TryCandidate`), admission of two sessions checks both before it touches both,
teardown holds the lease and looks at the shells, a start of a shell holds the
admission lock. The time of a session is an age: within the active window,
beyond it, beyond retention; `Grow` lets it pass. A session does not outlive its
retention while its lease is held: an operation that lasts longer than the
retention is assumed away. Teardown kills shells by name (`ops/session.py:355`),
and a kill that releases a reservation late can meet a new shell of that name;
the shells of the model are names for that reason. The sessions that record a
shell are read in the step of its kill, where `ops/shell.py:1098` reads them
apart.

### The transfer group

`CopyPromise` states what the user is told: the destination changes in one step
to one whole version of the source, and "copied" is said only after it has.
`SessionCopy` is shown to implement it. A file is `Size` chunks; the content of
chunk i of version v is the pair <<i, v>>, so that a mixture of two versions is
seen. Generations (`Gens`) number the attempts of a durable job: the new attempt
meets the clients, requests and grants of the old one. The gateway's handlers
are split where the code releases the lock or awaits the body: a request is
authenticated, claims, reads the body, appends and syncs, and saves, with the
crash, the failed save and the lost reply between any two. `TransferFile` splits
`begin` and `write` between the file and its metadata.

`DirectoryCopy` follows the exchange of the trees: the look under the path lock
(`Replaceable`, `Refused`), move away, commit, restore, tidy, with each step
failing, the caller giving up and the process dying. The path lock is for the exact
destination path and only tools take it, so somebody else may write there between
any two of these steps (`Theirs`): an empty directory or a file of theirs, after
which `os.replace` refuses to put the new tree, or the old one, into place, and
neither needs a failure of its own. What somebody writes into an old tree that is
there is part of that tree. The archives are removed by cleanups whose failure is
dropped (`CleanFails`), and the rollback may leave the staging directory
(`RollbackFails`); `missed` remembers both. Its file copy in the middle is one step,
which `SessionCopy` justifies.

Left out: the expansion of several sources, sizes and quotas, and the partial
archive of a pack that is interrupted inside a tar call. Coarser than the
code: a download of the gateway releases its claim in the step of its reply, where
`transfer_gateway.py:862` releases it after the last chunk was sent, so that a
client's next GET may meet its own claim and be told to come again; and the other
writer of a copied file takes its path lock, so a shell that writes between the look
and the `os.replace` of an overwrite=false finish (`ops/transfer.py:847`) is outside
the model.

### OAuth

Requests are threads that meet at `code_lock` and `client_lock`, which nest in
that order. `Register`, `Validate`, the approval with its write that may fail,
the issue of a code and the exchange are split where the code leaves the locks
or the loop. `Boot` reads what the last successful write left. Ages stand for
the time to live of codes and of clients nobody approved. Access and refresh
tokens are signed and not stored: their verification is arithmetic.

### PathLocks and FileEdits

`PathLocks` keeps, per process, the reference-counted lock object of each path
and, over all processes, the lock file of each shard. A thread asks for a set of
paths, takes them in one order and gives them back in reverse; a process may die
and an exception may end a thread in the wait. The shards of two paths may be in
the other order than the paths, which `MCShards` arranges. A thread that asks
for a path it already holds waits for itself (`utils/path_locks.py:71` uses a
plain lock); no caller in `src/` nests them, and the model does not either.

`FileEdits` identifies a line by the call that wrote it, so that equal texts are
equal files, which is what the digests compare. `ReadFile` and `Hash` are a read
with its two looks at the file. An edit waits for the locks of its files
(`Acquire`), looks at them twice (`LookAtFiles`, then `Validate` with `Looks`, for lines
and digests in the order of the code: `hashline_edit` reads the lines first,
`edit_lines` the digest), is validated against the snapshot it names, has its hunks
ordered and relocated, and is written file by file. Its answer reads every hunk
afresh, again with two looks (`Show`, `Answer`). `OutsideWrites` is the writer that
takes no path lock: a command of a shell, or `git apply` for `apply_patch`
(`ops/patch/__init__.py:100`). It may come between any two of these steps, whoever
holds the locks, puts a line on top of a file or takes the file away, and is
bounded by `MaxMade` together with the calls. Its write is lost when it comes
between the locked look and the replacement (`raced`), and `EditsAreSound` says
that nothing else is. Coarser than the code: all files of an edit are looked at in
one step for the one and in one for the other, and so are all contexts of an answer.

### The bounded runner

`ProcessTree` is the operating system: a process forks, leaves its group,
ignores a signal, is of another user, exits, is adopted. `BoundedRunner` reads
the children of one process at a time (`ReadChildren`), so that the tree moves
under it, and falls back to one listing of all processes; on kqueue hosts the
tracker follows the fork events and may lose one. `LaunchdRunner` starts a child
in a coalition of its own, waits for its identity, releases it, and lists and
asks pids one by one. Grace periods are numbers of looks (`MaxPolls`,
`MaxLooks`), and signals may come at any time.

### TerminalBridges

Tasks of one event loop open, use and close bridges; the thread of an opening
(`Attach`), of a close (`CloseRuns`) and the timers go their own way, and
`CancelTask` may hit a task at every await. `Drained` and `AllClosed` are the
close of the registry. A close that is queued and not yet started when its task
is cancelled never runs, and nobody else knows the client: the model records it
in `dropped`, and `NoClientLost` says that this is the only way to lose one
(docs/architecture.md:118 says that clients are detached at the close). The ConPTY
attachment is another client of the same interface; its shells are in
`ConPtyShells`.

### Downloads

Requests of several processes, one transaction at a time. A save is two steps,
the file and its copy, and each may fail; a damaged file is recovered from the
copy, which may be one save behind (`rolledBack`): then a count may be one
behind, and a GET that was counted and whose second save failed answers 500. A
snapshot's final name exists only within the transaction that publishes it. The
copying of the bytes into the staging file is one step. The removal of a snapshot
always succeeds, where the code drops an `OSError` and leaves the file.

### WorkerService

A process is `locking` until it has the lock of its profile; a managed one and
the heir of a process of Windows wait, another ends (`AlreadyRunning`). The lock
dies with its process and survives `exec`. An installation holds `install.lock`
and moves the old runtime away, the new one into its place, and gives it its
environment and metadata (`bare`, then `whole`); a failure moves the old one
back, a kill or an interrupt does not. An upgrade writes the profile, then the
launcher, then replaces the process. The commands of a user run one after the
other, each step of which may fail or be interrupted. The service manager is
external: a service that is on is started again when its process has gone.

Runs see what the code allows and no document denies, and no property judges it:
a worker started by the launcher of its profile counts as managed
(`remote_worker/profile_launcher.py:100`), so that its upgrade binds the
launcher of the service to its profile; an interrupted forced installation loses
the old runtime (`cut`), as `remote_worker/runtime.py:563` catches exceptions
only; a command that failed after it wrote its files finds them unchanged when
it is repeated and does not restart the service.

### AgentWorkers

Calls (`AgentCalls`) and the threads they start share their numbers. `Reuse`,
`StartFirst` and `BeginReplace` are the ways through `_stdio_worker`; `barrier`
is the lock that a replacement holds while it joins the old thread. A request to
close is a callback on the loop of the thread (`OnLoop`), which cancels a start
and queues behind the requests otherwise. A request is sent (`SendRequest`) as long as there
is a session, also one that had to wait behind the stopper: the session is there
until the transports have ended (`agent_bridge/mcp.py:223`), so such a request is
sent `late` and may be cut. `GracefulStop` speaks of those sent while the worker ran.
`AgentGivesUp` is a caller's timeout,
`JoinTimesOut` a thread that outlives its join. Transports over HTTP have no
state between calls and are left out.

### AgentCredentials

`credentials.json` holds the tokens, the client's registration, the metadata and
the secrets of a server. Every access holds its file lock; a write reads the file
(`BeginEdit`), changes the copy (`Apply`) and replaces the file (`CommitEdit`), and
may end in between (`LetGo`). A session is `PersistentOAuthClientProvider` on top
of the SDK's provider, which is external: it loads tokens, client and expiry in
reads of their own (`LoadTokens`, `LoadOthers`), refreshes, is refused, or asks for
a redirect, which a tool call denies and `mcp auth` answers with the result of its
listener. Commands of the administrator, one after the other, are processes of
their own.

Time is not modelled, so an expiry may be past at any look, and which refresh
tokens the server still takes is its own affair. What the runs see and nothing in
the repository denies: a refresh that is refused clears the tokens that a peer
stored since; a refresh under way stores its tokens after a logout; a grant that
brings no refresh token keeps the stored one of an earlier grant.

### AuditLog

A call leaves a start and an end, of which large payloads go to files. An append
is a transaction of one process at a time: payload files, the line, the limit of
the log by bytes (here by records), which keeps or drops both records of a call,
the removal of records whose files are over the limit of the store, and the
removal of files that are old and named by no record. A crash leaves a torn
line. `Folded` reads calls back from what is left.

### ConPtyShells

A start holds the admission lock of all shells (`ops/shell.py:820`), takes the
lease that tells other processes that the shell lives (`Authoritative`), spawns
in a thread and registers. Each of the four that may close a session (its reader,
the start that is undone, a kill or a reaping, the registry) goes through its own
stages: `Mark`, `StopProcess`, `Finalize`, `RemoveSession`. The lease goes only
with a process that is seen dead. Two things the runs see and no property judges:
a start that the close of the registry overtakes raises after the process was
spawned (`terminal/conpty.py:723`) and leaves the process and its lease, although
the docstring of `aclose` speaks of all remaining shells: `NoneForgotten` and
`AskedToEnd` name that exception; and the branch for a name that is taken after
the spawn cannot be reached under the admission lock. A spawn makes a process or
fails; what is typed, resized and read is left out.

### TerminalSockets and RemoteFiles

A connection has a slot, a sender and a receiver, each with its own program
counter, and a raw client at the machine, which may appear after the call was
given up. `CancelRunning` and `CancelElsewhere` are the close of the registry
reaching a connection at its awaits: a connection cancelled while it serves
cleans up but leaves its two tasks, one cancelled elsewhere leaves its slot to
the registry and its client to the idle timer of the bridge. `NothingLeft` speaks
therefore of connections that end by themselves.

A request of the Files page begins each of its calls anew (`Seek`), makes a
session under the lock of the machine (`Lock`, `SessionMade`), and repeats a call
once when the worker does not know the session (`CallAgain`). A worker that is
found offline has its cached session forgotten without an end (`strays`). Reads
are checked for their size, not for the version of the file, by the code.

### McpSessions

`BodyChunk` buffers a body, `AskForPlace` counts sessions and reservations under
the lock, and `Release` gives a place back from whichever of the three ends of a
request comes first. During its creation a session is counted twice, which errs
on the safe side: `CapacityHeld` counts it once. A rejection is sent while the
lock is held. Streamed uploads of transfers bypass the limit of bodies by design.

### ControllerRuntime

The order of the parts is data (`StartOrder`, `CloseOrder`, `UndoOrder`), taken
from `executors/runtime.py` with the two runtimes that it starts inlined; a step
starts or closes one part, and may raise. Runtimes nest and close in reverse:
that is assumed of their callers, which use `lifespan`.

## 3. The runs

Passing runs explore their instance completely; the mutant of each property (an
operator that stands before the definition it replaces) shows that the property
can fail.

| run | what it asks | instance |
|---|---|---|
| `remote_dispatch` | Does a call keep its promise (`ImplementsCall`), are reservations consistent, is no dead call delivered, does every call end? | 1 registration, 2 names, 2 calls, limit 1, timeouts 1 and 3, tombstones of age 1, at most one |
| `services` | Do registry, capacity, answers and revocations survive every order of register, rename and revoke, and identities every failed write, crash and recovery? Has an agent server one process, and do the limits of the audit log keep calls and payloads together? | dispatch: 2 registrations, 2 names, 2 calls; enrollment: 2 workers, 2 names, 2 invites, 2 tokens, 1 damaged file; 3 agent calls, 2 configurations; 2 audited calls, 2 payloads, a log of 3 records |
| `managed_jobs` | Leases, lost rows, verdicts, terminal rows; has a live ConPTY shell its lease; do operations, edits, runners and starts of shells end? | 2 processes, 1 job, 2 launches; 2 tool calls, 2 files; 2 pids; 2 starts of ConPTY shells, 1 name |
| `host_safety` | The safety of shell jobs, edits, runners, path locks, bridges, links, of the start and close of a server process, and of the credential file | 2 callers, 1 job, 2 attempts; 2 tools, 2 files of 3 lines, 2 snapshots, writes without locks; 3 pids; 3 threads in 2 processes, 3 paths; 2 terminals, 1 bridge, 3 operations; 2 links, 3 requests, 1 disk fault; 2 nested runtimes, 2 closes that raise; 2 OAuth sessions, 1 secret, 2 tokens, 1 command |
| `worker_hosts` | Does a copy keep its promise (`KeepsPromise`), is the object sound, is a foreign file never replaced? Has a profile one worker, and the runtime it names? Are slots, input and clients of terminal connections accounted for, and sessions of the Files page? | 4 routes, 2 chunks, 2 attempts, 2 versions, 2 requests, 2 faults; 2 profiles, 2 processes, 2 runtimes, 1 command, 1 trouble; 2 connections, 1 slot, 2 inputs; 2 UI requests, 3 sessions of a worker |
| `progress` | Are trees safe, sessions, codes and MCP places sound, and does everything end? | directory copies with 4 failures; 2 processes, 3 sessions of 2, 2 shells of 1; 3 clients, 2 codes, 4 calls; 3 threads; 2 bridge operations; 2 agent calls; file copies with 1 fault; 1 terminal connection; 3 MCP requests for 1 place; 1 start of a ConPTY shell |
| `enrollment_identity` (violation) | Does a worker lose its identity to a revocation only? | as in `services` |
| `managed_retry_cancels` (violation) | Does a refused retry leave the running job alone? | 2 processes, 1 launch |
| `copy_cancelled` (violation) | Does a cancelled copy leave nothing? | as in `worker_hosts`, caller's copies |
| `unpack_loses_tree` (violation) | Does a failed commit restore the old tree? | 1 failure or writer |
| `unseen_lines` (violation) | Does an edit only change lines that were shown? | as in `host_safety` |
| `coalition_escape` (violation) | Is the coalition empty when the runner says so? | 3 pids, 1 look |

Why the bounds suffice for the cases in question:

* Two names are what a rename needs, two registrations what a re-registration or
  a rename onto a taken name needs; two calls with a limit of one fill it. With
  a tombstone cap of one, two calls given up evict the older one's tombstone, and
  a timeout of three outlives a tombstone of age one: both ways to prune are met,
  and with each of them TLC finds a dead call that is delivered, which
  `NoDeadDelivery` and `RevokedGetsNothing` except by name (`TombGone`). A worker
  that was offline for long may so run a call nobody waits for.
* Two tokens and two names give a registration that overwrites another, and a
  write that succeeds after one that was half done; one damaged file forces the
  backup to be read. Two damaged files leave nothing to recover, and the code
  stops there.
* One job in `managed_jobs`: jobs share only the store, whose transactions treat
  rows separately. Two launches give a late verdict of the first one to meet the
  second. Two processes give an owner and a peer that judges it.
* One job with two attempts in `host_safety`: jobs of a session interact through
  the lock and the end of the session only, and the second attempt is a retry that
  meets whatever the first left. `Server <- OwnServer` puts the callers in
  different processes, where neither sees the other's operation tokens.
* Two chunks make a file whose halves can differ in version, two attempts a
  retry that meets the clients of the first, two faults a failure while another
  is repaired. `worker_hosts` leaves out the durable job between two workers, which
  with two faults has as many states as all other copies; each of its two sides is
  in another of them, and `progress` runs it with one fault. The third session in `Sessions` is the one that is new while two
  others are pruned by number.
* Three threads on three paths: two of one process, so that one waits for the
  lock object while the other drops it, and one of another process for the files.
* Three pids make a parent that exits after it forked a child that escapes, while
  a third is looked at.
* One bridge of a limit of one, two terminals: the limit and the exclusion are
  met separately. Three requests for links: a creation and two uses, or one with
  a revocation.
* Two processes of two profiles meet at one lock, or at the launcher and the
  installation they share; the service may be installed from the start, so that
  one command is an update, a removal or another profile's installation.
* Three agent calls: one that is served, one that gives up and one that wants
  another configuration. Three records in the log: one call whole and half of
  another, so that the limit must choose.

* Two connections for one slot: one that holds it and one that wants it. Two
  starts of shells under one name: the second meets what the first left. Three
  requests for one MCP session: one that has it, one that creates, one refused.
  Two nested runtimes give a binding that must be put back. Two OAuth sessions and
  one command: a session's write meets a peer's and the administrator's; the second
  token tells a refresh from the first grant.

## 4. Fairness

Weak fairness only, and only of steps that the code or its platform takes by
itself; nothing is assumed of callers, workers, restarts, faults or processes of
a command.

* `RemoteDispatch!FairSpec`: time passes, and a call's timeout or end at the close
  runs (asyncio runs timers that are due and coroutines whose future was
  cancelled). A call must end without pollers and workers.
* `JobsSpec` (of `MCJobs`): an operation's next step, the steps a task can take,
  threads, and the end of a close: the loop runs what is ready, a thread ends
  because its lock attempts are bounded, and the one registered handler, the
  session copy, re-raises its cancellation. File tools and the runner take their
  next step; the processes of a command may fork and ignore signals as they like.
* `ProgressSpec` (of `MCProgress`): the requests that the gateway has begun, the
  copy's coroutine, its clients and, for a worker that is lost, the timeout of the
  call; the steps of a directory copy, of each server process, of OAuth requests
  and the close; threads that can take a lock; tasks, threads and timers of the
  bridges; agent calls, and the threads of agent servers, whose starts succeed or
  fail; the tasks of terminal connections, of MCP requests and of starts of shells,
  and the closes of their registries. The file locks give no order among waiters: with a bounded number of
  requests weak fairness is enough.

## 5. What is proved

Eight modules hold theorems. Each says that a specification keeps one of the
properties that a run checks, for every set of names, requests, processes and
files and every value of the limits that the assumptions allow. The inductive
invariants were checked by TLC on the instances of the runs before they were
proved.

| theorem | states | inductive invariant |
|---|---|---|
| `RemoteDispatchProofs!TypeCorrect`, `RegistryTheorem`, `ReservationsTheorem` | types, `RegistrySound` (that is `RegistryConsistent` and `CapacityRespected`), `Reservations` | `DispatchInv` |
| `RemoteDispatchProofs!AnswersTheorem`, `CallRefinement` | `AnswersItsOwn`, `ImplementsCall` (the refinement to `RemoteCall`) | `JobsInv` |
| `RemoteDispatchProofs!DeliveryTheorem`, `RevocationTheorem` | `NoDeadDelivery`, `RevokedGetsNothing` | `TombsInv` |
| `RemoteDispatchProofs!PrunedTheorem` | a tombstone that is not too old is pruned only if `TombCap` others, none of them older, are kept | none: it is about `Pruned` |
| `RemoteEnrollmentProofs!EnrollmentTheorem` | `EnrollmentSound` | `EnrollInv` |
| `RemoteEnrollmentProofs!WorkerServiceTheorem` | `WorkerServiceSound` | `ServiceInv` |
| `ManagedJobsProofs!TypeCorrect`, `LeaseTheorem`, `StickyTheorem` | types, `LeasesSound` (that is `RunnerHoldsLease` and `LostIsDead`), `TerminalSticks` (an action property) | `JobsInv` |
| `ManagedJobsProofs!VerdictTheorem` | `VerdictsAccounted` | `VerdictInv` |
| `SessionsProofs!SessionsTheorem`, `SessionsEndTheorem` | `SessionsSound`, `SessionsEndRightly` (an action property) | `SessInv` |
| `SessionsProofs!PromiseTheorem` | `KeepsPromise` (the refinement to `CopyPromise`) | `PromiseInv` |
| `SessionsProofs!ObjectTheorem`, `NothingLostTheorem` | `ObjectSound`, `NothingLost` (an action property) | `CopyInv` |
| `ShellJobsProofs!JobsAgreeTheorem`, `FreshAttemptTheorem` | `JobsAgree`, `FreshAttempt` (an action property) | `ShellJobsInv` |
| `FileProofs!LocksTheorem` | `LocksSound` | `InductiveInv` |
| `FileProofs!TreesTheorem`, `NotReplacedTheorem` | `TreesSafe`, `TreeNotReplaced` (an action property) | `TreesInv` |
| `TerminalProofs!ConPtyTheorem` | `ConPtySound` | `ConPtyInv` |
| `TerminalProofs!BridgesTheorem` | `BridgesSound` | `BridgesInv` |
| `TerminalProofs!FilesTheorem` | `FilesSound` | `FilesInv` |
| `TerminalProofs!SocketsTheorem` | `SocketsSound` | `SocketsInv` |
| `TerminalProofs!CommandsTheorem` | `CommandsSound` of `BrSpec` | `CommandInv` |
| `TerminalProofs!LaunchdTheorem` | `CommandsSound` of `LdSpec` | `LdInv` |
| `EndpointProofs!CredentialsTheorem`, `CredentialsKeptTheorem` | `CredentialsSound`, `CredentialsKept` (an action property) | `CredInv` |
| `EndpointProofs!WorkersTheorem` | `WorkersSound` | `AgentInv` |
| `EndpointProofs!McpTheorem` | `McpSound` | `McpInv` |
| `EndpointProofs!OAuthTheorem` | `OAuthSound` | `OAuthInv` |
| `FileProofs!DownloadsTheorem` | `DownloadsSound` | `DlInv` |

Why the invariants are what they are:

* *Dispatch.* `TypeOK` is inductive alone and comes first. `RegistryConsistent`
  needs `TokensIssued`: a registration could otherwise be made with a token that
  is in use. `Reservations` needs the registry, since a rename moves
  reservations to a name that must be registered, and `ClosedIsEmpty`, because
  the futures of a closed manager are cancelled while its calls have not woken up
  yet. `CapacityRespected` needs all of these, as a rename may not add the calls
  of two machines, and finite sets of calls. `AnswersItsOwn` and the refinement
  need to know where the job of a call is: in one place of one queue
  (`QueuedOnce`, `QueuedUntouched`) or at one worker (`HeldOnce`, `HeldAsFar`),
  and how far the caller's view (`Outcomes`) may lag behind. Each step of the
  dispatcher is then a step of `RemoteCall` or leaves its variables alone.
* *Tombstones.* A call that ended may leave its job in a queue, with a tombstone
  that makes `poll` skip it. `TombsInv` says that a queued job is outstanding, or
  has a tombstone, or had one that was pruned: every end of a call buries its job,
  and only the poll that takes the job off its queue, or the result of a job that is
  in no queue any more, uses a tombstone up. A poll that delivers finds no tombstone,
  so the call waits, and its worker is registered, or the tombstone was pruned. The
  exception is real: the code keeps tombstones for so long and so many of them only,
  and neither limit follows from anything a caller is held to. `PrunedTheorem` says
  how narrow it is.
* *Enrollment.* Damage and failed writes make it a statement about every registry
  that the controller answers from or may start from (`Copies`): each has every
  identity that a worker holds and nobody asked to revoke, and none has one whose
  revocation was confirmed. Both files exist once a worker has an identity
  (`FilesFirst`), and an invite that is still known made no token (`Unspent`).
* *Worker service.* A process past its start holds the lock of its profile, one
  that installs holds the installation lock, and one that goes on after an
  installation names a runtime that is kept (`ProcFine`). Kept are the runtimes
  that are whole, that a kill cut, and those whose whole predecessor stands aside
  while they are installed (`KeptRuntimes`); no step takes one out of that set,
  so what profiles, the service and its launcher name stays in it (`NamedKept`).
* *Managed jobs.* `RunnerHoldsLease` alone is not inductive: a start must know
  that a job without a row has no lease (`AbsentIsFree`), and `LostIsDead` that
  whoever calls a job lost looked at a lease that is free. `TokenIsActive` and
  `TaskIsLaunched` keep a terminal row from being written by an operation that
  began before. `VerdictInv` follows a verdict from its task through the thread,
  the journal and the replay: for one launch only one of them is not yet applied
  (`OneVerdict`), though the journal's file may outlive its replay.
* *Shell-backed jobs.* A request may stop anywhere and nobody undoes what it did,
  so the invariant speaks of rows and disk alone wherever it can: the attempts that
  got a shell are at most those the row counts, or is about to (`RowCounts`), and a
  command that runs belongs to the attempt the row names, whose status file the row
  points at (`RowNames`). Only the request with the lifecycle lock knows more: the
  inventory it read still has every shell that lives (`Covers`), so a shell that is
  not in it is gone for good; and a launch has its number in its row, above all
  that had a shell (`Launching`). A refresh under the lock is then right about
  every row (`RefreshedInv`), whoever was interrupted before.
* *Sessions.* The invariant has a part that speaks of shared state and, for each
  process, a part `Own` that says which locks it holds where (`HoldsLocks`), what
  its operation names (`Names`) and what it still knows (`Knows`): that the
  session it is about to write is up, that the count of shells it read is still
  an upper bound. The argument is one of non-interference: `Effects(p)` is what a
  step of p does to the locks, sessions, jobs and shells that others rely on, each
  action is shown to have no other effects, and the part of every other process
  survives such effects.
* *Copies.* `PromiseInv` says that a whole version is at the destination once the
  copy, or a download that may go on after the copy was given up, is past its
  publication. It needs nothing of the gateway, since a file takes its place only
  when its digest is that of a version. The object does: `GateInv` says that what
  its spool holds is in order (`InOrder`) and reaches to the cursor, that a ready
  object is the version it was made for, and that a chunk being appended is the
  only one, with the lock, and just behind the cursor (`Appends`). A download reads
  after it gave the lock back, so nothing it could know of the object need still be
  true; it rests on the transfers whose spool is complete for good (`Settled`), in
  which a transfer is once its object was ready, and which no step makes smaller.
  `CopyInv` adds which of them the clients read (`ClientInv`) and what files hold.
  TLC checked it on two versions, generations and requests with up to two faults
  (1,421,268 states). The proof needs version 1, with which `Init` begins, to be one
  of `Versions` (`VersionsAssumption`).
* *Path locks.* The reference counts equal the users of each lock object
  (`EntriesInv`), an owner is inside its object and its file (`PathHolders`,
  `ShardHolders`), and what a thread asks for stands above all that it holds
  (`AllClimb`), so that nobody waits in a circle (`WaitsClimb`).
* *ConPTY.* For each start, what its program counter says of its process, lease
  and place in the table: before it is registered nothing closes it
  (`Unseen`), afterwards the lease stands for the name (`LeaseStands`).
* *Raw bridges.* For each operation, what its place says of its client: nobody
  knows it before it is registered, it is attached while it is in use, and when it
  is neither it is among those that close (`ClientInv`). The two maps of the
  registry agree (`Mapped`), each terminal is promised to one opening
  (`PromisedToOne`), and clients and promises together stay within the limit
  (`Counted`), which the check at the promise relies on.
* *Trees.* What is at the destination and in the backup by the step of the
  unpacking, and how many failures it takes to get there (`TreeInv`): a backup is
  left to the rollback only when two failed, and another's tree is in its way only
  when that is a third, which is why `OldTreeKept` speaks of two failures. Once the old tree was moved
  away it is in the backup until it is put back (`OldMoved`, `OldReturning`) or
  somebody else's tree is at the destination, which no property promises to
  remove. Under overwrite=false only an empty directory is moved, or what came into it
  after the look.
* *Downloads.* A store in memory is worth something only to the request that has
  the transaction (`RequestInv`). A claim is counted before it is answered
  (`ClaimCounted`), so that a store that was never rolled back is ahead of what was
  served, also when a save fails or the process dies (`Tells`). A link has no past
  until its one creation publishes it (`Pending`), so a revoked or pruned link
  never comes back with a snapshot.
* *Files page.* A request that makes a session does so under the lock of the
  machine, alone (`OneMaker`), and because none of its directory is cached
  (`MakerFine`); what it holds was made and is dead when the worker says so
  (`RequestFine`). Every session the server knows of was made (`KnownMade`), and
  a closed gate leaves it none (`GateFine`).
* *Terminal connections.* What the place of a connection says of its two tasks and
  of its raw client (`PlaceFine`), which is weaker once the registry closes; a slot
  belongs to a connection in one of the places between its acceptance and its end.
  `WireFine` says that at most the last input is not yet at the shell, and that
  while its receiver waits for the next one none is under way, which is why
  inputs keep their order.
* *Bounded commands.* On Linux every process that is visible has the runner or an
  older living process as its parent, since the runner adopts (`ParentsAlive`), so
  while anything lives the oldest is the runner's own child. Hence a walk by the
  children files finds nobody only if the runner has no child, and a listing of
  `/proc` always has such a child before it or in its map (`ChildrenKnown`),
  whatever forks and exits meanwhile: an empty result is true when it is taken,
  and nothing can start afterwards. On kqueue hosts the tracker knows all that
  live until it says that it lost track (`Tracks`). Both end in `RunFine`: who has
  decided that nothing is left is right. Under launchd no process exists before
  the release, which follows the look at the coalition (`Cleared`), and
  `Removed` ties the answer to the bootout; that the coalition is empty then is
  false (finding 6) and not claimed.
* *Credentials.* A draft is what the file holds, and there is one
  (`DraftsAgree`), so a commit changes the file by its own edit only. `FlowFine`
  says what a session may be about to write, and that a code in its hands is one to
  which its user consented, which is not so for a callback at any other time.
* *Agent workers.* What the place of a call says of its worker (`CallFine`): a
  request that was sent while the worker ran is at the head of its line until it is
  answered, so neither the stopper's turn nor the end of the thread can find it (one
  that was sent late may be cut by the end of the thread); whoever closes
  a worker holds the barrier and the worker is the registered one, so a new thread
  starts only when no other lives.
* *MCP.* For each request, which of its flags its place implies, and with it the
  equality of the counter with the set of requests that hold a place.
* *OAuth.* A code is at one place: drawn by one request, in the store, or taken
  out by one (`Issues`, `OwnCodes`), and has no token before the last. Who issues
  holds `code_lock` from the check of the capacity to the store, so the place it
  found free is free still; who writes an approval holds `client_lock`, and the
  file lags behind the memory by exactly that client (`ClientsHold`), which is why
  its rollback costs nothing.

The theorems rest on the named assumptions of the modules, each of which TLC
evaluates in a run: `None`, `Nobody` and similar marks differ from everything
else, limits are natural numbers (positive, where zero would turn the part off),
and some sets are finite (calls, threads, requests). Finiteness is no loss: the
sets bound what happens in one behaviour.

Model-checked only:

* liveness (`CallsEnd`, `OperationsEnd`, `ToolsEnd`, `EverythingEnds`): fairness
  is beyond the prover;
* `EditsSound`, `EditsAreSound`, `AuditSound`, `ControllerSound`: they speak of
  sequences (the lines of a file, the records of a log, the order of parts) by
  folds and insertions, and would need induction over data.

## 6. Findings

Each is a violation run; `PROJECT.json` quotes the line it contradicts.

1. *Refused retry stops the job* (`managed_retry_cancels`, code bug). The refusal
   "job is still active" is raised inside the try block whose except clause
   undoes a launch: it cancels the running task and releases its lease.
2. *Identity deleted without revocation* (`enrollment_identity`). A resume whose
   registry write fails is answered 401, which the worker takes as a revocation.
3. *Cancelled copy leaves its object* (`copy_cancelled`). The await of prepare is
   outside the try block that cleans up, and its thread goes on.
4. *Old tree removed after a failed restore* (`unpack_loses_tree`, code bug). A file
   written at the destination between the two renames makes the commit and the
   restore fail, and the finally clause removes the backup, the only copy of the
   old tree.
5. *Unseen lines edited* (`unseen_lines`, code bug). A read takes the lines and
   the digest from two looks at the file, without its lock.
6. *A process of a coalition escapes* (`coalition_escape`, code bug). One look
   that finds nobody ends the clean-up, though pids are asked one by one.

Two smaller observations have no run of their own: a queued `close_sync` that is
cancelled loses a raw client (`dropped` in `TerminalBridges`), and a worker
whose registration answer is lost is refused on its retry because the invite is
used (`RemoteEnrollment`).

## 7. Not modelled, and why

* Tool registry, schemas, configuration, packaging: data, or build time only.
* Worker bundle: builds an archive from installed files.
* Search, patch envelopes and the todo list: sequential code.
* Liveness of the worker's service: a person may start workers again and again,
  and each takes a slot of the model.
* Login sessions, pages of local files and rendering of the Human UI, the
  watchdogs of tools: not yet, see the plan.
  The logs of sessions repeat the global audit log.

## 8. Plan

Done: the modules of section 2. Next: login sessions; the writes of the state
store.
