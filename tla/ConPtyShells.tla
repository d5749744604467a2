------------------------------ MODULE ConPtyShells ------------------------------
(*****************************************************************************)
(* The persistent shells of Windows, terminal/conpty.py: a start takes the   *)
(* lease of the shell, which tells other server processes that it lives,     *)
(* spawns the process in a thread and registers it. The reader thread, kills, *)
(* the reaping of dead shells, a start that is undone and the close of the   *)
(* registry all close a session, at the same time if it so happens.          *)
(*****************************************************************************)
EXTENDS FiniteSets, Naturals

CONSTANTS ShellStarts,    \* calls of start_shell, each with its session
          ShellIds   \* identifiers of shells

\* 0 stands for no shell and no identifier.
ASSUME ConPtyAssumption == 0 \notin ShellStarts \cup ShellIds

VARIABLES
  start,      \* [ShellStarts -> the call: its place, its identifier, its cancellation]
  shell,      \* [ShellStarts -> the session: its process, lease, closing flag, subscriber]
  closes,     \* [ShellStarts -> [Closers -> the stage of a close of this session]]
  table,      \* registry.sessions: [ShellIds -> ShellStarts, or 0]
  shellGate   \* the registry: "open", "stopped", "draining", "closing" or "closed"

cpVars == <<start, shell, closes, table, shellGate>>

\* What may close a session: its reader, the start that is undone, a kill or the reaping
\* by another operation, and the registry.
Closers == {"reader", "start", "kill", "registry"}
NewShellStart == [pc |-> "new", id |-> 0, cancel |-> FALSE]
NewShell == [proc |-> "none", lease |-> FALSE, closing |-> FALSE, sub |-> FALSE]

ConPtyInit ==
  /\ start = [o \in ShellStarts |-> NewShellStart] /\ shell = [o \in ShellStarts |-> NewShell]
  /\ closes = [o \in ShellStarts |-> [c \in Closers |-> "none"]]
  /\ table = [i \in ShellIds |-> 0] /\ shellGate = "open"

StartAt(o, pc) == start[o].pc = pc
StartGoes(o, pc) == start' = [start EXCEPT ![o].pc = pc]
ProcAlive(o) == shell[o].proc = "alive"
Registered(o) == start[o].id # 0 /\ table[start[o].id] = o
CloserGoes(o, c, stage) == closes' = [closes EXCEPT ![o][c] = stage]

--------------------------------------------------------------------------------
Underway(o) ==
  start[o].pc \in {"checking", "leasing", "spawning", "spawned", "undoing", "closing"}
\* start_shell, under the admission lock of all shells: begin_operation, the reaping of
\* dead shells and the check of the table.
BeginStart(o, i) ==
  /\ StartAt(o, "new") /\ shellGate = "open" /\ \A q \in ShellStarts : ~Underway(q)
  /\ start' = [start EXCEPT ![o].pc = "checking", ![o].id = i]
  /\ UNCHANGED <<shell, closes, table, shellGate>>
CheckTable(o) ==
  /\ StartAt(o, "checking")
  /\ StartGoes(o, IF start[o].cancel \/ shellGate # "open" \/ table[start[o].id] # 0
                  THEN "failed" ELSE "leasing")
  /\ UNCHANGED <<shell, closes, table, shellGate>>

\* The lease is a lock of all processes. A start that cannot have it in time, or is
\* cancelled while it waits, gives it back.
LockLease(o) ==
  /\ StartAt(o, "leasing") /\ ~start[o].cancel
  /\ \A q \in ShellStarts : shell[q].lease => start[q].id # start[o].id
  /\ shell' = [shell EXCEPT ![o].lease = TRUE]
  /\ StartGoes(o, "spawning")
  /\ UNCHANGED <<closes, table, shellGate>>
MissLease(o) ==
  /\ StartAt(o, "leasing") /\ StartGoes(o, "failed")
  /\ UNCHANGED <<shell, closes, table, shellGate>>

\* The thread spawns the process; a cancelled start waits for it all the same.
Spawned(o) ==
  /\ StartAt(o, "spawning") /\ StartGoes(o, "spawned")
  /\ shell' = [shell EXCEPT ![o].proc = "alive"]
  /\ UNCHANGED <<closes, table, shellGate>>
SpawnFails(o) ==
  /\ StartAt(o, "spawning") /\ StartGoes(o, "failed")
  /\ shell' = [shell EXCEPT ![o].lease = FALSE]
  /\ UNCHANGED <<closes, table, shellGate>>

\* The session is registered. If the registry was closed meanwhile, the call raises
\* and leaves the process and its lease. A start that was cancelled, or whose reader
\* cannot be started, closes its session.
EnterTable(o) ==
  /\ StartAt(o, "spawned")
  /\ IF shellGate # "open" THEN StartGoes(o, "overtaken") /\ UNCHANGED <<closes, table>>
     ELSE /\ table' = [table EXCEPT ![start[o].id] = o]
          /\ \/ ~start[o].cancel /\ StartGoes(o, "up") /\ CloserGoes(o, "reader", "reading")
             \/ /\ StartGoes(o, IF start[o].cancel THEN "undoing" ELSE "closing")
                /\ CloserGoes(o, "start", "mark")
  /\ UNCHANGED <<shell, shellGate>>
\* A slip: the result of the close is not looked at.
AnyClose(o) == "failed"
AsItWent(o) == IF closes[o]["start"] = "kept" THEN "uncertain" ELSE "failed"
\* The start ends with that close; only the close of a start without a reader may be
\* left to itself, if the call is cancelled now.
StartUndone(o) ==
  /\ start[o].pc \in {"undoing", "closing"} /\ closes[o]["start"] \in {"none", "kept"}
  /\ StartGoes(o, AsItWent(o))
  /\ UNCHANGED <<shell, closes, table, shellGate>>
StartLeft(o) ==
  /\ StartAt(o, "closing") /\ start[o].cancel /\ StartGoes(o, "left")
  /\ UNCHANGED <<shell, closes, table, shellGate>>

--------------------------------------------------------------------------------
\* close, and the end of _reader_main: the first to come sets closing and finishes the
\* subscribers; the reader stops the process only if it is the first.
Mark(o, c) ==
  /\ closes[o][c] = "mark"
  /\ shell' = [shell EXCEPT ![o].closing = TRUE, ![o].sub = FALSE]
  /\ CloserGoes(o, c, IF c = "reader" /\ shell[o].closing THEN "final" ELSE "stop")
  /\ UNCHANGED <<start, table, shellGate>>
\* The process ends, or does not, with or without an error.
StopProcess(o, c) ==
  /\ closes[o][c] = "stop"
  /\ shell' \in {shell, [shell EXCEPT ![o].proc = "dead"]}
  /\ CloserGoes(o, c, "final")
  /\ UNCHANGED <<start, table, shellGate>>
\* A slip: the lease is given up whether or not the process is gone.
GivenUp(o) == FALSE
Unconfirmed(o) == ProcAlive(o)
\* _finalize_terminated_process: the lease, and then the table.
Finalize(o, c) ==
  /\ closes[o][c] = "final"
  /\ IF Unconfirmed(o)
       THEN CloserGoes(o, c, IF c = "start" THEN "kept" ELSE "none") /\ UNCHANGED shell
       ELSE CloserGoes(o, c, "remove") /\ shell' = [shell EXCEPT ![o].lease = FALSE]
  /\ UNCHANGED <<start, table, shellGate>>
\* A slip: whatever has the identifier is removed.
RemoveNamed(o) == TRUE
RemoveSelf(o) == table[start[o].id] = o
RemoveSession(o, c) ==
  /\ closes[o][c] = "remove"
  /\ table' = IF RemoveSelf(o) THEN [table EXCEPT ![start[o].id] = 0] ELSE table
  /\ CloserGoes(o, c, "none")
  /\ UNCHANGED <<start, shell, shellGate>>

\* The reader sees the end of the process, or fails.
ReaderEnds(o) ==
  /\ closes[o]["reader"] = "reading" /\ CloserGoes(o, "reader", "mark")
  /\ UNCHANGED <<start, shell, table, shellGate>>
\* kill_shell, which may be repeated.
HostKills(o) ==
  /\ shellGate = "open" /\ Registered(o) /\ closes[o]["kill"] = "none"
  /\ CloserGoes(o, "kill", "mark")
  /\ UNCHANGED <<start, shell, table, shellGate>>
\* list_shells, a start, and whoever looks for a shell that is dead.
Reap(o) == ~ProcAlive(o) /\ HostKills(o)
\* open_raw_attachment and close_sync; a subscriber that overflows is finished too.
\* A slip: the session is not looked at again.
Listed(o) == Registered(o)
Attachable(o) == Registered(o) /\ ~shell[o].closing /\ ProcAlive(o)
Subscribe(o) ==
  /\ shellGate = "open" /\ Attachable(o) /\ ~shell[o].sub
  /\ shell' = [shell EXCEPT ![o].sub = TRUE]
  /\ UNCHANGED <<start, closes, table, shellGate>>
Unsubscribe(o) ==
  /\ shell[o].sub /\ shell' = [shell EXCEPT ![o].sub = FALSE]
  /\ UNCHANGED <<start, closes, table, shellGate>>
\* authoritative_shell_ids, of any server process: the locks that cannot be taken.
Authoritative == {start[o].id : o \in {q \in ShellStarts : shell[q].lease}}
\* External: the process ends by itself.
ProcExits(o) ==
  /\ ProcAlive(o) /\ shell' = [shell EXCEPT ![o].proc = "dead"]
  /\ UNCHANGED <<start, closes, table, shellGate>>

--------------------------------------------------------------------------------
\* A caller gives up its start.
CancelStart(o) ==
  /\ Underway(o) /\ ~start[o].cancel
  /\ start' = [start EXCEPT ![o].cancel = TRUE]
  /\ UNCHANGED <<shell, closes, table, shellGate>>
\* stop_admission and aclose: operations are cancelled and waited for, and the sessions
\* that are left are closed in threads.
StopShells ==
  /\ shellGate = "open" /\ shellGate' = "stopped"
  /\ UNCHANGED <<start, shell, closes, table>>
CloseShells ==
  /\ shellGate \in {"open", "stopped"} /\ shellGate' = "draining"
  /\ start' = [o \in ShellStarts |->
                IF Underway(o) THEN [start[o] EXCEPT !.cancel = TRUE] ELSE start[o]]
  /\ UNCHANGED <<shell, closes, table>>
ShellsDrained ==
  /\ shellGate = "draining" /\ \A o \in ShellStarts : ~Underway(o)
  /\ shellGate' = "closing"
  /\ closes' = [o \in ShellStarts |->
       [closes[o] EXCEPT !["registry"] = IF Registered(o) THEN "mark" ELSE @]]
  /\ UNCHANGED <<start, shell, table>>
ShellsClosed ==
  /\ shellGate = "closing" /\ \A o \in ShellStarts : closes[o]["registry"] = "none"
  /\ shellGate' = "closed" /\ UNCHANGED <<start, shell, closes, table>>

StartStep(o) ==
  \/ CheckTable(o) \/ LockLease(o) \/ MissLease(o) \/ Spawned(o) \/ SpawnFails(o)
  \/ EnterTable(o) \/ StartUndone(o)
CloserStep(o, c) ==
  Mark(o, c) \/ StopProcess(o, c) \/ Finalize(o, c) \/ RemoveSession(o, c)
ConPtyNext ==
  \/ \E o \in ShellStarts :
       \/ \E i \in ShellIds : BeginStart(o, i)
       \/ StartStep(o) \/ StartLeft(o) \/ ReaderEnds(o) \/ HostKills(o) \/ Reap(o)
       \/ Subscribe(o) \/ Unsubscribe(o) \/ ProcExits(o) \/ CancelStart(o)
       \/ \E c \in Closers : CloserStep(o, c)
  \/ StopShells \/ CloseShells \/ ShellsDrained \/ ShellsClosed
\* What is under way by itself: a reader sees that its process is gone.
ReaderSees(o) == ~ProcAlive(o) /\ ReaderEnds(o)

ConPtySpec == ConPtyInit /\ [][ConPtyNext]_cpVars

--------------------------------------------------------------------------------
\* A shell that lives has its lease, so that no other server process takes it for dead,
\* whichever of its closes fail.
LeaseCoversProcess ==
  \A o \in ShellStarts : ProcAlive(o) => shell[o].lease /\ start[o].id \in Authoritative
\* A lease, and so a live process, is that of a registered session or of a start or a
\* close that is under way; but a start that the close of the registry overtook leaves
\* its own behind.
Busy(o) == Underway(o) \/ \E c \in Closers : closes[o][c] \notin {"none", "kept", "reading"}
NoneForgotten ==
  \A o \in ShellStarts :
    /\ shell[o].lease => Registered(o) \/ Busy(o) \/ StartAt(o, "overtaken")
    /\ StartAt(o, "overtaken") => shellGate # "open"
\* A start that fails without a word of doubt has left no process: its caller gives up
\* the reservation of the shell.
FailureIsTrue == \A o \in ShellStarts : StartAt(o, "failed") => ~ProcAlive(o)
\* A subscriber of a session that is closing has been finished: its bridge sees the end.
StreamsEnd == \A o \in ShellStarts : shell[o].closing => ~shell[o].sub
\* After the close of the registry whatever still runs was asked to end, but for the
\* start that was overtaken.
AskedToEnd ==
  \A o \in ShellStarts : shellGate = "closed" /\ ProcAlive(o) =>
    shell[o].closing \/ StartAt(o, "overtaken")

\* Every start ends, and so does the close of the registry; no reader is left with a
\* process that is gone.
ConPtyAtRest ==
  /\ shellGate \notin {"draining", "closing"}
  /\ \A o \in ShellStarts : /\ ~Underway(o)
                        /\ closes[o]["reader"] = "reading" => ProcAlive(o)

ConPtySound ==
  LeaseCoversProcess /\ NoneForgotten /\ FailureIsTrue /\ StreamsEnd /\ AskedToEnd
================================================================================
