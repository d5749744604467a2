------------------------------ MODULE WorkerService ------------------------------
(*****************************************************************************)
(* The remote worker on its own machine (remote_worker/): the lock that keeps *)
(* one process per profile, also over the replacement of the process by a    *)
(* newer runtime; the installation of runtimes; the native user service, its *)
(* launcher and the commands that change them. Processes are killed and      *)
(* commands fail or are interrupted between any two steps.                   *)
(*****************************************************************************)
EXTENDS Naturals, FiniteSets

CONSTANTS WorkerProfiles,      \* profiles, enrolled with the first runtime
          MaxWorkerProcs,      \* bound on the processes that live at a time
          MaxDigests,          \* runtimes that the controller offers, one after the other
          MaxCommands,         \* bound on service commands
          MaxTroubles          \* bound on failures, deaths and interrupts

ASSUME WorkerServiceAssumption ==
  /\ 0 \notin WorkerProfiles
  /\ {MaxWorkerProcs, MaxDigests} \subseteq Nat \ {0}
  /\ {MaxCommands, MaxTroubles} \subseteq Nat

WorkerProcs == 1..MaxWorkerProcs
Digests == 1..MaxDigests
Command == MaxWorkerProcs + 1          \* the command, as an installer

VARIABLES
  hostManager,  \* whether the host has systemd or launchd, or none (Windows)
  runtimes,     \* [Digests -> none, bare (without environment or metadata), whole]
  aside,        \* the runtime that an installer has moved away
  install,      \* who holds install.lock, for which runtime, and how far it is
  profileOf,    \* profile.json: [WorkerProfiles -> Digests]
  launcher,     \* worker-launcher.py: the profile and the runtime that it starts
  svc,          \* the unit, and the state that the manager keeps of the service
  process,       \* [WorkerProcs -> process]
  runLock,      \* worker.lock: [WorkerProfiles -> process, or 0]
  wanted,       \* the runtime of the controller
  command,
  troubles,
  cut           \* history: runtimes whose installation was killed or interrupted
wsVars == <<hostManager, runtimes, aside, install, profileOf, launcher, svc, process, runLock,
            wanted, command, troubles, cut>>
diskVars == <<runtimes, aside, install, cut>>

NoWorkerProc == [at |-> "none", profile |-> 0, digest |-> 0, managed |-> FALSE, service |-> FALSE]
NoInstall == [by |-> 0, digest |-> 0, force |-> FALSE, pc |-> "none"]
NoCommand == [pc |-> "none", op |-> "none", profile |-> 0, flag |-> FALSE, digest |-> 0,
              ran |-> FALSE, changed |-> FALSE, count |-> 0]
NoLauncher == [profile |-> 0, digest |-> 0]

ServiceInit ==
  /\ hostManager \in {"native", "none"}
  /\ runtimes = [d \in Digests |-> IF d = 1 THEN "whole" ELSE "none"]
  /\ aside = "none" /\ install = NoInstall
  /\ profileOf = [p \in WorkerProfiles |-> 1]
  /\ \E p \in WorkerProfiles \cup {0} :
       /\ hostManager = "none" => p = 0
       /\ launcher = IF p = 0 THEN NoLauncher ELSE [profile |-> p, digest |-> 1]
       /\ svc = [unit |-> p, on |-> p # 0, proc |-> 0]
  /\ process = [w \in WorkerProcs |-> NoWorkerProc]
  /\ runLock = [p \in WorkerProfiles |-> 0]
  /\ wanted = 1 /\ command = NoCommand /\ troubles = 0 /\ cut = {}

ProcIs(w, at) == process[w].at = at
ProcGoes(w, at) == process' = [process EXCEPT ![w].at = at]
Trouble == troubles < MaxTroubles /\ troubles' = troubles + 1
\* Slots are alike: a new process takes the first free one.
FreeSlot(w) == ProcIs(w, "none") /\ \A n \in WorkerProcs : n < w => ~ProcIs(n, "none")

--------------------------------------------------------------------------------
\* What is left when processes die: locks are released, files stay as they are.
Without(dead) == [p \in WorkerProfiles |-> IF runLock[p] \in dead THEN 0 ELSE runLock[p]]
Killed(dead) ==
  /\ process' = [w \in WorkerProcs |-> IF w \in dead THEN NoWorkerProc ELSE process[w]]
  /\ runLock' = Without(dead)
  /\ IF install.by \in dead
       THEN /\ install' = NoInstall /\ aside' = "none"
            /\ cut' = IF install.pc = "locked" THEN cut ELSE cut \cup {install.digest}
       ELSE UNCHANGED <<install, aside, cut>>
ServiceProc == IF svc.proc = 0 THEN {} ELSE {svc.proc}

--------------------------------------------------------------------------------
\* A process is started with its profile: by hand, by the launcher of the profiles,
\* which marks it as managed too, or by the manager of the service.
StartByHand(w, p, marked) ==
  /\ FreeSlot(w)
  /\ process' = [process EXCEPT ![w] = [at |-> "locking", profile |-> p, digest |-> profileOf[p],
                                      managed |-> marked, service |-> FALSE]]
  /\ runtimes[profileOf[p]] = "whole"
  /\ UNCHANGED <<hostManager, diskVars, profileOf, launcher, svc, runLock, wanted, command, troubles>>
StartService(w) ==
  /\ svc.on /\ svc.proc = 0 /\ FreeSlot(w)
  /\ launcher.digest # 0 /\ runtimes[launcher.digest] = "whole"
  /\ process' = [process EXCEPT ![w] = [at |-> "locking", profile |-> launcher.profile,
                       digest |-> launcher.digest, managed |-> TRUE, service |-> TRUE]]
  /\ svc' = [svc EXCEPT !.proc = w]
  /\ UNCHANGED <<hostManager, diskVars, profileOf, launcher, runLock, wanted, command, troubles>>

\* worker_run_lock: taken, or else waited for by a managed process and by the heir of a
\* process of Windows; another ends. On its way the process enrolls or resumes.
TakeRunLock(w) ==
  LET p == process[w].profile IN
  /\ process[w].at \in {"locking", "heir"} /\ runLock[p] = 0
  /\ runLock' = [runLock EXCEPT ![p] = w] /\ ProcGoes(w, "working")
  /\ UNCHANGED <<hostManager, diskVars, profileOf, launcher, svc, wanted, command, troubles>>
AlreadyRunning(w) ==
  /\ ProcIs(w, "locking") /\ runLock[process[w].profile] # 0 /\ ~process[w].managed
  /\ Killed({w})
  /\ UNCHANGED <<hostManager, runtimes, profileOf, launcher, svc, wanted, command, troubles>>

\* The process is killed; the manager starts a service again.
WorkerDies(w) ==
  /\ ~ProcIs(w, "none") /\ Trouble /\ Killed({w})
  /\ svc' = [svc EXCEPT !.proc = IF @ = w THEN 0 ELSE @]
  /\ UNCHANGED <<hostManager, runtimes, profileOf, launcher, wanted, command>>

--------------------------------------------------------------------------------
\* install_runtime, for process or command a: what is whole is kept, unless forced ...
BeginInstall(a, d, forced) ==
  /\ install.by = 0
  /\ install' = [by |-> a, digest |-> d, force |-> forced, pc |-> "locked"]
Skips == install.pc = "locked" /\ runtimes[install.digest] = "whole" /\ ~install.force
\* ... else the bundle is fetched; the old runtime is moved away, the new one is put in
\* its place and gets its environment and its metadata.
MoveAway ==
  /\ install.pc = "locked" /\ ~Skips
  /\ aside' = runtimes[install.digest]
  /\ runtimes' = [runtimes EXCEPT ![install.digest] = "none"]
  /\ install' = [install EXCEPT !.pc = "moved"]
  /\ UNCHANGED cut
PutInPlace ==
  /\ install.pc = "moved"
  /\ runtimes' = [runtimes EXCEPT ![install.digest] = "bare"]
  /\ install' = [install EXCEPT !.pc = "placed"]
  /\ UNCHANGED <<aside, cut>>
InstallMoves ==
  /\ MoveAway \/ PutInPlace
  /\ UNCHANGED <<hostManager, profileOf, launcher, svc, process, runLock, wanted, command, troubles>>
\* Its end: with nothing to do, with a runtime that is whole, or with the old one again.
Installed == Skips \/ install.pc = "placed"
EndInstall ==
  /\ Installed /\ install' = NoInstall /\ aside' = "none"
  /\ runtimes' = [runtimes EXCEPT ![install.digest] = "whole"]
  /\ cut' = cut \ {install.digest}
\* A slip: what was moved away is not moved back.
Lost == IF install.pc = "locked" THEN runtimes ELSE [runtimes EXCEPT ![install.digest] = "none"]
RolledBack ==
  IF install.pc = "locked" THEN runtimes ELSE [runtimes EXCEPT ![install.digest] = aside]
FailInstall ==
  /\ Trouble /\ runtimes' = RolledBack /\ install' = NoInstall /\ aside' = "none"
  /\ UNCHANGED cut

--------------------------------------------------------------------------------
\* The controller requires its runtime: _install_and_reexec_worker.
BeginUpgrade(w) ==
  /\ ProcIs(w, "working") /\ process[w].digest # wanted
  /\ BeginInstall(w, wanted, FALSE) /\ ProcGoes(w, "installing")
  /\ UNCHANGED <<hostManager, runtimes, aside, cut, profileOf, launcher, svc, runLock, wanted,
                 command, troubles>>
\* The profile names the runtime before the launcher does.
EndUpgrade(w) ==
  /\ install.by = w /\ EndInstall
  /\ profileOf' = [profileOf EXCEPT ![process[w].profile] = install.digest]
  /\ process' = [process EXCEPT ![w].at = "installed", ![w].digest = install.digest]
  /\ UNCHANGED <<hostManager, launcher, svc, runLock, wanted, command, troubles>>
UpgradeFails(w) ==
  /\ install.by = w /\ FailInstall /\ ProcGoes(w, "working")
  /\ UNCHANGED <<hostManager, profileOf, launcher, svc, runLock, wanted, command>>
BindLauncher(w) ==
  /\ ProcIs(w, "installed")
  /\ IF process[w].managed
       THEN launcher' = [profile |-> process[w].profile, digest |-> process[w].digest]
       ELSE UNCHANGED launcher
  /\ ProcGoes(w, "replacing")
  /\ UNCHANGED <<hostManager, diskVars, profileOf, svc, runLock, wanted, command, troubles>>

\* reexec_worker: exec, in the same process and with its lock, or, on Windows, an heir
\* that is given the handle but waits until its parent has gone.
HeirIsLocked == "working"
HeirStarts == "heir"
Reexec(w) ==
  /\ ProcIs(w, "replacing") /\ runtimes[process[w].digest] = "whole"
  /\ IF hostManager = "none"
       THEN \E heir \in WorkerProcs :
              /\ FreeSlot(heir)
              /\ process' = [process EXCEPT ![heir] = [process[w] EXCEPT !.at = HeirStarts],
                                          ![w].at = "leaving"]
       ELSE ProcGoes(w, "working")
  /\ UNCHANGED <<hostManager, diskVars, profileOf, launcher, svc, runLock, wanted, command, troubles>>
\* The replacement fails: the old code goes on, and will ask for the runtime again.
ReexecFails(w) ==
  /\ ProcIs(w, "replacing")
  /\ \/ Trouble
     \/ runtimes[process[w].digest] # "whole" /\ UNCHANGED troubles
  /\ process' = [process EXCEPT ![w].at = "working", ![w].digest = 0]
  /\ UNCHANGED <<hostManager, diskVars, profileOf, launcher, svc, runLock, wanted, command>>
ParentLeaves(w) ==
  /\ ProcIs(w, "leaving") /\ Killed({w})
  /\ UNCHANGED <<hostManager, runtimes, profileOf, launcher, svc, wanted, command, troubles>>

--------------------------------------------------------------------------------
\* The service commands run one after the other. Each may be interrupted, or one of the
\* manager's commands in it fails, between any two of its steps.
CommandIs(pc) == command.pc = pc
BeginCommand(op, p, flag, pc) ==
  /\ CommandIs("none") /\ command.count < MaxCommands /\ hostManager # "none"
  /\ command' = [pc |-> pc, op |-> op, profile |-> p, flag |-> flag, digest |-> profileOf[p],
                 ran |-> svc.proc # 0, changed |-> FALSE, count |-> command.count + 1]
EndsCommand(c) == [NoCommand EXCEPT !.count = c.count]

\* install_service: flag says that the service is to be started ...
BeginServiceInstall(p, start) ==
  /\ BeginCommand("install", p, start, "launcher") /\ runtimes[profileOf[p]] = "whole"
  /\ UNCHANGED <<hostManager, diskVars, profileOf, launcher, svc, process, runLock, wanted, troubles>>
\* ... and update: flag says that the runtime is installed again if it is there.
BeginUpdate(p, forced) ==
  /\ BeginCommand("update", p, forced, "fetch")
  /\ UNCHANGED <<hostManager, diskVars, profileOf, launcher, svc, process, runLock, wanted, troubles>>
LockInstall ==
  /\ CommandIs("fetch") /\ BeginInstall(Command, wanted, command.flag)
  /\ command' = [command EXCEPT !.pc = "installing", !.digest = wanted]
  /\ UNCHANGED <<hostManager, runtimes, aside, cut, profileOf, launcher, svc, process, runLock,
                 wanted, troubles>>
EndUpdateInstall ==
  /\ install.by = Command /\ EndInstall
  /\ profileOf' = [profileOf EXCEPT ![command.profile] = install.digest]
  /\ command' = [command EXCEPT !.pc = IF svc.unit = 0 THEN "restart" ELSE "launcher",
                                !.changed = ~Skips]
  /\ UNCHANGED <<hostManager, launcher, svc, process, runLock, wanted, troubles>>
UpdateFails ==
  /\ install.by = Command /\ FailInstall /\ command' = EndsCommand(command)
  /\ UNCHANGED <<hostManager, profileOf, launcher, svc, process, runLock, wanted>>

\* ensure_launcher, then the unit or the plist: written when their content changes.
WriteLauncher ==
  LET new == [profile |-> command.profile, digest |-> command.digest] IN
  /\ CommandIs("launcher") /\ launcher' = new
  /\ command' = [command EXCEPT !.pc = "unit", !.changed = @ \/ launcher # new]
  /\ UNCHANGED <<hostManager, diskVars, profileOf, svc, process, runLock, wanted, troubles>>
WriteUnit ==
  /\ CommandIs("unit") /\ svc' = [svc EXCEPT !.unit = command.profile]
  /\ command' = [command EXCEPT !.pc = IF command.op = "update" THEN "restart" ELSE "enable",
                                !.changed = @ \/ svc.unit # command.profile]
  /\ UNCHANGED <<hostManager, diskVars, profileOf, launcher, process, runLock, wanted, troubles>>
\* enable --now, or the start of launchd, which has looked again whether the service
\* runs: what runs already is left alone ...
EnableService ==
  /\ CommandIs("enable")
  /\ svc' = [svc EXCEPT !.on = @ \/ command.flag]
  /\ \E ran \in {command.ran, svc.proc # 0} :
       command' = [command EXCEPT !.pc = "restart", !.ran = ran]
  /\ UNCHANGED <<hostManager, diskVars, profileOf, launcher, process, runLock, wanted, troubles>>
\* ... and then restarted if it ran and something has changed.
RestartService ==
  /\ CommandIs("restart")
  /\ IF command.ran /\ command.changed /\ (command.op = "update" => svc.unit # 0)
                    /\ (command.op = "install" => command.flag)
       THEN Killed(ServiceProc) /\ svc' = [svc EXCEPT !.on = TRUE, !.proc = 0]
       ELSE UNCHANGED <<svc, process, runLock, install, aside, cut>>
  /\ command' = EndsCommand(command)
  /\ UNCHANGED <<hostManager, runtimes, profileOf, launcher, wanted, troubles>>

\* start_service, restart_service, stop_service, uninstall_service.
Mutate(on, restarts, removes) ==
  /\ svc.unit # 0 /\ CommandIs("none") /\ command.count < MaxCommands
  /\ command' = [command EXCEPT !.count = @ + 1]
  /\ IF on /\ ~restarts
       THEN svc' = [svc EXCEPT !.on = TRUE] /\ UNCHANGED <<process, runLock, install, aside, cut>>
       ELSE /\ Killed(ServiceProc)
            /\ svc' = [unit |-> IF removes THEN 0 ELSE svc.unit, on |-> on, proc |-> 0]
  /\ UNCHANGED <<hostManager, runtimes, profileOf, launcher, wanted, troubles>>
MutateService ==
  \/ Mutate(TRUE, FALSE, FALSE) \/ Mutate(TRUE, TRUE, FALSE)
  \/ Mutate(FALSE, FALSE, FALSE) \/ Mutate(FALSE, FALSE, TRUE)

\* A manager's command fails, or the command is interrupted or killed. An interrupted
\* installation removes what it had moved away.
CommandCut ==
  /\ ~CommandIs("none") /\ Trouble /\ Killed({Command})
  /\ command' = EndsCommand(command)
  /\ UNCHANGED <<hostManager, runtimes, profileOf, launcher, svc, wanted>>

NewRelease ==
  /\ wanted < MaxDigests /\ wanted' = wanted + 1
  /\ UNCHANGED <<hostManager, diskVars, profileOf, launcher, svc, process, runLock, command, troubles>>

InstallStep ==
  \/ InstallMoves \/ LockInstall \/ EndUpdateInstall
  \/ \E w \in WorkerProcs : EndUpgrade(w)
CommandStep == WriteLauncher \/ WriteUnit \/ EnableService \/ RestartService
ProcStep(w) ==
  \/ StartService(w) \/ TakeRunLock(w) \/ AlreadyRunning(w)
  \/ BeginUpgrade(w) \/ BindLauncher(w) \/ Reexec(w) \/ ReexecFails(w) \/ ParentLeaves(w)

ServiceNext ==
  \/ \E w \in WorkerProcs :
       \/ \E p \in WorkerProfiles, marked \in BOOLEAN : StartByHand(w, p, marked)
       \/ ProcStep(w) \/ WorkerDies(w) \/ UpgradeFails(w)
  \/ \E p \in WorkerProfiles, flag \in BOOLEAN : BeginServiceInstall(p, flag) \/ BeginUpdate(p, flag)
  \/ InstallStep \/ UpdateFails \/ CommandStep \/ MutateService \/ CommandCut \/ NewRelease

ServiceSpec == ServiceInit /\ [][ServiceNext]_wsVars

--------------------------------------------------------------------------------
WsTypeOK ==
  /\ svc.unit \in WorkerProfiles \cup {0} /\ svc.proc \in WorkerProcs \cup {0}
  /\ install.by \in WorkerProcs \cup {0, Command} /\ wanted \in Digests
  /\ \A p \in WorkerProfiles : runLock[p] \in WorkerProcs \cup {0} /\ profileOf[p] \in Digests

\* Past its start a process holds the lock of its profile: two never serve one profile,
\* whichever is started by hand, by the service or by the replacement of another, and
\* whatever is killed on the way (docs/security.md:211).
OneWorker ==
  /\ \A w \in WorkerProcs : process[w].at \notin {"none", "locking", "heir"} =>
       runLock[process[w].profile] = w
  /\ svc.proc # 0 => process[svc.proc].service

\* A runtime that a profile or the launcher of the service names is there, unless it is
\* being installed again or that was killed or interrupted: a failure restores the old
\* one, and nothing names a runtime before it is whole.
Named == {profileOf[p] : p \in WorkerProfiles} \cup ({launcher.digest} \ {0})
RuntimesKept ==
  \A d \in Named : \/ runtimes[d] = "whole" \/ d \in cut
                   \/ install.by # 0 /\ install.digest = d

WorkerServiceSound == WsTypeOK /\ OneWorker /\ RuntimesKept
===================================================================================
