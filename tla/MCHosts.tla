------------------------------- MODULE MCHosts -------------------------------
(*****************************************************************************)
(* What concerns the hosts of the workers and the Human UI, in one run: a    *)
(* behaviour is one of a copy between sessions, of the installation of       *)
(* workers and their native service on a host, of the terminal connections,  *)
(* or of the Files page, with the others at rest.                            *)
(*****************************************************************************)
EXTENDS MCSessionCopy, WorkerService, TerminalSockets, RemoteFiles, TLC

VARIABLE which

HostSymmetries == Permutations(WorkerProfiles)

HostsInit ==
  /\ Init /\ ServiceInit /\ SocketsInit /\ FilesInit
  /\ which \in {"copy", "installation", "sockets", "files"}
  /\ which # "installation" => hostManager = "none"
  /\ which # "copy" => mode = CHOOSE m \in Modes : TRUE
  /\ which # "sockets" => ~remote

HostsNext ==
  \/ which = "copy" /\ Next /\ UNCHANGED <<wsVars, tsVars, rfVars, which>>
  \/ which = "installation" /\ ServiceNext /\ UNCHANGED <<vars, tsVars, rfVars, which>>
  \/ which = "sockets" /\ SocketsNext /\ UNCHANGED <<vars, wsVars, rfVars, which>>
  \/ which = "files" /\ FilesNext /\ UNCHANGED <<vars, wsVars, tsVars, which>>

HostsSpec == HostsInit /\ [][HostsNext]_<<vars, wsVars, tsVars, rfVars, which>>
===============================================================================
