------------------------------- MODULE MCSafety -------------------------------
(*****************************************************************************)
(* Parts of a server that share no state, checked in one run: a behaviour is *)
(* one of a single part, with the others at rest.                            *)
(*****************************************************************************)
EXTENDS ShellJobs, MCFileEdits, BoundedRunner, LaunchdRunner, PathLocks, TerminalBridges,
        Downloads, ControllerRuntime, AgentCredentials, TLC

VARIABLE which

runVars == <<run, walk, kq>>
launchVars == <<ld, child, scan>>
hostVars == <<vars, feVars, proc, host, runVars, launchVars>>
safetyVars == <<vars, feVars, proc, host, runVars, launchVars, plVars, tbVars, dlVars,
                crVars, acVars, which>>

\* Every caller of jobs asks a server process of its own.
OwnServer == [c \in Callers |-> c]

\* Two threads of one process and one of another; the first two files lock the
\* shards in the other order.
MCProcesses == (1 :> 1) @@ (2 :> 1) @@ (3 :> 2)
MCShards == (1 :> 2) @@ (2 :> 1) @@ (3 :> 3)

AtRest == child = [at |-> "none", coalition |-> "own", started |-> FALSE, status |-> "none"]

SafetyInit ==
  /\ Init /\ EditsInit /\ TreeInit /\ BrStart /\ LdStart /\ LocksInit /\ BridgesInit
  /\ DownloadsInit /\ ControllerInit /\ CredInit
  /\ \/ which \in {"jobs", "edits", "locks", "bridges", "downloads", "controller",
                    "credentials"}
        /\ host = "linux" /\ AtRest
     \/ which = "runner" /\ BrInit /\ AtRest
     \/ which = "launchd" /\ LdInit
  /\ which # "credentials" => creds = EmptyStore

othersOfHost == <<plVars, tbVars, dlVars, crVars, acVars, which>>
SafetyNext ==
  \/ /\ which = "jobs" /\ Next
     /\ UNCHANGED <<feVars, proc, host, runVars, launchVars, othersOfHost>>
  \/ /\ which = "edits" /\ EditsNext
     /\ UNCHANGED <<vars, proc, host, runVars, launchVars, othersOfHost>>
  \/ /\ which = "runner" /\ BrNext
     /\ UNCHANGED <<vars, feVars, launchVars, othersOfHost>>
  \/ /\ which = "launchd" /\ LdNext
     /\ UNCHANGED <<vars, feVars, runVars, othersOfHost>>
  \/ /\ which = "locks" /\ LocksNext
     /\ UNCHANGED <<hostVars, tbVars, dlVars, crVars, acVars, which>>
  \/ /\ which = "bridges" /\ BridgesNext
     /\ UNCHANGED <<hostVars, plVars, dlVars, crVars, acVars, which>>
  \/ /\ which = "downloads" /\ DownloadsNext
     /\ UNCHANGED <<hostVars, plVars, tbVars, crVars, acVars, which>>
  \/ /\ which = "controller" /\ ControllerNext
     /\ UNCHANGED <<hostVars, plVars, tbVars, dlVars, acVars, which>>
  \/ /\ which = "credentials" /\ CredNext
     /\ UNCHANGED <<hostVars, plVars, tbVars, dlVars, crVars, which>>

SafetySpec == SafetyInit /\ [][SafetyNext]_safetyVars
===============================================================================
