------------------------------ MODULE MCProgress ------------------------------
(*****************************************************************************)
(* What must come to an end, in one run: a behaviour is one of a single part *)
(* of the server, with the others at rest.                                   *)
(*****************************************************************************)
EXTENDS MCSessionCopy, DirectoryCopy, Sessions, OAuth, PathLocks, TerminalBridges,
        AgentWorkers, TerminalSockets, McpSessions, ConPtyShells, TLC

VARIABLE which

coreVars == <<vars, dirVars, sessVars, oaVars, plVars, tbVars, awVars>>
liveVars == <<tsVars, msVars, cpVars>>
progressVars == <<coreVars, liveVars, which>>

\* Two threads of one process and one of another; the first two files lock the
\* shards in the other order.
MCProcesses == (1 :> 1) @@ (2 :> 1) @@ (3 :> 2)
MCShards == (1 :> 2) @@ (2 :> 1) @@ (3 :> 3)

OfFile(A) ==
  /\ which = "file" /\ A
  /\ UNCHANGED <<dirVars, sessVars, oaVars, plVars, tbVars, awVars, liveVars, which>>
OfDirectory(A) ==
  /\ which = "directory" /\ A
  /\ UNCHANGED <<vars, sessVars, oaVars, plVars, tbVars, awVars, liveVars, which>>
OfSessions(A) ==
  /\ which = "sessions" /\ A
  /\ UNCHANGED <<vars, dirVars, oaVars, plVars, tbVars, awVars, liveVars, which>>
OfOAuth(A) ==
  /\ which = "oauth" /\ A
  /\ UNCHANGED <<vars, dirVars, sessVars, plVars, tbVars, awVars, liveVars, which>>
OfLocks(A) ==
  /\ which = "locks" /\ A
  /\ UNCHANGED <<vars, dirVars, sessVars, oaVars, tbVars, awVars, liveVars, which>>
OfBridges(A) ==
  /\ which = "bridges" /\ A
  /\ UNCHANGED <<vars, dirVars, sessVars, oaVars, plVars, awVars, liveVars, which>>
OfAgents(A) ==
  /\ which = "agents" /\ A
  /\ UNCHANGED <<vars, dirVars, sessVars, oaVars, plVars, tbVars, liveVars, which>>
OfSockets(A) == which = "sockets" /\ A /\ UNCHANGED <<coreVars, msVars, cpVars, which>>
OfMcp(A) == which = "mcp" /\ A /\ UNCHANGED <<coreVars, tsVars, cpVars, which>>
OfShells(A) == which = "shells" /\ A /\ UNCHANGED <<coreVars, tsVars, msVars, which>>

ProgressInit ==
  /\ Init /\ DirInit /\ SessInit /\ OAuthInit /\ LocksInit /\ BridgesInit /\ AgentInit
  /\ SocketsInit /\ McpInit /\ ConPtyInit
  /\ which \in {"file", "directory", "sessions", "oauth", "locks", "bridges", "agents",
               "sockets", "mcp", "shells"}
  /\ which # "file" => mode = CHOOSE m \in Modes : TRUE
  /\ which # "directory" => ~dir.overwrite /\ tree = "none"
  /\ which # "sessions" => drawn = {}
  /\ which # "sockets" => ~remote

ProgressNext ==
  \/ OfFile(Next) \/ OfDirectory(DirNext) \/ OfSessions(SessNext) \/ OfOAuth(OAuthNext)
  \/ OfLocks(LocksNext) \/ OfBridges(BridgesNext) \/ OfAgents(AgentNext)
  \/ OfSockets(SocketsNext) \/ OfMcp(McpNext) \/ OfShells(ConPtyNext)

ProgressSpec ==
  /\ ProgressInit /\ [][ProgressNext]_progressVars
  /\ WF_progressVars(OfFile(GateProgress))
  /\ WF_progressVars(OfFile(CopyStep))
  /\ WF_progressVars(OfFile(ClientStep))
  /\ WF_progressVars(OfFile(WorkerLost /\ CallTimesOut))
  /\ WF_progressVars(OfDirectory(DirStep))
  /\ WF_progressVars(OfDirectory(UnpackStep))
  /\ \A p \in Procs : WF_progressVars(OfSessions(SessStep(p)))
  /\ WF_progressVars(OfOAuth(CloseStep))
  /\ \A a \in Callers : WF_progressVars(OfOAuth(RequestStep(a)))
  /\ \A t \in Threads : WF_progressVars(OfLocks(LockStep(t)))
  /\ \A o \in BridgeOps : /\ WF_progressVars(OfBridges(TaskStep(o)))
                          /\ WF_progressVars(OfBridges(ThreadStep(o)))
                          /\ WF_progressVars(OfBridges(TimerStep(o)))
  /\ WF_progressVars(OfBridges(CloseRegistry))
  /\ \A c \in AgentCalls : /\ WF_progressVars(OfAgents(AgentCallStep(c)))
                            /\ WF_progressVars(OfAgents(AgentAnswerStep(c)))
                            /\ WF_progressVars(OfAgents(AgentLoopStep(c)))
                            /\ WF_progressVars(OfAgents(AgentStartStep(c)))
  /\ WF_progressVars(OfSockets(SocketsDrained))
  /\ \A s \in Sockets : /\ WF_progressVars(OfSockets(ConnectionStep(s)))
                         /\ WF_progressVars(OfSockets(SenderEnds(s)))
                         /\ WF_progressVars(OfSockets(ClientEnds(s)))
  /\ \A p \in Posts : WF_progressVars(OfMcp(PostStep(p)))
  /\ WF_progressVars(OfShells(ShellsDrained)) /\ WF_progressVars(OfShells(ShellsClosed))
  /\ \A o \in ShellStarts : /\ WF_progressVars(OfShells(StartStep(o)))
                        /\ WF_progressVars(OfShells(ReaderSees(o)))
                        /\ \A c \in Closers : WF_progressVars(OfShells(CloserStep(o, c)))

\* Whatever is lost or fails, every copy of a file and of a directory ends, and an
\* unpacking leaves no staging directory unless its process died or removing it failed. Every operation on
\* sessions and shells ends: pruning under the registry, teardown under the lease and
\* admission under several transactions never wait for each other in a circle. So do
\* the OAuth requests and the close, which nest two locks, and every wait for the
\* paths and the lock files of a change, and the operations on terminal bridges; a
\* bridge that nobody uses is closed. So do the calls of agent servers, and the threads
\* that were asked to. A terminal connection that is refused, cancelled or without its
\* shell ends and leaves no raw client; so does a request that may create a session, the
\* start of a Windows shell, and the close of either registry. The operations of a behaviour are bounded,
\* so that each of them ends exactly if all are at rest again and again.
AllAtRest ==
  /\ copy.verdict # "running"
  /\ which = "directory" =>
       dir.pc = "end" /\ (unpack = "dead" \/ staging = "none" \/ "staging" \in dir.missed)
  /\ \A p \in Procs : At(p, "idle")
  /\ phase # "stopping" /\ \A a \in Callers : call[a].pc = "idle"
  /\ \A t \in Threads : holds[t].pc = "rest"
  /\ BridgesAtRest /\ WorkersAtRest /\ SocketsAtRest /\ McpAtRest /\ ConPtyAtRest
EverythingEnds == []<>AllAtRest
===============================================================================
