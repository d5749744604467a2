------------------------------ MODULE AgentWorkers ------------------------------
(*****************************************************************************)
(* The agent bridge's sessions with a stdio MCP server (agent_bridge/mcp.py): *)
(* one persistent worker, a thread with an event loop and a child process,   *)
(* serves the calls of all threads; a call that fails, a reload or a change  *)
(* of the server's configuration retires it.                                 *)
(*****************************************************************************)
EXTENDS Naturals, Sequences, FiniteSets

CONSTANTS ServerConfigs,   \* configurations of the server, its secrets resolved
          MaxAgentCalls    \* bound on the calls and retirements of a behaviour

ASSUME AgentWorkersAssumption == MaxAgentCalls \in Nat \ {0}

\* The worker that a call starts has its number.
AgentCalls == 1..MaxAgentCalls
Stopper == 0               \* _request_stop, as a waiter for the operation lock

VARIABLES
  mcp,        \* [AgentCalls -> the worker]
  current,    \* _stdio_workers: the worker of the name, or 0
  barrier,    \* who holds _stdio_lifecycle_lock, or 0
  agentCall   \* [AgentCalls -> the call]
awVars == <<mcp, current, barrier, agentCall>>

\* up: _ready was set with a session. asked: _request_close_on_loop is queued.
\* line: _operation_lock, its holder first.
NewWorker(config) ==
  [at |-> "new", config |-> config, up |-> FALSE, close |-> FALSE, asked |-> FALSE, line |-> <<>>]
NoWorker == [NewWorker(0) EXCEPT !.at = "none"]
\* sent: its request went to the server while the worker was "running", or "late",
\* when a stop had had its turn.
NewCall == [pc |-> "new", worker |-> 0, config |-> 0, sent |-> "no", result |-> "none"]

AgentInit ==
  /\ current = 0 /\ barrier = 0
  /\ mcp = [w \in AgentCalls |-> NoWorker]
  /\ agentCall = [c \in AgentCalls |-> NewCall]

ThreadIs(w, phase) == w # 0 /\ mcp[w].at = phase
Living(w) == mcp[w].at \notin {"none", "closed"}
Usable(w) == ~mcp[w].close /\ Living(w)
Calls(c, pc) == agentCall[c].pc = pc
\* Calls are alike: the next that is new begins.
NextCall(c) == Calls(c, "new") /\ \A n \in AgentCalls : n < c => ~Calls(n, "new")
AgentGoes(c, pc) == agentCall' = [agentCall EXCEPT ![c].pc = pc]
Results(c, pc, r) == agentCall' = [agentCall EXCEPT ![c].pc = pc, ![c].result = r]

--------------------------------------------------------------------------------
\* request_close: the flag, and, once there is a loop, a callback.
ClosingOf(worker) ==
  [worker EXCEPT !.close = TRUE, !.asked = worker.at # "new" /\ worker.at # "closed"]
RequestClose(w) == mcp' = [mcp EXCEPT ![w] = ClosingOf(mcp[w])]

\* list_tools, call_tool: under the barrier, the worker of the name is used, started ...
Reuse(c, k) ==
  /\ NextCall(c) /\ barrier = 0
  /\ current # 0 /\ Usable(current) /\ mcp[current].config = k
  /\ agentCall' = [agentCall EXCEPT ![c].pc = "waiting", ![c].worker = current, ![c].config = k]
  /\ UNCHANGED <<mcp, current, barrier>>
StartFor(c, k) ==
  /\ mcp' = [mcp EXCEPT ![c] = NewWorker(k)]
  /\ current' = c /\ barrier' = 0
  /\ agentCall' = [agentCall EXCEPT ![c].pc = "waiting", ![c].worker = c, ![c].config = k]
StartFirst(c, k) == NextCall(c) /\ barrier = 0 /\ current = 0 /\ StartFor(c, k)
\* ... or, when it is unusable or configured otherwise, closed and then replaced.
BeginReplace(c, k) ==
  /\ NextCall(c) /\ barrier = 0 /\ current # 0
  /\ ~Usable(current) \/ mcp[current].config # k
  /\ RequestClose(current) /\ barrier' = c
  /\ agentCall' = [agentCall EXCEPT ![c].pc = "replacing", ![c].worker = current, ![c].config = k]
  /\ UNCHANGED current
\* A slip: the request to close makes way for the new worker.
JoinedWhenAsked(w) == mcp[w].close
Joined(w) == ThreadIs(w, "closed")
Replace(c) ==
  Calls(c, "replacing") /\ Joined(agentCall[c].worker) /\ StartFor(c, agentCall[c].config)

\* _wait_ready, and _run_operation: the operation goes to the loop of the worker.
Ready(w) == mcp[w].up \/ ThreadIs(w, "closed")
Post(c) ==
  LET w == agentCall[c].worker IN
  /\ Calls(c, "waiting") /\ Ready(w)
  /\ IF ThreadIs(w, "closed") THEN Results(c, "failed", "error") /\ UNCHANGED mcp
     ELSE AgentGoes(c, "posted") /\ mcp' = [mcp EXCEPT ![w].line = Append(@, c)]
  /\ UNCHANGED <<current, barrier>>
\* The caller times out or is cancelled; the loop takes its operation away later.
AgentGivesUp(c) ==
  /\ agentCall[c].pc \in {"waiting", "posted"} /\ Results(c, "failed", "gave up")
  /\ UNCHANGED <<mcp, current, barrier>>
LineWithout(line, i) == [j \in 1..Len(line) - 1 |-> line[IF j < i THEN j ELSE j + 1]]
Abandoned(c) ==
  LET w == agentCall[c].worker IN
  /\ w # 0 /\ agentCall[c].result = "gave up"
  /\ \E i \in DOMAIN mcp[w].line :
       mcp[w].line[i] = c /\ mcp' = [mcp EXCEPT ![w].line = LineWithout(@, i)]
  /\ UNCHANGED <<current, barrier, agentCall>>

\* The holder of the operation lock: its request is sent, and answered. There is a
\* session until the transports have ended, after the stop as well.
Holds(c) == LET w == agentCall[c].worker IN
            w # 0 /\ mcp[w].line # <<>> /\ Head(mcp[w].line) = c
SendRequest(c) ==
  /\ Calls(c, "posted") /\ Holds(c) /\ agentCall[c].sent = "no" /\ mcp[agentCall[c].worker].up
  /\ agentCall' = [agentCall EXCEPT ![c].sent =
       IF ThreadIs(agentCall[c].worker, "running") THEN "running" ELSE "late"]
  /\ UNCHANGED <<mcp, current, barrier>>
ServerAnswers(c) ==
  LET w == agentCall[c].worker IN
  /\ Calls(c, "posted") /\ Holds(c) /\ agentCall[c].sent # "no"
  /\ mcp' = [mcp EXCEPT ![w].line = Tail(@)]
  /\ Results(c, "end", "ok") \/ Results(c, "failed", "error")
  /\ UNCHANGED <<current, barrier>>

--------------------------------------------------------------------------------
\* _retire_stdio_worker, after a failure or, for retain_stdio_servers and close, of
\* the worker that their snapshot holds.
BeginRetire(c) ==
  /\ NextCall(c) /\ current # 0
  /\ agentCall' = [agentCall EXCEPT ![c].pc = "failed", ![c].worker = current]
  /\ UNCHANGED <<mcp, current, barrier>>
Retire(c) ==
  LET w == agentCall[c].worker IN
  /\ Calls(c, "failed") /\ barrier = 0
  /\ IF current = w
       THEN AgentGoes(c, "retiring") /\ barrier' = c /\ RequestClose(w)
       ELSE AgentGoes(c, "end") /\ UNCHANGED <<barrier, mcp>>
  /\ UNCHANGED current
Retired(c) ==
  /\ Calls(c, "retiring") /\ Joined(agentCall[c].worker)
  /\ current' = 0 /\ barrier' = 0 /\ AgentGoes(c, "end")
  /\ UNCHANGED mcp
\* close: the thread does not end within its 6 seconds; the worker stays registered.
JoinTimesOut(c) ==
  /\ agentCall[c].pc \in {"replacing", "retiring"} /\ ~ThreadIs(agentCall[c].worker, "closed")
  /\ barrier' = 0 /\ AgentGoes(c, "end")
  /\ UNCHANGED <<mcp, current>>

--------------------------------------------------------------------------------
\* The thread of the worker: _run ...
LoopRuns(w) ==
  /\ ThreadIs(w, "new")
  /\ mcp' = [mcp EXCEPT ![w].at = IF mcp[w].close THEN "retiring" ELSE "starting"]
  /\ UNCHANGED <<current, barrier, agentCall>>
\* ... the child starts and answers initialize, or does not ...
Initialized(w) ==
  /\ ThreadIs(w, "starting")
  /\ mcp' = [mcp EXCEPT ![w].at = IF mcp[w].close THEN "retiring" ELSE "running",
                        ![w].up = ~mcp[w].close]
  /\ UNCHANGED <<current, barrier, agentCall>>
StartFails(w) ==
  /\ ThreadIs(w, "starting") /\ mcp' = [mcp EXCEPT ![w].at = "retiring"]
  /\ UNCHANGED <<current, barrier, agentCall>>

\* _request_close_on_loop cancels a start, and queues for the operation lock after it.
StoppedAtOnce(worker) ==
  IF worker.at \in {"starting", "running"} THEN [worker EXCEPT !.at = "retiring"] ELSE worker
Stopped(worker) ==
  CASE worker.at = "starting" -> [worker EXCEPT !.at = "retiring"]
    [] worker.at = "running" -> [worker EXCEPT !.line = Append(@, Stopper)]
    [] OTHER -> worker
OnLoop(w) ==
  /\ mcp[w].asked /\ Living(w)
  /\ mcp' = [mcp EXCEPT ![w] = [Stopped(mcp[w]) EXCEPT !.asked = FALSE]]
  /\ UNCHANGED <<current, barrier, agentCall>>
\* The stopper's turn; another may come behind it while the transports end.
Stop(w) ==
  /\ mcp[w].at \in {"running", "retiring"} /\ mcp[w].line # <<>> /\ Head(mcp[w].line) = Stopper
  /\ mcp' = [mcp EXCEPT ![w].line = Tail(@), ![w].at = "retiring"]
  /\ UNCHANGED <<current, barrier, agentCall>>

\* ... and the end of the child and of the loop, which cuts the operations on it.
ThreadEnds(w) ==
  /\ ThreadIs(w, "retiring")
  /\ mcp' = [mcp EXCEPT ![w] = [NewWorker(@.config) EXCEPT !.at = "closed"]]
  /\ agentCall' = [c \in AgentCalls |->
       IF agentCall[c].worker = w /\ Calls(c, "posted")
         THEN [agentCall[c] EXCEPT !.pc = "failed", !.result = "cut"] ELSE agentCall[c]]
  /\ UNCHANGED <<current, barrier>>

AgentCallStep(c) ==
  \/ Replace(c) \/ Post(c) \/ Abandoned(c) \/ SendRequest(c)
  \/ Retire(c) \/ Retired(c)
AgentAnswerStep(c) == ServerAnswers(c) \/ AgentGivesUp(c)
AgentLoopStep(w) == LoopRuns(w) \/ OnLoop(w) \/ Stop(w) \/ ThreadEnds(w)
AgentStartStep(w) == Initialized(w) \/ StartFails(w)

AgentNext ==
  \E c \in AgentCalls :
    \/ \E k \in ServerConfigs : Reuse(c, k) \/ StartFirst(c, k) \/ BeginReplace(c, k)
    \/ BeginRetire(c) \/ JoinTimesOut(c)
    \/ AgentCallStep(c) \/ AgentAnswerStep(c) \/ AgentLoopStep(c) \/ AgentStartStep(c)

AgentSpec == AgentInit /\ [][AgentNext]_awVars

--------------------------------------------------------------------------------
AwTypeOK ==
  /\ current \in AgentCalls \cup {0} /\ barrier \in AgentCalls \cup {0}
  /\ \A w \in AgentCalls : \A i \in DOMAIN mcp[w].line :
       mcp[w].line[i] \in AgentCalls \cup {Stopper}

\* tests/test_agent_mcp.py:178: whoever retires or replaces a worker, and however its
\* end times out, the server's name never has two child processes, and one that
\* lives is the one that is registered.
OneProcess == \A w \in AgentCalls : Living(w) => w = current

\* A request that was under way when a stop was asked for is answered before the
\* thread ends, whichever caller's timeout, reload or change of configuration asked.
\* One that had to wait behind the stopper, or came after it, may be sent while the
\* transports end, and be cut.
GracefulStop == \A c \in AgentCalls : agentCall[c].result = "cut" => agentCall[c].sent # "running"

\* A call is served with the configuration that it asked for.
RightConfig ==
  \A c \in AgentCalls : agentCall[c].pc \in {"waiting", "posted"} \/ agentCall[c].result = "ok" =>
    mcp[agentCall[c].worker].config = agentCall[c].config

WorkersSound == AwTypeOK /\ OneProcess /\ GracefulStop /\ RightConfig

\* A worker that was asked to close ends, and so do the calls.
WorkersAtRest ==
  /\ barrier = 0 /\ \A c \in AgentCalls : agentCall[c].pc \in {"new", "end"}
  /\ \A w \in AgentCalls : Living(w) => Usable(w)
================================================================================
