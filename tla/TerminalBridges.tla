---------------------------- MODULE TerminalBridges ----------------------------
(*****************************************************************************)
(* The raw terminal bridges of terminal/bridge.py: tasks of one event loop   *)
(* open, use and close attachments to persistent shells; threads create and  *)
(* close the attached clients; timers expire what is not used; the close of  *)
(* the runtime cancels the tasks.                                            *)
(*****************************************************************************)
EXTENDS FiniteSets, Naturals

CONSTANTS Terminals,     \* persistent shells
          MaxBridges,    \* ui_terminal_max_connections
          MaxBridgeOps   \* bound on the operations of a behaviour

ASSUME TerminalBridgesAssumption ==
  /\ MaxBridges \in Nat \ {0} /\ MaxBridgeOps \in Nat /\ 0 \notin Terminals

\* An operation is a task; the bridge that it opens has its number.
BridgeOps == 1..MaxBridgeOps

VARIABLES
  bridges,     \* TerminalBridgeRegistry.bridges
  bridgeOf,    \* shell_bridges: [Terminals -> BridgeOps \cup {0}]
  promised,    \* pending_shells
  quiet,       \* bridges that were idle for the idle timeout
  raw,         \* [BridgeOps -> "none" | "attached" | "gone"]: the raw client
  closer,      \* [BridgeOps -> "none" | "queued" | "running" | "owed"]: its close_sync;
               \* the close of the runtime waits for the last
  task,        \* [BridgeOps -> the operation]
  closing,     \* the runtime: "no" | "stopped" | "draining" | "closing" | "closed"
  dropped      \* clients whose queued close_sync was cancelled

tbVars == <<bridges, bridgeOf, promised, quiet, raw, closer, task, closing, dropped>>

\* made: what the thread that attaches the client came to.
NewTask == [pc |-> "new", at |-> 0, bridge |-> 0, made |-> "no", cancel |-> FALSE]

BridgesInit ==
  /\ bridges = {} /\ promised = {} /\ quiet = {} /\ dropped = {} /\ closing = "no"
  /\ bridgeOf = [s \in Terminals |-> 0]
  /\ raw = [b \in BridgeOps |-> "none"] /\ closer = [b \in BridgeOps |-> "none"]
  /\ task = [o \in BridgeOps |-> NewTask]

Doing(o, pc) == task[o].pc = pc
Does(o, pc) == task' = [task EXCEPT ![o].pc = pc]
\* Tasks are alike: the next that is new begins.
BeginsTask(o) == Doing(o, "new") /\ \A n \in BridgeOps : n < o => ~Doing(n, "new")
Opening(o) == task[o].pc \in {"creating", "waiting"}
Full == Cardinality(bridges) + Cardinality(promised) >= MaxBridges
Taken(s) == bridgeOf[s] # 0 \/ s \in promised

--------------------------------------------------------------------------------
\* open_terminal_bridge_execute.
Open(o, s) ==
  /\ BeginsTask(o)
  /\ IF closing # "no" \/ Taken(s) \/ Full
       THEN Does(o, "end") /\ UNCHANGED promised
       ELSE /\ task' = [task EXCEPT ![o].pc = "creating", ![o].at = s]
            /\ promised' = promised \cup {s}
  /\ UNCHANGED <<bridges, bridgeOf, quiet, raw, closer, closing, dropped>>

\* The thread: tmux attach-session, or a subscription to the ConPTY reader.
Attach(o) ==
  /\ Opening(o) /\ task[o].made = "no"
  /\ \/ task' = [task EXCEPT ![o].made = "yes"] /\ raw' = [raw EXCEPT ![o] = "attached"]
     \/ task' = [task EXCEPT ![o].made = "failed"] /\ UNCHANGED raw
  /\ UNCHANGED <<bridges, bridgeOf, promised, quiet, closer, closing, dropped>>

\* A slip: the promise of a cancelled opening stays.
UnpromisedUnlessCancelled(o) ==
  IF Doing(o, "waiting") THEN promised ELSE promised \ {task[o].at}
\* The finally clause: the promise ends, and a client that was not handed over is
\* closed in another thread.
Unpromised(o) == promised \ {task[o].at}
Abandon(o) ==
  /\ promised' = Unpromised(o)
  /\ IF task[o].made = "yes"
       THEN /\ closer' = [closer EXCEPT ![o] = "queued"]
            /\ task' = [task EXCEPT ![o].pc = "ending", ![o].bridge = o, ![o].cancel = FALSE]
       ELSE task' = [task EXCEPT ![o].pc = "end", ![o].cancel = FALSE] /\ UNCHANGED closer
  /\ UNCHANGED <<bridges, bridgeOf, quiet, raw, closing, dropped>>

Admits(s) == closing = "no" /\ bridgeOf[s] = 0
RegisterBridge(o) ==
  /\ Doing(o, "creating") /\ task[o].made = "yes" /\ ~task[o].cancel /\ Admits(task[o].at)
  /\ promised' = Unpromised(o)
  /\ bridges' = bridges \cup {o} /\ bridgeOf' = [bridgeOf EXCEPT ![task[o].at] = o]
  /\ Does(o, "end")
  /\ UNCHANGED <<quiet, raw, closer, closing, dropped>>
OpenFails(o) ==
  /\ Doing(o, "creating") /\ ~task[o].cancel
  /\ task[o].made = "failed" \/ (task[o].made = "yes" /\ ~Admits(task[o].at))
  /\ Abandon(o)

\* A cancelled opening waits for its thread, and absorbs further cancellations.
CancelOpening(o) ==
  /\ Opening(o) /\ task[o].cancel /\ task[o].made = "no"
  /\ task' = [task EXCEPT ![o].pc = "waiting", ![o].cancel = FALSE]
  /\ UNCHANGED <<bridges, bridgeOf, promised, quiet, raw, closer, closing, dropped>>
CancelledOpening(o) ==
  /\ Opening(o) /\ task[o].made # "no" /\ (Doing(o, "waiting") \/ task[o].cancel)
  /\ Abandon(o)

--------------------------------------------------------------------------------
\* _detach_bridge, and close_sync in a thread.
Detached(b) ==
  /\ bridges' = bridges \ {b} /\ quiet' = quiet \ {b}
  /\ bridgeOf' = [s \in Terminals |-> IF bridgeOf[s] = b THEN 0 ELSE bridgeOf[s]]
DetachAndClose(o, b) ==
  /\ IF b \in bridges
       THEN /\ Detached(b) /\ closer' = [closer EXCEPT ![b] = "queued"]
            /\ task' = [task EXCEPT ![o].pc = "ending", ![o].bridge = b]
       ELSE Does(o, "end") /\ UNCHANGED <<bridges, bridgeOf, quiet, closer>>
  /\ UNCHANGED <<promised, raw, closing, dropped>>

\* read_, write_ and resize_terminal_bridge_execute: the bridge is looked up and
\* touched, a thread works on its client ...
UseBridge(o, b) ==
  /\ BeginsTask(o)
  /\ IF closing # "no" \/ b \notin bridges
       THEN Does(o, "end") /\ UNCHANGED quiet
       ELSE task' = [task EXCEPT ![o].pc = "using", ![o].bridge = b] /\ quiet' = quiet \ {b}
  /\ UNCHANGED <<bridges, bridgeOf, promised, raw, closer, closing, dropped>>
\* ... and ends, with the end of the client for a read, after a touch for a resize.
Used(o) ==
  /\ Doing(o, "using") /\ ~task[o].cancel /\ Does(o, "end")
  /\ quiet' \in {quiet, quiet \ {task[o].bridge}}
  /\ UNCHANGED <<bridges, bridgeOf, promised, raw, closer, closing, dropped>>
ReadsEnd(o) == Doing(o, "using") /\ ~task[o].cancel /\ DetachAndClose(o, task[o].bridge)
CloseBridge(o, b) == BeginsTask(o) /\ closing = "no" /\ DetachAndClose(o, b)

BridgeDone(o) ==
  /\ Doing(o, "ending") /\ closer[task[o].bridge] = "none"
  /\ Does(o, "end")
  /\ UNCHANGED <<bridges, bridgeOf, promised, quiet, raw, closer, closing, dropped>>

\* A cancellation at another await: a thread that runs goes on, one that is queued
\* never starts.
CancelUse(o) ==
  /\ task[o].pc \in {"using", "ending"} /\ task[o].cancel
  /\ task' = [task EXCEPT ![o].pc = "end", ![o].cancel = FALSE]
  /\ LET b == task[o].bridge IN
     IF Doing(o, "ending") /\ closer[b] = "queued"
       THEN closer' = [closer EXCEPT ![b] = "none"] /\ dropped' = dropped \cup {b}
       ELSE UNCHANGED <<closer, dropped>>
  /\ UNCHANGED <<bridges, bridgeOf, promised, quiet, raw, closing>>

CancelTask(o) ==
  /\ task[o].pc \notin {"new", "end"} /\ ~task[o].cancel
  /\ task' = [task EXCEPT ![o].cancel = TRUE]
  /\ UNCHANGED <<bridges, bridgeOf, promised, quiet, raw, closer, closing, dropped>>

\* close_sync.
CloseRuns(b) ==
  /\ \/ closer[b] = "queued" /\ closer' = [closer EXCEPT ![b] = "running"] /\ UNCHANGED raw
     \/ /\ closer[b] \in {"running", "owed"} /\ closer' = [closer EXCEPT ![b] = "none"]
        /\ raw' = [raw EXCEPT ![b] = "gone"]
  /\ UNCHANGED <<bridges, bridgeOf, promised, quiet, task, closing, dropped>>

--------------------------------------------------------------------------------
\* Time, and _expire_bridge: the timer looks again at the activity under the lock.
Pass(b) ==
  /\ b \in bridges \ quiet /\ quiet' = quiet \cup {b}
  /\ UNCHANGED <<bridges, bridgeOf, promised, raw, closer, task, closing, dropped>>
ExpireBridge(b) ==
  /\ b \in bridges \cap quiet /\ Detached(b)
  /\ closer' = [closer EXCEPT ![b] = "running"]
  /\ UNCHANGED <<promised, raw, task, closing, dropped>>

\* TerminalRuntime.stop_admission, aclose: the tasks are cancelled and waited for,
\* then every bridge is closed.
StopBridges ==
  /\ closing = "no" /\ closing' = "stopped"
  /\ UNCHANGED <<bridges, bridgeOf, promised, quiet, raw, closer, task, dropped>>
CloseAll ==
  /\ closing \in {"no", "stopped"} /\ closing' = "draining"
  /\ task' = [o \in BridgeOps |-> IF task[o].pc \in {"new", "end"} THEN task[o]
                                  ELSE [task[o] EXCEPT !.cancel = TRUE]]
  /\ UNCHANGED <<bridges, bridgeOf, promised, quiet, raw, closer, dropped>>
Drained ==
  /\ closing = "draining" /\ \A o \in BridgeOps : task[o].pc \in {"new", "end"}
  /\ closing' = "closing"
  /\ bridges' = {} /\ promised' = {} /\ quiet' = {}
  /\ bridgeOf' = [s \in Terminals |-> 0]
  /\ closer' = [b \in BridgeOps |-> IF b \in bridges THEN "owed" ELSE closer[b]]
  /\ UNCHANGED <<raw, task, dropped>>
AllClosed ==
  /\ closing = "closing" /\ (\A b \in BridgeOps : closer[b] # "owed") /\ closing' = "closed"
  /\ UNCHANGED <<bridges, bridgeOf, promised, quiet, raw, closer, task, dropped>>

TaskStep(o) ==
  \/ RegisterBridge(o) \/ OpenFails(o) \/ CancelOpening(o) \/ CancelledOpening(o)
  \/ Used(o) \/ ReadsEnd(o) \/ BridgeDone(o) \/ CancelUse(o)
ThreadStep(o) == Attach(o) \/ CloseRuns(o)
TimerStep(o) == Pass(o) \/ ExpireBridge(o)
CloseRegistry == Drained \/ AllClosed

BridgesNext ==
  \/ \E o \in BridgeOps :
       \/ \E s \in Terminals : Open(o, s)
       \/ \E b \in BridgeOps : UseBridge(o, b) \/ CloseBridge(o, b)
       \/ TaskStep(o) \/ ThreadStep(o) \/ TimerStep(o) \/ CancelTask(o)
  \/ StopBridges \/ CloseAll \/ CloseRegistry

BridgesSpec == BridgesInit /\ [][BridgesNext]_tbVars

--------------------------------------------------------------------------------
TbTypeOK ==
  /\ bridges \subseteq BridgeOps /\ quiet \subseteq bridges /\ promised \subseteq Terminals
  /\ \A b \in BridgeOps : closer[b] # "none" => raw[b] = "attached"

\* docs/security.md:116: "One raw bridge is allowed per (machine, shell_id)": the
\* maps agree, and a second client is there only while the first is being closed.
Attached == {b \in BridgeOps : raw[b] = "attached"}
Leaving == {b \in BridgeOps : closer[b] # "none"} \cup dropped
OneRawClient ==
  /\ \A s \in Terminals : bridgeOf[s] # 0 => bridgeOf[s] \in bridges /\ task[bridgeOf[s]].at = s
  /\ \A b \in bridges : bridgeOf[task[b].at] = b
  /\ \A b, c \in Attached \ Leaving : task[b].at = task[c].at => b = c

\* The limit counts what is promised to openings, whose promises end with them.
BridgesBounded ==
  /\ Cardinality(bridges) + Cardinality(promised) <= MaxBridges
  /\ promised = {task[o].at : o \in {n \in BridgeOps : Opening(n)}}

\* However tasks are cancelled, a raw client is registered, in the hands of an opening
\* or being closed; only the cancellation of a close that waits for a thread loses it.
\* After the close of the runtime none is registered.
NoClientLost ==
  /\ \A b \in Attached : b \in bridges \/ Opening(b) \/ b \in Leaving
  /\ closing = "closed" => bridges = {} /\ promised = {}

BridgesSound == TbTypeOK /\ OneRawClient /\ BridgesBounded /\ NoClientLost

\* Operations and closes end, and what is not used is closed in the end.
BridgesAtRest ==
  /\ closing \notin {"draining", "closing"} /\ Attached \subseteq dropped
  /\ \A o \in BridgeOps : task[o].pc \in {"new", "end"}
================================================================================
