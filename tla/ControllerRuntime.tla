---------------------------- MODULE ControllerRuntime ----------------------------
(*****************************************************************************)
(* The owner of the long-lived state of a server process (executors/         *)
(* runtime.py), with the owners that it starts: the terminal runtime and the *)
(* Human UI. A start or a close awaits one part after the other, any of      *)
(* which may raise; and every part that modules reach through a global       *)
(* binding has the previous binding put back. Runtimes nest.                 *)
(*****************************************************************************)
EXTENDS Naturals, Sequences, SequencesExt

CONSTANTS MaxRuntimes,  \* runtimes of a process, each started inside the one before
          MaxRaised     \* bound on the closes that raise

ASSUME ControllerAssumption == MaxRaised \in Nat /\ MaxRuntimes \in Nat

Runtimes == 1..MaxRuntimes

\* What is started or installed, in the order of start: "x" runs, "=x" is a binding.
Bound == {"=stores", "=jobs", "=terminals", "=remote", "=oauth", "=ui"}
StartOrder ==
  <<"=stores", "jobs", "=jobs", "conpty", "bridges", "=terminals", "remote", "=remote",
    "oauth", "=oauth", "sockets", "files", "=ui">>
\* A slip: the remote manager is closed before the Human UI.
RemoteFirst ==
  <<"jobs", "remote", "sockets", "files", "=ui", "oauth", "bridges", "conpty", "=terminals",
    "=jobs", "=oauth", "=remote", "=stores">>
\* The order of aclose.
CloseOrder ==
  <<"jobs", "sockets", "files", "=ui", "oauth", "remote", "bridges", "conpty", "=terminals",
    "=jobs", "=oauth", "=remote", "=stores">>
\* The order in which a failed start is undone.
UndoOrder ==
  <<"files", "sockets", "=oauth", "oauth", "=remote", "remote", "bridges", "conpty",
    "=terminals", "=jobs", "jobs", "=stores">>
Parts == Range(StartOrder)

VARIABLES
  runtime,     \* [Runtimes -> "new" | "starting" | "up" | "undoing" | "closing" | "closed"]
  remaining,      \* [Runtimes -> what its start or its close has still to do]
  running,        \* [Runtimes -> SUBSET Parts]: what it started or installed
  binding,   \* [Bound -> 0 | Runtimes]: the global bindings
  previous,  \* [Runtimes -> [Bound -> 0 | Runtimes]]
  raised     \* closes that raised

crVars == <<runtime, remaining, running, binding, previous, raised>>

ControllerInit ==
  /\ runtime = [r \in Runtimes |-> "new"] /\ remaining = [r \in Runtimes |-> <<>>]
  /\ running = [r \in Runtimes |-> {}] /\ binding = [b \in Bound |-> 0]
  /\ previous = [r \in Runtimes |-> [b \in Bound |-> 0]] /\ raised = 0

Is(r, w) == runtime[r] = w
Turns(r, w, todo) ==
  runtime' = [runtime EXCEPT ![r] = w] /\ remaining' = [remaining EXCEPT ![r] = todo]

--------------------------------------------------------------------------------
\* start: inside the lifespan of the runtime before, if there is one.
StartRuntime(r) ==
  /\ Is(r, "new") /\ \A q \in Runtimes : q < r => Is(q, "up")
  /\ Turns(r, "starting", StartOrder)
  /\ UNCHANGED <<running, binding, previous, raised>>
StartPart(r) ==
  /\ Is(r, "starting") /\ remaining[r] # <<>>
  /\ LET p == Head(remaining[r]) IN
     /\ running' = [running EXCEPT ![r] = @ \cup {p}]
     /\ IF p \in Bound
          THEN /\ binding' = [binding EXCEPT ![p] = r]
               /\ previous' = [previous EXCEPT ![r][p] = binding[p]]
          ELSE UNCHANGED <<binding, previous>>
  /\ Turns(r, "starting", Tail(remaining[r]))
  /\ UNCHANGED raised
RuntimeUp(r) ==
  /\ Is(r, "starting") /\ remaining[r] = <<>> /\ Turns(r, "up", <<>>)
  /\ UNCHANGED <<running, binding, previous, raised>>

\* A slip: only the part that failed is undone.
UndoLast(r) == <<>>
UndoStarted(r) == SelectSeq(UndoOrder, LAMBDA p : p \in running[r])
\* A part raises, or the start is cancelled while it awaits one.
StartRaises(r) ==
  /\ Is(r, "starting") /\ remaining[r] # <<>> /\ Head(remaining[r]) \notin Bound
  /\ Turns(r, "undoing", UndoStarted(r))
  /\ UNCHANGED <<running, binding, previous, raised>>

\* aclose: of a runtime that is up, when those inside it are closed.
CloseRuntime(r) ==
  /\ Is(r, "up") /\ \A q \in Runtimes : q > r => runtime[q] \in {"new", "closed"}
  /\ Turns(r, "closing", CloseOrder)
  /\ UNCHANGED <<running, binding, previous, raised>>
\* A slip: the binding is removed.
Unbind(r, p) == 0
PutBack(r, p) == previous[r][p]
\* A slip: the first error ends the close.
StopAtError(r, fails) == IF fails THEN <<>> ELSE Tail(remaining[r])
GoOn(r, fails) == Tail(remaining[r])
\* One part is closed, and may raise: the error is kept for the end.
ClosePart(r) ==
  /\ runtime[r] \in {"undoing", "closing"} /\ remaining[r] # <<>>
  /\ LET p == Head(remaining[r]) IN
     /\ running' = [running EXCEPT ![r] = @ \ {p}]
     /\ IF p \in Bound THEN binding' = [binding EXCEPT ![p] = PutBack(r, p)]
                     ELSE UNCHANGED binding
     /\ \/ raised' = raised /\ Turns(r, runtime[r], GoOn(r, FALSE))
        \/ /\ p \notin Bound /\ raised < MaxRaised /\ raised' = raised + 1
           /\ Turns(r, runtime[r], GoOn(r, TRUE))
  /\ UNCHANGED previous
RuntimeClosed(r) ==
  /\ runtime[r] \in {"undoing", "closing"} /\ remaining[r] = <<>> /\ Turns(r, "closed", <<>>)
  /\ UNCHANGED <<running, binding, previous, raised>>

ControllerStep(r) ==
  StartPart(r) \/ RuntimeUp(r) \/ ClosePart(r) \/ RuntimeClosed(r)
ControllerNext ==
  \E r \in Runtimes : StartRuntime(r) \/ StartRaises(r) \/ CloseRuntime(r) \/ ControllerStep(r)

ControllerSpec == ControllerInit /\ [][ControllerNext]_crVars

--------------------------------------------------------------------------------
\* Whatever raised, a runtime that is closed, or failed to start, has no part running
\* and no binding left.
NothingRuns == \A r \in Runtimes : runtime[r] \in {"new", "closed"} => running[r] = {}
\* While no start or close is under way, modules reach the innermost runtime that is up.
Innermost == {r \in Runtimes : Is(r, "up") /\ \A q \in Runtimes : q > r => ~Is(q, "up")}
BoundToInnermost ==
  (\A r \in Runtimes : runtime[r] \in {"new", "up", "closed"}) =>
    \A b \in Bound : IF Innermost = {} THEN binding[b] = 0 ELSE binding[b] \in Innermost
\* A part never outlives the one it calls when it closes: the pages of the Human UI have
\* bridges to close and sessions of workers to end, a bridge may be one of a ConPTY
\* shell, and managed jobs call workers.
DependentsFirst ==
  \A r \in Runtimes :
    /\ "files" \in running[r] => "remote" \in running[r]
    /\ "sockets" \in running[r] => {"remote", "bridges"} \subseteq running[r]
    /\ "bridges" \in running[r] => "conpty" \in running[r]
    /\ Is(r, "closing") /\ "jobs" \in running[r] => "remote" \in running[r]

ControllerSound == NothingRuns /\ BoundToInnermost /\ DependentsFirst
================================================================================
