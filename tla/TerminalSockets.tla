---------------------------- MODULE TerminalSockets ----------------------------
(*****************************************************************************)
(* The terminal connections of the Human UI: ui/http/terminal_websocket.py   *)
(* over the adapters of terminals.py and the registry of live_state.py. A    *)
(* connection reserves a slot, attaches to one persistent shell, runs a      *)
(* sender and a receiver as two tasks, and ends when one of them does.       *)
(*****************************************************************************)
EXTENDS FiniteSets, Naturals, Sequences

CONSTANTS Sockets,   \* connections of a behaviour
          MaxSlots,  \* ui_terminal_max_connections
          MaxTyped   \* bound on the input of a connection

ASSUME TerminalSocketsAssumption == MaxSlots \in Nat \ {0} /\ MaxTyped \in Nat

VARIABLES
  sock,      \* [Sockets -> the connection, its two tasks and its bridge]
  slots,     \* UiTerminalConnectionRegistry._active
  socketGate,  \* the registry: "open", "stopped", "draining" or "closed"
  remote,    \* the machine is a remote worker
  shellUp,   \* the persistent shell runs
  wire       \* [Sockets -> what was typed, what is under way, what the shell got]

tsVars == <<sock, slots, socketGate, remote, shellUp, wire>>

\* bridge: the raw client at the machine, from "made" until "gone"; "lost" is one
\* that no connection closes, which is left to its idle timer.
NewSocket == [pc |-> "new", mode |-> "snapshot", bridge |-> "none", tx |-> "off", rx |-> "off",
              touched |-> FALSE, fired |-> FALSE, cancel |-> FALSE]
NoInput == [typed |-> 0, calls |-> {}, got |-> <<>>]

SocketsInit ==
  /\ sock = [s \in Sockets |-> NewSocket] /\ wire = [s \in Sockets |-> NoInput]
  /\ slots = {} /\ socketGate = "open" /\ remote \in BOOLEAN /\ shellUp = TRUE

Stands(s, pc) == sock[s].pc = pc
Becomes(s, pc) == sock' = [sock EXCEPT ![s].pc = pc]
SlotFreed(s) == slots' = slots \ {s}
Live == {s \in Sockets : sock[s].bridge \in {"made", "held", "lost"}}

--------------------------------------------------------------------------------
\* parse_terminal_websocket_request and _authorize_websocket: refused, or on to the
\* list of the shells.
Dial(s, m) ==
  /\ Stands(s, "new")
  /\ sock' \in {[sock EXCEPT ![s].pc = "listing", ![s].mode = m], [sock EXCEPT ![s].pc = "end"]}
  /\ UNCHANGED <<slots, socketGate, remote, shellUp, wire>>

\* A slip: the reservation does not look at the shutdown.
TakeSlotWhileClosing(s) == Cardinality(slots) < MaxSlots
\* The registry answers None when it is closed or full.
TakeSlot(s) == socketGate = "open" /\ Cardinality(slots) < MaxSlots
ShellsListed(s) ==
  /\ Stands(s, "listing")
  /\ \/ shellUp /\ TakeSlot(s) /\ Becomes(s, "accepting") /\ slots' = slots \cup {s}
     \/ Becomes(s, "end") /\ UNCHANGED slots
  /\ UNCHANGED <<socketGate, remote, shellUp, wire>>

Accepted(s) ==
  /\ Stands(s, "accepting") /\ ~sock[s].cancel
  /\ \/ /\ Becomes(s, IF sock[s].mode = "snapshot" THEN "greeting" ELSE "opening")
        /\ UNCHANGED slots
     \/ Becomes(s, "end") /\ SlotFreed(s)
  /\ UNCHANGED <<socketGate, remote, shellUp, wire>>

\* External: the machine attaches a raw client, one for a shell; a worker may do so
\* after the call was given up.
MachineAttaches(s) ==
  /\ sock[s].bridge = "none" /\ shellUp /\ Live = {}
  /\ \/ Stands(s, "opening") /\ sock' = [sock EXCEPT ![s].bridge = "made"]
     \/ Stands(s, "refused") /\ sock' = [sock EXCEPT ![s].bridge = "lost"]
  /\ UNCHANGED <<slots, socketGate, remote, shellUp, wire>>

\* The answer, checked by _normalize_bridge_open.
BridgeOpened(s) ==
  /\ Stands(s, "opening") /\ ~sock[s].cancel /\ sock[s].bridge = "made"
  /\ sock' = [sock EXCEPT ![s].pc = "greeting", ![s].bridge = "held",
                          ![s].mode = "snapshot"]
  /\ UNCHANGED <<slots, socketGate, remote, shellUp, wire>>
\* auto makes do with snapshots where the machine has no raw clients.
FallBack(s) ==
  /\ Stands(s, "opening") /\ ~sock[s].cancel /\ sock[s].mode = "auto" /\ sock[s].bridge = "none"
  /\ sock' = [sock EXCEPT ![s].pc = "greeting", ![s].mode = "snapshot"]
  /\ UNCHANGED <<slots, socketGate, remote, shellUp, wire>>
\* A slip: an attachment that is taken ends the connection without its slot.
KeepsSlot(s) == UNCHANGED slots
GivesSlotBack(s) == SlotFreed(s)
\* Unsupported, busy, failed or, for a worker, not answered in time; a malformed
\* answer is discarded with its bridge (_discard_open_bridge).
OpeningFails(s) ==
  /\ Stands(s, "opening") /\ ~sock[s].cancel
  /\ \/ sock[s].bridge = "none" /\ Becomes(s, IF remote THEN "refused" ELSE "end")
     \/ /\ sock[s].bridge = "made" /\ remote
        /\ sock' \in {[sock EXCEPT ![s].pc = "end", ![s].bridge = "lost"],
                      [sock EXCEPT ![s].pc = "end", ![s].bridge = "gone"]}
  /\ GivesSlotBack(s)
  /\ UNCHANGED <<socketGate, remote, shellUp, wire>>

\* _send_ready, and the two tasks.
Greeted(s) ==
  /\ Stands(s, "greeting") /\ ~sock[s].cancel
  /\ sock' \in {[sock EXCEPT ![s].pc = "serving", ![s].tx = "reading", ![s].rx = "waiting",
                             ![s].touched = FALSE, ![s].fired = FALSE],
                [sock EXCEPT ![s].pc = "cleaning"]}
  /\ UNCHANGED <<slots, socketGate, remote, shellUp, wire>>

--------------------------------------------------------------------------------
\* The sender: it polls a snapshot or reads the bridge, and sends what is new. It ends
\* on an error of either, on the end of the client and on a connection that is gone.
Lively(s) == [sock EXCEPT ![s].touched = TRUE]
SenderStep(s) ==
  /\ sock[s].tx = "reading"
  /\ \/ shellUp /\ sock' \in {sock, Lively(s)}
     \/ sock' = [sock EXCEPT ![s].tx = "done"]
  /\ UNCHANGED <<slots, socketGate, remote, shellUp, wire>>

\* The receiver: a frame that is input goes to the machine, and the next is received
\* when that call is answered.
Typed(s) ==
  /\ sock[s].rx = "waiting" /\ ~Stands(s, "end") /\ wire[s].typed < MaxTyped
  /\ sock' = [Lively(s) EXCEPT ![s].rx = "calling"]
  /\ wire' = [wire EXCEPT ![s].typed = @ + 1, ![s].calls = @ \cup {wire[s].typed + 1}]
  /\ UNCHANGED <<slots, socketGate, remote, shellUp>>
\* Another frame (resize, ping), or one that is refused, a close or a disconnect.
OtherFrame(s) ==
  /\ sock[s].rx = "waiting"
  /\ sock' \in {Lively(s), [sock EXCEPT ![s].rx = "done"]}
  /\ UNCHANGED <<slots, socketGate, remote, shellUp, wire>>
\* External: the machine types; it may do so after the call was given up.
ShellGets(s, n) ==
  /\ n \in wire[s].calls /\ shellUp
  /\ wire' = [wire EXCEPT ![s].calls = @ \ {n}, ![s].got = Append(@, n)]
  /\ UNCHANGED <<sock, slots, socketGate, remote, shellUp>>
ShellMisses(s, n) ==
  /\ n \in wire[s].calls
  /\ wire' = [wire EXCEPT ![s].calls = @ \ {n}]
  /\ UNCHANGED <<sock, slots, socketGate, remote, shellUp>>
\* A slip: an input that failed is passed over.
PassOver(s) == "waiting"
EndsReceiver(s) == "done"
\* The answer to the call; an error ends the receiver (_send_exit).
InputAnswered(s) ==
  /\ sock[s].rx = "calling"
  /\ \/ wire[s].calls = {} /\ Len(wire[s].got) = wire[s].typed
        /\ sock' = [sock EXCEPT ![s].rx = "waiting", ![s].touched = FALSE, ![s].fired = FALSE]
     \/ sock' = [sock EXCEPT ![s].rx = EndsReceiver(s)]
  /\ UNCHANGED <<slots, socketGate, remote, shellUp, wire>>

\* Time: the timer of the receiver, which was set at some activity, fires; after a
\* later activity of the sender it is set again.
IdleTime(s) ==
  /\ sock[s].rx = "waiting" /\ ~sock[s].fired
  /\ sock' = [sock EXCEPT ![s].fired = TRUE]
  /\ UNCHANGED <<slots, socketGate, remote, shellUp, wire>>
IdleTimeout(s) ==
  /\ sock[s].rx = "waiting" /\ sock[s].fired
  /\ sock' = IF ~sock[s].touched THEN [sock EXCEPT ![s].rx = "done"]
                             ELSE [sock EXCEPT ![s].fired = FALSE, ![s].touched = FALSE]
  /\ UNCHANGED <<slots, socketGate, remote, shellUp, wire>>

TaskEnded(s) == sock[s].tx = "done" \/ sock[s].rx = "done"
\* The first task that ends has the other cancelled and waited for.
OneEnded(s) ==
  /\ Stands(s, "serving") /\ TaskEnded(s)
  /\ sock' = [sock EXCEPT ![s] = [NewSocket EXCEPT !.pc = "cleaning", !.bridge = sock[s].bridge,
                                                  !.tx = "done", !.rx = "done"]]
  /\ UNCHANGED <<slots, socketGate, remote, shellUp, wire>>

--------------------------------------------------------------------------------
\* _cleanup: the bridge is closed, if the machine is told, and the slot given back.
Cleaned(s) ==
  /\ Stands(s, "cleaning") /\ ~sock[s].cancel
  /\ LET b == IF sock[s].bridge = "held" THEN {"gone"} \cup (IF remote THEN {"lost"} ELSE {})
                                         ELSE {sock[s].bridge}
     IN \E f \in b : sock' = [sock EXCEPT ![s].pc = "end", ![s].bridge = f]
  /\ SlotFreed(s)
  /\ UNCHANGED <<socketGate, remote, shellUp, wire>>

\* A cancellation: a running connection cleans up but leaves its tasks as they are; at
\* any other await it ends with its slot and its bridge where they are.
CancelRunning(s) ==
  /\ Stands(s, "serving") /\ sock[s].cancel
  /\ sock' = [sock EXCEPT ![s].pc = "cleaning", ![s].cancel = FALSE]
  /\ UNCHANGED <<slots, socketGate, remote, shellUp, wire>>
CancelElsewhere(s) ==
  /\ sock[s].pc \in {"accepting", "opening", "greeting", "cleaning"} /\ sock[s].cancel
  /\ sock' = [sock EXCEPT ![s].pc = IF Stands(s, "opening") /\ remote THEN "refused" ELSE "end",
                          ![s].bridge = CASE @ = "made" -> IF remote THEN "lost" ELSE "gone"
                                          [] @ = "held" -> "lost" [] OTHER -> @,
                          ![s].cancel = FALSE]
  /\ UNCHANGED <<slots, socketGate, remote, shellUp, wire>>

\* UiTerminalConnectionRegistry.stop_admission and aclose.
StopSockets ==
  /\ socketGate = "open" /\ socketGate' = "stopped"
  /\ UNCHANGED <<sock, slots, remote, shellUp, wire>>
CloseSockets ==
  /\ socketGate \in {"open", "stopped"} /\ socketGate' = "draining"
  /\ sock' = [s \in Sockets |->
               IF s \in slots THEN [sock[s] EXCEPT !.cancel = TRUE] ELSE sock[s]]
  /\ UNCHANGED <<slots, remote, shellUp, wire>>
SocketsDrained ==
  /\ socketGate = "draining" /\ \A s \in slots : sock[s].pc \in {"refused", "end"}
  /\ socketGate' = "closed" /\ slots' = {}
  /\ UNCHANGED <<sock, remote, shellUp, wire>>

\* The shell ends, by itself or by api_terminal_action; an idle timer closes a raw client
\* that nobody uses.
ShellEnds ==
  /\ shellUp /\ shellUp' = FALSE
  /\ UNCHANGED <<sock, slots, socketGate, remote, wire>>
ClientEnds(s) ==
  /\ sock[s].bridge = "lost" /\ sock' = [sock EXCEPT ![s].bridge = "gone"]
  /\ UNCHANGED <<slots, socketGate, remote, shellUp, wire>>

ConnectionStep(s) ==
  \/ ShellsListed(s) \/ Accepted(s) \/ BridgeOpened(s) \/ FallBack(s) \/ OpeningFails(s)
  \/ Greeted(s) \/ InputAnswered(s) \/ OneEnded(s) \/ Cleaned(s)
  \/ CancelRunning(s) \/ CancelElsewhere(s)
SenderEnds(s) == ~shellUp /\ SenderStep(s)

SocketsNext ==
  \/ \E s \in Sockets :
       \/ \E m \in {"snapshot", "auto", "pty"} : Dial(s, m)
       \/ ConnectionStep(s) \/ SenderStep(s) \/ Typed(s) \/ OtherFrame(s)
       \/ MachineAttaches(s) \/ ClientEnds(s) \/ IdleTime(s) \/ IdleTimeout(s)
       \/ \E n \in 1..MaxTyped : ShellGets(s, n) \/ ShellMisses(s, n)
  \/ StopSockets \/ CloseSockets \/ SocketsDrained \/ ShellEnds

SocketsSpec == SocketsInit /\ [][SocketsNext]_tsVars

--------------------------------------------------------------------------------
\* One slot for each connection from its reservation to its end; a slot without a
\* connection is there only while the registry waits to clear them all, and after
\* that no connection is served.
Reserved == {s \in Sockets : sock[s].pc \notin {"new", "listing", "refused", "end"}}
SlotsCounted ==
  /\ Cardinality(slots) <= MaxSlots /\ Reserved \subseteq slots
  /\ socketGate # "draining" => slots = Reserved
  /\ socketGate = "closed" => slots = {}

\* What a shell gets of a connection is what was typed, in order and without a gap,
\* whatever calls fail or are carried out late.
InputInOrder == \A s \in Sockets : wire[s].got = [n \in 1..Len(wire[s].got) |-> n]

\* A connection that ends by itself leaves neither a task nor a raw client of the same
\* host behind; a cancelled one may, until the client's idle timer.
NothingLeft ==
  \A s \in Sockets : sock[s].pc = "end" /\ socketGate \in {"open", "stopped"} =>
    /\ sock[s].tx \in {"off", "done"} /\ sock[s].rx \in {"off", "done"}
    /\ remote \/ sock[s].bridge \in {"none", "gone"}

\* What is cancelled, refused or has lost one of its tasks ends, with its slot and its raw
\* client; a connection to a shell that is gone ends; and the shutdown does.
SocketsAtRest ==
  /\ socketGate # "draining"
  /\ \A s \in Sockets :
       \/ sock[s].pc \in {"new", "refused", "end"} /\ sock[s].bridge \in {"none", "gone"}
       \/ Stands(s, "serving") /\ shellUp

SocketsSound == SlotsCounted /\ InputInOrder /\ NothingLeft
================================================================================
