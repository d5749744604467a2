------------------------------ MODULE ProcessTree ------------------------------
(*****************************************************************************)
(* What the kernel does with the processes of one bounded command: they fork,*)
(* leave their process group, ignore signals, exit and are adopted.  Of the   *)
(* code under src/ only what it relies on is here (ops/utils/bounded_runner). *)
(*****************************************************************************)
EXTENDS Naturals, FiniteSets

CONSTANTS MaxPids,   \* bound on the processes of a command
          ProcKinds      \* of the processes a command may start

ASSUME ProcessTreeAssumption ==
  /\ MaxPids \in Nat \ {0}
  /\ ProcKinds \subseteq {"plain",     \* in the group of the command, ends on SIGTERM
                      "stubborn",  \* in the group, ignores SIGTERM
                      "escaped",   \* in a session of its own, ignores SIGTERM
                      "foreign"}   \* the same, and the runner may not signal it

VARIABLES
  proc,   \* [pids -> [is, parent, kind]]
  host    \* how the host lets the runner contain a command

treeVars == <<proc, host>>

Pids == 1..MaxPids
Root == 1                  \* the shell of the command
Runner == 0
InitPid == MaxPids + 1     \* the process that adopts orphans, unless the runner does

NoProc == [is |-> "none", parent |-> Runner, kind |-> "plain"]
TreeInit == proc = [p \in Pids |-> NoProc]

Alive == {p \in Pids : proc[p].is = "alive"}
Visible == {p \in Pids : proc[p].is \in {"alive", "zombie"}}
Group == {p \in Visible : proc[p].kind \in {"plain", "stubborn"}}
ChildrenOf(x) == {p \in Visible : proc[p].parent = x}

\* PR_SET_CHILD_SUBREAPER.
Reaper == IF host = "linux" THEN Runner ELSE InitPid

\* The processes in S end; what they leave is adopted, and init reaps at once.
After(S) ==
  [p \in Pids |->
     LET parent == IF proc[p].parent \in S THEN Reaper ELSE proc[p].parent
         is == IF p \in S \cap Alive THEN "zombie" ELSE proc[p].is
     IN [proc[p] EXCEPT !.parent = parent,
                        !.is = IF is = "zombie" /\ parent = InitPid THEN "gone" ELSE is]]

\* The runner's own zombies are reaped.
Reaped == [p \in Pids |-> IF proc[p].is = "zombie" /\ proc[p].parent = Runner
                          THEN [proc[p] EXCEPT !.is = "gone"] ELSE proc[p]]

\* Those that a SIGTERM or a SIGKILL ends.
Ended(S, sig) == {p \in S \cap Alive : proc[p].kind # "foreign"
                                       /\ (sig = "kill" \/ proc[p].kind = "plain")}

ProcStarts(q, parent, kind) ==
  proc' = [proc EXCEPT ![q] = [is |-> "alive", parent |-> parent, kind |-> kind]]

Fork(p, kind) ==
  /\ p \in Alive
  /\ \E q \in Pids :
       /\ proc[q].is = "none" /\ \A r \in Pids : r < q => proc[r].is # "none"
       /\ ProcStarts(q, p, kind)
ProcExit(p) == p \in Alive /\ proc' = After({p})
ParentReaps(p) ==
  /\ proc[p].is = "zombie" /\ proc[p].parent \in Alive
  /\ proc' = [proc EXCEPT ![p].is = "gone"]
================================================================================
