----------------------------- MODULE BoundedRunner -----------------------------
(*****************************************************************************)
(* The runner of one bounded command on Linux (subreaper and procfs) and on  *)
(* BSD hosts (kqueue): run_bounded_command.  Processes go on forking and     *)
(* exiting while the runner looks for them, one procfs file at a time.       *)
(*****************************************************************************)
EXTENDS ProcessTree

CONSTANT MaxPolls   \* bound on the looks within one grace period

ASSUME BoundedRunnerAssumption == MaxPolls \in Nat

VARIABLES
  run,    \* the runner: stage, signal received, what it found out, exit code
  walk,   \* _descendants in progress
  kq      \* the kqueue tracker and the events it has not read

brVars == <<proc, host, run, walk, kq>>

NoWalk == [mode |-> "idle", todo |-> {}, found |-> {}, parents |-> <<>>, pass |-> 0]
Scanning == [NoWalk EXCEPT !.mode = "files", !.todo = {Runner}]

BrStart ==
  /\ run = [at |-> "start", signal |-> FALSE, polls |-> 0, group |-> TRUE, rest |-> TRUE,
            code |-> 0]
  /\ walk = NoWalk
  /\ kq = [live |-> {}, child |-> {}, exit |-> {}, error |-> FALSE, failed |-> FALSE]

BrInit == TreeInit /\ host \in {"linux", "kqueue"} /\ BrStart

\* The command: the tracker's events follow its forks and exits.
Command ==
  /\ run.at # "returned"
  /\ \E p \in Pids :
       \/ \E k \in ProcKinds :
            /\ Fork(p, k)
            /\ LET born == CHOOSE q \in Pids : proc'[q] # proc[q] IN
               IF host = "kqueue"
                 THEN kq' \in {[kq EXCEPT !.child = @ \cup {born}], [kq EXCEPT !.error = TRUE]}
                 ELSE UNCHANGED kq
       \/ ProcExit(p) /\ kq' = [kq EXCEPT !.exit = @ \cup {p}]
       \/ ParentReaps(p) /\ UNCHANGED kq
  /\ UNCHANGED <<host, run, walk>>

\* SIGTERM from a caller that gave up, SIGINT, SIGHUP.
Signalled ==
  /\ run.at \notin {"start", "returned"} /\ ~run.signal
  /\ run' = [run EXCEPT !.signal = TRUE] /\ UNCHANGED <<proc, host, walk, kq>>

Goes(at) == run' = [run EXCEPT !.at = at, !.polls = 0]
Returns(code) == run' = [run EXCEPT !.at = "returned", !.code = code]
KillGroup(S, sig) ==
  /\ proc' = After(Ended(S, sig))
  /\ kq' = [kq EXCEPT !.exit = @ \cup Ended(S, sig)]

\* run_bounded_command: containment that cannot be established, or a shell that
\* cannot be started.
Refused ==
  /\ run.at = "start" /\ \E code \in {125, 127} : Returns(code)
  /\ UNCHANGED <<proc, host, walk, kq>>
\* The tracker is registered before the gate lets the command run.
SpawnCommand ==
  /\ run.at = "start" /\ \E k \in ProcKinds \ {"escaped", "foreign"} : ProcStarts(Root, Runner, k)
  /\ Goes("run") /\ kq' = [kq EXCEPT !.live = IF host = "kqueue" THEN {Root} ELSE {}]
  /\ UNCHANGED <<host, walk>>

\* _KqueueDescendantTracker.poll.
Polled == [kq EXCEPT !.live = (@ \cup kq.child) \ kq.exit, !.child = {}, !.exit = {},
                     !.failed = @ \/ kq.error, !.error = FALSE]

\* The loop sees the end of the shell, a signal, or a tracker that lost track.
Notice ==
  /\ run.at = "run"
  /\ \/ /\ proc[Root].is = "zombie" /\ proc' = [proc EXCEPT ![Root].is = "gone"]
        /\ kq' = [Polled EXCEPT !.live = @ \ {Root}]
     \/ (run.signal \/ Polled.failed) /\ UNCHANGED proc /\ kq' = Polled
  /\ Goes("group") /\ UNCHANGED <<host, walk>>

--------------------------------------------------------------------------------
\* _cleanup_process_group.
GroupLook ==
  /\ run.at = "group"
  /\ IF Group = {} THEN Goes("look") /\ UNCHANGED <<proc, kq>>
                   ELSE KillGroup(Group, "term") /\ Goes("groupWait")
  /\ UNCHANGED <<host, walk>>

GroupEmpty == {p \in Pids : Reaped[p].is \in {"alive", "zombie"} /\ p \in Group} = {}

GroupWait ==
  /\ run.at \in {"groupWait", "groupKilled"} /\ proc' = Reaped
  /\ run' = (IF GroupEmpty THEN [run EXCEPT !.at = "look", !.polls = 0]
             ELSE IF run.polls < MaxPolls THEN [run EXCEPT !.polls = @ + 1]
             ELSE IF run.at = "groupWait" THEN [run EXCEPT !.at = "groupKill"]
             ELSE [run EXCEPT !.at = "look", !.polls = 0, !.group = FALSE])
  /\ UNCHANGED <<host, walk, kq>>
GroupKill ==
  /\ run.at = "groupKill" /\ KillGroup(Group, "kill") /\ Goes("groupKilled")
  /\ UNCHANGED <<host, walk>>

--------------------------------------------------------------------------------
\* _descendants: the children files, one process after another ...
Seeking == run.at \in {"look", "term", "wait", "kill", "killed"}
BeginLook ==
  /\ Seeking /\ host = "linux" /\ walk.mode = "idle" /\ walk' = Scanning
  /\ proc' = (IF run.at \in {"wait", "killed"} THEN Reaped ELSE proc)
  /\ UNCHANGED <<host, run, kq>>
ReadChildren(x) ==
  /\ walk.mode = "files" /\ x \in walk.todo
  /\ LET kids == ChildrenOf(x) \ walk.found
         todo == (walk.todo \ {x}) \cup kids
     IN walk' = [walk EXCEPT !.found = @ \cup kids, !.todo = todo,
                             !.mode = IF todo = {} THEN "done" ELSE @]
  /\ UNCHANGED <<proc, host, run, kq>>
\* ... or, when one cannot be read, the status of every process in /proc, twice
\* before an empty set is believed.
Listing(pass) == [NoWalk EXCEPT !.mode = "status", !.todo = Visible, !.pass = pass]
FilesFail ==
  /\ walk.mode = "files" /\ walk' = Listing(1) /\ UNCHANGED <<proc, host, run, kq>>
\* The descendants in a map of parents are in every set that has, of the map, the
\* children of the runner and those of its members.
HasChildren(S, parents) ==
  \A q \in DOMAIN parents : parents[q] \in S \cup {Runner} => q \in S
Below(parents) ==
  {q \in DOMAIN parents : \A S \in SUBSET DOMAIN parents : HasChildren(S, parents) => q \in S}
ReadStatus ==
  /\ walk.mode = "status"
  /\ IF walk.todo = {}
       THEN walk' = (IF Below(walk.parents) = {} /\ walk.pass = 1 THEN Listing(2)
                     ELSE [walk EXCEPT !.mode = "done", !.found = Below(walk.parents)])
       ELSE \E x \in walk.todo :
              walk' = [walk EXCEPT !.todo = @ \ {x},
                         !.parents = [q \in DOMAIN @ \cup ({x} \cap Visible) |->
                                        IF q = x THEN proc[x].parent ELSE @[q]]]
  /\ UNCHANGED <<proc, host, run, kq>>
StatusFails ==
  /\ walk.mode = "status" /\ walk' = [NoWalk EXCEPT !.mode = "unknown"]
  /\ UNCHANGED <<proc, host, run, kq>>

\* What is known of the descendants: of the tracker on kqueue, after a poll.
Knows == host = "kqueue" \/ walk.mode \in {"done", "unknown"}
Unsure == IF host = "kqueue" THEN Polled.failed ELSE walk.mode = "unknown"
Found == IF host = "kqueue" THEN Polled.live ELSE walk.found

Forbidden == {p \in Found \cap Alive : proc[p].kind = "foreign"}

\* An inventory that could not be read is taken for an empty one.
NoneFoundOrUnsure == Unsure \/ Found = {}
NoneFound == ~Unsure /\ Found = {}

Decides(at, rest) == run' = [run EXCEPT !.at = at, !.rest = rest, !.polls = 0]

\* _cleanup_descendants, _KqueueDescendantTracker.cleanup: nothing left, or terminate.
Look ==
  /\ run.at = "look" /\ Knows
  /\ IF NoneFound THEN Decides("again", TRUE)
     ELSE IF Unsure /\ (host = "linux" \/ Found = {}) THEN Decides("again", FALSE)
     ELSE Goes("term")
  /\ walk' = NoWalk /\ kq' = (IF host = "kqueue" THEN Polled ELSE kq)
  /\ UNCHANGED <<proc, host>>

\* _signal_descendants, signal_all, for either signal.
Signal ==
  /\ run.at \in {"term", "kill"} /\ Knows
  /\ IF host = "linux" /\ Unsure THEN Decides("again", FALSE) /\ UNCHANGED <<proc, kq>>
     ELSE LET gone == Ended(Found, run.at) IN
          /\ proc' = After(gone)
          /\ kq' = (IF host = "linux" THEN kq
                    ELSE [Polled EXCEPT !.exit = gone, !.failed = @ \/ Forbidden # {}])
          /\ IF host = "linux" /\ Forbidden # {} THEN Decides("again", FALSE)
             ELSE Goes(IF run.at = "term" THEN "wait" ELSE "killed")
  /\ walk' = NoWalk /\ UNCHANGED host

\* A wait that ends only when nothing is left.
WaitOn ==
  /\ run.at \in {"wait", "killed"} /\ Knows
  /\ IF NoneFound THEN Decides("again", TRUE) ELSE UNCHANGED run
  /\ walk' = NoWalk /\ kq' = (IF host = "kqueue" THEN Polled ELSE kq)
  /\ UNCHANGED <<proc, host>>

\* _wait_for_no_descendants, wait_for_empty.
Wait ==
  /\ run.at \in {"wait", "killed"} /\ Knows
  /\ IF NoneFound THEN Decides("again", TRUE)
     ELSE IF ~Unsure /\ run.polls < MaxPolls THEN run' = [run EXCEPT !.polls = @ + 1]
     ELSE IF run.at = "wait" THEN Goes("kill")
     ELSE Decides("again", FALSE)
  /\ walk' = NoWalk /\ kq' = (IF host = "kqueue" THEN Polled ELSE kq)
  /\ UNCHANGED <<proc, host>>

\* _cleanup_command_processes: a group that would not go is looked at once more,
\* and the exit code tells whether everything is gone.
Again ==
  /\ run.at = "again" /\ proc' = (IF run.group THEN proc ELSE Reaped)
  /\ LET group == run.group \/ GroupEmpty
     IN Returns(IF group /\ run.rest /\ ~kq.failed THEN 0 ELSE 125)
  /\ UNCHANGED <<host, walk, kq>>

RunnerStep ==
  \/ Refused \/ SpawnCommand \/ Notice \/ GroupLook \/ GroupWait \/ GroupKill
  \/ BeginLook \/ (\E x \in walk.todo : ReadChildren(x)) \/ FilesFail \/ ReadStatus \/ StatusFails
  \/ Look \/ Signal \/ Wait \/ Again

BrNext == RunnerStep \/ Command \/ Signalled
BrSpec == BrInit /\ [][BrNext]_brVars

--------------------------------------------------------------------------------
BrTypeOK ==
  /\ \A p \in Pids : proc[p].is \in {"none", "alive", "zombie", "gone"}
  /\ run.code \in {0, 125, 127} /\ run.polls \in 0..MaxPolls
  /\ walk.found \subseteq Pids /\ walk.todo \subseteq Pids \cup {Runner}

\* docs/security.md:99: "found, terminated, and reaped before the tool returns".
\* When the runner returns anything but 125 no process of the command is alive, not
\* one that left the group, nor one that was forked while the others were counted.
Contained == run.at = "returned" /\ run.code # 125 => Alive = {}

RunnerSound == BrTypeOK /\ Contained
================================================================================
