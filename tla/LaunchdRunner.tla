----------------------------- MODULE LaunchdRunner -----------------------------
(*****************************************************************************)
(* The runner of one bounded command on macOS (_run_launchd_bounded_command):*)
(* launchd starts a child in a resource coalition of its own, the child tells*)
(* which, waits to be released and runs the command; afterwards the members  *)
(* of the coalition are looked for, one pid at a time, and ended.  The runner*)
(* of BoundedRunner does not run meanwhile.                                  *)
(*****************************************************************************)
EXTENDS BoundedRunner

CONSTANT MaxLooks   \* bound on the looks within one grace period

ASSUME LaunchdRunnerAssumption == MaxLooks \in Nat

VARIABLES
  ld,      \* the runner
  child,   \* the job that launchd runs
  scan     \* _macos_matching_coalition_pids in progress

ldVars == <<brVars, ld, child, scan>>

\* A session of its own does not lead out of the coalition.
LdKinds == ProcKinds \ {"escaped"}

NoScan == [on |-> FALSE, todo |-> {}, found |-> {}, unknown |-> FALSE]

LdStart ==
  /\ ld = [at |-> "start", seen |-> "no", released |-> FALSE, failed |-> FALSE, signal |-> FALSE,
           bootout |-> FALSE, clean |-> FALSE, looks |-> 0, tries |-> 1, code |-> 0]
  \* coalition: of its own, that of the runner, or one that cannot be told.
  /\ child \in [at : {"none"}, coalition : {"own", "shared", "bad"}, started : {FALSE},
                status : {"none"}]
  /\ scan = NoScan

LdInit == TreeInit /\ host = "launchd" /\ BrStart /\ LdStart

\* The job ends: what it started is adopted by launchd.
ChildrenAdopted ==
  [p \in Pids |-> IF proc[p].parent # Runner THEN proc[p]
                  ELSE [proc[p] EXCEPT !.parent = InitPid,
                                       !.is = IF @ = "zombie" THEN "gone" ELSE @]]

\* launchctl bootstrap in each domain.  After a timeout the job may be there or not,
\* whatever the bootout that follows says.
Bootstrap ==
  /\ ld.at = "start"
  /\ \/ ld' = [ld EXCEPT !.at = "loop"] /\ child' = [child EXCEPT !.at = "up"]
     \/ /\ ld' = [ld EXCEPT !.at = "returned", !.code = 125]
        /\ \E at \in {"none", "up", "gone"} : child' = [child EXCEPT !.at = at]
  /\ UNCHANGED <<proc, host, scan>>

--------------------------------------------------------------------------------
\* _run_launchd_child.
ChildEnds(status) == child' = [child EXCEPT !.at = "gone", !.status = status]
ChildPublishes ==
  /\ child.at = "up"
  /\ child' = [child EXCEPT !.at = "published"] \/ ChildEnds("failed")
  /\ UNCHANGED <<proc, host, ld, scan>>
ChildStarted ==
  /\ child.at = "published" /\ child' = [child EXCEPT !.at = "gated", !.started = TRUE]
  /\ UNCHANGED <<proc, host, ld, scan>>
\* The command is run without waiting for the release.
ReleasedAnyhow == TRUE
Released == ld.released
ChildRuns ==
  /\ child.at = "gated" /\ Released
  /\ \/ /\ \E k \in LdKinds \ {"foreign"} : ProcStarts(Root, Runner, k)
        /\ child' = [child EXCEPT !.at = "commanding"]
     \/ ChildEnds("failed") /\ UNCHANGED proc
  /\ UNCHANGED <<host, ld, scan>>
ChildGivesUp ==
  /\ child.at = "gated" /\ ~ld.released /\ ChildEnds("failed")
  /\ UNCHANGED <<proc, host, ld, scan>>
ChildReports ==
  /\ child.at = "commanding" /\ proc[Root].is = "zombie"
  /\ proc' = [ChildrenAdopted EXCEPT ![Root].is = "gone"] /\ ChildEnds("exit")
  /\ UNCHANGED <<host, ld, scan>>

LdCommand ==
  /\ ld.at # "returned"
  /\ \E p \in Pids : (\E k \in LdKinds : Fork(p, k)) \/ ProcExit(p) \/ ParentReaps(p)
  /\ UNCHANGED <<host, ld, child, scan>>
LdSignalled ==
  /\ ld.at = "loop" /\ ~ld.signal /\ ld' = [ld EXCEPT !.signal = TRUE]
  /\ UNCHANGED <<proc, host, child, scan>>

--------------------------------------------------------------------------------
\* One turn of the loop: the status, then the coalition, whose reading releases the
\* child when it is another than the runner's.
Turn ==
  /\ ld.at = "loop" /\ ld.seen = "no" /\ child.at \notin {"none", "up"}
  /\ ld' = (CASE child.coalition = "own" ->
                   [ld EXCEPT !.seen = "own", !.released = TRUE,
                              !.at = IF child.status = "none" THEN @ ELSE "bootout"]
              [] OTHER -> [ld EXCEPT !.seen = child.coalition, !.failed = TRUE,
                                     !.at = "bootout"])
  /\ UNCHANGED <<proc, host, child, scan>>
\* The status is there, a signal came, or the child did not start in time.
LeaveLoop ==
  /\ ld.at = "loop"
  /\ \/ child.status # "none" \/ ld.signal
     \/ ~child.started \/ ld.seen = "no"
  /\ ld' = [ld EXCEPT !.at = "bootout",
                      !.failed = child.status = "none" /\ ~ld.signal]
  /\ UNCHANGED <<proc, host, child, scan>>

\* _bootout_launchd_job.
Bootout ==
  /\ ld.at = "bootout"
  /\ \E done \in BOOLEAN :
       /\ ld' = [ld EXCEPT !.bootout = @ \/ done, !.clean = @ \/ ~ld.released, !.looks = 0,
                    !.at = IF ld.released /\ ~ld.clean THEN "term" ELSE "answer"]
       /\ IF done /\ ~ld.bootout THEN child' = [child EXCEPT !.at = "gone"] /\ proc' = ChildrenAdopted
                                 ELSE UNCHANGED <<child, proc>>
  /\ UNCHANGED <<host, scan>>

\* _macos_matching_coalition_pids: the pids are listed, then each is asked for its
\* coalition.  One that is gone by then is passed over.
ListPids ==
  /\ ld.at \in {"term", "kill"} /\ ~scan.on
  /\ scan' = [NoScan EXCEPT !.on = TRUE, !.todo = Visible]
  /\ UNCHANGED <<proc, host, ld, child>>
AskPid(p) ==
  /\ scan.on /\ p \in scan.todo
  /\ scan' = (IF p \in Alive THEN [scan EXCEPT !.todo = @ \ {p}, !.found = @ \cup {p}]
              ELSE IF p \in Visible THEN [scan EXCEPT !.todo = {}, !.unknown = TRUE]
              ELSE [scan EXCEPT !.todo = @ \ {p}])
  /\ UNCHANGED <<proc, host, ld, child>>

\* _terminate_macos_coalition for SIGTERM, then for SIGKILL.
EndsLooking(clean) ==
  ld' = [ld EXCEPT !.clean = clean, !.looks = 0,
                   !.at = IF clean \/ @ = "kill" THEN "answer" ELSE "kill"]
Terminate ==
  /\ scan.on /\ scan.todo = {} /\ scan' = NoScan
  /\ LET forbidden == \E p \in scan.found \cap Alive : proc[p].kind = "foreign"
         done == ~scan.unknown /\ scan.found = {}
     IN IF scan.unknown \/ scan.found = {} THEN EndsLooking(done) /\ UNCHANGED proc
        ELSE IF ld.looks > MaxLooks THEN EndsLooking(FALSE) /\ UNCHANGED proc
        ELSE /\ proc' = After(Ended(scan.found, ld.at))
             /\ IF forbidden THEN EndsLooking(FALSE)
                             ELSE ld' = [ld EXCEPT !.looks = @ + 1]
  /\ UNCHANGED <<host, child>>

\* What was not confirmed is tried once more, and the answer is 125.
LdAnswer ==
  /\ ld.at = "answer"
  /\ ld' = (IF ld.bootout /\ ld.clean /\ ld.tries = 1
              THEN [ld EXCEPT !.at = "returned", !.code = IF ld.failed THEN 125 ELSE 0]
            ELSE IF ld.tries = 1 THEN [ld EXCEPT !.at = "bootout", !.tries = 2]
            ELSE [ld EXCEPT !.at = "returned", !.code = 125])
  /\ UNCHANGED <<proc, host, child, scan>>

ChildStep ==
  ChildPublishes \/ ChildStarted \/ ChildRuns \/ ChildGivesUp \/ ChildReports
LdStep ==
  \/ Bootstrap \/ Turn \/ LeaveLoop \/ Bootout
  \/ ListPids \/ (\E p \in scan.todo : AskPid(p)) \/ Terminate \/ LdAnswer

LdNext == ChildStep \/ LdStep \/ LdCommand \/ LdSignalled
LdSpec == LdInit /\ [][LdNext /\ UNCHANGED <<run, walk, kq>>]_ldVars

--------------------------------------------------------------------------------
\* docs/security.md:99: the command never starts if the coalition cannot be queried
\* or is not isolated from the runner, and an answer other than 125 is given only
\* when the job was removed.
OnlyReleased == host = "launchd" =>
  /\ (\E p \in Pids : proc[p].is # "none") => child.coalition = "own" /\ ld.seen = "own"
  /\ ld.at = "returned" /\ ld.code # 125 => child.at = "gone"

\* A command on either path: when its runner answers with anything but 125, nothing of it
\* is alive (BoundedRunner) or its job was removed, and under launchd it ran in a
\* coalition of its own (docs/security.md:99).
CommandsSound == RunnerSound /\ OnlyReleased

\* docs/security.md:99: every process of the coalition has been ended before an answer
\* other than 125.
CoalitionEmptied == ld.at = "returned" /\ ld.code # 125 => Alive = {}
================================================================================
