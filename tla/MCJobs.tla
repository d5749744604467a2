-------------------------------- MODULE MCJobs --------------------------------
(*****************************************************************************)
(* What a server runs itself, in one run: a behaviour is one of its managed  *)
(* jobs, of its file tools, of one bounded command or of its Windows shells, *)
(* with the others at rest.                                                  *)
(*****************************************************************************)
EXTENDS MCManagedJobs, FileEdits, BoundedRunner, ConPtyShells

VARIABLE which

jobsVars == <<vars, feVars, brVars, cpVars, which>>

\* Edits and reads of files of two lines.
MCShapes == {[kind |-> "rows", from |-> 1, to |-> 2, n |-> 1],
             [kind |-> "after", from |-> 2, to |-> 2, n |-> 1]}
MCRanges == {<<1, 2>>}

OfManaged(A) == which = "managed" /\ A /\ UNCHANGED <<feVars, brVars, cpVars, which>>
OfEdits(A) == which = "edits" /\ A /\ UNCHANGED <<vars, brVars, cpVars, which>>
OfRunner(A) == which = "runner" /\ A /\ UNCHANGED <<vars, feVars, cpVars, which>>
OfShells(A) == which = "shells" /\ A /\ UNCHANGED <<vars, feVars, brVars, which>>

JobsInit ==
  /\ Init /\ EditsInit /\ BrInit /\ ConPtyInit
  /\ which \in {"managed", "edits", "runner", "shells"}
  /\ which # "runner" => host = "linux"

JobsNext ==
  OfManaged(Next) \/ OfEdits(EditsNext) \/ OfRunner(BrNext) \/ OfShells(ConPtyNext)

JobsSpec ==
  /\ JobsInit /\ [][JobsNext]_jobsVars
  /\ \A p \in Procs :
       /\ \A j \in Jobs : /\ WF_jobsVars(OfManaged(OpEnds(p, j)))
                          /\ WF_jobsVars(OfManaged(LoopStep(p, j)))
       /\ WF_jobsVars(OfManaged(ThreadStep(p)))
       /\ WF_jobsVars(OfManaged(Closed(p)))
  /\ \A c \in Tools : WF_jobsVars(OfEdits(ToolStep(c)))
  /\ WF_jobsVars(OfRunner(RunnerStep))

\* Every call of a file tool ends (their number is bounded), and a command that was
\* signalled or has ended does not keep its runner.
ToolsEnd == []<>(/\ \A c \in Tools : tool[c].pc = "idle"
                 /\ run.signal \/ proc[Root].is = "gone" => run.at = "returned")
===============================================================================
