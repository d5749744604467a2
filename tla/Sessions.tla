------------------------------- MODULE Sessions -------------------------------
(*****************************************************************************)
(* The durable sessions of tool_session/store.py with the persistent shells  *)
(* they own (ops/shell.py) and the locks around both: the lifecycle lease of *)
(* a session (tool_session/lifecycle.py), the transactions of the registry   *)
(* and of each session, and the admission lock of the shells.                *)
(*                                                                           *)
(* Each member of Procs is a server process that carries out one operation   *)
(* at a time; all locks are lock files, so two processes and two tasks of    *)
(* one process meet in the same way.  A store operation under one transaction*)
(* is a step; one that takes several locks has a step for each.  The times   *)
(* of a session are an age: 0 within the active window, 1 beyond it, 2 beyond*)
(* the retention.                                                            *)
(*****************************************************************************)
EXTENDS FiniteSets, Naturals

CONSTANTS Procs,        \* server processes (or tasks)
          Sids,         \* session ids, numbers so that they can be sorted
          Shells,       \* names of persistent shells
          MaxSessions,  \* max_agent_sessions
          MaxShells,    \* max_tmux_sessions
          MaxOps,       \* bound on the operations of a behaviour
          MaxGrown,     \* bound on the aging of sessions in a behaviour
          Kinds,        \* the operations that are exercised
          Nobody        \* no process, session or shell

AllKinds == {"create", "list", "end", "job", "shell", "kill", "shells", "admit", "use",
             "terminate"}

ASSUME SessionsAssumption ==
  /\ Sids \subseteq Nat \ {0}
  /\ MaxSessions \in Nat \ {0} /\ MaxShells \in Nat \ {0} /\ MaxOps \in Nat /\ MaxGrown \in Nat
  /\ Kinds \subseteq AllKinds
  /\ Nobody \notin Procs \cup Sids \cup Shells \cup {0}

VARIABLES sess,       \* the metadata on disk
          drawn,      \* the ids that were given out
          job,        \* the sessions with an active job row
          live,       \* the owner tag of each running shell, or Nobody
          lease, tx, registry, admission,       \* holders of the locks
          act,        \* what each process does
          ops,        \* operations begun
          grown       \* times a session has aged

locks == <<lease, tx, registry, admission>>
sessVars == <<sess, drawn, job, live, locks, act, ops, grown>>

Gone == [up |-> FALSE, age |-> 0, term |-> FALSE, remote |-> FALSE, shells |-> {}]
Fresh(remote) == [Gone EXCEPT !.up = TRUE, !.remote = remote]
Up == {s \in Sids : sess[s].up}
Untagged == 0       \* a shell that no session started
Running == {x \in Shells : live[x] # Nobody}

Idle == [pc |-> "idle", s |-> Nobody, x |-> Nobody, todo |-> {}, seen |-> {},
         n |-> 0, slots |-> 0, ok |-> FALSE]

\* Local sessions were created before, as many as there may be.
SessInit ==
  /\ \E k \in 0..MaxSessions : drawn = {s \in Sids : s <= k}
  /\ sess = [s \in Sids |-> IF s \in drawn THEN Fresh(FALSE) ELSE Gone]
  /\ job = {} /\ ops = 0 /\ grown = 0
  /\ live = [x \in Shells |-> Nobody]
  /\ lease = [s \in Sids |-> Nobody] /\ tx = [s \in Sids |-> Nobody]
  /\ registry = Nobody /\ admission = Nobody
  /\ act = [p \in Procs |-> Idle]

At(p, pc) == act[p].pc = pc
GoesTo(p, pc) == act' = [act EXCEPT ![p].pc = pc]
Sid(p) == act[p].s
Shell(p) == act[p].x

Begin(p, kind, new) ==
  /\ At(p, "idle") /\ ops < MaxOps /\ kind \in Kinds
  /\ ops' = ops + 1
  /\ act' = [act EXCEPT ![p] = new]
  /\ UNCHANGED <<sess, drawn, job, live, locks, grown>>

BeginAny(p) ==
  \/ Begin(p, "create", [Idle EXCEPT !.pc = "prune", !.slots = 1])
  \/ Begin(p, "list", [Idle EXCEPT !.pc = "prune"])
  \/ \E s \in Sids : \/ Begin(p, "end", [Idle EXCEPT !.pc = "end", !.s = s])
                     \/ Begin(p, "job", [Idle EXCEPT !.pc = "job", !.s = s])
                     \/ Begin(p, "use", [Idle EXCEPT !.pc = "use", !.s = s])
  \/ \E x \in Shells :
       \/ \E s \in Sids : Begin(p, "shell", [Idle EXCEPT !.pc = "shell", !.s = s, !.x = x])
       \/ Begin(p, "shell", [Idle EXCEPT !.pc = "admission", !.x = x])
       \/ Begin(p, "kill", [Idle EXCEPT !.pc = "kill", !.x = x])
  \/ Begin(p, "shells", [Idle EXCEPT !.pc = "admission"])
  \/ \E S \in SUBSET Sids : Cardinality(S) = 2 /\ Begin(p, "admit", [Idle EXCEPT !.pc = "admit", !.todo = S])

\* Every lock the process holds is released: the end of an operation, and what
\* the operating system does for a process that died.
Without(p, holder) == [k \in DOMAIN holder |-> IF holder[k] = p THEN Nobody ELSE holder[k]]
Finish(p) ==
  /\ lease' = Without(p, lease) /\ tx' = Without(p, tx)
  /\ registry' = (IF registry = p THEN Nobody ELSE registry)
  /\ admission' = (IF admission = p THEN Nobody ELSE admission)
  /\ act' = [act EXCEPT ![p] = Idle]

GiveUp(p) == Finish(p) /\ UNCHANGED <<sess, drawn, job, live, ops, grown>>
Write(new) == sess' = new /\ UNCHANGED <<drawn, job, live, ops, grown>>

\* session_expired_by_policy, and the protection by shells and by jobs.
Unprotected(s) == sess[s].shells = {} /\ s \notin job
Expired(s) == sess[s].up /\ sess[s].age = 2 /\ Unprotected(s)
Current(s) == sess[s].up /\ ~Expired(s)

Touched(s) == [sess EXCEPT ![s].age = 0]
Removed(s) == [sess EXCEPT ![s] = Gone]

\* session_lifecycle_lock, held until the operation ends.
LeaseStart(p) ==
  /\ act[p].pc \in {"end", "job", "shell"}
  /\ lease' = [lease EXCEPT ![Sid(p)] = p]
  /\ GoesTo(p, CASE At(p, "end") -> "prepare" [] At(p, "job") -> "jobTouch"
               [] At(p, "shell") -> "shellTouch")
  /\ UNCHANGED <<sess, drawn, job, live, tx, registry, admission, ops, grown>>

\* Fault: the lock excludes only the tasks of one process.
TakeLeaseAlone(p) == LeaseStart(p)
TakeLease(p) == LeaseStart(p) /\ lease[Sid(p)] = Nobody

--------------------------------------------------------------------------------
\* _prune_sessions_locked, for list_sessions and create_session.
PrunesExpired(s) == Expired(s) /\ ~sess[s].remote
PrunesOverflow(s) == sess[s].up /\ ~sess[s].remote /\ sess[s].age >= 1 /\ Unprotected(s)
Target(p) == MaxSessions - act[p].slots

StartPruning(p) ==
  /\ At(p, "prune")
  /\ registry' = p
  /\ act' = [act EXCEPT ![p].pc = "expired", ![p].seen = job,
                        ![p].todo = {s \in Sids : PrunesExpired(s)}]
  /\ UNCHANGED <<sess, drawn, job, live, lease, tx, admission, ops, grown>>

\* Fault: the registry is read without its transaction.
TakeRegistryUnlocked(p) == StartPruning(p)
TakeRegistry(p) == registry = Nobody /\ StartPruning(p)

\* Fault: the candidate's lease is waited for.
TryCandidateWaiting(p) ==
  /\ act[p].pc \in {"expired", "overflow"}
  /\ \E s \in act[p].todo :
       /\ At(p, "overflow") => \A t \in act[p].todo : sess[t].age <= sess[s].age
       /\ lease[s] = Nobody
       /\ lease' = [lease EXCEPT ![s] = p]
       /\ act' = [act EXCEPT ![p].s = s,
                    ![p].pc = IF At(p, "expired") THEN "expiredAgain" ELSE "overflowAgain"]
  /\ UNCHANGED <<sess, drawn, job, live, tx, registry, admission, ops, grown>>

\* try_session_lifecycle_lease for a candidate; overflow takes the oldest first.
TryCandidate(p) ==
  /\ act[p].pc \in {"expired", "overflow"}
  /\ \E s \in act[p].todo :
       /\ At(p, "overflow") => \A t \in act[p].todo : sess[t].age <= sess[s].age
       /\ \/ /\ lease[s] = Nobody
             /\ lease' = [lease EXCEPT ![s] = p]
             /\ act' = [act EXCEPT ![p].s = s,
                          ![p].pc = IF At(p, "expired") THEN "expiredAgain" ELSE "overflowAgain"]
          \/ /\ lease[s] # Nobody
             /\ act' = [act EXCEPT ![p].todo = @ \ {s}]
             /\ UNCHANGED lease
  /\ UNCHANGED <<sess, drawn, job, live, tx, registry, admission, ops, grown>>

\* Fault: the candidates of the first look are removed.
PrunesAnyhow(p) == TRUE

\* What the second look under the session's transaction decides.
Prunes(p) == IF At(p, "expiredAgain") THEN PrunesExpired(Sid(p))
             ELSE Cardinality(Up) > Target(p) /\ PrunesOverflow(Sid(p))

PruneCandidate(p) ==
  /\ act[p].pc \in {"expiredAgain", "overflowAgain"} /\ tx[Sid(p)] = Nobody
  /\ sess' = (IF Prunes(p) THEN Removed(Sid(p)) ELSE sess)
  /\ lease' = [lease EXCEPT ![Sid(p)] = Nobody]
  /\ LET over == At(p, "overflowAgain") IN
     act' = [act EXCEPT
       ![p].pc = IF over THEN "overflow" ELSE "expired",
       ![p].s = Nobody,
       ![p].n = IF over THEN Cardinality({s \in Sids : sess'[s].up}) ELSE @,
       ![p].todo = IF over /\ Cardinality(Up) <= Target(p) THEN {} ELSE @ \ {Sid(p)}]
  /\ UNCHANGED <<drawn, job, live, tx, registry, admission, ops, grown>>

StartOverflow(p) ==
  /\ At(p, "expired") /\ act[p].todo = {}
  /\ act' = [act EXCEPT
       ![p].pc = "overflow", ![p].n = Cardinality(Up),
       ![p].todo = IF Cardinality(Up) <= Target(p) THEN {}
                   ELSE {s \in Up : /\ ~sess[s].remote /\ sess[s].age >= 1
                                    /\ sess[s].shells = {} /\ s \notin act[p].seen}]
  /\ UNCHANGED <<sess, drawn, job, live, locks, ops, grown>>

\* The rest of create_session, or of list_sessions.
EndPruning(p) ==
  /\ At(p, "overflow") /\ act[p].todo = {}
  /\ \/ /\ act[p].slots = 1 /\ act[p].n < MaxSessions
        /\ \E s \in Sids \ drawn, remote \in BOOLEAN :
             /\ sess' = [sess EXCEPT ![s] = Fresh(remote)]
             /\ drawn' = drawn \cup {s}
        /\ UNCHANGED <<job, live, ops, grown>>
     \/ /\ act[p].slots = 0 \/ act[p].n >= MaxSessions \/ drawn = Sids
        /\ UNCHANGED <<sess, drawn, job, live, ops, grown>>
  /\ Finish(p)

--------------------------------------------------------------------------------
\* touch_session and the other calls that require a current session.  Expiry is
\* decided and acted upon within the session's transaction.
Use(p) ==
  /\ At(p, "use") /\ tx[Sid(p)] = Nobody
  /\ \/ /\ Current(Sid(p))
        /\ Write(Touched(Sid(p))) /\ Finish(p)
     \/ ~sess[Sid(p)].up /\ GiveUp(p)
     \/ /\ Expired(Sid(p))
        /\ tx' = [tx EXCEPT ![Sid(p)] = p] /\ GoesTo(p, "drop")
        /\ UNCHANGED <<sess, drawn, job, live, lease, registry, admission, ops, grown>>

\* An expired session is removed, unless it is remote or its lease is taken.
Droppable(s) == ~sess[s].remote /\ lease[s] = Nobody
DropExpired(p) ==
  /\ At(p, "drop")
  /\ Write(IF Droppable(Sid(p)) THEN Removed(Sid(p)) ELSE sess)
  /\ Finish(p)

\* admit_tool_sessions: the transactions in sorted order, then all checks, then
\* all writes.
AdmitLock(p) ==
  /\ At(p, "admit")
  /\ \E s \in act[p].todo :
       /\ \A t \in act[p].todo : s <= t
       /\ tx[s] = Nobody
       /\ tx' = [tx EXCEPT ![s] = p]
       /\ act' = [act EXCEPT ![p].todo = @ \ {s}, ![p].seen = @ \cup {s}]
  /\ UNCHANGED <<sess, drawn, job, live, lease, registry, admission, ops, grown>>

Admissible(p) ==
  /\ At(p, "admit") /\ act[p].todo = {}
  /\ \A s \in act[p].seen : Current(s) /\ ~sess[s].term
  /\ GoesTo(p, "admitted")

\* Fault: the transactions end with the checks.
AdmitCheckAlone(p) ==
  /\ Admissible(p)
  /\ tx' = Without(p, tx)
  /\ UNCHANGED <<sess, drawn, job, live, lease, registry, admission, ops, grown>>
AdmitCheck(p) == Admissible(p) /\ UNCHANGED <<sess, drawn, job, live, locks, ops, grown>>

AdmitRefused(p) ==
  /\ At(p, "admit") /\ act[p].todo = {}
  /\ \E s \in act[p].seen :
       /\ ~Current(s) \/ sess[s].term
       /\ Write(IF Expired(s) /\ Droppable(s) THEN Removed(s) ELSE sess)
  /\ Finish(p)

AdmitWrite(p) ==
  /\ At(p, "admitted")
  /\ Write([s \in Sids |-> IF s \in act[p].seen THEN [sess[s] EXCEPT !.age = 0] ELSE sess[s]])
  /\ Finish(p)

\* request_termination, by the human operator.
Terminate(s) ==
  /\ "terminate" \in Kinds /\ ops < MaxOps
  /\ tx[s] = Nobody /\ Current(s)
  /\ sess' = [sess EXCEPT ![s].age = 0, ![s].term = TRUE]
  /\ ops' = ops + 1
  /\ UNCHANGED <<drawn, job, live, locks, act, grown>>

\* An operation that holds the lease touches its session, or finds it gone.
LeasedTouch(p, from, to) ==
  /\ At(p, from) /\ tx[Sid(p)] = Nobody
  /\ \/ /\ Current(Sid(p)) /\ (from = "shellTouch" => ~sess[Sid(p)].remote)
        /\ Write(Touched(Sid(p)))
        /\ GoesTo(p, to) /\ UNCHANGED locks
     \/ ~Current(Sid(p)) /\ GiveUp(p)
     \/ from = "shellTouch" /\ sess[Sid(p)].remote /\ GiveUp(p)

\* job_start_execute: the row that marks the job active.
StartJob(p) ==
  /\ At(p, "jobStart")
  /\ job' = job \cup {Sid(p)}
  /\ Finish(p)
  /\ UNCHANGED <<sess, drawn, live, ops, grown>>

--------------------------------------------------------------------------------
\* _persistent_shell_admission_lock.
Admit(p) ==
  /\ At(p, "admission")
  /\ admission' = p
  /\ GoesTo(p, IF Sid(p) = Nobody THEN "inventory" ELSE "reserve")
  /\ UNCHANGED <<sess, drawn, job, live, lease, tx, registry, ops, grown>>

\* Fault: every process counts for itself.
TakeAdmissionAlone(p) == Admit(p)
TakeAdmission(p) == admission = Nobody /\ Admit(p)

\* reserve_persistent_shell(exclusive=True); ok records whether it was added.
Reserve(p) ==
  /\ At(p, "reserve") /\ tx[Sid(p)] = Nobody
  /\ IF Current(Sid(p)) /\ \A t \in Up \ {Sid(p)} : Shell(p) \notin sess[t].shells
     THEN /\ act' = [act EXCEPT ![p].pc = "inventory",
                                ![p].n = IF Shell(p) \in sess[Sid(p)].shells THEN 0 ELSE 1]
          /\ Write(IF Shell(p) \in sess[Sid(p)].shells THEN sess
                   ELSE [sess EXCEPT ![Sid(p)].age = 0, ![Sid(p)].shells = @ \cup {Shell(p)}])
          /\ UNCHANGED locks
     ELSE GiveUp(p)

\* The inventory, from which reconcile_persistent_shells drops the dead shells of
\* every session; the reserved name is kept.  It can also be unavailable.
Inventory(p) ==
  /\ At(p, "inventory")
  /\ \/ LET keep == Running \cup (IF Sid(p) = Nobody THEN {} ELSE {Shell(p)}) IN
        act' = [act EXCEPT ![p].pc = "reconcile", ![p].seen = keep,
                           ![p].todo = {s \in Up : ~(sess[s].shells \subseteq keep)},
                           ![p].ok = /\ Shell(p) \in Shells \ Running
                                     /\ Cardinality(Running) < MaxShells]
     \/ GoesTo(p, "failed")
  /\ UNCHANGED <<sess, drawn, job, live, locks, ops, grown>>

Reconcile(p) ==
  /\ At(p, "reconcile")
  /\ \E s \in act[p].todo :
       /\ tx[s] = Nobody
       /\ Write([sess EXCEPT ![s].shells = @ \cap act[p].seen])
       /\ act' = [act EXCEPT ![p].todo = @ \ {s}]
  /\ UNCHANGED locks

Reconciled(p) ==
  /\ At(p, "reconcile") /\ act[p].todo = {}
  /\ GoesTo(p, IF act[p].ok THEN "start" ELSE "failed")
  /\ UNCHANGED <<sess, drawn, job, live, locks, ops, grown>>

\* The backend starts the shell with its owner tag, fails and cleans up, or fails
\* with the cleanup unconfirmed: then the reservation stays.
Tag(p) == IF Sid(p) = Nobody THEN Untagged ELSE Sid(p)
StartShell(p) ==
  /\ At(p, "start")
  /\ \/ /\ live' = [live EXCEPT ![Shell(p)] = Tag(p)]
        /\ IF Sid(p) = Nobody THEN Finish(p)
           ELSE GoesTo(p, "register") /\ admission' = Nobody /\ UNCHANGED <<lease, tx, registry>>
     \/ GoesTo(p, "failed") /\ UNCHANGED <<live, locks>>
     \/ live' \in {live, [live EXCEPT ![Shell(p)] = Tag(p)]} /\ Finish(p)
  /\ UNCHANGED <<sess, drawn, job, ops, grown>>

\* A reservation that this start added is released, every lock given back.
StartFailed(p) ==
  /\ At(p, "failed")
  /\ Sid(p) # Nobody => tx[Sid(p)] = Nobody
  /\ Write(IF Sid(p) # Nobody /\ act[p].n = 1
           THEN [sess EXCEPT ![Sid(p)].shells = @ \ {Shell(p)}] ELSE sess)
  /\ Finish(p)

\* bash_execute: register_persistent_shell, or the shell is killed again.
RegisterShell(p) ==
  /\ At(p, "register") /\ tx[Sid(p)] = Nobody
  /\ IF Current(Sid(p))
     THEN Write([sess EXCEPT ![Sid(p)].age = 0, ![Sid(p)].shells = @ \cup {Shell(p)}])
          /\ Finish(p)
     ELSE GoesTo(p, "kill") /\ UNCHANGED <<sess, drawn, job, live, locks, ops, grown>>

\* kill_persistent_shell_execute: the backend's kill by name, then the release of
\* the name in every session that had it, without any lock around both.
KillShell(p) ==
  /\ act[p].pc \in {"kill", "endKill"}
  /\ \/ /\ live[Shell(p)] # Nobody
        /\ live' = [live EXCEPT ![Shell(p)] = Nobody]
        /\ act' = [act EXCEPT ![p].pc = IF @ = "kill" THEN "release" ELSE "endRelease",
                              ![p].seen = {s \in Up : Shell(p) \in sess[s].shells}]
        /\ UNCHANGED <<sess, drawn, job, locks, ops, grown>>
     \/ live[Shell(p)] = Nobody /\ At(p, "kill") /\ GiveUp(p)
     \/ /\ live[Shell(p)] = Nobody /\ At(p, "endKill") /\ GoesTo(p, "endShells")
        /\ UNCHANGED <<sess, drawn, job, live, locks, ops, grown>>

ReleaseShell(p) ==
  /\ act[p].pc \in {"release", "endRelease"}
  /\ \/ \E s \in act[p].seen :
          /\ tx[s] = Nobody
          /\ Write([sess EXCEPT ![s].shells = @ \ {Shell(p)}])
          /\ act' = [act EXCEPT ![p].seen = @ \ {s}]
          /\ UNCHANGED locks
     \/ act[p].seen = {} /\ At(p, "release") /\ GiveUp(p)
     \/ /\ act[p].seen = {} /\ At(p, "endRelease") /\ GoesTo(p, "endShells")
        /\ UNCHANGED <<sess, drawn, job, live, locks, ops, grown>>

--------------------------------------------------------------------------------
\* session_end_execute under the lease: prepare_session_termination, the jobs,
\* the shells that carry the owner's tag, and the removal of the session.
Prepare(p) ==
  /\ At(p, "prepare") /\ tx[Sid(p)] = Nobody
  /\ IF sess[Sid(p)].up
     THEN /\ Write([sess EXCEPT ![Sid(p)].age = 0, ![Sid(p)].term = TRUE])
          /\ GoesTo(p, "endJobs") /\ UNCHANGED locks
     ELSE GiveUp(p)

\* A stop, or the worker's part of a remote session, that is not confirmed ends
\* the teardown.
EndJobs(p) ==
  /\ At(p, "endJobs")
  /\ \/ /\ job' = job \ {Sid(p)}
        /\ GoesTo(p, IF sess[Sid(p)].remote THEN "endShells" ELSE "endList")
        /\ UNCHANGED <<sess, drawn, live, locks, ops, grown>>
     \/ GiveUp(p)

Owned(s) == {x \in Shells : live[x] = s}
EndList(p) ==
  /\ At(p, "endList")
  /\ \/ /\ tx[Sid(p)] = Nobody
        /\ Write([sess EXCEPT ![Sid(p)].shells = Owned(Sid(p))])
        /\ act' = [act EXCEPT ![p].pc = "endShells", ![p].todo = Owned(Sid(p))]
        /\ UNCHANGED locks
     \/ GiveUp(p)

\* Each shell is looked up again before it is killed.
EndShell(p) ==
  /\ At(p, "endShells")
  /\ \E x \in act[p].todo :
       \/ /\ live[x] = Sid(p)
          /\ act' = [act EXCEPT ![p].pc = "endKill", ![p].x = x, ![p].todo = @ \ {x}]
          /\ UNCHANGED sess
       \/ /\ live[x] # Sid(p) /\ tx[Sid(p)] = Nobody
          /\ sess' = [sess EXCEPT ![Sid(p)].shells = Owned(Sid(p))]
          /\ act' = [act EXCEPT ![p].todo = @ \ {x}]
  /\ UNCHANGED <<drawn, job, live, locks, ops, grown>>

\* end_session: the registry's transaction, then the session's.
EndRegistry(p) ==
  /\ At(p, "endShells") /\ act[p].todo = {} /\ registry = Nobody
  /\ registry' = p /\ GoesTo(p, "remove")
  /\ UNCHANGED <<sess, drawn, job, live, lease, tx, admission, ops, grown>>

EndSession(p) ==
  /\ At(p, "remove") /\ tx[Sid(p)] = Nobody
  /\ Write(Removed(Sid(p))) /\ Finish(p)

--------------------------------------------------------------------------------
\* Time passes a window, or both: no operation lasts as long as the retention.
Grow(s) ==
  /\ sess[s].up /\ grown < MaxGrown /\ grown' = grown + 1
  /\ \E age \in sess[s].age + 1..2 :
       /\ age = 2 => lease[s] = Nobody
       /\ sess' = [sess EXCEPT ![s].age = age]
  /\ UNCHANGED <<drawn, job, live, locks, act, ops>>

JobEnds(s) == s \in job /\ job' = job \ {s} /\ UNCHANGED <<sess, drawn, live, locks, act, ops, grown>>

ShellExits(x) ==
  /\ live[x] # Nobody /\ live' = [live EXCEPT ![x] = Nobody]
  /\ UNCHANGED <<sess, drawn, job, locks, act, ops, grown>>

\* The process of an operation dies, or its caller cancels it.
Dies(p) == ~At(p, "idle") /\ GiveUp(p)

SessStep(p) ==
  \/ TakeLease(p)
  \/ TakeRegistry(p) \/ TryCandidate(p) \/ PruneCandidate(p) \/ StartOverflow(p) \/ EndPruning(p)
  \/ Use(p) \/ DropExpired(p)
  \/ AdmitLock(p) \/ AdmitCheck(p) \/ AdmitRefused(p) \/ AdmitWrite(p)
  \/ LeasedTouch(p, "jobTouch", "jobStart") \/ StartJob(p)
  \/ LeasedTouch(p, "shellTouch", "admission")
  \/ TakeAdmission(p) \/ Reserve(p) \/ Inventory(p) \/ Reconcile(p) \/ Reconciled(p)
  \/ StartShell(p) \/ StartFailed(p) \/ RegisterShell(p) \/ KillShell(p) \/ ReleaseShell(p)
  \/ Prepare(p) \/ EndJobs(p) \/ EndList(p) \/ EndShell(p) \/ EndRegistry(p) \/ EndSession(p)

SessNext ==
  \/ \E p \in Procs : BeginAny(p) \/ SessStep(p) \/ Dies(p)
  \/ \E s \in Sids : Terminate(s) \/ Grow(s) \/ JobEnds(s)
  \/ \E x \in Shells : ShellExits(x)

SessSpec == SessInit /\ [][SessNext]_sessVars

--------------------------------------------------------------------------------
\* Every variable keeps its type, and each lock its one holder.
SessTypeOK ==
  /\ sess \in [Sids -> [up : BOOLEAN, age : 0..2, term : BOOLEAN, remote : BOOLEAN,
                        shells : SUBSET Shells]]
  /\ Up \subseteq drawn /\ drawn \subseteq Sids /\ job \subseteq Sids
  /\ live \in [Shells -> Sids \cup {Untagged, Nobody}]
  /\ lease \in [Sids -> Procs \cup {Nobody}] /\ tx \in [Sids -> Procs \cup {Nobody}]
  /\ registry \in Procs \cup {Nobody} /\ admission \in Procs \cup {Nobody}
  /\ \A p \in Procs : At(p, "admitted") => \A s \in act[p].seen : tx[s] = p

\* max_agent_sessions holds across server processes.
SessionLimit == Cardinality(Up) <= MaxSessions

\* max_tmux_sessions holds across server processes.
ShellLimit == Cardinality(Running) <= MaxShells

\* The comment in admit_tool_sessions: "termination cannot become durable between
\* those two steps".
AdmittedAreActive ==
  \A p \in Procs : At(p, "admitted") =>
    \A s \in act[p].seen : sess[s].up /\ ~sess[s].term

\* The limits hold and what was admitted together is active together.
SessionsSound == SessTypeOK /\ SessionLimit /\ ShellLimit /\ AdmittedAreActive

\* docs/security.md: a concurrent touch, shell registration or job admission
\* prevents the deletion of a session.  Other than by its own teardown a session
\* goes only when it is idle and local, nothing protects it, and no operation
\* holds its lease.
Tears(p, s) == At(p, "remove") /\ Sid(p) = s
Prunes2(p) == act[p].pc \in {"expiredAgain", "overflowAgain"}
UsedIsKept ==
  [][\A s \in Sids : sess[s].up /\ ~sess'[s].up =>
       \/ \E p \in Procs : Tears(p, s)
       \/ /\ Unprotected(s) /\ sess[s].age >= 1 /\ ~sess[s].remote
          /\ \A p \in Procs : lease[s] = p => Prunes2(p)]_sessVars

\* A session that was torn down leaves no active job and no shell with its tag,
\* whatever was being started for it.
TornDownIsQuiet ==
  [][\A s \in Sids, p \in Procs : sess[s].up /\ ~sess'[s].up /\ Tears(p, s) =>
       s \notin job /\ Owned(s) = {}]_sessVars

\* What is used stays, and what has gone leaves nothing behind.
SessionsEndRightly == UsedIsKept /\ TornDownIsQuiet
================================================================================
