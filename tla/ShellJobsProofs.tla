---------------------------- MODULE ShellJobsProofs ----------------------------
(*****************************************************************************)
(* Shell-backed jobs: JobsAgree and FreshAttempt hold of every behaviour of  *)
(* Spec, for any callers, servers and jobs and any number of attempts. The   *)
(* invariant ties a row to the disk in two ways. It counts: the attempts     *)
(* that got a shell are at most those the row has counted, or is about to    *)
(* (RowCounts). And it names: a command that runs belongs to the attempt     *)
(* that the row says may run, and the row points at the status file of the   *)
(* same attempt (RowNames). The one request that has the lifecycle lock      *)
(* relies on an inventory that still has every shell that lives (Covers),    *)
(* and on the row that it wrote before it went on (Launching). A request     *)
(* that is interrupted leaves both parts true, which is why nothing has to   *)
(* be undone.                                                                *)
(*****************************************************************************)
EXTENDS ShellJobs, TLAPS

ARow == [status : Statuses, shell : 0 .. MaxAttempts, path : 0 .. MaxAttempts,
         attempts : 0 .. MaxAttempts, pending : 0 .. MaxAttempts, paths : BOOLEAN,
         token : Callers \cup {None}]
OpPcs == {"idle", "sampled", "tailing", "preparing", "spawning", "spawned", "killing", "killed",
          "missed", "ending", "clearing"}
OpKinds == {"list", "tail", "start", "retry", "stop", "end", "none"}
AnOp == [pc : OpPcs, kind : OpKinds, job : Jobs \cup {None}, seen : (SUBSET Shells) \cup {Unknown},
         todo : SUBSET Jobs, owns : Jobs \cup {None}]
Present == {"starting", "running", "stopping", "lost"}
Absent == {"none", "evicted"}

\* What is on disk of an attempt: a verdict is that of its runner, which has ended, and
\* of an attempt that no shell was started for there is nothing.
DiskInv ==
  /\ shells \in [Shells -> {"none", "up", "done"}]
  /\ files \in [Shells -> Verdicts \cup {"none"}]
  /\ truth \in [Shells -> Verdicts \cup {"none"}]
  /\ launched \in [Jobs -> 0 .. MaxAttempts]
  /\ stray \subseteq Shells
  /\ \A j \in Jobs, a \in Attempts :
       /\ files[<<j, a>>] # "none" => truth[<<j, a>>] = files[<<j, a>>] /\ shells[<<j, a>>] # "up"
       /\ a > launched[j] => shells[<<j, a>>] = "none" /\ files[<<j, a>>] = "none"
       /\ <<j, a>> \in stray => a <= launched[j]

\* A row counts the attempts that got a shell, and names the one whose shell may run.
Number(r) == IF r.status = "retrying" THEN r.pending ELSE r.attempts
RowCounts(j, r) ==
  /\ r.pending # 0 <=> r.status = "retrying"
  /\ r.status = "retrying" => r.pending = r.attempts + 1
  /\ r.paths => r.status = "retrying"
  /\ r.status = "none" => launched[j] = 0
  /\ r.status \notin Absent => launched[j] <= Number(r)
  /\ r.status = "retrying" /\ ~r.paths => launched[j] <= r.attempts
  /\ r.status \notin Absent => \A a \in Attempts : <<j, a>> \in stray => a <= r.attempts
RowNames(j, r) ==
  /\ r.status \in Present \cup {"succeeded"} => r.shell # 0 /\ <<j, r.shell>> \notin stray
  /\ r.status \in Present => r.path = r.shell
  /\ \A a \in Attempts : shells[<<j, a>>] = "up" /\ <<j, a>> \notin stray =>
       \/ r.status \in {"starting", "running", "stopping"} /\ r.shell = a
       \/ r.status = "retrying" /\ r.pending = a
  /\ r.status = "succeeded" => truth[<<j, r.shell>>] = "succeeded"
  /\ r.status = "lost" => files[<<j, r.path>>] = "none"
RowInv(j, r) == r \in ARow /\ RowCounts(j, r) /\ RowNames(j, r)

\* An inventory has every shell that lives; those that are not in it had one before, if any.
Covers(seen) == seen # Unknown => Live \subseteq seen /\ \A s \in seen : s[2] <= launched[s[1]]

\* What the operation in flight relies on.
Launching(c) ==
  LET r == rows[op[c].job] IN
  /\ op[c].kind \in {"start", "retry"} /\ Owns(c)
  /\ op[c].kind = "start" => r.shell = 1 /\ r.path = 1 /\ r.attempts = 1
                             /\ op[c].pc # "preparing"
  /\ op[c].kind = "retry" /\ op[c].pc # "preparing" => r.paths
  /\ op[c].pc # "spawned" => launched[op[c].job] < Attempt(c)
OpInv(c) ==
  /\ op[c] \in AnOp
  /\ op[c].pc \in {"idle", "sampled", "tailing", "ending", "clearing"} => op[c].owns = None
  /\ op[c].pc # "idle" /\ op[c].kind # "list" => ~over
  /\ op[c].kind = "list" => op[c].pc = "sampled"
  /\ op[c].pc \in {"ending", "clearing"} => op[c].kind = "end"
  /\ op[c].pc \in {"sampled", "tailing", "missed", "clearing"} => Covers(op[c].seen)
  /\ op[c].pc = "sampled" /\ op[c].kind \notin {"list", "end"} => op[c].job \in Jobs
  /\ op[c].pc = "sampled" /\ op[c].kind = "start" => rows[op[c].job].status = "none"
  /\ op[c].pc = "clearing" => op[c].seen # Unknown
  /\ op[c].pc = "tailing" =>
       /\ op[c].job \in Jobs
       /\ LET r == rows[op[c].job] IN
            r.status = "running" /\ op[c].seen # Unknown => <<op[c].job, r.shell>> \in op[c].seen
  /\ op[c].pc \in {"preparing", "spawning", "spawned"} => op[c].job \in Jobs /\ Launching(c)
  /\ op[c].pc \in {"killing", "killed", "missed"} =>
       /\ op[c].job \in Jobs
       /\ rows[op[c].job].status = "stopping" /\ rows[op[c].job].token = c
  /\ op[c].pc = "killed" => shells[Target(c)] = "none"
OneOp == \A c, d \in Callers : op[c].pc # "idle" /\ op[d].pc # "idle" => c = d

ShellJobsInv ==
  /\ DiskInv /\ OneOp /\ over \in BOOLEAN
  /\ rows \in [Jobs -> ARow]
  /\ DOMAIN op = Callers
  /\ \A j \in Jobs : RowInv(j, rows[j])
  /\ \A c \in Callers : OpInv(c)
  /\ over => Live = {}
--------------------------------------------------------------------------------
(* One request at a time has the lock: the others rest and own nothing.               *)
LEMMA OthersRest ==
  ASSUME ShellJobsInv, NEW c \in Callers, op[c].pc # "idle"
  PROVE  \A d \in Callers \ {c} : op[d].pc = "idle" /\ op[d].owns = None
BY DEF ShellJobsInv, OneOp, OpInv

LEMMA OpBecomes ==
  ASSUME ShellJobsInv, NEW c \in Callers, NEW o, Become(c, o)
  PROVE  /\ op'[c] = o /\ DOMAIN op' = Callers
         /\ \A d \in Callers \ {c} : op'[d] = op[d]
BY DEF ShellJobsInv, Become

LEMMA RowSet ==
  ASSUME ShellJobsInv, NEW j \in Jobs, NEW r, SetRow(j, r), r \in ARow
  PROVE  /\ rows' \in [Jobs -> ARow] /\ rows'[j] = r
         /\ \A k \in Jobs \ {j} : rows'[k] = rows[k]
BY DEF ShellJobsInv, SetRow

(* What a step of the request with the lock has to show.                              *)
LEMMA OpStep ==
  ASSUME ShellJobsInv, NEW c \in Callers, \A d \in Callers \ {c} : op[d].pc = "idle",
         NEW o, Become(c, o), DiskInv', rows' \in [Jobs -> ARow],
         \A j \in Jobs : RowInv(j, rows[j])', OpInv(c)', over' \in BOOLEAN, over' => Live' = {}
  PROVE  ShellJobsInv'
<1>1. /\ DOMAIN op' = Callers /\ \A d \in Callers \ {c} : op'[d] = op[d]
  BY OpBecomes
<1>2. OneOp'
  BY <1>1 DEF OneOp
<1>3. ASSUME NEW d \in Callers PROVE OpInv(d)'
  <2>1. CASE d = c
    BY <2>1
  <2>2. CASE d # c
    <3>1. op'[d] = op[d] /\ op[d].pc = "idle" /\ op[d] \in AnOp /\ op[d].owns = None
      BY <1>1, <2>2 DEF ShellJobsInv, OpInv
    <3>2. op[d].kind # "list"
      BY <3>1 DEF ShellJobsInv, OpInv
    <3> QED BY <3>1, <3>2 DEF OpInv
  <2> QED BY <2>1, <2>2
<1> QED BY <1>1, <1>2, <1>3 DEF ShellJobsInv

(* What is on disk stays, and with it all that rows and inventories say of it.        *)
LEMMA DiskKept ==
  ASSUME UNCHANGED disk
  PROVE  /\ DiskInv => DiskInv'
         /\ Live' = Live
         /\ \A j \in Jobs : RowInv(j, rows'[j]) <=> RowInv(j, rows[j])'
         /\ \A seen : Covers(seen) <=> Covers(seen)'
BY DEF disk, DiskInv, Live, RowInv, RowCounts, RowNames, Covers

LEMMA RowsStep ==
  ASSUME ShellJobsInv, NEW c \in Callers, op[c].pc # "idle", NEW o, Become(c, o),
         UNCHANGED <<disk, over>>, rows' \in [Jobs -> ARow],
         \A j \in Jobs : RowInv(j, rows'[j]), OpInv(c)'
  PROVE  ShellJobsInv'
<1>1. DiskInv' /\ Live' = Live /\ \A j \in Jobs : RowInv(j, rows[j])'
  BY DiskKept DEF ShellJobsInv
<1> QED BY <1>1, OthersRest, OpStep DEF ShellJobsInv

(* The request ends.                                                                  *)
LEMMA IdleOp ==
  ASSUME ShellJobsInv, NEW c \in Callers, Become(c, Idle)
  PROVE  OpInv(c)'
<1>1. op'[c] = Idle
  BY OpBecomes
<1>2. Idle \in AnOp /\ Idle.pc = "idle" /\ Idle.owns = None /\ Idle.kind = "none"
  BY DEF Idle, AnOp, OpPcs, OpKinds
<1> QED BY <1>1, <1>2 DEF OpInv

--------------------------------------------------------------------------------
(* The refresh of a row under the lock: no other operation is in flight, and whoever  *)
(* is not in the inventory does not live.                                             *)
LEMMA NotInFlight ==
  ASSUME ShellJobsInv, NEW c \in Callers, op[c].pc = "sampled", NEW j \in Jobs
  PROVE  ~InFlight(c, j)
<1>1. \A d \in Callers : op[d].owns = None
  BY OthersRest, ZenonT(40) DEF ShellJobsInv, OpInv
<1>2. rows[j].token \in Callers \cup {None} /\ None \notin Jobs
  BY NoneAssumption DEF ShellJobsInv, ARow
<1> QED BY <1>1, <1>2 DEF InFlight

(* A row that settles keeps its counts and its shell.                                 *)
LEMMA SettledRow ==
  ASSUME NEW r \in ARow, NEW s \in Statuses
  PROVE  /\ Settled(r, s) \in ARow /\ Settled(r, s).status = s
         /\ Settled(r, s).shell = r.shell /\ Settled(r, s).path = r.path
         /\ Settled(r, s).attempts = r.attempts /\ Settled(r, s).pending = r.pending
         /\ Settled(r, s).paths = r.paths
BY DEF Settled, ARow

(* The pending attempt of a retry becomes the one that the row names.                 *)
LEMMA AdoptedRow ==
  ASSUME NEW r \in ARow
  PROVE  /\ Adopted(r) \in ARow /\ Adopted(r).status = r.status
         /\ Adopted(r).shell = r.pending /\ Adopted(r).attempts = r.pending
         /\ Adopted(r).pending = 0 /\ ~Adopted(r).paths
         /\ Adopted(r).path = (IF r.paths THEN r.pending ELSE r.path)
<1>1. 0 \in 0 .. MaxAttempts /\ FALSE \in BOOLEAN
  BY MaxAttemptsAssumption
<1> QED BY <1>1 DEF Adopted, NotPending, ARow

(* Before it is decided, a row of a job that may still run says where its verdict is  *)
(* and which shell it would be running in.                                            *)
Candidate(r) == IF r.status = "retrying" THEN Adopted(r) ELSE r
ReadFrom(r) == IF r.status = "retrying" /\ ~r.paths THEN 0 ELSE Candidate(r).path
CandidateFacts(j, r, new, read) ==
  /\ new \in ARow /\ new.status = r.status /\ new.pending = 0 /\ ~new.paths
  /\ new.shell \in Attempts /\ <<j, new.shell>> \notin stray
  /\ launched[j] <= new.attempts
  /\ \A a \in Attempts : <<j, a>> \in stray => a <= new.attempts
  /\ read # 0 => read = new.shell /\ new.path = new.shell
  /\ read = 0 => launched[j] < new.shell
  /\ \A a \in Attempts : shells[<<j, a>>] = "up" /\ <<j, a>> \notin stray => a = new.shell
  /\ r.status = "lost" => files[<<j, new.path>>] = "none"
  /\ r.status \in {"running", "lost"} => read # 0

LEMMA CandidateRow ==
  ASSUME ShellJobsInv, NEW j \in Jobs, NEW r, r = rows[j], r.status \in Active \cup {"lost"}
  PROVE  CandidateFacts(j, r, Candidate(r), ReadFrom(r))
<1> PICK new : new = Candidate(r)
  OBVIOUS
<1> PICK read : read = ReadFrom(r)
  OBVIOUS
<1> SUFFICES CandidateFacts(j, r, new, read)
  OBVIOUS
<1>1. /\ r \in ARow /\ RowCounts(j, r) /\ RowNames(j, r)
      /\ launched[j] \in Nat /\ MaxAttempts \in Nat \ {0}
  BY MaxAttemptsAssumption DEF ShellJobsInv, RowInv, DiskInv
<1>2. CASE r.status = "retrying"
  <2>1. /\ r.pending \in Attempts /\ r.pending = r.attempts + 1
        /\ r.attempts \in 0 .. MaxAttempts
    BY <1>1, <1>2 DEF RowCounts, ARow, Attempts
  <2>2. /\ new \in ARow /\ new.status = r.status /\ new.shell = r.pending /\ new.attempts = r.pending
        /\ new.pending = 0 /\ ~new.paths
        /\ new.path = (IF r.paths THEN r.pending ELSE r.path)
    <3>1. new = Adopted(r)
      BY <1>2 DEF Candidate
    <3>2. r \in ARow
      BY <1>1
    <3>3. PICK q \in ARow : q = r
      BY <3>2
    <3> QED BY <3>1, <3>3, AdoptedRow
  <2>3. \A a \in Attempts : <<j, a>> \in stray => a <= r.attempts
    BY <1>1, <1>2 DEF RowCounts, Absent
  <2>4. launched[j] <= r.pending /\ (~r.paths => launched[j] <= r.attempts)
    BY <1>1, <1>2 DEF RowCounts, Absent, Number
  <2>5. \A a \in Attempts : shells[<<j, a>>] = "up" /\ <<j, a>> \notin stray => a = r.pending
    BY <1>1, <1>2 DEF RowNames
  <2>6. read = (IF ~r.paths THEN 0 ELSE r.pending)
    <3>1. read = (IF ~r.paths THEN 0 ELSE new.path)
      BY <1>2 DEF ReadFrom
    <3> QED BY <2>2, <3>1
  <2>7. \A a \in Attempts : <<j, a>> \in stray => a <= r.pending /\ a # r.pending
    BY <2>1, <2>3 DEF Attempts
  <2> QED BY <1>1, <1>2, <2>1, <2>2, <2>4, <2>5, <2>6, <2>7 DEF Attempts, CandidateFacts
<1>3. CASE r.status # "retrying"
  <2>1. new = r /\ r.status \in Present
    BY <1>3 DEF Active, Present, Candidate
  <2>2. /\ r.shell \in Attempts /\ r.path = r.shell /\ <<j, r.shell>> \notin stray
        /\ r.pending = 0 /\ ~r.paths
    BY <1>1, <1>3, <2>1 DEF RowNames, RowCounts, ARow, Attempts
  <2>3. /\ launched[j] <= r.attempts
        /\ \A a \in Attempts : <<j, a>> \in stray => a <= r.attempts
    BY <1>1, <1>3, <2>1 DEF RowCounts, Absent, Number, Present
  <2>4. \A a \in Attempts : shells[<<j, a>>] = "up" /\ <<j, a>> \notin stray => a = r.shell
    BY <1>1, <1>3 DEF RowNames
  <2>5. read = r.path /\ read # 0
    BY <1>3, <2>1, <2>2 DEF Attempts, ReadFrom, Candidate
  <2>6. r.status = "lost" => files[<<j, r.path>>] = "none"
    BY <1>1 DEF RowNames
  <2> QED BY <1>1, <2>1, <2>2, <2>3, <2>4, <2>5, <2>6 DEF CandidateFacts
<1> QED BY <1>2, <1>3

(* _refresh_job_status: what it makes of a row is true of the attempt.                *)
LEMMA RefreshedInv ==
  ASSUME ShellJobsInv, NEW c \in Callers, op[c].pc = "sampled", NEW j \in Jobs
  PROVE  LET s == Refreshed(c, j, op[c].seen) IN
         /\ RowInv(j, s)
         /\ s.status \in Absent <=> rows[j].status \in Absent
         /\ s.status = "none" <=> rows[j].status = "none"
         /\ s.status = "running" /\ op[c].seen # Unknown => <<j, s.shell>> \in op[c].seen
<1>1. PICK r \in ARow : r = rows[j]
  BY DEF ShellJobsInv
<1>2. PICK seen : seen = op[c].seen
  OBVIOUS
<1>3. Covers(seen) /\ ~InFlight(c, j) /\ RowInv(j, r)
  BY <1>1, <1>2, NotInFlight DEF ShellJobsInv, OpInv
<1>4. PICK new : new = Candidate(r)
  OBVIOUS
<1>5. PICK read : read = ReadFrom(r)
  OBVIOUS
<1>6. PICK verdict : verdict = (IF read = 0 THEN "none" ELSE files[<<j, read>>])
  OBVIOUS
<1>7. Refreshed(c, j, seen) =
        IF r.status \notin Active \cup {"lost"} \/ InFlight(c, j) \/ (verdict = "none" /\ seen = Unknown)
          THEN r ELSE Decided(new, <<j, new.shell>>, verdict, seen)
  BY <1>1, <1>4, <1>5, <1>6 DEF Refreshed, Candidate, ReadFrom
<1>8. CASE r.status \notin Active \cup {"lost"}
  BY <1>1, <1>2, <1>3, <1>7, <1>8 DEF Active
<1>9. CASE r.status \in Active \cup {"lost"} /\ verdict = "none" /\ seen = Unknown
  BY <1>1, <1>2, <1>3, <1>7, <1>9
<1>10. CASE r.status \in Active \cup {"lost"} /\ ~(verdict = "none" /\ seen = Unknown)
  <2>0. CandidateFacts(j, r, new, read)
    BY <1>1, <1>4, <1>5, <1>10, CandidateRow
  <2>1. /\ new \in ARow /\ new.status = r.status /\ new.pending = 0 /\ ~new.paths
        /\ new.shell \in Attempts /\ <<j, new.shell>> \notin stray
        /\ launched[j] <= new.attempts
        /\ \A a \in Attempts : <<j, a>> \in stray => a <= new.attempts
        /\ read # 0 => read = new.shell /\ new.path = new.shell
        /\ read = 0 => launched[j] < new.shell
        /\ \A a \in Attempts : shells[<<j, a>>] = "up" /\ <<j, a>> \notin stray => a = new.shell
        /\ r.status = "lost" => files[<<j, new.path>>] = "none"
        /\ r.status \in {"running", "lost"} => read # 0
    BY <2>0 DEF CandidateFacts
  <2>2. PICK s : s = Refreshed(c, j, seen)
    OBVIOUS
  <2>3. s = Decided(new, <<j, new.shell>>, verdict, seen)
    BY <1>3, <1>7, <1>10, <2>2
  <2>31. verdict \in Verdicts \cup {"none"}
    <3>1. read # 0 => <<j, read>> \in Shells
      BY <2>1 DEF Shells
    <3> QED BY <1>6, <3>1 DEF ShellJobsInv, DiskInv
  <2>4. PICK status \in {"succeeded", "failed", "running", "stopped", "lost"} :
          /\ s = Settled(new, status)
          /\ verdict # "none" => status = verdict
          /\ verdict = "none" /\ status = "running" => <<j, new.shell>> \in seen
          /\ verdict = "none" /\ status # "running" => <<j, new.shell>> \notin seen
          /\ status = "lost" => r.status \in {"running", "lost"}
          /\ status = "succeeded" => verdict = "succeeded"
    <3>2. CASE verdict # "none"
      BY <2>3, <2>31, <3>2 DEF Decided, Verdicts
    <3>3. CASE verdict = "none" /\ <<j, new.shell>> \in seen
      <4>1. WhenLive[new.status] = "running"
        BY <1>10, <2>1 DEF WhenLive
      <4> QED BY <2>3, <3>3, <4>1 DEF Decided
    <3>4. CASE verdict = "none" /\ <<j, new.shell>> \notin seen
      <4>1. /\ WhenAbsent[new.status] \in {"failed", "stopped", "lost"}
            /\ WhenAbsent[new.status] = "lost" => r.status \in {"running", "lost"}
        BY <1>10, <2>1 DEF WhenAbsent, Active
      <4> QED BY <2>3, <3>4, <4>1 DEF Decided
    <3> QED BY <2>31, <3>2, <3>3, <3>4
  <2>5. /\ s \in ARow /\ s.status = status /\ s.shell = new.shell /\ s.path = new.path
        /\ s.attempts = new.attempts /\ s.pending = 0 /\ ~s.paths
    <3>1. status \in Statuses
      BY DEF Statuses, Active, Confirmed
    <3> QED BY <2>1, <2>4, <3>1, SettledRow
  <2>6. <<j, new.shell>> \in Shells /\ launched[j] \in Nat
    BY <2>1 DEF Shells, ShellJobsInv, DiskInv
  <2>7. verdict # "none" => /\ read # 0 /\ files[<<j, new.shell>>] = verdict
                            /\ truth[<<j, new.shell>>] = verdict
                            /\ shells[<<j, new.shell>>] # "up"
    BY <1>6, <2>1, <2>6 DEF ShellJobsInv, DiskInv
  <2>8. verdict = "none" /\ seen # Unknown /\ <<j, new.shell>> \notin seen =>
          shells[<<j, new.shell>>] = "none"
    BY <1>3, <2>6 DEF Covers, Live
  <2>9. read = 0 /\ seen # Unknown => <<j, new.shell>> \notin seen
    BY <1>3, <2>1, <2>6 DEF Covers, Attempts
  <2>10. status = "running" => read # 0 /\ <<j, new.shell>> \in seen /\ seen # Unknown
    BY <1>6, <1>10, <2>31, <2>4, <2>9 DEF Verdicts
  <2>11. RowCounts(j, s)
    BY <2>1, <2>5 DEF RowCounts, Number, Absent
  <2>12. \A a \in Attempts : shells[<<j, a>>] = "up" /\ <<j, a>> \notin stray =>
           status = "running" /\ s.shell = a
    BY <1>10, <2>1, <2>4, <2>5, <2>7, <2>8
  <2>13. status = "lost" => read # 0 /\ files[<<j, s.path>>] = "none"
    <3>1. status = "lost" => verdict = "none" /\ r.status \in {"running", "lost"}
      BY <2>31, <2>4 DEF Verdicts
    <3> QED BY <1>6, <2>1, <2>5, <3>1
  <2>14. RowNames(j, s)
    BY <2>1, <2>4, <2>5, <2>6, <2>7, <2>10, <2>12, <2>13 DEF RowNames, Present, Attempts
  <2>15. s.status \notin Absent /\ r.status \notin Absent /\ s.status # "none"
    BY <1>10, <2>5 DEF Absent, Active
  <2> QED BY <1>1, <1>2, <2>2, <2>5, <2>10, <2>11, <2>14, <2>15 DEF RowInv, Absent
<1> QED BY <1>8, <1>9, <1>10

(* All rows at once.                                                                  *)
LEMMA RefreshedAll ==
  ASSUME ShellJobsInv, NEW c \in Callers, op[c].pc = "sampled",
         NEW new, new = RefreshedRows(c)
  PROVE  new \in [Jobs -> ARow] /\ \A j \in Jobs : RowInv(j, new[j])
<1>1. \A j \in Jobs : new[j] = Refreshed(c, j, op[c].seen)
  BY DEF RefreshedRows
<1>2. \A j \in Jobs : RowInv(j, new[j])
  BY <1>1, RefreshedInv
<1>3. \A j \in Jobs : new[j] \in ARow
  BY <1>2 DEF RowInv
<1>4. new = [j \in Jobs |-> new[j]]
  BY <1>1 DEF RefreshedRows
<1> QED BY <1>2, <1>3, <1>4

(* A new inventory has whatever lives.                                                *)
LEMMA LiveCovers ==
  ASSUME DiskInv
  PROVE  /\ Covers(Live) /\ Live \in (SUBSET Shells) /\ Live # Unknown
         /\ \A seen \in Inventories : Covers(seen) /\ seen \in (SUBSET Shells) \cup {Unknown}
<1>1. Live \subseteq Shells
  BY DEF Live
<1>2. ASSUME NEW s \in Live PROVE s[2] <= launched[s[1]]
  <2>1. PICK j \in Jobs, a \in Attempts : s = <<j, a>> /\ shells[<<j, a>>] # "none"
    BY <1>2 DEF Live, Shells
  <2>2. ~(a > launched[j]) /\ launched[j] \in Nat /\ a \in Nat
    BY <2>1 DEF DiskInv, Attempts
  <2> QED BY <2>1, <2>2
<1>3. Covers(Live)
  BY <1>2 DEF Covers
<1>4. Live # Unknown
  BY <1>1, UnknownAssumption DEF Shells, Attempts
<1>5. Covers(Unknown)
  BY DEF Covers
<1> QED BY <1>1, <1>3, <1>4, <1>5 DEF Inventories

(* Shells that go and files that are removed disturb no row and no inventory.         *)
LEMMA LessOnDisk ==
  ASSUME DiskInv, UNCHANGED <<launched, stray, truth>>,
         shells' \in [Shells -> {"none", "up", "done"}],
         files' \in [Shells -> Verdicts \cup {"none"}],
         \A s \in Shells : shells'[s] # "none" => shells'[s] = shells[s],
         \A s \in Shells : files'[s] # "none" => files'[s] = files[s]
  PROVE  /\ DiskInv' /\ Live' \subseteq Live
         /\ \A j \in Jobs : RowInv(j, rows'[j]) => RowInv(j, rows[j])'
         /\ \A seen : Covers(seen) => Covers(seen)'
<1>1. \A j \in Jobs, a \in Attempts :
        /\ <<j, a>> \in Shells
        /\ shells'[<<j, a>>] = "up" => shells[<<j, a>>] = "up"
        /\ shells[<<j, a>>] = "none" => shells'[<<j, a>>] = "none"
        /\ files[<<j, a>>] = "none" => files'[<<j, a>>] = "none"
        /\ files'[<<j, a>>] # "none" => files'[<<j, a>>] = files[<<j, a>>]
  BY DEF Shells
<1>2. DiskInv'
  BY <1>1 DEF DiskInv
<1>3. Live' \subseteq Live
  BY DEF Live
<1>4. ASSUME NEW j \in Jobs, RowInv(j, rows'[j]) PROVE RowInv(j, rows[j])'
  <2>1. PICK r : r = rows'[j]
    OBVIOUS
  <2>2. r \in ARow /\ RowCounts(j, r) /\ RowNames(j, r)
    BY <1>4, <2>1 DEF RowInv
  <2>3. RowCounts(j, r)'
    BY <2>2 DEF RowCounts
  <2>4. r.status = "lost" => files'[<<j, r.path>>] = "none"
    <3>1. r.status = "lost" => r.path \in Attempts
      BY <2>2 DEF RowNames, Present, ARow, Attempts
    <3> QED BY <1>1, <2>2, <3>1 DEF RowNames
  <2>5. \A a \in Attempts : shells'[<<j, a>>] = "up" /\ <<j, a>> \notin stray =>
          \/ r.status \in {"starting", "running", "stopping"} /\ r.shell = a
          \/ r.status = "retrying" /\ r.pending = a
    BY <1>1, <2>2 DEF RowNames
  <2>6. RowNames(j, r)'
    BY <2>2, <2>4, <2>5 DEF RowNames
  <2> QED BY <2>1, <2>2, <2>3, <2>6 DEF RowInv, RowCounts, RowNames
<1>5. ASSUME NEW seen, Covers(seen) PROVE Covers(seen)'
  BY <1>3, <1>5 DEF Covers
<1> QED BY <1>2, <1>3, <1>4, <1>5

--------------------------------------------------------------------------------
(* One lemma for each step of a request.                                              *)
LEMMA AdmitInv ==
  ASSUME ShellJobsInv, NEW c \in Callers, NEW k \in Kinds, NEW j \in Jobs \cup {None}, Admit(c, k, j)
  PROVE  ShellJobsInv'
<1>1. PICK seen \in Inventories :
        Become(c, [Idle EXCEPT !.pc = "sampled", !.kind = k, !.job = j, !.seen = seen])
  BY DEF Admit
<1>2. PICK o : o = [Idle EXCEPT !.pc = "sampled", !.kind = k, !.job = j, !.seen = seen]
  OBVIOUS
<1>3. UNCHANGED disk /\ rows' = rows /\ over' = over /\ (\A d \in Callers : op[d].pc = "idle")
  BY DEF Admit, LockFree
<1>4. Covers(seen) /\ seen \in (SUBSET Shells) \cup {Unknown}
  BY LiveCovers DEF ShellJobsInv
<1>5. /\ o \in AnOp /\ o.pc = "sampled" /\ o.kind = k /\ o.job = j /\ o.seen = seen
      /\ o.owns = None
  BY <1>2, <1>4 DEF Idle, AnOp, OpPcs, OpKinds, Kinds
<1>6. op'[c] = o
  BY <1>1, <1>2, OpBecomes
<1>7. Covers(seen)'
  BY <1>3, <1>4, DiskKept
<1>8. /\ k # "list" => ~over
      /\ k \notin {"list", "end"} => j \in Jobs
      /\ k = "start" => rows[j].status = "none"
  BY DEF Admit, Admissible, Kinds
<1>9. OpInv(c)'
  <2>1. Covers(op[c].seen)'
    BY <1>5, <1>6, <1>7 DEF Covers
  <2> QED BY <1>3, <1>5, <1>6, <1>8, <2>1 DEF OpInv
<1>10. DiskInv' /\ Live' = Live /\ \A i \in Jobs : RowInv(i, rows[i])'
  BY <1>3, DiskKept DEF ShellJobsInv
<1> QED BY <1>1, <1>2, <1>3, <1>9, <1>10, OpStep DEF ShellJobsInv

LEMMA InterruptedInv ==
  ASSUME ShellJobsInv, NEW c \in Callers, Interrupted(c)
  PROVE  ShellJobsInv'
BY IdleOp, RowsStep DEF Interrupted, ShellJobsInv

LEMMA ListInv ==
  ASSUME ShellJobsInv, NEW c \in Callers, List(c)
  PROVE  ShellJobsInv'
<1>1. /\ op[c].pc = "sampled" /\ rows' = RefreshedRows(c) /\ Become(c, Idle)
      /\ UNCHANGED <<disk, over>>
  BY DEF List, At
<1>2. rows' \in [Jobs -> ARow] /\ \A j \in Jobs : RowInv(j, rows'[j])
  BY <1>1, RefreshedAll
<1> QED BY <1>1, <1>2, IdleOp, RowsStep

LEMMA TailLogInv ==
  ASSUME ShellJobsInv, NEW c \in Callers, TailLog(c)
  PROVE  ShellJobsInv'
<1>1. PICK j : j = op[c].job
  OBVIOUS
<1>2. PICK r : r = Refreshed(c, j, op[c].seen)
  OBVIOUS
<1>3. /\ op[c].pc = "sampled" /\ op[c].kind = "tail" /\ SetRow(j, r) /\ UNCHANGED <<disk, over>>
      /\ Become(c, Idle) \/ Become(c, [op[c] EXCEPT !.pc = "tailing"])
  BY <1>1, <1>2 DEF TailLog, At
<1>4. /\ j \in Jobs /\ op[c] \in AnOp /\ ~over /\ Covers(op[c].seen) /\ op[c].owns = None
  BY <1>1, <1>3 DEF ShellJobsInv, OpInv
<1>5. /\ RowInv(j, r) /\ r \in ARow
      /\ r.status = "running" /\ op[c].seen # Unknown => <<j, r.shell>> \in op[c].seen
  BY <1>2, <1>3, <1>4, RefreshedInv DEF RowInv
<1>6. /\ rows' \in [Jobs -> ARow] /\ rows'[j] = r /\ \A i \in Jobs : RowInv(i, rows'[i])
  BY <1>3, <1>4, <1>5, RowSet DEF ShellJobsInv
<1>7. CASE Become(c, Idle)
  BY <1>3, <1>6, <1>7, IdleOp, RowsStep
<1>8. CASE Become(c, [op[c] EXCEPT !.pc = "tailing"])
  <2>1. PICK o : o = [op[c] EXCEPT !.pc = "tailing"]
    OBVIOUS
  <2>2. /\ o \in AnOp /\ o.pc = "tailing" /\ o.kind = "tail" /\ o.job = j
        /\ o.seen = op[c].seen /\ o.owns = None
    BY <1>1, <1>3, <1>4, <2>1 DEF AnOp, OpPcs
  <2>3. op'[c] = o
    BY <1>8, <2>1, OpBecomes
  <2>4. Covers(op[c].seen)'
    BY <1>3, <1>4, <2>2, <2>3, DiskKept DEF Covers, disk, Live
  <2>5. OpInv(c)'
    BY <1>3, <1>4, <1>5, <1>6, <2>2, <2>3, <2>4 DEF OpInv
  <2> QED BY <1>3, <1>6, <1>8, <2>5, RowsStep
<1> QED BY <1>3, <1>7, <1>8

LEMMA TailLogFailsInv ==
  ASSUME ShellJobsInv, NEW c \in Callers, TailLogFails(c)
  PROVE  ShellJobsInv'
<1>1. PICK j : j = op[c].job
  OBVIOUS
<1>2. PICK r : r = rows[j]
  OBVIOUS
<1>3. /\ op[c].pc = "tailing" /\ j \in Jobs
      /\ r.status = "running" /\ op[c].seen # Unknown => <<j, r.shell>> \in op[c].seen
  BY <1>1, <1>2 DEF TailLogFails, At, ShellJobsInv, OpInv
<1>4. SetRow(j, r) /\ Become(c, Idle) /\ UNCHANGED <<disk, over>>
  BY <1>1, <1>2, <1>3 DEF TailLogFails
<1>5. r \in ARow /\ RowInv(j, r)
  BY <1>2, <1>3 DEF ShellJobsInv
<1>6. rows' \in [Jobs -> ARow] /\ \A i \in Jobs : RowInv(i, rows'[i])
  BY <1>3, <1>4, <1>5, RowSet DEF ShellJobsInv
<1> QED BY <1>3, <1>4, <1>6, IdleOp, RowsStep

LEMMA StartInv ==
  ASSUME ShellJobsInv, NEW c \in Callers, Start(c)
  PROVE  ShellJobsInv'
<1>1. PICK j : j = op[c].job
  OBVIOUS
<1>2. PICK s : s = [NoRow EXCEPT !.status = "starting", !.shell = 1, !.path = 1,
                                 !.attempts = 1, !.token = c]
  OBVIOUS
<1>3. PICK all : all = RefreshedRows(c)
  OBVIOUS
<1>4. PICK o : o = [op[c] EXCEPT !.pc = "spawning", !.owns = j]
  OBVIOUS
<1>5. /\ op[c].pc = "sampled" /\ op[c].kind = "start" /\ UNCHANGED <<disk, over>>
      /\ rows' = [all EXCEPT ![j] = s] /\ Become(c, o)
  BY <1>1, <1>2, <1>3, <1>4 DEF Start, At
<1>6. j \in Jobs /\ op[c] \in AnOp /\ ~over /\ rows[j].status = "none"
  BY <1>1, <1>5 DEF ShellJobsInv, OpInv
<1>7. all \in [Jobs -> ARow] /\ \A i \in Jobs : RowInv(i, all[i])
  BY <1>3, <1>5, RefreshedAll
<1>8. launched[j] = 0 /\ launched' = launched
  BY <1>5, <1>6 DEF ShellJobsInv, RowInv, RowCounts, disk
<1>9. 1 \in Attempts /\ 0 \in 0 .. MaxAttempts /\ 1 \in 0 .. MaxAttempts /\ "starting" \in Statuses
      /\ FALSE \in BOOLEAN
  BY MaxAttemptsAssumption DEF Attempts, Statuses, Active
<1>10. /\ s \in ARow /\ s.status = "starting" /\ s.shell = 1 /\ s.path = 1 /\ s.attempts = 1
       /\ s.token = c /\ s.pending = 0 /\ ~s.paths
  BY <1>2, <1>9 DEF NoRow, ARow
<1>11. \A a \in Attempts : shells[<<j, a>>] = "none" /\ <<j, a>> \notin stray
  <2>1. \A a \in Attempts : a > 0 /\ ~(a <= 0)
    BY DEF Attempts
  <2> QED BY <1>6, <1>8, <2>1 DEF ShellJobsInv, DiskInv
<1>12. RowInv(j, s)
  <2>1. RowCounts(j, s)
    BY <1>8, <1>10, <1>11 DEF RowCounts, Number, Absent
  <2>2. RowNames(j, s)
    BY <1>9, <1>10, <1>11 DEF RowNames, Present
  <2> QED BY <1>10, <2>1, <2>2 DEF RowInv
<1>13. rows' \in [Jobs -> ARow] /\ rows'[j] = s /\ \A i \in Jobs : RowInv(i, rows'[i])
  BY <1>5, <1>6, <1>7, <1>10, <1>12
<1>14. /\ o \in AnOp /\ o.pc = "spawning" /\ o.kind = "start" /\ o.job = j /\ o.owns = j
  BY <1>4, <1>5, <1>6, <1>1 DEF AnOp, OpPcs
<1>15. op'[c] = o
  BY <1>5, OpBecomes
<1>16. Launching(c)'
  BY <1>8, <1>10, <1>13, <1>14, <1>15 DEF Launching, Owns, Attempt
<1>17. OpInv(c)'
  BY <1>5, <1>6, <1>14, <1>15, <1>16 DEF OpInv
<1> QED BY <1>5, <1>13, <1>17, RowsStep

LEMMA RetryInv ==
  ASSUME ShellJobsInv, NEW c \in Callers, Retry(c)
  PROVE  ShellJobsInv'
<1>1. PICK j : j = op[c].job
  OBVIOUS
<1>2. PICK r : r = Refreshed(c, j, op[c].seen)
  OBVIOUS
<1>3. PICK s : s = [r EXCEPT !.status = "retrying", !.token = c, !.pending = r.attempts + 1]
  OBVIOUS
<1>4. PICK o : o = [op[c] EXCEPT !.pc = "preparing", !.owns = j]
  OBVIOUS
<1>5. /\ op[c].pc = "sampled" /\ op[c].kind = "retry" /\ UNCHANGED <<disk, over>>
      /\ HasRow(j) /\ r.status \notin Active /\ r.attempts < MaxAttempts
      /\ SetRow(j, s) /\ Become(c, o)
  BY <1>1, <1>2, <1>3, <1>4 DEF Retry, At
<1>6. j \in Jobs /\ op[c] \in AnOp /\ ~over
  BY <1>1, <1>5 DEF ShellJobsInv, OpInv
<1>7. RowInv(j, r) /\ (r.status \in Absent <=> rows[j].status \in Absent)
  BY <1>2, <1>5, <1>6, RefreshedInv
<1>8. /\ r \in ARow /\ RowCounts(j, r) /\ RowNames(j, r)
      /\ launched[j] \in Nat /\ r.attempts \in Nat /\ MaxAttempts \in Nat
  BY <1>6, <1>7, MaxAttemptsAssumption DEF RowInv, ShellJobsInv, DiskInv, ARow
<1>9. r.status \notin Absent /\ r.status # "retrying"
      /\ r.status \notin {"starting", "running", "stopping"}
  BY <1>5, <1>7 DEF HasRow, Absent, Active
<1>10. /\ s \in ARow /\ s.status = "retrying" /\ s.shell = r.shell /\ s.path = r.path
       /\ s.attempts = r.attempts /\ s.token = c /\ s.pending = r.attempts + 1
       /\ s.paths = r.paths
  <2>1. "retrying" \in Statuses /\ r.attempts + 1 \in 0 .. MaxAttempts
    BY <1>5, <1>8 DEF Statuses, Active
  <2> QED BY <1>3, <1>8, <2>1 DEF ARow
<1>11. /\ ~r.paths /\ launched[j] <= r.attempts
       /\ \A a \in Attempts : <<j, a>> \in stray => a <= r.attempts
       /\ \A a \in Attempts : ~(shells[<<j, a>>] = "up" /\ <<j, a>> \notin stray)
  BY <1>8, <1>9 DEF RowCounts, RowNames, Number
<1>12. RowInv(j, s)
  <2>1. RowCounts(j, s)
    BY <1>8, <1>10, <1>11 DEF RowCounts, Number, Absent
  <2>2. RowNames(j, s)
    BY <1>10, <1>11 DEF RowNames, Present
  <2> QED BY <1>10, <2>1, <2>2 DEF RowInv
<1>13. rows' \in [Jobs -> ARow] /\ rows'[j] = s /\ \A i \in Jobs : RowInv(i, rows'[i])
  BY <1>5, <1>6, <1>10, <1>12, RowSet DEF ShellJobsInv
<1>14. /\ o \in AnOp /\ o.pc = "preparing" /\ o.kind = "retry" /\ o.job = j /\ o.owns = j
  BY <1>4, <1>5, <1>6, <1>1 DEF AnOp, OpPcs
<1>15. op'[c] = o
  BY <1>5, OpBecomes
<1>16. Launching(c)'
  <2>1. launched' = launched
    BY <1>5 DEF disk
  <2>2. launched[j] < r.attempts + 1
    BY <1>8, <1>11
  <2> QED BY <1>10, <1>13, <1>14, <1>15, <2>1, <2>2 DEF Launching, Owns, Attempt
<1>17. OpInv(c)'
  BY <1>5, <1>6, <1>14, <1>15, <1>16 DEF OpInv
<1> QED BY <1>5, <1>13, <1>17, RowsStep

LEMMA StopReturnsInv ==
  ASSUME ShellJobsInv, NEW c \in Callers, op[c].pc # "idle", NEW b, StopReturns(c, b), over' = over
  PROVE  OpInv(c)' /\ \E o : Become(c, o)
<1>1. CASE Become(c, Idle)
  BY <1>1, IdleOp
<1>2. CASE ~Become(c, Idle)
  <2>1. PICK o : o = [op[c] EXCEPT !.pc = "ending", !.job = None, !.seen = {},
                                   !.todo = @ \ {op[c].job}, !.owns = None]
    OBVIOUS
  <2>2. Become(c, o) /\ op[c].kind = "end"
    BY <1>2, <2>1 DEF StopReturns
  <2>3. op[c] \in AnOp /\ ~over
    BY <2>2 DEF ShellJobsInv, OpInv
  <2>4. o \in AnOp /\ o.pc = "ending" /\ o.kind = "end" /\ o.owns = None
    BY <2>1, <2>2, <2>3 DEF AnOp, OpPcs
  <2>5. op'[c] = o
    BY <2>2, OpBecomes
  <2> QED BY <2>2, <2>3, <2>4, <2>5 DEF OpInv
<1> QED BY <1>1, <1>2

LEMMA StopInv ==
  ASSUME ShellJobsInv, NEW c \in Callers, Stop(c)
  PROVE  ShellJobsInv'
<1>1. PICK j : j = op[c].job
  OBVIOUS
<1>2. PICK seen : seen = op[c].seen
  OBVIOUS
<1>3. PICK r : r = Refreshed(c, j, seen)
  OBVIOUS
<1>4. PICK status : status = (IF r.status # "lost" \/ seen = Unknown THEN r.status
                              ELSE IF seen # Unknown /\ <<j, r.shell>> \in seen THEN "running"
                                   ELSE "stopped")
  OBVIOUS
<1>5. /\ op[c].pc = "sampled" /\ op[c].kind \in {"stop", "end"} /\ j # None /\ HasRow(j)
      /\ UNCHANGED <<disk, over>>
      /\ IF status = "running"
           THEN /\ SetRow(j, [r EXCEPT !.status = "stopping", !.token = c])
                /\ Become(c, [op[c] EXCEPT !.pc = "killing", !.owns = j, !.seen = {}])
           ELSE /\ SetRow(j, [r EXCEPT !.status = status])
                /\ StopReturns(c, status \in Confirmed)
  BY <1>1, <1>2, <1>3, <1>4 DEF Stop
<1>6. j \in Jobs /\ op[c] \in AnOp /\ ~over
  BY <1>1, <1>5 DEF ShellJobsInv, OpInv, AnOp
<1>7. RowInv(j, r)
  BY <1>2, <1>3, <1>5, <1>6, RefreshedInv
<1>8. r \in ARow /\ RowCounts(j, r) /\ RowNames(j, r)
  BY <1>7 DEF RowInv
<1>9. CASE status = "running"
  <2>1. PICK s : s = [r EXCEPT !.status = "stopping", !.token = c]
    OBVIOUS
  <2>2. PICK o : o = [op[c] EXCEPT !.pc = "killing", !.owns = j, !.seen = {}]
    OBVIOUS
  <2>3. SetRow(j, s) /\ Become(c, o)
    BY <1>5, <1>9, <2>1, <2>2
  <2>4. r.status \in {"running", "lost"}
    BY <1>4, <1>9
  <2>5. /\ s \in ARow /\ s.status = "stopping" /\ s.shell = r.shell /\ s.path = r.path
        /\ s.attempts = r.attempts /\ s.token = c /\ s.pending = r.pending
        /\ s.paths = r.paths
    <3>1. "stopping" \in Statuses
      BY DEF Statuses, Active
    <3> QED BY <1>8, <2>1, <3>1 DEF ARow
  <2>6. RowCounts(j, s)
    BY <1>8, <2>4, <2>5 DEF RowCounts, Number, Absent
  <2>7. RowNames(j, s)
    BY <1>8, <2>4, <2>5 DEF RowNames, Present
  <2>8. rows' \in [Jobs -> ARow] /\ rows'[j] = s /\ \A i \in Jobs : RowInv(i, rows'[i])
    BY <1>6, <2>3, <2>5, <2>6, <2>7, RowSet DEF ShellJobsInv, RowInv
  <2>9. /\ o \in AnOp /\ o.pc = "killing" /\ o.kind \in {"stop", "end"} /\ o.job = j /\ o.owns = j
    BY <1>1, <1>5, <1>6, <2>2 DEF AnOp, OpPcs
  <2>10. op'[c] = o
    BY <2>3, OpBecomes
  <2>11. OpInv(c)'
    BY <1>5, <1>6, <2>5, <2>8, <2>9, <2>10 DEF OpInv
  <2> QED BY <1>5, <2>3, <2>8, <2>11, RowsStep
<1>10. CASE status # "running"
  <2>1. PICK s : s = [r EXCEPT !.status = status]
    OBVIOUS
  <2>2. SetRow(j, s) /\ StopReturns(c, status \in Confirmed)
    BY <1>5, <1>10, <2>1
  <2>3. status = r.status \/ (status = "stopped" /\ r.status = "lost")
    BY <1>4, <1>10
  <2>4. RowInv(j, s)
    <3>1. CASE status = r.status
      <4>1. s = r
        BY <1>8, <2>1, <3>1 DEF ARow
      <4> QED BY <1>7, <4>1
    <3>2. CASE status = "stopped" /\ r.status = "lost"
      <4>1. /\ s \in ARow /\ s.status = "stopped" /\ s.shell = r.shell /\ s.path = r.path
            /\ s.attempts = r.attempts /\ s.pending = r.pending /\ s.paths = r.paths
        <5>1. "stopped" \in Statuses
          BY DEF Statuses, Confirmed
        <5> QED BY <1>8, <2>1, <3>2, <5>1 DEF ARow
      <4>2. RowCounts(j, s)
        BY <1>8, <3>2, <4>1 DEF RowCounts, Number, Absent
      <4>3. RowNames(j, s)
        BY <1>8, <3>2, <4>1 DEF RowNames, Present
      <4> QED BY <4>1, <4>2, <4>3 DEF RowInv
    <3> QED BY <2>3, <3>1, <3>2
  <2>5. s \in ARow
    BY <2>4 DEF RowInv
  <2>6. rows' \in [Jobs -> ARow] /\ \A i \in Jobs : RowInv(i, rows'[i])
    BY <1>6, <2>2, <2>4, <2>5, RowSet DEF ShellJobsInv
  <2>7. OpInv(c)' /\ \E o : Become(c, o)
    BY <1>5, <2>2, StopReturnsInv
  <2> QED BY <1>5, <2>6, <2>7, RowsStep
<1> QED BY <1>9, <1>10

LEMMA StopCommitInv ==
  ASSUME ShellJobsInv, NEW c \in Callers, StopCommit(c)
  PROVE  ShellJobsInv'
<1>1. PICK j : j = op[c].job
  OBVIOUS
<1>2. PICK r : r = rows[j]
  OBVIOUS
<1>3. PICK t : t = <<j, r.shell>>
  OBVIOUS
<1>4. PICK stays \in BOOLEAN :
        stays = (op[c].pc = "missed" /\ (op[c].seen = Unknown \/ t \in op[c].seen))
  <2>1. (op[c].pc = "missed" /\ (op[c].seen = Unknown \/ t \in op[c].seen)) \in BOOLEAN
    OBVIOUS
  <2> QED BY <2>1
<1>5. Target(c) = t
  BY <1>1, <1>2, <1>3 DEF Target
<1>6. PICK new \in {"running", "stopped"} : new = (IF stays THEN "running" ELSE "stopped")
  OBVIOUS
<1>7. PICK s : s = Settled(r, new)
  OBVIOUS
<1>8. /\ op[c].pc \in {"killed", "missed"} /\ r.status = "stopping"
      /\ SetRow(j, s) /\ UNCHANGED <<disk, over>>
      /\ StopReturns(c, ~stays) \/ Become(c, Idle)
  <2>1. /\ op[c].pc \in {"killed", "missed"} /\ r.status = "stopping" /\ UNCHANGED <<disk, over>>
    BY <1>1, <1>2 DEF StopCommit
  <2>2. SetRow(j, s)
    BY <1>1, <1>2, <1>4, <1>5, <1>6, <1>7 DEF StopCommit
  <2>3. StopReturns(c, ~stays) \/ Become(c, Idle)
    BY <1>4, <1>5 DEF StopCommit, StopReturns
  <2> QED BY <2>1, <2>2, <2>3
<1>9. /\ j \in Jobs
      /\ op[c].pc = "missed" => Covers(op[c].seen)
      /\ op[c].pc = "killed" => shells[t] = "none"
  BY <1>1, <1>5, <1>8 DEF ShellJobsInv, OpInv
<1>10. r \in ARow /\ RowCounts(j, r) /\ RowNames(j, r)
  BY <1>2, <1>9 DEF ShellJobsInv, RowInv
<1>11. r.shell \in Attempts /\ r.path = r.shell
  BY <1>8, <1>10 DEF RowNames, Present, ARow, Attempts
<1>12. ~stays => shells[t] = "none"
  <2>1. t \in Shells
    BY <1>3, <1>9, <1>11 DEF Shells
  <2>2. ~stays /\ op[c].pc = "missed" => op[c].seen # Unknown /\ t \notin op[c].seen
    BY <1>4
  <2>3. ~stays /\ op[c].pc = "missed" => t \notin Live
    BY <1>9, <2>2 DEF Covers
  <2> QED BY <1>8, <1>9, <2>1, <2>3 DEF Live
<1>13. /\ s \in ARow /\ s.status = new /\ s.shell = r.shell /\ s.path = r.path
       /\ s.attempts = r.attempts /\ s.pending = r.pending /\ s.paths = r.paths
  <2>1. new \in Statuses
    BY DEF Statuses, Active, Confirmed
  <2> QED BY <1>7, <1>10, <2>1, SettledRow
<1>14. RowCounts(j, s)
  BY <1>8, <1>10, <1>13 DEF RowCounts, Number, Absent
<1>15. \A a \in Attempts : shells[<<j, a>>] = "up" /\ <<j, a>> \notin stray =>
         new = "running" /\ r.shell = a
  <2>1. \A a \in Attempts : shells[<<j, a>>] = "up" /\ <<j, a>> \notin stray => r.shell = a
    BY <1>8, <1>10 DEF RowNames
  <2> QED BY <1>3, <1>6, <1>12, <2>1
<1>16. RowNames(j, s)
  <2>1. r.shell # 0 /\ <<j, r.shell>> \notin stray
    BY <1>8, <1>10 DEF RowNames, Present
  <2> QED BY <1>11, <1>13, <1>15, <2>1 DEF RowNames, Present
<1>17. rows' \in [Jobs -> ARow] /\ \A i \in Jobs : RowInv(i, rows'[i])
  BY <1>8, <1>9, <1>13, <1>14, <1>16, RowSet DEF ShellJobsInv, RowInv
<1>18. CASE Become(c, Idle)
  BY <1>8, <1>17, <1>18, IdleOp, RowsStep
<1>19. CASE StopReturns(c, ~stays)
  <2>1. OpInv(c)' /\ \E o : Become(c, o)
    BY <1>8, <1>19, StopReturnsInv
  <2> QED BY <1>8, <1>17, <2>1, RowsStep
<1> QED BY <1>8, <1>18, <1>19

LEMMA KillMissesInv ==
  ASSUME ShellJobsInv, NEW c \in Callers, KillMisses(c)
  PROVE  ShellJobsInv'
<1>1. PICK seen \in Inventories : Become(c, [op[c] EXCEPT !.pc = "missed", !.seen = seen])
  BY DEF KillMisses
<1>2. PICK o : o = [op[c] EXCEPT !.pc = "missed", !.seen = seen]
  OBVIOUS
<1>3. op[c].pc = "killing" /\ UNCHANGED <<disk, over>> /\ rows' = rows
  BY DEF KillMisses
<1>4. /\ op[c] \in AnOp /\ op[c].job \in Jobs /\ rows[op[c].job].status = "stopping"
      /\ rows[op[c].job].token = c /\ op[c].kind # "list"
      /\ op[c].kind # "list" => ~over
  BY <1>3 DEF ShellJobsInv, OpInv
<1>5. Covers(seen) /\ seen \in (SUBSET Shells) \cup {Unknown}
  BY LiveCovers DEF ShellJobsInv
<1>6. /\ o \in AnOp /\ o.pc = "missed" /\ o.kind = op[c].kind /\ o.job = op[c].job /\ o.seen = seen
  BY <1>2, <1>4, <1>5 DEF AnOp, OpPcs
<1>7. op'[c] = o
  BY <1>1, <1>2, OpBecomes
<1>8. Covers(op[c].seen)'
  BY <1>3, <1>5, <1>6, <1>7 DEF Covers, disk, Live
<1>9. OpInv(c)'
  BY <1>3, <1>4, <1>6, <1>7, <1>8 DEF OpInv
<1> QED BY <1>1, <1>3, <1>9, RowsStep DEF ShellJobsInv

LEMMA EndListInv ==
  ASSUME ShellJobsInv, NEW c \in Callers, EndList(c)
  PROVE  ShellJobsInv'
<1>1. PICK todo : todo = {j \in Jobs : HasRow(j) /\ rows'[j].status \notin Confirmed}
  OBVIOUS
<1>2. PICK o : o = [op[c] EXCEPT !.pc = "ending", !.seen = {}, !.todo = todo]
  OBVIOUS
<1>3. /\ op[c].pc = "sampled" /\ op[c].kind = "end" /\ rows' = RefreshedRows(c)
      /\ UNCHANGED <<disk, over>> /\ Become(c, o)
  BY <1>1, <1>2 DEF EndList, At
<1>4. rows' \in [Jobs -> ARow] /\ \A j \in Jobs : RowInv(j, rows'[j])
  BY <1>3, RefreshedAll
<1>5. op[c] \in AnOp /\ op[c].owns = None /\ ~over
  BY <1>3 DEF ShellJobsInv, OpInv
<1>6. o \in AnOp /\ o.pc = "ending" /\ o.kind = "end" /\ o.owns = None
  BY <1>1, <1>2, <1>3, <1>5 DEF AnOp, OpPcs
<1>7. op'[c] = o
  BY <1>3, OpBecomes
<1>8. OpInv(c)'
  BY <1>3, <1>5, <1>6, <1>7 DEF OpInv
<1> QED BY <1>3, <1>4, <1>8, RowsStep

LEMMA EndStopInv ==
  ASSUME ShellJobsInv, NEW c \in Callers, NEW j \in Jobs, EndStop(c, j)
  PROVE  ShellJobsInv'
<1>1. PICK seen \in Inventories :
        Become(c, [op[c] EXCEPT !.pc = "sampled", !.job = j, !.seen = seen])
  BY DEF EndStop
<1>2. PICK o : o = [op[c] EXCEPT !.pc = "sampled", !.job = j, !.seen = seen]
  OBVIOUS
<1>3. op[c].pc = "ending" /\ UNCHANGED <<disk, over>> /\ rows' = rows
  BY DEF EndStop
<1>4. op[c] \in AnOp /\ op[c].owns = None /\ op[c].kind = "end" /\ ~over
  BY <1>3 DEF ShellJobsInv, OpInv
<1>5. Covers(seen) /\ seen \in (SUBSET Shells) \cup {Unknown}
  BY LiveCovers DEF ShellJobsInv
<1>6. /\ o \in AnOp /\ o.pc = "sampled" /\ o.kind = "end" /\ o.job = j /\ o.seen = seen
      /\ o.owns = None
  BY <1>2, <1>4, <1>5 DEF AnOp, OpPcs
<1>7. op'[c] = o
  BY <1>1, <1>2, OpBecomes
<1>8. Covers(op[c].seen)'
  BY <1>3, <1>5, <1>6, <1>7 DEF Covers, disk, Live
<1>9. OpInv(c)'
  BY <1>3, <1>4, <1>6, <1>7, <1>8 DEF OpInv
<1> QED BY <1>1, <1>3, <1>9, RowsStep DEF ShellJobsInv

LEMMA EndShellsInv ==
  ASSUME ShellJobsInv, NEW c \in Callers, EndShells(c)
  PROVE  ShellJobsInv'
<1>1. PICK seen : seen = Live
  OBVIOUS
<1>2. PICK o : o = [op[c] EXCEPT !.pc = "clearing", !.seen = seen]
  OBVIOUS
<1>3. op[c].pc = "ending" /\ UNCHANGED <<disk, over>> /\ rows' = rows /\ Become(c, o)
  BY <1>1, <1>2 DEF EndShells, Owned
<1>4. op[c] \in AnOp /\ op[c].owns = None /\ op[c].kind = "end" /\ ~over
  BY <1>3 DEF ShellJobsInv, OpInv
<1>5. Covers(seen) /\ seen \in SUBSET Shells /\ seen # Unknown
  BY <1>1, LiveCovers DEF ShellJobsInv
<1>6. /\ o \in AnOp /\ o.pc = "clearing" /\ o.kind = "end" /\ o.seen = seen /\ o.owns = None
  BY <1>2, <1>4, <1>5 DEF AnOp, OpPcs
<1>7. op'[c] = o
  BY <1>3, OpBecomes
<1>8. Covers(op[c].seen)'
  BY <1>3, <1>5, <1>6, <1>7 DEF Covers, disk, Live
<1>9. OpInv(c)'
  BY <1>3, <1>4, <1>5, <1>6, <1>7, <1>8 DEF OpInv
<1> QED BY <1>3, <1>9, RowsStep DEF ShellJobsInv

LEMMA EndSessionInv ==
  ASSUME ShellJobsInv, NEW c \in Callers, EndSession(c)
  PROVE  ShellJobsInv'
<1>1. /\ op[c].pc = "clearing" /\ op[c].seen = {} /\ over' = TRUE /\ Become(c, Idle)
      /\ rows' = rows /\ UNCHANGED disk
  BY DEF EndSession
<1>2. op[c].seen # Unknown /\ Covers(op[c].seen)
  BY <1>1 DEF ShellJobsInv, OpInv
<1>3. Live = {}
  BY <1>1, <1>2 DEF Covers
<1>4. DiskInv' /\ Live' = Live /\ \A j \in Jobs : RowInv(j, rows[j])'
  BY <1>1, DiskKept DEF ShellJobsInv
<1>5. over' \in BOOLEAN
  BY <1>1
<1> QED BY <1>1, <1>3, <1>4, <1>5, IdleOp, OthersRest, OpStep DEF ShellJobsInv

--------------------------------------------------------------------------------
(* Steps that remove shells or files while they write the row of their own job.       *)
LEMMA LessStep ==
  ASSUME ShellJobsInv, NEW c \in Callers, op[c].pc # "idle", NEW o, Become(c, o),
         UNCHANGED <<launched, stray, truth, over>>,
         shells' \in [Shells -> {"none", "up", "done"}],
         files' \in [Shells -> Verdicts \cup {"none"}],
         \A s \in Shells : shells'[s] # "none" => shells'[s] = shells[s],
         \A s \in Shells : files'[s] # "none" => files'[s] = files[s],
         rows' \in [Jobs -> ARow], \A j \in Jobs : RowInv(j, rows'[j]), OpInv(c)'
  PROVE  ShellJobsInv'
<1>1. /\ DiskInv' /\ Live' \subseteq Live /\ \A j \in Jobs : RowInv(j, rows[j])'
  BY LessOnDisk DEF ShellJobsInv
<1>2. over' => Live' = {}
  BY <1>1 DEF ShellJobsInv
<1> QED BY <1>1, <1>2, OthersRest, OpStep DEF ShellJobsInv

LEMMA FileCleared ==
  ASSUME DiskInv, NEW s, files' = [files EXCEPT ![s] = "none"]
  PROVE  /\ files' \in [Shells -> Verdicts \cup {"none"}]
         /\ \A t \in Shells : files'[t] # "none" => files'[t] = files[t]
         /\ \A t \in Shells : t # s => files'[t] = files[t]
         /\ s \in Shells => files'[s] = "none"
BY DEF DiskInv

LEMMA PrepareInv ==
  ASSUME ShellJobsInv, NEW c \in Callers, Prepare(c)
  PROVE  ShellJobsInv'
<1>1. PICK j : j = op[c].job
  OBVIOUS
<1>2. PICK r : r = rows[j]
  OBVIOUS
<1>3. PICK s : s = [r EXCEPT !.paths = TRUE]
  OBVIOUS
<1>4. PICK o : o = [op[c] EXCEPT !.pc = "spawning"]
  OBVIOUS
<1>5. /\ op[c].pc = "preparing" /\ op[c].kind = "retry" /\ Owns(c) /\ SetRow(j, s) /\ Become(c, o)
      /\ UNCHANGED <<shells, launched, stray, truth, over>>
      /\ files' = [files EXCEPT ![<<j, Attempt(c)>>] = "none"]
  BY <1>1, <1>2, <1>3, <1>4 DEF Prepare, At
<1>6. j \in Jobs /\ op[c] \in AnOp /\ ~over /\ Launching(c)
  BY <1>1, <1>5 DEF ShellJobsInv, OpInv
<1>7. /\ r.token = c /\ r.status = "retrying" /\ launched[j] < r.pending
  BY <1>1, <1>2, <1>5, <1>6 DEF Owns, Launching, Attempt
<1>8. r \in ARow /\ RowCounts(j, r) /\ RowNames(j, r)
  BY <1>2, <1>6 DEF ShellJobsInv, RowInv
<1>9. /\ s \in ARow /\ s.status = "retrying" /\ s.shell = r.shell /\ s.path = r.path
      /\ s.attempts = r.attempts /\ s.token = c /\ s.pending = r.pending /\ s.paths
  BY <1>3, <1>7, <1>8 DEF ARow
<1>10. RowCounts(j, s)
  BY <1>7, <1>8, <1>9 DEF RowCounts, Number
<1>11. RowNames(j, s)
  BY <1>7, <1>8, <1>9 DEF RowNames, Present
<1>12. rows' \in [Jobs -> ARow] /\ rows'[j] = s /\ \A i \in Jobs : RowInv(i, rows'[i])
  BY <1>5, <1>6, <1>9, <1>10, <1>11, RowSet DEF ShellJobsInv, RowInv
<1>13. /\ o \in AnOp /\ o.pc = "spawning" /\ o.kind = "retry" /\ o.job = j
  BY <1>1, <1>4, <1>5, <1>6 DEF AnOp, OpPcs
<1>14. op'[c] = o
  BY <1>5, OpBecomes
<1>15. Launching(c)'
  BY <1>5, <1>7, <1>9, <1>12, <1>13, <1>14 DEF Launching, Owns, Attempt
<1>16. OpInv(c)'
  BY <1>5, <1>6, <1>13, <1>14, <1>15 DEF OpInv
<1>17. /\ files' \in [Shells -> Verdicts \cup {"none"}]
       /\ \A t \in Shells : files'[t] # "none" => files'[t] = files[t]
       /\ shells' \in [Shells -> {"none", "up", "done"}]
       /\ \A t \in Shells : shells'[t] # "none" => shells'[t] = shells[t]
  BY <1>5, FileCleared DEF ShellJobsInv, DiskInv
<1> QED BY <1>5, <1>12, <1>16, <1>17, LessStep

(* A start or retry that may still launch: its attempt is above all before it.        *)
LEMMA LaunchFacts ==
  ASSUME ShellJobsInv, NEW c \in Callers, op[c].pc \in {"preparing", "spawning", "spawned"},
         NEW j, j = op[c].job, NEW r, r = rows[j], NEW a, a = Attempt(c)
  PROVE  /\ j \in Jobs /\ op[c] \in AnOp /\ ~over /\ op[c].kind \in {"start", "retry"}
         /\ r \in ARow /\ RowCounts(j, r) /\ RowNames(j, r) /\ r.token = c
         /\ a \in Attempts /\ <<j, a>> \in Shells /\ <<j, a>> \notin stray
         /\ op[c].kind = "start" => /\ r.status = "starting" /\ a = 1 /\ r.attempts = 1
                                    /\ r.shell = 1 /\ r.path = 1
         /\ op[c].kind = "retry" => /\ r.status = "retrying" /\ a = r.pending
                                    /\ op[c].pc # "preparing" => r.paths
         /\ \A b \in Attempts : <<j, b>> \in stray => b < a
         /\ launched[j] <= a
         /\ op[c].pc # "spawned" => launched[j] < a
<1>1. j \in Jobs /\ op[c] \in AnOp /\ Launching(c)
  BY DEF ShellJobsInv, OpInv
<1>2. op[c].kind \in {"start", "retry"} /\ Owns(c)
  BY <1>1 DEF Launching
<1>3. ~over
  BY <1>2 DEF ShellJobsInv, OpInv
<1>4. r \in ARow /\ RowCounts(j, r) /\ RowNames(j, r)
  BY <1>1 DEF ShellJobsInv, RowInv
<1>5. r.token = c /\ r.status = (IF op[c].kind = "start" THEN "starting" ELSE "retrying")
  BY <1>2 DEF Owns
<1>6. /\ launched[j] \in Nat
      /\ \A b \in Attempts : <<j, b>> \in stray => b <= launched[j]
  BY <1>1 DEF ShellJobsInv, DiskInv
<1>7. op[c].pc # "spawned" => launched[j] < a
  BY <1>1 DEF Launching
<1>8. CASE op[c].kind = "start"
  <2>1. /\ r.status = "starting" /\ a = 1 /\ r.attempts = 1 /\ r.shell = 1 /\ r.path = 1
    BY <1>1, <1>5, <1>8 DEF Launching, Attempt
  <2>2. a \in Attempts /\ <<j, a>> \in Shells
    BY <1>1, <2>1, MaxAttemptsAssumption DEF Attempts, Shells
  <2>3. <<j, a>> \notin stray /\ launched[j] <= a
    BY <1>4, <2>1 DEF RowNames, RowCounts, Present, Absent, Number
  <2>4. \A b \in Attempts : <<j, b>> \in stray => b < a
    <3>1. \A b \in Attempts : <<j, b>> \in stray => b <= a /\ b # a
      BY <1>4, <2>1, <2>3 DEF RowCounts, Absent
    <3> QED BY <2>2, <3>1 DEF Attempts
  <2> QED BY <1>1, <1>2, <1>3, <1>4, <1>5, <1>7, <1>8, <2>1, <2>2, <2>3, <2>4
<1>9. CASE op[c].kind = "retry"
  <2>1. /\ r.status = "retrying" /\ a = r.pending /\ r.pending = r.attempts + 1
        /\ op[c].pc # "preparing" => r.paths
    BY <1>1, <1>4, <1>5, <1>9 DEF Launching, Attempt, RowCounts
  <2>2. a \in Attempts /\ <<j, a>> \in Shells /\ r.attempts \in Nat /\ a = r.attempts + 1
    BY <1>1, <1>4, <2>1 DEF Attempts, Shells, ARow
  <2>3. \A b \in Attempts : <<j, b>> \in stray => b <= r.attempts
    BY <1>4, <2>1 DEF RowCounts, Absent
  <2>4. \A b \in Attempts : <<j, b>> \in stray => b < a
    BY <2>2, <2>3 DEF Attempts
  <2>5. <<j, a>> \notin stray
    BY <2>2, <2>4 DEF Attempts
  <2>6. launched[j] <= a
    BY <1>4, <2>1 DEF RowCounts, Absent, Number
  <2> QED BY <1>1, <1>2, <1>3, <1>4, <1>5, <1>7, <1>9, <2>1, <2>2, <2>4, <2>5, <2>6
<1> QED BY <1>2, <1>8, <1>9

(* The row of a launch that failed: it takes the number of the attempt with it.       *)
LEMMA FailedRow ==
  ASSUME NEW r \in ARow
  PROVE  /\ Failed(r) \in ARow /\ Failed(r).status = "failed" /\ Failed(r).pending = 0
         /\ ~Failed(r).paths
         /\ Failed(r).attempts = (IF r.pending = 0 THEN r.attempts ELSE r.pending)
<1>1. 0 \in 0 .. MaxAttempts /\ FALSE \in BOOLEAN /\ "failed" \in Statuses
  BY MaxAttemptsAssumption DEF Statuses, Confirmed
<1> QED BY <1>1 DEF Failed, Settled, NotPending, ARow

LEMMA FailedLaunchRow ==
  ASSUME NEW j \in Jobs, NEW r \in ARow, RowCounts(j, r), NEW a \in Attempts,
         \/ r.status = "starting" /\ a = 1 /\ r.attempts = 1
         \/ r.status = "retrying" /\ a = r.pending
  PROVE  Failed(r) \in ARow /\ Failed(r).status = "failed" /\ Failed(r).attempts = a
         /\ Failed(r).pending = 0 /\ ~Failed(r).paths
<1>1. (IF r.pending = 0 THEN r.attempts ELSE r.pending) = a
  BY DEF RowCounts
<1> QED BY <1>1, FailedRow

LEMMA SpawnFailsInv ==
  ASSUME ShellJobsInv, NEW c \in Callers, SpawnFails(c)
  PROVE  ShellJobsInv'
<1>1. PICK j : j = op[c].job
  OBVIOUS
<1>2. PICK r : r = rows[j]
  OBVIOUS
<1>3. PICK a : a = Attempt(c)
  OBVIOUS
<1>4. PICK s : s = Failed(r)
  OBVIOUS
<1>5. /\ op[c].pc \in {"preparing", "spawning"} /\ SetRow(j, s) /\ Become(c, Idle)
      /\ UNCHANGED <<shells, launched, stray, truth, over>>
      /\ files' = [files EXCEPT ![<<j, a>>] = "none"]
  BY <1>1, <1>2, <1>3, <1>4 DEF SpawnFails
<1>6. /\ j \in Jobs /\ r \in ARow /\ RowCounts(j, r) /\ RowNames(j, r) /\ a \in Attempts
      /\ op[c].kind \in {"start", "retry"}
      /\ op[c].kind = "start" => r.status = "starting" /\ a = 1 /\ r.attempts = 1 /\ r.shell = 1
      /\ op[c].kind = "retry" => r.status = "retrying" /\ a = r.pending
      /\ \A b \in Attempts : <<j, b>> \in stray => b < a
      /\ launched[j] < a
  BY <1>1, <1>2, <1>3, <1>5, LaunchFacts
<1>7. s \in ARow /\ s.status = "failed" /\ s.attempts = a /\ s.pending = 0 /\ ~s.paths
  BY <1>4, <1>6, FailedLaunchRow
<1>8. launched[j] \in Nat /\ a \in Nat /\ shells[<<j, a>>] = "none"
  BY <1>6 DEF ShellJobsInv, DiskInv, Attempts
<1>9. \A b \in Attempts : ~(shells[<<j, b>>] = "up" /\ <<j, b>> \notin stray)
  <2>1. \A b \in Attempts : shells[<<j, b>>] = "up" /\ <<j, b>> \notin stray => b = a
    BY <1>6 DEF RowNames
  <2> QED BY <1>8, <2>1
<1>10. RowCounts(j, s)
  BY <1>6, <1>7, <1>8 DEF RowCounts, Number, Absent, Attempts
<1>11. RowNames(j, s)
  BY <1>7, <1>9 DEF RowNames, Present
<1>12. rows' \in [Jobs -> ARow] /\ \A i \in Jobs : RowInv(i, rows'[i])
  BY <1>5, <1>6, <1>7, <1>10, <1>11, RowSet DEF ShellJobsInv, RowInv
<1>13. /\ files' \in [Shells -> Verdicts \cup {"none"}]
       /\ \A t \in Shells : files'[t] # "none" => files'[t] = files[t]
       /\ shells' \in [Shells -> {"none", "up", "done"}]
       /\ \A t \in Shells : shells'[t] # "none" => shells'[t] = shells[t]
  BY <1>5, FileCleared DEF ShellJobsInv, DiskInv
<1> QED BY <1>5, <1>12, <1>13, IdleOp, LessStep

LEMMA CommitInv ==
  ASSUME ShellJobsInv, NEW c \in Callers, Commit(c)
  PROVE  ShellJobsInv'
<1>1. PICK j : j = op[c].job
  OBVIOUS
<1>2. PICK r : r = rows[j]
  OBVIOUS
<1>3. PICK a : a = Attempt(c)
  OBVIOUS
<1>4. PICK q : q = (IF op[c].kind = "retry" THEN Adopted(r) ELSE r)
  OBVIOUS
<1>5. PICK s : s = Settled(q, "running")
  OBVIOUS
<1>6. /\ op[c].pc = "spawned" /\ SetRow(j, s) /\ Become(c, Idle)
      /\ UNCHANGED <<shells, launched, stray, truth, over>>
      /\ files' = [t \in Shells |-> IF op[c].kind = "retry" /\ t[1] = j /\ t[2] # a
                                      THEN "none" ELSE files[t]]
  BY <1>1, <1>2, <1>3, <1>4, <1>5 DEF Commit
<1>7. /\ j \in Jobs /\ r \in ARow /\ RowCounts(j, r) /\ RowNames(j, r)
      /\ a \in Attempts /\ <<j, a>> \notin stray
      /\ op[c].kind \in {"start", "retry"}
      /\ op[c].kind = "start" => /\ r.status = "starting" /\ a = 1 /\ r.attempts = 1
                                 /\ r.shell = 1 /\ r.path = 1
      /\ op[c].kind = "retry" => r.status = "retrying" /\ a = r.pending /\ r.paths
      /\ \A b \in Attempts : <<j, b>> \in stray => b < a
      /\ launched[j] <= a
  BY <1>1, <1>2, <1>3, <1>6, LaunchFacts
<1>8. /\ q \in ARow /\ q.shell = a /\ q.path = a /\ q.attempts = a /\ q.pending = 0 /\ ~q.paths
  <2>1. CASE op[c].kind = "retry"
    <3>1. q = Adopted(r)
      BY <1>4, <2>1
    <3> QED BY <1>7, <2>1, <3>1, AdoptedRow
  <2>2. CASE op[c].kind = "start"
    <3>1. q = r
      BY <1>4, <2>2
    <3>2. r.pending = 0 /\ ~r.paths
      BY <1>7, <2>2 DEF RowCounts
    <3> QED BY <1>7, <2>2, <3>1, <3>2
  <2> QED BY <1>7, <2>1, <2>2
<1>9. /\ s \in ARow /\ s.status = "running" /\ s.shell = a /\ s.path = a /\ s.attempts = a
      /\ s.pending = 0 /\ ~s.paths
  <2>1. "running" \in Statuses
    BY DEF Statuses, Active
  <2> QED BY <1>5, <1>8, <2>1, SettledRow
<1>10. \A b \in Attempts : shells[<<j, b>>] = "up" /\ <<j, b>> \notin stray => b = a
  BY <1>7 DEF RowNames
<1>11. RowCounts(j, s)
  BY <1>7, <1>9 DEF RowCounts, Number, Absent, Attempts
<1>12. RowNames(j, s)
  BY <1>7, <1>9, <1>10 DEF RowNames, Present, Attempts
<1>13. rows' \in [Jobs -> ARow] /\ \A i \in Jobs : RowInv(i, rows'[i])
  BY <1>6, <1>7, <1>9, <1>11, <1>12, RowSet DEF ShellJobsInv, RowInv
<1>14. /\ files' \in [Shells -> Verdicts \cup {"none"}]
       /\ \A t \in Shells : files'[t] # "none" => files'[t] = files[t]
       /\ shells' \in [Shells -> {"none", "up", "done"}]
       /\ \A t \in Shells : shells'[t] # "none" => shells'[t] = shells[t]
  <2>1. files \in [Shells -> Verdicts \cup {"none"}] /\ shells \in [Shells -> {"none", "up", "done"}]
    BY DEF ShellJobsInv, DiskInv
  <2> QED BY <1>6, <2>1
<1> QED BY <1>6, <1>13, <1>14, IdleOp, LessStep

LEMMA CommitFailsInv ==
  ASSUME ShellJobsInv, NEW c \in Callers, CommitFails(c)
  PROVE  ShellJobsInv'
<1>1. PICK s : s = <<op[c].job, Attempt(c)>>
  OBVIOUS
<1>2. /\ op[c].pc = "spawned" /\ files' = [files EXCEPT ![s] = "none"] /\ Become(c, Idle)
      /\ UNCHANGED <<rows, launched, stray, truth, over>>
      /\ \E left \in {"none", shells[s]} : shells' = [shells EXCEPT ![s] = left]
  BY <1>1 DEF CommitFails
<1>3. shells \in [Shells -> {"none", "up", "done"}] /\ s \in Shells
  BY <1>1, <1>2, LaunchFacts DEF ShellJobsInv, DiskInv
<1>4. /\ shells' \in [Shells -> {"none", "up", "done"}]
      /\ \A t \in Shells : shells'[t] # "none" => shells'[t] = shells[t]
  BY <1>2, <1>3
<1>5. /\ files' \in [Shells -> Verdicts \cup {"none"}]
      /\ \A t \in Shells : files'[t] # "none" => files'[t] = files[t]
  BY <1>2, FileCleared DEF ShellJobsInv
<1>6. rows' \in [Jobs -> ARow] /\ \A j \in Jobs : RowInv(j, rows'[j])
  BY <1>2 DEF ShellJobsInv
<1> QED BY <1>2, <1>4, <1>5, <1>6, IdleOp, LessStep

LEMMA KillInv ==
  ASSUME ShellJobsInv, NEW c \in Callers, Kill(c)
  PROVE  ShellJobsInv'
<1>1. PICK t : t = Target(c)
  OBVIOUS
<1>2. PICK o : o = [op[c] EXCEPT !.pc = "killed"]
  OBVIOUS
<1>3. /\ op[c].pc = "killing" /\ shells' = [shells EXCEPT ![t] = "none"] /\ Become(c, o)
      /\ UNCHANGED <<rows, files, launched, stray, truth, over>>
  BY <1>1, <1>2 DEF Kill
<1>4. /\ op[c] \in AnOp /\ op[c].job \in Jobs /\ rows[op[c].job].status = "stopping"
      /\ rows[op[c].job].token = c /\ op[c].kind # "list"
      /\ op[c].kind # "list" => ~over
  BY <1>3 DEF ShellJobsInv, OpInv
<1>5. t \in Shells
  <2>1. RowInv(op[c].job, rows[op[c].job])
    BY <1>4 DEF ShellJobsInv
  <2> QED BY <1>1, <1>4, <2>1 DEF Target, RowInv, RowNames, Present, ARow, Shells, Attempts
<1>6. /\ shells' \in [Shells -> {"none", "up", "done"}] /\ files' \in [Shells -> Verdicts \cup {"none"}]
      /\ \A s \in Shells : shells'[s] # "none" => shells'[s] = shells[s]
      /\ \A s \in Shells : files'[s] # "none" => files'[s] = files[s]
      /\ shells'[t] = "none"
  <2>1. shells \in [Shells -> {"none", "up", "done"}] /\ files \in [Shells -> Verdicts \cup {"none"}]
    BY DEF ShellJobsInv, DiskInv
  <2> QED BY <1>3, <1>5, <2>1
<1>7. o \in AnOp /\ o.pc = "killed" /\ o.kind = op[c].kind /\ o.job = op[c].job
  BY <1>2, <1>4 DEF AnOp, OpPcs
<1>8. op'[c] = o
  BY <1>3, OpBecomes
<1>9. Target(c)' = t
  BY <1>1, <1>3, <1>7, <1>8 DEF Target
<1>10. OpInv(c)'
  BY <1>3, <1>4, <1>6, <1>7, <1>8, <1>9 DEF OpInv
<1>11. rows' \in [Jobs -> ARow] /\ \A j \in Jobs : RowInv(j, rows'[j])
  BY <1>3 DEF ShellJobsInv
<1> QED BY <1>3, <1>6, <1>10, <1>11, LessStep

LEMMA EndKillInv ==
  ASSUME ShellJobsInv, NEW c \in Callers, EndKill(c)
  PROVE  ShellJobsInv'
<1>1. PICK t \in op[c].seen : /\ shells' = [shells EXCEPT ![t] = "none"]
                              /\ Become(c, [op[c] EXCEPT !.seen = @ \ {t}])
  BY DEF EndKill
<1>2. PICK seen : seen = op[c].seen \ {t}
  OBVIOUS
<1>3. PICK o : o = [op[c] EXCEPT !.seen = seen]
  OBVIOUS
<1>4. /\ op[c].pc = "clearing" /\ Become(c, o)
      /\ UNCHANGED <<rows, files, launched, stray, truth, over>>
  BY <1>1, <1>2, <1>3 DEF EndKill
<1>5. /\ op[c] \in AnOp /\ op[c].owns = None /\ op[c].kind = "end" /\ ~over
      /\ op[c].seen # Unknown /\ Covers(op[c].seen)
  BY <1>4 DEF ShellJobsInv, OpInv
<1>6. op[c].seen \subseteq Shells
  BY <1>5 DEF AnOp
<1>7. seen \in (SUBSET Shells) /\ t \in Shells
  BY <1>1, <1>2, <1>6
<1>8. seen # Unknown
  BY <1>7, UnknownAssumption DEF Shells, Attempts
<1>9. /\ shells' \in [Shells -> {"none", "up", "done"}] /\ files' \in [Shells -> Verdicts \cup {"none"}]
      /\ \A s \in Shells : shells'[s] # "none" => shells'[s] = shells[s]
      /\ \A s \in Shells : files'[s] # "none" => files'[s] = files[s]
      /\ shells'[t] = "none"
  <2>1. shells \in [Shells -> {"none", "up", "done"}] /\ files \in [Shells -> Verdicts \cup {"none"}]
    BY DEF ShellJobsInv, DiskInv
  <2> QED BY <1>1, <1>4, <1>7, <2>1
<1>10. Live' \subseteq seen /\ \A s \in seen : s[2] <= launched'[s[1]]
  <2>1. Live' \subseteq Live /\ t \notin Live'
    BY <1>9 DEF Live
  <2>2. Live \subseteq op[c].seen /\ \A s \in op[c].seen : s[2] <= launched[s[1]]
    BY <1>5 DEF Covers
  <2> QED BY <1>2, <1>4, <2>1, <2>2
<1>11. o \in AnOp /\ o.pc = "clearing" /\ o.kind = "end" /\ o.seen = seen /\ o.owns = None
  BY <1>3, <1>4, <1>5, <1>7 DEF AnOp
<1>12. op'[c] = o
  BY <1>4, OpBecomes
<1>13. Covers(op[c].seen)'
  BY <1>10, <1>11, <1>12 DEF Covers
<1>14. OpInv(c)'
  BY <1>4, <1>5, <1>8, <1>11, <1>12, <1>13 DEF OpInv
<1>15. rows' \in [Jobs -> ARow] /\ \A j \in Jobs : RowInv(j, rows'[j])
  BY <1>4 DEF ShellJobsInv
<1>16. UNCHANGED <<launched, stray, truth, over>>
  BY <1>4
<1>17. op[c].pc # "idle"
  BY <1>4
<1> QED BY <1>4, <1>9, <1>14, <1>15, <1>16, <1>17, LessStep

(* A shell comes up for an attempt above all before it.                               *)
LEMMA SpawnedDisk ==
  ASSUME DiskInv, NEW j \in Jobs, NEW a \in Attempts, launched[j] < a, Spawned(<<j, a>>),
         truth' = truth, stray' = stray \/ stray' = stray \cup {<<j, a>>},
         files' = files \/ files' = [files EXCEPT ![<<j, a>>] = "none"]
  PROVE  /\ DiskInv' /\ launched'[j] = a /\ shells'[<<j, a>>] = "up"
         /\ \A k \in Jobs \ {j} : RowInv(k, rows'[k]) => RowInv(k, rows[k])'
         /\ \A b \in Attempts : b # a => shells'[<<j, b>>] = shells[<<j, b>>]
         /\ \A b \in Attempts : files'[<<j, b>>] = files[<<j, b>>]
<1>1. /\ shells \in [Shells -> {"none", "up", "done"}] /\ files \in [Shells -> Verdicts \cup {"none"}]
      /\ truth \in [Shells -> Verdicts \cup {"none"}] /\ launched \in [Jobs -> 0 .. MaxAttempts]
      /\ stray \subseteq Shells /\ <<j, a>> \in Shells
      /\ shells' = [shells EXCEPT ![<<j, a>>] = "up"] /\ launched' = [launched EXCEPT ![j] = a]
      /\ a \in Nat /\ a \in 0 .. MaxAttempts /\ launched[j] \in Nat
  BY DEF DiskInv, Spawned, Shells, Attempts
<1>2. shells[<<j, a>>] = "none" /\ files[<<j, a>>] = "none"
  BY <1>1 DEF DiskInv
<1>3. files' = files
  BY <1>1, <1>2
<1>4. /\ shells' \in [Shells -> {"none", "up", "done"}] /\ launched' \in [Jobs -> 0 .. MaxAttempts]
      /\ stray' \subseteq Shells /\ launched'[j] = a /\ shells'[<<j, a>>] = "up"
      /\ \A k \in Jobs \ {j} : launched'[k] = launched[k]
      /\ \A s \in Shells : s # <<j, a>> => shells'[s] = shells[s] /\ (s \in stray' <=> s \in stray)
  BY <1>1
<1>5. \A k \in Jobs, b \in Attempts :
        /\ <<k, b>> \in Shells
        /\ k # j \/ b # a => shells'[<<k, b>>] = shells[<<k, b>>]
                             /\ (<<k, b>> \in stray' <=> <<k, b>> \in stray)
  <2>1. \A k \in Jobs, b \in Attempts : <<k, b>> \in Shells /\ (k # j \/ b # a => <<k, b>> # <<j, a>>)
    BY DEF Shells
  <2> QED BY <1>4, <2>1
<1>6. ASSUME NEW k \in Jobs, NEW b \in Attempts
      PROVE  /\ files'[<<k, b>>] # "none" => /\ truth'[<<k, b>>] = files'[<<k, b>>]
                                             /\ shells'[<<k, b>>] # "up"
             /\ b > launched'[k] => shells'[<<k, b>>] = "none" /\ files'[<<k, b>>] = "none"
             /\ <<k, b>> \in stray' => b <= launched'[k]
  <2>1. /\ files[<<k, b>>] # "none" => truth[<<k, b>>] = files[<<k, b>>] /\ shells[<<k, b>>] # "up"
        /\ b > launched[k] => shells[<<k, b>>] = "none" /\ files[<<k, b>>] = "none"
        /\ <<k, b>> \in stray => b <= launched[k]
    BY DEF DiskInv
  <2>2. CASE k = j /\ b = a
    BY <1>1, <1>2, <1>3, <1>4, <2>2
  <2>3. CASE k = j /\ b # a
    <3>1. (b > a => b > launched[j]) /\ (b <= launched[j] => b <= a)
      BY <1>1 DEF Attempts
    <3> QED BY <1>3, <1>4, <1>5, <2>1, <2>3, <3>1
  <2>4. CASE k # j
    BY <1>3, <1>4, <1>5, <2>1, <2>4
  <2> QED BY <2>2, <2>3, <2>4
<1>7. DiskInv'
  BY <1>1, <1>3, <1>4, <1>6 DEF DiskInv
<1>8. ASSUME NEW k \in Jobs \ {j}, RowInv(k, rows'[k]) PROVE RowInv(k, rows[k])'
  <2>1. PICK r : r = rows'[k]
    OBVIOUS
  <2>2. r \in ARow /\ RowCounts(k, r) /\ RowNames(k, r)
    BY <1>8, <2>1 DEF RowInv
  <2>3. RowCounts(k, r)'
    BY <1>4, <1>5, <2>2 DEF RowCounts
  <2>4. r.status \in Present \cup {"succeeded"} => r.shell # 0 /\ <<k, r.shell>> \notin stray'
    <3>1. r.shell # 0 => r.shell \in Attempts
      BY <2>2 DEF ARow, Attempts
    <3> QED BY <1>5, <2>2, <3>1 DEF RowNames
  <2>5. RowNames(k, r)'
    BY <1>1, <1>3, <1>5, <2>2, <2>4 DEF RowNames
  <2> QED BY <2>1, <2>2, <2>3, <2>5 DEF RowInv, RowCounts, RowNames
<1> QED BY <1>3, <1>4, <1>5, <1>7, <1>8

LEMMA SpawnInv ==
  ASSUME ShellJobsInv, NEW c \in Callers, Spawn(c)
  PROVE  ShellJobsInv'
<1>1. PICK j : j = op[c].job
  OBVIOUS
<1>2. PICK r : r = rows[j]
  OBVIOUS
<1>3. PICK a : a = Attempt(c)
  OBVIOUS
<1>4. PICK o : o = [op[c] EXCEPT !.pc = "spawned"]
  OBVIOUS
<1>5. /\ op[c].pc = "spawning" /\ Spawned(<<j, a>>) /\ Become(c, o)
      /\ UNCHANGED <<rows, files, stray, truth, over>>
  BY <1>1, <1>3, <1>4 DEF Spawn
<1>6. /\ j \in Jobs /\ op[c] \in AnOp /\ ~over /\ op[c].kind \in {"start", "retry"}
      /\ r \in ARow /\ RowCounts(j, r) /\ RowNames(j, r)
      /\ a \in Attempts /\ <<j, a>> \notin stray
      /\ op[c].kind = "start" => /\ r.status = "starting" /\ a = 1 /\ r.attempts = 1
                                 /\ r.shell = 1 /\ r.path = 1
      /\ op[c].kind = "retry" => r.status = "retrying" /\ a = r.pending /\ r.paths
      /\ launched[j] < a
  BY <1>1, <1>2, <1>3, <1>5, LaunchFacts
<1>7. /\ DiskInv' /\ launched'[j] = a /\ shells'[<<j, a>>] = "up"
      /\ \A k \in Jobs \ {j} : RowInv(k, rows'[k]) => RowInv(k, rows[k])'
      /\ \A b \in Attempts : b # a => shells'[<<j, b>>] = shells[<<j, b>>]
  BY <1>5, <1>6, SpawnedDisk DEF ShellJobsInv
<1>8. RowCounts(j, r)'
  BY <1>5, <1>6, <1>7 DEF RowCounts, Number, Attempts
<1>9. \A b \in Attempts : shells'[<<j, b>>] = "up" /\ <<j, b>> \notin stray' =>
        \/ r.status \in {"starting", "running", "stopping"} /\ r.shell = b
        \/ r.status = "retrying" /\ r.pending = b
  <2>1. \A b \in Attempts : b # a /\ shells'[<<j, b>>] = "up" /\ <<j, b>> \notin stray' =>
          \/ r.status \in {"starting", "running", "stopping"} /\ r.shell = b
          \/ r.status = "retrying" /\ r.pending = b
    BY <1>5, <1>6, <1>7 DEF RowNames
  <2> QED BY <1>6, <2>1
<1>10. RowNames(j, r)'
  BY <1>5, <1>6, <1>9 DEF RowNames
<1>11. RowInv(j, rows[j])'
  BY <1>2, <1>5, <1>6, <1>8, <1>10 DEF RowInv, RowCounts, RowNames
<1>12. \A k \in Jobs : RowInv(k, rows[k])'
  <2>1. \A k \in Jobs \ {j} : RowInv(k, rows'[k])
    BY <1>5 DEF ShellJobsInv
  <2>2. \A k \in Jobs \ {j} : RowInv(k, rows[k])'
    BY <1>7, <2>1
  <2> QED BY <1>11, <2>2
<1>13. /\ o \in AnOp /\ o.pc = "spawned" /\ o.kind = op[c].kind /\ o.job = j
  BY <1>1, <1>4, <1>5, <1>6 DEF AnOp, OpPcs
<1>14. op'[c] = o
  BY <1>5, OpBecomes
<1>15. Launching(c)'
  <2>1. Launching(c)
    BY <1>5 DEF ShellJobsInv, OpInv
  <2> QED BY <1>1, <1>2, <1>5, <1>6, <1>13, <1>14, <2>1 DEF Launching, Owns
<1>16. OpInv(c)'
  BY <1>5, <1>6, <1>13, <1>14, <1>15 DEF OpInv
<1>17. rows' \in [Jobs -> ARow] /\ over' \in BOOLEAN /\ ~over'
  BY <1>5, <1>6 DEF ShellJobsInv
<1>18. \A d \in Callers \ {c} : op[d].pc = "idle"
  BY <1>5, OthersRest
<1> QED BY <1>5, <1>7, <1>12, <1>16, <1>17, <1>18, OpStep

LEMMA SpawnUncertainInv ==
  ASSUME ShellJobsInv, NEW c \in Callers, SpawnUncertain(c)
  PROVE  ShellJobsInv'
<1>1. PICK j : j = op[c].job
  OBVIOUS
<1>2. PICK r : r = rows[j]
  OBVIOUS
<1>3. PICK a : a = Attempt(c)
  OBVIOUS
<1>4. PICK s : s = Failed(r)
  OBVIOUS
<1>5. /\ op[c].pc = "spawning" /\ Spawned(<<j, a>>) /\ Become(c, Idle)
      /\ stray' = stray \cup {<<j, a>>} /\ files' = [files EXCEPT ![<<j, a>>] = "none"]
      /\ SetRow(j, s) /\ UNCHANGED <<truth, over>>
  BY <1>1, <1>2, <1>3, <1>4 DEF SpawnUncertain
<1>6. /\ j \in Jobs /\ ~over /\ op[c].kind \in {"start", "retry"}
      /\ r \in ARow /\ RowCounts(j, r) /\ RowNames(j, r)
      /\ a \in Attempts
      /\ op[c].kind = "start" => r.status = "starting" /\ a = 1 /\ r.attempts = 1 /\ r.shell = 1
      /\ op[c].kind = "retry" => r.status = "retrying" /\ a = r.pending /\ r.paths
      /\ \A b \in Attempts : <<j, b>> \in stray => b < a
      /\ launched[j] < a
  BY <1>1, <1>2, <1>3, <1>5, LaunchFacts
<1>7. s \in ARow /\ s.status = "failed" /\ s.attempts = a /\ s.pending = 0 /\ ~s.paths
  BY <1>4, <1>6, FailedLaunchRow
<1>8. /\ DiskInv' /\ launched'[j] = a /\ shells'[<<j, a>>] = "up"
      /\ \A k \in Jobs \ {j} : RowInv(k, rows'[k]) => RowInv(k, rows[k])'
      /\ \A b \in Attempts : b # a => shells'[<<j, b>>] = shells[<<j, b>>]
  <2>1. DiskInv
    BY DEF ShellJobsInv
  <2>2. /\ truth' = truth /\ Spawned(<<j, a>>) /\ launched[j] < a /\ j \in Jobs /\ a \in Attempts
    BY <1>5, <1>6
  <2>3. /\ stray' = stray \/ stray' = stray \cup {<<j, a>>}
        /\ files' = files \/ files' = [files EXCEPT ![<<j, a>>] = "none"]
    BY <1>5
  <2> QED BY <2>1, <2>2, <2>3, SpawnedDisk
<1>9. rows' \in [Jobs -> ARow] /\ rows'[j] = s /\ \A k \in Jobs \ {j} : rows'[k] = rows[k]
  BY <1>5, <1>6, <1>7, RowSet
<1>10. \A b \in Attempts : ~(shells'[<<j, b>>] = "up" /\ <<j, b>> \notin stray')
  <2>1. \A b \in Attempts : shells[<<j, b>>] = "up" /\ <<j, b>> \notin stray => b = a
    BY <1>6 DEF RowNames
  <2> QED BY <1>5, <1>8, <2>1
<1>11. RowCounts(j, s)'
  <2>1. \A b \in Attempts : <<j, b>> \in stray' => b <= a
    BY <1>5, <1>6 DEF Attempts
  <2>2. a \in Nat
    BY <1>6 DEF Attempts
  <2> QED BY <1>7, <1>8, <2>1, <2>2 DEF RowCounts, Number
<1>12. RowNames(j, s)'
  BY <1>7, <1>10 DEF RowNames, Present
<1>13. RowInv(j, rows[j])'
  BY <1>7, <1>9, <1>11, <1>12 DEF RowInv, RowCounts, RowNames
<1>14. \A k \in Jobs : RowInv(k, rows[k])'
  <2>1. \A k \in Jobs \ {j} : RowInv(k, rows'[k])
    BY <1>9 DEF ShellJobsInv
  <2>2. \A k \in Jobs \ {j} : RowInv(k, rows[k])'
    BY <1>8, <2>1
  <2> QED BY <1>13, <2>2
<1>15. over' \in BOOLEAN /\ ~over'
  BY <1>5, <1>6 DEF ShellJobsInv
<1>16. \A d \in Callers \ {c} : op[d].pc = "idle"
  BY <1>5, OthersRest
<1> QED BY <1>5, <1>8, <1>9, <1>14, <1>15, <1>16, IdleOp, OpStep

--------------------------------------------------------------------------------
(* Shells, their runners and the retention of rows, whatever is in flight.            *)
LEMMA OutsideStep ==
  ASSUME ShellJobsInv, op' = op, over' = over, DiskInv', rows' \in [Jobs -> ARow],
         \A j \in Jobs : RowInv(j, rows[j])', \A c \in Callers : OpInv(c)', Live' \subseteq Live
  PROVE  ShellJobsInv'
BY DEF ShellJobsInv, OneOp

(* What a request relies on survives such a step if the rows of its job do.           *)
LEMMA OpKept ==
  ASSUME ShellJobsInv, NEW c \in Callers, op' = op, over' = over, launched' = launched,
         \A seen : Covers(seen) => Covers(seen)',
         \A s \in Shells : shells[s] = "none" => shells'[s] = "none",
         op[c].job \in Jobs =>
           \/ rows'[op[c].job] = rows[op[c].job]
           \/ /\ rows'[op[c].job].status = "evicted"
              /\ rows[op[c].job].status \notin Active \cup {"none"}
  PROVE  OpInv(c)'
<1>1. OpInv(c)
  BY DEF ShellJobsInv
<1>2. PICK o \in AnOp : o = op[c]
  BY <1>1 DEF OpInv
<1>3. op'[c] = o
  BY <1>2
<1>4. o.pc \in {"sampled", "tailing", "missed", "clearing"} => Covers(op[c].seen)'
  <2>1. PICK seen : seen = o.seen
    OBVIOUS
  <2>2. Covers(seen) => Covers(seen)'
    OBVIOUS
  <2>3. o.pc \in {"sampled", "tailing", "missed", "clearing"} => Covers(seen)
    BY <1>1, <1>2, <2>1 DEF OpInv
  <2> QED BY <1>3, <2>1, <2>2, <2>3 DEF Covers
<1>5. o.pc = "sampled" /\ o.kind = "start" => rows'[o.job].status = "none"
  BY <1>1, <1>2 DEF OpInv
<1>6. o.pc = "tailing" =>
        LET r == rows'[o.job] IN r.status = "running" /\ o.seen # Unknown => <<o.job, r.shell>> \in o.seen
  BY <1>1, <1>2 DEF OpInv
<1>7. o.pc \in {"preparing", "spawning", "spawned"} => Launching(c)'
  <2>1. ASSUME o.pc \in {"preparing", "spawning", "spawned"} PROVE Launching(c)'
    <3>1. o.job \in Jobs /\ Launching(c)
      BY <1>1, <1>2, <2>1 DEF OpInv
    <3>2. rows[o.job].status \in Active
      BY <1>2, <3>1 DEF Launching, Owns, Active
    <3>3. rows'[o.job] = rows[o.job]
      BY <1>2, <3>1, <3>2
    <3> QED BY <1>2, <3>1, <3>3 DEF Launching, Owns, Attempt
  <2> QED BY <2>1
<1>8. o.pc \in {"killing", "killed", "missed"} =>
        /\ o.job \in Jobs /\ rows'[o.job] = rows[o.job]
        /\ rows'[o.job].status = "stopping" /\ rows'[o.job].token = c
  <2>1. o.pc \in {"killing", "killed", "missed"} =>
          /\ o.job \in Jobs /\ rows[o.job].status = "stopping" /\ rows[o.job].token = c
    BY <1>1, <1>2 DEF OpInv
  <2> QED BY <1>2, <2>1 DEF Active
<1>9. o.pc = "killed" => shells'[Target(c)'] = "none"
  <2>1. ASSUME o.pc = "killed" PROVE shells'[Target(c)'] = "none"
    <3>1. /\ o.job \in Jobs /\ rows'[o.job] = rows[o.job] /\ rows[o.job].status = "stopping"
          /\ shells[Target(c)] = "none"
      BY <1>1, <1>2, <1>8, <2>1 DEF OpInv
    <3>2. RowInv(o.job, rows[o.job])
      BY <3>1 DEF ShellJobsInv
    <3>3. Target(c) \in Shells
      BY <1>2, <3>1, <3>2 DEF Target, RowInv, RowNames, Present, ARow, Shells, Attempts
    <3>4. Target(c)' = Target(c)
      BY <1>2, <1>3, <3>1 DEF Target
    <3> QED BY <3>1, <3>3, <3>4
  <2> QED BY <2>1
<1>10. /\ o.pc \in {"idle", "sampled", "tailing", "ending", "clearing"} => o.owns = None
       /\ o.pc # "idle" /\ o.kind # "list" => ~over'
       /\ o.kind = "list" => o.pc = "sampled"
       /\ o.pc \in {"ending", "clearing"} => o.kind = "end"
       /\ o.pc = "sampled" /\ o.kind \notin {"list", "end"} => o.job \in Jobs
       /\ o.pc = "clearing" => o.seen # Unknown
       /\ o.pc \in {"tailing", "preparing", "spawning", "spawned"} => o.job \in Jobs
  BY <1>1, <1>2 DEF OpInv
<1> QED BY <1>3, <1>4, <1>5, <1>6, <1>7, <1>8, <1>9, <1>10 DEF OpInv

LEMMA RunnerEndsInv ==
  ASSUME ShellJobsInv, NEW s \in Shells, NEW v \in Verdicts, RunnerEnds(s, v)
  PROVE  ShellJobsInv'
<1>1. /\ shells[s] = "up" /\ shells' = [shells EXCEPT ![s] = "done"]
      /\ files' = [files EXCEPT ![s] = v] /\ truth' = [truth EXCEPT ![s] = v]
      /\ UNCHANGED <<rows, launched, stray, op, over>>
  BY DEF RunnerEnds
<1>2. PICK j \in Jobs, a \in Attempts : s = <<j, a>>
  BY DEF Shells
<1>3. DiskInv
  BY DEF ShellJobsInv
<1>4. /\ shells \in [Shells -> {"none", "up", "done"}] /\ files \in [Shells -> Verdicts \cup {"none"}]
      /\ truth \in [Shells -> Verdicts \cup {"none"}]
  BY <1>3 DEF DiskInv
<1>5. /\ shells' \in [Shells -> {"none", "up", "done"}] /\ files' \in [Shells -> Verdicts \cup {"none"}]
      /\ truth' \in [Shells -> Verdicts \cup {"none"}]
      /\ shells'[s] = "done" /\ files'[s] = v /\ truth'[s] = v
      /\ \A t \in Shells : t # s => shells'[t] = shells[t] /\ files'[t] = files[t] /\ truth'[t] = truth[t]
  BY <1>1, <1>4
<1>6. ~(a > launched[j])
  BY <1>1, <1>2, <1>3 DEF DiskInv
<1>7. ASSUME NEW k \in Jobs, NEW b \in Attempts
      PROVE  /\ <<k, b>> \in Shells
             /\ files'[<<k, b>>] # "none" => /\ truth'[<<k, b>>] = files'[<<k, b>>]
                                             /\ shells'[<<k, b>>] # "up"
             /\ b > launched'[k] => shells'[<<k, b>>] = "none" /\ files'[<<k, b>>] = "none"
             /\ <<k, b>> \in stray' => b <= launched'[k]
  <2>1. <<k, b>> \in Shells
    BY DEF Shells
  <2>2. /\ files[<<k, b>>] # "none" => truth[<<k, b>>] = files[<<k, b>>] /\ shells[<<k, b>>] # "up"
        /\ b > launched[k] => shells[<<k, b>>] = "none" /\ files[<<k, b>>] = "none"
        /\ <<k, b>> \in stray => b <= launched[k]
    BY <1>3 DEF DiskInv
  <2>3. CASE <<k, b>> = s
    <3>1. k = j /\ b = a
      BY <1>2, <2>3
    <3> QED BY <1>1, <1>2, <1>5, <1>6, <2>1, <2>2, <3>1
  <2>4. CASE <<k, b>> # s
    BY <1>1, <1>5, <2>1, <2>2, <2>4
  <2> QED BY <2>3, <2>4
<1>8. DiskInv'
  <2>1. launched' \in [Jobs -> 0 .. MaxAttempts] /\ stray' \subseteq Shells
    BY <1>1, <1>3 DEF DiskInv
  <2> QED BY <1>5, <1>7, <2>1 DEF DiskInv
<1>9. Live' = Live
  BY <1>1, <1>5 DEF Live
<1>10. ASSUME NEW k \in Jobs PROVE RowInv(k, rows[k])'
  <2>1. PICK r : r = rows[k]
    OBVIOUS
  <2>2. r \in ARow /\ RowCounts(k, r) /\ RowNames(k, r)
    BY <2>1 DEF ShellJobsInv, RowInv
  <2>3. rows'[k] = r
    BY <1>1, <2>1
  <2>4. RowCounts(k, r)'
    BY <1>1, <2>2 DEF RowCounts
  <2>5. \A b \in Attempts : shells'[<<k, b>>] = "up" /\ <<k, b>> \notin stray' =>
          \/ r.status \in {"starting", "running", "stopping"} /\ r.shell = b
          \/ r.status = "retrying" /\ r.pending = b
    <3>1. \A b \in Attempts : shells'[<<k, b>>] = "up" => shells[<<k, b>>] = "up"
      <4>1. ASSUME NEW b \in Attempts, shells'[<<k, b>>] = "up" PROVE shells[<<k, b>>] = "up"
        <5>1. <<k, b>> \in Shells
          BY DEF Shells
        <5> QED BY <1>5, <4>1, <5>1
      <4> QED BY <4>1
    <3> QED BY <1>1, <2>2, <3>1 DEF RowNames
  <2>6. r.status \in {"succeeded", "lost"} =>
          /\ r.shell \in Attempts /\ <<k, r.shell>> \in Shells /\ <<k, r.shell>> # s
          /\ r.status = "lost" => r.path = r.shell
    <3>1. ASSUME r.status \in {"succeeded", "lost"}
          PROVE  /\ r.shell \in Attempts /\ <<k, r.shell>> \notin stray
                 /\ r.status = "lost" => r.path = r.shell
      BY <2>2, <3>1 DEF RowNames, Present, ARow, Attempts
    <3>2. ASSUME r.status \in {"succeeded", "lost"} PROVE shells[<<k, r.shell>>] # "up"
      BY <2>2, <3>1, <3>2 DEF RowNames
    <3> QED BY <1>1, <3>1, <3>2 DEF Shells
  <2>7. r.status = "succeeded" => truth'[<<k, r.shell>>] = "succeeded"
    BY <1>5, <2>2, <2>6 DEF RowNames
  <2>8. r.status = "lost" => files'[<<k, r.path>>] = "none"
    BY <1>5, <2>2, <2>6 DEF RowNames
  <2>9. RowNames(k, r)'
    BY <1>1, <2>2, <2>5, <2>7, <2>8 DEF RowNames
  <2> QED BY <2>2, <2>3, <2>4, <2>9 DEF RowInv, RowCounts, RowNames
<1>11. ASSUME NEW seen, Covers(seen) PROVE Covers(seen)'
  BY <1>1, <1>9, <1>11 DEF Covers
<1>12. \A t \in Shells : shells[t] = "none" => shells'[t] = "none"
  BY <1>1, <1>5
<1>13. ASSUME NEW c \in Callers PROVE OpInv(c)'
  BY <1>1, <1>11, <1>12, OpKept
<1>14. rows' \in [Jobs -> ARow]
  BY <1>1 DEF ShellJobsInv
<1> QED BY <1>1, <1>8, <1>9, <1>10, <1>13, <1>14, OutsideStep

LEMMA ShellGoneInv ==
  ASSUME ShellJobsInv, NEW s \in Shells, ShellGone(s)
  PROVE  ShellJobsInv'
<1>1. shells' = [shells EXCEPT ![s] = "none"] /\ UNCHANGED <<rows, files, launched, stray, truth, op, over>>
  BY DEF ShellGone
<1>2. shells \in [Shells -> {"none", "up", "done"}] /\ files \in [Shells -> Verdicts \cup {"none"}]
  BY DEF ShellJobsInv, DiskInv
<1>3. /\ shells' \in [Shells -> {"none", "up", "done"}] /\ files' \in [Shells -> Verdicts \cup {"none"}]
      /\ \A t \in Shells : shells'[t] # "none" => shells'[t] = shells[t]
      /\ \A t \in Shells : files'[t] # "none" => files'[t] = files[t]
  BY <1>1, <1>2
<1>4. /\ DiskInv' /\ Live' \subseteq Live
      /\ \A j \in Jobs : RowInv(j, rows'[j]) => RowInv(j, rows[j])'
      /\ \A seen : Covers(seen) => Covers(seen)'
  BY <1>1, <1>3, LessOnDisk DEF ShellJobsInv
<1>5. rows' \in [Jobs -> ARow] /\ \A j \in Jobs : RowInv(j, rows[j])'
  <2>1. rows' \in [Jobs -> ARow] /\ \A j \in Jobs : RowInv(j, rows'[j])
    BY <1>1 DEF ShellJobsInv
  <2> QED BY <1>4, <2>1
<1>6. \A t \in Shells : shells[t] = "none" => shells'[t] = "none"
  BY <1>1, <1>2
<1>7. ASSUME NEW c \in Callers PROVE OpInv(c)'
  BY <1>1, <1>4, <1>6, OpKept
<1> QED BY <1>1, <1>4, <1>5, <1>7, OutsideStep

LEMMA EvictInv ==
  ASSUME ShellJobsInv, NEW j \in Jobs, Evict(j)
  PROVE  ShellJobsInv'
<1>1. PICK r : r = rows[j]
  OBVIOUS
<1>2. PICK s : s = [NoRow EXCEPT !.status = "evicted"]
  OBVIOUS
<1>3. /\ r.status \in Confirmed \cup {"lost"} /\ SetRow(j, s)
      /\ files' = [t \in Shells |-> IF t[1] = j THEN "none" ELSE files[t]]
      /\ UNCHANGED <<shells, launched, stray, truth, op, over>>
  BY <1>1, <1>2 DEF Evict
<1>4. shells \in [Shells -> {"none", "up", "done"}] /\ files \in [Shells -> Verdicts \cup {"none"}]
  BY DEF ShellJobsInv, DiskInv
<1>5. /\ shells' \in [Shells -> {"none", "up", "done"}] /\ files' \in [Shells -> Verdicts \cup {"none"}]
      /\ \A t \in Shells : shells'[t] # "none" => shells'[t] = shells[t]
      /\ \A t \in Shells : files'[t] # "none" => files'[t] = files[t]
  BY <1>3, <1>4
<1>6. /\ s \in ARow /\ s.status = "evicted" /\ s.pending = 0 /\ ~s.paths
  <2>1. 0 \in 0 .. MaxAttempts /\ FALSE \in BOOLEAN /\ "evicted" \in Statuses
    BY MaxAttemptsAssumption DEF Statuses
  <2> QED BY <1>2, <2>1 DEF NoRow, ARow
<1>7. RowInv(j, s)
  <2>1. RowNames(j, r)
    BY <1>1 DEF ShellJobsInv, RowInv
  <2>2. \A a \in Attempts : ~(shells[<<j, a>>] = "up" /\ <<j, a>> \notin stray)
    BY <1>3, <2>1 DEF RowNames, Confirmed
  <2>3. RowNames(j, s)
    BY <1>6, <2>2 DEF RowNames, Present
  <2>4. RowCounts(j, s)
    BY <1>6 DEF RowCounts, Absent
  <2> QED BY <1>6, <2>3, <2>4 DEF RowInv
<1>8. /\ rows' \in [Jobs -> ARow] /\ rows'[j] = s /\ \A i \in Jobs \ {j} : rows'[i] = rows[i]
      /\ \A i \in Jobs : RowInv(i, rows'[i])
  BY <1>3, <1>6, <1>7, RowSet DEF ShellJobsInv
<1>9. /\ DiskInv' /\ Live' \subseteq Live
      /\ \A i \in Jobs : RowInv(i, rows'[i]) => RowInv(i, rows[i])'
      /\ \A seen : Covers(seen) => Covers(seen)'
  BY <1>3, <1>5, LessOnDisk DEF ShellJobsInv
<1>10. \A i \in Jobs : RowInv(i, rows[i])'
  BY <1>8, <1>9
<1>11. \A t \in Shells : shells[t] = "none" => shells'[t] = "none"
  BY <1>3
<1>12. r.status \notin Active \cup {"none"}
  BY <1>3 DEF Active, Confirmed
<1>13. ASSUME NEW c \in Callers PROVE OpInv(c)'
  <2>1. op[c].job \in Jobs =>
          \/ rows'[op[c].job] = rows[op[c].job]
          \/ /\ rows'[op[c].job].status = "evicted"
             /\ rows[op[c].job].status \notin Active \cup {"none"}
    BY <1>1, <1>6, <1>8, <1>12
  <2> QED BY <1>3, <1>9, <1>11, <2>1, OpKept
<1> QED BY <1>3, <1>8, <1>9, <1>10, <1>13, OutsideStep

--------------------------------------------------------------------------------
LEMMA ShellJobsInit == Init => ShellJobsInv
<1> SUFFICES ASSUME Init PROVE ShellJobsInv
  OBVIOUS
<1>1. 0 \in 0 .. MaxAttempts /\ FALSE \in BOOLEAN /\ "none" \in Statuses
  BY MaxAttemptsAssumption DEF Statuses
<1>2. NoRow \in ARow
  BY <1>1 DEF NoRow, ARow
<1>3. Idle \in AnOp /\ Idle.pc = "idle" /\ Idle.kind = "none" /\ Idle.owns = None
  BY DEF Idle, AnOp, OpPcs, OpKinds
<1>4. DiskInv
  BY <1>1 DEF Init, DiskInv, Shells
<1>5. \A j \in Jobs, a \in Attempts : shells[<<j, a>>] = "none" /\ <<j, a>> \in Shells
  BY DEF Init, Shells
<1>6. ASSUME NEW j \in Jobs PROVE RowInv(j, rows[j])
  <2>1. rows[j] = NoRow /\ launched[j] = 0
    BY DEF Init
  <2>2. RowCounts(j, NoRow)
    BY <2>1 DEF RowCounts, NoRow, Absent
  <2>3. RowNames(j, NoRow)
    BY <1>5 DEF RowNames, NoRow, Present
  <2> QED BY <1>2, <2>1, <2>2, <2>3 DEF RowInv
<1>7. ASSUME NEW c \in Callers PROVE OpInv(c)
  <2>1. op[c] = Idle
    BY DEF Init
  <2> QED BY <1>3, <2>1 DEF OpInv
<1>8. OneOp /\ over = FALSE /\ DOMAIN op = Callers /\ rows \in [Jobs -> ARow]
  BY <1>2, <1>3 DEF Init, OneOp
<1> QED BY <1>4, <1>6, <1>7, <1>8 DEF ShellJobsInv

LEMMA ShellJobsStep == ShellJobsInv /\ [Next]_vars => ShellJobsInv'
<1> SUFFICES ASSUME ShellJobsInv, [Next]_vars PROVE ShellJobsInv'
  OBVIOUS
<1>1. ASSUME NEW c \in Callers, CallerStep(c) PROVE ShellJobsInv'
  <2>1. ASSUME NEW k \in Kinds, NEW j \in Jobs \cup {None}, Admit(c, k, j) PROVE ShellJobsInv'
    BY <2>1, AdmitInv
  <2>2. CASE Interrupted(c) \/ List(c) \/ TailLog(c) \/ TailLogFails(c)
    BY <2>2, InterruptedInv, ListInv, TailLogInv, TailLogFailsInv
  <2>3. CASE Start(c) \/ Retry(c) \/ Prepare(c) \/ Spawn(c) \/ SpawnFails(c)
    BY <2>3, StartInv, RetryInv, PrepareInv, SpawnInv, SpawnFailsInv
  <2>4. CASE SpawnUncertain(c) \/ Commit(c) \/ CommitFails(c)
    BY <2>4, SpawnUncertainInv, CommitInv, CommitFailsInv
  <2>5. CASE Stop(c) \/ Kill(c) \/ KillMisses(c) \/ StopCommit(c)
    BY <2>5, StopInv, KillInv, KillMissesInv, StopCommitInv
  <2>6. ASSUME NEW j \in Jobs, EndStop(c, j) PROVE ShellJobsInv'
    BY <2>6, EndStopInv
  <2>7. CASE EndList(c) \/ EndShells(c) \/ EndKill(c) \/ EndSession(c)
    BY <2>7, EndListInv, EndShellsInv, EndKillInv, EndSessionInv
  <2> QED BY <1>1, <2>1, <2>2, <2>3, <2>4, <2>5, <2>6, <2>7 DEF CallerStep
<1>2. ASSUME NEW s \in Shells, NEW v \in Verdicts, RunnerEnds(s, v) PROVE ShellJobsInv'
  BY <1>2, RunnerEndsInv
<1>3. ASSUME NEW s \in Shells, ShellGone(s) PROVE ShellJobsInv'
  BY <1>3, ShellGoneInv
<1>4. ASSUME NEW j \in Jobs, Evict(j) PROVE ShellJobsInv'
  BY <1>4, EvictInv
<1>5. CASE UNCHANGED vars
  <2>1. UNCHANGED disk /\ rows' = rows /\ op' = op /\ over' = over
    BY <1>5 DEF vars
  <2>2. /\ DiskInv' /\ Live' = Live /\ \A j \in Jobs : RowInv(j, rows[j])'
    BY <2>1, DiskKept DEF ShellJobsInv
  <2>3. /\ launched' = launched /\ \A seen : Covers(seen) => Covers(seen)'
        /\ shells' = shells
    BY <2>1, DiskKept DEF disk
  <2>4. ASSUME NEW c \in Callers PROVE OpInv(c)'
    BY <2>1, <2>3, OpKept
  <2>5. rows' \in [Jobs -> ARow]
    BY <2>1 DEF ShellJobsInv
  <2> QED BY <2>1, <2>2, <2>4, <2>5, OutsideStep
<1> QED BY <1>1, <1>2, <1>3, <1>4, <1>5 DEF Next

LEMMA ShellJobsInvariant == Spec => []ShellJobsInv
BY ShellJobsInit, ShellJobsStep, PTL DEF Spec

(* Whatever was cancelled, found the store busy or crashed between two awaits: a command *)
(* that runs is one its job's row will find, a row that calls its job succeeded or lost  *)
(* is right about it, and a session that was ended has no shell left.                    *)
THEOREM JobsAgreeTheorem == Spec => []JobsAgree
<1>1. ShellJobsInv => JobsAgree
  <2> SUFFICES ASSUME ShellJobsInv PROVE JobsAgree
    OBVIOUS
  <2>1. \A j \in Jobs : RowCounts(j, rows[j]) /\ RowNames(j, rows[j])
    BY DEF ShellJobsInv, RowInv
  <2>2. ShellHasRow
    BY <2>1 DEF ShellHasRow, RowNames
  <2>3. TypeOK
    <3>1. \A j \in Jobs : rows[j].pending # 0 <=> rows[j].status = "retrying"
      BY <2>1 DEF RowCounts
    <3>2. rows \in [Jobs -> ARow] /\ over \in BOOLEAN
      BY DEF ShellJobsInv
    <3> QED BY <3>1, <3>2 DEF TypeOK, ShellJobsInv, DiskInv, ARow
  <2>4. VerdictIsTrue /\ LostIsSilent
    BY <2>1 DEF RowNames, VerdictIsTrue, LostIsSilent
  <2>5. EndedLeavesNothing
    BY DEF ShellJobsInv, EndedLeavesNothing
  <2> QED BY <2>2, <2>3, <2>4, <2>5 DEF JobsAgree, RowsTellTruth
<1> QED BY <1>1, ShellJobsInvariant, PTL

(* Every shell gets an attempt number above all before it, also when the retry that     *)
(* chose the number was interrupted: the number is taken once the shell may exist.      *)
THEOREM FreshAttemptTheorem == Spec => FreshAttempt
<1> DEFINE Fresh == \A j \in Jobs, a \in Attempts :
                      shells[<<j, a>>] # "up" /\ shells'[<<j, a>>] = "up" => a > launched[j]
<1>1. ShellJobsInv /\ [Next]_vars => [Fresh]_vars
  <2> SUFFICES ASSUME ShellJobsInv, Next PROVE Fresh
    OBVIOUS
  <2> SUFFICES ASSUME NEW j \in Jobs, NEW a \in Attempts,
                      shells[<<j, a>>] # "up", shells'[<<j, a>>] = "up"
               PROVE  a > launched[j]
    OBVIOUS
  <2>1. <<j, a>> \in Shells /\ shells \in [Shells -> {"none", "up", "done"}] /\ shells' # shells
    BY DEF Shells, ShellJobsInv, DiskInv
  <2>2. ASSUME NEW c \in Callers, Spawn(c) \/ SpawnUncertain(c) PROVE a > launched[j]
    <3>1. PICK b : b = Attempt(c)
      OBVIOUS
    <3>2. PICK k : k = op[c].job
      OBVIOUS
    <3>3. op[c].pc = "spawning" /\ Spawned(<<k, b>>)
      BY <2>2, <3>1, <3>2 DEF Spawn, SpawnUncertain
    <3>4. /\ launched[k] < b /\ k \in Jobs /\ b \in Attempts
      BY <3>1, <3>2, <3>3, LaunchFacts
    <3>5. <<j, a>> = <<k, b>>
      BY <2>1, <3>3 DEF Spawned
    <3>6. j = k /\ a = b
      BY <3>5
    <3>7. launched[k] \in Nat
      BY <3>4 DEF ShellJobsInv, DiskInv
    <3> QED BY <3>4, <3>6, <3>7 DEF Attempts
  <2>3. ASSUME NEW c \in Callers, CommitFails(c) PROVE FALSE
    BY <2>1, <2>3 DEF CommitFails
  <2>4. ASSUME NEW c \in Callers, Kill(c) \/ EndKill(c) PROVE FALSE
    BY <2>1, <2>4 DEF Kill, EndKill
  <2>5. ASSUME NEW s \in Shells, NEW v \in Verdicts, RunnerEnds(s, v) PROVE FALSE
    BY <2>1, <2>5 DEF RunnerEnds
  <2>6. ASSUME NEW s \in Shells, ShellGone(s) PROVE FALSE
    BY <2>1, <2>6 DEF ShellGone
  <2>7. ASSUME NEW k \in Jobs, Evict(k) PROVE FALSE
    BY <2>1, <2>7 DEF Evict
  <2>8. ASSUME NEW c \in Callers, CallerStep(c) PROVE a > launched[j]
    <3>1. \A k \in Kinds, i \in Jobs \cup {None} : ~Admit(c, k, i)
      BY <2>1 DEF Admit, disk
    <3>2. ~Interrupted(c) /\ ~List(c) /\ ~TailLog(c) /\ ~TailLogFails(c)
      BY <2>1 DEF Interrupted, List, TailLog, TailLogFails, disk
    <3>3. ~Start(c) /\ ~Retry(c) /\ ~Prepare(c) /\ ~SpawnFails(c) /\ ~Commit(c)
      BY <2>1 DEF Start, Retry, Prepare, SpawnFails, Commit, disk
    <3>4. ~Stop(c) /\ ~KillMisses(c) /\ ~StopCommit(c) /\ ~EndList(c)
      BY <2>1 DEF Stop, KillMisses, StopCommit, EndList, disk
    <3>5. ~EndShells(c) /\ ~EndSession(c) /\ \A i \in Jobs : ~EndStop(c, i)
      BY <2>1 DEF EndShells, EndSession, EndStop, disk
    <3> QED BY <2>2, <2>3, <2>4, <2>8, <3>1, <3>2, <3>3, <3>4, <3>5 DEF CallerStep
  <2> QED BY <2>5, <2>6, <2>7, <2>8 DEF Next
<1> QED BY <1>1, ShellJobsInvariant, PTL DEF Spec, FreshAttempt

================================================================================
