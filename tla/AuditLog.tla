-------------------------------- MODULE AuditLog --------------------------------
(*****************************************************************************)
(* The audit log of audit/core.py and audit/payloads.py: every tool call     *)
(* appends a start and an end record to the global log; each append enforces *)
(* the limits of the log and of the payload files, under locks of threads    *)
(* and processes. A transaction may be cut anywhere by an error or a crash;  *)
(* nobody sees it half done otherwise.                                       *)
(*****************************************************************************)
EXTENDS Naturals, Sequences, FiniteSets, SequencesExt, FiniteSetsExt

CONSTANTS AuditCalls,      \* tool calls
          Payloads,        \* contents that are stored apart
          MaxLog,          \* max_audit_log_bytes, in records
          MaxStore,        \* max_audit_payload_store_bytes, in payloads
          Retention,       \* ticks of time within audit_payload_retention_s
          MaxAuditTime     \* bound on time

ASSUME AuditAssumption ==
  /\ 0 \notin AuditCalls \cup Payloads
  /\ MaxLog \in Nat \ {0, 1} /\ {MaxStore, Retention, MaxAuditTime} \subseteq Nat

VARIABLES
  log,        \* the lines of the global log
  torn,       \* its last line has no end
  store,      \* payload files: content -> time of the last write
  stage,      \* [AuditCalls -> 0..3]: the kinds of records the call is past
  auditTime,
  whole       \* history: calls whose two records were in the global log together
auVars == <<log, torn, store, stage, auditTime, whole>>

\* payload 0: the value is inline, or too large, or its file cannot be written.
Record(c, kind, p) == [call |-> c, kind |-> kind, payload |-> p, at |-> auditTime]
Junk == [call |-> 0, kind |-> "junk", payload |-> 0, at |-> 0]
Kinds == [start |-> 1, event |-> 2, end |-> 3]

AuditInit ==
  /\ log = <<>> /\ store = <<>> /\ torn = FALSE /\ stage = [c \in AuditCalls |-> 0]
  /\ auditTime = 0 /\ whole = {}

Paired(l, c) == \A kind \in {"start", "end"} :
                  \E i \in DOMAIN l : l[i].call = c /\ l[i].kind = kind
Only(l, kept) == LET keep(i) == i \in kept
                     at == SetToSortSeq(kept, <)
                 IN  [i \in DOMAIN at |-> l[at[i]]]

--------------------------------------------------------------------------------
\* append_private_bytes: what follows a torn line makes one unreadable line with it.
Appended(l, r) == IF torn THEN [l EXCEPT ![Len(l)] = Junk] ELSE Append(l, r)

\* A slip: every line is a unit of its own.
LineUnit(l, i) == {i}
\* _retention_units: the lifecycle records of a call are one unit.
Unit(l, i) ==
  IF l[i].kind \in {"start", "end"}
    THEN {j \in DOMAIN l : l[j].call = l[i].call /\ l[j].kind \in {"start", "end"}}
    ELSE {i}
Newest(l, i) == i = Max(Unit(l, i))
\* The units of the log, in the order of their newest records.
Units(l) == LET at == SetToSortSeq({i \in DOMAIN l : Newest(l, i)}, <)
            IN  [i \in DOMAIN at |-> Unit(l, at[i])]

\* _enforce_audit_log_limit: the newest units that fit half the limit, at least one.
Target == MaxLog \div 2
Take(acc, unit) ==
  IF acc.full \/ Cardinality(unit) > MaxLog THEN acc
  ELSE IF acc.kept # {} /\ Cardinality(acc.kept \cup unit) > Target
    THEN [acc EXCEPT !.full = TRUE]
    ELSE [kept |-> acc.kept \cup unit, full |-> Cardinality(acc.kept \cup unit) >= Target]
Limited(l) ==
  IF Len(l) <= MaxLog THEN l
  ELSE Only(l, FoldLeft(Take, [kept |-> {}, full |-> FALSE], Reverse(Units(l))).kept)

\* _enforce_audit_retention: the oldest units go until the payloads they refer to fit ...
Refers(l, kept) == {l[i].payload : i \in kept} \ {0}
Heavy(l, kept, files) == Cardinality(Refers(l, kept) \cap DOMAIN files) > MaxStore
\* A slip: the quota is left to the removal of files.
SweptLater(l, files) == l
Swept(l, files) ==
  LET drop(kept, unit) == IF Heavy(l, kept, files) THEN kept \ unit ELSE kept
  IN  Only(l, FoldLeft(drop, DOMAIN l, Units(l)))

\* ... and files go that no record, or only an expired one, refers to: prune_payload_files.
Expired(t) == auditTime - t > Retention
Active(l, files) == {l[i].payload : i \in {j \in DOMAIN l : ~Expired(l[j].at)}} \ {0}
Lives(l, files) ==
  {p \in DOMAIN files : IF p \in Refers(l, DOMAIN l) THEN p \in Active(l, files) ELSE ~Expired(files[p])}
\* What is over the quota goes: first what no active record needs, the oldest first.
Sooner(l, files, p, q) ==
  \/ p \notin Active(l, files) /\ q \in Active(l, files)
  \/ (p \in Active(l, files) <=> q \in Active(l, files)) /\ files[p] < files[q]
FilesLeft(l, files) ==
  {kept \in SUBSET Lives(l, files) :
     /\ Cardinality(kept) = Min({MaxStore, Cardinality(Lives(l, files))})
     /\ \A p \in Lives(l, files) \ kept, q \in kept : ~Sooner(l, files, q, p)}
Keeping(files, kept) == [p \in kept |-> files[p]]

--------------------------------------------------------------------------------
\* audit: how far the transaction of record r comes before an error or a crash.
Stored(r) == IF r.payload = 0 THEN store ELSE [p \in {r.payload} |-> auditTime] @@ store
Sets(l, broken, files) ==
  /\ log' = l /\ torn' = broken /\ store' = files
  /\ whole' = whole \cup {c \in AuditCalls : Paired(l, c)}
Transaction(r, reach) ==
  LET written == Appended(log, r)
      limited == Limited(written)
      files == Stored(r)
      swept == Swept(limited, files)
  IN CASE reach = "stored" -> Sets(log, torn, files)
       [] reach = "torn" -> Sets(Appended(log, Junk), TRUE, files)
       [] reach = "appended" -> Sets(written, FALSE, files)
       [] reach = "limited" -> Sets(limited, FALSE, files)
       [] reach = "swept" -> Sets(swept, FALSE, files)
       [] reach = "done" /\ (r.payload # 0 \/ limited # written) ->
            \E kept \in FilesLeft(swept, files) : Sets(swept, FALSE, Keeping(files, kept))
       \* Without a change of either, files are swept once a minute.
       [] OTHER -> \/ Sets(limited, FALSE, files)
                   \/ \E kept \in FilesLeft(swept, files) : Sets(swept, FALSE, Keeping(files, kept))
Cuts == {"stored", "torn", "appended", "limited", "swept"}

\* audit_tool_call_start, audit, audit_tool_call_end, as the wrappers of the transports
\* call them: a call whose start cannot be recorded does not run.
AuditRecord(c, kind, p) ==
  /\ stage[c] < Kinds[kind] /\ (stage[c] = 0 <=> kind = "start")
  /\ LET r == Record(c, kind, p) IN
     \/ Transaction(r, "done") /\ stage' = [stage EXCEPT ![c] = Kinds[kind]]
     \/ /\ \E reach \in Cuts : Transaction(r, reach)
        /\ stage' = [stage EXCEPT ![c] = IF kind = "event" THEN 2 ELSE 3]
  /\ UNCHANGED auditTime
CallDies(c) ==
  /\ stage[c] \in 1..2 /\ stage' = [stage EXCEPT ![c] = 3]
  /\ UNCHANGED <<log, torn, store, auditTime, whole>>
AuditTick ==
  /\ auditTime < MaxAuditTime /\ auditTime' = auditTime + 1
  /\ UNCHANGED <<log, torn, store, stage, whole>>

AuditNext ==
  \/ \E c \in AuditCalls :
       \/ \E kind \in {"start", "end"}, p \in Payloads \cup {0} : AuditRecord(c, kind, p)
       \/ AuditRecord(c, "event", 0) \/ CallDies(c)
  \/ AuditTick

AuditSpec == AuditInit /\ [][AuditNext]_auVars

--------------------------------------------------------------------------------
\* _coalesce_audit_records: a row of the Human UI for each call and for each event that
\* has no call of its own; it names its lines.
Row(c, status, i) == [call |-> c, status |-> status, lines |-> {i}]
Folded(l) ==
  LET into(rows, c, i, status) ==
        {IF row.call = c /\ row.status \in {"running", "completed"}
           THEN [row EXCEPT !.lines = @ \cup {i}, !.status = IF status = "" THEN @ ELSE status]
           ELSE row : row \in rows}
      begun(rows, c) == \E row \in rows : row.call = c /\ row.status \in {"running", "completed"}
      open(rows, c) == \E row \in rows : row.call = c /\ row.status = "running"
      next(rows, i) ==
        LET r == l[i] IN
        CASE r.kind = "junk" -> rows
          [] r.kind = "start" -> rows \cup {Row(r.call, "running", i)}
          [] r.kind = "end" -> IF open(rows, r.call) THEN into(rows, r.call, i, "completed")
                               ELSE rows \cup {Row(r.call, "unpaired", i)}
          [] OTHER -> IF begun(rows, r.call) THEN into(rows, r.call, i, "")
                      ELSE rows \cup {Row(0, "event", i)}
  IN  FoldLeft(next, {}, [i \in DOMAIN l |-> i])

--------------------------------------------------------------------------------
AuTypeOK ==
  /\ DOMAIN store \subseteq Payloads
  /\ \A c \in AuditCalls : stage[c] \in 0..3
  /\ torn => Last(log) = Junk

\* docs/security.md:238: however the limits of the log and of the payloads cut it, and
\* wherever they are interrupted, the log keeps both records of a call or neither.
PairsKept ==
  \A c \in whole : (\E i \in DOMAIN log : log[i].call = c /\ log[i].kind \in {"start", "end"}) => Paired(log, c)

\* A payload that a record of the log needs is there until the record expires, although
\* records share payloads and files are removed for age, for want of one and for room.
PayloadsKept == \A i \in DOMAIN log : log[i].payload # 0 /\ ~Expired(log[i].at) => log[i].payload \in DOMAIN store

\* A reader is told that a call runs only when its end was never recorded, and every
\* readable line is in one row.
RowsTrue ==
  /\ \A row \in Folded(log) : row.status = "running" => row.call \notin whole
  /\ \A i \in DOMAIN log : log[i] # Junk => Cardinality({row \in Folded(log) : i \in row.lines}) = 1
  /\ \A c \in AuditCalls : Cardinality({row \in Folded(log) : row.call = c}) <= 1

AuditSound == AuTypeOK /\ PairsKept /\ PayloadsKept /\ RowsTrue
================================================================================
