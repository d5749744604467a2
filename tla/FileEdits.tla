------------------------------- MODULE FileEdits -------------------------------
(*****************************************************************************)
(* Reads that ground edits, and the edits (ops/files.py): a read shows lines *)
(* and records a snapshot of what it showed; an edit names a snapshot and is *)
(* validated against it while the locks of its files are held (PathLocks).   *)
(* Commands and patches write without these locks, at any moment.            *)
(* A line is identified by the call that wrote it, so that equal texts are   *)
(* equal files, which is what their digests compare.                         *)
(*****************************************************************************)
EXTENDS Naturals, Sequences, FiniteSets, SequencesExt

CONSTANTS EditFiles,   \* files, as numbers
          Tools,       \* tool calls that may run at a time
          Shapes,      \* the hunks a client may ask for: [kind, from, to, n]
          Ranges,      \* the line ranges a client may read: <<from, to>>
          FirstLines,  \* lines of every file at first
          MaxRead,     \* max_file_read_bytes, in lines
          MaxLines,    \* max_file_write_bytes, in lines
          MaxSnaps,    \* max_session_snapshots
          Margin,      \* lines of context around a hunk
          MaxMade,     \* bound on calls and writes of others
          NoText, NoSnap

ASSUME FileEditsAssumption ==
  /\ EditFiles \subseteq Nat /\ Tools \subseteq Nat \ {0} /\ Ranges \subseteq Nat \X Nat
  /\ {FirstLines, MaxRead, MaxLines, Margin, MaxMade} \subseteq Nat
  /\ MaxSnaps \in Nat \ {0}
  /\ \A h \in Shapes : h.kind \in {"rows", "swap", "before", "after"} /\ {h.from, h.to, h.n} \subseteq Nat

VARIABLES
  text,      \* [EditFiles -> sequence of lines, or NoText]
  lockOf,    \* [EditFiles -> the tool that holds its lock, or 0]
  snaps,     \* the session's snapshots, oldest first
  tool,      \* what each tool call does
  made       \* calls, and writes of others, so far

feVars == <<text, lockOf, snaps, tool, made>>

Line(n, f, at, k) == <<n, f, at, k>>
Waiting == [pc |-> "idle"]

EditsInit ==
  /\ text = [f \in EditFiles |-> [i \in 1..FirstLines |-> Line(0, f, i, 1)]]
  /\ lockOf = [f \in EditFiles |-> 0]
  /\ snaps = <<>>
  /\ tool = [c \in Tools |-> Waiting]
  /\ made = 0

\* The tool calls are alike: the first that is idle is the next to start.
Starts(c) ==
  /\ tool[c].pc = "idle" /\ \A d \in Tools : d < c => tool[d].pc # "idle"
  /\ made < MaxMade /\ made' = made + 1
Ends(c) == tool' = [tool EXCEPT ![c] = Waiting]
Unlocked(c) == [f \in EditFiles |-> IF lockOf[f] = c THEN 0 ELSE lockOf[f]]
Gives(c) == Ends(c) /\ lockOf' = Unlocked(c)

Lines(t) == CASE t = NoText -> <<>>
              [] Len(t) = MaxLines -> Front(t)
              [] OTHER -> t
\* A command of a shell, or git apply for apply_patch: it puts a line on top of the
\* file or takes it away, whoever holds its lock. raced is a history of the call whose
\* look at the file is past.
OutsideWrites(f) ==
  /\ made < MaxMade /\ made' = made + 1
  /\ \E t \in {<<Line(made + 1, f, 0, 1)>> \o Lines(text[f]), NoText} :
       t # text[f] /\ text' = [text EXCEPT ![f] = t]
  /\ tool' = [c \in Tools |->
       IF tool[c].pc \in {"looked", "apply"} /\ f \in tool[c].files
         THEN [tool[c] EXCEPT !.raced = @ \cup {f}] ELSE tool[c]]
  /\ UNCHANGED <<lockOf, snaps>>

--------------------------------------------------------------------------------
\* SnapshotRepository.record keeps the newest.
Kept(s) == IF Len(s) > MaxSnaps THEN SubSeq(s, Len(s) - MaxSnaps + 1, Len(s)) ELSE s

\* _selected_read_lines, of the part of the file that was read.
Selected(lines, from, to) ==
  LET last == IF Len(lines) < MaxRead THEN Len(lines) ELSE MaxRead
  IN [i \in {j \in from..to : j >= 1 /\ j <= last} |-> lines[i]]

\* read_file_explicit: the lines are taken from the file ...
ReadFile(c, f, from, to) ==
  /\ Starts(c) /\ text[f] # NoText
  /\ tool' = [tool EXCEPT ![c] =
       [pc |-> "hash", file |-> f, saw |-> Selected(text[f], from, to)]]
  /\ UNCHANGED <<text, lockOf, snaps>>

\* ... and the digest in the snapshot is of the file as it is afterwards.
Hash(c) ==
  LET t == tool[c] IN
  /\ t.pc = "hash" /\ Ends(c)
  /\ snaps' = (IF text[t.file] = NoText THEN snaps
               ELSE Kept(Append(snaps, [file |-> t.file, sha |-> text[t.file], saw |-> t.saw])))
  /\ UNCHANGED <<text, lockOf, made>>

--------------------------------------------------------------------------------
\* What a call wants to do: kind is edit, write or delete; its files must exist
\* unless they are written whole.
Wants(c, job) ==
  /\ Starts(c) /\ \A f \in job.files : job.kind = "write" \/ text[f] # NoText
  /\ tool' = [tool EXCEPT ![c] = [pc |-> "want", n |-> made + 1] @@ job]
  /\ UNCHANGED <<text, lockOf, snaps>>

\* A hunk of hashline_edit, or the range of edit_lines, whose snapshot may be missing.
Hunks == {[shape |-> s, file |-> f, snap |-> p] :
            s \in Shapes, f \in EditFiles, p \in ToSet(snaps) \cup {NoSnap}}

\* The header is copied with its path, and rows from what the snapshot showed.
Askable(h) ==
  /\ h.snap # NoSnap => h.file = h.snap.file
  /\ h.shape.kind = "rows" =>
       h.snap # NoSnap /\ (h.shape.from..h.shape.to) \subseteq DOMAIN h.snap.saw
  /\ h.snap = NoSnap => h.shape.kind = "swap"

EditBegin(c) ==
  \E h, g \in {k \in Hunks : Askable(k)} :
    /\ h.snap = NoSnap => g = h
    /\ g.snap = NoSnap => g = h
    /\ Wants(c, [kind |-> "edit", files |-> {h.file, g.file}, hunks |-> {h, g}])

WriteBegin(c, f) ==
  \E overwrite \in BOOLEAN, expected \in {NoSnap} \cup ToSet(snaps) :
    Wants(c, [kind |-> "write", files |-> {f}, overwrite |-> overwrite, expected |-> expected])

DeleteBegin(c, f) == Wants(c, [kind |-> "delete", files |-> {f}])

\* path_locks.
AcquireSome(c) ==
  /\ tool[c].pc = "want"
  /\ tool' = [tool EXCEPT ![c].pc = "locked"]
  /\ lockOf' = [f \in EditFiles |-> IF f \in tool[c].files THEN c ELSE lockOf[f]]
  /\ UNCHANGED <<text, snaps, made>>
Acquire(c) ==
  /\ tool[c].pc = "want" /\ \A f \in tool[c].files : lockOf[f] = 0
  /\ tool' = [tool EXCEPT ![c].pc = "locked"]
  /\ lockOf' = [f \in EditFiles |-> IF f \in tool[c].files THEN c ELSE lockOf[f]]
  /\ UNCHANGED <<text, snaps, made>>

--------------------------------------------------------------------------------
\* With the locks held the files are looked at twice, for their lines and for their
\* digests, or first whether there is one.
LookAtFiles(c) ==
  LET job == tool[c] IN
  /\ job.pc = "locked"
  /\ tool' = [tool EXCEPT ![c] =
       [pc |-> "looked", seen |-> [f \in job.files |-> text[f]], raced |-> {}] @@ job]
  /\ UNCHANGED <<text, lockOf, snaps, made>>

\* hashline_edit reads the lines first, edit_lines, of one range, the digest.
OneRange(job) ==
  job.kind = "edit" /\ \E h \in job.hunks : job.hunks = {h} /\ h.shape.kind = "swap"
Looks(job) ==
  LET now == [f \in job.files |-> text[f]] IN
  {[lines |-> job.seen, digest |-> now]}
    \cup (IF OneRange(job) THEN {[lines |-> now, digest |-> job.seen]} ELSE {})

\* _validate_snapshot_for_edit.
Grounded(h, digest) ==
  h.snap # NoSnap =>
    /\ h.snap \in ToSet(snaps) /\ h.snap.file = h.file /\ h.snap.sha = digest
    /\ DOMAIN h.snap.saw # {} => (h.shape.from..h.shape.to) \subseteq DOMAIN h.snap.saw

\* A hunk whose copied rows are not compared.
RowsTrusted(h, lines) == TRUE
\* _prepare_hashline_hunk: copied rows are compared with the file.
RowsMatch(h, lines) ==
  h.shape.kind = "rows" => \A i \in h.shape.from..h.shape.to : lines[i] = h.snap.saw[i]

Prepared(h, lines, digest) ==
  /\ lines # NoText /\ digest # NoText
  /\ h.shape.from <= h.shape.to /\ h.shape.to <= Len(lines)
  /\ Grounded(h, digest) /\ RowsMatch(h, lines)

\* _validate_hashline_hunk_overlap.
Disjoint(hunks) ==
  \A h, g \in hunks :
    h # g /\ h.file = g.file => h.shape.to < g.shape.from \/ g.shape.to < h.shape.from

NewLines(n, h, lines) ==
  LET fresh == [k \in 1..h.shape.n |-> Line(n, h.file, h.shape.from, k)]
      anchor == <<lines[h.shape.from]>>
  IN CASE h.shape.kind = "before" -> fresh \o anchor
       [] h.shape.kind = "after" -> anchor \o fresh
       [] OTHER -> fresh

Splice(s, from, to, new) == SubSeq(s, 1, from - 1) \o new \o SubSeq(s, to + 1, Len(s))

\* From the top: the line numbers of the later hunks no longer fit.
TopDown(hunks) == SetToSortSeq(hunks, LAMBDA h, g : h.shape.from < g.shape.from)
BottomUp(hunks) == SetToSortSeq(hunks, LAMBDA h, g : h.shape.from > g.shape.from)
HunksOf(job, f) == {h \in job.hunks : h.file = f}

\* _apply_hashline_file_hunks.
Applied(job, f, lines) ==
  FoldLeft(LAMBDA s, h : Splice(s, h.shape.from, h.shape.to, NewLines(job.n, h, lines)),
           lines, BottomUp(HunksOf(job, f)))

\* The checks with the locks held, and what each file is to become.
Allowed(job, look) ==
  CASE job.kind = "edit" ->
         /\ \A h \in job.hunks : Prepared(h, look.lines[h.file], look.digest[h.file])
         /\ Disjoint(job.hunks)
    [] job.kind = "write" ->
         \A f \in job.files :
           /\ look.lines[f] # NoText => job.overwrite
           /\ job.expected # NoSnap => look.lines[f] # NoText /\ look.digest[f] = job.expected.sha
    [] OTHER -> \A f \in job.files : look.lines[f] # NoText

Becomes(job, f, lines) ==
  CASE job.kind = "edit" -> Applied(job, f, lines)
    [] job.kind = "write" -> <<Line(job.n, f, 1, 1)>>
    [] OTHER -> NoText

Validate(c) ==
  LET job == tool[c] IN
  /\ job.pc = "looked"
  /\ \E look \in Looks(job) :
       IF Allowed(job, look)
         THEN /\ tool' = [tool EXCEPT ![c] =
                   [pc |-> "apply", kind |-> job.kind, files |-> job.files, left |-> job.files,
                    hunks |-> IF job.kind = "edit"
                              THEN {[file |-> h.file, shape |-> h.shape, snap |-> h.snap,
                                     count |-> Len(NewLines(job.n, h, look.lines[h.file]))] :
                                      h \in job.hunks}
                              ELSE {},
                    raced |-> IF look.lines = job.seen THEN job.raced ELSE {},
                    base |-> look.lines,
                    result |-> [f \in job.files |-> Becomes(job, f, look.lines[f])]]]
              /\ UNCHANGED lockOf
         ELSE Gives(c)
  /\ UNCHANGED <<text, snaps, made>>

\* _atomic_write_text or unlink, one file after another.
WriteOne(c, f) ==
  LET job == tool[c] IN
  /\ job.pc = "apply" /\ f \in job.left
  /\ IF job.result[f] = NoText THEN text[f] # NoText ELSE Len(job.result[f]) <= MaxLines
  /\ text' = [text EXCEPT ![f] = job.result[f]]
  /\ tool' = [tool EXCEPT ![c].left = @ \ {f}]
  /\ UNCHANGED <<lockOf, snaps, made>>

\* The result is too large, or the disk refuses: the files already written stay.
WriteFails(c) ==
  /\ tool[c].pc = "apply" /\ tool[c].left # {} /\ Gives(c)
  /\ UNCHANGED <<text, snaps, made>>

--------------------------------------------------------------------------------
\* _hashline_hunk_contexts: where a hunk's lines went, given the hunks above it.
Above(hunks, h) == {g \in hunks : g.file = h.file /\ g.shape.from < h.shape.from}
Shift(h) == h.count - (h.shape.to - h.shape.from + 1)
\* The hunks above are not counted.
StartIgnored(hunks, h) == h.shape.from
NewStart(hunks, h) == FoldLeft(LAMBDA at, g : at + Shift(g), h.shape.from, SetToSeq(Above(hunks, h)))

ContextOf(hunks, h) ==
  LET start == NewStart(hunks, h)
      lines == text[h.file]
      last == start + (IF h.count > 1 THEN h.count ELSE 1) + Margin
  IN [file |-> h.file,
      saw |-> Selected(lines, IF start > Margin THEN start - Margin ELSE 1,
                       IF last < Len(lines) THEN last ELSE Len(lines))]

\* The answer of an edit shows every hunk afresh, in reads like any other ...
Show(c) ==
  LET job == tool[c] IN
  /\ job.pc = "apply" /\ job.left = {}
  /\ IF \E h \in job.hunks : text[h.file] = NoText THEN Gives(c)
     ELSE /\ tool' = [tool EXCEPT ![c] =
               [pc |-> "answer", shown |-> {ContextOf(job.hunks, h) : h \in job.hunks}]]
          /\ UNCHANGED lockOf
  /\ UNCHANGED <<text, snaps, made>>
\* ... whose digests are taken after their lines, each in a snapshot of its own.
Answer(c) ==
  LET shown == tool[c].shown IN
  /\ tool[c].pc = "answer" /\ Gives(c)
  /\ snaps' = (IF \E v \in shown : text[v.file] = NoText THEN snaps
               ELSE Kept(snaps \o SetToSeq(
                      {[file |-> v.file, sha |-> text[v.file], saw |-> v.saw] : v \in shown})))
  /\ UNCHANGED <<text, made>>

ToolStep(c) ==
  \/ Hash(c) \/ Acquire(c) \/ LookAtFiles(c) \/ Validate(c) \/ WriteFails(c) \/ Show(c) \/ Answer(c)
  \/ \E f \in EditFiles : WriteOne(c, f)

EditsNext ==
  \/ \E c \in Tools :
       \/ \E f \in EditFiles :
            \/ \E r \in Ranges : ReadFile(c, f, r[1], r[2])
            \/ WriteBegin(c, f) \/ DeleteBegin(c, f)
       \/ EditBegin(c)
       \/ ToolStep(c)
  \/ \E f \in EditFiles : OutsideWrites(f)

EditsSpec == EditsInit /\ [][EditsNext]_feVars

--------------------------------------------------------------------------------
EditsTypeOK ==
  /\ Len(snaps) <= MaxSnaps
  /\ \A f \in EditFiles : lockOf[f] \in Tools \cup {0}
  /\ \A f \in EditFiles : text[f] = NoText \/ Len(text[f]) <= MaxLines

\* The file a hunk is applied to, line by line: each line it covers gives way to
\* the new ones, every other line stays.
Expected(job, f) ==
  FlattenSeq([i \in 1..Len(job.base[f]) |->
    IF \E h \in job.hunks : h.file = f /\ i \in h.shape.from..h.shape.to
      THEN LET h == CHOOSE g \in job.hunks : g.file = f /\ i \in g.shape.from..g.shape.to
               at == <<job.base[f][i]>>
               fresh == [k \in 1..h.shape.n |-> <<f, h.shape.from, k>>]
           IN IF i # h.shape.from THEN <<>>
              ELSE CASE h.shape.kind = "before" -> fresh \o at
                     [] h.shape.kind = "after" -> at \o fresh
                     [] OTHER -> fresh
      ELSE <<job.base[f][i]>>])
Unstamped(line) == <<line[2], line[3], line[4]>>

\* hashline_edit: copied rows are what the file held when it was read, whatever
\* happened to it since the client read it; several hunks are applied as if at once; a
\* change replaces the very text that was validated, so no call loses the change of
\* another. What it may lose is the write of a command or a patch, which takes no
\* lock, and only one that came after the locked look at the file.
EditsAreSound ==
  [][\A f \in EditFiles : text'[f] # text[f] /\ made' = made =>
       \E c \in Tools :
         LET job == tool[c] IN
         /\ job.pc = "apply" /\ f \in job.left
         /\ job.base[f] = text[f] \/ f \in job.raced
         /\ job.result[f] = text'[f]
         /\ job.kind = "edit" =>
              /\ Len(text'[f]) = Len(Expected(job, f))
              /\ \A i \in 1..Len(text'[f]) :
                   Expected(job, f)[i] \in {text'[f][i], Unstamped(text'[f][i])}
              /\ \A h \in job.hunks : h.file = f /\ h.shape.kind = "rows" =>
                   \A i \in h.shape.from..h.shape.to : job.base[f][i] = h.snap.saw[i]]_feVars

\* The answer of an edit shows each hunk's new lines where they are now, while the
\* file is what the edit made of it: the next edit may build on it.
AnswersShowEdits ==
  \A c \in Tools :
    LET job == tool[c] IN
    job.pc = "apply" /\ job.left = {} /\ job.kind = "edit" =>
      \A h \in job.hunks : text[h.file] = job.result[h.file] =>
        LET saw == ContextOf(job.hunks, h).saw IN
        \A i \in 1..Len(job.result[h.file]) :
          LET l == job.result[h.file][i] IN
          l \notin ToSet(job.base[h.file]) /\ l[3] = h.shape.from /\ i <= MaxRead
            => i \in DOMAIN saw /\ saw[i] = l

EditsSound == EditsTypeOK /\ AnswersShowEdits

\* An edit that names a snapshot takes away no line the snapshot did not show.
UnseenIsRejected ==
  [][\A f \in EditFiles, c \in Tools :
       LET job == tool[c] IN
       text'[f] # text[f] /\ job.pc = "apply" /\ f \in job.left /\ tool'[c] # job =>
         \A h \in job.hunks : h.file = f /\ h.snap # NoSnap =>
           \A i \in h.shape.from..h.shape.to :
             i \in DOMAIN h.snap.saw /\ h.snap.saw[i] = job.base[f][i]]_feVars
================================================================================
