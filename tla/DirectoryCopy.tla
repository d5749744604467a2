----------------------------- MODULE DirectoryCopy -----------------------------
(*****************************************************************************)
(* The copy of a directory: _copy_dir of ops/utils/session_copy.py, with     *)
(* transfer_pack_dir and transfer_unpack_archive of ops/transfer.py.  The    *)
(* source packs an archive, the destination reserves a name for its own, the *)
(* archive is copied like a file, and the destination unpacks it into a      *)
(* staging directory that replaces the old tree.                             *)
(*                                                                           *)
(* The copy is a coroutine (dir) and the unpacking runs on its own (unpack): *)
(* in a thread of the controller, or on a worker.  Bad spends one of         *)
(* MaxBad: a call fails or its reply is lost, an operation on a directory    *)
(* raises, the caller cancels, somebody writes the destination, a crash.     *)
(*****************************************************************************)
EXTENDS Naturals

CONSTANT MaxBad        \* bound on the bad events of a behaviour

ASSUME BadAssumption == MaxBad \in Nat

VARIABLES dir,         \* the copy: its step, what it has reported, its overwrite
                       \* flag; as history, what was at the destination when it
                       \* began and what it failed to remove (missed)
          archives,    \* the archive files on disk: "src", "dst"
          known,       \* those whose path the copy has been told
          unpack,      \* the step of the unpacking
          tree,        \* what is at the destination path: "none", "empty" (a
                       \* directory), "old", "new" or what somebody else wrote
          staging,     \* "none", "part" or "full"
          backup,      \* "none", or the tree that was moved away
          bad          \* bad events so far

dirVars == <<dir, archives, known, unpack, tree, staging, backup, bad>>

DirInit ==
  /\ tree \in {"old", "empty", "none"}
  /\ \E ow \in BOOLEAN :
       dir = [pc |-> "pack", verdict |-> "running", overwrite |-> ow, first |-> tree,
              missed |-> {}]
  /\ archives = {} /\ known = {}
  /\ unpack = "idle"
  /\ staging = "none" /\ backup = "none"
  /\ bad = 0

Bad == bad < MaxBad /\ bad' = bad + 1

DirGoto(pc) == dir' = [dir EXCEPT !.pc = pc]
Ending(verdict) == dir' = [dir EXCEPT !.pc = "cleanDst", !.verdict = verdict]

--------------------------------------------------------------------------------
\* transfer_pack_dir, transfer_alloc_temp_path and the copy of the archive.  A
\* call that fails may have had its effect: its path is then not known.
Pack ==
  /\ dir.pc = "pack"
  /\ archives' = archives \cup {"src"} /\ known' = known \cup {"src"}
  /\ DirGoto("alloc")
  /\ UNCHANGED <<unpack, tree, staging, backup, bad>>

AllocArchive ==
  /\ dir.pc = "alloc"
  /\ known' = known \cup {"dst"}
  /\ DirGoto("file")
  /\ UNCHANGED <<archives, unpack, tree, staging, backup, bad>>

CopyArchive ==
  /\ dir.pc = "file"
  /\ archives' = archives \cup {"dst"}
  /\ DirGoto("unpack")
  /\ UNCHANGED <<known, unpack, tree, staging, backup, bad>>

StepFails ==
  /\ dir.pc \in {"pack", "alloc", "file"}
  /\ Bad
  /\ archives' \in {archives, archives \cup (IF dir.pc = "pack" THEN {"src"}
                                             ELSE IF dir.pc = "file" THEN {"dst"} ELSE {})}
  /\ \E verdict \in {"failed", "cancelled"} : Ending(verdict)
  /\ UNCHANGED <<known, unpack, tree, staging, backup>>

CallUnpack ==
  /\ dir.pc = "unpack" /\ unpack = "idle"
  /\ unpack' = "extract" /\ staging' = "part"
  /\ DirGoto("unpacking")
  /\ UNCHANGED <<archives, known, tree, backup, bad>>

\* Fault: any end of the call is taken for its result.
UnpackedAnyhow ==
  /\ dir.pc = "unpacking"
  /\ unpack \in {"done", "raised"}
  /\ Ending("copied")
  /\ UNCHANGED <<archives, known, unpack, tree, staging, backup, bad>>

\* Fault: only a result ends the call.
UnpackedDone ==
  /\ dir.pc = "unpacking"
  /\ unpack = "done" /\ Ending("copied")
  /\ UNCHANGED <<archives, known, unpack, tree, staging, backup, bad>>

Unpacked ==
  /\ dir.pc = "unpacking"
  /\ \/ unpack = "done" /\ Ending("copied")
     \/ unpack = "raised" /\ Ending("failed")
  /\ UNCHANGED <<archives, known, unpack, tree, staging, backup, bad>>

\* The caller cancels or the call times out: the unpacking goes on.
StopWaiting ==
  /\ dir.pc = "unpacking"
  /\ Bad
  /\ Ending("cancelled")
  /\ UNCHANGED <<archives, known, unpack, tree, staging, backup>>

\* The finally clause: both archives, where their paths are known; each cleanup
\* is finished even when the caller is cancelled, and its failure is dropped.
CleanDst ==
  /\ dir.pc = "cleanDst"
  /\ archives' = archives \ (known \cap {"dst"})
  /\ DirGoto("cleanSrc")
  /\ UNCHANGED <<known, unpack, tree, staging, backup, bad>>

CleanSrc ==
  /\ dir.pc = "cleanSrc"
  /\ archives' = archives \ (known \cap {"src"})
  /\ DirGoto("end")
  /\ UNCHANGED <<known, unpack, tree, staging, backup, bad>>

\* The call fails, or a second cancellation reaches it, before or after its effect.
CleanFails ==
  /\ \/ dir.pc = "cleanDst" /\ "dst" \in known
        /\ dir' = [dir EXCEPT !.pc = "cleanSrc", !.missed = @ \cup {"dst"}]
        /\ archives' \in {archives, archives \ {"dst"}}
     \/ dir.pc = "cleanSrc" /\ "src" \in known
        /\ dir' = [dir EXCEPT !.pc = "end", !.missed = @ \cup {"src"}]
        /\ archives' \in {archives, archives \ {"src"}}
  /\ Bad
  /\ UNCHANGED <<known, unpack, tree, staging, backup>>

--------------------------------------------------------------------------------
\* transfer_unpack_archive.  Extraction needs the archive and may reject it.
UGoto(pc) == unpack' = pc /\ UNCHANGED <<dir, archives, known>>

Extract ==
  /\ unpack = "extract"
  /\ IF "dst" \in archives
        THEN UGoto("replace") /\ staging' = "full"
        ELSE UGoto("rollback") /\ UNCHANGED staging
  /\ UNCHANGED <<tree, backup, bad>>

ExtractFails ==
  /\ unpack = "extract"
  /\ Bad
  /\ UGoto("rollback")
  /\ UNCHANGED <<tree, staging, backup>>

\* Fault: overwrite=false is answered by what was there when the copy began.
MayReplaceFirst == dir.overwrite \/ dir.first \in {"none", "empty"}

\* With the path lock, which only the tools take and only for this very path: a tree
\* that must not be replaced is refused (an empty directory may be) ...
MayReplace == dir.overwrite \/ tree \in {"none", "empty"}

Refused ==
  /\ unpack = "replace" /\ ~MayReplace
  /\ UGoto("rollback")
  /\ UNCHANGED <<tree, staging, backup, bad>>

Replaceable ==
  /\ unpack = "replace" /\ MayReplace
  /\ UGoto(CASE tree = "none" -> "commit" [] tree = "empty" -> "moveEmpty" [] OTHER -> "moveOld")
  /\ UNCHANGED <<tree, staging, backup, bad>>

\* ... what is there is moved to a backup, then the staging directory takes its place,
\* if nobody has filled it; when that raises the backup is moved back, and what this
\* raises is raised further.
MoveAway ==
  /\ unpack \in {"moveEmpty", "moveOld"}
  /\ backup' = tree /\ tree' = "none"
  /\ UGoto("commit")
  /\ UNCHANGED <<staging, bad>>

MoveAwayFails ==
  /\ unpack \in {"replace", "moveEmpty", "moveOld"}
  /\ Bad
  /\ UGoto("rollback")
  /\ UNCHANGED <<tree, staging, backup>>

Vacant == tree \in {"none", "empty"}

Commit ==
  /\ unpack = "commit" /\ Vacant
  /\ tree' = "new" /\ staging' = "none"
  /\ UGoto("tidy")
  /\ UNCHANGED <<backup, bad>>

\* Fault: the backup is left to the finally clause.
CommitFailsAtOnce ==
  /\ unpack = "commit"
  /\ IF Vacant THEN Bad ELSE UNCHANGED bad
  /\ UGoto("rollback")
  /\ UNCHANGED <<tree, staging, backup>>

CommitFails ==
  /\ unpack = "commit"
  /\ IF Vacant THEN Bad ELSE UNCHANGED bad
  /\ UGoto(IF backup = "none" THEN "rollback" ELSE "restore")
  /\ UNCHANGED <<tree, staging, backup>>

Restore ==
  /\ unpack = "restore" /\ Vacant
  /\ tree' = backup /\ backup' = "none"
  /\ UGoto("rollback")
  /\ UNCHANGED <<staging, bad>>

RestoreFails ==
  /\ unpack = "restore"
  /\ IF Vacant THEN Bad ELSE UNCHANGED bad
  /\ UGoto("rollback")
  /\ UNCHANGED <<tree, staging, backup>>

\* After the commit: the backup and the archive go; a failure is reported only.
Tidy ==
  /\ unpack = "tidy"
  /\ backup' = "none"
  /\ archives' = archives \ {"dst"}
  /\ unpack' = "done"
  /\ UNCHANGED <<dir, known, tree, staging, bad>>

TidyFails ==
  /\ unpack = "tidy"
  /\ Bad
  /\ archives' \in {archives, archives \ {"dst"}}
  /\ unpack' = "done"
  /\ UNCHANGED <<dir, known, tree, staging, backup>>

\* The finally clause of an unpacking that did not commit: the staging directory
\* goes; a backup is moved back once more when nothing is at the destination, and
\* what is left of it is removed.
Rollback ==
  /\ unpack = "rollback"
  /\ staging' = "none"
  /\ tree' = IF tree = "none" /\ backup # "none" THEN backup ELSE tree
  /\ backup' = "none"
  /\ UGoto("raised")
  /\ UNCHANGED bad

\* Each of these may fail, and says nothing.
RollbackFails ==
  /\ unpack = "rollback"
  /\ Bad
  /\ staging' \in {"none", staging}
  /\ \/ tree = "none" /\ backup # "none" /\ tree' = backup /\ backup' = "none"
     \/ tree' = tree /\ backup' \in {"none", backup}
  /\ unpack' = "raised"
  /\ dir' = [dir EXCEPT !.missed = IF staging' = "none" THEN @ ELSE @ \cup {"staging"}]
  /\ UNCHANGED <<archives, known>>

\* Another writer of the destination, a shell or a tool that writes a file inside it:
\* the path lock is none of theirs.
Theirs ==
  /\ Vacant
  /\ Bad
  /\ tree' \in {"empty", "theirs"} \ {tree}
  /\ UNCHANGED <<dir, archives, known, unpack, staging, backup>>

\* The process that unpacks dies where it is.
UnpackerDies ==
  /\ unpack \notin {"idle", "done", "raised", "dead"}
  /\ Bad
  /\ unpack' = "dead"
  /\ IF dir.pc = "unpacking" THEN Ending("failed") ELSE UNCHANGED dir
  /\ UNCHANGED <<archives, known, tree, staging, backup>>

--------------------------------------------------------------------------------
DirStep == \/ Pack \/ AllocArchive \/ CopyArchive \/ CallUnpack \/ Unpacked
           \/ CleanDst \/ CleanSrc
UnpackStep == \/ Extract \/ Refused \/ Replaceable \/ MoveAway \/ Commit \/ CommitFails
              \/ Restore \/ RestoreFails \/ Tidy \/ Rollback
DirBad == \/ StepFails \/ StopWaiting \/ CleanFails \/ ExtractFails \/ MoveAwayFails
          \/ TidyFails \/ RollbackFails \/ Theirs \/ UnpackerDies

DirNext == DirStep \/ UnpackStep \/ DirBad

DirFairness == WF_dirVars(DirStep) /\ WF_dirVars(UnpackStep)

DirSpec == DirInit /\ [][DirNext]_dirVars /\ DirFairness

DirTypeOK ==
  /\ dir \in [pc : {"pack", "alloc", "file", "unpack", "unpacking",
                    "cleanDst", "cleanSrc", "end"},
              verdict : {"running", "copied", "failed", "cancelled"},
              overwrite : BOOLEAN, first : {"old", "empty", "none"},
              missed : SUBSET {"src", "dst", "staging"}]
  /\ archives \subseteq {"src", "dst"} /\ known \subseteq {"src", "dst"}
  /\ unpack \in {"idle", "extract", "replace", "moveEmpty", "moveOld", "commit", "restore",
                 "rollback", "tidy", "done", "raised", "dead"}
  /\ tree \in {"old", "new", "theirs", "empty", "none"}
  /\ staging \in {"none", "part", "full"}
  /\ backup \in {"old", "theirs", "empty", "none"}
  /\ bad \in 0..MaxBad

\* No two failures lose the tree that was at the destination: wherever a call
\* raises, the caller gives up or the process dies, it is at the destination or in the
\* backup until the new tree is in its place. Only somebody else can take its place:
\* what is written to the destination between the two renames.
OldTreeKept ==
  dir.first = "old" /\ bad <= 2 => tree \in {"new", "theirs"} \/ "old" \in {tree, backup}

\* With overwrite=false nothing that is at the destination is replaced, also what came
\* after the copy began (the look is under the lock), but what somebody writes into an
\* empty directory after the look and before it is moved.
TreeNotReplaced ==
  [][~dir.overwrite /\ tree \in {"old", "theirs"} /\ unpack # "moveEmpty" => tree' = tree]_dirVars

\* A copy that is reported as done has put the new tree in place before it said
\* so, and one that ended has removed every archive whose path it was told, but for
\* those whose removal failed, also when it was cancelled and nobody asks for its result.
DirectoryCopied ==
  /\ dir.verdict = "copied" => tree = "new"
  /\ dir.pc = "end" => archives \cap known \subseteq dir.missed

\* No tree is lost, none is claimed that is not there, no archive is forgotten.
TreesSafe == DirTypeOK /\ OldTreeKept /\ DirectoryCopied

\* docs/security.md: "Only after staging succeeds is the old destination moved to
\* a backup and the staged tree committed; commit failure restores the backup."
\* An unpacking that raises has not lost the tree it moved away.
CommitFailureRestores ==
  [][unpack # "raised" /\ unpack' = "raised" /\ backup # "none" =>
       backup \in {tree', backup'}]_dirVars
================================================================================
