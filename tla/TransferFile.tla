------------------------------ MODULE TransferFile ------------------------------
(*****************************************************************************)
(* ops/transfer.py: the transactional write of one destination file.  A      *)
(* transfer keeps a private temporary file next to the destination and a     *)
(* metadata file beside it that records the ranges received and the size;    *)
(* finish validates both and renames the temporary over the destination.     *)
(* Every operation holds the path lock of the temporary (plock); begin and   *)
(* write are two steps, since a crash can fall between the file and its      *)
(* metadata.                                                                 *)
(*                                                                           *)
(* A file is Size chunks; the content of chunk i of version v of the source  *)
(* is the pair <<i, v>>.  A transfer is named by its generation g: the       *)
(* attempt that created its transfer id.                                     *)
(*****************************************************************************)
EXTENDS Naturals, FiniteSets, Sequences

CONSTANTS Size,        \* chunks of the source file
          Gens,        \* transfer ids: the numbers of the attempts that made them
          Versions     \* versions of the source file

ASSUME SizeAssumption == Size \in Nat \ {0}
ASSUME GensAssumption == Gens \subseteq Nat \ {0}
ASSUME VersionsAssumption == Versions \subseteq Nat \ {0} /\ 1 \in Versions

VARIABLES part,        \* [Gens -> the temporary file and its metadata]
          dest,        \* the content at the destination path
          plock        \* who is between two steps of an operation on a temporary

fileVars == <<part, dest, plock>>

Chunks == 1..Size
Chunk == Chunks \X Versions
Hole == <<0, 0>>                       \* a chunk never written
Absent == <<>>                         \* nothing at the destination
Other == <<Hole>>                      \* a file that is not ours

\* Chunk i of a source at version v, and the whole file at version v.
Piece(i, v) == <<i, v>>
Whole(v) == [i \in Chunks |-> Piece(i, v)]
Wholes == {Whole(v) : v \in Versions}

\* Fault: no digest was recorded and the comparison is skipped, as finish does
\* when it is called without expected_sha256.
DigestSkipped(data, v) == Len(data) = Size

\* SHA-256 of the bytes is the recorded one: they are the version that was
\* statted.
DigestIs(data, v) == data = Whole(v)

Empty == [i \in Chunks |-> Hole]
NoPart == [up |-> FALSE, log |-> FALSE, data |-> Empty, got |-> {}, len |-> 0]

\* The size of the file on disk: up to the last chunk written.
FileLen(data) ==
  LET written == {i \in Chunks : data[i] # Hole}
  IN IF written = {} THEN 0
     ELSE CHOOSE i \in written : \A j \in written : j <= i

\* The open file is the one the metadata describes.
Validates(g) ==
  /\ part[g].up
  /\ part[g].log
  /\ part[g].len = FileLen(part[g].data)

FileInit ==
  /\ part = [g \in Gens |-> NoPart]
  /\ plock = 0

PathFree == plock = 0

--------------------------------------------------------------------------------
\* transfer_begin_write.  An existing temporary is resumed only when its
\* metadata validates and the received ranges are one prefix; otherwise a new
\* one is created, and its metadata is written by the second step.
MayBegin(overwrite) == overwrite \/ dest = Absent

BeginResumes(g, overwrite) ==
  /\ MayBegin(overwrite)
  /\ Validates(g)
  /\ \E k \in 0..Size : part[g].got = 1..k

BeginCreates(g, overwrite) ==
  /\ MayBegin(overwrite)
  /\ ~part[g].up

BeginFile(g, who) ==
  /\ part' = [part EXCEPT ![g].up = TRUE, ![g].data = Empty]
  /\ plock' = who
  /\ UNCHANGED dest

BeginLog(g) ==
  /\ part' = [part EXCEPT ![g].log = TRUE, ![g].got = {}, ![g].len = 0]
  /\ plock' = 0
  /\ UNCHANGED dest

\* transfer_write_bytes: the chunk must not overlap what was received; the file
\* is written and synced first, then the metadata.
WriteAccepted(g, i) ==
  /\ Validates(g)
  /\ i \notin part[g].got

WriteFile(g, i, c, who) ==
  /\ part' = [part EXCEPT ![g].data[i] = c]
  /\ plock' = who
  /\ UNCHANGED dest

WriteLog(g, i) ==
  /\ part' = [part EXCEPT ![g].got = @ \cup {i},
                          ![g].len = FileLen(part[g].data)]
  /\ plock' = 0
  /\ UNCHANGED dest

\* Fault: overwrite=false is only looked at when the write begins.
FinishUnchecked(g, v, overwrite) ==
  /\ Validates(g)
  /\ FileLen(part[g].data) = Size
  /\ part[g].got = Chunks
  /\ DigestIs(part[g].data, v)

\* transfer_finish_write: metadata, size, ranges and digest validate, the
\* overwrite rule is checked again, and the temporary replaces the destination.
FinishAccepted(g, v, overwrite) ==
  /\ Validates(g)
  /\ FileLen(part[g].data) = Size
  /\ part[g].got = Chunks
  /\ DigestIs(part[g].data, v)
  /\ overwrite \/ dest = Absent

FinishMove(g) ==
  /\ dest' = part[g].data
  /\ part' = [part EXCEPT ![g] = NoPart]
  /\ UNCHANGED plock

\* transfer_abort_write: the temporary and its metadata are removed.
AbortWrite(g) ==
  /\ part' = [part EXCEPT ![g] = NoPart]
  /\ UNCHANGED <<dest, plock>>

FileTypeOK ==
  /\ part \in [Gens -> [up : BOOLEAN, log : BOOLEAN,
                        data : [Chunks -> Chunk \cup {Hole}],
                        got : SUBSET Chunks, len : 0..Size]]
  /\ dest \in {Absent, Other} \cup [Chunks -> Chunk \cup {Hole}]
  /\ plock \in Nat
================================================================================
