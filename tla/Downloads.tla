------------------------------- MODULE Downloads -------------------------------
(*****************************************************************************)
(* Links to files (ops/downloads.py) and the private snapshots behind them   *)
(* (ops/utils/download_store.py): requests of several server processes, one  *)
(* transaction of the link store at a time, writes that fail, a store file   *)
(* that is damaged and recovered from its copy.                              *)
(*****************************************************************************)
EXTENDS FiniteSets, Naturals

CONSTANTS Links,         \* tokens; each names its own snapshot file
          MaxUses,       \* max_downloads of every link
          MaxRequests,   \* bound on the requests of a behaviour
          MaxDiskFaults  \* bound on failed writes and damaged files

ASSUME DownloadsAssumption ==
  MaxUses \in Nat \ {0} /\ MaxRequests \in Nat /\ MaxDiskFaults \in Nat

Requests == 1..MaxRequests

VARIABLES
  stored,      \* downloads.json: [tokens -> downloads so far]
  copy,        \* downloads.json.bak, likewise
  readable,    \* which of "primary", "backup" can be read
  snapshots,   \* the links whose snapshot file exists
  created, late,  \* links that were created, links whose time has passed
  inTx,        \* the request that holds downloads.lock, or 0
  links,       \* the store as this request has it in memory
  req,         \* [Requests -> the request]
  served,      \* [Links -> downloads answered with the bytes]
  revoked,     \* links whose revocation was answered
  touched,     \* links somebody tried to revoke
  rolledBack,  \* the copy was older than the file it replaced
  diskFaults

dlVars == <<stored, copy, readable, snapshots, created, late, inTx, links, req, served,
            revoked, touched, rolledBack, diskFaults>>
linkFiles == <<stored, copy, readable, rolledBack, diskFaults>>
notes == <<served, revoked, touched>>

Empty == [l \in {} |-> 0]
NewRequest == [pc |-> "new", kind |-> "none", link |-> 0, then |-> "end", final |-> FALSE,
               wrong |-> FALSE]

DownloadsInit ==
  /\ stored = Empty /\ copy = Empty /\ readable = {"primary", "backup"}
  /\ snapshots = {} /\ created = {} /\ late = {} /\ inTx = 0 /\ links = Empty
  /\ req = [r \in Requests |-> NewRequest]
  /\ served = [l \in Links |-> 0] /\ revoked = {} /\ touched = {}
  /\ rolledBack = FALSE /\ diskFaults = 0

Without(f, S) == [l \in DOMAIN f \ S |-> f[l]]
With(f, l, n) == [k \in DOMAIN f \cup {l} |-> IF k = l THEN n ELSE f[k]]
Step(r, pc) == req' = [req EXCEPT ![r].pc = pc]
Faulty == diskFaults < MaxDiskFaults /\ diskFaults' = diskFaults + 1

--------------------------------------------------------------------------------
\* A request; a creation first makes its snapshot in a staging file of its own, and
\* gives up when the source changes meanwhile.
Request(r, kind, l) ==
  /\ req[r].pc = "new" /\ \A q \in Requests : q < r => req[q].pc # "new"
  /\ (kind = "create") = (l \notin created)
  /\ \E pc \in {"wants"} \cup (IF kind = "create" THEN {"end"} ELSE {}) :
       req' = [req EXCEPT ![r] = [NewRequest EXCEPT !.pc = pc, !.kind = kind, !.link = l]]
  /\ created' = created \cup {l}
  /\ touched' = (IF kind = "revoke" THEN touched \cup {l} ELSE touched)
  /\ UNCHANGED <<linkFiles, snapshots, late, inTx, links, served, revoked>>

\* transaction, load_locked: the file, else its copy, which is saved; else an error.
Enter(r) ==
  /\ req[r].pc = "wants" /\ inTx = 0
  /\ \/ /\ "primary" \in readable /\ links' = stored /\ inTx' = r /\ Step(r, "work")
        /\ UNCHANGED linkFiles
     \/ /\ readable = {"backup"} /\ links' = copy /\ inTx' = r /\ Step(r, "work")
        /\ rolledBack' = (rolledBack \/ copy # stored)
        /\ stored' = copy /\ readable' = {"primary", "backup"} /\ UNCHANGED <<copy, diskFaults>>
     \/ /\ readable = {} /\ Step(r, "end") /\ UNCHANGED <<linkFiles, inTx, links>>
  /\ UNCHANGED <<snapshots, created, late, notes>>

\* prune_locked: links that are over, with their snapshots, and snapshots of no link.
UsedUp(l) == links[l] >= MaxUses
Over(keep) == {l \in DOMAIN links \ keep : l \in late \/ UsedUp(l)}
Orphans(keep) == snapshots \ (DOMAIN links \ Over(keep))
Pruned(keep) == Without(links, Over(keep))
Prunes(keep) == Over(keep) # {} \/ Orphans(keep) # {}

Saves(r, then) == req' = [req EXCEPT ![r].pc = "save", ![r].then = then]
Leaves(r) == inTx' = 0 /\ Step(r, "end")
Works(r, kind) == req[r].pc = "work" /\ req[r].kind = kind

\* _register_snapshot, within the transaction.
Publish(r) ==
  /\ Works(r, "create")
  /\ links' = With(Pruned({}), req[r].link, 0)
  /\ snapshots' = (snapshots \ Orphans({})) \cup {req[r].link}
  /\ Saves(r, "end")
  /\ UNCHANGED <<linkFiles, created, late, inTx, notes>>

\* list_file_links_execute.
ListLinks(r) ==
  /\ Works(r, "list")
  /\ links' = Pruned({}) /\ snapshots' = snapshots \ Orphans({})
  /\ IF Prunes({}) THEN Saves(r, "end") /\ UNCHANGED inTx ELSE Leaves(r)
  /\ UNCHANGED <<linkFiles, created, late, notes>>

\* revoke_file_link_execute: the snapshot goes before the link.
Revoke(r) ==
  LET l == req[r].link IN
  /\ Works(r, "revoke")
  /\ IF l \in DOMAIN links
       THEN /\ links' = Without(links, {l}) /\ snapshots' = snapshots \ {l}
            /\ Saves(r, "revoked") /\ UNCHANGED inTx
       ELSE Leaves(r) /\ UNCHANGED <<links, snapshots>>
  /\ UNCHANGED <<linkFiles, created, late, notes>>

\* claim_download, for a link that is not there, over, or without its snapshot ...
Servable(l) == l \in DOMAIN links /\ l \in snapshots /\ l \notin late /\ ~UsedUp(l)
Claims(r) == Works(r, "get") \/ Works(r, "head")
Refuse(r) ==
  LET l == req[r].link IN
  /\ Claims(r) /\ ~Servable(l)
  /\ IF l \in DOMAIN links
       THEN /\ links' = Without(links, {l}) /\ snapshots' = snapshots \ {l}
            /\ Saves(r, "end") /\ UNCHANGED inTx
       ELSE /\ links' = Pruned({}) /\ snapshots' = snapshots \ Orphans({})
            /\ IF Prunes({}) THEN Saves(r, "end") /\ UNCHANGED inTx ELSE Leaves(r)
  /\ UNCHANGED <<linkFiles, created, late, notes>>
\* ... or with its open snapshot: a GET is counted.
CountedLater(l) == links
CountedNow(l) == With(links, l, links[l] + 1)
Claim(r) ==
  LET l == req[r].link
      last == links[l] + 1 >= MaxUses
  IN /\ Claims(r) /\ Servable(l)
     /\ IF req[r].kind = "get"
          THEN /\ links' = CountedNow(l)
               /\ req' = [req EXCEPT ![r].pc = "save", ![r].then = "tidy", ![r].final = last]
          ELSE Step(r, "tidy") /\ UNCHANGED links
     /\ UNCHANGED <<linkFiles, snapshots, created, late, inTx, notes>>
\* Before the answer the other links are pruned.
PruneOthers(r) ==
  LET keep == {req[r].link} IN
  /\ req[r].pc = "tidy"
  /\ links' = Pruned(keep) /\ snapshots' = snapshots \ Orphans(keep)
  /\ IF Prunes(keep) THEN Saves(r, "answer") ELSE Step(r, "answer")
  /\ UNCHANGED <<linkFiles, created, late, inTx, notes>>
AnswerClaim(r) ==
  LET l == req[r].link IN
  /\ req[r].pc = "answer" /\ inTx' = 0
  /\ IF req[r].kind = "get"
       THEN /\ served' = [served EXCEPT ![l] = @ + 1]
            /\ req' = [req EXCEPT ![r].pc = "streaming", ![r].wrong = l \in revoked]
       ELSE Step(r, "end") /\ UNCHANGED served
  /\ UNCHANGED <<linkFiles, snapshots, created, late, links, revoked, touched>>

\* save_locked: the file or an error, which ends the request; the copy or not.
SaveFile(r) ==
  /\ req[r].pc = "save" /\ stored' = links /\ readable' = readable \cup {"primary"}
  /\ Step(r, "backup")
  /\ UNCHANGED <<copy, rolledBack, diskFaults, snapshots, created, late, inTx, links, notes>>
SaveFails(r) ==
  /\ req[r].pc = "save" /\ Faulty /\ Leaves(r)
  /\ snapshots' = (IF req[r].kind = "create" THEN snapshots \ {req[r].link} ELSE snapshots)
  /\ UNCHANGED <<stored, copy, readable, rolledBack, created, late, links, notes>>
Saved(r) ==
  IF req[r].then \in {"tidy", "answer"}
    THEN Step(r, req[r].then) /\ UNCHANGED <<inTx, revoked>>
    ELSE /\ Leaves(r)
         /\ revoked' = (IF req[r].then = "revoked" THEN revoked \cup {req[r].link} ELSE revoked)
SaveCopy(r) ==
  /\ req[r].pc = "backup" /\ Saved(r)
  /\ \/ copy' = links /\ readable' = readable \cup {"backup"} /\ UNCHANGED diskFaults
     \/ Faulty /\ UNCHANGED <<copy, readable>>
  /\ UNCHANGED <<stored, rolledBack, snapshots, created, late, links, served, touched>>

\* release_claim, which a client that left before the first byte never reaches.
Release(r) ==
  /\ req[r].pc = "streaming" /\ Step(r, "end")
  /\ snapshots' \in {snapshots} \cup (IF req[r].final THEN {snapshots \ {req[r].link}} ELSE {})
  /\ UNCHANGED <<linkFiles, created, late, inTx, links, notes>>

RequestStep(r) ==
  \/ Enter(r) \/ Publish(r) \/ ListLinks(r) \/ Revoke(r) \/ Refuse(r) \/ Claim(r) \/ PruneOthers(r)
  \/ AnswerClaim(r) \/ SaveFile(r) \/ SaveFails(r) \/ SaveCopy(r) \/ Release(r)

--------------------------------------------------------------------------------
\* Time; a file is damaged outside a transaction; the process of a request dies, or
\* its caller leaves before it has the lock.
LinkEnds(l) ==
  /\ l \in created \ late /\ late' = late \cup {l}
  /\ UNCHANGED <<linkFiles, snapshots, created, inTx, links, req, notes>>
Damage(file) ==
  /\ inTx = 0 /\ file \in readable /\ Faulty /\ readable' = readable \ {file}
  /\ UNCHANGED <<stored, copy, rolledBack, snapshots, created, late, inTx, links, req, notes>>
RequestDies(r) ==
  /\ req[r].pc \notin {"new", "end"} /\ Step(r, "end")
  /\ inTx' = (IF inTx = r THEN 0 ELSE inTx)
  /\ UNCHANGED <<linkFiles, snapshots, created, late, links, notes>>

DownloadsNext ==
  \/ \E r \in Requests :
       \/ \E l \in Links, k \in {"create", "get", "head", "revoke", "list"} : Request(r, k, l)
       \/ RequestStep(r) \/ RequestDies(r)
  \/ \E l \in Links : LinkEnds(l)
  \/ \E f \in {"primary", "backup"} : Damage(f)

DownloadsSpec == DownloadsInit /\ [][DownloadsNext]_dlVars

--------------------------------------------------------------------------------
DlTypeOK ==
  /\ DOMAIN stored \subseteq created /\ DOMAIN copy \subseteq created /\ DOMAIN links \subseteq created
  /\ snapshots \subseteq created /\ inTx \in Requests \cup {0}
  /\ \A r \in Requests : req[r].pc \in {"work", "save", "backup", "tidy", "answer"} <=> inTx = r

\* docs/security.md:156: a link can be read "until the link expires, is revoked, or
\* reaches its configured download-count limit".  A revocation that was answered holds
\* even when the store is rolled back to its copy; the count can then be one behind.
LinksBounded ==
  /\ \A r \in Requests : ~req[r].wrong
  /\ rolledBack \/ \A l \in Links : served[l] <= MaxUses

\* A link that can still be used has its snapshot: no pruning takes the snapshot of a
\* creation in progress, and none is given up before its link is.
LinksHaveSnapshots ==
  inTx = 0 => \A l \in DOMAIN stored :
                "primary" \in readable /\ l \notin late /\ stored[l] < MaxUses /\ ~rolledBack
                  => l \in snapshots \cup touched

DownloadsSound == DlTypeOK /\ LinksBounded /\ LinksHaveSnapshots
================================================================================
