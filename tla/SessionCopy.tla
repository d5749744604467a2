------------------------------ MODULE SessionCopy ------------------------------
(*****************************************************************************)
(* ops/utils/session_copy.py with remote_worker/http_transfer.py: one copy   *)
(* of a file between two sessions, as the caller's copy or as a durable      *)
(* managed job that is retried with the same resume key.  The copy drives    *)
(* the gateway (TransferGateway), an upload client on the worker of the      *)
(* source, a download client on the worker of the destination, and the       *)
(* transactional file at the destination (TransferFile).                     *)
(*                                                                           *)
(* The copy is a coroutine: it can be cancelled wherever it waits, while the *)
(* thread or the worker it waits for goes on.  A call to a worker can time   *)
(* out while the worker goes on.  The controller or a worker can crash.      *)
(* Every such event spends one of MaxFaults.                                 *)
(*****************************************************************************)
EXTENDS TransferGateway

CONSTANTS MaxFaults,   \* bound on the faults of a behaviour
          MaxTries,    \* transport retries of a client (3 in the code)
          Modes        \* the kinds of copies explored

ASSUME FaultsAssumption == MaxFaults \in Nat /\ MaxTries \in Nat

AllModes == [route : {"remote_remote", "local_remote", "remote_local",
                      "rpc", "same_worker"},
             managed : BOOLEAN, overwrite : BOOLEAN]

ASSUME ModesAssumption == Modes \subseteq AllModes

VARIABLES mode,        \* the route and the flags of this copy
          src,         \* the version the source file is at
          copy,        \* the copy's coroutine and what it has reported
          prep,        \* the thread that runs prepare for it
          up, down,    \* [Gens -> the upload, download client of that attempt]
          faults       \* faults so far

copyVars == <<mode, src, copy, prep, up, down, faults>>
vars == <<fileVars, gateVars, copyVars>>

Http == mode.route \in {"remote_remote", "local_remote", "remote_local"}
SrcRemote == mode.route # "local_remote"
DstRemote == mode.route # "remote_local"

NoUp == [pc |-> "none", off |-> 0, slot |-> 0, tries |-> 0, gen |-> 0, want |-> 0]
NoDown == [pc |-> "none", off |-> 0, slot |-> 0, tries |-> 0, gen |-> 0,
           want |-> 0, c |-> Hole, driven |-> TRUE]

Init ==
  /\ FileInit /\ GateInit
  /\ mode \in Modes
  /\ dest = IF mode.overwrite THEN Other ELSE Absent
  /\ src = 1
  /\ copy = [pc |-> "idle", att |-> 0, gen |-> 0, want |-> 0, off |-> 0,
             then |-> "failed", verdict |-> "none"]
  /\ prep = "none"
  /\ up = [a \in Gens |-> NoUp]
  /\ down = [a \in Gens |-> NoDown]
  /\ faults = 0

Fault == faults < MaxFaults /\ faults' = faults + 1

Goto(pc) == copy' = [copy EXCEPT !.pc = pc]
Report(verdict) == copy' = [copy EXCEPT !.pc = "idle", !.verdict = verdict]

\* Leave the transfer with the exception that ends in this verdict.
Unwind(verdict) == copy' = [copy EXCEPT !.pc = "undo", !.then = verdict]

a0 == copy.att

--------------------------------------------------------------------------------
\* The copy.  It starts by reading the size and the digest of the source, and
\* asks prepare for an object in a thread.
Start ==
  /\ copy.pc = "idle"
  /\ \/ copy.verdict = "none"
     \/ mode.managed /\ copy.verdict \in {"failed", "interrupted"}
  /\ copy.att + 1 \in Gens
  /\ prep \in {"none", "done", "refused"}
  /\ copy' = [copy EXCEPT !.pc = IF Http THEN "prepare"
                                 ELSE IF mode.route = "rpc" THEN "rpcBegin" ELSE "same",
                          !.att = @ + 1, !.want = src, !.off = 0,
                          !.verdict = "running"]
  /\ prep' = IF Http THEN "open" ELSE "none"
  /\ UNCHANGED <<fileVars, gateVars, mode, src, up, down, faults>>

\* The prepare thread, under the store's lock: resume, refuse, or create the
\* spool and then its metadata.  A snapshot of a local source that changed since
\* it was read is refused.
PrepOpen ==
  /\ prep = "open"
  /\ GateFree
  /\ \/ /\ Resumes(copy.want)
        /\ Resume(a0)
        /\ prep' = "done"
     \/ /\ ResumeRefused(copy.want)
        /\ prep' = "refused"
        /\ UNCHANGED gateVars
     \/ /\ ~Survives
        /\ SrcRemote \/ src = copy.want
        /\ CreateSpool(a0, IF SrcRemote THEN <<>> ELSE Whole(src))
        /\ prep' = "save"
     \/ /\ ~Survives
        /\ ~SrcRemote /\ src # copy.want
        /\ obj' = NoObj
        /\ spools' = spools \ {obj.gen}
        /\ prep' = "refused"
        /\ UNCHANGED <<spool, glock, req>>
  /\ UNCHANGED <<fileVars, mode, src, copy, up, down, faults>>

PrepSave ==
  /\ prep = "save"
  /\ CreateObject(a0, copy.want)
  /\ prep' = "done"
  /\ UNCHANGED <<fileVars, mode, src, copy, up, down, faults>>

Prepared ==
  /\ copy.pc = "prepare"
  /\ \/ /\ prep = "done"
        /\ copy' = [copy EXCEPT !.pc = IF SrcRemote THEN "upload" ELSE "check",
                                !.gen = obj.gen]
     \/ /\ prep = "refused"
        /\ Report("failed")
  /\ prep' = "none"
  /\ UNCHANGED <<fileVars, gateVars, mode, src, up, down, faults>>

\* The call that runs the upload on the worker, and its result.
CallUpload ==
  /\ copy.pc = "upload"
  /\ up' = [up EXCEPT ![a0] = [NoUp EXCEPT !.pc = "open", !.gen = copy.gen,
                                           !.want = copy.want]]
  /\ Goto("uploading")
  /\ UNCHANGED <<fileVars, gateVars, mode, src, prep, down, faults>>

Uploaded ==
  /\ copy.pc = "uploading"
  /\ \/ up[a0].pc = "ok" /\ Goto("check")
     \/ up[a0].pc = "bad" /\ Unwind("failed")
  /\ UNCHANGED <<fileVars, gateVars, mode, src, prep, up, down, faults>>

\* object(): the copy goes on only with a ready object.
Check ==
  /\ copy.pc = "check"
  /\ GateFree
  /\ IF Loads(copy.gen) /\ obj.state = "ready" /\ SpoolValid
        THEN Goto("download") ELSE Unwind("failed")
  /\ UNCHANGED <<fileVars, gateVars, mode, src, prep, up, down, faults>>

\* The download on the destination's worker, or the local transaction that
\* reads the spool through one handle.
CallDownload ==
  /\ copy.pc = "download"
  /\ down' = [down EXCEPT ![a0] = [NoDown EXCEPT !.pc = IF DstRemote THEN "head" ELSE "begin",
                                                 !.gen = copy.gen, !.want = copy.want]]
  /\ Goto("downloading")
  /\ UNCHANGED <<fileVars, gateVars, mode, src, prep, up, faults>>

Downloaded ==
  /\ copy.pc = "downloading"
  /\ \/ down[a0].pc = "ok" /\ Goto("consume")
     \/ down[a0].pc = "bad" /\ Unwind("failed")
  /\ UNCHANGED <<fileVars, gateVars, mode, src, prep, up, down, faults>>

\* consume refuses an object that is no longer there: the copy then fails
\* although the file is published.
ConsumeIt ==
  /\ copy.pc = "consume"
  /\ \/ Consume(copy.gen) /\ Goto("delete")
     \/ GateFree /\ ~Loads(copy.gen) /\ Report("failed") /\ UNCHANGED gateVars
  /\ UNCHANGED <<fileVars, mode, src, prep, up, down, faults>>

DeleteIt ==
  /\ copy.pc = "delete"
  /\ Delete(copy.gen)
  /\ Report("copied")
  /\ UNCHANGED <<fileVars, mode, src, prep, up, down, faults>>

\* A call times out: the worker is lost, or (a fault) is slow and goes on.
WorkerLost ==
  \/ copy.pc = "uploading" /\ up[a0].pc = "lost"
  \/ copy.pc = "downloading" /\ DstRemote /\ down[a0].pc = "lost"

\* Fault: a call to a worker has no time limit.
CallNeverTimesOut == FALSE /\ UNCHANGED vars

CallTimesOut ==
  /\ \/ copy.pc = "uploading" /\ up[a0].pc \notin {"ok", "bad"}
     \/ copy.pc = "downloading" /\ DstRemote /\ down[a0].pc \notin {"ok", "bad"}
  /\ IF WorkerLost THEN UNCHANGED faults ELSE Fault
  /\ Unwind("failed")
  /\ UNCHANGED <<fileVars, gateVars, mode, src, prep, up, down>>

--------------------------------------------------------------------------------
\* The exception handlers.  A managed job that failed keeps its object, revoked;
\* any other end removes the worker's partial file (best effort), then the
\* object.  The local transaction removes its own partial file, except when the
\* copy is resumable.
KeepsProgress == Http /\ mode.managed /\ copy.then = "failed"
KeepsPartial == ~DstRemote /\ mode.managed

Undo ==
  /\ copy.pc = "undo"
  /\ \/ KeepsProgress /\ UNCHANGED fileVars
     \/ ~KeepsProgress /\ KeepsPartial /\ UNCHANGED fileVars
     \/ ~KeepsProgress /\ ~KeepsPartial /\ PathFree
        /\ IF copy.gen # 0 THEN AbortWrite(copy.gen) ELSE UNCHANGED fileVars
  /\ IF Http THEN Goto(IF KeepsProgress THEN "suspend" ELSE "abort")
     ELSE Report(copy.then)
  /\ UNCHANGED <<gateVars, mode, src, prep, up, down, faults>>

\* The abort sent to the worker is lost.
UndoLost ==
  /\ copy.pc = "undo"
  /\ ~KeepsProgress /\ DstRemote
  /\ Fault
  /\ IF Http THEN Goto("abort") ELSE Report(copy.then)
  /\ UNCHANGED <<fileVars, gateVars, mode, src, prep, up, down>>

SuspendIt ==
  /\ copy.pc = "suspend"
  /\ Suspend(copy.gen)
  /\ Report(copy.then)
  /\ UNCHANGED <<fileVars, mode, src, prep, up, down, faults>>

AbortIt ==
  /\ copy.pc = "abort"
  /\ Abort(copy.gen)
  /\ Goto("erase")
  /\ UNCHANGED <<fileVars, mode, src, prep, up, down, faults>>

EraseIt ==
  /\ copy.pc = "erase"
  /\ Delete(copy.gen)
  /\ Report(copy.then)
  /\ UNCHANGED <<fileVars, mode, src, prep, up, down, faults>>

\* The copy is cancelled where it waits.  prepare and the first step of the
\* local transaction are awaited outside the handlers; what they began goes on.
Waits == {"prepare", "uploading", "check", "downloading", "rpcBegin", "rpcCopy",
          "same", "reply"}

LocalBegin == /\ copy.pc = "downloading" /\ ~DstRemote
              /\ down[a0].pc \in {"begin", "beginLog"}

Cancel ==
  /\ copy.pc \in Waits
  /\ Fault
  /\ CASE copy.pc \in {"prepare", "rpcBegin"} \/ mode.route = "same_worker" ->
             Report("cancelled")
       [] LocalBegin -> copy' = [copy EXCEPT !.pc = "abort", !.then = "cancelled"]
       [] OTHER -> Unwind("cancelled")
  /\ down' = IF copy.pc = "downloading" /\ ~DstRemote
             THEN [down EXCEPT ![a0].driven = FALSE] ELSE down
  /\ UNCHANGED <<fileVars, gateVars, mode, src, prep, up>>

\* Cancelled after the file is published, or while the handlers of a failure run:
\* the operation in flight is done by its thread, and nothing after it.
CancelLate ==
  /\ Fault
  /\ \/ copy.pc = "consume" /\ Consume(copy.gen)
     \/ copy.pc \in {"delete", "erase"} /\ copy.then = "failed" /\ Delete(copy.gen)
     \/ copy.pc = "suspend" /\ Suspend(copy.gen)
     \/ copy.pc = "abort" /\ copy.then = "failed" /\ Abort(copy.gen)
     \/ copy.pc = "undo" /\ copy.then = "failed" /\ Http /\ UNCHANGED gateVars
  /\ Report("cancelled")
  /\ UNCHANGED <<fileVars, mode, src, prep, up, down>>

--------------------------------------------------------------------------------
\* upload_file on the source's worker.
UpOpen(a) ==
  /\ up[a].pc = "open"
  /\ GateFree
  /\ LET ok == src = up[a].want /\ Authentic(up[a].gen, a)
     IN /\ up' = [up EXCEPT ![a].pc = IF ok THEN "next" ELSE "bad",
                            ![a].off = IF ok THEN obj.off ELSE 0]
        /\ obj' = IF ok THEN [obj EXCEPT !.expired = FALSE] ELSE obj
  /\ UNCHANGED <<fileVars, spools, spool, glock, req, mode, src, copy, prep, down, faults>>

UpSend(a) ==
  /\ up[a].pc = "next" /\ up[a].off < Size
  /\ \E n \in Reqs :
       /\ Send(n, "put", a, up[a].gen, up[a].off + 1, Piece(up[a].off + 1, src))
       /\ up' = [up EXCEPT ![a].pc = "wait", ![a].slot = n]
  /\ UNCHANGED <<fileVars, obj, spools, spool, glock, mode, src, copy, prep, down, faults>>

\* The reply: the cursor after this chunk, or an error, which is not retried.
UpReply(a) ==
  /\ up[a].pc = "wait"
  /\ LET r == req[up[a].slot]
     IN /\ r.pc \in {"ok", "err"}
        /\ up' = [up EXCEPT ![a].pc = IF r.pc = "ok" THEN "next" ELSE "bad",
                            ![a].off = IF r.pc = "ok" THEN r.i ELSE @]
  /\ Take(up[a].slot)
  /\ UNCHANGED <<fileVars, obj, spools, spool, glock, mode, src, copy, prep, down, faults>>

\* A transport error, of a connection that timed out or of a server that died.
ServerLost(n) == req[n].pc = "lost"

UpTransport(a) ==
  /\ up[a].pc = "wait"
  /\ IF ServerLost(up[a].slot)
        THEN Take(up[a].slot) /\ UNCHANGED faults
        ELSE Leave(up[a].slot) /\ Fault
  /\ up' = [up EXCEPT ![a].tries = IF @ < MaxTries THEN @ + 1 ELSE @,
                      ![a].pc = IF up[a].tries < MaxTries THEN "ask" ELSE "bad"]
  /\ UNCHANGED <<fileVars, obj, spools, spool, glock, mode, src, copy, prep, down>>

\* The cursor is asked for again, and must be the old one or the next.
UpAsk(a) ==
  /\ up[a].pc = "ask"
  /\ GateFree
  /\ LET ok == Authentic(up[a].gen, a) /\ obj.off \in {up[a].off, up[a].off + 1}
     IN /\ up' = [up EXCEPT ![a].pc = IF ok THEN "next" ELSE "bad",
                            ![a].off = IF ok THEN obj.off ELSE @]
        /\ obj' = IF Authentic(up[a].gen, a) THEN [obj EXCEPT !.expired = FALSE] ELSE obj
  /\ UNCHANGED <<fileVars, spools, spool, glock, req, mode, src, copy, prep, down, faults>>

\* The source is the file that was opened, and the object is complete.
UpFinal(a) ==
  /\ up[a].pc = "next" /\ up[a].off = Size
  /\ GateFree
  /\ up' = [up EXCEPT ![a].pc =
              IF /\ src = up[a].want
                 /\ Authentic(up[a].gen, a)
                 /\ obj.off = Size /\ obj.state = "ready"
              THEN "ok" ELSE "bad"]
  /\ UNCHANGED <<fileVars, gateVars, mode, src, copy, prep, down, faults>>

UpStep(a) == UpOpen(a) \/ UpSend(a) \/ UpReply(a) \/ UpTransport(a) \/ UpAsk(a) \/ UpFinal(a)

--------------------------------------------------------------------------------
\* download_file on the destination's worker; copy_spool_to_local_transaction
\* runs the same transaction in the controller, chunk by chunk from the spool.
DownHead(a) ==
  /\ down[a].pc = "head"
  /\ GateFree
  /\ LET ok == Authentic(down[a].gen, a) /\ obj.state = "ready"
     IN /\ down' = [down EXCEPT ![a].pc = IF ok THEN "begin" ELSE "bad"]
        /\ obj' = IF Authentic(down[a].gen, a) THEN [obj EXCEPT !.expired = FALSE] ELSE obj
  /\ UNCHANGED <<fileVars, spools, spool, glock, req, mode, src, copy, prep, up, faults>>

\* After an operation of the transaction, in a coroutine that may be gone.
Onward(a, pc) == IF down[a].driven THEN pc ELSE "stopped"

DownBegin(a) ==
  /\ down[a].pc = "begin"
  /\ PathFree
  /\ LET g == down[a].gen
     IN \/ /\ BeginResumes(g, mode.overwrite)
           /\ down' = [down EXCEPT ![a].pc = Onward(a, "next"),
                                   ![a].off = Cardinality(part[g].got)]
           /\ UNCHANGED fileVars
        \/ /\ BeginCreates(g, mode.overwrite)
           /\ BeginFile(g, a)
           /\ down' = [down EXCEPT ![a].pc = "beginLog"]
        \/ /\ ~BeginResumes(g, mode.overwrite) /\ ~BeginCreates(g, mode.overwrite)
           /\ down' = [down EXCEPT ![a].pc = Onward(a, "bad")]
           /\ UNCHANGED fileVars
  /\ UNCHANGED <<gateVars, mode, src, copy, prep, up, faults>>

DownBeginLog(a) ==
  /\ down[a].pc = "beginLog"
  /\ BeginLog(down[a].gen)
  /\ down' = [down EXCEPT ![a].pc = Onward(a, "next")]
  /\ UNCHANGED <<gateVars, mode, src, copy, prep, up, faults>>

DownGet(a) ==
  /\ down[a].pc = "next" /\ down[a].off < Size
  /\ IF DstRemote
        THEN \E n \in Reqs :
               /\ Send(n, "get", a, down[a].gen, down[a].off + 1, Hole)
               /\ down' = [down EXCEPT ![a].pc = "wait", ![a].slot = n]
        ELSE /\ down[a].driven
             /\ down' = [down EXCEPT ![a].pc = "write",
                                     ![a].c = spool[down[a].gen][down[a].off + 1]]
             /\ UNCHANGED req
  /\ UNCHANGED <<fileVars, obj, spools, spool, glock, mode, src, copy, prep, up, faults>>

DownReply(a) ==
  /\ down[a].pc = "wait"
  /\ LET r == req[down[a].slot]
     IN /\ r.pc \in {"ok", "err"}
        /\ down' = [down EXCEPT ![a].pc = IF r.pc = "ok" THEN "write" ELSE "bad",
                                ![a].c = IF r.pc = "ok" THEN r.c ELSE @]
  /\ Take(down[a].slot)
  /\ UNCHANGED <<fileVars, obj, spools, spool, glock, mode, src, copy, prep, up, faults>>

DownTransport(a) ==
  /\ down[a].pc = "wait"
  /\ IF ServerLost(down[a].slot)
        THEN Take(down[a].slot) /\ UNCHANGED faults
        ELSE Leave(down[a].slot) /\ Fault
  /\ down' = [down EXCEPT ![a].tries = IF @ < MaxTries THEN @ + 1 ELSE @,
                          ![a].pc = IF down[a].tries < MaxTries THEN "next" ELSE "bad"]
  /\ UNCHANGED <<fileVars, obj, spools, spool, glock, mode, src, copy, prep, up>>

DownWrite(a) ==
  /\ down[a].pc = "write"
  /\ PathFree
  /\ LET g == down[a].gen
         i == down[a].off + 1
     IN IF WriteAccepted(g, i)
        THEN /\ WriteFile(g, i, down[a].c, a)
             /\ down' = [down EXCEPT ![a].pc = "writeLog"]
        ELSE /\ down' = [down EXCEPT ![a].pc = Onward(a, "bad")]
             /\ UNCHANGED fileVars
  /\ UNCHANGED <<gateVars, mode, src, copy, prep, up, faults>>

DownWriteLog(a) ==
  /\ down[a].pc = "writeLog"
  /\ WriteLog(down[a].gen, down[a].off + 1)
  /\ down' = [down EXCEPT ![a].pc = Onward(a, "next"), ![a].off = @ + 1,
                          ![a].tries = 0]
  /\ UNCHANGED <<gateVars, mode, src, copy, prep, up, faults>>

DownFinish(a) ==
  /\ down[a].pc = "next" /\ down[a].off = Size
  /\ PathFree
  /\ LET ok == FinishAccepted(down[a].gen, down[a].want, mode.overwrite)
     IN /\ IF ok THEN FinishMove(down[a].gen) ELSE UNCHANGED fileVars
        /\ down' = [down EXCEPT ![a].pc = Onward(a, IF ok THEN "ok" ELSE "bad")]
  /\ UNCHANGED <<gateVars, mode, src, copy, prep, up, faults>>

DownStep(a) ==
  \/ DownHead(a) \/ DownBegin(a) \/ DownBeginLog(a) \/ DownGet(a) \/ DownReply(a)
  \/ DownTransport(a) \/ DownWrite(a) \/ DownWriteLog(a) \/ DownFinish(a)

--------------------------------------------------------------------------------
\* The bounded call transport: every operation is a call to an endpoint, which
\* may fail before or after its effect.  begin is outside the handlers.
RpcBegin ==
  /\ copy.pc = "rpcBegin"
  /\ IF MayBegin(mode.overwrite)
        THEN /\ part' = [part EXCEPT ![a0] = [NoPart EXCEPT !.up = TRUE, !.log = TRUE]]
             /\ copy' = [copy EXCEPT !.pc = "rpcCopy", !.gen = a0]
        ELSE Report("failed") /\ UNCHANGED part
  /\ UNCHANGED <<dest, plock, gateVars, mode, src, prep, up, down, faults>>

RpcBeginFails ==
  /\ copy.pc = "rpcBegin"
  /\ Fault
  /\ part' \in {part, [part EXCEPT ![a0] = [NoPart EXCEPT !.up = TRUE, !.log = TRUE]]}
  /\ Report("failed")
  /\ UNCHANGED <<dest, plock, gateVars, mode, src, prep, up, down>>

RpcChunk ==
  /\ copy.pc = "rpcCopy" /\ copy.off < Size
  /\ LET i == copy.off + 1
     IN IF WriteAccepted(a0, i)
        THEN /\ part' = [part EXCEPT ![a0].data[i] = Piece(i, src),
                                     ![a0].got = @ \cup {i}, ![a0].len = i]
             /\ copy' = [copy EXCEPT !.off = i]
        ELSE Unwind("failed") /\ UNCHANGED part
  /\ UNCHANGED <<dest, plock, gateVars, mode, src, prep, up, down, faults>>

RpcFinish ==
  /\ copy.pc = "rpcCopy" /\ copy.off = Size
  /\ IF FinishAccepted(a0, copy.want, mode.overwrite)
        THEN FinishMove(a0) /\ Goto("reply")
        ELSE Unwind("failed") /\ UNCHANGED fileVars
  /\ UNCHANGED <<gateVars, mode, src, prep, up, down, faults>>

\* transfer_copy_file on one worker: a private temporary, renamed when the source
\* did not change while it was read.
SameWorkerCopy ==
  /\ copy.pc = "same"
  /\ IF MayBegin(mode.overwrite)
        THEN dest' = Whole(src) /\ Goto("reply")
        ELSE Report("failed") /\ UNCHANGED dest
  /\ UNCHANGED <<part, plock, gateVars, mode, src, prep, up, down, faults>>

Replied ==
  /\ copy.pc = "reply"
  /\ Report("copied")
  /\ UNCHANGED <<fileVars, gateVars, mode, src, prep, up, down, faults>>

\* A call fails, or its reply is lost after its effect.
RpcFails ==
  /\ copy.pc \in {"rpcCopy", "same", "reply"}
  /\ Fault
  /\ IF mode.route = "rpc" THEN Unwind("failed") ELSE Report("failed")
  /\ UNCHANGED <<fileVars, gateVars, mode, src, prep, up, down>>

--------------------------------------------------------------------------------
\* The world.
SourceChanges ==
  /\ Fault
  /\ src + 1 \in Versions
  /\ src' = src + 1
  /\ UNCHANGED <<fileVars, gateVars, mode, copy, prep, up, down>>

\* Another writer of the destination, under its path lock.
OtherWrites ==
  /\ Fault
  /\ PathFree
  /\ dest = Absent
  /\ dest' = Other
  /\ UNCHANGED <<part, plock, gateVars, mode, src, copy, prep, up, down>>

GrantExpires ==
  /\ Fault
  /\ Expire
  /\ UNCHANGED <<fileVars, mode, src, copy, prep, up, down>>

OthersClean ==
  /\ CleanupByOthers
  /\ UNCHANGED <<fileVars, copyVars>>

\* An append fails, a body ends early, a download is dropped, or the metadata of
\* a new object cannot be written (its spool stays).
ServerFault ==
  /\ Fault
  /\ \/ \E n \in Reqs : GateFault(n) /\ UNCHANGED prep
     \/ /\ prep = "save"
        /\ prep' = "refused"
        /\ glock' = 0
        /\ UNCHANGED <<obj, spools, spool, req>>
  /\ UNCHANGED <<fileVars, mode, src, copy, up, down>>

\* The controller dies and is started again; its threads end with it.
Crash ==
  /\ Fault
  /\ GateCrash
  /\ copy' = IF copy.verdict = "running"
             THEN [copy EXCEPT !.pc = "idle", !.verdict = "interrupted"] ELSE copy
  /\ prep' = "none"
  /\ down' = IF DstRemote THEN down ELSE [a \in Gens |-> NoDown]
  /\ plock' = IF DstRemote THEN plock ELSE 0
  /\ UNCHANGED <<part, dest, mode, src, up>>

\* A worker dies with the clients it runs.
Alive == {"open", "head", "begin", "beginLog", "next", "wait", "ask", "write", "writeLog"}

LoseClients(c) == [a \in Gens |-> IF c[a].pc \in Alive
                                   THEN [c[a] EXCEPT !.pc = "lost"] ELSE c[a]]

LeaveAll(c) ==
  req' = [n \in Reqs |->
            IF \E a \in Gens : c[a].pc = "wait" /\ c[a].slot = n
            THEN IF req[n].pc \in {"ok", "err", "lost"} THEN FreeReq
                 ELSE [req[n] EXCEPT !.gone = TRUE]
            ELSE req[n]]

WorkerCrash ==
  /\ Fault
  /\ \/ up' = LoseClients(up) /\ LeaveAll(up) /\ UNCHANGED <<down, plock>>
     \/ /\ DstRemote
        /\ down' = LoseClients(down) /\ LeaveAll(down) /\ plock' = 0 /\ UNCHANGED up
  /\ UNCHANGED <<part, dest, obj, spools, spool, glock, mode, src, copy, prep>>

--------------------------------------------------------------------------------
GateProgress == \E n \in Reqs : GateStep(n) /\ UNCHANGED <<fileVars, copyVars>>

CopyStep ==
  \/ PrepOpen \/ PrepSave \/ Prepared
  \/ CallUpload \/ Uploaded \/ Check \/ CallDownload \/ Downloaded
  \/ ConsumeIt \/ DeleteIt \/ Undo \/ SuspendIt \/ AbortIt \/ EraseIt
  \/ RpcBegin \/ RpcChunk \/ RpcFinish \/ SameWorkerCopy \/ Replied

ClientStep == \E a \in Gens : UpStep(a) \/ DownStep(a)

Disturbance ==
  \/ Cancel \/ CancelLate \/ UndoLost \/ RpcBeginFails \/ RpcFails \/ SourceChanges
  \/ OtherWrites \/ GrantExpires \/ ServerFault \/ Crash \/ WorkerCrash

Next ==
  \/ Start \/ GateProgress \/ CopyStep \/ ClientStep \/ CallTimesOut
  \/ OthersClean \/ Disturbance

\* The event loop, the threads and the workers go on, and calls end.
Fairness ==
  /\ WF_vars(GateProgress)
  /\ WF_vars(CopyStep)
  /\ WF_vars(ClientStep)
  /\ WF_vars(WorkerLost /\ CallTimesOut)

Spec == Init /\ [][Next]_vars /\ Fairness

--------------------------------------------------------------------------------
TypeOK ==
  /\ FileTypeOK /\ GateTypeOK
  /\ mode \in Modes /\ src \in Versions
  /\ copy.att \in Gens \cup {0} /\ copy.gen \in Gens \cup {0}
  /\ copy.verdict \in {"none", "running", "copied", "failed", "cancelled", "interrupted"}
  /\ prep \in {"none", "open", "save", "done", "refused"}
  /\ faults \in 0..MaxFaults

\* A ready object is byte for byte the version its transfer was made for, though
\* its chunks may come from clients of several attempts, be sent twice, or be
\* read from a source that is being rewritten (commit_chunk, _copy_snapshot).
ReadyIsWhole ==
  obj.up /\ obj.state = "ready" => spool[obj.gen] = Whole(obj.want)

\* What is below the cursor is on disk, every chunk at its place and once,
\* whatever was replayed, rolled back or cut by a crash.
CursorInSpool ==
  obj.up => /\ obj.off <= Len(spool[obj.gen])
            /\ Len(spool[obj.gen]) <= Size
            /\ \A k \in 1..Len(spool[obj.gen]) : spool[obj.gen][k][1] = k

\* What the gateway holds is sound, under way and when it is ready.
ObjectSound == TypeOK /\ ReadyIsWhole /\ CursorInSpool

\* While an object lives its cursor never goes back and what was committed never
\* changes: a retry only adds to it.
CommittedStays ==
  [][obj.up /\ obj'.up /\ obj'.gen = obj.gen =>
       /\ obj'.off >= obj.off
       /\ \A k \in 1..obj.off : /\ k <= Len(spool'[obj.gen])
                                /\ spool'[obj.gen][k] = spool[obj.gen][k]]_vars

\* With overwrite=false a file that somebody else put at the destination while
\* the transfer ran is never replaced.
NeverClobbers == [][~mode.overwrite /\ dest = Other => dest' = Other]_vars

\* Neither what a transfer has committed nor what is another's is ever lost.
NothingLost == CommittedStays /\ NeverClobbers

\* A copy implements CopyPromise: the destination changes in one step to one
\* whole version of the source, and "copied" is said only after it has.
Promise == INSTANCE CopyPromise WITH Wholes <- Wholes, dest <- dest,
                                     verdict <- copy.verdict
KeepsPromise == Promise!Spec

\* Nothing works for this copy any more.
Quiet ==
  /\ copy.pc = "idle" /\ prep \in {"none", "done", "refused"}
  /\ \A n \in Reqs : req[n].pc = "free"
  /\ \A a \in Gens : up[a].pc \notin Alive /\ down[a].pc \notin Alive

\* docs/security.md: "Foreground failure and cancellation revoke capabilities and
\* remove private partial state."  Once a cancelled copy is quiet, neither its
\* object nor a partial file is left.
CancelLeavesNothing ==
  copy.verdict = "cancelled" /\ Quiet =>
    ~obj.up /\ spools = {} /\ \A g \in Gens : ~part[g].up
================================================================================
