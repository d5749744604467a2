---------------------------- MODULE TransferGateway ----------------------------
(*****************************************************************************)
(* remote/transfer_gateway.py: the private durable HTTP gateway of           *)
(* session_copy, for one copy.  One transfer object with its metadata (obj)  *)
(* and its spool file on disk (spool, spools), the requests its routes are   *)
(* handling (req), and the store's lock where an operation has a step on     *)
(* disk between two others (glock).                                          *)
(*                                                                           *)
(* A capability token is the number of the attempt it was made for; 0 is no  *)
(* token.  A claim is owned by one request, by a process that is gone, or    *)
(* by nothing any more, when the body of a download was never iterated.      *)
(*****************************************************************************)
EXTENDS TransferFile

CONSTANT Reqs          \* slots of requests being handled

ASSUME ReqsAssumption == Reqs \subseteq Nat \ {0}

VARIABLES obj,         \* the transfer object: its metadata file
          spools,      \* the generations whose spool file exists
          spool,       \* [Gens -> the chunks in the spool]
          glock,       \* 0, or who holds gateway.lock between two steps
          req          \* [Reqs -> the request in that slot]

gateVars == <<obj, spools, spool, glock, req>>

NoClaim == 0
StaleClaim == 1        \* its owner's nonce is not this process's
LeakedClaim == 2       \* nobody is left to release it
ClaimOf(n) == 10 + n

Terminal == {"aborted", "failed", "consumed"}
NoObj == [up |-> FALSE, state |-> "none", off |-> 0, tok |-> 0,
          claim |-> NoClaim, want |-> 0, gen |-> 0,
          expired |-> FALSE, fresh |-> TRUE]

FreeReq == [pc |-> "free", kind |-> "put", att |-> 0, gen |-> 0,
            i |-> 0, c |-> Hole, gone |-> FALSE]

GateInit ==
  /\ obj = NoObj
  /\ spools = {}
  /\ spool = [g \in Gens |-> <<>>]
  /\ glock = 0
  /\ req = [n \in Reqs |-> FreeReq]

GateFree == glock = 0

\* obj names generation g.
Loads(g) == obj.up /\ obj.gen = g

\* _open_spool: the file has the recorded identity and generation, which every
\* append and rollback refreshes; its size is then the recorded offset.
SpoolValid ==
  /\ obj.gen \in spools
  /\ obj.fresh
  /\ Len(spool[obj.gen]) = obj.off

\* authenticate: the token of attempt a, not expired, object still active.
Authentic(g, a) ==
  /\ Loads(g)
  /\ ~obj.expired
  /\ obj.tok = a
  /\ obj.state \notin Terminal

\* begin_claim: a claim of another process's nonce is taken over.
Claimable == obj.claim \in {NoClaim, StaleClaim}

\* What release_claim(claim n) leaves of the object.
Released(o, n) == IF o.claim = ClaimOf(n) THEN [o EXCEPT !.claim = NoClaim] ELSE o

\* The reply of request n; nobody takes it when the client has given up.
Answer(n, pc, c) ==
  req' = [req EXCEPT ![n] = IF @.gone THEN FreeReq ELSE [@ EXCEPT !.pc = pc, !.c = c]]

Refuse(n) == Answer(n, "err", req[n].c)

StepTo(n, pc) == req' = [req EXCEPT ![n].pc = pc]

\* A client sends a request for chunk i, carrying content c.
Send(n, kind, a, g, i, c) ==
  /\ req[n].pc = "free"
  /\ req' = [req EXCEPT ![n] = [pc |-> "auth", kind |-> kind, att |-> a,
                                gen |-> g, i |-> i, c |-> c, gone |-> FALSE]]

\* The client takes the reply of slot n, or stops waiting for it.
Take(n) == req' = [req EXCEPT ![n] = FreeReq]
Leave(n) ==
  req' = [req EXCEPT ![n] = IF @.pc \in {"ok", "err"} THEN FreeReq
                            ELSE [@ EXCEPT !.gone = TRUE]]

--------------------------------------------------------------------------------
\* The route, up to its claim.  authenticate, status/object and begin_claim take
\* the store's lock one after the other; a thread of the copy can come between.
ReqAuth(n) ==
  /\ req[n].pc = "auth"
  /\ GateFree
  /\ IF Authentic(req[n].gen, req[n].att)
        THEN StepTo(n, "claim") /\ obj' = [obj EXCEPT !.expired = FALSE]
        ELSE Refuse(n) /\ UNCHANGED obj
  /\ UNCHANGED <<spools, spool, glock>>

PutClaim(n) ==
  /\ req[n].pc = "claim" /\ req[n].kind = "put"
  /\ GateFree
  /\ IF Loads(req[n].gen) /\ Claimable
        THEN StepTo(n, "body") /\ obj' = [obj EXCEPT !.claim = ClaimOf(n)]
        ELSE Refuse(n) /\ UNCHANGED obj
  /\ UNCHANGED <<spools, spool, glock>>

\* The body has been read to a private chunk file and its digest is the header's.
PutBody(n) ==
  /\ req[n].pc = "body"
  /\ StepTo(n, "commit")
  /\ UNCHANGED <<obj, spools, spool, glock>>

\* The body ends early or its digest differs: the claim is released.
PutBodyFails(n) ==
  /\ req[n].pc = "body"
  /\ GateFree
  /\ obj' = Released(obj, n)
  /\ Refuse(n)
  /\ UNCHANGED <<spools, spool, glock>>

\* commit_chunk, up to the append.
Replays(n) == req[n].i <= obj.off
ExactReplay(n) ==
  /\ req[n].i = obj.off /\ obj.off <= Len(spool[obj.gen])
  /\ spool[obj.gen][obj.off] = req[n].c

HasClaim(n) == Loads(req[n].gen) /\ obj.claim = ClaimOf(n)

\* Fault: a chunk that was already committed is appended again.
MayAppendAgain(n) == req[n].i <= obj.off + 1 /\ SpoolValid

MayAppend(n) == req[n].i = obj.off + 1 /\ SpoolValid

PutCommit(n) ==
  /\ req[n].pc = "commit"
  /\ GateFree
  /\ \/ /\ HasClaim(n) /\ MayAppend(n)
        /\ spool' = [spool EXCEPT ![obj.gen] = Append(@, req[n].c)]
        /\ obj' = [obj EXCEPT !.fresh = FALSE]
        /\ glock' = n
        /\ StepTo(n, "append")
     \/ /\ HasClaim(n) /\ ~MayAppend(n)
        /\ Replays(n) /\ ExactReplay(n)
        /\ obj' = [obj EXCEPT !.claim = NoClaim]
        /\ Answer(n, "ok", req[n].c)
        /\ UNCHANGED <<spool, glock>>
     \/ /\ \/ ~HasClaim(n)
           \/ ~MayAppend(n) /\ ~(Replays(n) /\ ExactReplay(n))
        /\ obj' = Released(obj, n)
        /\ Refuse(n)
        /\ UNCHANGED <<spool, glock>>
  /\ UNCHANGED spools

\* The metadata after the append: the cursor moves, and the last chunk decides
\* between ready and failed by the digest of the whole object.
PutSave(n) ==
  /\ req[n].pc = "append"
  /\ LET o == [obj EXCEPT !.fresh = TRUE, !.off = req[n].i, !.claim = NoClaim]
         last == req[n].i = Size
         whole == DigestIs(spool[obj.gen], obj.want)
     IN /\ obj' = IF last THEN [o EXCEPT !.state = IF whole THEN "ready" ELSE "failed"]
                  ELSE o
        /\ IF last /\ ~whole THEN Refuse(n) ELSE Answer(n, "ok", req[n].c)
  /\ glock' = 0
  /\ UNCHANGED <<spools, spool>>

\* Fault: the spool is cut to nothing.
RollbackLengthZero == 0

\* The append failed: the spool is cut back to the cursor.
RollbackLength == obj.off

PutRollback(n) ==
  /\ req[n].pc = "append"
  /\ spool' = [spool EXCEPT ![obj.gen] = SubSeq(@, 1, RollbackLength)]
  /\ obj' = Released([obj EXCEPT !.fresh = TRUE], n)
  /\ glock' = 0
  /\ Refuse(n)
  /\ UNCHANGED spools

\* The metadata cannot be written after the append: the chunk stays.
PutSaveFails(n) ==
  /\ req[n].pc = "append"
  /\ obj' = Released(obj, n)
  /\ glock' = 0
  /\ Refuse(n)
  /\ UNCHANGED <<spools, spool>>

\* A download: the object must be ready; the claim is taken before the response
\* is returned and released by the body's iterator when it ends.
GetClaim(n) ==
  /\ req[n].pc = "claim" /\ req[n].kind = "get"
  /\ GateFree
  /\ IF Loads(req[n].gen) /\ obj.state = "ready" /\ SpoolValid /\ Claimable
        THEN StepTo(n, "stream") /\ obj' = [obj EXCEPT !.claim = ClaimOf(n)]
        ELSE Refuse(n) /\ UNCHANGED obj
  /\ UNCHANGED <<spools, spool, glock>>

GetStream(n) ==
  /\ req[n].pc = "stream"
  /\ GateFree
  /\ obj' = Released(obj, n)
  /\ IF req[n].gen \in spools
        THEN Answer(n, "ok", spool[req[n].gen][req[n].i])
        ELSE Refuse(n)
  /\ UNCHANGED <<spools, spool, glock>>

\* The client is gone before the iterator's first step: its finally clause never
\* runs.
GetNeverIterated(n) ==
  /\ req[n].pc = "stream" /\ req[n].gone
  /\ obj' = IF obj.claim = ClaimOf(n) THEN [obj EXCEPT !.claim = LeakedClaim] ELSE obj
  /\ req' = [req EXCEPT ![n] = FreeReq]
  /\ UNCHANGED <<spools, spool, glock>>

GateStep(n) ==
  \/ ReqAuth(n) \/ PutClaim(n) \/ PutBody(n) \/ PutCommit(n) \/ PutSave(n)
  \/ GetClaim(n) \/ GetStream(n)

GateFault(n) ==
  PutBodyFails(n) \/ PutRollback(n) \/ PutSaveFails(n) \/ GetNeverIterated(n)

--------------------------------------------------------------------------------
\* prepare, by attempt a that wants version v.  Expired and terminal objects are
\* deleted first; what is left is resumed when it matches, and refused when not.
Survives == obj.up /\ ~obj.expired /\ obj.state \notin Terminal
Matches(v) == obj.want = v /\ SpoolValid

Resumes(v) == Survives /\ Matches(v)
ResumeRefused(v) == Survives /\ ~Matches(v)

Resume(a) ==
  /\ obj' = [obj EXCEPT !.tok = a, !.claim = NoClaim, !.expired = FALSE]
  /\ UNCHANGED <<spools, spool, glock, req>>

\* The new spool: empty, or a verified snapshot of a local source.
CreateSpool(a, content) ==
  /\ obj' = NoObj
  /\ spools' = (spools \ {obj.gen}) \cup {a}
  /\ spool' = [spool EXCEPT ![a] = content]
  /\ glock' = 100
  /\ UNCHANGED req

CreateObject(a, v) ==
  /\ obj' = [NoObj EXCEPT !.up = TRUE, !.tok = a, !.want = v, !.gen = a,
                          !.off = Len(spool[a]),
                          !.state = IF spool[a] = <<>> THEN "uploading" ELSE "ready"]
  /\ glock' = 0
  /\ UNCHANGED <<spools, spool, req>>

\* suspend, abort, consume: the capabilities and the claim are revoked.
Revoked(state) == [obj EXCEPT !.state = state, !.tok = 0, !.claim = NoClaim]

Suspend(g) ==
  /\ GateFree
  /\ obj' = IF Loads(g) THEN [Revoked(obj.state) EXCEPT !.expired = FALSE] ELSE obj
  /\ UNCHANGED <<spools, spool, glock, req>>

Abort(g) ==
  /\ GateFree
  /\ obj' = IF Loads(g) THEN Revoked("aborted") ELSE obj
  /\ UNCHANGED <<spools, spool, glock, req>>

Consume(g) ==
  /\ GateFree
  /\ Loads(g)
  /\ obj' = Revoked("consumed")
  /\ UNCHANGED <<spools, spool, glock, req>>

Delete(g) ==
  /\ GateFree
  /\ obj' = IF Loads(g) THEN NoObj ELSE obj
  /\ spools' = spools \ {g}
  /\ UNCHANGED <<spool, glock, req>>

\* The time to live of the grant passes; the prepare of another transfer deletes
\* what has expired.
Expire ==
  /\ obj.up /\ ~obj.expired
  /\ obj' = [obj EXCEPT !.expired = TRUE]
  /\ UNCHANGED <<spools, spool, glock, req>>

CleanupByOthers ==
  /\ GateFree
  /\ obj.up /\ ~Survives
  /\ obj' = NoObj
  /\ spools' = spools \ {obj.gen}
  /\ UNCHANGED <<spool, glock, req>>

\* The controller process dies: its requests end, its claim is of a nonce that
\* no process has, the lock is released by the operating system.
GateCrash ==
  /\ req' = [n \in Reqs |-> IF req[n].pc = "free" \/ req[n].gone THEN FreeReq
                            ELSE [req[n] EXCEPT !.pc = "lost"]]
  /\ obj' = IF obj.claim = NoClaim THEN obj ELSE [obj EXCEPT !.claim = StaleClaim]
  /\ glock' = 0
  /\ UNCHANGED <<spools, spool>>

GateTypeOK ==
  /\ obj \in [up : BOOLEAN,
              state : {"none", "uploading", "ready"} \cup Terminal,
              off : 0..Size, tok : Gens \cup {0},
              claim : {NoClaim, StaleClaim, LeakedClaim} \cup {ClaimOf(n) : n \in Reqs},
              want : Versions \cup {0}, gen : Gens \cup {0},
              expired : BOOLEAN, fresh : BOOLEAN]
  /\ spools \subseteq Gens
  /\ spool \in [Gens -> Seq(Chunk)]
  /\ glock \in Reqs \cup {0, 100}
  /\ req \in [Reqs -> [pc : {"free", "auth", "claim", "body", "commit", "append",
                             "stream", "ok", "err", "lost"},
                       kind : {"put", "get"}, att : Gens \cup {0},
                       gen : Gens \cup {0}, i : 0..Size,
                       c : Chunk \cup {Hole}, gone : BOOLEAN]]
================================================================================
