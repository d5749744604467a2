-------------------------- MODULE RemoteEnrollment --------------------------
(***************************************************************************)
(* How a worker gets, keeps and loses its identity: one-time invites, the  *)
(* registry the controller keeps in memory and in two files, and the       *)
(* identity file of the worker.                                            *)
(*                                                                         *)
(* A handler of the manager is one action together with its write of the   *)
(* registry.  The write puts two complete temporary files in place, first  *)
(* the primary and then the backup; it can fail before or between the two, *)
(* the process can die at either point, and the answer can be lost.        *)
(*                                                                         *)
(* The registry is name -> token: that workers and tokens agree is shown   *)
(* by RemoteDispatch.                                                      *)
(***************************************************************************)
EXTENDS Naturals, FiniteSets

CONSTANTS
  WorkerNames, Workers, Tokens, Invites,
  Nil,
  NoFile,      \* the file does not exist
  Damaged,     \* the file exists and cannot be read
  MaxDamage    \* how many files are damaged from outside: a bound

ASSUME NilAssumption ==
  Nil \notin WorkerNames \cup Workers \cup Tokens \cup Invites

(* A file that is missing is not one that is damaged, and neither is a     *)
(* registry.                                                               *)
ASSUME FilesAssumption ==
  /\ NoFile # Damaged
  /\ {NoFile, Damaged} \cap [WorkerNames -> Tokens \cup {Nil}] = {}

VARIABLES
  up,        \* the controller runs
  mem,       \* RemoteManager.workers and tokens: name -> token
  primary,   \* the registry file
  backup,    \* its .bak
  invites,   \* invite -> the name it is bound to, Nil, or "unknown"
  ident,     \* the identity file of the worker: its token
  phase,     \* the worker process
  invite,    \* the invite the worker was started with
  owner,     \* which worker a token was made for (Nil: not made)
  source,    \* with which invite
  asked,     \* tokens whose revocation was asked for
  revoked,   \* tokens whose revocation was confirmed
  damage     \* files damaged so far

controller == <<up, mem, primary, backup>>
worker     == <<ident, phase, invite>>
history    == <<owner, source, asked, revoked, damage>>
enrollVars == <<controller, invites, worker, history>>

Phases     == {"off", "starting", "connected", "failed"}
Registries == [WorkerNames -> Tokens \cup {Nil}]
Empty      == [n \in WorkerNames |-> Nil]
InReg(reg)  == {t \in Tokens : \E n \in WorkerNames : reg[n] = t}
Readable(f) == f \notin {NoFile, Damaged}

EnrollInit ==
  /\ up      = TRUE
  /\ mem     = Empty
  /\ primary = NoFile
  /\ backup  = NoFile
  /\ invites = [i \in Invites |-> "unknown"]
  /\ ident   = [w \in Workers |-> Nil]
  /\ phase   = [w \in Workers |-> "off"]
  /\ invite  = [w \in Workers |-> Nil]
  /\ owner   = [t \in Tokens |-> Nil]
  /\ source  = [t \in Tokens |-> Nil]
  /\ asked   = {}
  /\ revoked = {}
  /\ damage  = 0

-----------------------------------------------------------------------------
(* _save_registry_unlocked(reg).  "saved" and "answerLost" write both      *)
(* files; "failed" writes none and "half" the primary only, and the        *)
(* handler raises; the three crashes end the process, with its memory, at  *)
(* the same points.                                                        *)
Outcomes == {"saved", "answerLost", "failed", "half",
             "crash0", "crash1", "crash2"}

(* Fault: a backup that exists is left as it is.                           *)
SaveFirstBackup(reg, o) ==
  /\ primary' = IF o \in {"failed", "crash0"} THEN primary ELSE reg
  /\ backup'  = IF o \in {"saved", "answerLost", "crash2"} /\ backup = NoFile
                  THEN reg ELSE backup
  /\ up'      = (o \notin {"crash0", "crash1", "crash2"})
  /\ mem'     = IF up' THEN reg ELSE Empty

Save(reg, o) ==
  /\ primary' = IF o \in {"failed", "crash0"} THEN primary ELSE reg
  /\ backup'  = IF o \in {"saved", "answerLost", "crash2"} THEN reg ELSE backup
  /\ up'      = (o \notin {"crash0", "crash1", "crash2"})
  /\ mem'     = IF up' THEN reg ELSE Empty

(* Invites live in memory only.                                            *)
KeepInvites(known) ==
  invites' = IF up' THEN known ELSE [i \in Invites |-> "unknown"]

Known(i) == invites[i] # "unknown"

-----------------------------------------------------------------------------
(* The administrator.                                                      *)

CreateInvite(i, n) ==
  /\ up
  /\ ~Known(i)
  /\ \A w \in Workers : invite[w] # i
  /\ \A t \in Tokens : source[t] # i
  /\ invites' = [invites EXCEPT ![i] = n]
  /\ UNCHANGED <<controller, worker, history>>

ExpireInvite(i) ==
  /\ Known(i)
  /\ invites' = [invites EXCEPT ![i] = "unknown"]
  /\ UNCHANGED <<controller, worker, history>>

RegistryRevoke(n, o) ==
  /\ up
  /\ mem[n] # Nil
  /\ Save([mem EXCEPT ![n] = Nil], o)
  /\ KeepInvites(invites)
  /\ asked'   = asked \cup {mem[n]}
  /\ revoked' = IF o = "saved" THEN revoked \cup {mem[n]} ELSE revoked
  /\ UNCHANGED <<worker, owner, source, damage>>

(* Fault: the old name stays.                                              *)
Copied(n, m) == [mem EXCEPT ![m] = mem[n]]

Moved(n, m) == [mem EXCEPT ![n] = Nil, ![m] = mem[n]]

RegistryRename(n, m, o) ==
  /\ up
  /\ mem[m] = Nil
  /\ mem[n] # Nil
  /\ Save(Moved(n, m), o)
  /\ KeepInvites(invites)
  /\ UNCHANGED <<worker, history>>

-----------------------------------------------------------------------------
(* The worker process.                                                     *)

(* It is started with the stored identity, an invite or both.              *)
StartWorker(w, i) ==
  /\ phase[w] \in {"off", "failed"}
  /\ i = Nil => ident[w] # Nil
  /\ i # Nil => Known(i)
  /\ phase'  = [phase EXCEPT ![w] = "starting"]
  /\ invite' = [invite EXCEPT ![w] = i]
  /\ UNCHANGED <<controller, invites, ident, history>>

StopWorker(w) ==
  /\ phase[w] \in {"starting", "connected"}
  /\ phase' = [phase EXCEPT ![w] = "off"]
  /\ UNCHANGED <<controller, invites, ident, invite, history>>

(* Without an identity it needs an invite.                                 *)
NoInvite(w) ==
  /\ phase[w] = "starting" /\ ident[w] = Nil
  /\ invite[w] = Nil
  /\ phase' = [phase EXCEPT ![w] = "failed"]
  /\ UNCHANGED <<controller, invites, ident, invite, history>>

(* register_worker refuses: 400, which the worker does not retry.          *)
RegisterRefused(w) ==
  /\ up
  /\ phase[w] = "starting" /\ ident[w] = Nil
  /\ invite[w] # Nil
  /\ \/ ~Known(invite[w])
     \/ \E n \in WorkerNames : invites[invite[w]] = n /\ mem[n] # Nil
  /\ phase' = [phase EXCEPT ![w] = "failed"]
  /\ UNCHANGED <<controller, invites, ident, invite, history>>

(* Fault: the invite stays open.                                           *)
Unconsumed(i) == invites

Consumed(i) == [invites EXCEPT ![i] = "unknown"]

(* register_worker consumes the invite and makes a token, then saves.  A   *)
(* lost answer, or a dead controller, is retried by the worker.            *)
RegisterAccepted(w, n, t, o) ==
  /\ up
  /\ phase[w] = "starting" /\ ident[w] = Nil
  /\ invite[w] # Nil
  /\ Known(invite[w])
  /\ invites[invite[w]] \in {Nil, n}
  /\ mem[n] = Nil
  /\ owner[t] = Nil
  /\ Save([mem EXCEPT ![n] = t], o)
  /\ KeepInvites(Consumed(invite[w]))
  /\ owner'  = [owner EXCEPT ![t] = w]
  /\ source' = [source EXCEPT ![t] = invite[w]]
  /\ \/ /\ o = "saved"
        /\ ident' = [ident EXCEPT ![w] = t]
        /\ phase' = [phase EXCEPT ![w] = "connected"]
     \/ /\ o \in {"failed", "half"}
        /\ phase' = [phase EXCEPT ![w] = "failed"]
        /\ UNCHANGED ident
     \/ /\ o \in {"answerLost", "crash0", "crash1", "crash2"}
        /\ UNCHANGED <<ident, phase>>
  /\ UNCHANGED <<invite, asked, revoked, damage>>

(* resume_worker accepts a known token, saves and answers; every exception *)
(* is answered 401, and a 401 deletes the identity.                        *)
DropIdentity(w) == ident' = [ident EXCEPT ![w] = Nil]

ResumeKnown(w, o) ==
  /\ up
  /\ phase[w] = "starting" /\ ident[w] # Nil
  /\ ident[w] \in InReg(mem)
  /\ Save(mem, o)
  /\ KeepInvites(invites)
  /\ \/ /\ o = "saved"
        /\ phase' = [phase EXCEPT ![w] = "connected"]
        /\ UNCHANGED ident
     \/ /\ o \in {"failed", "half"}
        /\ DropIdentity(w)
        /\ UNCHANGED phase
     \/ /\ o \in {"answerLost", "crash0", "crash1", "crash2"}
        /\ UNCHANGED <<ident, phase>>
  /\ UNCHANGED <<invite, history>>

ResumeUnknown(w) ==
  /\ up
  /\ phase[w] = "starting" /\ ident[w] # Nil
  /\ ident[w] \notin InReg(mem)
  /\ DropIdentity(w)
  /\ UNCHANGED <<controller, invites, phase, invite, history>>

(* poll saves when the reported runtime changed.  Its errors are 500 and   *)
(* retried, but for an unknown token: 401 ends the process.                *)
PollKnown(w, o) ==
  /\ up
  /\ phase[w] = "connected"
  /\ ident[w] \in InReg(mem)
  /\ Save(mem, o)
  /\ KeepInvites(invites)
  /\ UNCHANGED <<worker, history>>

PollUnknown(w) ==
  /\ up
  /\ phase[w] = "connected"
  /\ ident[w] \notin InReg(mem)
  /\ phase' = [phase EXCEPT ![w] = "failed"]
  /\ UNCHANGED <<controller, invites, ident, invite, history>>

-----------------------------------------------------------------------------
(* The controller process.                                                 *)

Crash ==
  /\ up
  /\ up'  = FALSE
  /\ mem' = Empty
  /\ KeepInvites(invites)
  /\ UNCHANGED <<primary, backup, worker, history>>

(* Something outside the program makes one file unreadable.                *)
DamageFile ==
  /\ damage < MaxDamage
  /\ damage' = damage + 1
  /\ \/ Readable(primary) /\ primary' = Damaged /\ UNCHANGED backup
     \/ Readable(backup)  /\ backup'  = Damaged /\ UNCHANGED primary
  /\ UNCHANGED <<up, mem, invites, worker, owner, source, asked, revoked>>

(* start: the primary is loaded; an unreadable or missing one is recovered *)
(* from the backup and both files are written again.                       *)
BootPrimary ==
  /\ ~up
  /\ Readable(primary)
  /\ up'  = TRUE
  /\ mem' = primary
  /\ UNCHANGED <<primary, backup, invites, worker, history>>

BootBackup(o) ==
  /\ ~up
  /\ ~Readable(primary)
  /\ Readable(backup)
  /\ o \in {"saved", "crash0", "crash1", "crash2"}
  /\ Save(backup, o)
  /\ UNCHANGED <<invites, worker, history>>

(* Fault: an unreadable registry is reset.                                 *)
BootReset ==
  /\ ~up
  /\ ~Readable(primary)
  /\ up'  = TRUE
  /\ mem' = Empty
  /\ UNCHANGED <<primary, backup, invites, worker, history>>

(* Only where there is no file at all the registry starts empty; otherwise *)
(* the controller refuses to start.                                        *)
BootEmpty ==
  /\ ~up
  /\ primary = NoFile /\ backup = NoFile
  /\ up'  = TRUE
  /\ mem' = Empty
  /\ UNCHANGED <<primary, backup, invites, worker, history>>

EnrollNext ==
  \/ \E i \in Invites, n \in WorkerNames \cup {Nil} : CreateInvite(i, n)
  \/ \E i \in Invites : ExpireInvite(i)
  \/ \E n \in WorkerNames, o \in Outcomes : RegistryRevoke(n, o)
  \/ \E n, m \in WorkerNames, o \in Outcomes : RegistryRename(n, m, o)
  \/ \E w \in Workers :
       \/ \E i \in Invites \cup {Nil} : StartWorker(w, i)
       \/ StopWorker(w)
       \/ NoInvite(w) \/ RegisterRefused(w)
       \/ \E n \in WorkerNames, t \in Tokens, o \in Outcomes : RegisterAccepted(w, n, t, o)
       \/ ResumeUnknown(w) \/ PollUnknown(w)
       \/ \E o \in Outcomes : ResumeKnown(w, o) \/ PollKnown(w, o)
  \/ Crash \/ DamageFile
  \/ BootPrimary \/ BootEmpty \/ \E o \in Outcomes : BootBackup(o)

EnrollSpec == EnrollInit /\ [][EnrollNext]_enrollVars

-----------------------------------------------------------------------------
(* Every variable has its type.                                            *)
EnrollTypeOK ==
  /\ up \in BOOLEAN
  /\ mem \in Registries
  /\ primary \in Registries \cup {NoFile, Damaged}
  /\ backup \in Registries \cup {NoFile, Damaged}
  /\ invites \in [Invites -> WorkerNames \cup {Nil, "unknown"}]
  /\ ident \in [Workers -> Tokens \cup {Nil}]
  /\ phase \in [Workers -> Phases]
  /\ invite \in [Workers -> Invites \cup {Nil}]
  /\ owner \in [Tokens -> Workers \cup {Nil}]
  /\ source \in [Tokens -> Invites \cup {Nil}]
  /\ asked \subseteq Tokens
  /\ revoked \subseteq asked
  /\ damage \in Nat

(* A worker that holds an identity nobody asked to revoke is known to the  *)
(* running controller and to every readable registry file: no crash,       *)
(* failed write, recovery or later registration forgets it.                *)
AckedSurvives ==
  \A w \in Workers :
    ident[w] \notin asked \cup {Nil} =>
      /\ up => ident[w] \in InReg(mem)
      /\ Readable(primary) => ident[w] \in InReg(primary)
      /\ Readable(backup)  => ident[w] \in InReg(backup)

(* A confirmed revocation is final: the token is in no file and never      *)
(* comes back, not even when the registry is recovered from the backup.    *)
RevocationIsFinal ==
  \A t \in revoked :
    /\ t \notin InReg(mem)
    /\ Readable(primary) => t \notin InReg(primary)
    /\ Readable(backup)  => t \notin InReg(backup)

(* One invite enrolls at most one worker, however often its request is     *)
(* repeated.                                                               *)
InviteUsedOnce ==
  \A t, u \in Tokens : t # u /\ source[t] # Nil => source[t] # source[u]

(* No token is registered under two names.                                 *)
OneName(reg) == \A n, m \in WorkerNames : n # m /\ reg[n] # Nil => reg[n] # reg[m]
TokensUnique ==
  /\ OneName(mem)
  /\ Readable(primary) => OneName(primary)
  /\ Readable(backup)  => OneName(backup)

(* Identities survive, revocations are final and credentials are never     *)
(* shared, through every crash, failed write and repeated request.         *)
EnrollmentSound ==
  /\ EnrollTypeOK
  /\ AckedSurvives /\ RevocationIsFinal
  /\ InviteUsedOnce /\ TokensUnique

(* A worker loses its identity only to a revocation.                       *)
IdentityKept ==
  [][\A w \in Workers : ident[w] # Nil /\ ident'[w] = Nil => ident[w] \in asked]_enrollVars

=============================================================================
