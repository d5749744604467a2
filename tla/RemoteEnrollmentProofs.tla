---------------------- MODULE RemoteEnrollmentProofs ----------------------
(***************************************************************************)
(* Proofs about RemoteEnrollment, for every set of names, workers, tokens  *)
(* and invites and any number of damaged files, and about the service of a *)
(* worker's host (WorkerService), for every set of profiles and any number *)
(* of processes, runtimes, commands and troubles.                          *)
(***************************************************************************)
EXTENDS RemoteEnrollment, WorkerService, TLAPS

(* The registries the controller answers from or may start from.           *)
Copies == (IF up THEN {mem} ELSE {}) \cup {f \in {primary, backup} : Readable(f)}

(* The tokens that were ever made.                                         *)
Made == {t \in Tokens : owner[t] # Nil}

CopiesComplete ==
  \A w \in Workers : \A c \in Copies : ident[w] \notin asked \cup {Nil} => ident[w] \in InReg(c)
CopiesClean    == \A t \in revoked : \A c \in Copies : t \notin InReg(c)
CopiesUnique   == \A c \in Copies : OneName(c)
CopiesMade     == \A c \in Copies : InReg(c) \subseteq Made

(* There are two files before there is an identity.                        *)
FilesFirst == primary = NoFile \/ backup = NoFile => \A w \in Workers : ident[w] = Nil

(* An open invite has made no token.                                       *)
Unspent == \A i \in Invites : Known(i) => \A t \in Tokens : source[t] # i

EnrollInv ==
  /\ EnrollTypeOK
  /\ ~up => mem = Empty
  /\ CopiesComplete /\ CopiesClean /\ CopiesUnique /\ CopiesMade
  /\ asked \subseteq Made
  /\ FilesFirst /\ Unspent /\ InviteUsedOnce

-----------------------------------------------------------------------------
LEMMA EmptyRegistry ==
  Empty \in Registries /\ InReg(Empty) = {} /\ OneName(Empty)
  BY NilAssumption DEF Empty, Registries, InReg, OneName

LEMMA CopiesTyped ==
  ASSUME EnrollTypeOK
  PROVE  Copies \subseteq Registries
  BY DEF EnrollTypeOK, Copies, Readable

(* The invariant says of the copies what the property says of the memory   *)
(* and of each file.                                                       *)
LEMMA InvariantImplies == EnrollInv => EnrollmentSound
<1> SUFFICES ASSUME EnrollInv PROVE EnrollmentSound
  OBVIOUS
<1>1. /\ up => mem \in Copies
      /\ Readable(primary) => primary \in Copies
      /\ Readable(backup) => backup \in Copies
  BY DEF Copies
<1>2. AckedSurvives
  BY <1>1 DEF EnrollInv, CopiesComplete, AckedSurvives
<1>3. RevocationIsFinal
  BY <1>1, EmptyRegistry DEF EnrollInv, CopiesClean, RevocationIsFinal
<1>4. TokensUnique
  BY <1>1, EmptyRegistry DEF EnrollInv, CopiesUnique, TokensUnique
<1> QED
  BY <1>2, <1>3, <1>4 DEF EnrollInv, EnrollmentSound

LEMMA InvariantInit == EnrollInit => EnrollInv
<1> SUFFICES ASSUME EnrollInit PROVE EnrollInv
  OBVIOUS
<1>1. Copies = {Empty} /\ mem = Empty
  BY DEF EnrollInit, Copies, Readable
<1>2. EnrollTypeOK
  BY EmptyRegistry DEF EnrollInit, EnrollTypeOK, Phases
<1>3. CopiesComplete /\ CopiesClean /\ CopiesUnique /\ CopiesMade
  BY <1>1, EmptyRegistry DEF EnrollInit, CopiesComplete, CopiesClean, CopiesUnique, CopiesMade
<1>4. FilesFirst /\ Unspent /\ InviteUsedOnce /\ asked \subseteq Made
  BY DEF EnrollInit, FilesFirst, Unspent, Known, InviteUsedOnce
<1> QED
  BY <1>1, <1>2, <1>3, <1>4 DEF EnrollInv, EnrollInit

-----------------------------------------------------------------------------
(* What a save leaves, at whichever point it ends: no copy but the old     *)
(* ones and the new one, and only the new one if it is confirmed.          *)
LEMMA Saving ==
  ASSUME EnrollTypeOK, NEW reg \in Registries, NEW o \in Outcomes, Save(reg, o)
  PROVE  /\ up' \in BOOLEAN /\ mem' \in Registries
         /\ primary' \in Registries \cup {NoFile, Damaged}
         /\ backup' \in Registries \cup {NoFile, Damaged}
         /\ ~up' => mem' = Empty
         /\ \A c \in Copies' : c \in Copies \cup {reg}
         /\ o = "saved" => primary' = reg /\ backup' = reg /\ \A c \in Copies' : c = reg
         /\ primary' = NoFile => primary = NoFile
         /\ backup' = NoFile => backup = NoFile
<1>1. /\ up' \in BOOLEAN /\ mem' \in {reg, Empty} /\ (up' => mem' = reg) /\ (~up' => mem' = Empty)
      /\ primary' \in {primary, reg} /\ backup' \in {backup, reg}
      /\ o = "saved" => primary' = reg /\ backup' = reg
  BY DEF Save
<1>2. reg # NoFile
  BY FilesAssumption DEF Registries
<1>3. \A c \in Copies' : c \in Copies \cup {reg}
  BY <1>1 DEF Copies, Readable
<1>4. o = "saved" => \A c \in Copies' : c = reg
  BY <1>1 DEF Copies
<1> QED
  BY <1>1, <1>2, <1>3, <1>4, EmptyRegistry DEF EnrollTypeOK

(* A handler that saves a registry in which no live identity is missing,   *)
(* no revoked token remains and no token is twice keeps what is said of    *)
(* the copies.                                                             *)
LEMMA CopiesStep ==
  ASSUME EnrollInv, NEW reg \in Registries,
         \A c \in Copies' : c \in Copies \cup {reg},
         OneName(reg), InReg(reg) \subseteq Made', Made \subseteq Made',
         \A t \in revoked' : t \notin InReg(reg),
         \A c \in Copies' : c # reg => \A t \in revoked' : t \notin InReg(c),
         \A w \in Workers : ident'[w] \notin asked' \cup {Nil} =>
           /\ ident'[w] \in InReg(reg)
           /\ \A c \in Copies' : c # reg => ident'[w] \in InReg(c)
  PROVE  CopiesComplete' /\ CopiesClean' /\ CopiesUnique' /\ CopiesMade'
<1> SUFFICES ASSUME NEW c \in Copies'
             PROVE  /\ OneName(c) /\ InReg(c) \subseteq Made'
                    /\ \A t \in revoked' : t \notin InReg(c)
                    /\ \A w \in Workers : ident'[w] \notin asked' \cup {Nil} => ident'[w] \in InReg(c)
  BY DEF CopiesComplete, CopiesClean, CopiesUnique, CopiesMade, OneName, InReg
<1>1. CASE c = reg
  BY <1>1
<1>2. CASE c # reg
  BY <1>2 DEF EnrollInv, CopiesUnique, CopiesMade
<1> QED
  BY <1>1, <1>2

(* Nothing new is stored, and no identity, token or revocation is new.     *)
LEMMA NothingNew ==
  ASSUME EnrollInv, \A c \in Copies' : c \in Copies,
         UNCHANGED <<owner, asked, revoked>>,
         \A w \in Workers : ident'[w] \in {ident[w], Nil}
  PROVE  CopiesComplete' /\ CopiesClean' /\ CopiesUnique' /\ CopiesMade' /\ asked' \subseteq Made'
<1>1. Made' = Made
  BY DEF Made
<1> SUFFICES ASSUME NEW c \in Copies'
             PROVE  /\ OneName(c) /\ InReg(c) \subseteq Made'
                    /\ \A t \in revoked' : t \notin InReg(c)
                    /\ \A w \in Workers : ident'[w] \notin asked' \cup {Nil} => ident'[w] \in InReg(c)
  BY <1>1 DEF CopiesComplete, CopiesClean, CopiesUnique, CopiesMade, OneName, InReg, EnrollInv
<1>2. c \in Copies
  OBVIOUS
<1> QED
  BY <1>1, <1>2 DEF EnrollInv, CopiesComplete, CopiesClean, CopiesUnique, CopiesMade

(* A registry with the same tokens as one of the copies is saved.          *)
LEMMA SameTokens ==
  ASSUME EnrollInv, NEW base \in Copies, NEW reg \in Registries, NEW o \in Outcomes,
         InReg(reg) = InReg(base), OneName(reg), Save(reg, o),
         UNCHANGED <<owner, asked, revoked>>,
         \A w \in Workers : ident'[w] \in {ident[w], Nil}
  PROVE  /\ CopiesComplete' /\ CopiesClean' /\ CopiesUnique' /\ CopiesMade'
         /\ asked' \subseteq Made'
<1>1. Made' = Made
  BY DEF Made
<1>2. \A c \in Copies' : c \in Copies \cup {reg}
  BY Saving DEF EnrollInv
<1>3. \A c \in Copies \cup {reg} :
        /\ InReg(c) \subseteq Made
        /\ \A t \in revoked : t \notin InReg(c)
        /\ \A w \in Workers : ident[w] \notin asked \cup {Nil} => ident[w] \in InReg(c)
  BY DEF EnrollInv, CopiesComplete, CopiesClean, CopiesMade
<1>4. /\ InReg(reg) \subseteq Made' /\ Made \subseteq Made'
      /\ \A t \in revoked' : t \notin InReg(reg)
      /\ \A c \in Copies' : c # reg => \A t \in revoked' : t \notin InReg(c)
  BY <1>1, <1>2, <1>3
<1>5. ASSUME NEW w \in Workers, ident'[w] \notin asked' \cup {Nil}
      PROVE  /\ ident'[w] \in InReg(reg)
             /\ \A c \in Copies' : c # reg => ident'[w] \in InReg(c)
  <2>1. ident'[w] = ident[w] /\ ident[w] \notin asked \cup {Nil}
    BY <1>5
  <2> QED
    BY <1>2, <1>3, <2>1
<1>6. CopiesComplete' /\ CopiesClean' /\ CopiesUnique' /\ CopiesMade'
  BY <1>2, <1>4, <1>5, CopiesStep
<1> QED
  BY <1>1, <1>6 DEF EnrollInv

(* What the files and the invites need besides.                            *)
LEMMA FilesStep ==
  ASSUME FilesFirst, primary' = NoFile => primary = NoFile, backup' = NoFile => backup = NoFile,
         \A w \in Workers : ident'[w] \in {ident[w], Nil}
  PROVE  FilesFirst'
  BY DEF FilesFirst

LEMMA InvitesStep ==
  ASSUME EnrollInv, UNCHANGED source,
         \A i \in Invites : invites'[i] \in {invites[i], "unknown"}
  PROVE  Unspent' /\ InviteUsedOnce'
  BY DEF EnrollInv, Unspent, Known, InviteUsedOnce

(* The rest of a handler that saves and makes no token and no identity.    *)
LEMMA Kept ==
  ASSUME EnrollInv, NEW reg \in Registries, NEW o \in Outcomes, Save(reg, o),
         CopiesComplete' /\ CopiesClean' /\ CopiesUnique' /\ CopiesMade' /\ asked' \subseteq Made',
         invites' \in {invites, [i \in Invites |-> "unknown"]},
         ident' \in [Workers -> Tokens \cup {Nil}], \A w \in Workers : ident'[w] \in {ident[w], Nil},
         phase' \in [Workers -> Phases],
         UNCHANGED <<invite, owner, source, asked, revoked, damage>>
  PROVE  EnrollInv'
<1>1. /\ primary' = NoFile => primary = NoFile
      /\ backup' = NoFile => backup = NoFile
      /\ up' \in BOOLEAN /\ mem' \in Registries
      /\ primary' \in Registries \cup {NoFile, Damaged}
      /\ backup' \in Registries \cup {NoFile, Damaged}
      /\ ~up' => mem' = Empty
  BY Saving DEF EnrollInv
<1>2. invites' \in [Invites -> WorkerNames \cup {Nil, "unknown"}]
      /\ \A i \in Invites : invites'[i] \in {invites[i], "unknown"}
  BY DEF EnrollInv, EnrollTypeOK
<1>3. Unspent' /\ InviteUsedOnce'
  BY <1>2, InvitesStep
<1>4. FilesFirst'
  BY <1>1, FilesStep DEF EnrollInv
<1>5. EnrollTypeOK'
  BY <1>1, <1>2 DEF EnrollInv, EnrollTypeOK
<1> QED
  BY <1>1, <1>3, <1>4, <1>5 DEF EnrollInv

-----------------------------------------------------------------------------
LEMMA StepOfAdmin ==
  ASSUME EnrollInv,
         \/ \E i \in Invites, n \in WorkerNames \cup {Nil} : CreateInvite(i, n)
         \/ \E i \in Invites : ExpireInvite(i)
         \/ \E n \in WorkerNames, o \in Outcomes : RegistryRevoke(n, o)
         \/ \E n, m \in WorkerNames, o \in Outcomes : RegistryRename(n, m, o)
  PROVE  EnrollInv'
<1> USE DEF controller, worker, history
<1>1. ASSUME NEW i \in Invites, NEW n \in WorkerNames \cup {Nil}, CreateInvite(i, n)
      PROVE  EnrollInv'
  <2>1. UNCHANGED <<up, mem, primary, backup, ident, phase, invite, owner, source, asked, revoked, damage>>
        /\ invites' = [invites EXCEPT ![i] = n] /\ \A t \in Tokens : source[t] # i
    BY <1>1 DEF CreateInvite
  <2>2. \A c \in Copies' : c \in Copies
    BY <2>1 DEF Copies
  <2>3. CopiesComplete' /\ CopiesClean' /\ CopiesUnique' /\ CopiesMade' /\ asked' \subseteq Made'
    BY <2>1, <2>2, NothingNew
  <2>4. Unspent' /\ InviteUsedOnce'
    BY <2>1 DEF EnrollInv, EnrollTypeOK, Unspent, Known, InviteUsedOnce
  <2>5. EnrollTypeOK' /\ FilesFirst' /\ (~up' => mem' = Empty)
    BY <2>1, FilesStep DEF EnrollInv, EnrollTypeOK
  <2> QED
    BY <2>3, <2>4, <2>5 DEF EnrollInv
<1>2. ASSUME NEW i \in Invites, ExpireInvite(i) PROVE EnrollInv'
  <2>1. UNCHANGED <<up, mem, primary, backup, ident, phase, invite, owner, source, asked, revoked, damage>>
        /\ invites' = [invites EXCEPT ![i] = "unknown"]
    BY <1>2 DEF ExpireInvite
  <2>2. \A c \in Copies' : c \in Copies
    BY <2>1 DEF Copies
  <2>3. CopiesComplete' /\ CopiesClean' /\ CopiesUnique' /\ CopiesMade' /\ asked' \subseteq Made'
    BY <2>1, <2>2, NothingNew
  <2>4. Unspent' /\ InviteUsedOnce'
    BY <2>1, InvitesStep DEF EnrollInv, EnrollTypeOK
  <2>5. EnrollTypeOK' /\ FilesFirst' /\ (~up' => mem' = Empty)
    BY <2>1, FilesStep DEF EnrollInv, EnrollTypeOK
  <2> QED
    BY <2>3, <2>4, <2>5 DEF EnrollInv
<1>3. ASSUME NEW n \in WorkerNames, NEW o \in Outcomes, RegistryRevoke(n, o) PROVE EnrollInv'
  <2> DEFINE reg == [mem EXCEPT ![n] = Nil]
             gone == mem[n]
  <2>1. /\ up /\ gone # Nil /\ Save(reg, o)
        /\ invites' = (IF up' THEN invites ELSE [i \in Invites |-> "unknown"])
        /\ asked' = asked \cup {gone}
        /\ revoked' = (IF o = "saved" THEN revoked \cup {gone} ELSE revoked)
        /\ UNCHANGED <<ident, phase, invite, owner, source, damage>>
    BY <1>3 DEF RegistryRevoke, KeepInvites
  <2>2. mem \in Copies /\ mem \in Registries /\ OneName(mem)
    BY <2>1 DEF EnrollInv, EnrollTypeOK, Copies, CopiesUnique
  <2>3. /\ reg \in Registries /\ OneName(reg) /\ gone \in Tokens
        /\ InReg(reg) = InReg(mem) \ {gone} /\ gone \in InReg(mem)
    BY <2>1, <2>2, NilAssumption DEF Registries, OneName, InReg
  <2> HIDE DEF reg, gone
  <2>4. /\ \A c \in Copies' : c \in Copies \cup {reg}
        /\ o = "saved" => \A c \in Copies' : c = reg
        /\ primary' = NoFile => primary = NoFile
        /\ backup' = NoFile => backup = NoFile
        /\ up' \in BOOLEAN /\ mem' \in Registries
        /\ primary' \in Registries \cup {NoFile, Damaged}
        /\ backup' \in Registries \cup {NoFile, Damaged}
        /\ ~up' => mem' = Empty
    BY <2>1, <2>3, Saving DEF EnrollInv
  <2>5. Made' = Made /\ InReg(mem) \subseteq Made
    BY <2>1, <2>2 DEF Made, EnrollInv, CopiesMade
  <2>6. \A t \in revoked : t \notin InReg(mem)
    BY <2>2 DEF EnrollInv, CopiesClean
  <2>7. \A t \in revoked' : t \notin InReg(reg)
    BY <2>1, <2>3, <2>6
  <2>8. \A c \in Copies' : c # reg => \A t \in revoked' : t \notin InReg(c)
    BY <2>1, <2>4 DEF EnrollInv, CopiesClean
  <2>9. ASSUME NEW w \in Workers, ident'[w] \notin asked' \cup {Nil}
        PROVE  /\ ident'[w] \in InReg(reg)
               /\ \A c \in Copies' : c # reg => ident'[w] \in InReg(c)
    <3>1. ident[w] \notin asked \cup {Nil} /\ ident[w] # gone /\ ident' = ident
      BY <2>1, <2>9
    <3>2. \A c \in Copies : ident[w] \in InReg(c)
      BY <3>1 DEF EnrollInv, CopiesComplete
    <3> QED
      BY <2>2, <2>3, <2>4, <3>1, <3>2
  <2>10. CopiesComplete' /\ CopiesClean' /\ CopiesUnique' /\ CopiesMade'
    BY <2>3, <2>4, <2>5, <2>7, <2>8, <2>9, CopiesStep
  <2>11. asked' \subseteq Made'
    BY <2>1, <2>3, <2>5 DEF EnrollInv
  <2>12. Unspent' /\ InviteUsedOnce'
    BY <2>1, InvitesStep DEF EnrollInv, EnrollTypeOK
  <2>13. FilesFirst'
    BY <2>1, <2>4, FilesStep DEF EnrollInv
  <2>14. invites' \in [Invites -> WorkerNames \cup {Nil, "unknown"}] /\ asked' \subseteq Tokens
         /\ revoked' \subseteq asked'
    BY <2>1, <2>3 DEF EnrollInv, EnrollTypeOK
  <2>15. EnrollTypeOK'
    BY <2>1, <2>4, <2>14 DEF EnrollInv, EnrollTypeOK
  <2> QED
    BY <2>4, <2>10, <2>11, <2>12, <2>13, <2>15 DEF EnrollInv
<1>4. ASSUME NEW n \in WorkerNames, NEW m \in WorkerNames, NEW o \in Outcomes, RegistryRename(n, m, o)
      PROVE  EnrollInv'
  <2> DEFINE reg == Moved(n, m)
  <2>1. /\ up /\ mem[m] = Nil /\ mem[n] # Nil /\ Save(reg, o)
        /\ invites' = (IF up' THEN invites ELSE [i \in Invites |-> "unknown"])
        /\ UNCHANGED <<ident, phase, invite, owner, source, asked, revoked, damage>>
    BY <1>4 DEF RegistryRename, KeepInvites
  <2>2. mem \in Copies /\ mem \in Registries /\ OneName(mem)
    BY <2>1 DEF EnrollInv, EnrollTypeOK, Copies, CopiesUnique
  <2>3. /\ n # m /\ reg \in Registries /\ reg[n] = Nil /\ reg[m] = mem[n]
        /\ \A k \in WorkerNames \ {n, m} : reg[k] = mem[k]
    BY <2>1, <2>2 DEF Moved, Registries
  <2> HIDE DEF reg
  <2>4. OneName(reg)
    BY <2>1, <2>2, <2>3 DEF OneName
  <2>5. InReg(reg) = InReg(mem)
    <3>1. ASSUME NEW t \in InReg(mem) PROVE t \in InReg(reg)
      BY <2>1, <2>3, NilAssumption DEF InReg
    <3>2. ASSUME NEW t \in InReg(reg) PROVE t \in InReg(mem)
      BY <2>1, <2>3, NilAssumption DEF InReg
    <3> QED
      BY <3>1, <3>2
  <2>6. CopiesComplete' /\ CopiesClean' /\ CopiesUnique' /\ CopiesMade' /\ asked' \subseteq Made'
    BY <2>1, <2>2, <2>3, <2>4, <2>5, SameTokens
  <2> QED
    BY <2>1, <2>3, <2>6, Kept DEF EnrollInv, EnrollTypeOK
<1> QED
  BY <1>1, <1>2, <1>3, <1>4

(* A step of a worker, or of time, that the registry does not take part in. *)
LEMMA WorkerOnly ==
  ASSUME EnrollInv, UNCHANGED <<controller, history, invites>>,
         ident' \in [Workers -> Tokens \cup {Nil}], \A w \in Workers : ident'[w] \in {ident[w], Nil},
         phase' \in [Workers -> Phases], invite' \in [Workers -> Invites \cup {Nil}]
  PROVE  EnrollInv'
<1> USE DEF controller, history
<1>1. \A c \in Copies' : c \in Copies
  BY DEF Copies
<1>2. CopiesComplete' /\ CopiesClean' /\ CopiesUnique' /\ CopiesMade' /\ asked' \subseteq Made'
  BY <1>1, NothingNew
<1>3. FilesFirst'
  BY FilesStep DEF EnrollInv
<1>4. Unspent' /\ InviteUsedOnce'
  BY InvitesStep
<1>5. EnrollTypeOK'
  BY DEF EnrollInv, EnrollTypeOK
<1> QED
  BY <1>2, <1>3, <1>4, <1>5 DEF EnrollInv

LEMMA StepOfWorker ==
  ASSUME EnrollInv, NEW w \in Workers,
         \/ \E i \in Invites \cup {Nil} : StartWorker(w, i)
         \/ StopWorker(w) \/ NoInvite(w) \/ RegisterRefused(w)
         \/ ResumeUnknown(w) \/ PollUnknown(w)
  PROVE  EnrollInv'
<1> USE DEF EnrollInv, EnrollTypeOK, Phases
<1>1. ASSUME NEW i \in Invites \cup {Nil}, StartWorker(w, i) PROVE EnrollInv'
  BY <1>1, WorkerOnly DEF StartWorker
<1>2. CASE StopWorker(w)
  BY <1>2, WorkerOnly DEF StopWorker
<1>3. CASE NoInvite(w)
  BY <1>3, WorkerOnly DEF NoInvite
<1>4. CASE RegisterRefused(w)
  BY <1>4, WorkerOnly DEF RegisterRefused
<1>5. CASE ResumeUnknown(w)
  BY <1>5, WorkerOnly DEF ResumeUnknown, DropIdentity
<1>6. CASE PollUnknown(w)
  BY <1>6, WorkerOnly DEF PollUnknown
<1> QED
  BY <1>1, <1>2, <1>3, <1>4, <1>5, <1>6

LEMMA StepOfResume ==
  ASSUME EnrollInv, NEW w \in Workers, NEW o \in Outcomes, ResumeKnown(w, o) \/ PollKnown(w, o)
  PROVE  EnrollInv'
<1>1. /\ up /\ Save(mem, o)
      /\ invites' \in {invites, [i \in Invites |-> "unknown"]}
      /\ UNCHANGED <<invite, owner, source, asked, revoked, damage>>
  BY DEF ResumeKnown, PollKnown, KeepInvites, worker, history
<1>2. /\ ident' \in [Workers -> Tokens \cup {Nil}] /\ phase' \in [Workers -> Phases]
      /\ \A v \in Workers : ident'[v] \in {ident[v], Nil}
  BY DEF ResumeKnown, PollKnown, DropIdentity, EnrollInv, EnrollTypeOK, Phases, worker
<1>3. mem \in Copies /\ mem \in Registries /\ OneName(mem)
  BY <1>1 DEF EnrollInv, EnrollTypeOK, Copies, CopiesUnique
<1>4. CopiesComplete' /\ CopiesClean' /\ CopiesUnique' /\ CopiesMade' /\ asked' \subseteq Made'
  BY <1>1, <1>2, <1>3, SameTokens
<1> QED
  BY <1>1, <1>2, <1>3, <1>4, Kept

(* A registration: the token is new, and so is its invite's use.           *)
LEMMA StepOfRegister ==
  ASSUME EnrollInv, NEW w \in Workers, NEW n \in WorkerNames, NEW t \in Tokens, NEW o \in Outcomes,
         RegisterAccepted(w, n, t, o)
  PROVE  EnrollInv'
<1> DEFINE reg == [mem EXCEPT ![n] = t]
           i == invite[w]
<1>1. /\ up /\ i # Nil /\ Known(i) /\ mem[n] = Nil /\ owner[t] = Nil /\ Save(reg, o)
      /\ invites' \in {[invites EXCEPT ![i] = "unknown"], [k \in Invites |-> "unknown"]}
      /\ owner' = [owner EXCEPT ![t] = w] /\ source' = [source EXCEPT ![t] = i]
      /\ UNCHANGED <<invite, asked, revoked, damage>>
  BY DEF RegisterAccepted, KeepInvites, Consumed
<1>2. /\ ident' = ident \/ (o = "saved" /\ ident' = [ident EXCEPT ![w] = t])
      /\ phase' \in [Workers -> Phases]
  BY DEF RegisterAccepted, EnrollInv, EnrollTypeOK, Phases
<1>3. mem \in Copies /\ mem \in Registries /\ OneName(mem) /\ i \in Invites
  BY <1>1 DEF EnrollInv, EnrollTypeOK, Copies, CopiesUnique
<1>4. InReg(mem) \subseteq Made /\ t \notin Made
  BY <1>1, <1>3 DEF EnrollInv, CopiesMade, Made
<1>5. Made' = Made \cup {t}
  BY <1>1, NilAssumption DEF Made, EnrollInv, EnrollTypeOK
<1>6. reg \in Registries /\ reg[n] = t /\ \A k \in WorkerNames \ {n} : reg[k] = mem[k]
  BY <1>3 DEF Registries
<1> HIDE DEF reg, i
<1>7. InReg(reg) = InReg(mem) \cup {t}
  <2>1. ASSUME NEW u \in InReg(mem) PROVE u \in InReg(reg)
    BY <1>1, <1>6, NilAssumption DEF InReg
  <2>2. ASSUME NEW u \in InReg(reg) PROVE u \in InReg(mem) \cup {t}
    BY <1>6 DEF InReg
  <2>3. t \in InReg(reg)
    BY <1>6 DEF InReg
  <2> QED
    BY <2>1, <2>2, <2>3
<1>8. OneName(reg)
  <2> SUFFICES ASSUME NEW k \in WorkerNames, NEW m \in WorkerNames, k # m, reg[k] # Nil
               PROVE  reg[k] # reg[m]
    BY DEF OneName
  <2>1. \A l \in WorkerNames : mem[l] # t
    BY <1>4 DEF InReg
  <2> QED
    BY <1>3, <1>6, <2>1 DEF OneName
<1>9. /\ \A c \in Copies' : c \in Copies \cup {reg}
      /\ o = "saved" => /\ primary' = reg /\ backup' = reg
                        /\ \A c \in Copies' : c = reg
      /\ primary' = NoFile => primary = NoFile
      /\ backup' = NoFile => backup = NoFile
      /\ up' \in BOOLEAN /\ mem' \in Registries
      /\ primary' \in Registries \cup {NoFile, Damaged}
      /\ backup' \in Registries \cup {NoFile, Damaged}
      /\ ~up' => mem' = Empty
  BY <1>1, <1>6, Saving DEF EnrollInv
<1>10. /\ \A u \in revoked' : u \notin InReg(reg)
       /\ \A c \in Copies' : c # reg => \A u \in revoked' : u \notin InReg(c)
  <2>1. revoked \subseteq Made
    BY DEF EnrollInv, EnrollTypeOK
  <2> QED
    BY <1>1, <1>3, <1>4, <1>7, <1>9, <2>1 DEF EnrollInv, CopiesClean
<1>11. ASSUME NEW v \in Workers, ident'[v] \notin asked' \cup {Nil}
       PROVE  /\ ident'[v] \in InReg(reg)
              /\ \A c \in Copies' : c # reg => ident'[v] \in InReg(c)
  <2>1. CASE ident' = ident
    <3>1. \A c \in Copies : ident'[v] \in InReg(c)
      BY <1>1, <1>11, <2>1 DEF EnrollInv, CopiesComplete
    <3> QED
      BY <1>3, <1>7, <1>9, <3>1
  <2>2. CASE o = "saved" /\ ident' = [ident EXCEPT ![w] = t]
    <3>1. CASE v = w
      BY <1>7, <1>9, <2>2, <3>1 DEF EnrollInv, EnrollTypeOK
    <3>2. CASE v # w
      <4>1. ident'[v] = ident[v]
        BY <2>2, <3>2 DEF EnrollInv, EnrollTypeOK
      <4>2. ident[v] \in InReg(mem)
        BY <1>1, <1>3, <1>11, <4>1 DEF EnrollInv, CopiesComplete
      <4> QED
        BY <1>7, <1>9, <2>2, <4>1, <4>2
    <3> QED
      BY <3>1, <3>2
  <2> QED
    BY <1>2, <2>1, <2>2
<1>12. CopiesComplete' /\ CopiesClean' /\ CopiesUnique' /\ CopiesMade'
  <2>1. InReg(reg) \subseteq Made' /\ Made \subseteq Made'
    BY <1>4, <1>5, <1>7
  <2> QED
    BY <1>6, <1>8, <1>9, <1>10, <1>11, <2>1, CopiesStep
<1>13. asked' \subseteq Made'
  BY <1>1, <1>5 DEF EnrollInv
<1>14. FilesFirst'
  <2>1. reg # NoFile
    BY <1>6, FilesAssumption DEF Registries
  <2>2. CASE ident' = ident
    BY <1>9, <2>2 DEF EnrollInv, FilesFirst
  <2>3. CASE o = "saved"
    BY <1>9, <2>1, <2>3 DEF FilesFirst
  <2> QED
    BY <1>2, <2>2, <2>3
<1>15. Unspent' /\ InviteUsedOnce'
  <2>1. /\ source'[t] = i /\ \A u \in Tokens \ {t} : source'[u] = source[u]
        /\ \A u \in Tokens : source[u] # i
    BY <1>1, <1>3 DEF EnrollInv, EnrollTypeOK, Unspent
  <2>2. invites'[i] = "unknown" /\ \A k \in Invites : invites'[k] \in {invites[k], "unknown"}
    BY <1>1, <1>3 DEF EnrollInv, EnrollTypeOK
  <2>3. Unspent'
    BY <2>1, <2>2 DEF EnrollInv, Unspent, Known
  <2>4. InviteUsedOnce'
    BY <2>1 DEF EnrollInv, InviteUsedOnce
  <2> QED
    BY <2>3, <2>4
<1>16. EnrollTypeOK'
  <2>1. /\ invites' \in [Invites -> WorkerNames \cup {Nil, "unknown"}]
        /\ owner' \in [Tokens -> Workers \cup {Nil}] /\ source' \in [Tokens -> Invites \cup {Nil}]
    BY <1>1, <1>3 DEF EnrollInv, EnrollTypeOK
  <2>2. ident' \in [Workers -> Tokens \cup {Nil}]
    BY <1>2 DEF EnrollInv, EnrollTypeOK
  <2> QED
    BY <1>1, <1>2, <1>9, <2>1, <2>2 DEF EnrollInv, EnrollTypeOK
<1> QED
  BY <1>9, <1>12, <1>13, <1>14, <1>15, <1>16 DEF EnrollInv

(* The process ends and starts again, from whatever files are left.        *)
LEMMA StepOfProcess ==
  ASSUME EnrollInv, Crash \/ DamageFile \/ BootPrimary \/ BootEmpty \/ \E o \in Outcomes : BootBackup(o)
  PROVE  EnrollInv'
<1> USE DEF worker, history
<1>1. ASSUME \A c \in Copies' : c \in Copies, primary' = NoFile => primary = NoFile,
             backup' = NoFile => backup = NoFile, ~up' => mem' = Empty,
             UNCHANGED <<ident, phase, invite, owner, source, asked, revoked>>, damage' \in Nat,
             up' \in BOOLEAN, mem' \in Registries,
             primary' \in Registries \cup {NoFile, Damaged},
             backup' \in Registries \cup {NoFile, Damaged},
             invites' \in {invites, [i \in Invites |-> "unknown"]}
      PROVE  EnrollInv'
  <2>1. CopiesComplete' /\ CopiesClean' /\ CopiesUnique' /\ CopiesMade' /\ asked' \subseteq Made'
    BY <1>1, NothingNew
  <2>2. FilesFirst'
    BY <1>1, FilesStep DEF EnrollInv
  <2>3. invites' \in [Invites -> WorkerNames \cup {Nil, "unknown"}]
        /\ \A i \in Invites : invites'[i] \in {invites[i], "unknown"}
    BY <1>1 DEF EnrollInv, EnrollTypeOK
  <2>4. Unspent' /\ InviteUsedOnce'
    BY <1>1, <2>3, InvitesStep
  <2>5. EnrollTypeOK'
    BY <1>1, <2>3 DEF EnrollInv, EnrollTypeOK
  <2> QED
    BY <1>1, <2>1, <2>2, <2>4, <2>5 DEF EnrollInv
<1>2. CASE Crash
  <2>1. \A c \in Copies' : c \in Copies
    BY <1>2 DEF Crash, Copies
  <2> QED
    BY <1>1, <1>2, <2>1, EmptyRegistry DEF Crash, KeepInvites, EnrollInv, EnrollTypeOK
<1>3. CASE DamageFile
  <2>1. \A c \in Copies' : c \in Copies
    BY <1>3 DEF DamageFile, Copies, Readable
  <2>2. (primary' = NoFile => primary = NoFile) /\ (backup' = NoFile => backup = NoFile)
    BY <1>3, FilesAssumption DEF DamageFile
  <2> QED
    BY <1>1, <1>3, <2>1, <2>2 DEF DamageFile, EnrollInv, EnrollTypeOK
<1>4. CASE BootPrimary
  <2>1. \A c \in Copies' : c \in Copies
    BY <1>4 DEF BootPrimary, Copies
  <2>2. primary \in Registries
    BY <1>4 DEF BootPrimary, Readable, EnrollInv, EnrollTypeOK
  <2> QED
    BY <1>1, <1>4, <2>1, <2>2 DEF BootPrimary, EnrollInv, EnrollTypeOK
<1>5. CASE BootEmpty
  <2>1. /\ up' = TRUE /\ mem' = Empty /\ Copies' = {Empty}
        /\ UNCHANGED <<primary, backup, invites, ident, phase, invite, owner, source, asked, revoked, damage>>
    BY <1>5 DEF BootEmpty, Copies, Readable
  <2>2. \A w \in Workers : ident[w] = Nil
    BY <1>5 DEF BootEmpty, EnrollInv, FilesFirst
  <2>3. Made' = Made
    BY <2>1 DEF Made
  <2>4. CopiesComplete' /\ CopiesClean' /\ CopiesUnique' /\ CopiesMade'
    <3> SUFFICES ASSUME NEW c \in Copies'
                 PROVE  /\ OneName(c) /\ InReg(c) \subseteq Made'
                        /\ \A t \in revoked' : t \notin InReg(c)
                        /\ \A w \in Workers : ident'[w] \notin asked' \cup {Nil} => ident'[w] \in InReg(c)
      BY DEF CopiesComplete, CopiesClean, CopiesUnique, CopiesMade, OneName, InReg
    <3>1. c = Empty
      BY <2>1
    <3> QED
      BY <2>1, <2>2, <3>1, EmptyRegistry
  <2>5. FilesFirst' /\ Unspent' /\ InviteUsedOnce'
    BY <2>1, FilesStep, InvitesStep DEF EnrollInv
  <2>6. EnrollTypeOK'
    BY <2>1, EmptyRegistry DEF EnrollInv, EnrollTypeOK
  <2> QED
    BY <2>1, <2>3, <2>4, <2>5, <2>6 DEF EnrollInv
<1>6. ASSUME NEW o \in Outcomes, BootBackup(o) PROVE EnrollInv'
  <2>1. backup \in Copies /\ backup \in Registries /\ OneName(backup)
    BY <1>6 DEF BootBackup, Readable, Copies, EnrollInv, EnrollTypeOK, CopiesUnique
  <2>2. Save(backup, o) /\ UNCHANGED <<invites, ident, phase, invite, owner, source, asked, revoked, damage>>
    BY <1>6 DEF BootBackup
  <2>3. CopiesComplete' /\ CopiesClean' /\ CopiesUnique' /\ CopiesMade' /\ asked' \subseteq Made'
    BY <2>1, <2>2, SameTokens
  <2> QED
    BY <2>1, <2>2, <2>3, Kept DEF EnrollInv, EnrollTypeOK
<1> QED
  BY <1>2, <1>3, <1>4, <1>5, <1>6

-----------------------------------------------------------------------------
LEMMA InvariantStep == EnrollInv /\ [EnrollNext]_enrollVars => EnrollInv'
<1> SUFFICES ASSUME EnrollInv, [EnrollNext]_enrollVars PROVE EnrollInv'
  OBVIOUS
<1>1. CASE UNCHANGED enrollVars
  BY <1>1, WorkerOnly DEF enrollVars, worker, EnrollInv, EnrollTypeOK
<1> QED
  BY <1>1, StepOfAdmin, StepOfWorker, StepOfResume, StepOfRegister, StepOfProcess DEF EnrollNext

(* Identities nobody asked to revoke survive, confirmed revocations are    *)
(* final, an invite enrolls one worker and a token has one name, through   *)
(* every crash, failed write, recovery from the backup, lost answer and    *)
(* repeated request.                                                       *)
THEOREM EnrollmentTheorem == EnrollSpec => []EnrollmentSound
<1>1. EnrollSpec => []EnrollInv
  BY InvariantInit, InvariantStep, PTL DEF EnrollSpec
<1> QED
  BY <1>1, InvariantImplies, PTL

(***************************************************************************)
(* The worker's service on its host. The invariant speaks of the processes *)
(* one by one (ProcFine) and of the runtimes by what is kept of them       *)
(* (KeptRuntimes), which no step makes smaller: what a kill takes away is  *)
(* counted among the runtimes that were cut.                               *)
(***************************************************************************)

RuntimeStates == {"none", "bare", "whole"}
ProcPlaces == {"none", "locking", "heir", "working", "installing", "installed", "replacing",
               "leaving"}
InstallPlaces == {"none", "locked", "moved", "placed"}
CommandPlaces == {"none", "fetch", "installing", "launcher", "unit", "enable", "restart"}
CommandOps == {"none", "install", "update"}
Profiled == WorkerProfiles \cup {0}
Digested == Digests \cup {0}
Installers == WorkerProcs \cup {0, Command}
Runners == WorkerProcs \cup {0}
WorkerProcesses ==
  [at : ProcPlaces, profile : Profiled, digest : Digested, managed : BOOLEAN, service : BOOLEAN]
Installs == [by : Installers, digest : Digested, force : BOOLEAN, pc : InstallPlaces]
Launchers == [profile : Profiled, digest : Digested]
ServiceStates == [unit : Profiled, on : BOOLEAN, proc : Runners]
ServiceCommands ==
  [pc : CommandPlaces, op : CommandOps, profile : Profiled, flag : BOOLEAN,
   digest : Digested, ran : BOOLEAN, changed : BOOLEAN, count : Nat]

ServiceTyped ==
  /\ hostManager \in {"native", "none"}
  /\ runtimes \in [Digests -> RuntimeStates] /\ aside \in RuntimeStates
  /\ install \in Installs /\ profileOf \in [WorkerProfiles -> Digests]
  /\ launcher \in Launchers /\ svc \in ServiceStates
  /\ process \in [WorkerProcs -> WorkerProcesses]
  /\ runLock \in [WorkerProfiles -> Runners]
  /\ wanted \in Digests /\ command \in ServiceCommands

\* A runtime is kept that is whole, or of which the whole old one is aside, or whose
\* installation was killed.
KeptRuntimes ==
  {d \in Digests :
     \/ runtimes[d] = "whole" \/ d \in cut
     \/ install.pc \in {"moved", "placed"} /\ install.digest = d /\ aside = "whole"}

\* A process that is past its start holds the lock of its profile, an installing one and
\* no other that of the installation, and it names a runtime once it is kept.
ProcFine(m, w, locks, manager, installer, kept) ==
  /\ m.at \notin {"none", "locking", "heir"} => locks[m.profile] = w
  /\ m.at # "none" => m.profile \in WorkerProfiles
  /\ m.at = "none" => m.service = FALSE
  /\ m.service = TRUE => m.managed = TRUE
  /\ m.at = "leaving" => manager = "none"
  /\ installer = w => m.at = "installing"
  /\ m.at = "installed" => m.digest \in kept
ProcsFine ==
  \A w \in WorkerProcs : ProcFine(process[w], w, runLock, hostManager, install.by, KeptRuntimes)

InstallFine ==
  /\ install.by = 0 <=> install.pc = "none"
  /\ install.by # 0 => install.digest \in Digests
  /\ install.pc \in {"moved", "placed"} => runtimes[install.digest] # "whole"
  /\ install.by = Command => command.pc = "installing" /\ command.digest = install.digest

CommandFine ==
  /\ command.pc # "none" => command.profile \in WorkerProfiles
  /\ command.pc = "launcher" => command.digest \in KeptRuntimes

ServiceFine ==
  /\ svc.proc # 0 => process[svc.proc].service = TRUE
  /\ hostManager = "none" => svc.unit = 0 /\ svc.on = FALSE /\ svc.proc = 0 /\ command.pc = "none"

\* The launcher names a profile when it names a runtime.
LauncherFine == launcher.digest # 0 => launcher.profile \in WorkerProfiles

NamedKept ==
  /\ LauncherFine
  /\ \A p \in WorkerProfiles : profileOf[p] \in KeptRuntimes
  /\ launcher.digest # 0 => launcher.digest \in KeptRuntimes

ServiceInv ==
  ServiceTyped /\ InstallFine /\ CommandFine /\ ServiceFine /\ NamedKept /\ ProcsFine

(* The records, one field at a time.                                       *)
ProcAt(m, v) == [m EXCEPT !.at = v]
LEMMA ProcAtKeeps ==
  ASSUME NEW m \in WorkerProcesses, NEW v \in ProcPlaces
  PROVE  /\ ProcAt(m, v) \in WorkerProcesses /\ ProcAt(m, v).at = v
         /\ ProcAt(m, v).profile = m.profile
         /\ ProcAt(m, v).digest = m.digest
         /\ ProcAt(m, v).managed = m.managed
         /\ ProcAt(m, v).service = m.service
<1>1. PICK n : n = [m EXCEPT !.at = v] OBVIOUS
<1>2. n \in WorkerProcesses BY <1>1, SMT DEF WorkerProcesses
<1>3. n.at = v /\ n.profile = m.profile /\ n.digest = m.digest
      /\ n.managed = m.managed /\ n.service = m.service
  BY <1>1, <1>2, SMT DEF WorkerProcesses
<1>4. n = ProcAt(m, v) BY <1>1 DEF ProcAt
<1> QED BY <1>2, <1>3, <1>4

ProcDigest(m, v) == [m EXCEPT !.digest = v]
LEMMA ProcDigestKeeps ==
  ASSUME NEW m \in WorkerProcesses, NEW v \in Digested
  PROVE  /\ ProcDigest(m, v) \in WorkerProcesses /\ ProcDigest(m, v).digest = v
         /\ ProcDigest(m, v).at = m.at
         /\ ProcDigest(m, v).profile = m.profile
         /\ ProcDigest(m, v).managed = m.managed
         /\ ProcDigest(m, v).service = m.service
<1>1. PICK n : n = [m EXCEPT !.digest = v] OBVIOUS
<1>2. n \in WorkerProcesses BY <1>1, SMT DEF WorkerProcesses
<1>3. n.digest = v /\ n.at = m.at /\ n.profile = m.profile
      /\ n.managed = m.managed /\ n.service = m.service
  BY <1>1, <1>2, SMT DEF WorkerProcesses
<1>4. n = ProcDigest(m, v) BY <1>1 DEF ProcDigest
<1> QED BY <1>2, <1>3, <1>4

InstallPc(m, v) == [m EXCEPT !.pc = v]
LEMMA InstallPcKeeps ==
  ASSUME NEW m \in Installs, NEW v \in InstallPlaces
  PROVE  /\ InstallPc(m, v) \in Installs /\ InstallPc(m, v).pc = v
         /\ InstallPc(m, v).by = m.by
         /\ InstallPc(m, v).digest = m.digest
<1>1. PICK n : n = [m EXCEPT !.pc = v] OBVIOUS
<1>2. n \in Installs BY <1>1, SMT DEF Installs
<1>3. n.pc = v /\ n.by = m.by /\ n.digest = m.digest
  BY <1>1, <1>2, SMT DEF Installs
<1>4. n = InstallPc(m, v) BY <1>1 DEF InstallPc
<1> QED BY <1>2, <1>3, <1>4

SvcUnit(m, v) == [m EXCEPT !.unit = v]
LEMMA SvcUnitKeeps ==
  ASSUME NEW m \in ServiceStates, NEW v \in Profiled
  PROVE  /\ SvcUnit(m, v) \in ServiceStates /\ SvcUnit(m, v).unit = v
         /\ SvcUnit(m, v).proc = m.proc
<1>1. PICK n : n = [m EXCEPT !.unit = v] OBVIOUS
<1>2. n \in ServiceStates BY <1>1, SMT DEF ServiceStates
<1>3. n.unit = v /\ n.proc = m.proc
  BY <1>1, <1>2, SMT DEF ServiceStates
<1>4. n = SvcUnit(m, v) BY <1>1 DEF SvcUnit
<1> QED BY <1>2, <1>3, <1>4

SvcProc(m, v) == [m EXCEPT !.proc = v]
LEMMA SvcProcKeeps ==
  ASSUME NEW m \in ServiceStates, NEW v \in Runners
  PROVE  /\ SvcProc(m, v) \in ServiceStates /\ SvcProc(m, v).proc = v
         /\ SvcProc(m, v).unit = m.unit
         /\ SvcProc(m, v).on = m.on
<1>1. PICK n : n = [m EXCEPT !.proc = v] OBVIOUS
<1>2. n \in ServiceStates BY <1>1, SMT DEF ServiceStates
<1>3. n.proc = v /\ n.unit = m.unit /\ n.on = m.on
  BY <1>1, <1>2, SMT DEF ServiceStates
<1>4. n = SvcProc(m, v) BY <1>1 DEF SvcProc
<1> QED BY <1>2, <1>3, <1>4

SvcOn(m, v) == [m EXCEPT !.on = v]
LEMMA SvcOnKeeps ==
  ASSUME NEW m \in ServiceStates, NEW v \in BOOLEAN
  PROVE  /\ SvcOn(m, v) \in ServiceStates
         /\ SvcOn(m, v).unit = m.unit
         /\ SvcOn(m, v).proc = m.proc
<1>1. PICK n : n = [m EXCEPT !.on = v] OBVIOUS
<1>2. n \in ServiceStates BY <1>1, SMT DEF ServiceStates
<1>3. n.unit = m.unit /\ n.proc = m.proc
  BY <1>1, <1>2, SMT DEF ServiceStates
<1>4. n = SvcOn(m, v) BY <1>1 DEF SvcOn
<1> QED BY <1>2, <1>3, <1>4

CmdPc(m, v) == [m EXCEPT !.pc = v]
LEMMA CmdPcKeeps ==
  ASSUME NEW m \in ServiceCommands, NEW v \in CommandPlaces
  PROVE  /\ CmdPc(m, v) \in ServiceCommands /\ CmdPc(m, v).pc = v
         /\ CmdPc(m, v).profile = m.profile
         /\ CmdPc(m, v).digest = m.digest
<1>1. PICK n : n = [m EXCEPT !.pc = v] OBVIOUS
<1>2. n \in ServiceCommands BY <1>1, SMT DEF ServiceCommands
<1>3. n.pc = v /\ n.profile = m.profile /\ n.digest = m.digest
  BY <1>1, <1>2, SMT DEF ServiceCommands
<1>4. n = CmdPc(m, v) BY <1>1 DEF CmdPc
<1> QED BY <1>2, <1>3, <1>4

CmdDigest(m, v) == [m EXCEPT !.digest = v]
LEMMA CmdDigestKeeps ==
  ASSUME NEW m \in ServiceCommands, NEW v \in Digested
  PROVE  /\ CmdDigest(m, v) \in ServiceCommands /\ CmdDigest(m, v).digest = v
         /\ CmdDigest(m, v).pc = m.pc
         /\ CmdDigest(m, v).profile = m.profile
<1>1. PICK n : n = [m EXCEPT !.digest = v] OBVIOUS
<1>2. n \in ServiceCommands BY <1>1, SMT DEF ServiceCommands
<1>3. n.digest = v /\ n.pc = m.pc /\ n.profile = m.profile
  BY <1>1, <1>2, SMT DEF ServiceCommands
<1>4. n = CmdDigest(m, v) BY <1>1 DEF CmdDigest
<1> QED BY <1>2, <1>3, <1>4

CmdRan(m, v) == [m EXCEPT !.ran = v]
LEMMA CmdRanKeeps ==
  ASSUME NEW m \in ServiceCommands, NEW v \in BOOLEAN
  PROVE  /\ CmdRan(m, v) \in ServiceCommands
         /\ CmdRan(m, v).pc = m.pc
         /\ CmdRan(m, v).profile = m.profile
         /\ CmdRan(m, v).digest = m.digest
<1>1. PICK n : n = [m EXCEPT !.ran = v] OBVIOUS
<1>2. n \in ServiceCommands BY <1>1, SMT DEF ServiceCommands
<1>3. n.pc = m.pc /\ n.profile = m.profile /\ n.digest = m.digest
  BY <1>1, <1>2, SMT DEF ServiceCommands
<1>4. n = CmdRan(m, v) BY <1>1 DEF CmdRan
<1> QED BY <1>2, <1>3, <1>4

CmdChanged(m, v) == [m EXCEPT !.changed = v]
LEMMA CmdChangedKeeps ==
  ASSUME NEW m \in ServiceCommands, NEW v \in BOOLEAN
  PROVE  /\ CmdChanged(m, v) \in ServiceCommands
         /\ CmdChanged(m, v).pc = m.pc
         /\ CmdChanged(m, v).profile = m.profile
         /\ CmdChanged(m, v).digest = m.digest
<1>1. PICK n : n = [m EXCEPT !.changed = v] OBVIOUS
<1>2. n \in ServiceCommands BY <1>1, SMT DEF ServiceCommands
<1>3. n.pc = m.pc /\ n.profile = m.profile /\ n.digest = m.digest
  BY <1>1, <1>2, SMT DEF ServiceCommands
<1>4. n = CmdChanged(m, v) BY <1>1 DEF CmdChanged
<1> QED BY <1>2, <1>3, <1>4

CmdCount(m, v) == [m EXCEPT !.count = v]
LEMMA CmdCountKeeps ==
  ASSUME NEW m \in ServiceCommands, NEW v \in Nat
  PROVE  /\ CmdCount(m, v) \in ServiceCommands
         /\ CmdCount(m, v).pc = m.pc
         /\ CmdCount(m, v).profile = m.profile
         /\ CmdCount(m, v).digest = m.digest
<1>1. PICK n : n = [m EXCEPT !.count = v] OBVIOUS
<1>2. n \in ServiceCommands BY <1>1, SMT DEF ServiceCommands
<1>3. n.pc = m.pc /\ n.profile = m.profile /\ n.digest = m.digest
  BY <1>1, <1>2, SMT DEF ServiceCommands
<1>4. n = CmdCount(m, v) BY <1>1 DEF CmdCount
<1> QED BY <1>2, <1>3, <1>4

LEMMA ServiceConstants ==
  /\ 0 \notin WorkerProfiles /\ 0 \notin Digests /\ 0 \notin WorkerProcs /\ 1 \in Digests
  /\ Command \notin WorkerProcs /\ Command # 0
  /\ \A d \in Digests : d \in Digested
BY WorkerServiceAssumption DEF WorkerServiceAssumption, Digests, WorkerProcs, Command, Digested

LEMMA EmptyRecords ==
  /\ NoWorkerProc \in WorkerProcesses /\ NoWorkerProc.at = "none" /\ NoWorkerProc.service = FALSE
  /\ NoInstall \in Installs /\ NoInstall.by = 0 /\ NoInstall.pc = "none"
  /\ NoCommand \in ServiceCommands /\ NoCommand.pc = "none"
<1>1. PICK no \in BOOLEAN : no = FALSE OBVIOUS
<1>2. NoWorkerProc \in WorkerProcesses /\ NoWorkerProc.at = "none" /\ NoWorkerProc.service = FALSE
  <2>1. PICK n : n = [at |-> "none", profile |-> 0, digest |-> 0, managed |-> no, service |-> no]
    OBVIOUS
  <2>2. n \in WorkerProcesses BY <2>1 DEF WorkerProcesses, ProcPlaces, Profiled, Digested
  <2>3. n = NoWorkerProc BY <1>1, <2>1 DEF NoWorkerProc
  <2> QED BY <1>1, <2>1, <2>2, <2>3
<1>3. NoInstall \in Installs /\ NoInstall.by = 0 /\ NoInstall.pc = "none"
  <2>1. PICK n : n = [by |-> 0, digest |-> 0, force |-> no, pc |-> "none"] OBVIOUS
  <2>2. n \in Installs BY <2>1 DEF Installs, Installers, Digested, InstallPlaces
  <2>3. n = NoInstall BY <1>1, <2>1 DEF NoInstall
  <2> QED BY <2>1, <2>2, <2>3
<1>4. NoCommand \in ServiceCommands /\ NoCommand.pc = "none"
  <2>1. PICK n : n = [pc |-> "none", op |-> "none", profile |-> 0, flag |-> no, digest |-> 0,
                      ran |-> no, changed |-> no, count |-> 0]
    OBVIOUS
  <2>2. n \in ServiceCommands
    BY <2>1 DEF ServiceCommands, CommandPlaces, CommandOps, Profiled, Digested
  <2>3. n = NoCommand BY <1>1, <2>1 DEF NoCommand
  <2> QED BY <2>1, <2>2, <2>3
<1> QED BY <1>2, <1>3, <1>4

\* What the files and the installation become: as they were, but for the installation.
LEMMA SameDisk ==
  ASSUME UNCHANGED diskVars
  PROVE  /\ KeptRuntimes' = KeptRuntimes /\ install' = install /\ runtimes' = runtimes
         /\ aside' = aside
BY DEF diskVars, KeptRuntimes

LEMMA BeginInstallKeeps ==
  ASSUME ServiceInv, NEW a \in WorkerProcs \cup {Command}, NEW forced \in BOOLEAN,
         BeginInstall(a, wanted, forced), UNCHANGED <<runtimes, aside, cut>>
  PROVE  /\ KeptRuntimes \subseteq KeptRuntimes' /\ install' \in Installs
         /\ install'.by = a /\ install'.digest = wanted /\ install'.pc = "locked"
<1>1. ServiceTyped /\ InstallFine BY DEF ServiceInv
<1>2. wanted \in Digested BY <1>1, ServiceConstants DEF ServiceTyped
<1>3. install.pc = "none" BY <1>1 DEF BeginInstall, InstallFine
<1>4. install' = [by |-> a, digest |-> wanted, force |-> forced, pc |-> "locked"]
  BY DEF BeginInstall
<1>5. KeptRuntimes \subseteq KeptRuntimes' BY <1>3 DEF KeptRuntimes
<1>6. install' \in Installs BY <1>2, <1>4 DEF Installs, Installers, InstallPlaces
<1> QED BY <1>4, <1>5, <1>6

LEMMA EndInstallKeeps ==
  ASSUME ServiceInv, install.by # 0, EndInstall
  PROVE  /\ KeptRuntimes \subseteq KeptRuntimes' /\ install' = NoInstall /\ aside' \in RuntimeStates
         /\ runtimes' \in [Digests -> RuntimeStates] /\ install.digest \in KeptRuntimes'
<1>1. ServiceTyped /\ InstallFine BY DEF ServiceInv
<1>2. install.digest \in Digests BY <1>1 DEF InstallFine
<1>3. install' = NoInstall /\ runtimes' = [runtimes EXCEPT ![install.digest] = "whole"]
      /\ aside' = "none" /\ cut' = cut \ {install.digest}
  BY DEF EndInstall
<1>4. runtimes \in [Digests -> RuntimeStates] BY <1>1 DEF ServiceTyped
<1>5. "whole" \in RuntimeStates /\ "none" \in RuntimeStates BY DEF RuntimeStates
<1>6. runtimes' \in [Digests -> RuntimeStates] /\ runtimes'[install.digest] = "whole"
      /\ \A d \in Digests : d # install.digest => runtimes'[d] = runtimes[d]
  BY <1>2, <1>3, <1>4, <1>5
<1>7. KeptRuntimes \subseteq KeptRuntimes' /\ install.digest \in KeptRuntimes'
  BY <1>2, <1>3, <1>6 DEF KeptRuntimes
<1> QED BY <1>3, <1>5, <1>6, <1>7

LEMMA FailInstallKeeps ==
  ASSUME ServiceInv, install.by # 0, FailInstall
  PROVE  /\ KeptRuntimes \subseteq KeptRuntimes' /\ install' = NoInstall /\ aside' \in RuntimeStates
         /\ runtimes' \in [Digests -> RuntimeStates]
<1>1. ServiceTyped /\ InstallFine BY DEF ServiceInv
<1>2. install.digest \in Digests /\ install.pc # "none" BY <1>1 DEF InstallFine
<1>3. /\ install' = NoInstall /\ aside' = "none" /\ cut' = cut
      /\ runtimes' = IF install.pc = "locked" THEN runtimes
                     ELSE [runtimes EXCEPT ![install.digest] = aside]
  BY DEF FailInstall, RolledBack
<1>4. runtimes \in [Digests -> RuntimeStates] /\ aside \in RuntimeStates BY <1>1 DEF ServiceTyped
<1>5. "none" \in RuntimeStates BY DEF RuntimeStates
<1>6. runtimes' \in [Digests -> RuntimeStates] BY <1>2, <1>3, <1>4
<1>7. KeptRuntimes \subseteq KeptRuntimes'
  <2>1. CASE install.pc = "locked" BY <1>3, <2>1 DEF KeptRuntimes
  <2>2. CASE install.pc # "locked"
    <3>1. runtimes'[install.digest] = aside
          /\ \A d \in Digests : d # install.digest => runtimes'[d] = runtimes[d]
      BY <1>2, <1>3, <1>4, <2>2
    <3>2. CASE aside = "whole" BY <1>2, <1>3, <3>1, <3>2 DEF KeptRuntimes
    <3>3. CASE aside # "whole"
      <4> SUFFICES ASSUME NEW d \in KeptRuntimes PROVE d \in KeptRuntimes' OBVIOUS
      <4>1. d \in Digests /\ (runtimes[d] = "whole" \/ d \in cut) BY <3>3 DEF KeptRuntimes
      <4>2. install.pc \in {"moved", "placed"}
        <5>1. install.pc \in InstallPlaces BY <1>1, SMT DEF ServiceTyped, Installs
        <5> QED BY <1>2, <2>2, <5>1 DEF InstallPlaces
      <4>3. runtimes[install.digest] # "whole" BY <1>1, <4>2 DEF InstallFine
      <4> QED BY <1>3, <3>1, <4>1, <4>3 DEF KeptRuntimes
    <3> QED BY <3>2, <3>3
  <2> QED BY <2>1, <2>2
<1> QED BY <1>3, <1>5, <1>6, <1>7

LockTaken(w) ==
  \E p \in WorkerProfiles : runLock[p] = 0 /\ runLock' = [runLock EXCEPT ![p] = w]

\* A process of its own moves; what it may take on its way is the lock of its profile,
\* when that is free, and the installation, when that is.
LEMMA OthersFine ==
  ASSUME ServiceInv, NEW w \in WorkerProcs,
         \A q \in WorkerProcs \ {w} : process'[q] = process[q],
         \/ runLock' = runLock
         \/ LockTaken(w),
         install'.by \in {install.by, 0, w, Command}, hostManager' = hostManager,
         KeptRuntimes \subseteq KeptRuntimes'
  PROVE  \A q \in WorkerProcs \ {w} :
           ProcFine(process'[q], q, runLock', hostManager', install'.by, KeptRuntimes')
<1> SUFFICES ASSUME NEW q \in WorkerProcs \ {w}
             PROVE  ProcFine(process'[q], q, runLock', hostManager', install'.by, KeptRuntimes')
  OBVIOUS
<1>1. ServiceTyped /\ ProcsFine BY DEF ServiceInv
<1>2. ProcFine(process[q], q, runLock, hostManager, install.by, KeptRuntimes) BY <1>1 DEF ProcsFine
<1>3. process[q].at \notin {"none", "locking", "heir"} => runLock'[process[q].profile] = q
  <2>1. runLock \in [WorkerProfiles -> Runners] /\ q # 0
    BY <1>1, ServiceConstants DEF ServiceTyped
  <2>2. process[q].at # "none" => process[q].profile \in WorkerProfiles BY <1>2 DEF ProcFine
  <2> QED BY <1>2, <2>1, <2>2 DEF ProcFine, LockTaken
<1>4. q # 0 /\ q # Command BY ServiceConstants
<1>5. process'[q] = process[q] OBVIOUS
<1>6. install'.by = q => install.by = q BY <1>4
<1> QED BY <1>2, <1>3, <1>5, <1>6 DEF ProcFine

LEMMA InstallMovesKeeps ==
  ASSUME ServiceInv, MoveAway \/ PutInPlace
  PROVE  /\ KeptRuntimes \subseteq KeptRuntimes' /\ install' \in Installs
         /\ install'.by = install.by /\ install'.digest = install.digest /\ install'.pc # "none"
         /\ install.pc # "none"
         /\ runtimes' \in [Digests -> RuntimeStates] /\ aside' \in RuntimeStates
         /\ runtimes'[install.digest] # "whole"
<1>1. ServiceTyped /\ InstallFine BY DEF ServiceInv
<1>2. install.pc # "none" BY DEF MoveAway, PutInPlace
<1>3. install.digest \in Digests BY <1>1, <1>2 DEF InstallFine
<1>4. /\ runtimes \in [Digests -> RuntimeStates] /\ install \in Installs
      /\ {"none", "bare"} \subseteq RuntimeStates /\ {"moved", "placed"} \subseteq InstallPlaces
  BY <1>1 DEF ServiceTyped, RuntimeStates, InstallPlaces
<1>5. CASE MoveAway
  <2>1. /\ install.pc = "locked" /\ aside' = runtimes[install.digest] /\ cut' = cut
        /\ runtimes' = [runtimes EXCEPT ![install.digest] = "none"]
    BY <1>5 DEF MoveAway
  <2>2. install' = InstallPc(install, "moved") BY <1>5 DEF MoveAway, InstallPc
  <2>3. /\ install' \in Installs /\ install'.by = install.by /\ install'.digest = install.digest
        /\ install'.pc = "moved"
    BY <1>4, <2>2, InstallPcKeeps
  <2>4. /\ runtimes' \in [Digests -> RuntimeStates] /\ runtimes'[install.digest] = "none"
        /\ aside' \in RuntimeStates
        /\ \A d \in Digests : d # install.digest => runtimes'[d] = runtimes[d]
    BY <1>3, <1>4, <2>1
  <2>5. KeptRuntimes \subseteq KeptRuntimes' BY <1>3, <2>1, <2>3, <2>4 DEF KeptRuntimes
  <2> QED BY <1>2, <2>3, <2>4, <2>5
<1>6. CASE PutInPlace
  <2>1. /\ install.pc = "moved" /\ aside' = aside /\ cut' = cut
        /\ runtimes' = [runtimes EXCEPT ![install.digest] = "bare"]
    BY <1>6 DEF PutInPlace
  <2>2. install' = InstallPc(install, "placed") BY <1>6 DEF PutInPlace, InstallPc
  <2>3. /\ install' \in Installs /\ install'.by = install.by /\ install'.digest = install.digest
        /\ install'.pc = "placed"
    BY <1>4, <2>2, InstallPcKeeps
  <2>4. /\ runtimes' \in [Digests -> RuntimeStates] /\ runtimes'[install.digest] = "bare"
        /\ \A d \in Digests : d # install.digest => runtimes'[d] = runtimes[d]
    BY <1>3, <1>4, <2>1
  <2>5. runtimes[install.digest] # "whole" BY <1>1, <2>1 DEF InstallFine
  <2>6. KeptRuntimes \subseteq KeptRuntimes' BY <1>3, <2>1, <2>3, <2>4, <2>5 DEF KeptRuntimes
  <2>7. aside' \in RuntimeStates BY <1>1, <2>1 DEF ServiceTyped
  <2> QED BY <1>2, <2>3, <2>4, <2>6, <2>7
<1> QED BY <1>5, <1>6

\* What processes leave when they are killed, and a command.
LEMMA KilledKeeps ==
  ASSUME ServiceInv, NEW dead, Killed(dead), UNCHANGED <<hostManager, runtimes>>
  PROVE  /\ KeptRuntimes \subseteq KeptRuntimes' /\ install' \in Installs /\ aside' \in RuntimeStates
         /\ process' \in [WorkerProcs -> WorkerProcesses] /\ runLock' \in [WorkerProfiles -> Runners]
         /\ install' = install \/ install' = NoInstall
         /\ install.by \in dead => install' = NoInstall
         /\ \A q \in WorkerProcs : q \notin dead => process'[q] = process[q]
         /\ ProcsFine'
<1>1. ServiceTyped /\ InstallFine /\ ProcsFine BY DEF ServiceInv
<1>2. /\ process' = [w \in WorkerProcs |-> IF w \in dead THEN NoWorkerProc ELSE process[w]]
      /\ runLock' = [p \in WorkerProfiles |-> IF runLock[p] \in dead THEN 0 ELSE runLock[p]]
      /\ IF install.by \in dead
           THEN /\ install' = NoInstall /\ aside' = "none"
                /\ cut' = IF install.pc = "locked" THEN cut ELSE cut \cup {install.digest}
           ELSE install' = install /\ aside' = aside /\ cut' = cut
  BY DEF Killed, Without
<1>3. /\ process \in [WorkerProcs -> WorkerProcesses] /\ runLock \in [WorkerProfiles -> Runners]
      /\ install \in Installs /\ aside \in RuntimeStates
  BY <1>1 DEF ServiceTyped
<1>4. process' \in [WorkerProcs -> WorkerProcesses]
      /\ \A q \in WorkerProcs : process'[q] = IF q \in dead THEN NoWorkerProc ELSE process[q]
  BY <1>2, <1>3, EmptyRecords
<1>5. runLock' \in [WorkerProfiles -> Runners]
      /\ \A p \in WorkerProfiles : runLock'[p] = IF runLock[p] \in dead THEN 0 ELSE runLock[p]
  BY <1>2, <1>3 DEF Runners
<1>6. install' \in Installs /\ aside' \in RuntimeStates
  BY <1>2, <1>3, EmptyRecords DEF RuntimeStates
<1>7. KeptRuntimes \subseteq KeptRuntimes'
  <2>1. install.pc \in InstallPlaces BY <1>3, SMT DEF Installs
  <2>2. CASE install.by \in dead BY <1>2, <2>1, <2>2 DEF KeptRuntimes, InstallPlaces
  <2>3. CASE install.by \notin dead BY <1>2, <2>3 DEF KeptRuntimes
  <2> QED BY <2>2, <2>3
<1>8. ProcsFine'
  <2> SUFFICES ASSUME NEW q \in WorkerProcs
               PROVE  ProcFine(process'[q], q, runLock', hostManager', install'.by, KeptRuntimes')
    BY DEF ProcsFine
  <2>1. ProcFine(process[q], q, runLock, hostManager, install.by, KeptRuntimes)
    BY <1>1 DEF ProcsFine
  <2>2. q # 0 BY ServiceConstants
  <2>3. install'.by = q => install.by = q /\ q \notin dead
    <3>1. CASE install.by \in dead BY <1>2, <2>2, <3>1, EmptyRecords
    <3>2. CASE install.by \notin dead BY <1>2, <3>2
    <3> QED BY <3>1, <3>2
  <2>4. CASE q \in dead BY <1>4, <2>3, <2>4, EmptyRecords DEF ProcFine
  <2>5. CASE q \notin dead
    <3>1. process'[q] = process[q] BY <1>4, <2>5
    <3>2. process[q].at \notin {"none", "locking", "heir"} => runLock'[process[q].profile] = q
      BY <1>5, <2>1, <2>5 DEF ProcFine
    <3> QED BY <1>7, <2>1, <2>3, <3>1, <3>2 DEF ProcFine
  <2> QED BY <2>4, <2>5
<1> QED BY <1>2, <1>4, <1>5, <1>6, <1>7, <1>8

LEMMA ServiceFacts ==
  ASSUME ServiceInv
  PROVE  /\ hostManager \in {"native", "none"}
         /\ runtimes \in [Digests -> RuntimeStates] /\ aside \in RuntimeStates
         /\ install \in Installs /\ profileOf \in [WorkerProfiles -> Digests]
         /\ launcher \in Launchers /\ svc \in ServiceStates
         /\ process \in [WorkerProcs -> WorkerProcesses]
         /\ runLock \in [WorkerProfiles -> Runners]
         /\ wanted \in Digests /\ command \in ServiceCommands
         /\ InstallFine /\ CommandFine /\ ServiceFine /\ NamedKept /\ ProcsFine
BY DEF ServiceInv, ServiceTyped

LEMMA ProcMoves ==
  ASSUME ServiceInv, NEW w \in WorkerProcs, NEW n \in WorkerProcesses,
         process' = [process EXCEPT ![w] = n],
         \/ runLock' = runLock
         \/ LockTaken(w),
         install'.by \in {install.by, 0, w, Command}, hostManager' = hostManager,
         KeptRuntimes \subseteq KeptRuntimes',
         ProcFine(n, w, runLock', hostManager, install'.by, KeptRuntimes')
  PROVE  /\ process' \in [WorkerProcs -> WorkerProcesses] /\ process'[w] = n
         /\ \A q \in WorkerProcs \ {w} : process'[q] = process[q]
         /\ runLock' \in [WorkerProfiles -> Runners]
         /\ ProcsFine'
<1>1. process \in [WorkerProcs -> WorkerProcesses] /\ runLock \in [WorkerProfiles -> Runners]
  BY ServiceFacts
<1>2. process' \in [WorkerProcs -> WorkerProcesses] /\ process'[w] = n
      /\ \A q \in WorkerProcs \ {w} : process'[q] = process[q]
  BY <1>1
<1>3. runLock' \in [WorkerProfiles -> Runners] BY <1>1 DEF Runners, LockTaken
<1>4. \A q \in WorkerProcs \ {w} :
        ProcFine(process'[q], q, runLock', hostManager', install'.by, KeptRuntimes')
  BY <1>2, OthersFine
<1>5. ProcsFine' BY <1>2, <1>4 DEF ProcsFine
<1> QED BY <1>2, <1>3, <1>5

\* A process starts: by hand, or for the service.
LEMMA StartStep ==
  ASSUME ServiceInv, NEW w \in WorkerProcs,
         (\E p \in WorkerProfiles, marked \in BOOLEAN : StartByHand(w, p, marked))
           \/ StartService(w)
  PROVE  ServiceInv'
<1>1. /\ svc \in ServiceStates /\ process \in [WorkerProcs -> WorkerProcesses]
      /\ profileOf \in [WorkerProfiles -> Digests] /\ launcher \in Launchers
      /\ ServiceTyped /\ InstallFine /\ CommandFine /\ ServiceFine /\ NamedKept /\ ProcsFine
  BY ServiceFacts DEF ServiceInv
<1>2. /\ process[w].at = "none"
      /\ UNCHANGED <<hostManager, diskVars, profileOf, launcher, runLock, wanted, command>>
  BY DEF StartByHand, StartService, FreeSlot, ProcIs
<1>3. /\ KeptRuntimes' = KeptRuntimes /\ install' = install /\ runtimes' = runtimes /\ aside' = aside
  BY <1>2, SameDisk
<1>4. ProcFine(process[w], w, runLock, hostManager, install.by, KeptRuntimes) /\ w # 0
  BY <1>1, ServiceConstants DEF ProcsFine
<1>5. process[w].service = FALSE /\ install.by # w BY <1>2, <1>4 DEF ProcFine
<1>6. svc.proc # w BY <1>1, <1>4, <1>5 DEF ServiceFine
<1>7. PICK yes \in BOOLEAN, no \in BOOLEAN : yes = TRUE /\ no = FALSE OBVIOUS
<1>8. PICK n \in WorkerProcesses :
        /\ process' = [process EXCEPT ![w] = n] /\ n.at = "locking" /\ n.profile \in WorkerProfiles
        /\ \/ n.service = FALSE /\ svc' = svc
           \/ /\ n.service = TRUE /\ n.managed = TRUE /\ svc.on = TRUE
              /\ svc' = [svc EXCEPT !.proc = w]
  <2>1. CASE \E p \in WorkerProfiles, marked \in BOOLEAN : StartByHand(w, p, marked)
    <3>1. PICK p \in WorkerProfiles, marked \in BOOLEAN : StartByHand(w, p, marked) BY <2>1
    <3>2. PICK d \in Digests : d = profileOf[p] BY <1>1
    <3>3. PICK n : n = [at |-> "locking", profile |-> p, digest |-> d, managed |-> marked,
                        service |-> no]
      OBVIOUS
    <3>4. n \in WorkerProcesses
      BY <3>3 DEF WorkerProcesses, ProcPlaces, Profiled, Digested
    <3>5. process' = [process EXCEPT ![w] = n] /\ svc' = svc
      BY <1>7, <3>1, <3>2, <3>3 DEF StartByHand
    <3>6. n.at = "locking" /\ n.profile = p /\ n.service = FALSE BY <1>7, <3>3
    <3> QED BY <3>4, <3>5, <3>6
  <2>2. CASE StartService(w)
    <3>1. launcher.digest # 0 /\ svc.on BY <2>2 DEF StartService
    <3>2. svc.on \in BOOLEAN /\ launcher.profile \in Profiled /\ launcher.digest \in Digested
      <4>1. svc.on \in BOOLEAN BY <1>1, SMT DEF ServiceStates
      <4>2. launcher.profile \in Profiled /\ launcher.digest \in Digested
        BY <1>1, SMT DEF Launchers
      <4> QED BY <4>1, <4>2
    <3>3. PICK p \in Profiled, d \in Digested : p = launcher.profile /\ d = launcher.digest
      BY <3>2
    <3>4. PICK n : n = [at |-> "locking", profile |-> p, digest |-> d, managed |-> yes,
                        service |-> yes]
      OBVIOUS
    <3>5. n \in WorkerProcesses BY <3>4 DEF WorkerProcesses, ProcPlaces
    <3>6. process' = [process EXCEPT ![w] = n] /\ svc' = [svc EXCEPT !.proc = w]
      BY <1>7, <2>2, <3>3, <3>4 DEF StartService
    <3>7. n.at = "locking" /\ n.profile = p /\ n.service = TRUE /\ n.managed = TRUE
      BY <1>7, <3>4
    <3>8. p \in WorkerProfiles BY <1>1, <3>1, <3>2, <3>3 DEF NamedKept, LauncherFine
    <3> QED BY <3>1, <3>2, <3>5, <3>6, <3>7, <3>8
  <2> QED BY <2>1, <2>2
<1>9. ProcFine(n, w, runLock', hostManager, install'.by, KeptRuntimes')
  BY <1>3, <1>5, <1>8 DEF ProcFine
<1>10. /\ process' \in [WorkerProcs -> WorkerProcesses] /\ process'[w] = n
       /\ \A q \in WorkerProcs \ {w} : process'[q] = process[q]
       /\ runLock' \in [WorkerProfiles -> Runners] /\ ProcsFine'
  BY <1>2, <1>3, <1>8, <1>9, ProcMoves
<1>11. svc' \in ServiceStates /\ ServiceFine'
  <2>1. svc.proc \in Runners BY <1>1, SMT DEF ServiceStates
  <2>2. CASE svc' = svc BY <1>1, <1>2, <1>6, <1>10, <2>1, <2>2 DEF ServiceFine, Runners
  <2>3. CASE n.service = TRUE /\ svc.on = TRUE /\ svc' = [svc EXCEPT !.proc = w]
    <3>1. w \in Runners BY DEF Runners
    <3>2. svc' = SvcProc(svc, w) BY <2>3 DEF SvcProc
    <3>3. svc' \in ServiceStates /\ svc'.proc = w /\ svc'.on = svc.on BY <1>1, <3>1, <3>2, SvcProcKeeps
    <3>4. hostManager # "none" BY <1>1, <2>3 DEF ServiceFine
    <3> QED BY <1>2, <1>10, <2>3, <3>3, <3>4 DEF ServiceFine
  <2> QED BY <1>1, <1>8, <2>2, <2>3
<1>12. InstallFine' /\ CommandFine' /\ NamedKept'
  BY <1>1, <1>2, <1>3 DEF InstallFine, CommandFine, NamedKept, LauncherFine
<1>13. ServiceTyped' BY <1>1, <1>2, <1>3, <1>10, <1>11 DEF ServiceTyped
<1> QED BY <1>10, <1>11, <1>12, <1>13 DEF ServiceInv

\* The service's process is of the service, and a process keeps that flag.
LEMMA SameService ==
  ASSUME ServiceInv, NEW w \in WorkerProcs, process'[w].service = process[w].service,
         \A q \in WorkerProcs \ {w} : process'[q] = process[q],
         UNCHANGED <<svc, hostManager, command>>
  PROVE  ServiceFine'
<1>1. svc \in ServiceStates /\ ServiceFine BY ServiceFacts
<1>2. svc.proc \in Runners BY <1>1, SMT DEF ServiceStates
<1> QED BY <1>1, <1>2 DEF ServiceFine, Runners

LEMMA TakeRunLockStep ==
  ASSUME ServiceInv, NEW w \in WorkerProcs, TakeRunLock(w)
  PROVE  ServiceInv'
<1>1. /\ svc \in ServiceStates /\ process \in [WorkerProcs -> WorkerProcesses]
      /\ profileOf \in [WorkerProfiles -> Digests] /\ launcher \in Launchers
      /\ install \in Installs /\ command \in ServiceCommands /\ wanted \in Digests
      /\ runLock \in [WorkerProfiles -> Runners] /\ hostManager \in {"native", "none"}
      /\ ServiceTyped /\ InstallFine /\ CommandFine /\ ServiceFine /\ NamedKept /\ ProcsFine
  BY ServiceFacts DEF ServiceInv
<1>2. /\ process[w].at \in {"locking", "heir"} /\ runLock[process[w].profile] = 0
      /\ runLock' = [runLock EXCEPT ![process[w].profile] = w]
      /\ process' = [process EXCEPT ![w].at = "working"]
      /\ UNCHANGED <<hostManager, diskVars, profileOf, launcher, svc, wanted, command>>
  BY DEF TakeRunLock, ProcGoes
<1>3. /\ KeptRuntimes' = KeptRuntimes /\ install' = install /\ runtimes' = runtimes /\ aside' = aside
  BY <1>2, SameDisk
<1>4. ProcFine(process[w], w, runLock, hostManager, install.by, KeptRuntimes)
  BY <1>1 DEF ProcsFine
<1>5. PICK p \in WorkerProfiles : p = process[w].profile BY <1>2, <1>4 DEF ProcFine
<1>6. "working" \in ProcPlaces BY DEF ProcPlaces
<1>7. PICK n \in WorkerProcesses :
        /\ n = ProcAt(process[w], "working") /\ n.at = "working" /\ n.profile = p
        /\ n.service = process[w].service /\ n.managed = process[w].managed
  BY <1>1, <1>5, <1>6, ProcAtKeeps
<1>8. process' = [process EXCEPT ![w] = n] BY <1>1, <1>2, <1>7, Zenon DEF ProcAt
<1>9. runLock[p] = 0 /\ runLock' = [runLock EXCEPT ![p] = w] /\ runLock'[p] = w
  BY <1>1, <1>2, <1>5
<1>10. ProcFine(n, w, runLock', hostManager, install'.by, KeptRuntimes')
  BY <1>2, <1>3, <1>4, <1>7, <1>9 DEF ProcFine
<1>15. LockTaken(w) BY <1>9 DEF LockTaken
<1>11. /\ process' \in [WorkerProcs -> WorkerProcesses] /\ process'[w] = n
       /\ \A q \in WorkerProcs \ {w} : process'[q] = process[q]
       /\ runLock' \in [WorkerProfiles -> Runners] /\ ProcsFine'
  BY <1>2, <1>3, <1>8, <1>10, <1>15, ProcMoves
<1>12. ServiceFine' BY <1>2, <1>7, <1>11, SameService
<1>13. InstallFine' /\ CommandFine' /\ NamedKept'
  BY <1>1, <1>2, <1>3 DEF InstallFine, CommandFine, NamedKept, LauncherFine
<1>14. ServiceTyped' BY <1>1, <1>2, <1>3, <1>11 DEF ServiceTyped
<1> QED BY <1>11, <1>12, <1>13, <1>14 DEF ServiceInv

LEMMA BindLauncherStep ==
  ASSUME ServiceInv, NEW w \in WorkerProcs, BindLauncher(w)
  PROVE  ServiceInv'
<1>1. /\ svc \in ServiceStates /\ process \in [WorkerProcs -> WorkerProcesses]
      /\ profileOf \in [WorkerProfiles -> Digests] /\ launcher \in Launchers
      /\ install \in Installs /\ command \in ServiceCommands /\ wanted \in Digests
      /\ runLock \in [WorkerProfiles -> Runners] /\ hostManager \in {"native", "none"}
      /\ ServiceTyped /\ InstallFine /\ CommandFine /\ ServiceFine /\ NamedKept /\ ProcsFine
  BY ServiceFacts DEF ServiceInv
<1>2. /\ process[w].at = "installed" /\ process' = [process EXCEPT ![w].at = "replacing"]
      /\ \/ launcher' = [profile |-> process[w].profile, digest |-> process[w].digest]
         \/ launcher' = launcher
      /\ UNCHANGED <<hostManager, diskVars, profileOf, svc, runLock, wanted, command>>
  BY DEF BindLauncher, ProcGoes, ProcIs
<1>3. /\ KeptRuntimes' = KeptRuntimes /\ install' = install /\ runtimes' = runtimes /\ aside' = aside
  BY <1>2, SameDisk
<1>4. ProcFine(process[w], w, runLock, hostManager, install.by, KeptRuntimes)
  BY <1>1 DEF ProcsFine
<1>5. process[w].profile \in WorkerProfiles /\ process[w].digest \in KeptRuntimes
  BY <1>2, <1>4 DEF ProcFine
<1>6. "replacing" \in ProcPlaces BY DEF ProcPlaces
<1>7. PICK n \in WorkerProcesses :
        /\ n = ProcAt(process[w], "replacing") /\ n.at = "replacing"
        /\ n.profile = process[w].profile
        /\ n.service = process[w].service /\ n.managed = process[w].managed
  BY <1>1, <1>6, ProcAtKeeps
<1>8. process' = [process EXCEPT ![w] = n] BY <1>1, <1>2, <1>7, Zenon DEF ProcAt
<1>9. ProcFine(n, w, runLock', hostManager, install'.by, KeptRuntimes')
  BY <1>2, <1>3, <1>4, <1>7 DEF ProcFine
<1>10. /\ process' \in [WorkerProcs -> WorkerProcesses] /\ process'[w] = n
       /\ \A q \in WorkerProcs \ {w} : process'[q] = process[q]
       /\ runLock' \in [WorkerProfiles -> Runners] /\ ProcsFine'
  BY <1>2, <1>3, <1>8, <1>9, ProcMoves
<1>11. ServiceFine' BY <1>2, <1>7, <1>10, SameService
<1>12. launcher' \in Launchers /\ LauncherFine'
       /\ (launcher'.digest # 0 => launcher'.digest \in KeptRuntimes)
  <2>1. CASE launcher' = launcher BY <1>1, <2>1 DEF NamedKept, LauncherFine
  <2>2. CASE launcher' = [profile |-> process[w].profile, digest |-> process[w].digest]
    <3>1. KeptRuntimes \subseteq Digests BY DEF KeptRuntimes
    <3> QED BY <1>5, <2>2, <3>1 DEF Launchers, Profiled, Digested, LauncherFine
  <2> QED BY <1>2, <2>1, <2>2
<1>13. InstallFine' /\ CommandFine' /\ NamedKept'
  BY <1>1, <1>2, <1>3, <1>12 DEF InstallFine, CommandFine, NamedKept
<1>14. ServiceTyped' BY <1>1, <1>2, <1>3, <1>10, <1>12 DEF ServiceTyped
<1> QED BY <1>10, <1>11, <1>13, <1>14 DEF ServiceInv

LEMMA ReexecStep ==
  ASSUME ServiceInv, NEW w \in WorkerProcs, Reexec(w)
  PROVE  ServiceInv'
<1>1. /\ svc \in ServiceStates /\ process \in [WorkerProcs -> WorkerProcesses]
      /\ profileOf \in [WorkerProfiles -> Digests] /\ launcher \in Launchers
      /\ install \in Installs /\ command \in ServiceCommands /\ wanted \in Digests
      /\ runLock \in [WorkerProfiles -> Runners] /\ hostManager \in {"native", "none"}
      /\ ServiceTyped /\ InstallFine /\ CommandFine /\ ServiceFine /\ NamedKept /\ ProcsFine
  BY ServiceFacts DEF ServiceInv
<1>2. /\ process[w].at = "replacing"
      /\ UNCHANGED <<hostManager, diskVars, profileOf, launcher, svc, runLock, wanted, command>>
  BY DEF Reexec, ProcIs
<1>3. /\ KeptRuntimes' = KeptRuntimes /\ install' = install /\ runtimes' = runtimes /\ aside' = aside
  BY <1>2, SameDisk
<1>4. ProcFine(process[w], w, runLock, hostManager, install.by, KeptRuntimes)
  BY <1>1 DEF ProcsFine
<1>5. {"working", "leaving", "heir"} \subseteq ProcPlaces BY DEF ProcPlaces
<1>6. InstallFine' /\ CommandFine' /\ NamedKept'
  BY <1>1, <1>2, <1>3 DEF InstallFine, CommandFine, NamedKept, LauncherFine
<1>7. CASE hostManager = "none"
  <2>1. PICK heir \in WorkerProcs :
          /\ process[heir].at = "none"
          /\ process' = [process EXCEPT ![heir] = [process[w] EXCEPT !.at = "heir"],
                                        ![w].at = "leaving"]
    BY <1>7 DEF Reexec, HeirStarts, FreeSlot, ProcIs
  <2>2. heir # w BY <1>2, <2>1
  <2>3. PICK n \in WorkerProcesses :
          /\ n = ProcAt(process[w], "leaving") /\ n.at = "leaving"
          /\ n.profile = process[w].profile
          /\ n.service = process[w].service /\ n.managed = process[w].managed
    BY <1>1, <1>5, ProcAtKeeps
  <2>4. PICK m \in WorkerProcesses :
          /\ m = ProcAt(process[w], "heir") /\ m.at = "heir"
          /\ m.profile = process[w].profile
          /\ m.service = process[w].service /\ m.managed = process[w].managed
    BY <1>1, <1>5, ProcAtKeeps
  <2>5. process' = [[process EXCEPT ![heir] = m] EXCEPT ![w] = n]
    <3>1. process' = [process EXCEPT ![heir] = m, ![w].at = "leaving"]
      BY <2>1, <2>4, Zenon DEF ProcAt
    <3>2. PICK f : f = [process EXCEPT ![heir] = m] OBVIOUS
    <3>3. f[w] = process[w] /\ w \in DOMAIN f BY <1>1, <2>2, <3>2
    <3>4. process' = [f EXCEPT ![w] = [f[w] EXCEPT !.at = "leaving"]]
      BY <3>1, <3>2, <3>3, Zenon
    <3> QED BY <2>3, <3>2, <3>3, <3>4, Zenon DEF ProcAt
  <2>6. /\ process' \in [WorkerProcs -> WorkerProcesses] /\ process'[w] = n /\ process'[heir] = m
        /\ \A q \in WorkerProcs \ {w, heir} : process'[q] = process[q]
    BY <1>1, <2>2, <2>5
  <2>7. ProcFine(n, w, runLock, hostManager, install.by, KeptRuntimes)
    BY <1>2, <1>4, <1>7, <2>3 DEF ProcFine
  <2>8. ProcFine(process[heir], heir, runLock, hostManager, install.by, KeptRuntimes)
    BY <1>1 DEF ProcsFine
  <2>9. ProcFine(m, heir, runLock, hostManager, install.by, KeptRuntimes)
    BY <1>2, <1>4, <2>1, <2>4, <2>8 DEF ProcFine
  <2>10. ProcsFine'
    <3> SUFFICES ASSUME NEW q \in WorkerProcs
                 PROVE  ProcFine(process'[q], q, runLock', hostManager', install'.by, KeptRuntimes')
      BY DEF ProcsFine
    <3>1. ProcFine(process[q], q, runLock, hostManager, install.by, KeptRuntimes)
      BY <1>1 DEF ProcsFine
    <3>2. ProcFine(process'[q], q, runLock, hostManager, install.by, KeptRuntimes)
      BY <2>6, <2>7, <2>9, <3>1
    <3> QED BY <1>2, <1>3, <3>2
  <2>11. ServiceFine' BY <1>1, <1>2, <1>7 DEF ServiceFine
  <2>12. ServiceTyped' BY <1>1, <1>2, <1>3, <2>6 DEF ServiceTyped
  <2> QED BY <1>6, <2>10, <2>11, <2>12 DEF ServiceInv
<1>8. CASE hostManager # "none"
  <2>1. process' = [process EXCEPT ![w].at = "working"] BY <1>8 DEF Reexec, ProcGoes
  <2>2. PICK n \in WorkerProcesses :
          /\ n = ProcAt(process[w], "working") /\ n.at = "working"
          /\ n.profile = process[w].profile
          /\ n.service = process[w].service /\ n.managed = process[w].managed
    BY <1>1, <1>5, ProcAtKeeps
  <2>3. process' = [process EXCEPT ![w] = n] BY <1>1, <2>1, <2>2, Zenon DEF ProcAt
  <2>4. ProcFine(n, w, runLock', hostManager, install'.by, KeptRuntimes')
    BY <1>2, <1>3, <1>4, <2>2 DEF ProcFine
  <2>5. /\ process' \in [WorkerProcs -> WorkerProcesses] /\ process'[w] = n
        /\ \A q \in WorkerProcs \ {w} : process'[q] = process[q]
        /\ runLock' \in [WorkerProfiles -> Runners] /\ ProcsFine'
    BY <1>2, <1>3, <2>3, <2>4, ProcMoves
  <2>6. ServiceFine' BY <1>2, <2>2, <2>5, SameService
  <2>7. ServiceTyped' BY <1>1, <1>2, <1>3, <2>5 DEF ServiceTyped
  <2> QED BY <1>6, <2>5, <2>6, <2>7 DEF ServiceInv
<1> QED BY <1>7, <1>8

LEMMA ReexecFailsStep ==
  ASSUME ServiceInv, NEW w \in WorkerProcs, ReexecFails(w)
  PROVE  ServiceInv'
<1>1. /\ svc \in ServiceStates /\ process \in [WorkerProcs -> WorkerProcesses]
      /\ profileOf \in [WorkerProfiles -> Digests] /\ launcher \in Launchers
      /\ install \in Installs /\ command \in ServiceCommands /\ wanted \in Digests
      /\ runLock \in [WorkerProfiles -> Runners] /\ hostManager \in {"native", "none"}
      /\ ServiceTyped /\ InstallFine /\ CommandFine /\ ServiceFine /\ NamedKept /\ ProcsFine
  BY ServiceFacts DEF ServiceInv
<1>2. /\ process[w].at = "replacing"
      /\ process' = [process EXCEPT ![w].at = "working", ![w].digest = 0]
      /\ UNCHANGED <<hostManager, diskVars, profileOf, launcher, svc, runLock, wanted, command>>
  BY DEF ReexecFails, ProcIs
<1>3. /\ KeptRuntimes' = KeptRuntimes /\ install' = install /\ runtimes' = runtimes /\ aside' = aside
  BY <1>2, SameDisk
<1>4. ProcFine(process[w], w, runLock, hostManager, install.by, KeptRuntimes)
  BY <1>1 DEF ProcsFine
<1>5. "working" \in ProcPlaces /\ 0 \in Digested BY DEF ProcPlaces, Digested
<1>6. PICK u \in WorkerProcesses :
        /\ u = ProcAt(process[w], "working") /\ u.at = "working"
        /\ u.profile = process[w].profile
        /\ u.service = process[w].service /\ u.managed = process[w].managed
  BY <1>1, <1>5, ProcAtKeeps
<1>7. PICK n \in WorkerProcesses :
        /\ n = ProcDigest(u, 0) /\ n.at = u.at /\ n.profile = u.profile
        /\ n.service = u.service /\ n.managed = u.managed
  BY <1>5, <1>6, ProcDigestKeeps
<1>8. process' = [process EXCEPT ![w] = n]
  BY <1>1, <1>2, <1>6, <1>7, Zenon DEF ProcAt, ProcDigest
<1>9. ProcFine(n, w, runLock', hostManager, install'.by, KeptRuntimes')
  BY <1>2, <1>3, <1>4, <1>6, <1>7 DEF ProcFine
<1>10. /\ process' \in [WorkerProcs -> WorkerProcesses] /\ process'[w] = n
       /\ \A q \in WorkerProcs \ {w} : process'[q] = process[q]
       /\ runLock' \in [WorkerProfiles -> Runners] /\ ProcsFine'
  BY <1>2, <1>3, <1>8, <1>9, ProcMoves
<1>11. ServiceFine' BY <1>2, <1>6, <1>7, <1>10, SameService
<1>12. InstallFine' /\ CommandFine' /\ NamedKept'
  BY <1>1, <1>2, <1>3 DEF InstallFine, CommandFine, NamedKept, LauncherFine
<1>13. ServiceTyped' BY <1>1, <1>2, <1>3, <1>10 DEF ServiceTyped
<1> QED BY <1>10, <1>11, <1>12, <1>13 DEF ServiceInv

\* The processes when the installation and the files move on, but not they.
LEMMA StillFine ==
  ASSUME ServiceInv, UNCHANGED <<process, runLock, hostManager>>,
         KeptRuntimes \subseteq KeptRuntimes', install'.by \in {install.by, 0, Command}
  PROVE  ProcsFine'
<1> SUFFICES ASSUME NEW q \in WorkerProcs
             PROVE  ProcFine(process'[q], q, runLock', hostManager', install'.by, KeptRuntimes')
  BY DEF ProcsFine
<1>1. ProcsFine BY DEF ServiceInv
<1>2. ProcFine(process[q], q, runLock, hostManager, install.by, KeptRuntimes) BY <1>1 DEF ProcsFine
<1>3. q # 0 /\ q # Command BY ServiceConstants
<1>4. install'.by = q => install.by = q BY <1>3
<1> QED BY <1>2, <1>4 DEF ProcFine

LEMMA NamedStill ==
  ASSUME ServiceInv, UNCHANGED <<profileOf, launcher>>, KeptRuntimes \subseteq KeptRuntimes'
  PROVE  NamedKept'
BY DEF ServiceInv, NamedKept, LauncherFine

LEMMA CommandStill ==
  ASSUME ServiceInv, UNCHANGED command, KeptRuntimes \subseteq KeptRuntimes'
  PROVE  CommandFine'
BY DEF ServiceInv, CommandFine

LEMMA FreeInstall ==
  ASSUME install' = NoInstall
  PROVE  InstallFine' /\ install' \in Installs /\ install'.by = 0
BY EmptyRecords, ServiceConstants DEF InstallFine

LEMMA BeginUpgradeStep ==
  ASSUME ServiceInv, NEW w \in WorkerProcs, BeginUpgrade(w)
  PROVE  ServiceInv'
<1>1. /\ svc \in ServiceStates /\ process \in [WorkerProcs -> WorkerProcesses]
      /\ profileOf \in [WorkerProfiles -> Digests] /\ launcher \in Launchers
      /\ install \in Installs /\ command \in ServiceCommands /\ wanted \in Digests
      /\ runLock \in [WorkerProfiles -> Runners] /\ hostManager \in {"native", "none"}
      /\ ServiceTyped /\ InstallFine /\ CommandFine /\ ServiceFine /\ NamedKept /\ ProcsFine
  BY ServiceFacts DEF ServiceInv
<1>2. /\ process[w].at = "working" /\ process' = [process EXCEPT ![w].at = "installing"]
      /\ BeginInstall(w, wanted, FALSE)
      /\ UNCHANGED <<hostManager, runtimes, aside, cut, profileOf, launcher, svc, runLock, wanted,
                     command>>
  BY DEF BeginUpgrade, ProcGoes, ProcIs
<1>3. PICK no \in BOOLEAN : no = FALSE OBVIOUS
<1>4. BeginInstall(w, wanted, no) BY <1>2, <1>3, Zenon DEF BeginInstall
<1>5. /\ KeptRuntimes \subseteq KeptRuntimes' /\ install' \in Installs
      /\ install'.by = w /\ install'.digest = wanted /\ install'.pc = "locked"
  BY <1>2, <1>4, BeginInstallKeeps
<1>6. ProcFine(process[w], w, runLock, hostManager, install.by, KeptRuntimes)
  BY <1>1 DEF ProcsFine
<1>7. "installing" \in ProcPlaces BY DEF ProcPlaces
<1>8. PICK n \in WorkerProcesses :
        /\ n = ProcAt(process[w], "installing") /\ n.at = "installing"
        /\ n.profile = process[w].profile
        /\ n.service = process[w].service /\ n.managed = process[w].managed
  BY <1>1, <1>7, ProcAtKeeps
<1>9. process' = [process EXCEPT ![w] = n] BY <1>1, <1>2, <1>8, Zenon DEF ProcAt
<1>10. ProcFine(n, w, runLock', hostManager, install'.by, KeptRuntimes')
  BY <1>2, <1>6, <1>8 DEF ProcFine
<1>11. install'.by \in {install.by, 0, w, Command} BY <1>5
<1>12. /\ process' \in [WorkerProcs -> WorkerProcesses] /\ process'[w] = n
       /\ \A q \in WorkerProcs \ {w} : process'[q] = process[q]
       /\ runLock' \in [WorkerProfiles -> Runners] /\ ProcsFine'
  BY <1>2, <1>5, <1>9, <1>10, <1>11, ProcMoves
<1>13. ServiceFine' BY <1>2, <1>8, <1>12, SameService
<1>14. InstallFine'
  BY <1>1, <1>5, ServiceConstants DEF InstallFine
<1>15. NamedKept' /\ CommandFine' BY <1>2, <1>5, NamedStill, CommandStill
<1>16. ServiceTyped' BY <1>1, <1>2, <1>5, <1>12 DEF ServiceTyped
<1> QED BY <1>12, <1>13, <1>14, <1>15, <1>16 DEF ServiceInv

LEMMA EndUpgradeStep ==
  ASSUME ServiceInv, NEW w \in WorkerProcs, EndUpgrade(w)
  PROVE  ServiceInv'
<1>1. /\ svc \in ServiceStates /\ process \in [WorkerProcs -> WorkerProcesses]
      /\ profileOf \in [WorkerProfiles -> Digests] /\ launcher \in Launchers
      /\ install \in Installs /\ command \in ServiceCommands /\ wanted \in Digests
      /\ runLock \in [WorkerProfiles -> Runners] /\ hostManager \in {"native", "none"}
      /\ ServiceTyped /\ InstallFine /\ CommandFine /\ ServiceFine /\ NamedKept /\ ProcsFine
  BY ServiceFacts DEF ServiceInv
<1>2. /\ install.by = w /\ EndInstall
      /\ profileOf' = [profileOf EXCEPT ![process[w].profile] = install.digest]
      /\ process' = [process EXCEPT ![w].at = "installed", ![w].digest = install.digest]
      /\ UNCHANGED <<hostManager, launcher, svc, runLock, wanted, command>>
  BY DEF EndUpgrade
<1>3. install.by # 0 BY <1>2, ServiceConstants
<1>4. /\ KeptRuntimes \subseteq KeptRuntimes' /\ install' = NoInstall /\ aside' \in RuntimeStates
      /\ runtimes' \in [Digests -> RuntimeStates] /\ install.digest \in KeptRuntimes'
  BY <1>2, <1>3, EndInstallKeeps
<1>5. InstallFine' /\ install' \in Installs /\ install'.by = 0 BY <1>4, FreeInstall
<1>6. ProcFine(process[w], w, runLock, hostManager, install.by, KeptRuntimes)
  BY <1>1 DEF ProcsFine
<1>7. process[w].at = "installing" BY <1>2, <1>6 DEF ProcFine
<1>8. process[w].profile \in WorkerProfiles BY <1>6, <1>7 DEF ProcFine
<1>9. PICK d \in Digests : d = install.digest BY <1>1, <1>3 DEF InstallFine
<1>10. "installed" \in ProcPlaces /\ d \in Digested BY ServiceConstants DEF ProcPlaces
<1>11. PICK u \in WorkerProcesses :
        /\ u = ProcAt(process[w], "installed") /\ u.at = "installed"
        /\ u.profile = process[w].profile
        /\ u.service = process[w].service /\ u.managed = process[w].managed
  BY <1>1, <1>10, ProcAtKeeps
<1>12. PICK n \in WorkerProcesses :
        /\ n = ProcDigest(u, d) /\ n.at = u.at /\ n.profile = u.profile /\ n.digest = d
        /\ n.service = u.service /\ n.managed = u.managed
  BY <1>10, <1>11, ProcDigestKeeps
<1>13. process' = [process EXCEPT ![w] = n]
  BY <1>1, <1>2, <1>9, <1>11, <1>12, Zenon DEF ProcAt, ProcDigest
<1>14. ProcFine(n, w, runLock', hostManager, install'.by, KeptRuntimes')
  <2>1. n.digest \in KeptRuntimes' BY <1>4, <1>9, <1>12
  <2>2. w # 0 BY ServiceConstants
  <2> QED BY <1>2, <1>5, <1>6, <1>7, <1>11, <1>12, <2>1, <2>2 DEF ProcFine
<1>15. install'.by \in {install.by, 0, w, Command} BY <1>5
<1>16. /\ process' \in [WorkerProcs -> WorkerProcesses] /\ process'[w] = n
       /\ \A q \in WorkerProcs \ {w} : process'[q] = process[q]
       /\ runLock' \in [WorkerProfiles -> Runners] /\ ProcsFine'
  BY <1>2, <1>4, <1>13, <1>14, <1>15, ProcMoves
<1>17. ServiceFine' BY <1>2, <1>11, <1>12, <1>16, SameService
<1>18. profileOf' \in [WorkerProfiles -> Digests]
       /\ \A p \in WorkerProfiles : profileOf'[p] \in {install.digest, profileOf[p]}
  BY <1>1, <1>2, <1>8, <1>9
<1>19. NamedKept' BY <1>1, <1>2, <1>4, <1>18 DEF NamedKept, LauncherFine
<1>20. CommandFine' BY <1>2, <1>4, CommandStill
<1>21. ServiceTyped' BY <1>1, <1>2, <1>4, <1>5, <1>16, <1>18 DEF ServiceTyped
<1> QED BY <1>5, <1>16, <1>17, <1>19, <1>20, <1>21 DEF ServiceInv

LEMMA UpgradeFailsStep ==
  ASSUME ServiceInv, NEW w \in WorkerProcs, UpgradeFails(w)
  PROVE  ServiceInv'
<1>1. /\ svc \in ServiceStates /\ process \in [WorkerProcs -> WorkerProcesses]
      /\ profileOf \in [WorkerProfiles -> Digests] /\ launcher \in Launchers
      /\ install \in Installs /\ command \in ServiceCommands /\ wanted \in Digests
      /\ runLock \in [WorkerProfiles -> Runners] /\ hostManager \in {"native", "none"}
      /\ ServiceTyped /\ InstallFine /\ CommandFine /\ ServiceFine /\ NamedKept /\ ProcsFine
  BY ServiceFacts DEF ServiceInv
<1>2. /\ install.by = w /\ FailInstall /\ process' = [process EXCEPT ![w].at = "working"]
      /\ UNCHANGED <<hostManager, profileOf, launcher, svc, runLock, wanted, command>>
  BY DEF UpgradeFails, ProcGoes
<1>3. install.by # 0 BY <1>2, ServiceConstants
<1>4. /\ KeptRuntimes \subseteq KeptRuntimes' /\ install' = NoInstall /\ aside' \in RuntimeStates
      /\ runtimes' \in [Digests -> RuntimeStates]
  BY <1>2, <1>3, FailInstallKeeps
<1>5. InstallFine' /\ install' \in Installs /\ install'.by = 0 BY <1>4, FreeInstall
<1>6. ProcFine(process[w], w, runLock, hostManager, install.by, KeptRuntimes)
  BY <1>1 DEF ProcsFine
<1>7. "working" \in ProcPlaces BY DEF ProcPlaces
<1>8. PICK n \in WorkerProcesses :
        /\ n = ProcAt(process[w], "working") /\ n.at = "working"
        /\ n.profile = process[w].profile
        /\ n.service = process[w].service /\ n.managed = process[w].managed
  BY <1>1, <1>7, ProcAtKeeps
<1>9. process' = [process EXCEPT ![w] = n] BY <1>1, <1>2, <1>8, Zenon DEF ProcAt
<1>10. ProcFine(n, w, runLock', hostManager, install'.by, KeptRuntimes')
  <2>1. process[w].at = "installing" BY <1>2, <1>6 DEF ProcFine
  <2>2. w # 0 BY ServiceConstants
  <2> QED BY <1>2, <1>5, <1>6, <1>8, <2>1, <2>2 DEF ProcFine
<1>11. install'.by \in {install.by, 0, w, Command} BY <1>5
<1>12. /\ process' \in [WorkerProcs -> WorkerProcesses] /\ process'[w] = n
       /\ \A q \in WorkerProcs \ {w} : process'[q] = process[q]
       /\ runLock' \in [WorkerProfiles -> Runners] /\ ProcsFine'
  BY <1>2, <1>4, <1>9, <1>10, <1>11, ProcMoves
<1>13. ServiceFine' BY <1>2, <1>8, <1>12, SameService
<1>14. NamedKept' /\ CommandFine' BY <1>2, <1>4, NamedStill, CommandStill
<1>15. ServiceTyped' BY <1>1, <1>2, <1>4, <1>5, <1>12 DEF ServiceTyped
<1> QED BY <1>5, <1>12, <1>13, <1>14, <1>15 DEF ServiceInv

LEMMA InstallMovesStep ==
  ASSUME ServiceInv, InstallMoves
  PROVE  ServiceInv'
<1>1. /\ svc \in ServiceStates /\ process \in [WorkerProcs -> WorkerProcesses]
      /\ profileOf \in [WorkerProfiles -> Digests] /\ launcher \in Launchers
      /\ install \in Installs /\ command \in ServiceCommands /\ wanted \in Digests
      /\ runLock \in [WorkerProfiles -> Runners] /\ hostManager \in {"native", "none"}
      /\ ServiceTyped /\ InstallFine /\ CommandFine /\ ServiceFine /\ NamedKept /\ ProcsFine
  BY ServiceFacts DEF ServiceInv
<1>2. /\ MoveAway \/ PutInPlace
      /\ UNCHANGED <<hostManager, profileOf, launcher, svc, process, runLock, wanted, command>>
  BY DEF InstallMoves
<1>3. /\ KeptRuntimes \subseteq KeptRuntimes' /\ install' \in Installs
      /\ install'.by = install.by /\ install'.digest = install.digest /\ install'.pc # "none"
      /\ install.pc # "none"
      /\ runtimes' \in [Digests -> RuntimeStates] /\ aside' \in RuntimeStates
      /\ runtimes'[install.digest] # "whole"
  BY <1>2, InstallMovesKeeps
<1>4. ProcsFine' BY <1>2, <1>3, StillFine
<1>5. NamedKept' /\ CommandFine' BY <1>2, <1>3, NamedStill, CommandStill
<1>6. InstallFine' BY <1>1, <1>2, <1>3 DEF InstallFine
<1>7. ServiceFine' BY <1>1, <1>2 DEF ServiceFine
<1>8. ServiceTyped' BY <1>1, <1>2, <1>3 DEF ServiceTyped
<1> QED BY <1>4, <1>5, <1>6, <1>7, <1>8 DEF ServiceInv

LEMMA NewReleaseStep ==
  ASSUME ServiceInv, NewRelease
  PROVE  ServiceInv'
<1>1. /\ svc \in ServiceStates /\ process \in [WorkerProcs -> WorkerProcesses]
      /\ profileOf \in [WorkerProfiles -> Digests] /\ launcher \in Launchers
      /\ install \in Installs /\ command \in ServiceCommands /\ wanted \in Digests
      /\ runLock \in [WorkerProfiles -> Runners] /\ hostManager \in {"native", "none"}
      /\ ServiceTyped /\ InstallFine /\ CommandFine /\ ServiceFine /\ NamedKept /\ ProcsFine
  BY ServiceFacts DEF ServiceInv
<1>2. /\ wanted < MaxDigests /\ wanted' = wanted + 1
      /\ UNCHANGED <<hostManager, diskVars, profileOf, launcher, svc, process, runLock, command>>
  BY DEF NewRelease
<1>3. /\ KeptRuntimes' = KeptRuntimes /\ install' = install /\ runtimes' = runtimes /\ aside' = aside
  BY <1>2, SameDisk
<1>4. wanted' \in Digests BY <1>1, <1>2, WorkerServiceAssumption DEF WorkerServiceAssumption, Digests
<1>5. ProcsFine' BY <1>2, <1>3, StillFine
<1>6. NamedKept' /\ CommandFine' BY <1>2, <1>3, NamedStill, CommandStill
<1>7. InstallFine' /\ ServiceFine' BY <1>1, <1>2, <1>3 DEF InstallFine, ServiceFine
<1>8. ServiceTyped' BY <1>1, <1>2, <1>3, <1>4 DEF ServiceTyped
<1> QED BY <1>5, <1>6, <1>7, <1>8 DEF ServiceInv

LEMMA CommandEnded ==
  ASSUME command \in ServiceCommands
  PROVE  EndsCommand(command) \in ServiceCommands /\ EndsCommand(command).pc = "none"
<1>1. command.count \in Nat BY SMT DEF ServiceCommands
<1>2. EndsCommand(command) = CmdCount(NoCommand, command.count) BY DEF EndsCommand, CmdCount
<1> QED BY <1>1, <1>2, EmptyRecords, CmdCountKeeps

\* Processes are killed, and the command ends or stays.
LEMMA KilledRest ==
  ASSUME ServiceInv, NEW dead, Killed(dead),
         UNCHANGED <<hostManager, runtimes, profileOf, launcher, wanted>>,
         svc' \in ServiceStates, command' \in ServiceCommands, ServiceFine',
         command' = command \/ command'.pc = "none",
         command' = command \/ Command \in dead \/ install.by # Command
  PROVE  ServiceInv'
<1>1. /\ svc \in ServiceStates /\ process \in [WorkerProcs -> WorkerProcesses]
      /\ profileOf \in [WorkerProfiles -> Digests] /\ launcher \in Launchers
      /\ install \in Installs /\ command \in ServiceCommands /\ wanted \in Digests
      /\ runLock \in [WorkerProfiles -> Runners] /\ hostManager \in {"native", "none"}
      /\ ServiceTyped /\ InstallFine /\ CommandFine /\ ServiceFine /\ NamedKept /\ ProcsFine
  BY ServiceFacts DEF ServiceInv
<1>2. /\ KeptRuntimes \subseteq KeptRuntimes' /\ install' \in Installs /\ aside' \in RuntimeStates
      /\ process' \in [WorkerProcs -> WorkerProcesses] /\ runLock' \in [WorkerProfiles -> Runners]
      /\ install' = install \/ install' = NoInstall
      /\ install.by \in dead => install' = NoInstall
      /\ ProcsFine'
  BY KilledKeeps
<1>3. InstallFine'
  <2>1. CASE install' = NoInstall BY <2>1, FreeInstall
  <2>2. CASE install' = install /\ install' # NoInstall
    <3>1. command' = command \/ install.by # Command BY <1>2, <2>2
    <3> QED BY <1>1, <2>2, <3>1 DEF InstallFine
  <2> QED BY <1>2, <2>1, <2>2
<1>4. CommandFine' BY <1>1, <1>2 DEF CommandFine
<1>5. NamedKept' BY <1>2, NamedStill
<1>6. ServiceTyped' BY <1>1, <1>2 DEF ServiceTyped
<1> QED BY <1>2, <1>3, <1>4, <1>5, <1>6 DEF ServiceInv

\* What is killed is not the service's, or the manager has been told.
LEMMA ServiceLives ==
  ASSUME ServiceInv, NEW dead, Killed(dead), UNCHANGED <<hostManager, runtimes>>,
         command' = command \/ command'.pc = "none",
         svc'.unit = svc.unit, svc'.on = svc.on,
         \/ svc'.proc = 0
         \/ svc'.proc = svc.proc /\ svc.proc \notin dead
  PROVE  ServiceFine'
<1>1. svc \in ServiceStates /\ ServiceFine BY ServiceFacts
<1>2. svc.proc \in Runners BY <1>1, SMT DEF ServiceStates
<1>3. \A q \in WorkerProcs : q \notin dead => process'[q] = process[q] BY KilledKeeps
<1> QED BY <1>1, <1>2, <1>3 DEF ServiceFine, Runners

LEMMA DeathSteps ==
  ASSUME ServiceInv, NEW w \in WorkerProcs, AlreadyRunning(w) \/ WorkerDies(w) \/ ParentLeaves(w)
  PROVE  ServiceInv'
<1>1. /\ svc \in ServiceStates /\ process \in [WorkerProcs -> WorkerProcesses]
      /\ profileOf \in [WorkerProfiles -> Digests] /\ launcher \in Launchers
      /\ install \in Installs /\ command \in ServiceCommands /\ wanted \in Digests
      /\ runLock \in [WorkerProfiles -> Runners] /\ hostManager \in {"native", "none"}
      /\ ServiceTyped /\ InstallFine /\ CommandFine /\ ServiceFine /\ NamedKept /\ ProcsFine
  BY ServiceFacts DEF ServiceInv
<1>2. /\ Killed({w})
      /\ UNCHANGED <<hostManager, runtimes, profileOf, launcher, wanted, command>>
  BY DEF AlreadyRunning, WorkerDies, ParentLeaves
<1>3. ProcFine(process[w], w, runLock, hostManager, install.by, KeptRuntimes)
  BY <1>1 DEF ProcsFine
<1>4. svc' \in ServiceStates /\ svc'.unit = svc.unit /\ svc'.on = svc.on
      /\ \/ svc'.proc = 0
         \/ svc'.proc = svc.proc /\ svc.proc \notin {w}
  <2>1. CASE svc.proc = w /\ ~WorkerDies(w)
    <3>1. process[w].service = TRUE BY <1>1, <2>1, ServiceConstants DEF ServiceFine
    <3>2. process[w].managed = TRUE BY <1>3, <3>1 DEF ProcFine
    <3>3. ParentLeaves(w) BY <2>1, <3>2 DEF AlreadyRunning
    <3>4. hostManager = "none" BY <1>3, <3>3 DEF ParentLeaves, ProcIs, ProcFine
    <3> QED BY <1>1, <2>1, <3>4, ServiceConstants DEF ServiceFine
  <2>2. CASE svc.proc # w /\ ~WorkerDies(w)
    <3>1. svc' = svc BY <2>2 DEF AlreadyRunning, ParentLeaves
    <3> QED BY <1>1, <2>2, <3>1
  <2>3. CASE WorkerDies(w)
    <3>1. PICK r \in Runners : r = IF svc.proc = w THEN 0 ELSE svc.proc
      <4>1. svc.proc \in Runners BY <1>1, SMT DEF ServiceStates
      <4> QED BY <4>1 DEF Runners
    <3>2. svc' = SvcProc(svc, r) BY <2>3, <3>1 DEF WorkerDies, SvcProc
    <3>3. svc' \in ServiceStates /\ svc'.proc = r /\ svc'.unit = svc.unit /\ svc'.on = svc.on
      BY <1>1, <3>2, SvcProcKeeps
    <3> QED BY <3>1, <3>3
  <2> QED BY <2>1, <2>2, <2>3
<1>5. ServiceFine' BY <1>2, <1>4, ServiceLives
<1> QED BY <1>1, <1>2, <1>4, <1>5, KilledRest

LEMMA CommandCutStep ==
  ASSUME ServiceInv, CommandCut
  PROVE  ServiceInv'
<1>1. /\ svc \in ServiceStates /\ process \in [WorkerProcs -> WorkerProcesses]
      /\ profileOf \in [WorkerProfiles -> Digests] /\ launcher \in Launchers
      /\ install \in Installs /\ command \in ServiceCommands /\ wanted \in Digests
      /\ runLock \in [WorkerProfiles -> Runners] /\ hostManager \in {"native", "none"}
      /\ ServiceTyped /\ InstallFine /\ CommandFine /\ ServiceFine /\ NamedKept /\ ProcsFine
  BY ServiceFacts DEF ServiceInv
<1>2. /\ Killed({Command}) /\ command' = [NoCommand EXCEPT !.count = command.count]
      /\ UNCHANGED <<hostManager, runtimes, profileOf, launcher, svc, wanted>>
  BY DEF CommandCut, EndsCommand
<1>3. command' \in ServiceCommands /\ command'.pc = "none" BY <1>1, <1>2, CommandEnded DEF EndsCommand
<1>4. svc.proc \notin {Command}
  <2>1. svc.proc \in Runners BY <1>1, SMT DEF ServiceStates
  <2> QED BY <2>1, ServiceConstants DEF Runners
<1>5. ServiceFine' BY <1>2, <1>3, <1>4, ServiceLives
<1> QED BY <1>1, <1>2, <1>3, <1>5, KilledRest

LEMMA RestartStep ==
  ASSUME ServiceInv, RestartService
  PROVE  ServiceInv'
<1>1. /\ svc \in ServiceStates /\ process \in [WorkerProcs -> WorkerProcesses]
      /\ profileOf \in [WorkerProfiles -> Digests] /\ launcher \in Launchers
      /\ install \in Installs /\ command \in ServiceCommands /\ wanted \in Digests
      /\ runLock \in [WorkerProfiles -> Runners] /\ hostManager \in {"native", "none"}
      /\ ServiceTyped /\ InstallFine /\ CommandFine /\ ServiceFine /\ NamedKept /\ ProcsFine
  BY ServiceFacts DEF ServiceInv
<1>2. /\ command.pc = "restart" /\ command' = EndsCommand(command)
      /\ \/ /\ Killed(ServiceProc) /\ svc' = [svc EXCEPT !.on = TRUE, !.proc = 0]
         \/ UNCHANGED <<svc, process, runLock, install, aside, cut>>
      /\ UNCHANGED <<hostManager, runtimes, profileOf, launcher, wanted>>
  BY DEF RestartService, CommandIs
<1>3. command' \in ServiceCommands /\ command'.pc = "none" BY <1>1, <1>2, CommandEnded
<1>4. hostManager # "none" BY <1>1, <1>2 DEF ServiceFine
<1>5. install.by # Command BY <1>1, <1>2 DEF InstallFine
<1>6. CASE Killed(ServiceProc) /\ svc' = [svc EXCEPT !.on = TRUE, !.proc = 0]
  <2>1. PICK yes \in BOOLEAN : yes = TRUE OBVIOUS
  <2>2. 0 \in Runners BY DEF Runners
  <2>3. PICK u \in ServiceStates : u = SvcOn(svc, yes) BY <1>1, <2>1, SvcOnKeeps
  <2>4. PICK n \in ServiceStates : n = SvcProc(u, 0) /\ n.proc = 0 BY <2>2, <2>3, SvcProcKeeps
  <2>5. svc' = n BY <1>1, <1>6, <2>1, <2>3, <2>4, Zenon DEF SvcOn, SvcProc
  <2>6. ServiceFine' BY <1>2, <1>4, <2>4, <2>5 DEF ServiceFine
  <2> QED BY <1>2, <1>3, <1>5, <1>6, <2>4, <2>5, <2>6, KilledRest
<1>7. CASE UNCHANGED <<svc, process, runLock, install, aside, cut>>
  <2>1. KeptRuntimes' = KeptRuntimes BY <1>2, <1>7 DEF KeptRuntimes
  <2>2. ProcsFine' BY <1>2, <1>7, <2>1, StillFine
  <2>3. NamedKept' BY <1>2, <2>1, NamedStill
  <2>4. InstallFine' BY <1>1, <1>2, <1>5, <1>7 DEF InstallFine
  <2>5. CommandFine' /\ ServiceFine' BY <1>1, <1>2, <1>3, <1>4, <1>7 DEF CommandFine, ServiceFine
  <2>6. ServiceTyped' BY <1>1, <1>2, <1>3, <1>7 DEF ServiceTyped
  <2> QED BY <2>2, <2>3, <2>4, <2>5, <2>6 DEF ServiceInv
<1> QED BY <1>2, <1>6, <1>7

LEMMA MutateStep ==
  ASSUME ServiceInv, MutateService
  PROVE  ServiceInv'
<1>1. /\ svc \in ServiceStates /\ process \in [WorkerProcs -> WorkerProcesses]
      /\ profileOf \in [WorkerProfiles -> Digests] /\ launcher \in Launchers
      /\ install \in Installs /\ command \in ServiceCommands /\ wanted \in Digests
      /\ runLock \in [WorkerProfiles -> Runners] /\ hostManager \in {"native", "none"}
      /\ ServiceTyped /\ InstallFine /\ CommandFine /\ ServiceFine /\ NamedKept /\ ProcsFine
  BY ServiceFacts DEF ServiceInv
<1>2. /\ svc.unit # 0 /\ command.pc = "none" /\ command' = [command EXCEPT !.count = @ + 1]
      /\ UNCHANGED <<hostManager, runtimes, profileOf, launcher, wanted>>
      /\ \/ svc' = [svc EXCEPT !.on = TRUE] /\ UNCHANGED <<process, runLock, install, aside, cut>>
         \/ /\ Killed(ServiceProc)
            /\ \E u \in {0, svc.unit}, v \in BOOLEAN : svc' = [unit |-> u, on |-> v, proc |-> 0]
  <2>1. CASE Mutate(TRUE, FALSE, FALSE) BY <2>1 DEF Mutate, CommandIs
  <2>2. CASE Mutate(TRUE, TRUE, FALSE) BY <2>2 DEF Mutate, CommandIs
  <2>3. CASE Mutate(FALSE, FALSE, FALSE) BY <2>3 DEF Mutate, CommandIs
  <2>4. CASE Mutate(FALSE, FALSE, TRUE) BY <2>4 DEF Mutate, CommandIs
  <2> QED BY <2>1, <2>2, <2>3, <2>4 DEF MutateService
<1>3. command' \in ServiceCommands /\ command'.pc = "none"
  <2>1. command.count \in Nat BY <1>1, SMT DEF ServiceCommands
  <2>2. PICK k \in Nat : k = command.count + 1 BY <2>1
  <2>3. command' = CmdCount(command, k) BY <1>2, <2>2 DEF CmdCount
  <2> QED BY <1>1, <1>2, <2>3, CmdCountKeeps
<1>4. hostManager # "none" BY <1>1, <1>2 DEF ServiceFine
<1>5. install.by # Command BY <1>1, <1>2 DEF InstallFine
<1>6. CASE svc' = [svc EXCEPT !.on = TRUE] /\ UNCHANGED <<process, runLock, install, aside, cut>>
  <2>1. PICK yes \in BOOLEAN : yes = TRUE OBVIOUS
  <2>2. svc' = SvcOn(svc, yes) BY <1>6, <2>1 DEF SvcOn
  <2>3. svc' \in ServiceStates /\ svc'.proc = svc.proc BY <1>1, <2>1, <2>2, SvcOnKeeps
  <2>4. KeptRuntimes' = KeptRuntimes BY <1>2, <1>6 DEF KeptRuntimes
  <2>5. ProcsFine' BY <1>2, <1>6, <2>4, StillFine
  <2>6. NamedKept' BY <1>2, <2>4, NamedStill
  <2>7. InstallFine' BY <1>1, <1>2, <1>5, <1>6 DEF InstallFine
  <2>8. CommandFine' /\ ServiceFine'
    BY <1>1, <1>2, <1>3, <1>4, <1>6, <2>3 DEF CommandFine, ServiceFine
  <2>9. ServiceTyped' BY <1>1, <1>2, <1>3, <1>6, <2>3 DEF ServiceTyped
  <2> QED BY <2>5, <2>6, <2>7, <2>8, <2>9 DEF ServiceInv
<1>7. ASSUME Killed(ServiceProc), NEW u \in {0, svc.unit}, NEW v \in BOOLEAN,
             svc' = [unit |-> u, on |-> v, proc |-> 0]
      PROVE  ServiceInv'
  <2>1. u \in Profiled
    <3>1. svc.unit \in Profiled BY <1>1, SMT DEF ServiceStates
    <3> QED BY <3>1 DEF Profiled
  <2>2. svc' \in ServiceStates /\ svc'.proc = 0 BY <1>7, <2>1 DEF ServiceStates, Runners
  <2>3. ServiceFine' BY <1>2, <1>4, <2>2 DEF ServiceFine
  <2> QED BY <1>2, <1>3, <1>5, <1>7, <2>2, <2>3, KilledRest
<1> QED BY <1>2, <1>6, <1>7

\* A step of a command that leaves processes and installation alone.
LEMMA CommandGoes ==
  ASSUME ServiceInv, UNCHANGED <<hostManager, diskVars, profileOf, process, runLock, wanted>>,
         command.pc # "installing", hostManager # "none",
         command' \in ServiceCommands, svc' \in ServiceStates, svc'.proc = svc.proc, CommandFine',
         launcher' \in Launchers, LauncherFine',
         launcher'.digest # 0 => launcher'.digest \in KeptRuntimes
  PROVE  ServiceInv'
<1>1. /\ svc \in ServiceStates /\ process \in [WorkerProcs -> WorkerProcesses]
      /\ profileOf \in [WorkerProfiles -> Digests] /\ launcher \in Launchers
      /\ install \in Installs /\ command \in ServiceCommands /\ wanted \in Digests
      /\ runLock \in [WorkerProfiles -> Runners] /\ hostManager \in {"native", "none"}
      /\ ServiceTyped /\ InstallFine /\ CommandFine /\ ServiceFine /\ NamedKept /\ ProcsFine
  BY ServiceFacts DEF ServiceInv
<1>2. /\ KeptRuntimes' = KeptRuntimes /\ install' = install /\ runtimes' = runtimes /\ aside' = aside
  BY SameDisk
<1>3. ProcsFine' BY <1>2, StillFine
<1>4. InstallFine' BY <1>1, <1>2 DEF InstallFine
<1>5. NamedKept' BY <1>1, <1>2 DEF NamedKept
<1>6. ServiceFine' BY <1>1 DEF ServiceFine
<1>7. ServiceTyped' BY <1>1, <1>2 DEF ServiceTyped
<1> QED BY <1>3, <1>4, <1>5, <1>6, <1>7 DEF ServiceInv

LEMMA BeginCommandSteps ==
  ASSUME ServiceInv, NEW p \in WorkerProfiles, NEW flag \in BOOLEAN,
         BeginServiceInstall(p, flag) \/ BeginUpdate(p, flag)
  PROVE  ServiceInv'
<1>1. /\ svc \in ServiceStates /\ process \in [WorkerProcs -> WorkerProcesses]
      /\ profileOf \in [WorkerProfiles -> Digests] /\ launcher \in Launchers
      /\ install \in Installs /\ command \in ServiceCommands /\ wanted \in Digests
      /\ runLock \in [WorkerProfiles -> Runners] /\ hostManager \in {"native", "none"}
      /\ ServiceTyped /\ InstallFine /\ CommandFine /\ ServiceFine /\ NamedKept /\ ProcsFine
  BY ServiceFacts DEF ServiceInv
<1>2. PICK op \in CommandOps, pc \in {"launcher", "fetch"} :
        /\ BeginCommand(op, p, flag, pc)
        /\ UNCHANGED <<hostManager, diskVars, profileOf, launcher, svc, process, runLock, wanted>>
  BY DEF BeginServiceInstall, BeginUpdate, CommandOps
<1>3. PICK ran \in BOOLEAN : ran = (svc.proc # 0) OBVIOUS
<1>4. PICK d \in Digests : d = profileOf[p] BY <1>1
<1>5. command.count \in Nat BY <1>1, SMT DEF ServiceCommands
<1>6. PICK k \in Nat : k = command.count + 1 BY <1>5
<1>7. PICK no \in BOOLEAN : no = FALSE OBVIOUS
<1>8. PICK c : c = [pc |-> pc, op |-> op, profile |-> p, flag |-> flag, digest |-> d,
                    ran |-> ran, changed |-> no, count |-> k]
  OBVIOUS
<1>9. c \in ServiceCommands
  BY <1>8 DEF ServiceCommands, CommandPlaces, Profiled, Digested
<1>10. command' = c /\ command.pc = "none" /\ hostManager # "none"
  BY <1>2, <1>3, <1>4, <1>6, <1>7, <1>8, Zenon DEF BeginCommand, CommandIs
<1>11. c.profile = p /\ c.digest = d BY <1>8
<1>12. CommandFine'
  <2>1. KeptRuntimes' = KeptRuntimes BY <1>2, SameDisk
  <2>2. d \in KeptRuntimes BY <1>1, <1>4 DEF NamedKept
  <2> QED BY <1>10, <1>11, <2>1, <2>2 DEF CommandFine
<1>13. svc' = svc /\ launcher' = launcher BY <1>2
<1>14. LauncherFine' /\ (launcher'.digest # 0 => launcher'.digest \in KeptRuntimes)
  BY <1>1, <1>13 DEF NamedKept, LauncherFine
<1> QED BY <1>1, <1>2, <1>9, <1>10, <1>12, <1>13, <1>14, CommandGoes

LEMMA WriteLauncherStep ==
  ASSUME ServiceInv, WriteLauncher
  PROVE  ServiceInv'
<1>1. /\ svc \in ServiceStates /\ process \in [WorkerProcs -> WorkerProcesses]
      /\ profileOf \in [WorkerProfiles -> Digests] /\ launcher \in Launchers
      /\ install \in Installs /\ command \in ServiceCommands /\ wanted \in Digests
      /\ runLock \in [WorkerProfiles -> Runners] /\ hostManager \in {"native", "none"}
      /\ ServiceTyped /\ InstallFine /\ CommandFine /\ ServiceFine /\ NamedKept /\ ProcsFine
  BY ServiceFacts DEF ServiceInv
<1>2. /\ command.pc = "launcher"
      /\ UNCHANGED <<hostManager, diskVars, profileOf, svc, process, runLock,
                     wanted>>
      /\ launcher' = [profile |-> command.profile, digest |-> command.digest]
      /\ command' = [command EXCEPT !.pc = "unit", !.changed = @ \/ launcher # launcher']
  BY DEF WriteLauncher, CommandIs
<1>3. command.profile \in WorkerProfiles /\ command.digest \in KeptRuntimes /\ hostManager # "none"
  BY <1>1, <1>2 DEF CommandFine, ServiceFine
<1>4. /\ launcher' \in Launchers /\ LauncherFine'
      /\ launcher'.digest # 0 => launcher'.digest \in KeptRuntimes
  <2>1. KeptRuntimes \subseteq Digests BY DEF KeptRuntimes
  <2> QED BY <1>2, <1>3, <2>1 DEF Launchers, Profiled, Digested, LauncherFine
<1>5. PICK v \in BOOLEAN : v = (command.changed \/ launcher # launcher') OBVIOUS
<1>6. "unit" \in CommandPlaces BY DEF CommandPlaces
<1>7. PICK u \in ServiceCommands :
        u = CmdPc(command, "unit") /\ u.pc = "unit" /\ u.profile = command.profile
  BY <1>1, <1>6, CmdPcKeeps
<1>8. PICK c \in ServiceCommands : c = CmdChanged(u, v) /\ c.pc = u.pc /\ c.profile = u.profile
  BY <1>7, CmdChangedKeeps
<1>9. command' = c BY <1>1, <1>2, <1>5, <1>7, <1>8, Zenon DEF CmdPc, CmdChanged
<1>10. CommandFine' BY <1>3, <1>7, <1>8, <1>9 DEF CommandFine
<1>11. svc' = svc BY <1>2
<1> QED BY <1>1, <1>2, <1>3, <1>4, <1>9, <1>10, <1>11, CommandGoes

LEMMA WriteUnitStep ==
  ASSUME ServiceInv, WriteUnit
  PROVE  ServiceInv'
<1>1. /\ svc \in ServiceStates /\ process \in [WorkerProcs -> WorkerProcesses]
      /\ profileOf \in [WorkerProfiles -> Digests] /\ launcher \in Launchers
      /\ install \in Installs /\ command \in ServiceCommands /\ wanted \in Digests
      /\ runLock \in [WorkerProfiles -> Runners] /\ hostManager \in {"native", "none"}
      /\ ServiceTyped /\ InstallFine /\ CommandFine /\ ServiceFine /\ NamedKept /\ ProcsFine
  BY ServiceFacts DEF ServiceInv
<1>2. PICK pc \in {"restart", "enable"} :
        /\ command.pc = "unit"
        /\ UNCHANGED <<hostManager, diskVars, profileOf, launcher, process, runLock, wanted>>
        /\ svc' = [svc EXCEPT !.unit = command.profile]
        /\ command' = [command EXCEPT !.pc = pc, !.changed = @ \/ svc.unit # command.profile]
  <2>1. PICK pc \in {"restart", "enable"} :
          pc = IF command.op = "update" THEN "restart" ELSE "enable"
    OBVIOUS
  <2> QED BY <2>1 DEF WriteUnit, CommandIs
<1>3. command.profile \in WorkerProfiles /\ hostManager # "none"
  BY <1>1, <1>2 DEF CommandFine, ServiceFine
<1>4. svc' = SvcUnit(svc, command.profile) BY <1>2 DEF SvcUnit
<1>5. command.profile \in Profiled BY <1>3 DEF Profiled
<1>6. svc' \in ServiceStates /\ svc'.proc = svc.proc BY <1>1, <1>4, <1>5, SvcUnitKeeps
<1>7. PICK v \in BOOLEAN : v = (command.changed \/ svc.unit # command.profile) OBVIOUS
<1>8. pc \in CommandPlaces /\ pc \notin {"none", "launcher"} BY DEF CommandPlaces
<1>9. PICK u \in ServiceCommands : u = CmdPc(command, pc) /\ u.pc = pc /\ u.profile = command.profile
  BY <1>1, <1>8, CmdPcKeeps
<1>10. PICK c \in ServiceCommands : c = CmdChanged(u, v) /\ c.pc = u.pc /\ c.profile = u.profile
  BY <1>9, CmdChangedKeeps
<1>11. command' = c BY <1>1, <1>2, <1>7, <1>9, <1>10, Zenon DEF CmdPc, CmdChanged
<1>12. CommandFine' BY <1>3, <1>8, <1>9, <1>10, <1>11 DEF CommandFine
<1>13. /\ launcher' \in Launchers /\ LauncherFine'
       /\ launcher'.digest # 0 => launcher'.digest \in KeptRuntimes
  BY <1>1, <1>2 DEF NamedKept, LauncherFine
<1> QED BY <1>1, <1>2, <1>3, <1>6, <1>11, <1>12, <1>13, CommandGoes

LEMMA EnableServiceStep ==
  ASSUME ServiceInv, EnableService
  PROVE  ServiceInv'
<1>1. /\ svc \in ServiceStates /\ process \in [WorkerProcs -> WorkerProcesses]
      /\ profileOf \in [WorkerProfiles -> Digests] /\ launcher \in Launchers
      /\ install \in Installs /\ command \in ServiceCommands /\ wanted \in Digests
      /\ runLock \in [WorkerProfiles -> Runners] /\ hostManager \in {"native", "none"}
      /\ ServiceTyped /\ InstallFine /\ CommandFine /\ ServiceFine /\ NamedKept /\ ProcsFine
  BY ServiceFacts DEF ServiceInv
<1>2. /\ command.pc = "enable"
      /\ UNCHANGED <<hostManager, diskVars, profileOf, launcher, process, runLock, wanted>>
      /\ svc' = [svc EXCEPT !.on = @ \/ command.flag]
      /\ \E ran \in {command.ran, svc.proc # 0} :
           command' = [command EXCEPT !.pc = "restart", !.ran = ran]
  BY DEF EnableService, CommandIs
<1>3. command.profile \in WorkerProfiles /\ hostManager # "none"
  BY <1>1, <1>2 DEF CommandFine, ServiceFine
<1>4. PICK on \in BOOLEAN : on = (svc.on \/ command.flag) OBVIOUS
<1>5. svc' = SvcOn(svc, on) BY <1>2, <1>4, Zenon DEF SvcOn
<1>6. svc' \in ServiceStates /\ svc'.proc = svc.proc BY <1>1, <1>5, SvcOnKeeps
<1>7. PICK v \in BOOLEAN : command' = [command EXCEPT !.pc = "restart", !.ran = v]
  <2>1. command.ran \in BOOLEAN BY <1>1, SMT DEF ServiceCommands
  <2> QED BY <1>2, <2>1
<1>8. "restart" \in CommandPlaces BY DEF CommandPlaces
<1>9. PICK u \in ServiceCommands :
        u = CmdPc(command, "restart") /\ u.pc = "restart" /\ u.profile = command.profile
  BY <1>1, <1>8, CmdPcKeeps
<1>10. PICK c \in ServiceCommands : c = CmdRan(u, v) /\ c.pc = u.pc /\ c.profile = u.profile
  BY <1>9, CmdRanKeeps
<1>11. command' = c BY <1>1, <1>7, <1>9, <1>10, Zenon DEF CmdPc, CmdRan
<1>12. CommandFine' BY <1>3, <1>9, <1>10, <1>11 DEF CommandFine
<1>13. /\ launcher' \in Launchers /\ LauncherFine'
       /\ launcher'.digest # 0 => launcher'.digest \in KeptRuntimes
  BY <1>1, <1>2 DEF NamedKept, LauncherFine
<1> QED BY <1>1, <1>2, <1>3, <1>6, <1>11, <1>12, <1>13, CommandGoes

LEMMA LockInstallStep ==
  ASSUME ServiceInv, LockInstall
  PROVE  ServiceInv'
<1>1. /\ svc \in ServiceStates /\ process \in [WorkerProcs -> WorkerProcesses]
      /\ profileOf \in [WorkerProfiles -> Digests] /\ launcher \in Launchers
      /\ install \in Installs /\ command \in ServiceCommands /\ wanted \in Digests
      /\ runLock \in [WorkerProfiles -> Runners] /\ hostManager \in {"native", "none"}
      /\ ServiceTyped /\ InstallFine /\ CommandFine /\ ServiceFine /\ NamedKept /\ ProcsFine
  BY ServiceFacts DEF ServiceInv
<1>2. /\ command.pc = "fetch" /\ BeginInstall(Command, wanted, command.flag)
      /\ command' = [command EXCEPT !.pc = "installing", !.digest = wanted]
      /\ UNCHANGED <<hostManager, runtimes, aside, cut, profileOf, launcher, svc, process, runLock, wanted>>
  BY DEF LockInstall, CommandIs
<1>3. PICK flag \in BOOLEAN : flag = command.flag BY <1>1, SMT DEF ServiceCommands
<1>4. /\ KeptRuntimes \subseteq KeptRuntimes' /\ install' \in Installs
      /\ install'.by = Command /\ install'.digest = wanted /\ install'.pc = "locked"
  BY <1>2, <1>3, BeginInstallKeeps
<1>5. "installing" \in CommandPlaces /\ wanted \in Digested
  BY <1>1, ServiceConstants DEF CommandPlaces
<1>6. PICK u \in ServiceCommands :
        u = CmdPc(command, "installing") /\ u.pc = "installing" /\ u.profile = command.profile
  BY <1>1, <1>5, CmdPcKeeps
<1>7. PICK c \in ServiceCommands :
        c = CmdDigest(u, wanted) /\ c.pc = u.pc /\ c.profile = u.profile /\ c.digest = wanted
  BY <1>5, <1>6, CmdDigestKeeps
<1>8. command' = c BY <1>1, <1>2, <1>6, <1>7, Zenon DEF CmdPc, CmdDigest
<1>9. ProcsFine' BY <1>2, <1>4, StillFine
<1>10. NamedKept' BY <1>2, <1>4, NamedStill
<1>11. InstallFine' BY <1>1, <1>4, <1>6, <1>7, <1>8, ServiceConstants DEF InstallFine
<1>12. CommandFine' BY <1>1, <1>2, <1>6, <1>7, <1>8 DEF CommandFine
<1>13. ServiceFine' BY <1>1, <1>2 DEF ServiceFine
<1>14. ServiceTyped' BY <1>1, <1>2, <1>4, <1>8 DEF ServiceTyped
<1> QED BY <1>9, <1>10, <1>11, <1>12, <1>13, <1>14 DEF ServiceInv

LEMMA EndUpdateInstallStep ==
  ASSUME ServiceInv, EndUpdateInstall
  PROVE  ServiceInv'
<1>1. /\ svc \in ServiceStates /\ process \in [WorkerProcs -> WorkerProcesses]
      /\ profileOf \in [WorkerProfiles -> Digests] /\ launcher \in Launchers
      /\ install \in Installs /\ command \in ServiceCommands /\ wanted \in Digests
      /\ runLock \in [WorkerProfiles -> Runners] /\ hostManager \in {"native", "none"}
      /\ ServiceTyped /\ InstallFine /\ CommandFine /\ ServiceFine /\ NamedKept /\ ProcsFine
  BY ServiceFacts DEF ServiceInv
<1>2. PICK pc \in {"restart", "launcher"} :
        /\ install.by = Command /\ EndInstall
        /\ profileOf' = [profileOf EXCEPT ![command.profile] = install.digest]
        /\ command' = [command EXCEPT !.pc = pc, !.changed = ~Skips]
        /\ UNCHANGED <<hostManager, launcher, svc, process, runLock, wanted>>
  <2>1. PICK pc \in {"restart", "launcher"} : pc = IF svc.unit = 0 THEN "restart" ELSE "launcher"
    OBVIOUS
  <2> QED BY <2>1 DEF EndUpdateInstall
<1>3. install.by # 0 BY <1>2, ServiceConstants
<1>4. /\ KeptRuntimes \subseteq KeptRuntimes' /\ install' = NoInstall /\ aside' \in RuntimeStates
      /\ runtimes' \in [Digests -> RuntimeStates] /\ install.digest \in KeptRuntimes'
  BY <1>2, <1>3, EndInstallKeeps
<1>5. InstallFine' /\ install' \in Installs /\ install'.by = 0 BY <1>4, FreeInstall
<1>6. install.digest \in Digests /\ command.pc = "installing" /\ command.digest = install.digest
  BY <1>1, <1>2, <1>3 DEF InstallFine
<1>7. command.profile \in WorkerProfiles /\ hostManager # "none"
  BY <1>1, <1>6 DEF CommandFine, ServiceFine
<1>8. PICK v \in BOOLEAN : v = ~Skips OBVIOUS
<1>9. pc \in CommandPlaces BY DEF CommandPlaces
<1>10. PICK u \in ServiceCommands : /\ u = CmdPc(command, pc) /\ u.pc = pc
                                    /\ u.profile = command.profile /\ u.digest = command.digest
  BY <1>1, <1>9, CmdPcKeeps
<1>11. PICK c \in ServiceCommands : /\ c = CmdChanged(u, v) /\ c.pc = u.pc
                                    /\ c.profile = u.profile /\ c.digest = u.digest
  BY <1>10, CmdChangedKeeps
<1>12. command' = c BY <1>1, <1>2, <1>8, <1>10, <1>11, Zenon DEF CmdPc, CmdChanged
<1>13. CommandFine' BY <1>4, <1>6, <1>7, <1>10, <1>11, <1>12 DEF CommandFine
<1>14. ServiceFine' BY <1>1, <1>2, <1>7 DEF ServiceFine
<1>15. profileOf' \in [WorkerProfiles -> Digests]
       /\ \A p \in WorkerProfiles : profileOf'[p] \in {install.digest, profileOf[p]}
  BY <1>1, <1>2, <1>6, <1>7
<1>16. NamedKept' BY <1>1, <1>2, <1>4, <1>15 DEF NamedKept, LauncherFine
<1>17. ProcsFine' BY <1>2, <1>4, <1>5, StillFine
<1>18. ServiceTyped' BY <1>1, <1>2, <1>4, <1>5, <1>12, <1>15 DEF ServiceTyped
<1> QED BY <1>5, <1>13, <1>14, <1>16, <1>17, <1>18 DEF ServiceInv

LEMMA UpdateFailsStep ==
  ASSUME ServiceInv, UpdateFails
  PROVE  ServiceInv'
<1>1. /\ svc \in ServiceStates /\ process \in [WorkerProcs -> WorkerProcesses]
      /\ profileOf \in [WorkerProfiles -> Digests] /\ launcher \in Launchers
      /\ install \in Installs /\ command \in ServiceCommands /\ wanted \in Digests
      /\ runLock \in [WorkerProfiles -> Runners] /\ hostManager \in {"native", "none"}
      /\ ServiceTyped /\ InstallFine /\ CommandFine /\ ServiceFine /\ NamedKept /\ ProcsFine
  BY ServiceFacts DEF ServiceInv
<1>2. /\ install.by = Command /\ FailInstall /\ command' = EndsCommand(command)
      /\ UNCHANGED <<hostManager, profileOf, launcher, svc, process, runLock, wanted>>
  BY DEF UpdateFails
<1>3. install.by # 0 BY <1>2, ServiceConstants
<1>4. /\ KeptRuntimes \subseteq KeptRuntimes' /\ install' = NoInstall /\ aside' \in RuntimeStates
      /\ runtimes' \in [Digests -> RuntimeStates]
  BY <1>2, <1>3, FailInstallKeeps
<1>5. InstallFine' /\ install' \in Installs /\ install'.by = 0 BY <1>4, FreeInstall
<1>6. command' \in ServiceCommands /\ command'.pc = "none" BY <1>1, <1>2, CommandEnded
<1>7. CommandFine' /\ ServiceFine' BY <1>1, <1>2, <1>6 DEF CommandFine, ServiceFine
<1>8. NamedKept' BY <1>2, <1>4, NamedStill
<1>9. ProcsFine' BY <1>2, <1>4, <1>5, StillFine
<1>10. ServiceTyped' BY <1>1, <1>2, <1>4, <1>5, <1>6 DEF ServiceTyped
<1> QED BY <1>5, <1>7, <1>8, <1>9, <1>10 DEF ServiceInv

LEMMA ServiceFirst == ASSUME ServiceInit PROVE ServiceInv
<1>1. PICK p \in Profiled :
        /\ hostManager = "none" => p = 0
        /\ launcher = IF p = 0 THEN NoLauncher ELSE [profile |-> p, digest |-> 1]
        /\ svc = [unit |-> p, on |-> p # 0, proc |-> 0]
  BY DEF ServiceInit, Profiled
<1>2. /\ hostManager \in {"native", "none"}
      /\ runtimes = [d \in Digests |-> IF d = 1 THEN "whole" ELSE "none"]
      /\ aside = "none" /\ install = NoInstall /\ profileOf = [q \in WorkerProfiles |-> 1]
      /\ process = [w \in WorkerProcs |-> NoWorkerProc]
      /\ runLock = [q \in WorkerProfiles |-> 0]
      /\ wanted = 1 /\ command = NoCommand
  BY DEF ServiceInit
<1>3. 1 \in KeptRuntimes BY <1>2, ServiceConstants DEF KeptRuntimes
<1>4. launcher \in Launchers /\ LauncherFine /\ (launcher.digest # 0 => launcher.digest \in KeptRuntimes)
  <2>1. CASE p = 0
    BY <1>1, <2>1 DEF NoLauncher, Launchers, Profiled, Digested, LauncherFine
  <2>2. CASE p # 0
    <3>1. launcher = [profile |-> p, digest |-> 1] BY <1>1, <2>2
    <3>2. p \in WorkerProfiles BY <2>2 DEF Profiled
    <3> QED BY <1>3, <3>1, <3>2, ServiceConstants DEF Launchers, Profiled, LauncherFine
  <2> QED BY <2>1, <2>2
<1>5. svc \in ServiceStates /\ ServiceFine
  <2>1. PICK on \in BOOLEAN : on = (p # 0) OBVIOUS
  <2>2. PICK m : m = [unit |-> p, on |-> on, proc |-> 0] OBVIOUS
  <2>3. svc = m BY <1>1, <2>1, <2>2, Zenon
  <2>4. m \in ServiceStates BY <2>2 DEF ServiceStates, Runners
  <2>5. m.unit = p /\ m.on = on /\ m.proc = 0 BY <2>2
  <2>6. command.pc = "none" BY <1>2, EmptyRecords
  <2>7. ServiceFine BY <1>1, <2>1, <2>3, <2>5, <2>6 DEF ServiceFine
  <2> QED BY <2>3, <2>4, <2>7
<1>6. InstallFine /\ CommandFine BY <1>2, EmptyRecords, ServiceConstants DEF InstallFine, CommandFine
<1>7. NamedKept BY <1>2, <1>3, <1>4 DEF NamedKept
<1>8. ProcsFine
  <2> SUFFICES ASSUME NEW w \in WorkerProcs
               PROVE  ProcFine(process[w], w, runLock, hostManager, install.by, KeptRuntimes)
    BY DEF ProcsFine
  <2> QED BY <1>2, EmptyRecords, ServiceConstants DEF ProcFine
<1>9. ServiceTyped
  <2>1. runtimes \in [Digests -> RuntimeStates] /\ aside \in RuntimeStates BY <1>2 DEF RuntimeStates
  <2>2. runLock \in [WorkerProfiles -> Runners] BY <1>2 DEF Runners
  <2> QED BY <1>2, <1>4, <1>5, <2>1, <2>2, EmptyRecords, ServiceConstants DEF ServiceTyped
<1> QED BY <1>5, <1>6, <1>7, <1>8, <1>9 DEF ServiceInv

LEMMA ServiceStep == ASSUME ServiceInv, [ServiceNext]_wsVars PROVE ServiceInv'
<1>1. CASE UNCHANGED wsVars
  BY <1>1 DEF wsVars, ServiceInv, ServiceTyped, InstallFine, CommandFine, ServiceFine, NamedKept,
    LauncherFine, ProcsFine, KeptRuntimes
<1>2. ASSUME NEW w \in WorkerProcs, NEW p \in WorkerProfiles, NEW marked \in BOOLEAN,
             StartByHand(w, p, marked)
      PROVE  ServiceInv'
  BY <1>2, StartStep
<1>3. ASSUME NEW w \in WorkerProcs, ProcStep(w) \/ WorkerDies(w) \/ UpgradeFails(w) PROVE ServiceInv'
  BY <1>3, StartStep, TakeRunLockStep, DeathSteps, BeginUpgradeStep, BindLauncherStep, ReexecStep,
    ReexecFailsStep, UpgradeFailsStep DEF ProcStep
<1>4. ASSUME NEW p \in WorkerProfiles, NEW flag \in BOOLEAN,
             BeginServiceInstall(p, flag) \/ BeginUpdate(p, flag)
      PROVE  ServiceInv'
  BY <1>4, BeginCommandSteps
<1>5. CASE InstallStep
  BY <1>5, InstallMovesStep, LockInstallStep, EndUpdateInstallStep, EndUpgradeStep DEF InstallStep
<1>6. CASE CommandStep
  BY <1>6, WriteLauncherStep, WriteUnitStep, EnableServiceStep, RestartStep DEF CommandStep
<1>7. CASE UpdateFails \/ MutateService \/ CommandCut \/ NewRelease
  BY <1>7, UpdateFailsStep, MutateStep, CommandCutStep, NewReleaseStep
<1> QED BY <1>1, <1>2, <1>3, <1>4, <1>5, <1>6, <1>7 DEF ServiceNext

\* A profile has one worker past its start, however workers are started, replaced and
\* killed; the manager's process is a worker of the service; and a runtime that a profile or
\* the launcher names is whole, is being installed again, or lost its installation to a kill
\* (remote_worker/lifecycle.py, runtime.py, service.py).
THEOREM WorkerServiceTheorem == ServiceSpec => []WorkerServiceSound
<1>1. ServiceInv => WorkerServiceSound
  <2> SUFFICES ASSUME ServiceInv PROVE WorkerServiceSound OBVIOUS
<2>1. /\ svc \in ServiceStates /\ process \in [WorkerProcs -> WorkerProcesses]
      /\ profileOf \in [WorkerProfiles -> Digests] /\ launcher \in Launchers
      /\ install \in Installs /\ command \in ServiceCommands /\ wanted \in Digests
      /\ runLock \in [WorkerProfiles -> Runners] /\ hostManager \in {"native", "none"}
      /\ ServiceTyped /\ InstallFine /\ CommandFine /\ ServiceFine /\ NamedKept /\ ProcsFine
  BY ServiceFacts DEF ServiceInv
  <2>2. WsTypeOK
    <3>1. svc.unit \in Profiled /\ svc.proc \in Runners BY <2>1, SMT DEF ServiceStates
    <3>2. install.by \in Installers BY <2>1, SMT DEF Installs
    <3> QED BY <2>1, <3>1, <3>2 DEF WsTypeOK, Profiled, Runners, Installers
  <2>3. OneWorker
    <3>1. svc.proc # 0 => process[svc.proc].service BY <2>1 DEF ServiceFine
    <3>2. \A w \in WorkerProcs : process[w].at \notin {"none", "locking", "heir"} =>
            runLock[process[w].profile] = w
      BY <2>1 DEF ProcsFine, ProcFine
    <3> QED BY <3>1, <3>2 DEF OneWorker
  <2>4. RuntimesKept
    <3> SUFFICES ASSUME NEW d \in Named
                 PROVE  \/ runtimes[d] = "whole" \/ d \in cut
                        \/ install.by # 0 /\ install.digest = d
      BY DEF RuntimesKept
    <3>1. d \in KeptRuntimes BY <2>1 DEF Named, NamedKept
    <3> QED BY <2>1, <3>1 DEF KeptRuntimes, InstallFine
  <2> QED BY <2>2, <2>3, <2>4 DEF WorkerServiceSound
<1> QED BY <1>1, ServiceFirst, ServiceStep, PTL DEF ServiceSpec
===========================================================================
