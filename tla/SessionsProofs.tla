---------------------------- MODULE SessionsProofs ----------------------------
(*****************************************************************************)
(* What the store of sessions relies on, for every set of sessions, shells   *)
(* and processes, and what a copy between two sessions does, for every size, *)
(* number of attempts, of requests and of faults.                            *)
(*                                                                           *)
(* Sessions: the invariant says, for each process, what it names (Names),    *)
(* which locks it holds (HoldsLocks) and what it has learnt under them       *)
(* (Knows). A step of one process can only touch what the others have not    *)
(* locked (Effects), so their parts of the invariant survive it.             *)
(*                                                                           *)
(* SessionCopy: PromiseInv ties what the copy says to what is at the         *)
(* destination. GateInv ties the cursor of the object to its spool, and the  *)
(* one request that appends to the lock; it rests on the transfers whose     *)
(* spool is complete for good (Settled), a set that no step makes smaller,   *)
(* which is what a download may read without the lock.                       *)
(*****************************************************************************)
EXTENDS Sessions, SessionCopy, FiniteSetTheorems, WellFoundedInduction, TLAPS

Meta == [up : BOOLEAN, age : 0..2, term : BOOLEAN, remote : BOOLEAN, shells : SUBSET Shells]
Places == {"idle", "prune", "expired", "expiredAgain", "overflow", "overflowAgain",
           "use", "drop", "admit", "admitted", "job", "jobTouch", "jobStart",
           "shell", "shellTouch", "admission", "reserve", "inventory", "reconcile", "start",
           "failed", "register", "kill", "release",
           "end", "prepare", "endJobs", "endList", "endShells", "endKill", "endRelease", "remove"}
Doing == [pc : Places, s : Sids \cup {Nobody}, x : Shells \cup {Nobody},
          todo : SUBSET (Sids \cup Shells), seen : SUBSET (Sids \cup Shells),
          n : Nat, slots : {0, 1}, ok : BOOLEAN]

\* The stages of a prune, of the teardown, and of the start of a shell.
Pruning == {"expired", "expiredAgain", "overflow", "overflowAgain"}
Ending == {"prepare", "endJobs", "endList", "endShells", "endKill", "endRelease", "remove"}
Admitting == {"reserve", "inventory", "reconcile", "start", "failed"}
Starting == Admitting \cup {"admission", "register"}
OfSession == {"end", "job", "use", "shell", "drop", "jobTouch", "jobStart", "shellTouch",
              "reserve", "register", "expiredAgain", "overflowAgain"} \cup Ending
OfShell == {"shell", "shellTouch", "reserve", "start", "register", "kill", "release",
            "endKill", "endRelease"}

Stored == sess \in [Sids -> Meta] /\ Up \subseteq drawn /\ drawn \subseteq Sids
Held ==
  /\ lease \in [Sids -> Procs \cup {Nobody}] /\ tx \in [Sids -> Procs \cup {Nobody}]
  /\ registry \in Procs \cup {Nobody} /\ admission \in Procs \cup {Nobody}
Tags == live \in [Shells -> Sids \cup {Untagged, Nobody}]
Acts == act \in [Procs -> Doing]

\* The limits, which need the sets to be finite.
Limits == /\ IsFiniteSet(drawn) /\ Cardinality(Up) <= MaxSessions
          /\ IsFiniteSet(Running) /\ Cardinality(Running) <= MaxShells

\* A shell is tagged with a session that was given out and is local.
Tagged == \A x \in Shells : live[x] \in Sids => live[x] \in drawn /\ ~sess[live[x]].remote

InStart(p) == act[p].pc \in Starting /\ Sid(p) # Nobody

\* What the record of a process names.
Names(p) ==
  /\ act[p].pc \in OfSession => Sid(p) \in Sids
  /\ act[p].pc \in OfShell \/ InStart(p) => Shell(p) \in Shells
  /\ act[p].pc \in Pruning \cup {"admit", "reconcile"} => act[p].todo \subseteq Sids
  /\ act[p].pc \in Ending \cup {"end"} => act[p].todo \subseteq Shells
  /\ act[p].pc \in {"admit", "admitted", "release", "endRelease"} => act[p].seen \subseteq Sids

\* The locks that a process holds at each stage.
Leased(p) == act[p].pc \in {"jobTouch", "jobStart", "shellTouch", "expiredAgain", "overflowAgain"}
                           \cup Ending
             \/ InStart(p)
HoldsLocks(p) ==
  /\ act[p].pc \in Pruning => registry = p
  /\ act[p].pc \in Admitting => admission = p
  /\ act[p].pc = "drop" => tx[Sid(p)] = p
  /\ act[p].pc \in {"admit", "admitted"} => \A s \in act[p].seen : tx[s] = p
  /\ Leased(p) => lease[Sid(p)] = p

\* What a process has learnt that stays true while it holds its locks.
RoomForShell(p) == Shell(p) \in Shells /\ Cardinality(Running) < MaxShells
Knows(p) ==
  /\ act[p].pc \in {"overflow", "overflowAgain"} => Cardinality(Up) <= act[p].n
  /\ act[p].pc = "start" \/ (act[p].pc = "reconcile" /\ act[p].ok) => RoomForShell(p)
  /\ act[p].pc = "admitted" => \A s \in act[p].seen : sess[s].up /\ ~sess[s].term
  /\ act[p].pc = "drop" => Expired(Sid(p))
  /\ act[p].pc = "jobStart" => sess[Sid(p)].age <= 1
  /\ InStart(p) => Sid(p) \in drawn /\ ~sess[Sid(p)].remote
  /\ act[p].pc \in {"endList", "endShells", "endKill", "endRelease", "remove"} => Sid(p) \notin job
  /\ act[p].pc \in {"endShells", "endRelease"} => Owned(Sid(p)) \subseteq act[p].todo
  /\ act[p].pc = "endKill" => Owned(Sid(p)) \subseteq act[p].todo \cup {Shell(p)}
  /\ act[p].pc = "remove" => Owned(Sid(p)) = {}

Shared == Stored /\ Held /\ Tags /\ Acts /\ job \subseteq Sids /\ Limits /\ Tagged
Own(p) == Names(p) /\ HoldsLocks(p) /\ Knows(p)
SessInv == Shared /\ \A p \in Procs : Own(p)

--------------------------------------------------------------------------------
\* What a step of p (or of the environment, with Nobody for p) may change.
MayTake(p, was, is) == is = was \/ (was \in {Nobody, p} /\ is \in {Nobody, p})
OfLocks(p) ==
  /\ \A q \in Procs : q # p => act'[q] = act[q]
  /\ \A s \in Sids : MayTake(p, lease[s], lease'[s]) /\ MayTake(p, tx[s], tx'[s])
  /\ MayTake(p, registry, registry') /\ MayTake(p, admission, admission')
OfSess(p) ==
  /\ \A s \in drawn : tx[s] \notin {Nobody, p} =>
       /\ sess'[s].up = sess[s].up /\ sess'[s].term = sess[s].term
       /\ sess'[s].shells = sess[s].shells /\ sess'[s].age >= sess[s].age
  /\ \A s \in Sids : lease[s] \notin {Nobody, p} /\ sess[s].age <= 1 => sess'[s].age <= 1
  /\ \A s \in drawn : sess'[s].remote => sess[s].remote
  /\ drawn \subseteq drawn' /\ IsFiniteSet(drawn')
  /\ \/ Up' \subseteq Up
     \/ registry = p /\ Cardinality(Up') <= MaxSessions
OfJob(p) == \A s \in job' : s \in job \/ (s \in Sids /\ lease[s] = p /\ sess[s].age <= 1)
OfLive(p) ==
  /\ \A x \in Shells : LET s == live'[x] IN
       s \in Sids /\ live[x] # s => lease[s] = p /\ s \in drawn /\ ~sess[s].remote
  /\ \/ Running' \subseteq Running
     \/ admission = p /\ IsFiniteSet(Running') /\ Cardinality(Running') <= MaxShells
Effects(p) == OfLocks(p) /\ OfSess(p) /\ OfJob(p) /\ OfLive(p)
Typed == Stored /\ Held /\ Tags /\ Acts
Keeps(p) == Typed' /\ Effects(p) /\ Own(p)'

\* What a process names and holds stays its own while another takes a step.
LEMMA OthersHold ==
  ASSUME Typed, NEW p \in Procs \cup {Nobody}, NEW q \in Procs, q # p,
         Own(q), OfLocks(p)
  PROVE  Names(q)' /\ HoldsLocks(q)' /\ act'[q] = act[q]
<1>1. act'[q] = act[q]
  BY DEF OfLocks
<1>2. q \notin {Nobody, p}
  BY SessionsAssumption
<1>3. Names(q)'
  BY <1>1 DEF Own, Names, InStart, Sid, Shell
<1>4. \A s \in Sids : (lease[s] = q => lease'[s] = q) /\ (tx[s] = q => tx'[s] = q)
  BY <1>2 DEF OfLocks, MayTake
<1>5. (registry = q => registry' = q) /\ (admission = q => admission' = q)
  BY <1>2 DEF OfLocks, MayTake
<1>6. ASSUME act[q].pc \in {"admit", "admitted"} PROVE \A s \in act[q].seen : tx'[s] = q
  BY <1>6, <1>4 DEF Own, Names, HoldsLocks
<1>7. ASSUME act[q].pc = "drop" PROVE tx'[Sid(q)] = q
  BY <1>7, <1>4 DEF Own, Names, HoldsLocks, OfSession
<1>8. ASSUME Leased(q) PROVE lease'[Sid(q)] = q
  <2>1. Sid(q) \in Sids
    BY <1>8 DEF Own, Names, Leased, InStart, OfSession, Typed, Acts, Doing, Sid
  <2> QED BY <2>1, <1>4, <1>8 DEF Own, HoldsLocks
<1>9. HoldsLocks(q)'
  BY <1>1, <1>5, <1>6, <1>7, <1>8 DEF Own, HoldsLocks, Leased, InStart, Sid
<1> QED BY <1>1, <1>3, <1>9

\* What it has learnt stays true.
LEMMA OthersKnow ==
  ASSUME SessInv, Typed', NEW p \in Procs \cup {Nobody}, NEW q \in Procs, q # p, Effects(p)
  PROVE  Knows(q)'
<1>1. /\ act'[q] = act[q]
      /\ Names(q) /\ HoldsLocks(q) /\ Knows(q)
  BY OthersHold DEF SessInv, Shared, Own, Typed, Effects
<1>2. q \notin {Nobody, p}
  BY SessionsAssumption
<1>3. Sid(q)' = Sid(q) /\ Shell(q)' = Shell(q) /\ (InStart(q)' <=> InStart(q))
  BY <1>1 DEF Sid, Shell, InStart
<1>4. ASSUME registry = q, Cardinality(Up) <= act[q].n PROVE Cardinality(Up') <= act[q].n
  <2>1. Up' \subseteq Up
    BY <1>2, <1>4 DEF Effects, OfSess
  <2>2. IsFiniteSet(Up)
    BY FS_Subset DEF SessInv, Shared, Limits, Stored
  <2>3. Cardinality(Up') <= Cardinality(Up) /\ Cardinality(Up) \in Nat /\ Cardinality(Up') \in Nat
    BY <2>1, <2>2, FS_Subset, FS_CardinalityType
  <2> QED BY <2>3, <1>4 DEF SessInv, Shared, Acts, Doing
<1>5. ASSUME admission = q, RoomForShell(q) PROVE RoomForShell(q)'
  <2>1. Running' \subseteq Running
    BY <1>2, <1>5 DEF Effects, OfLive
  <2>2. Cardinality(Running') <= Cardinality(Running) /\ Cardinality(Running) \in Nat
        /\ Cardinality(Running') \in Nat
    BY <2>1, FS_Subset, FS_CardinalityType DEF SessInv, Shared, Limits
  <2> QED BY <2>2, <1>5, <1>3, SessionsAssumption DEF RoomForShell
<1>6. ASSUME NEW s \in Sids, tx[s] = q, sess[s].up
      PROVE  /\ sess'[s].up = sess[s].up /\ sess'[s].term = sess[s].term
             /\ sess'[s].shells = sess[s].shells /\ sess'[s].age >= sess[s].age
  BY <1>6, <1>2 DEF Effects, OfSess, SessInv, Shared, Stored, Up
<1>7. ASSUME NEW s \in Sids, lease[s] = q
      PROVE  /\ sess[s].age <= 1 => sess'[s].age <= 1
             /\ s \notin job => s \notin job'
             /\ Owned(s)' \subseteq Owned(s)
  <2>1. sess[s].age <= 1 => sess'[s].age <= 1
    BY <1>7, <1>2 DEF Effects, OfSess
  <2>2. s \notin job => s \notin job'
    BY <1>7, <1>2 DEF Effects, OfJob
  <2>3. Owned(s)' \subseteq Owned(s)
    BY <1>7, <1>2 DEF Effects, OfLive, Owned
  <2> QED BY <2>1, <2>2, <2>3
<1>8. Leased(q) => Sid(q) \in Sids /\ lease[Sid(q)] = q
  BY <1>1 DEF Names, HoldsLocks, Leased, InStart, OfSession, SessInv, Shared, Acts, Doing, Sid
<1>11. act[q].pc \in {"overflow", "overflowAgain"} => Cardinality(Up') <= act[q].n
  BY <1>1, <1>4 DEF Knows, HoldsLocks, Pruning
<1>12. act[q].pc = "start" \/ (act[q].pc = "reconcile" /\ act[q].ok) => RoomForShell(q)'
  BY <1>1, <1>5 DEF Knows, HoldsLocks, Admitting
<1>13. act[q].pc = "admitted" => \A s \in act[q].seen : sess'[s].up /\ ~sess'[s].term
  BY <1>1, <1>6 DEF Knows, HoldsLocks, Names
<1>14. ASSUME act[q].pc = "drop" PROVE Expired(Sid(q))'
  <2>1. Sid(q) \in Sids /\ tx[Sid(q)] = q /\ Expired(Sid(q))
    BY <1>14, <1>1 DEF Knows, HoldsLocks, Names, OfSession
  <2>2. Sid(q) \notin job'
    BY <2>1 DEF Expired, Unprotected, Effects, OfJob
  <2>3. /\ sess'[Sid(q)].up = sess[Sid(q)].up
        /\ sess'[Sid(q)].shells = sess[Sid(q)].shells
        /\ sess'[Sid(q)].age >= sess[Sid(q)].age
    BY <2>1, <1>6 DEF Expired
  <2>4. sess'[Sid(q)].age \in 0..2
    BY <2>1 DEF Typed, Stored, Meta
  <2>5. sess'[Sid(q)].age = 2
    BY <2>1, <2>3, <2>4 DEF Expired
  <2>6. sess'[Sid(q)].up /\ sess'[Sid(q)].shells = {}
    BY <2>1, <2>3 DEF Expired, Unprotected
  <2> QED BY <2>2, <2>5, <2>6, <1>3 DEF Expired, Unprotected
<1>15. act[q].pc = "jobStart" => sess'[Sid(q)].age <= 1
  BY <1>1, <1>7, <1>8 DEF Knows, Leased
<1>16. InStart(q) => Sid(q) \in drawn' /\ ~sess'[Sid(q)].remote
  BY <1>1 DEF Knows, Effects, OfSess
<1>17. act[q].pc \in {"endList", "endShells", "endKill", "endRelease", "remove"} => Sid(q) \notin job'
  BY <1>1, <1>7, <1>8 DEF Knows, Leased, Ending
<1>18. act[q].pc \in Ending => Owned(Sid(q))' \subseteq Owned(Sid(q))
  BY <1>7, <1>8, <1>3 DEF Leased, Owned
<1> QED
  BY <1>1, <1>3, <1>11, <1>12, <1>13, <1>14, <1>15, <1>16, <1>17, <1>18 DEF Knows, Ending

\* The limits and the tags after a step with those effects.
LEMMA SharedKept ==
  ASSUME Shared, Typed', NEW p \in Procs \cup {Nobody}, Effects(p)
  PROVE  Shared'
<1>1. job' \subseteq Sids
  BY DEF Shared, Effects, OfJob
<1>2. IsFiniteSet(Up) /\ IsFiniteSet(drawn')
  BY FS_Subset DEF Shared, Limits, Stored, Effects, OfSess
<1>3. Cardinality(Up') <= MaxSessions
  <2>1. CASE Up' \subseteq Up
    <3>1. Cardinality(Up') <= Cardinality(Up) /\ Cardinality(Up) \in Nat /\ Cardinality(Up') \in Nat
      BY <2>1, <1>2, FS_Subset, FS_CardinalityType
    <3> QED BY <3>1, SessionsAssumption DEF Shared, Limits
  <2> QED BY <2>1 DEF Effects, OfSess
<1>4. IsFiniteSet(Running') /\ Cardinality(Running') <= MaxShells
  <2>1. CASE Running' \subseteq Running
    <3>1. IsFiniteSet(Running') /\ Cardinality(Running') <= Cardinality(Running)
          /\ Cardinality(Running) \in Nat /\ Cardinality(Running') \in Nat
      BY <2>1, FS_Subset, FS_CardinalityType DEF Shared, Limits
    <3> QED BY <3>1, SessionsAssumption DEF Shared, Limits
  <2> QED BY <2>1 DEF Effects, OfLive
<1>5. ASSUME NEW x \in Shells, live'[x] \in Sids
      PROVE  live'[x] \in drawn' /\ ~sess'[live'[x]].remote
  <2>1. live'[x] \in drawn /\ ~sess[live'[x]].remote
    BY <1>5 DEF Shared, Tagged, Effects, OfLive
  <2> QED BY <2>1 DEF Effects, OfSess
<1>6. Limits' /\ Tagged'
  BY <1>2, <1>3, <1>4, <1>5 DEF Limits, Tagged
<1> QED BY <1>1, <1>6 DEF Shared, Typed

\* A step of p that keeps the types, its own part and these bounds keeps all.
LEMMA StepKeeps ==
  ASSUME SessInv, NEW p \in Procs, Keeps(p)
  PROVE  SessInv'
<1>1. Shared'
  BY SharedKept DEF SessInv, Keeps
<1>2. ASSUME NEW q \in Procs PROVE Own(q)'
  <2>1. CASE q = p
    BY <2>1 DEF Keeps
  <2>2. CASE q # p
    BY <2>2, OthersHold, OthersKnow DEF Own, SessInv, Shared, Typed, Keeps, Effects
  <2> QED BY <2>1, <2>2
<1> QED BY <1>1, <1>2 DEF SessInv

LEMMA EnvironmentKeeps ==
  ASSUME SessInv, Typed', Effects(Nobody)
  PROVE  SessInv'
<1>1. Shared'
  BY SharedKept DEF SessInv
<1>2. ASSUME NEW q \in Procs PROVE Own(q)'
  <2>1. q # Nobody
    BY SessionsAssumption
  <2> QED BY <2>1, OthersHold, OthersKnow DEF Own, SessInv, Shared, Typed, Effects
<1> QED BY <1>1, <1>2 DEF SessInv

--------------------------------------------------------------------------------
\* What a step leaves alone has no effect.
LEMMA SessSame ==
  ASSUME Shared, NEW p, sess' = sess, drawn' = drawn
  PROVE  Stored' /\ OfSess(p)
<1>1. Up' = Up
  BY DEF Up
<1>2. \A s \in drawn : s \in Sids /\ sess[s].age \in 0..2
  BY DEF Shared, Stored, Meta
<1>3. OfSess(p)
  BY <1>1, <1>2 DEF Shared, Limits, OfSess
<1> QED BY <1>1, <1>3 DEF Shared, Stored

LEMMA LiveSame ==
  ASSUME Shared, NEW p, live' = live
  PROVE  Tags' /\ OfLive(p)
BY DEF Shared, Tags, OfLive, Running

LEMMA JobSame ==
  ASSUME NEW p, job' = job
  PROVE  OfJob(p)
BY DEF OfJob

\* The metadata of one session is written under its transaction, or by nobody
\* else's leave: it neither comes up nor ages nor turns remote.
LEMMA OneSess ==
  ASSUME Shared, NEW p, NEW s \in Sids, NEW r \in Meta,
         sess' = [sess EXCEPT ![s] = r], drawn' = drawn, tx[s] \in {Nobody, p},
         r.age <= 1 \/ r.age = sess[s].age, r.up => sess[s].up, r.remote => sess[s].remote
  PROVE  Stored' /\ OfSess(p)
<1>1. sess' \in [Sids -> Meta] /\ sess'[s] = r /\ \A t \in Sids : t # s => sess'[t] = sess[t]
  BY DEF Shared, Stored
<1>2. Up' \subseteq Up
  BY <1>1 DEF Up
<1>3. \A t \in Sids : sess[t].age \in 0..2
  BY DEF Shared, Stored, Meta
<1>4. drawn \subseteq Sids
  BY DEF Shared, Stored
<1>5. \A t \in drawn : tx[t] \notin {Nobody, p} =>
        /\ sess'[t].up = sess[t].up /\ sess'[t].term = sess[t].term
        /\ sess'[t].shells = sess[t].shells /\ sess'[t].age >= sess[t].age
  BY <1>1, <1>3, <1>4
<1>6. \A t \in Sids : lease[t] \notin {Nobody, p} /\ sess[t].age <= 1 => sess'[t].age <= 1
  BY <1>1, <1>3
<1>7. \A t \in drawn : sess'[t].remote => sess[t].remote
  BY <1>1, <1>4
<1>8. OfSess(p)
  BY <1>2, <1>5, <1>6, <1>7 DEF OfSess, Shared, Limits
<1> QED BY <1>1, <1>2, <1>8 DEF Shared, Stored

\* The records of what a process does.
LEMMA RecordOfDoing ==
  ASSUME NEW c \in Places, NEW s \in Sids \cup {Nobody}, NEW x \in Shells \cup {Nobody},
         NEW todo \in SUBSET (Sids \cup Shells), NEW seen \in SUBSET (Sids \cup Shells),
         NEW n \in Nat, NEW slots \in {0, 1}, NEW ok \in BOOLEAN
  PROVE  [pc |-> c, s |-> s, x |-> x, todo |-> todo, seen |-> seen, n |-> n,
          slots |-> slots, ok |-> ok] \in Doing
BY SMT DEF Doing

LEMMA IdleIsDoing == Idle \in Doing
<1>1. "idle" \in Places /\ {} \in SUBSET (Sids \cup Shells) /\ 0 \in Nat /\ 0 \in {0, 1}
  BY DEF Places
<1>2. FALSE \in BOOLEAN
  BY Zenon
<1> QED BY Zenon, RecordOfDoing, <1>1, <1>2 DEF Idle

\* The records that an operation begins with.
LEMMA Asked ==
  ASSUME NEW c \in Places
  PROVE  /\ [Idle EXCEPT !.pc = c] \in Doing
         /\ [Idle EXCEPT !.pc = c, !.slots = 1] \in Doing
         /\ \A s \in Sids : [Idle EXCEPT !.pc = c, !.s = s] \in Doing
         /\ \A x \in Shells : [Idle EXCEPT !.pc = c, !.x = x] \in Doing
         /\ \A s \in Sids, x \in Shells : [Idle EXCEPT !.pc = c, !.s = s, !.x = x] \in Doing
         /\ \A S \in SUBSET Sids : [Idle EXCEPT !.pc = c, !.todo = S] \in Doing
<1>1. ASSUME NEW r \in Doing
      PROVE  /\ [r EXCEPT !.pc = c] \in Doing
             /\ [r EXCEPT !.pc = c, !.slots = 1] \in Doing
             /\ \A s \in Sids : [r EXCEPT !.pc = c, !.s = s] \in Doing
             /\ \A x \in Shells : [r EXCEPT !.pc = c, !.x = x] \in Doing
             /\ \A s \in Sids, x \in Shells : [r EXCEPT !.pc = c, !.s = s, !.x = x] \in Doing
             /\ \A S \in SUBSET Sids : [r EXCEPT !.pc = c, !.todo = S] \in Doing
  BY DEF Doing
<1> QED BY <1>1, IdleIsDoing

\* The end of an operation gives back what the process held.
LEMMA Finishes ==
  ASSUME Shared, NEW p \in Procs, Finish(p)
  PROVE  Held' /\ Acts' /\ OfLocks(p) /\ Own(p)'
<1>2. Acts' /\ act'[p] = Idle /\ \A q \in Procs : q # p => act'[q] = act[q]
  BY IdleIsDoing DEF Shared, Acts, Finish
<1>3. /\ \A s \in Sids : lease'[s] = IF lease[s] = p THEN Nobody ELSE lease[s]
      /\ \A s \in Sids : tx'[s] = IF tx[s] = p THEN Nobody ELSE tx[s]
      /\ lease' \in [Sids -> Procs \cup {Nobody}] /\ tx' \in [Sids -> Procs \cup {Nobody}]
  BY DEF Finish, Without, Shared, Held
<1>4. Held'
  BY <1>3 DEF Finish, Shared, Held
<1>5. OfLocks(p)
  BY <1>2, <1>3 DEF OfLocks, MayTake, Finish
<1>6. act'[p].pc = "idle"
  BY <1>2 DEF Idle
<1>7. Own(p)'
  BY <1>6 DEF Own, Names, HoldsLocks, Knows, InStart, Leased, OfSession, OfShell, Pruning, Ending,
             Admitting, Starting
<1> QED BY <1>2, <1>4, <1>5, <1>7

\* A step that gives the process a new record.
LEMMA NewRecord ==
  ASSUME Shared, NEW p \in Procs, NEW r \in Doing, act' = [act EXCEPT ![p] = r]
  PROVE  Acts' /\ act'[p] = r /\ \A q \in Procs : q # p => act'[q] = act[q]
BY DEF Shared, Acts

\* A step without a change of locks that gives the process a new record.
LEMMA Goes ==
  ASSUME Shared, NEW p \in Procs, NEW r \in Doing, act' = [act EXCEPT ![p] = r], locks' = locks
  PROVE  Held' /\ Acts' /\ OfLocks(p) /\ act'[p] = r
<1>1. Acts' /\ act'[p] = r /\ \A q \in Procs : q # p => act'[q] = act[q]
  BY DEF Shared, Acts
<1> QED BY <1>1 DEF OfLocks, MayTake, Shared, Held, locks

\* A record with another place in the program.
LEMMA NewPlace ==
  ASSUME Shared, NEW p \in Procs, NEW c \in Places, GoesTo(p, c)
  PROVE  /\ [act[p] EXCEPT !.pc = c] \in Doing
         /\ act' = [act EXCEPT ![p] = [act[p] EXCEPT !.pc = c]]
         /\ Acts' /\ \A q \in Procs : q # p => act'[q] = act[q]
         /\ act'[p].pc = c /\ act'[p].s = act[p].s /\ act'[p].x = act[p].x
         /\ act'[p].todo = act[p].todo /\ act'[p].seen = act[p].seen /\ act'[p].n = act[p].n
         /\ act'[p].slots = act[p].slots /\ act'[p].ok = act[p].ok
BY DEF GoesTo, Shared, Acts, Doing

\* A step that touches only the locks and what the process does.
LEMMA OnlyLocks ==
  ASSUME SessInv, NEW p \in Procs, UNCHANGED <<sess, drawn, job, live>>,
         Held', Acts', OfLocks(p), Own(p)'
  PROVE  Keeps(p)
BY SessSame, LiveSame, JobSame DEF SessInv, Keeps, Typed, Effects

(*****************************************************************************)
(* One lemma per action from here on: a step of the process keeps the types, *)
(* stays within Effects and leaves the process with its part of the          *)
(* invariant (Keeps).                                                        *)
(*****************************************************************************)
\* An operation that dies, or gives up, gives back its locks.
LEMMA DiesKeeps ==
  ASSUME SessInv, NEW p \in Procs, GiveUp(p)
  PROVE  Keeps(p)
BY Finishes, OnlyLocks DEF GiveUp, SessInv

LEMMA BeginKeeps ==
  ASSUME SessInv, NEW p \in Procs, NEW kind, NEW r \in Doing, Begin(p, kind, r),
         \/ r.pc \in {"prune"}
         \/ r.pc \in {"end", "job", "use"} /\ r.s \in Sids /\ r.todo = {}
         \/ r.pc = "shell" /\ r.s \in Sids /\ r.x \in Shells
         \/ r.pc = "admission" /\ r.s = Nobody
         \/ r.pc = "kill" /\ r.x \in Shells
         \/ r.pc = "admit" /\ r.todo \subseteq Sids /\ r.seen = {}
  PROVE  Keeps(p)
<1>1. Held' /\ Acts' /\ OfLocks(p) /\ act'[p] = r
  BY Goes DEF Begin, SessInv, locks
<1>2. Names(p)'
  BY <1>1 DEF Names, InStart, Sid, Shell, OfSession, OfShell, Pruning, Ending, Admitting, Starting
<1>3. HoldsLocks(p)'
  BY <1>1 DEF HoldsLocks, Leased, InStart, Sid, Pruning, Ending, Admitting, Starting
<1>4. Knows(p)'
  BY <1>1 DEF Knows, InStart, Sid, Admitting, Starting
<1> QED BY <1>1, <1>2, <1>3, <1>4, OnlyLocks DEF Begin, Own

LEMMA BeginAnyKeeps ==
  ASSUME SessInv, NEW p \in Procs, BeginAny(p)
  PROVE  Keeps(p)
<1>1. CASE Begin(p, "create", [Idle EXCEPT !.pc = "prune", !.slots = 1])
  <2> DEFINE r == [Idle EXCEPT !.pc = "prune", !.slots = 1]
  <2>1. r \in Doing /\ r.pc = "prune"
    BY Asked DEF Idle, Places
  <2> QED BY <2>1, <1>1, BeginKeeps
<1>2. CASE Begin(p, "list", [Idle EXCEPT !.pc = "prune"])
  <2> DEFINE r == [Idle EXCEPT !.pc = "prune"]
  <2>1. r \in Doing /\ r.pc = "prune"
    BY Asked DEF Idle, Places
  <2> QED BY <2>1, <1>2, BeginKeeps
<1>3. ASSUME NEW s \in Sids, NEW c \in {"end", "job", "use"},
             Begin(p, c, [Idle EXCEPT !.pc = c, !.s = s])
      PROVE  Keeps(p)
  <2> DEFINE r == [Idle EXCEPT !.pc = c, !.s = s]
  <2>1. r \in Doing /\ r.pc = c /\ r.s = s /\ r.todo = {}
    BY Asked, ZenonT(40) DEF Idle, Places
  <2> QED BY <2>1, <1>3, BeginKeeps
<1>4. ASSUME NEW x \in Shells, NEW s \in Sids,
             Begin(p, "shell", [Idle EXCEPT !.pc = "shell", !.s = s, !.x = x])
      PROVE  Keeps(p)
  <2> DEFINE r == [Idle EXCEPT !.pc = "shell", !.s = s, !.x = x]
  <2>1. r \in Doing /\ r.pc = "shell" /\ r.s = s /\ r.x = x
    BY Asked DEF Idle, Places
  <2> QED BY <2>1, <1>4, BeginKeeps
<1>5. ASSUME NEW x \in Shells, Begin(p, "shell", [Idle EXCEPT !.pc = "admission", !.x = x])
      PROVE  Keeps(p)
  <2> DEFINE r == [Idle EXCEPT !.pc = "admission", !.x = x]
  <2>1. r \in Doing /\ r.pc = "admission" /\ r.s = Nobody
    BY Asked DEF Idle, Places
  <2> QED BY <2>1, <1>5, BeginKeeps
<1>6. ASSUME NEW x \in Shells, Begin(p, "kill", [Idle EXCEPT !.pc = "kill", !.x = x])
      PROVE  Keeps(p)
  <2> DEFINE r == [Idle EXCEPT !.pc = "kill", !.x = x]
  <2>1. r \in Doing /\ r.pc = "kill" /\ r.x = x
    BY Asked DEF Idle, Places
  <2> QED BY <2>1, <1>6, BeginKeeps
<1>7. CASE Begin(p, "shells", [Idle EXCEPT !.pc = "admission"])
  <2> DEFINE r == [Idle EXCEPT !.pc = "admission"]
  <2>1. r \in Doing /\ r.pc = "admission" /\ r.s = Nobody
    BY Asked DEF Idle, Places
  <2> QED BY <2>1, <1>7, BeginKeeps
<1>8. ASSUME NEW S \in SUBSET Sids, Begin(p, "admit", [Idle EXCEPT !.pc = "admit", !.todo = S])
      PROVE  Keeps(p)
  <2> DEFINE r == [Idle EXCEPT !.pc = "admit", !.todo = S]
  <2>1. r \in Doing /\ r.pc = "admit" /\ r.todo = S /\ r.seen = {}
    BY Asked DEF Idle, Places
  <2> QED BY <2>1, <1>8, BeginKeeps
<1> QED
  BY <1>1, <1>2, <1>3, <1>4, <1>5, <1>6, <1>7, <1>8 DEF BeginAny

LEMMA TakeLeaseKeeps ==
  ASSUME SessInv, NEW p \in Procs, TakeLease(p)
  PROVE  Keeps(p)
<1>1. /\ act[p].pc \in {"end", "job", "shell"} /\ Sid(p) \in Sids /\ lease[Sid(p)] = Nobody
      /\ act[p].pc = "shell" => Shell(p) \in Shells
      /\ act[p].pc = "end" => act[p].todo \subseteq Shells
  BY DEF TakeLease, LeaseStart, SessInv, Own, Names, OfSession, OfShell
<1>2. PICK c \in {"prepare", "jobTouch", "shellTouch"} :
        /\ GoesTo(p, c)
        /\ c = "shellTouch" => act[p].pc = "shell"
        /\ c = "prepare" => act[p].pc = "end"
  BY <1>1 DEF TakeLease, LeaseStart, At
<1>3. /\ Acts' /\ \A q \in Procs : q # p => act'[q] = act[q]
      /\ act'[p].pc = c /\ Sid(p)' = Sid(p) /\ Shell(p)' = Shell(p) /\ act'[p].todo = act[p].todo
  BY <1>2, NewPlace DEF SessInv, Sid, Shell, Places
<1>4. /\ lease' \in [Sids -> Procs \cup {Nobody}] /\ lease'[Sid(p)] = p
      /\ \A s \in Sids : s # Sid(p) => lease'[s] = lease[s]
  BY <1>1 DEF TakeLease, LeaseStart, SessInv, Shared, Held
<1>5. Held' /\ OfLocks(p)
  BY <1>1, <1>3, <1>4 DEF TakeLease, LeaseStart, SessInv, Shared, Held, OfLocks, MayTake
<1>6. Names(p)'
  BY <1>1, <1>2, <1>3 DEF Names, InStart, OfSession, OfShell, Pruning, Ending, Admitting, Starting
<1>7. HoldsLocks(p)'
  BY <1>2, <1>3, <1>4 DEF HoldsLocks, Leased, InStart, Pruning, Ending, Admitting, Starting
<1>8. Knows(p)'
  BY <1>2, <1>3 DEF Knows, InStart, Admitting, Starting
<1> QED BY <1>3, <1>5, <1>6, <1>7, <1>8, OnlyLocks DEF TakeLease, LeaseStart, Own

--------------------------------------------------------------------------------
\* The prune: its candidates and the locks it takes.
LEMMA TakeRegistryKeeps ==
  ASSUME SessInv, NEW p \in Procs, TakeRegistry(p)
  PROVE  Keeps(p)
<1> DEFINE todo == {s \in Sids : PrunesExpired(s)}
<1>1. todo \in SUBSET (Sids \cup Shells) /\ job \in SUBSET (Sids \cup Shells) /\ todo \subseteq Sids
  BY DEF SessInv, Shared
<1>2. act' = [act EXCEPT ![p].pc = "expired", ![p].seen = job, ![p].todo = todo]
  BY DEF TakeRegistry, StartPruning
<1> HIDE DEF todo
<1>3. /\ Acts' /\ \A q \in Procs : q # p => act'[q] = act[q]
      /\ act'[p].pc = "expired" /\ act'[p].todo = todo
  <2> DEFINE r == [act[p] EXCEPT !.pc = "expired", !.seen = job, !.todo = todo]
  <2>1. act' = [act EXCEPT ![p] = r]
    BY <1>2 DEF SessInv, Shared, Acts
  <2>2. act[p] \in Doing
    BY DEF SessInv, Shared, Acts
  <2>3. r \in Doing /\ r.pc = "expired" /\ r.todo = todo
    BY <2>2, <1>1 DEF Doing, Places
  <2> HIDE DEF r
  <2> QED BY <2>1, <2>3, NewRecord DEF SessInv
<1>4. Held' /\ OfLocks(p)
  BY <1>3 DEF TakeRegistry, StartPruning, SessInv, Shared, Held, OfLocks, MayTake
<1>5. registry' = p
  BY DEF TakeRegistry, StartPruning
<1>6. Own(p)'
  BY <1>1, <1>3, <1>5 DEF Own, Names, HoldsLocks, Knows, InStart, Leased, OfSession, OfShell,
     Pruning,
                     Ending, Admitting, Starting
<1> QED BY <1>3, <1>4, <1>6, OnlyLocks DEF TakeRegistry, StartPruning

LEMMA TryCandidateKeeps ==
  ASSUME SessInv, NEW p \in Procs, TryCandidate(p)
  PROVE  Keeps(p)
<1>1. /\ act[p].pc \in {"expired", "overflow"} /\ registry = p /\ act[p].todo \subseteq Sids
      /\ act[p].pc = "overflow" => Cardinality(Up) <= act[p].n
  BY DEF TryCandidate, SessInv, Own, Names, HoldsLocks, Knows, Pruning
<1>2. ASSUME NEW s \in act[p].todo, lease[s] = Nobody, lease' = [lease EXCEPT ![s] = p],
             act' = [act EXCEPT ![p].s = s,
                       ![p].pc = IF At(p, "expired") THEN "expiredAgain" ELSE "overflowAgain"]
      PROVE  Held' /\ Acts' /\ OfLocks(p) /\ Own(p)'
  <2> DEFINE c == IF At(p, "expired") THEN "expiredAgain" ELSE "overflowAgain"
  <2>1. s \in Sids /\ c \in {"expiredAgain", "overflowAgain"}
        /\ (c = "overflowAgain" => act[p].pc = "overflow")
    BY <1>1, <1>2 DEF At
  <2>2. act' = [act EXCEPT ![p].s = s, ![p].pc = c]
    BY <1>2
  <2> HIDE DEF c
  <2>3. /\ Acts' /\ \A q \in Procs : q # p => act'[q] = act[q]
        /\ act'[p].pc = c /\ act'[p].s = s /\ act'[p].todo = act[p].todo /\ act'[p].n = act[p].n
    <3> DEFINE r == [act[p] EXCEPT !.s = s, !.pc = c]
    <3>1. act' = [act EXCEPT ![p] = r]
      BY <2>2 DEF SessInv, Shared, Acts
    <3>2. act[p] \in Doing
      BY DEF SessInv, Shared, Acts
    <3>3. r \in Doing /\ r.pc = c /\ r.s = s /\ r.todo = act[p].todo /\ r.n = act[p].n
      BY <3>2, <2>1 DEF Doing, Places
    <3> HIDE DEF r
    <3> QED BY <3>1, <3>3, NewRecord DEF SessInv
  <2>4. /\ lease' \in [Sids -> Procs \cup {Nobody}] /\ lease'[s] = p
        /\ \A t \in Sids : t # s => lease'[t] = lease[t]
    BY <1>2, <2>1 DEF SessInv, Shared, Held
  <2>5. Held' /\ OfLocks(p)
    BY <1>2, <2>1, <2>3, <2>4 DEF TryCandidate, SessInv, Shared, Held, OfLocks, MayTake
  <2>6. Names(p)'
    BY <1>1, <2>1, <2>3 DEF Names, InStart, Sid, Shell, OfSession, OfShell, Pruning, Ending,
                       Admitting, Starting
  <2>7. HoldsLocks(p)'
    BY <1>1, <2>1, <2>3, <2>4 DEF TryCandidate, HoldsLocks, Leased, InStart, Sid, Pruning, Ending,
                             Admitting, Starting
  <2>8. Knows(p)'
    BY <1>1, <2>1, <2>3 DEF TryCandidate, Knows, InStart, Admitting, Starting, Up
  <2> QED BY <2>3, <2>5, <2>6, <2>7, <2>8 DEF Own
<1>3. ASSUME NEW s \in act[p].todo, lease' = lease,
             act' = [act EXCEPT ![p].todo = @ \ {s}]
      PROVE  Held' /\ Acts' /\ OfLocks(p) /\ Own(p)'
  <2>1. act[p].todo \ {s} \in SUBSET (Sids \cup Shells)
    BY DEF SessInv, Shared, Acts, Doing
  <2>2. /\ Acts' /\ \A q \in Procs : q # p => act'[q] = act[q]
        /\ act'[p].pc = act[p].pc /\ act'[p].todo \subseteq act[p].todo /\ act'[p].n = act[p].n
    BY <1>3, <2>1 DEF SessInv, Shared, Acts, Doing
  <2>3. Held' /\ OfLocks(p)
    BY <1>3, <2>2 DEF TryCandidate, SessInv, Shared, Held, OfLocks, MayTake
  <2>4. Own(p)'
    BY <1>1, <2>2 DEF TryCandidate, Own, Names, HoldsLocks, Knows, InStart, Leased, OfSession,
       OfShell,
                 Pruning, Ending, Admitting, Starting, Up
  <2> QED BY <2>2, <2>3, <2>4
<1>4. Held' /\ Acts' /\ OfLocks(p) /\ Own(p)'
  BY <1>2, <1>3 DEF TryCandidate
<1> QED BY <1>4, OnlyLocks DEF TryCandidate

LEMMA StartOverflowKeeps ==
  ASSUME SessInv, NEW p \in Procs, StartOverflow(p)
  PROVE  Keeps(p)
<1> DEFINE todo == IF Cardinality(Up) <= Target(p) THEN {}
                   ELSE {s \in Up : /\ ~sess[s].remote /\ sess[s].age >= 1
                                    /\ sess[s].shells = {} /\ s \notin act[p].seen}
           n == Cardinality(Up)
<1>1. todo \subseteq Sids /\ todo \in SUBSET (Sids \cup Shells)
  BY DEF Up
<1>2. n \in Nat
  BY FS_Subset, FS_CardinalityType DEF SessInv, Shared, Limits, Stored
<1>3. act' = [act EXCEPT ![p].pc = "overflow", ![p].n = n, ![p].todo = todo]
  BY DEF StartOverflow
<1>4. registry = p /\ registry' = p
  BY DEF StartOverflow, locks, SessInv, Own, HoldsLocks, Pruning, At
<1>5. n = Cardinality(Up') /\ n <= n
  <2>1. Up' = Up
    BY DEF StartOverflow, Up
  <2> QED BY <1>2, <2>1
<1> HIDE DEF todo, n
<1>6. /\ Acts' /\ \A q \in Procs : q # p => act'[q] = act[q]
      /\ act'[p].pc = "overflow" /\ act'[p].todo = todo /\ act'[p].n = n
  <2> DEFINE r == [act[p] EXCEPT !.pc = "overflow", !.n = n, !.todo = todo]
  <2>1. act' = [act EXCEPT ![p] = r]
    BY <1>3 DEF SessInv, Shared, Acts
  <2>2. act[p] \in Doing
    BY DEF SessInv, Shared, Acts
  <2>3. r \in Doing /\ r.pc = "overflow" /\ r.todo = todo /\ r.n = n
    BY <2>2, <1>1, <1>2 DEF Doing, Places
  <2> HIDE DEF r
  <2> QED BY <2>1, <2>3, NewRecord DEF SessInv
<1>7. Held' /\ OfLocks(p)
  BY <1>6 DEF StartOverflow, SessInv, Shared, Held, OfLocks, MayTake, locks
<1>8. Own(p)'
  BY <1>1, <1>4, <1>5, <1>6 DEF Own, Names, HoldsLocks, Knows, InStart, Leased, OfSession, OfShell,
                           Pruning, Ending, Admitting, Starting
<1> QED BY <1>6, <1>7, <1>8, OnlyLocks DEF StartOverflow

LEMMA PruneCandidateKeeps ==
  ASSUME SessInv, NEW p \in Procs, PruneCandidate(p)
  PROVE  Keeps(p)
<1> DEFINE s == Sid(p)
           over == At(p, "overflowAgain")
           c == IF over THEN "overflow" ELSE "expired"
           n == IF over THEN Cardinality({t \in Sids : sess'[t].up}) ELSE act[p].n
           todo == IF over /\ Cardinality(Up) <= Target(p) THEN {} ELSE act[p].todo \ {s}
           r == IF Prunes(p) THEN Gone ELSE sess[s]
<1>1. /\ act[p].pc \in {"expiredAgain", "overflowAgain"} /\ s \in Sids /\ tx[s] = Nobody
      /\ registry = p /\ lease[s] = p /\ act[p].todo \subseteq Sids
  BY DEF PruneCandidate, SessInv, Own, Names, HoldsLocks, OfSession, Pruning, Leased
<1>2. Gone \in Meta /\ Gone.age = 0 /\ ~Gone.up /\ ~Gone.remote
  BY DEF Gone, Meta
<1>3. r \in Meta /\ (r.age <= 1 \/ r.age = sess[s].age) /\ (r.up => sess[s].up)
      /\ (r.remote => sess[s].remote)
  BY <1>1, <1>2 DEF SessInv, Shared, Stored
<1>4. sess' = [sess EXCEPT ![s] = r]
  BY <1>1 DEF PruneCandidate, Removed, SessInv, Shared, Stored
<1>5. Stored' /\ OfSess(p)
  BY <1>1, <1>3, <1>4, OneSess DEF PruneCandidate, SessInv
<1>6. n \in Nat
  <2>1. IsFiniteSet(drawn') /\ Up' \subseteq drawn'
    BY <1>5 DEF OfSess, Stored
  <2>2. Cardinality(Up') \in Nat
    BY <2>1, FS_Subset, FS_CardinalityType
  <2> QED BY <2>2 DEF Up, SessInv, Shared, Acts, Doing
<1>7. over => n = Cardinality(Up') /\ Cardinality(Up') <= n
  BY <1>6 DEF Up
<1>8. act' = [act EXCEPT ![p].pc = c, ![p].s = Nobody, ![p].n = n, ![p].todo = todo]
  BY DEF PruneCandidate
<1>9. todo \subseteq Sids /\ todo \in SUBSET (Sids \cup Shells) /\ c \in {"overflow", "expired"}
      /\ (c = "overflow" => over)
  BY <1>1
<1> HIDE DEF c, n, todo, r, over
<1>10. /\ Acts' /\ \A q \in Procs : q # p => act'[q] = act[q]
       /\ act'[p].pc = c /\ act'[p].todo = todo /\ act'[p].n = n
  <2> DEFINE new == [act[p] EXCEPT !.pc = c, !.s = Nobody, !.n = n, !.todo = todo]
  <2>1. act' = [act EXCEPT ![p] = new]
    BY <1>8 DEF SessInv, Shared, Acts
  <2>2. act[p] \in Doing
    BY DEF SessInv, Shared, Acts
  <2>3. new \in Doing /\ new.pc = c /\ new.todo = todo /\ new.n = n
    BY <2>2, <1>6, <1>9 DEF Doing, Places
  <2> HIDE DEF new
  <2> QED BY <2>1, <2>3, NewRecord DEF SessInv
<1>11. Held' /\ OfLocks(p)
  BY <1>1, <1>10 DEF PruneCandidate, SessInv, Shared, Held, OfLocks, MayTake
<1>12. Own(p)'
  BY <1>1, <1>7, <1>9, <1>10 DEF PruneCandidate, Own, Names, HoldsLocks, Knows, InStart,
     Leased, OfSession,
                            OfShell, Pruning, Ending, Admitting, Starting
<1> QED
  BY <1>5, <1>10, <1>11, <1>12, LiveSame, JobSame
  DEF PruneCandidate, SessInv, Keeps, Typed, Effects

LEMMA EndPruningKeeps ==
  ASSUME SessInv, NEW p \in Procs, EndPruning(p)
  PROVE  Keeps(p)
<1>1. /\ registry = p /\ Cardinality(Up) <= act[p].n /\ act[p].n \in Nat
      /\ job' = job /\ live' = live
  BY DEF EndPruning, At, SessInv, Shared, Acts, Doing, Own, HoldsLocks, Knows, Pruning
<1>2. Held' /\ Acts' /\ OfLocks(p) /\ Own(p)'
  BY Finishes DEF EndPruning, SessInv
<1>3. CASE sess' = sess /\ drawn' = drawn
  BY <1>1, <1>2, <1>3, SessSame, LiveSame, JobSame DEF SessInv, Keeps, Typed, Effects
<1>4. ASSUME act[p].n < MaxSessions, NEW s \in Sids \ drawn, NEW remote \in BOOLEAN,
             sess' = [sess EXCEPT ![s] = Fresh(remote)], drawn' = drawn \cup {s}
      PROVE  Stored' /\ OfSess(p)
  <2>1. Fresh(remote) \in Meta /\ Fresh(remote).age = 0 /\ Fresh(remote).up
    <3>1. ASSUME NEW r \in Meta
          PROVE  /\ [r EXCEPT !.up = TRUE, !.remote = remote] \in Meta
                 /\ [r EXCEPT !.up = TRUE, !.remote = remote].age = r.age
                 /\ [r EXCEPT !.up = TRUE, !.remote = remote].up
      BY DEF Meta
    <3>2. Gone \in Meta /\ Gone.age = 0
      BY DEF Gone, Meta
    <3> QED BY <3>1, <3>2 DEF Fresh
  <2>2. /\ sess' \in [Sids -> Meta] /\ sess'[s].age = 0 /\ sess'[s].up
        /\ \A t \in Sids : t # s => sess'[t] = sess[t]
    BY <2>1, <1>4 DEF SessInv, Shared, Stored
  <2>3. drawn \subseteq Sids /\ Up \subseteq drawn /\ IsFiniteSet(drawn) /\ s \notin drawn
    BY DEF SessInv, Shared, Stored, Limits
  <2>4. Up' = Up \cup {s}
    BY <2>2 DEF Up
  <2>5. IsFiniteSet(drawn') /\ Stored'
    BY <2>2, <2>3, <2>4, <1>4, FS_AddElement DEF Stored
  <2>6. Cardinality(Up') <= MaxSessions
    <3>1. IsFiniteSet(Up) /\ s \notin Up
      BY <2>3, FS_Subset
    <3>2. Cardinality(Up') = Cardinality(Up) + 1 /\ Cardinality(Up) \in Nat
      BY <3>1, <2>4, FS_AddElement, FS_CardinalityType
    <3> QED BY <3>2, <1>1, <1>4, SessionsAssumption
  <2>7. \A t \in drawn : t \in Sids /\ sess'[t] = sess[t] /\ sess[t].age \in 0..2
    BY <2>2, <2>3 DEF SessInv, Shared, Stored, Meta
  <2>8. \A t \in Sids : sess[t].age <= 1 => sess'[t].age <= 1
    BY <2>2
  <2> QED BY <2>5, <2>6, <2>7, <2>8, <1>1, <1>4 DEF OfSess
<1>5. CASE ~(sess' = sess /\ drawn' = drawn)
  <2>1. Stored' /\ OfSess(p)
    BY <1>4, <1>5 DEF EndPruning
  <2> QED BY <2>1, <1>1, <1>2, LiveSame, JobSame DEF SessInv, Keeps, Typed, Effects
<1> QED BY <1>3, <1>5

--------------------------------------------------------------------------------
\* A step that ends the operation with a write to the store.
LEMMA LastWrite ==
  ASSUME SessInv, NEW p \in Procs, Finish(p), Stored', OfSess(p), job' = job, live' = live
  PROVE  Keeps(p)
BY Finishes, LiveSame, JobSame DEF SessInv, Keeps, Typed, Effects

\* A session is touched, or removed, under its transaction.
LEMMA TouchOrRemove ==
  ASSUME SessInv, NEW p \in Procs, NEW s \in Sids, tx[s] \in {Nobody, p}, drawn' = drawn,
         sess' \in {Touched(s), Removed(s), sess}
  PROVE  Stored' /\ OfSess(p)
<1>1. CASE sess' = Touched(s)
  <2> DEFINE r == [sess[s] EXCEPT !.age = 0]
  <2>1. sess' = [sess EXCEPT ![s] = r]
    BY <1>1 DEF Touched, SessInv, Shared, Stored
  <2>2. sess[s] \in Meta
    BY DEF SessInv, Shared, Stored
  <2>3. /\ r \in Meta /\ r.age <= 1
        /\ r.up => sess[s].up
        /\ r.remote => sess[s].remote
    BY <2>2 DEF Meta
  <2>4. Shared
    BY DEF SessInv
  <2> HIDE DEF r
  <2> QED BY <2>1, <2>3, <2>4, OneSess
<1>2. CASE sess' = Removed(s)
  <2>1. Gone \in Meta /\ Gone.age <= 1 /\ ~Gone.up /\ ~Gone.remote
    BY DEF Gone, Meta
  <2>2. Shared /\ sess' = [sess EXCEPT ![s] = Gone]
    BY <1>2 DEF SessInv, Removed
  <2> QED BY <2>1, <2>2, OneSess
<1>3. CASE sess' = sess
  BY <1>3, SessSame DEF SessInv
<1> QED BY <1>1, <1>2, <1>3

LEMMA UseKeeps ==
  ASSUME SessInv, NEW p \in Procs, Use(p)
  PROVE  Keeps(p)
<1> DEFINE s == Sid(p)
<1>1. act[p].pc = "use" /\ s \in Sids /\ tx[s] = Nobody
  BY DEF Use, At, SessInv, Own, Names, OfSession
<1>2. CASE Write(Touched(s)) /\ Finish(p)
  <2>1. Stored' /\ OfSess(p)
    BY <1>1, <1>2, TouchOrRemove DEF Write
  <2> QED BY <1>2, <2>1, LastWrite DEF Write
<1>3. CASE GiveUp(p)
  BY <1>3, DiesKeeps
<1>4. CASE /\ Expired(s)
           /\ tx' = [tx EXCEPT ![s] = p] /\ GoesTo(p, "drop")
           /\ UNCHANGED <<sess, drawn, job, live, lease, registry, admission, ops, grown>>
  <2>1. /\ Acts' /\ \A q \in Procs : q # p => act'[q] = act[q]
        /\ act'[p].pc = "drop" /\ Sid(p)' = s
    BY <1>4, NewPlace DEF SessInv, Sid, Places
  <2>2. /\ tx' \in [Sids -> Procs \cup {Nobody}] /\ tx'[s] = p
        /\ \A t \in Sids : t # s => tx'[t] = tx[t]
    BY <1>1, <1>4 DEF SessInv, Shared, Held
  <2>3. Held' /\ OfLocks(p)
    BY <1>1, <1>4, <2>1, <2>2 DEF SessInv, Shared, Held, OfLocks, MayTake
  <2>4. Expired(Sid(p))'
    BY <1>4, <2>1 DEF Expired, Unprotected
  <2>5. Names(p)' /\ HoldsLocks(p)'
    BY <1>1, <2>1, <2>2 DEF Names, HoldsLocks, InStart, Leased, OfSession, OfShell, Pruning, Ending,
                       Admitting, Starting
  <2>6. Knows(p)'
    BY <2>1, <2>4 DEF Knows, InStart, Admitting, Starting
  <2> QED BY <1>4, <2>1, <2>3, <2>5, <2>6, OnlyLocks DEF Own
<1> QED BY <1>2, <1>3, <1>4 DEF Use

LEMMA DropExpiredKeeps ==
  ASSUME SessInv, NEW p \in Procs, DropExpired(p)
  PROVE  Keeps(p)
<1>1. Sid(p) \in Sids /\ tx[Sid(p)] = p
  BY DEF DropExpired, At, SessInv, Own, Names, HoldsLocks, OfSession
<1>2. sess' \in {Removed(Sid(p)), sess} /\ drawn' = drawn /\ job' = job /\ live' = live
  BY DEF DropExpired, Write
<1>3. Stored' /\ OfSess(p)
  BY <1>1, <1>2, TouchOrRemove
<1> QED BY <1>2, <1>3, LastWrite DEF DropExpired

LEMMA AdmitLockKeeps ==
  ASSUME SessInv, NEW p \in Procs, AdmitLock(p)
  PROVE  Keeps(p)
<1>1. PICK s \in act[p].todo :
        /\ tx[s] = Nobody /\ tx' = [tx EXCEPT ![s] = p]
        /\ act' = [act EXCEPT ![p].todo = @ \ {s}, ![p].seen = @ \cup {s}]
  BY DEF AdmitLock
<1>2. /\ act[p].pc = "admit" /\ s \in Sids /\ act[p].todo \subseteq Sids /\ act[p].seen \subseteq Sids
      /\ \A t \in act[p].seen : tx[t] = p
  BY DEF AdmitLock, At, SessInv, Own, Names, HoldsLocks
<1> DEFINE todo == act[p].todo \ {s}
           seen == act[p].seen \cup {s}
           r == [act[p] EXCEPT !.todo = todo, !.seen = seen]
<1>3. act' = [act EXCEPT ![p] = r]
  BY <1>1 DEF SessInv, Shared, Acts
<1>4. act[p] \in Doing /\ todo \subseteq Sids /\ seen \subseteq Sids
  BY <1>2 DEF SessInv, Shared, Acts
<1>5. r \in Doing /\ r.pc = "admit" /\ r.todo = todo /\ r.seen = seen
  BY <1>2, <1>4 DEF Doing
<1>6. /\ tx' \in [Sids -> Procs \cup {Nobody}] /\ tx'[s] = p
      /\ \A t \in Sids : t # s => tx'[t] = tx[t]
  BY <1>1, <1>2 DEF SessInv, Shared, Held
<1>7. \A t \in seen : tx'[t] = p
  BY <1>2, <1>6
<1> HIDE DEF r, todo, seen
<1>8. Acts' /\ act'[p] = r /\ \A q \in Procs : q # p => act'[q] = act[q]
  BY <1>3, <1>5, NewRecord DEF SessInv
<1>9. Held' /\ OfLocks(p)
  BY <1>1, <1>2, <1>6, <1>8 DEF AdmitLock, SessInv, Shared, Held, OfLocks, MayTake
<1>10. Own(p)'
  BY <1>4, <1>5, <1>7, <1>8 DEF Own, Names, HoldsLocks, Knows, InStart, Leased, OfSession,
     OfShell, Pruning,
                       Ending, Admitting, Starting
<1> QED BY <1>8, <1>9, <1>10, OnlyLocks DEF AdmitLock

LEMMA AdmitCheckKeeps ==
  ASSUME SessInv, NEW p \in Procs, AdmitCheck(p)
  PROVE  Keeps(p)
<1>1. /\ act[p].pc = "admit" /\ act[p].seen \subseteq Sids
      /\ \A s \in act[p].seen : tx[s] = p /\ sess[s].up /\ ~sess[s].term
  BY DEF AdmitCheck, Admissible, Current, At, SessInv, Own, Names, HoldsLocks
<1>2. /\ [act[p] EXCEPT !.pc = "admitted"] \in Doing
      /\ act' = [act EXCEPT ![p] = [act[p] EXCEPT !.pc = "admitted"]]
      /\ act'[p].pc = "admitted" /\ act'[p].seen = act[p].seen
  BY NewPlace DEF AdmitCheck, Admissible, SessInv, Places
<1>3. Held' /\ Acts' /\ OfLocks(p)
  BY <1>2, Goes DEF AdmitCheck, SessInv
<1>4. Own(p)'
  BY <1>1, <1>2 DEF AdmitCheck, locks, Own, Names, HoldsLocks, Knows, InStart, Leased,
     OfSession, OfShell,
               Pruning, Ending, Admitting, Starting
<1> QED BY <1>3, <1>4, OnlyLocks DEF AdmitCheck

LEMMA AdmitRefusedKeeps ==
  ASSUME SessInv, NEW p \in Procs, AdmitRefused(p)
  PROVE  Keeps(p)
<1>1. PICK s \in act[p].seen : Write(IF Expired(s) /\ Droppable(s) THEN Removed(s) ELSE sess)
  BY DEF AdmitRefused
<1>2. s \in Sids /\ tx[s] = p
  BY DEF AdmitRefused, At, SessInv, Own, Names, HoldsLocks
<1>3. sess' \in {Removed(s), sess} /\ drawn' = drawn /\ job' = job /\ live' = live
  BY <1>1 DEF Write
<1>4. Stored' /\ OfSess(p)
  BY <1>2, <1>3, TouchOrRemove
<1> QED BY <1>3, <1>4, LastWrite DEF AdmitRefused

LEMMA AdmitWriteKeeps ==
  ASSUME SessInv, NEW p \in Procs, AdmitWrite(p)
  PROVE  Keeps(p)
<1>1. act[p].seen \subseteq Sids /\ \A s \in act[p].seen : tx[s] = p
  BY DEF AdmitWrite, At, SessInv, Own, Names, HoldsLocks
<1>2. \A s \in Sids : sess[s] \in Meta /\ sess[s].age \in 0..2
  BY DEF SessInv, Shared, Stored, Meta
<1>3. ASSUME NEW s \in Sids
      PROVE  /\ [sess[s] EXCEPT !.age = 0] \in Meta
             /\ [sess[s] EXCEPT !.age = 0].up = sess[s].up
             /\ [sess[s] EXCEPT !.age = 0].remote = sess[s].remote
             /\ [sess[s] EXCEPT !.age = 0].age = 0
  BY <1>2 DEF Meta
<1>4. /\ \A s \in act[p].seen : sess'[s] = [sess[s] EXCEPT !.age = 0]
      /\ \A s \in Sids \ act[p].seen : sess'[s] = sess[s]
      /\ sess' \in [Sids -> Meta]
  <2>1. sess' = [s \in Sids |-> IF s \in act[p].seen THEN [sess[s] EXCEPT !.age = 0] ELSE sess[s]]
    BY DEF AdmitWrite, Write
  <2> QED BY <1>1, <1>2, <1>3, <2>1
<1>5. /\ \A s \in Sids : /\ sess'[s].up = sess[s].up /\ sess'[s].remote = sess[s].remote
                         /\ sess'[s].age = 0 \/ sess'[s] = sess[s]
                         /\ tx[s] # p => sess'[s] = sess[s]
  BY <1>1, <1>3, <1>4
<1>6. Up' = Up /\ drawn' = drawn /\ job' = job /\ live' = live /\ drawn \subseteq Sids
  BY <1>5 DEF Up, AdmitWrite, Write, SessInv, Shared, Stored
<1>7. Stored'
  BY <1>4, <1>6 DEF SessInv, Shared, Stored
<1>8. OfSess(p)
  BY <1>2, <1>5, <1>6 DEF OfSess, SessInv, Shared, Limits
<1> QED BY <1>6, <1>7, <1>8, LastWrite DEF AdmitWrite

LEMMA LeasedTouchKeeps ==
  ASSUME SessInv, NEW p \in Procs, NEW from, NEW to, LeasedTouch(p, from, to),
         <<from, to>> \in {<<"jobTouch", "jobStart">>, <<"shellTouch", "admission">>}
  PROVE  Keeps(p)
<1> DEFINE s == Sid(p)
<1>1. CASE GiveUp(p)
  BY <1>1, DiesKeeps
<1>2. CASE /\ Current(s) /\ (from = "shellTouch" => ~sess[s].remote)
           /\ Write(Touched(s))
           /\ GoesTo(p, to) /\ UNCHANGED locks
  <2>1. /\ act[p].pc = from /\ s \in Sids /\ tx[s] = Nobody /\ lease[s] = p
        /\ from = "shellTouch" => Shell(p) \in Shells
    BY DEF LeasedTouch, At, SessInv, Own, Names, HoldsLocks, OfSession, OfShell, Leased
  <2>2. Stored' /\ OfSess(p)
    BY <1>2, <2>1, TouchOrRemove DEF Write
  <2>3. to \in Places
    BY DEF Places
  <2>4. /\ [act[p] EXCEPT !.pc = to] \in Doing
        /\ act' = [act EXCEPT ![p] = [act[p] EXCEPT !.pc = to]]
        /\ act'[p].pc = to /\ Sid(p)' = s /\ Shell(p)' = Shell(p)
    BY <1>2, <2>3, NewPlace DEF SessInv, Sid, Shell
  <2>5. Held' /\ Acts' /\ OfLocks(p)
    BY <1>2, <2>4, Goes DEF SessInv
  <2>6. s \in drawn' /\ sess'[s].age = 0 /\ (from = "shellTouch" => ~sess'[s].remote)
    <3>1. sess[s] \in Meta /\ sess'[s] = [sess[s] EXCEPT !.age = 0]
      BY <1>2, <2>1 DEF Write, Touched, SessInv, Shared, Stored
    <3>2. sess'[s].age = 0 /\ sess'[s].remote = sess[s].remote
      BY <3>1 DEF Meta
    <3>3. s \in Up /\ Up \subseteq drawn /\ drawn' = drawn
      BY <1>2, <2>1 DEF Current, Up, Write, SessInv, Shared, Stored
    <3> QED BY <1>2, <3>2, <3>3
  <2>7. Names(p)'
    BY <2>1, <2>4 DEF Names, InStart, OfSession, OfShell, Pruning, Ending, Admitting, Starting
  <2>8. HoldsLocks(p)'
    BY <1>2, <2>1, <2>4 DEF HoldsLocks, InStart, Leased, Pruning, Ending, Admitting, Starting, locks
  <2>9. Knows(p)'
    BY <2>4, <2>6 DEF Knows, InStart, Admitting, Starting
  <2> QED
    BY <1>2, <2>2, <2>5, <2>7, <2>8, <2>9, LiveSame, JobSame
    DEF Write, SessInv, Keeps, Typed, Effects, Own
<1> QED BY <1>1, <1>2 DEF LeasedTouch

LEMMA StartJobKeeps ==
  ASSUME SessInv, NEW p \in Procs, StartJob(p)
  PROVE  Keeps(p)
<1>1. Sid(p) \in Sids /\ lease[Sid(p)] = p /\ sess[Sid(p)].age <= 1
  BY DEF StartJob, At, SessInv, Own, Names, HoldsLocks, Knows, OfSession, Leased
<1>2. OfJob(p)
  BY <1>1 DEF StartJob, OfJob
<1> QED
  BY <1>2, Finishes, SessSame, LiveSame DEF StartJob, SessInv, Keeps, Typed, Effects

--------------------------------------------------------------------------------
\* What a write under a session's transaction may set: its shells, its mark of
\* termination, the time of its last use.
LEMMA Rewritten ==
  ASSUME SessInv, NEW p, NEW s \in Sids, tx[s] \in {Nobody, p}, drawn' = drawn,
         NEW S \in SUBSET Shells, NEW r,
         r \in {[sess[s] EXCEPT !.shells = S], [sess[s] EXCEPT !.age = 0, !.shells = S],
                [sess[s] EXCEPT !.age = 0, !.term = TRUE]},
         sess' = [sess EXCEPT ![s] = r]
  PROVE  Stored' /\ OfSess(p) /\ \A t \in Sids : sess'[t].remote = sess[t].remote
<1>1. sess[s] \in Meta /\ Shared
  BY DEF SessInv, Shared, Stored
<1>2. /\ r \in Meta /\ (r.age <= 1 \/ r.age = sess[s].age)
      /\ r.up => sess[s].up
      /\ r.remote => sess[s].remote
      /\ r.remote = sess[s].remote
  <2>1. ASSUME NEW m \in Meta
         PROVE  [m EXCEPT !.age = 0] \in Meta /\ [m EXCEPT !.shells = S] \in Meta
    BY DEF Meta
  <2>2. ASSUME NEW m \in Meta
         PROVE  [m EXCEPT !.age = 0, !.shells = S] \in Meta
    <3>1. [m EXCEPT !.age = 0] \in Meta
      BY <2>1
    <3> QED BY <3>1 DEF Meta
  <2>3. ASSUME NEW m \in Meta
         PROVE  [m EXCEPT !.age = 0, !.term = TRUE] \in Meta
    <3>1. [m EXCEPT !.age = 0] \in Meta
      BY <2>1
    <3> QED BY <3>1 DEF Meta
  <2>4. ASSUME NEW m \in Meta
        PROVE  /\ [m EXCEPT !.shells = S].up = m.up
               /\ [m EXCEPT !.shells = S].remote = m.remote
               /\ [m EXCEPT !.shells = S].age = m.age
    BY DEF Meta
  <2>5. ASSUME NEW m \in Meta
        PROVE  /\ [m EXCEPT !.age = 0, !.shells = S].up = m.up
               /\ [m EXCEPT !.age = 0, !.shells = S].remote = m.remote
               /\ [m EXCEPT !.age = 0, !.shells = S].age = 0
    BY DEF Meta
  <2>6. ASSUME NEW m \in Meta
        PROVE  /\ [m EXCEPT !.age = 0, !.term = TRUE].up = m.up
               /\ [m EXCEPT !.age = 0, !.term = TRUE].remote = m.remote
               /\ [m EXCEPT !.age = 0, !.term = TRUE].age = 0
    BY DEF Meta
  <2> DEFINE m == sess[s]
  <2>7. m \in Meta
    BY <1>1
  <2>8. r \in {[m EXCEPT !.shells = S], [m EXCEPT !.age = 0, !.shells = S],
              [m EXCEPT !.age = 0, !.term = TRUE]}
    OBVIOUS
  <2> HIDE DEF m
  <2>9. r \in Meta /\ r.up = m.up /\ r.remote = m.remote /\ (r.age = 0 \/ r.age = m.age)
    BY <2>1, <2>2, <2>3, <2>4, <2>5, <2>6, <2>7, <2>8, ZenonT(40)
  <2> QED BY <2>9 DEF m
<1>3. \A t \in Sids : sess'[t].remote = sess[t].remote
  BY <1>2 DEF SessInv, Shared, Stored
<1> QED BY <1>1, <1>2, <1>3, OneSess

LEMMA TakeAdmissionKeeps ==
  ASSUME SessInv, NEW p \in Procs, TakeAdmission(p)
  PROVE  Keeps(p)
<1> DEFINE c == IF Sid(p) = Nobody THEN "inventory" ELSE "reserve"
<1>1. /\ act[p].pc = "admission" /\ admission = Nobody /\ admission' = p /\ GoesTo(p, c)
      /\ c \in {"inventory", "reserve"} /\ (c = "inventory" <=> Sid(p) = Nobody)
  BY DEF TakeAdmission, Admit, At
<1> HIDE DEF c
<1>2. /\ InStart(p) => /\ Shell(p) \in Shells /\ lease[Sid(p)] = p
                       /\ Sid(p) \in drawn /\ ~sess[Sid(p)].remote
      /\ Sid(p) \in Sids \cup {Nobody}
      /\ InStart(p) <=> Sid(p) # Nobody
  BY <1>1 DEF SessInv, Shared, Acts, Doing, Own, Names, HoldsLocks, Knows, Leased, InStart,
     Sid, Starting
<1>3. /\ Acts' /\ \A q \in Procs : q # p => act'[q] = act[q]
      /\ act'[p].pc = c /\ Sid(p)' = Sid(p) /\ Shell(p)' = Shell(p)
  BY <1>1, NewPlace DEF SessInv, Sid, Shell, Places
<1>4. Held' /\ OfLocks(p)
  BY <1>1, <1>3 DEF TakeAdmission, Admit, SessInv, Shared, Held, OfLocks, MayTake
<1>5. InStart(p)' <=> Sid(p) # Nobody
  BY <1>1, <1>3 DEF InStart, Admitting, Starting
<1>6. Names(p)'
  BY <1>1, <1>2, <1>3, <1>5 DEF Names, OfSession, OfShell, Pruning, Ending
<1>7. HoldsLocks(p)' /\ Knows(p)'
  BY <1>1, <1>2, <1>3, <1>5 DEF TakeAdmission, Admit, HoldsLocks, Knows, Leased, Pruning,
     Ending, Admitting
<1> QED BY <1>3, <1>4, <1>6, <1>7, OnlyLocks DEF TakeAdmission, Admit, Own

\* The stages of a start hand on what they know.
LEMMA StartGoesOn ==
  ASSUME SessInv, NEW p \in Procs,
         act'[p].pc \in {"inventory", "reconcile", "start", "failed", "register"},
         act'[p].s = act[p].s, act'[p].x = act[p].x,
         act[p].pc \in {"reserve", "inventory", "reconcile", "start"},
         act'[p].pc = "reconcile" => act'[p].todo \subseteq Sids,
         act'[p].pc = "register" => Sid(p) # Nobody,
         act'[p].pc = "start" \/ (act'[p].pc = "reconcile" /\ act'[p].ok) => RoomForShell(p)',
         lease' = lease, act'[p].pc # "register" => admission' = admission,
         drawn' = drawn, \A s \in Sids : sess'[s].remote = sess[s].remote
  PROVE  Own(p)'
<1>1. /\ InStart(p) => /\ Sid(p) \in Sids /\ Shell(p) \in Shells /\ lease[Sid(p)] = p
                       /\ Sid(p) \in drawn /\ ~sess[Sid(p)].remote
      /\ InStart(p) <=> Sid(p) # Nobody
      /\ admission = p
  BY DEF SessInv, Shared, Acts, Doing, Own, Names, HoldsLocks, Knows, Leased, InStart, Sid,
     Starting,
         Admitting
<1>2. Sid(p)' = Sid(p) /\ Shell(p)' = Shell(p)
  BY DEF Sid, Shell
<1>3. InStart(p)' <=> Sid(p) # Nobody
  BY <1>2 DEF InStart, Admitting, Starting
<1>4. act'[p].pc = "start" => Shell(p) \in Shells
  BY <1>2 DEF RoomForShell
<1>5. Names(p)'
  BY <1>1, <1>2, <1>3, <1>4 DEF Names, OfSession, OfShell, Pruning, Ending
<1>6. HoldsLocks(p)'
  BY <1>1, <1>2, <1>3 DEF HoldsLocks, Leased, Pruning, Ending, Admitting
<1>7. Knows(p)'
  BY <1>1, <1>2, <1>3 DEF Knows
<1> QED BY <1>5, <1>6, <1>7 DEF Own

LEMMA ReserveKeeps ==
  ASSUME SessInv, NEW p \in Procs, Reserve(p)
  PROVE  Keeps(p)
<1> DEFINE s == Sid(p)
           S == sess[s].shells \cup {Shell(p)}
           n == IF Shell(p) \in sess[s].shells THEN 0 ELSE 1
<1>1. CASE GiveUp(p)
  BY <1>1, DiesKeeps
<1>2. CASE /\ act' = [act EXCEPT ![p].pc = "inventory", ![p].n = n]
           /\ Write(IF Shell(p) \in sess[s].shells THEN sess
                    ELSE [sess EXCEPT ![s].age = 0, ![s].shells = @ \cup {Shell(p)}])
           /\ UNCHANGED locks
  <2>1. act[p].pc = "reserve" /\ s \in Sids /\ Shell(p) \in Shells /\ tx[s] = Nobody
    BY DEF Reserve, At, SessInv, Own, Names, OfSession, OfShell
  <2>2. S \in SUBSET Shells /\ n \in Nat
    BY <2>1 DEF SessInv, Shared, Stored, Meta
  <2>3. Stored' /\ OfSess(p) /\ \A t \in Sids : sess'[t].remote = sess[t].remote
    <3>1. CASE sess' = sess
      BY <1>2, <3>1, SessSame DEF Write, SessInv
    <3>2. CASE sess' # sess
      <4>1. sess' = [sess EXCEPT ![s] = [sess[s] EXCEPT !.age = 0, !.shells = S]]
        BY <1>2, <3>2, <2>1 DEF Write, SessInv, Shared, Stored, Meta
      <4> HIDE DEF S
      <4> QED BY <4>1, <1>2, <2>1, <2>2, Rewritten DEF Write
    <3> QED BY <3>1, <3>2
  <2> DEFINE r == [act[p] EXCEPT !.pc = "inventory", !.n = n]
  <2> HIDE DEF n
  <2>4. act' = [act EXCEPT ![p] = r]
    BY <1>2 DEF SessInv, Shared, Acts
  <2>5. act[p] \in Doing
    BY DEF SessInv, Shared, Acts
  <2>6. r \in Doing /\ r.pc = "inventory" /\ r.s = act[p].s /\ r.x = act[p].x
    BY <2>2, <2>5 DEF Doing, Places
  <2> HIDE DEF r
  <2>7. Held' /\ Acts' /\ OfLocks(p) /\ act'[p] = r
    BY <1>2, <2>4, <2>6, Goes DEF SessInv
  <2>8. Own(p)'
    BY <1>2, <2>1, <2>3, <2>6, <2>7, StartGoesOn DEF Write, locks
  <2> QED
    BY <1>2, <2>3, <2>7, <2>8, LiveSame, JobSame DEF Write, SessInv, Keeps, Typed, Effects
<1> QED BY <1>1, <1>2 DEF Reserve

LEMMA InventoryKeeps ==
  ASSUME SessInv, NEW p \in Procs, Inventory(p)
  PROVE  Keeps(p)
<1> DEFINE keep == Running \cup (IF Sid(p) = Nobody THEN {} ELSE {Shell(p)})
           todo == {s \in Up : ~(sess[s].shells \subseteq keep)}
           ok == Shell(p) \in Shells \ Running /\ Cardinality(Running) < MaxShells
<1>1. act[p].pc = "inventory" /\ act[p] \in Doing
  BY DEF Inventory, At, SessInv, Shared, Acts
<1>2. UNCHANGED <<sess, drawn, job, live, locks>>
  BY DEF Inventory
<1>3. CASE act' = [act EXCEPT ![p].pc = "reconcile", ![p].seen = keep, ![p].todo = todo, ![p].ok = ok]
  <2>1. keep \in SUBSET (Sids \cup Shells)
    <3>1. Running \subseteq Shells
      BY DEF Running
    <3>2. Sid(p) # Nobody => Shell(p) \in Shells
      BY <1>1 DEF SessInv, Own, Names, InStart, Starting, Admitting
    <3> QED BY <3>1, <3>2
  <2>2. todo \in SUBSET (Sids \cup Shells) /\ todo \subseteq Sids
    BY DEF Up
  <2>3. ok \in BOOLEAN
    OBVIOUS
  <2>4. ok => RoomForShell(p)
    BY DEF RoomForShell
  <2> DEFINE r == [act[p] EXCEPT !.pc = "reconcile", !.seen = keep, !.todo = todo, !.ok = ok]
  <2> HIDE DEF keep, todo, ok
  <2>5. act' = [act EXCEPT ![p] = r]
    BY <1>3 DEF SessInv, Shared, Acts
  <2>6. /\ r \in Doing /\ r.pc = "reconcile" /\ r.s = act[p].s /\ r.x = act[p].x
        /\ r.todo = todo
    BY <1>1, <2>1, <2>2, <2>3 DEF Doing, Places
  <2>7. r.ok = ok
    BY <1>1 DEF Doing
  <2> HIDE DEF r
  <2>8. Held' /\ Acts' /\ OfLocks(p) /\ act'[p] = r
    BY <1>2, <2>5, <2>6, Goes DEF SessInv, locks
  <2>9. act'[p].ok => RoomForShell(p)'
    <3>1. RoomForShell(p)' <=> RoomForShell(p)
      BY <1>2, <2>6, <2>8 DEF RoomForShell, Shell, Running
    <3> QED BY <2>4, <2>7, <2>8, <3>1
  <2>10. Own(p)'
    BY <1>1, <1>2, <2>2, <2>6, <2>8, <2>9, StartGoesOn DEF locks
  <2> QED BY <1>2, <2>8, <2>10, OnlyLocks
<1>4. CASE GoesTo(p, "failed")
  <2>1. /\ [act[p] EXCEPT !.pc = "failed"] \in Doing
        /\ act' = [act EXCEPT ![p] = [act[p] EXCEPT !.pc = "failed"]]
        /\ act'[p].pc = "failed" /\ act'[p].s = act[p].s /\ act'[p].x = act[p].x
    BY <1>4, NewPlace DEF SessInv, Places
  <2>2. Held' /\ Acts' /\ OfLocks(p)
    BY <1>2, <2>1, Goes DEF SessInv, locks
  <2>3. Own(p)'
    BY <1>1, <1>2, <2>1, StartGoesOn DEF locks
  <2> QED BY <1>2, <2>2, <2>3, OnlyLocks
<1> QED BY <1>3, <1>4 DEF Inventory

LEMMA ReconcileKeeps ==
  ASSUME SessInv, NEW p \in Procs, Reconcile(p)
  PROVE  Keeps(p)
<1>1. PICK s \in act[p].todo :
        /\ tx[s] = Nobody
        /\ Write([sess EXCEPT ![s].shells = @ \cap act[p].seen])
        /\ act' = [act EXCEPT ![p].todo = @ \ {s}]
  BY DEF Reconcile
<1>2. /\ act[p].pc = "reconcile" /\ act[p] \in Doing /\ act[p].todo \subseteq Sids /\ s \in Sids
      /\ UNCHANGED <<locks, live, job, drawn>>
      /\ act[p].ok => RoomForShell(p)
  BY <1>1 DEF Reconcile, Write, At, SessInv, Shared, Acts, Own, Names, Knows
<1> DEFINE S == sess[s].shells \cap act[p].seen
           todo == act[p].todo \ {s}
           r == [act[p] EXCEPT !.todo = todo]
<1>3. S \in SUBSET Shells
  BY <1>2 DEF SessInv, Shared, Stored, Meta
<1>4. sess' = [sess EXCEPT ![s] = [sess[s] EXCEPT !.shells = S]]
  BY <1>1, <1>2 DEF Write, SessInv, Shared, Stored
<1> HIDE DEF S
<1>5. Stored' /\ OfSess(p) /\ \A t \in Sids : sess'[t].remote = sess[t].remote
  BY <1>1, <1>2, <1>3, <1>4, Rewritten
<1>6. act' = [act EXCEPT ![p] = r]
  BY <1>1 DEF SessInv, Shared, Acts
<1>7. todo \subseteq Sids
  BY <1>2
<1>8. /\ r \in Doing /\ r.pc = "reconcile" /\ r.s = act[p].s /\ r.x = act[p].x /\ r.todo = todo
  BY <1>2, <1>7 DEF Doing
<1>9. r.ok = act[p].ok
  BY <1>2 DEF Doing
<1> HIDE DEF r, todo
<1>10. Held' /\ Acts' /\ OfLocks(p) /\ act'[p] = r
  BY <1>2, <1>6, <1>8, Goes DEF SessInv
<1>11. act'[p].ok => RoomForShell(p)'
  <2>1. RoomForShell(p)' <=> RoomForShell(p)
    BY <1>2, <1>8, <1>10 DEF RoomForShell, Shell, Running
  <2> QED BY <1>2, <1>9, <1>10, <2>1
<1>12. Own(p)'
  BY <1>2, <1>5, <1>7, <1>8, <1>10, <1>11, StartGoesOn DEF locks
<1> QED BY <1>2, <1>5, <1>10, <1>12, LiveSame, JobSame DEF SessInv, Keeps, Typed, Effects

LEMMA ReconciledKeeps ==
  ASSUME SessInv, NEW p \in Procs, Reconciled(p)
  PROVE  Keeps(p)
<1> DEFINE c == IF act[p].ok THEN "start" ELSE "failed"
<1>1. /\ act[p].pc = "reconcile" /\ UNCHANGED <<sess, drawn, job, live, locks>> /\ GoesTo(p, c)
      /\ act[p].ok => RoomForShell(p)
  BY DEF Reconciled, At, SessInv, Own, Knows
<1>2. c \in {"start", "failed"} /\ (c = "start" => RoomForShell(p))
  BY <1>1
<1> HIDE DEF c
<1>3. /\ [act[p] EXCEPT !.pc = c] \in Doing
      /\ act' = [act EXCEPT ![p] = [act[p] EXCEPT !.pc = c]]
      /\ act'[p].pc = c /\ act'[p].s = act[p].s /\ act'[p].x = act[p].x
  BY <1>1, <1>2, NewPlace, ZenonT(40) DEF SessInv, Places
<1>4. Held' /\ Acts' /\ OfLocks(p)
  BY <1>1, <1>3, Goes DEF SessInv, locks
<1>5. RoomForShell(p)' <=> RoomForShell(p)
  BY <1>1, <1>3 DEF RoomForShell, Shell, Running
<1>6. Own(p)'
  BY <1>1, <1>2, <1>3, <1>5, StartGoesOn DEF locks
<1> QED BY <1>1, <1>4, <1>6, OnlyLocks

\* The backend starts a shell, or not: there is room and the tag is the session's.
LEMMA ShellStarted ==
  ASSUME SessInv, NEW p \in Procs, act[p].pc = "start",
         live' \in {live, [live EXCEPT ![Shell(p)] = Tag(p)]}
  PROVE  Tags' /\ OfLive(p)
<1>1. /\ Shell(p) \in Shells /\ Cardinality(Running) < MaxShells /\ admission = p
      /\ Sid(p) # Nobody => /\ Sid(p) \in Sids /\ lease[Sid(p)] = p
                            /\ Sid(p) \in drawn /\ ~sess[Sid(p)].remote
  BY DEF SessInv, Shared, Acts, Doing, Own, Names, HoldsLocks, Knows, RoomForShell, Leased,
     InStart, Sid,
         Starting, Admitting
<1>2. CASE live' = live
  BY <1>2, LiveSame DEF SessInv
<1>3. CASE live' = [live EXCEPT ![Shell(p)] = Tag(p)]
  <2>1. Tag(p) \in Sids \cup {Untagged} /\ (Tag(p) \in Sids => Sid(p) # Nobody /\ Tag(p) = Sid(p))
    BY <1>1, SessionsAssumption DEF Tag, Untagged
  <2>2. /\ live' \in [Shells -> Sids \cup {Untagged, Nobody}] /\ live'[Shell(p)] = Tag(p)
        /\ \A x \in Shells : x # Shell(p) => live'[x] = live[x]
    BY <1>1, <1>3, <2>1 DEF SessInv, Shared, Tags
  <2>3. Running' \subseteq Running \cup {Shell(p)}
    BY <2>2 DEF Running
  <2>4. IsFiniteSet(Running \cup {Shell(p)})
        /\ Cardinality(Running \cup {Shell(p)}) <= MaxShells
        /\ Cardinality(Running \cup {Shell(p)}) \in Nat
    <3>1. IsFiniteSet(Running) /\ Cardinality(Running) \in Nat
      BY FS_CardinalityType DEF SessInv, Shared, Limits
    <3>2. IsFiniteSet(Running \cup {Shell(p)})
          /\ Cardinality(Running \cup {Shell(p)}) \in {Cardinality(Running), Cardinality(Running) + 1}
      BY <3>1, FS_AddElement
    <3> QED BY <1>1, <3>1, <3>2, SessionsAssumption
  <2>5. IsFiniteSet(Running') /\ Cardinality(Running') <= MaxShells
    <3>1. IsFiniteSet(Running') /\ Cardinality(Running') <= Cardinality(Running \cup {Shell(p)})
          /\ Cardinality(Running') \in Nat
      BY <2>3, <2>4, FS_Subset, FS_CardinalityType
    <3> QED BY <3>1, <2>4, SessionsAssumption
  <2> QED BY <1>1, <2>1, <2>2, <2>5 DEF Tags, OfLive
<1> QED BY <1>2, <1>3

LEMMA StartShellKeeps ==
  ASSUME SessInv, NEW p \in Procs, StartShell(p)
  PROVE  Keeps(p)
<1>1. /\ act[p].pc = "start" /\ UNCHANGED <<sess, drawn, job>> /\ admission = p
      /\ live' \in {live, [live EXCEPT ![Shell(p)] = Tag(p)]}
  BY DEF StartShell, At, SessInv, Own, HoldsLocks, Admitting
<1>2. Tags' /\ OfLive(p) /\ Stored' /\ OfSess(p) /\ OfJob(p)
  BY <1>1, ShellStarted, SessSame, JobSame DEF SessInv
<1>3. CASE Finish(p)
  BY <1>2, <1>3, Finishes DEF SessInv, Keeps, Typed, Effects
<1>4. CASE /\ Sid(p) # Nobody /\ GoesTo(p, "register") /\ admission' = Nobody
           /\ UNCHANGED <<lease, tx, registry>>
  <2>1. /\ Acts' /\ \A q \in Procs : q # p => act'[q] = act[q]
        /\ act'[p].pc = "register" /\ act'[p].s = act[p].s /\ act'[p].x = act[p].x
    BY <1>4, NewPlace DEF SessInv, Places
  <2>2. Held' /\ OfLocks(p)
    BY <1>1, <1>4, <2>1 DEF SessInv, Shared, Held, OfLocks, MayTake
  <2>3. Own(p)'
    BY <1>1, <1>4, <2>1, StartGoesOn
  <2> QED BY <1>2, <2>1, <2>2, <2>3 DEF Keeps, Typed, Effects
<1>5. CASE GoesTo(p, "failed") /\ UNCHANGED <<live, locks>>
  <2>1. /\ [act[p] EXCEPT !.pc = "failed"] \in Doing
        /\ act' = [act EXCEPT ![p] = [act[p] EXCEPT !.pc = "failed"]]
        /\ act'[p].pc = "failed" /\ act'[p].s = act[p].s /\ act'[p].x = act[p].x
    BY <1>5, NewPlace DEF SessInv, Places
  <2>2. Held' /\ Acts' /\ OfLocks(p)
    BY <1>5, <2>1, Goes DEF SessInv
  <2>3. Own(p)'
    BY <1>1, <1>5, <2>1, StartGoesOn DEF locks
  <2> QED BY <1>2, <2>2, <2>3 DEF Keeps, Typed, Effects
<1> QED BY <1>3, <1>4, <1>5 DEF StartShell

LEMMA StartFailedKeeps ==
  ASSUME SessInv, NEW p \in Procs, StartFailed(p)
  PROVE  Keeps(p)
<1> DEFINE s == Sid(p)
           S == sess[s].shells \ {Shell(p)}
<1>1. Finish(p) /\ drawn' = drawn /\ job' = job /\ live' = live
  BY DEF StartFailed, Write
<1>2. CASE sess' = sess
  BY <1>1, <1>2, SessSame, LastWrite DEF SessInv
<1>3. CASE sess' = [sess EXCEPT ![s].shells = S] /\ s # Nobody
  <2>1. s \in Sids /\ tx[s] = Nobody
    BY <1>3 DEF StartFailed, SessInv, Shared, Acts, Doing, Sid
  <2>2. S \in SUBSET Shells
    BY <2>1 DEF SessInv, Shared, Stored, Meta
  <2>3. sess' = [sess EXCEPT ![s] = [sess[s] EXCEPT !.shells = S]]
    BY <1>3, <2>1 DEF SessInv, Shared, Stored
  <2> HIDE DEF S
  <2> QED BY <1>1, <2>1, <2>2, <2>3, Rewritten, LastWrite
<1> QED BY <1>2, <1>3 DEF StartFailed, Write

LEMMA RegisterShellKeeps ==
  ASSUME SessInv, NEW p \in Procs, RegisterShell(p)
  PROVE  Keeps(p)
<1> DEFINE s == Sid(p)
           S == sess[s].shells \cup {Shell(p)}
<1>1. act[p].pc = "register" /\ s \in Sids /\ Shell(p) \in Shells /\ tx[s] = Nobody
  BY DEF RegisterShell, At, SessInv, Own, Names, OfSession, OfShell
<1>2. CASE /\ Write([sess EXCEPT ![s].age = 0, ![s].shells = @ \cup {Shell(p)}]) /\ Finish(p)
  <2>1. S \in SUBSET Shells
    BY <1>1 DEF SessInv, Shared, Stored, Meta
  <2>2. sess' = [sess EXCEPT ![s] = [sess[s] EXCEPT !.age = 0, !.shells = S]]
    BY <1>1, <1>2 DEF Write, SessInv, Shared, Stored, Meta
  <2> HIDE DEF S
  <2> QED BY <1>1, <1>2, <2>1, <2>2, Rewritten, LastWrite DEF Write
<1>3. CASE GoesTo(p, "kill") /\ UNCHANGED <<sess, drawn, job, live, locks, ops, grown>>
  <2>1. /\ [act[p] EXCEPT !.pc = "kill"] \in Doing
        /\ act' = [act EXCEPT ![p] = [act[p] EXCEPT !.pc = "kill"]]
        /\ act'[p].pc = "kill" /\ act'[p].s = act[p].s /\ act'[p].x = act[p].x
    BY <1>3, NewPlace DEF SessInv, Places
  <2>2. Held' /\ Acts' /\ OfLocks(p)
    BY <1>3, <2>1, Goes DEF SessInv
  <2>3. Own(p)'
    BY <1>1, <2>1 DEF Own, Names, HoldsLocks, Knows, InStart, Shell, Leased, OfSession,
       OfShell, Pruning,
                 Ending, Admitting, Starting
  <2> QED BY <1>3, <2>2, <2>3, OnlyLocks
<1> QED BY <1>2, <1>3 DEF RegisterShell

--------------------------------------------------------------------------------
\* The teardown keeps the lease and hands on what is left to do.
LEMMA EndGoesOn ==
  ASSUME SessInv, NEW p \in Procs, act[p].pc \in Ending, act'[p].pc \in Ending,
         act'[p].s = act[p].s, act'[p].todo \subseteq Shells, lease' = lease,
         act'[p].pc \in {"endKill", "endRelease"} => act'[p].x \in Shells,
         act'[p].pc = "endRelease" => act'[p].seen \subseteq Sids,
         act'[p].pc \in Ending \ {"prepare", "endJobs"} => Sid(p) \notin job',
         act'[p].pc \in {"endShells", "endRelease"} => Owned(Sid(p))' \subseteq act'[p].todo,
         act'[p].pc = "endKill" => Owned(Sid(p))' \subseteq act'[p].todo \cup {act'[p].x},
         act'[p].pc = "remove" => Owned(Sid(p))' = {}
  PROVE  Own(p)'
<1>1. Sid(p) \in Sids /\ lease[Sid(p)] = p
  BY DEF SessInv, Own, Names, HoldsLocks, Leased, OfSession
<1>2. Sid(p)' = Sid(p) /\ Shell(p)' = act'[p].x /\ ~InStart(p)'
  BY DEF Sid, Shell, InStart, Ending, Starting, Admitting
<1>3. Names(p)'
  BY <1>1, <1>2 DEF Names, OfSession, OfShell, Pruning, Ending
<1>4. HoldsLocks(p)'
  BY <1>1, <1>2 DEF HoldsLocks, Leased, Pruning, Ending, Admitting
<1>5. Owned(Sid(p)') = Owned(Sid(p))
  BY <1>2
<1>6. Knows(p)'
  BY <1>1, <1>2, <1>5 DEF Knows, Ending
<1> QED BY <1>3, <1>4, <1>6 DEF Own
LEMMA KillShellKeeps ==
  ASSUME SessInv, NEW p \in Procs, KillShell(p)
  PROVE  Keeps(p)
<1> DEFINE x == Shell(p)
<1>1. /\ act[p].pc \in {"kill", "endKill"} /\ x \in Shells /\ act[p] \in Doing
      /\ act[p].pc = "endKill" => /\ act[p].todo \subseteq Shells /\ Sid(p) \notin job
                                  /\ Owned(Sid(p)) \subseteq act[p].todo \cup {x} /\ Sid(p) \in Sids
  BY DEF KillShell, SessInv, Shared, Acts, Own, Names, Knows, OfShell, OfSession, Ending
<1>2. CASE /\ live' = [live EXCEPT ![x] = Nobody]
           /\ act' = [act EXCEPT ![p].pc = IF @ = "kill" THEN "release" ELSE "endRelease",
                                 ![p].seen = {s \in Up : x \in sess[s].shells}]
           /\ UNCHANGED <<sess, drawn, job, locks, ops, grown>>
  <2> DEFINE c == IF act[p].pc = "kill" THEN "release" ELSE "endRelease"
             seen == {s \in Up : x \in sess[s].shells}
             r == [act[p] EXCEPT !.pc = c, !.seen = seen]
  <2>1. /\ c \in {"release", "endRelease"} /\ seen \subseteq Sids
        /\ c = "release" <=> act[p].pc = "kill"
    BY <1>1 DEF Up
  <2>2. act' = [act EXCEPT ![p].pc = c, ![p].seen = seen]
    BY <1>2, <1>1 DEF SessInv, Shared, Acts
  <2> HIDE DEF c, seen
  <2>3. act' = [act EXCEPT ![p] = r]
    BY <2>2 DEF SessInv, Shared, Acts
  <2>4. /\ r \in Doing /\ r.pc = c /\ r.s = act[p].s /\ r.x = act[p].x
        /\ r.todo = act[p].todo /\ r.seen = seen
    BY <1>1, <2>1 DEF Doing, Places
  <2> HIDE DEF r
  <2>5. Held' /\ Acts' /\ OfLocks(p) /\ act'[p] = r
    BY <1>2, <2>3, <2>4, Goes DEF SessInv
  <2>6. /\ live' \in [Shells -> Sids \cup {Untagged, Nobody}] /\ live'[x] = Nobody
        /\ \A y \in Shells : y # x => live'[y] = live[y]
    BY <1>1, <1>2 DEF SessInv, Shared, Tags
  <2>7. Tags' /\ OfLive(p)
    BY <2>6, SessionsAssumption DEF Tags, OfLive, Running
  <2>8. Own(p)'
    <3>1. CASE c = "release"
      BY <1>1, <2>1, <2>4, <2>5, <3>1
      DEF Own, Names, HoldsLocks, Knows, InStart, Shell, Leased, OfSession, OfShell, Pruning,
         Ending,
          Admitting, Starting
    <3>2. CASE c = "endRelease"
      <4>1. act[p].pc = "endKill"
        BY <1>1, <2>1, <3>2
      <4>2. Owned(Sid(p))' \subseteq act[p].todo
        <5>1. ASSUME NEW y \in Shells, live'[y] = Sid(p) PROVE y \in act[p].todo
          BY <1>1, <2>6, <4>1, <5>1, SessionsAssumption DEF Owned
        <5>2. Sid(p)' = Sid(p)
          BY <2>4, <2>5 DEF Sid
        <5> QED BY <5>1, <5>2 DEF Owned
      <4>3. act'[p].x \in Shells /\ act'[p].seen \subseteq Sids /\ act'[p].pc = "endRelease"
            /\ act'[p].s = act[p].s /\ act'[p].todo = act[p].todo
        BY <1>1, <2>1, <2>4, <2>5, <3>2 DEF Shell
      <4>4. lease' = lease /\ job' = job
        BY <1>2 DEF locks
      <4> QED BY <1>1, <4>1, <4>2, <4>3, <4>4, EndGoesOn DEF Ending
    <3> QED BY <2>1, <3>1, <3>2
  <2> QED BY <1>2, <2>5, <2>7, <2>8, SessSame, JobSame DEF SessInv, Keeps, Typed, Effects
<1>3. CASE GiveUp(p)
  BY <1>3, DiesKeeps
<1>4. CASE /\ live[x] = Nobody /\ At(p, "endKill") /\ GoesTo(p, "endShells")
           /\ UNCHANGED <<sess, drawn, job, live, locks, ops, grown>>
  <2>1. /\ [act[p] EXCEPT !.pc = "endShells"] \in Doing
        /\ act' = [act EXCEPT ![p] = [act[p] EXCEPT !.pc = "endShells"]]
        /\ act'[p].pc = "endShells" /\ act'[p].s = act[p].s /\ act'[p].todo = act[p].todo
    BY <1>4, NewPlace DEF SessInv, Places
  <2>2. Held' /\ Acts' /\ OfLocks(p)
    BY <1>4, <2>1, Goes DEF SessInv
  <2>3. Owned(Sid(p))' \subseteq act[p].todo
    <3>1. Sid(p)' = Sid(p)
      BY <2>1 DEF Sid
    <3> QED BY <1>1, <1>4, <3>1, SessionsAssumption DEF Owned, At
  <2>4. Own(p)'
    BY <1>1, <1>4, <2>1, <2>3, EndGoesOn DEF Ending, At, locks
  <2> QED BY <1>4, <2>2, <2>4, OnlyLocks
<1> QED BY <1>2, <1>3, <1>4 DEF KillShell

LEMMA ReleaseShellKeeps ==
  ASSUME SessInv, NEW p \in Procs, ReleaseShell(p)
  PROVE  Keeps(p)
<1>1. /\ act[p].pc \in {"release", "endRelease"} /\ Shell(p) \in Shells /\ act[p] \in Doing
      /\ act[p].seen \subseteq Sids
      /\ act[p].pc = "endRelease" => /\ act[p].todo \subseteq Shells /\ Sid(p) \notin job
                                     /\ Owned(Sid(p)) \subseteq act[p].todo
  BY DEF ReleaseShell, SessInv, Shared, Acts, Own, Names, Knows, OfShell, OfSession, Ending
<1>2. ASSUME NEW s \in act[p].seen, tx[s] = Nobody,
             Write([sess EXCEPT ![s].shells = @ \ {Shell(p)}]),
             act' = [act EXCEPT ![p].seen = @ \ {s}],
             UNCHANGED locks
      PROVE  Keeps(p)
  <2> DEFINE S == sess[s].shells \ {Shell(p)}
             seen == act[p].seen \ {s}
             r == [act[p] EXCEPT !.seen = seen]
  <2>1. S \in SUBSET Shells /\ seen \subseteq Sids /\ s \in Sids
    BY <1>1 DEF SessInv, Shared, Stored, Meta
  <2>2. sess' = [sess EXCEPT ![s] = [sess[s] EXCEPT !.shells = S]]
    BY <1>1, <1>2 DEF Write, SessInv, Shared, Stored
  <2> HIDE DEF S
  <2>3. Stored' /\ OfSess(p)
    BY <1>2, <2>1, <2>2, Rewritten DEF Write
  <2>4. act' = [act EXCEPT ![p] = r]
    BY <1>2 DEF SessInv, Shared, Acts
  <2>5. /\ r \in Doing /\ r.pc = act[p].pc /\ r.s = act[p].s /\ r.x = act[p].x
        /\ r.todo = act[p].todo /\ r.seen = seen
    BY <1>1, <2>1 DEF Doing
  <2> HIDE DEF r, seen
  <2>6. Held' /\ Acts' /\ OfLocks(p) /\ act'[p] = r
    BY <1>2, <2>4, <2>5, Goes DEF SessInv
  <2>7. Own(p)'
    <3>1. CASE act[p].pc = "release"
      BY <1>1, <2>1, <2>5, <2>6, <3>1
      DEF Own, Names, HoldsLocks, Knows, InStart, Shell, Leased, OfSession, OfShell, Pruning,
         Ending,
          Admitting, Starting
    <3>2. CASE act[p].pc = "endRelease"
      <4>1. Owned(Sid(p))' \subseteq act[p].todo
        <5>1. Sid(p)' = Sid(p)
          BY <2>5, <2>6 DEF Sid
        <5> QED BY <1>1, <1>2, <3>2, <5>1 DEF Owned, Write
      <4>2. act'[p].x \in Shells /\ act'[p].seen \subseteq Sids /\ act'[p].pc = "endRelease"
            /\ act'[p].s = act[p].s /\ act'[p].todo = act[p].todo
        BY <1>1, <2>1, <2>5, <2>6, <3>2 DEF Shell
      <4>3. lease' = lease /\ job' = job
        BY <1>2 DEF locks, Write
      <4> QED BY <1>1, <3>2, <4>1, <4>2, <4>3, EndGoesOn DEF Ending
    <3> QED BY <1>1, <3>1, <3>2
  <2> QED
    BY <1>2, <2>3, <2>6, <2>7, LiveSame, JobSame DEF Write, SessInv, Keeps, Typed, Effects
<1>3. CASE GiveUp(p)
  BY <1>3, DiesKeeps
<1>4. CASE /\ At(p, "endRelease") /\ GoesTo(p, "endShells")
           /\ UNCHANGED <<sess, drawn, job, live, locks, ops, grown>>
  <2>1. /\ [act[p] EXCEPT !.pc = "endShells"] \in Doing
        /\ act' = [act EXCEPT ![p] = [act[p] EXCEPT !.pc = "endShells"]]
        /\ act'[p].pc = "endShells" /\ act'[p].s = act[p].s /\ act'[p].todo = act[p].todo
    BY <1>4, NewPlace DEF SessInv, Places
  <2>2. Held' /\ Acts' /\ OfLocks(p)
    BY <1>4, <2>1, Goes DEF SessInv
  <2>3. Owned(Sid(p))' \subseteq act[p].todo
    <3>1. Sid(p)' = Sid(p)
      BY <2>1 DEF Sid
    <3> QED BY <1>1, <1>4, <3>1 DEF Owned, At
  <2>4. Own(p)'
    BY <1>1, <1>4, <2>1, <2>3, EndGoesOn DEF Ending, At, locks
  <2> QED BY <1>4, <2>2, <2>4, OnlyLocks
<1> QED BY <1>2, <1>3, <1>4 DEF ReleaseShell

LEMMA PrepareKeeps ==
  ASSUME SessInv, NEW p \in Procs, Prepare(p)
  PROVE  Keeps(p)
<1> DEFINE s == Sid(p)
<1>1. act[p].pc = "prepare" /\ s \in Sids /\ tx[s] = Nobody /\ act[p].todo \subseteq Shells
  BY DEF Prepare, At, SessInv, Own, Names, OfSession, Ending
<1>2. CASE GiveUp(p)
  BY <1>2, DiesKeeps
<1>3. CASE /\ Write([sess EXCEPT ![s].age = 0, ![s].term = TRUE])
           /\ GoesTo(p, "endJobs") /\ UNCHANGED locks
  <2>1. sess' = [sess EXCEPT ![s] = [sess[s] EXCEPT !.age = 0, !.term = TRUE]]
    BY <1>1, <1>3 DEF Write, SessInv, Shared, Stored
  <2>2. Stored' /\ OfSess(p)
    BY <1>1, <1>3, <2>1, Rewritten DEF Write
  <2>3. /\ [act[p] EXCEPT !.pc = "endJobs"] \in Doing
        /\ act' = [act EXCEPT ![p] = [act[p] EXCEPT !.pc = "endJobs"]]
        /\ act'[p].pc = "endJobs" /\ act'[p].s = act[p].s /\ act'[p].todo = act[p].todo
    BY <1>3, NewPlace DEF SessInv, Places
  <2>4. Held' /\ Acts' /\ OfLocks(p)
    BY <1>3, <2>3, Goes DEF SessInv
  <2>5. Own(p)'
    BY <1>1, <1>3, <2>3, EndGoesOn DEF Ending, locks
  <2> QED
    BY <1>3, <2>2, <2>4, <2>5, LiveSame, JobSame DEF Write, SessInv, Keeps, Typed, Effects
<1> QED BY <1>2, <1>3 DEF Prepare

LEMMA EndJobsKeeps ==
  ASSUME SessInv, NEW p \in Procs, EndJobs(p)
  PROVE  Keeps(p)
<1> DEFINE s == Sid(p)
<1>1. act[p].pc = "endJobs" /\ s \in Sids /\ act[p].todo \subseteq Shells
  BY DEF EndJobs, At, SessInv, Own, Names, OfSession, Ending
<1>2. CASE GiveUp(p)
  BY <1>2, DiesKeeps
<1>3. CASE /\ job' = job \ {s}
           /\ GoesTo(p, IF sess[s].remote THEN "endShells" ELSE "endList")
           /\ UNCHANGED <<sess, drawn, live, locks, ops, grown>>
  <2> DEFINE c == IF sess[s].remote THEN "endShells" ELSE "endList"
  <2>1. c \in {"endShells", "endList"} /\ GoesTo(p, c) /\ (c = "endShells" => sess[s].remote)
    BY <1>3
  <2> HIDE DEF c
  <2>2. /\ [act[p] EXCEPT !.pc = c] \in Doing
        /\ act' = [act EXCEPT ![p] = [act[p] EXCEPT !.pc = c]]
        /\ act'[p].pc = c /\ act'[p].s = act[p].s /\ act'[p].todo = act[p].todo
    BY <2>1, NewPlace DEF SessInv, Places
  <2>3. Held' /\ Acts' /\ OfLocks(p)
    BY <1>3, <2>2, Goes DEF SessInv
  <2>4. c = "endShells" => Owned(s)' = {}
    <3>1. Sid(p)' = Sid(p)
      BY <2>2 DEF Sid
    <3> QED BY <1>1, <1>3, <2>1, <3>1 DEF Owned, SessInv, Shared, Tagged
  <2>5. s \notin job' /\ lease' = lease
    BY <1>3 DEF locks
  <2>6. Own(p)'
    BY <1>1, <2>1, <2>2, <2>4, <2>5, EndGoesOn DEF Ending
  <2>7. OfJob(p)
    BY <1>3 DEF OfJob
  <2> QED BY <1>3, <2>3, <2>6, <2>7, SessSame, LiveSame DEF SessInv, Keeps, Typed, Effects
<1> QED BY <1>2, <1>3 DEF EndJobs

LEMMA EndListKeeps ==
  ASSUME SessInv, NEW p \in Procs, EndList(p)
  PROVE  Keeps(p)
<1> DEFINE s == Sid(p)
           S == Owned(s)
<1>1. act[p].pc = "endList" /\ s \in Sids /\ act[p] \in Doing /\ s \notin job
  BY DEF EndList, At, SessInv, Shared, Acts, Own, Names, Knows, OfSession, Ending
<1>2. CASE GiveUp(p)
  BY <1>2, DiesKeeps
<1>3. CASE /\ tx[s] = Nobody
           /\ Write([sess EXCEPT ![s].shells = S])
           /\ act' = [act EXCEPT ![p].pc = "endShells", ![p].todo = S]
           /\ UNCHANGED locks
  <2>1. S \in SUBSET Shells
    BY DEF Owned
  <2>2. Owned(Sid(p))' = S
    <3>1. Sid(p)' = Sid(p)
      BY <1>3 DEF Sid, SessInv, Shared, Acts, Doing
    <3> QED BY <1>3, <3>1 DEF Owned, Write
  <2> DEFINE r == [act[p] EXCEPT !.pc = "endShells", !.todo = S]
  <2> HIDE DEF S
  <2>3. sess' = [sess EXCEPT ![s] = [sess[s] EXCEPT !.shells = S]]
    BY <1>1, <1>3 DEF Write, SessInv, Shared, Stored
  <2>4. Stored' /\ OfSess(p)
    BY <1>1, <1>3, <2>1, <2>3, Rewritten DEF Write
  <2>5. act' = [act EXCEPT ![p] = r]
    BY <1>3 DEF SessInv, Shared, Acts
  <2>6. r \in Doing /\ r.pc = "endShells" /\ r.s = act[p].s /\ r.todo = S
    BY <1>1, <2>1 DEF Doing, Places
  <2> HIDE DEF r
  <2>7. Held' /\ Acts' /\ OfLocks(p) /\ act'[p] = r
    BY <1>3, <2>5, <2>6, Goes DEF SessInv
  <2>8. Own(p)'
    BY <1>1, <1>3, <2>1, <2>2, <2>6, <2>7, EndGoesOn DEF Ending, Write, locks
  <2> QED
    BY <1>3, <2>4, <2>7, <2>8, LiveSame, JobSame DEF Write, SessInv, Keeps, Typed, Effects
<1> QED BY <1>2, <1>3 DEF EndList

LEMMA EndShellKeeps ==
  ASSUME SessInv, NEW p \in Procs, EndShell(p)
  PROVE  Keeps(p)
<1> DEFINE s == Sid(p)
<1>1. /\ act[p].pc = "endShells" /\ s \in Sids /\ act[p] \in Doing /\ s \notin job
      /\ act[p].todo \subseteq Shells /\ Owned(s) \subseteq act[p].todo
      /\ UNCHANGED <<drawn, job, live, locks>>
  BY DEF EndShell, At, SessInv, Shared, Acts, Own, Names, Knows, OfSession, Ending
<1>2. ASSUME NEW x \in act[p].todo, sess' = sess,
             act' = [act EXCEPT ![p].pc = "endKill", ![p].x = x, ![p].todo = @ \ {x}]
      PROVE  Keeps(p)
  <2> DEFINE todo == act[p].todo \ {x}
             r == [act[p] EXCEPT !.pc = "endKill", !.x = x, !.todo = todo]
  <2>1. todo \subseteq Shells /\ x \in Shells
    BY <1>1
  <2>2. act' = [act EXCEPT ![p] = r]
    BY <1>2 DEF SessInv, Shared, Acts
  <2>3. Owned(s) \subseteq todo \cup {x}
    BY <1>1
  <2> HIDE DEF todo
  <2>4. r \in Doing /\ r.pc = "endKill" /\ r.s = act[p].s /\ r.todo = todo /\ r.x = x
    <3>1. [act[p] EXCEPT !.pc = "endKill"] \in Doing
      BY <1>1 DEF Doing, Places
    <3>2. [act[p] EXCEPT !.pc = "endKill", !.x = x] \in Doing
      BY <3>1, <2>1 DEF Doing
    <3>3. r \in Doing
      BY <3>2, <2>1 DEF Doing
    <3> QED BY <3>3, <1>1 DEF Doing
  <2> HIDE DEF r
  <2>5. Held' /\ Acts' /\ OfLocks(p) /\ act'[p] = r
    BY <1>1, <2>2, <2>4, Goes DEF SessInv
  <2>6. Owned(s)' = Owned(s)
    <3>1. Sid(p)' = Sid(p)
      BY <2>4, <2>5 DEF Sid
    <3> QED BY <1>1, <3>1 DEF Owned
  <2>7. Own(p)'
    BY <1>1, <2>1, <2>3, <2>4, <2>5, <2>6, EndGoesOn DEF Ending, locks
  <2> QED BY <1>1, <1>2, <2>5, <2>7, OnlyLocks
<1>3. ASSUME NEW x \in act[p].todo, live[x] # s, tx[s] = Nobody,
             sess' = [sess EXCEPT ![s].shells = Owned(s)],
             act' = [act EXCEPT ![p].todo = @ \ {x}]
      PROVE  Keeps(p)
  <2> DEFINE todo == act[p].todo \ {x}
             S == Owned(s)
             r == [act[p] EXCEPT !.todo = todo]
  <2>1. todo \subseteq Shells /\ S \in SUBSET Shells /\ S \subseteq todo
    BY <1>1, <1>3 DEF Owned
  <2>2. act' = [act EXCEPT ![p] = r]
    BY <1>3 DEF SessInv, Shared, Acts
  <2>3. Owned(s)' = S
    <3>1. Sid(p)' = Sid(p)
      BY <1>3 DEF Sid, SessInv, Shared, Acts, Doing
    <3> QED BY <1>1, <3>1 DEF Owned
  <2> HIDE DEF todo, S
  <2>4. r \in Doing /\ r.pc = "endShells" /\ r.s = act[p].s /\ r.todo = todo
    BY <1>1, <2>1 DEF Doing
  <2> HIDE DEF r
  <2>5. Held' /\ Acts' /\ OfLocks(p) /\ act'[p] = r
    BY <1>1, <2>2, <2>4, Goes DEF SessInv
  <2>6. sess' = [sess EXCEPT ![s] = [sess[s] EXCEPT !.shells = S]]
    BY <1>1, <1>3 DEF S, SessInv, Shared, Stored
  <2>7. Stored' /\ OfSess(p)
    BY <1>1, <1>3, <2>1, <2>6, Rewritten
  <2>8. Own(p)'
    BY <1>1, <2>1, <2>3, <2>4, <2>5, EndGoesOn DEF Ending, locks
  <2> QED BY <1>1, <2>5, <2>7, <2>8, LiveSame, JobSame DEF SessInv, Keeps, Typed, Effects
<1> QED BY <1>2, <1>3 DEF EndShell

LEMMA EndRegistryKeeps ==
  ASSUME SessInv, NEW p \in Procs, EndRegistry(p)
  PROVE  Keeps(p)
<1>1. /\ act[p].pc = "endShells" /\ Sid(p) \notin job /\ act[p].todo = {}
      /\ Owned(Sid(p)) = {} /\ UNCHANGED <<sess, drawn, job, live>>
  BY DEF EndRegistry, At, SessInv, Own, Knows
<1>2. /\ Acts' /\ \A q \in Procs : q # p => act'[q] = act[q]
      /\ act'[p].pc = "remove" /\ act'[p].s = act[p].s /\ act'[p].todo = act[p].todo
  BY NewPlace DEF EndRegistry, SessInv, Places
<1>3. Held' /\ OfLocks(p)
  BY <1>2 DEF EndRegistry, SessInv, Shared, Held, OfLocks, MayTake
<1>4. Owned(Sid(p))' = {}
  <2>1. Sid(p)' = Sid(p)
    BY <1>2 DEF Sid
  <2> QED BY <1>1, <2>1 DEF Owned
<1>5. Own(p)'
  BY <1>1, <1>2, <1>4, EndGoesOn DEF EndRegistry, Ending
<1> QED BY <1>1, <1>2, <1>3, <1>5, OnlyLocks

LEMMA EndSessionKeeps ==
  ASSUME SessInv, NEW p \in Procs, EndSession(p)
  PROVE  Keeps(p)
<1>1. Sid(p) \in Sids /\ tx[Sid(p)] = Nobody
  BY DEF EndSession, At, SessInv, Own, Names, OfSession, Ending
<1>2. Stored' /\ OfSess(p)
  BY <1>1, TouchOrRemove DEF EndSession, Write
<1> QED BY <1>2, LastWrite DEF EndSession, Write

LEMMA SessStepKeeps ==
  ASSUME SessInv, NEW p \in Procs, BeginAny(p) \/ SessStep(p) \/ Dies(p)
  PROVE  Keeps(p)
<1>1. CASE BeginAny(p)
  BY <1>1, BeginAnyKeeps
<1>2. CASE Dies(p)
  BY <1>2, DiesKeeps DEF Dies
<1>3. CASE LeasedTouch(p, "jobTouch", "jobStart")
  BY <1>3, LeasedTouchKeeps
<1>4. CASE LeasedTouch(p, "shellTouch", "admission")
  BY <1>4, LeasedTouchKeeps
<1>5. CASE TakeLease(p) \/ TakeRegistry(p) \/ TryCandidate(p) \/ PruneCandidate(p)
           \/ StartOverflow(p) \/ EndPruning(p) \/ Use(p) \/ DropExpired(p)
  BY <1>5, TakeLeaseKeeps, TakeRegistryKeeps, TryCandidateKeeps, PruneCandidateKeeps,
     StartOverflowKeeps, EndPruningKeeps, UseKeeps, DropExpiredKeeps
<1>6. CASE AdmitLock(p) \/ AdmitCheck(p) \/ AdmitRefused(p) \/ AdmitWrite(p) \/ StartJob(p)
           \/ TakeAdmission(p) \/ Reserve(p) \/ Inventory(p) \/ Reconcile(p) \/ Reconciled(p)
  BY <1>6, AdmitLockKeeps, AdmitCheckKeeps, AdmitRefusedKeeps, AdmitWriteKeeps, StartJobKeeps,
     TakeAdmissionKeeps, ReserveKeeps, InventoryKeeps, ReconcileKeeps, ReconciledKeeps
<1>7. CASE StartShell(p) \/ StartFailed(p) \/ RegisterShell(p) \/ KillShell(p) \/ ReleaseShell(p)
           \/ Prepare(p) \/ EndJobs(p) \/ EndList(p) \/ EndShell(p) \/ EndRegistry(p)
           \/ EndSession(p)
  BY <1>7, StartShellKeeps, StartFailedKeeps, RegisterShellKeeps, KillShellKeeps, ReleaseShellKeeps,
     PrepareKeeps, EndJobsKeeps, EndListKeeps, EndShellKeeps, EndRegistryKeeps, EndSessionKeeps
<1> QED BY <1>1, <1>2, <1>3, <1>4, <1>5, <1>6, <1>7 DEF SessStep

LEMMA EnvironmentSteps ==
  ASSUME SessInv,
         \/ \E s \in Sids : Terminate(s) \/ Grow(s) \/ JobEnds(s)
         \/ \E x \in Shells : ShellExits(x)
  PROVE  Typed' /\ Effects(Nobody)
<1>1. UNCHANGED <<locks, act>>
  BY DEF Terminate, Grow, JobEnds, ShellExits
<1>2. Held' /\ Acts' /\ OfLocks(Nobody)
  BY <1>1 DEF locks, SessInv, Shared, Held, Acts, OfLocks, MayTake
<1>3. ASSUME NEW s \in Sids, Terminate(s) PROVE Typed' /\ Effects(Nobody)
  <2>1. sess' = [sess EXCEPT ![s] = [sess[s] EXCEPT !.age = 0, !.term = TRUE]]
    BY <1>3 DEF Terminate, SessInv, Shared, Stored
  <2>2. Stored' /\ OfSess(Nobody)
    BY <1>3, <2>1, Rewritten DEF Terminate
  <2> QED BY <1>2, <1>3, <2>2, LiveSame, JobSame DEF Terminate, SessInv, Typed, Effects
<1>4. ASSUME NEW s \in Sids, Grow(s) PROVE Typed' /\ Effects(Nobody)
  <2>1. PICK age \in sess[s].age + 1..2 :
          /\ age = 2 => lease[s] = Nobody
          /\ sess' = [sess EXCEPT ![s].age = age]
    BY <1>4 DEF Grow
  <2>2. sess[s] \in Meta /\ sess[s].age \in 0..2
    BY DEF SessInv, Shared, Stored, Meta
  <2>3. age \in 0..2 /\ age >= sess[s].age /\ (age <= 1 \/ lease[s] = Nobody)
    BY <2>1, <2>2
  <2> DEFINE r == [sess[s] EXCEPT !.age = age]
  <2>4. sess' = [sess EXCEPT ![s] = r]
    BY <2>1 DEF SessInv, Shared, Stored
  <2>5. /\ r \in Meta /\ r.age = age /\ r.up = sess[s].up /\ r.term = sess[s].term
        /\ r.remote = sess[s].remote /\ r.shells = sess[s].shells
    BY <2>2, <2>3 DEF Meta
  <2> HIDE DEF r
  <2>6. /\ sess' \in [Sids -> Meta] /\ sess'[s] = r /\ \A t \in Sids : t # s => sess'[t] = sess[t]
    BY <2>4, <2>5 DEF SessInv, Shared, Stored
  <2>7. \A t \in Sids : sess'[t].up = sess[t].up /\ sess'[t].remote = sess[t].remote
    BY <2>5, <2>6
  <2>8. Up' = Up /\ drawn' = drawn /\ drawn \subseteq Sids
    BY <1>4, <2>7 DEF Grow, Up, SessInv, Shared, Stored
  <2>9. \A t \in Sids : /\ sess'[t].term = sess[t].term /\ sess'[t].shells = sess[t].shells
                        /\ sess'[t].age >= sess[t].age
    <3>1. \A t \in Sids : sess[t].age \in 0..2
      BY DEF SessInv, Shared, Stored, Meta
    <3> QED BY <2>3, <2>5, <2>6, <3>1
  <2>10. \A t \in Sids : lease[t] # Nobody /\ sess[t].age <= 1 => sess'[t].age <= 1
    BY <2>3, <2>5, <2>6
  <2>11. Stored' /\ OfSess(Nobody)
    BY <2>6, <2>7, <2>8, <2>9, <2>10 DEF Stored, OfSess, SessInv, Shared, Limits
  <2> QED BY <1>2, <1>4, <2>11, LiveSame, JobSame DEF Grow, SessInv, Typed, Effects
<1>5. ASSUME NEW s \in Sids, JobEnds(s) PROVE Typed' /\ Effects(Nobody)
  <2>1. OfJob(Nobody)
    BY <1>5 DEF JobEnds, OfJob
  <2> QED BY <1>2, <1>5, <2>1, SessSame, LiveSame DEF JobEnds, SessInv, Typed, Effects
<1>6. ASSUME NEW x \in Shells, ShellExits(x) PROVE Typed' /\ Effects(Nobody)
  <2>1. /\ live' \in [Shells -> Sids \cup {Untagged, Nobody}] /\ live'[x] = Nobody
        /\ \A y \in Shells : y # x => live'[y] = live[y]
    BY <1>6 DEF ShellExits, SessInv, Shared, Tags
  <2>2. Tags' /\ OfLive(Nobody)
    BY <2>1, SessionsAssumption DEF Tags, OfLive, Running
  <2> QED BY <1>2, <1>6, <2>2, SessSame, JobSame DEF ShellExits, SessInv, Typed, Effects
<1> QED BY <1>3, <1>4, <1>5, <1>6

--------------------------------------------------------------------------------
LEMMA InvInit == SessInit => SessInv
<1> SUFFICES ASSUME SessInit PROVE SessInv
  OBVIOUS
<1>1. PICK k \in 0..MaxSessions : drawn = {s \in Sids : s <= k}
  BY DEF SessInit
<1>2. /\ drawn \subseteq Sids /\ drawn \subseteq 1..k /\ k \in Nat /\ k <= MaxSessions
  <2>1. k \in Nat /\ k <= MaxSessions
    BY SessionsAssumption
  <2>2. ASSUME NEW s \in drawn PROVE s \in Sids /\ s \in 1..k
    <3>1. s \in Sids /\ s <= k
      BY <1>1
    <3>2. s \in Nat /\ s # 0
      BY <3>1, SessionsAssumption
    <3> QED BY <2>1, <3>1, <3>2
  <2> QED BY <2>1, <2>2
<1>3. IsFiniteSet(drawn) /\ Cardinality(drawn) <= MaxSessions
  <2>1. IsFiniteSet(1..k) /\ Cardinality(1..k) = k
    BY <1>2, FS_Interval
  <2>2. IsFiniteSet(drawn) /\ Cardinality(drawn) <= k /\ Cardinality(drawn) \in Nat
    BY <1>2, <2>1, FS_Subset, FS_CardinalityType
  <2> QED BY <1>2, <2>2, SessionsAssumption
<1>4. Gone \in Meta /\ Fresh(FALSE) \in Meta /\ ~Gone.up /\ Fresh(FALSE).up
  <2>1. Gone \in Meta /\ ~Gone.up
    BY DEF Gone, Meta
  <2>2. ASSUME NEW m \in Meta
        PROVE  [m EXCEPT !.up = TRUE, !.remote = FALSE] \in Meta
               /\ [m EXCEPT !.up = TRUE, !.remote = FALSE].up
    BY DEF Meta
  <2> QED BY <2>1, <2>2 DEF Fresh
<1>5. Stored /\ Up = drawn
  BY <1>2, <1>4 DEF SessInit, Stored, Up
<1>6. Held /\ Tags /\ Acts
  BY IdleIsDoing DEF SessInit, Held, Tags, Acts
<1>7. Running = {}
  BY DEF SessInit, Running
<1>8. IsFiniteSet(Running) /\ Cardinality(Running) <= MaxShells
  BY <1>7, FS_EmptySet, SessionsAssumption
<1>9. Tagged
  BY SessionsAssumption DEF SessInit, Tagged
<1>10. Shared
  BY <1>3, <1>5, <1>6, <1>8, <1>9 DEF SessInit, Shared, Limits
<1>11. ASSUME NEW p \in Procs PROVE Own(p)
  <2>1. act[p].pc = "idle"
    BY DEF SessInit, Idle
  <2> QED
    BY <2>1 DEF Own, Names, HoldsLocks, Knows, InStart, Leased, OfSession, OfShell, Pruning, Ending,
           Admitting, Starting
<1> QED BY <1>10, <1>11 DEF SessInv

LEMMA InvNext == SessInv /\ [SessNext]_sessVars => SessInv'
<1> SUFFICES ASSUME SessInv, [SessNext]_sessVars PROVE SessInv'
  OBVIOUS
<1>1. ASSUME NEW p \in Procs, BeginAny(p) \/ SessStep(p) \/ Dies(p) PROVE SessInv'
  BY <1>1, SessStepKeeps, StepKeeps
<1>2. CASE \/ \E s \in Sids : Terminate(s) \/ Grow(s) \/ JobEnds(s)
           \/ \E x \in Shells : ShellExits(x)
  BY <1>2, EnvironmentSteps, EnvironmentKeeps
<1>3. CASE UNCHANGED sessVars
  <2>1. UNCHANGED <<sess, drawn, job, live, lease, tx, registry, admission, act>>
    BY <1>3 DEF sessVars, locks
  <2>2. Held' /\ Acts' /\ OfLocks(Nobody)
    BY <2>1 DEF SessInv, Shared, Held, Acts, OfLocks, MayTake
  <2>3. Typed' /\ Effects(Nobody)
    BY <2>1, <2>2, SessSame, LiveSame, JobSame DEF SessInv, Typed, Effects
  <2> QED BY <2>3, EnvironmentKeeps
<1> QED BY <1>1, <1>2, <1>3 DEF SessNext

\* The limits on sessions and shells hold across processes, the locks have one
\* holder each, and what was admitted together is active together.
THEOREM SessionsTheorem == SessSpec => []SessionsSound
<1>1. SessInv => SessionsSound
  BY DEF SessInv, Shared, Stored, Held, Tags, Limits, Own, Names, HoldsLocks, Knows, At, Meta,
     SessionsSound,
         SessTypeOK, SessionLimit, ShellLimit, AdmittedAreActive
<1> QED BY <1>1, InvInit, InvNext, PTL DEF SessSpec

--------------------------------------------------------------------------------
\* Which steps take a session down: the others keep it.
KeptUp == \A s \in Sids : sess[s].up => sess'[s].up

\* A write of some of its other fields does not take a session down.
LEMMA OtherFields ==
  ASSUME SessInv, NEW s \in Sids, NEW age \in 0..2, NEW S \in SUBSET Shells,
         sess' \in {[sess EXCEPT ![s].age = age], [sess EXCEPT ![s].shells = S],
                   [sess EXCEPT ![s].age = age, ![s].shells = S],
                   [sess EXCEPT ![s].age = age, ![s].term = TRUE]}
  PROVE  KeptUp
<1>1. sess \in [Sids -> Meta]
  BY DEF SessInv, Shared, Stored
<1>2. CASE sess' = [sess EXCEPT ![s].age = age]
  BY <1>1, <1>2 DEF KeptUp, Meta
<1>3. CASE sess' = [sess EXCEPT ![s].shells = S]
  BY <1>1, <1>3 DEF KeptUp, Meta
<1>4. CASE sess' = [sess EXCEPT ![s].age = age, ![s].shells = S]
  BY <1>1, <1>4 DEF KeptUp, Meta
<1>5. CASE sess' = [sess EXCEPT ![s].age = age, ![s].term = TRUE]
  BY <1>1, <1>5 DEF KeptUp, Meta
<1> QED BY <1>2, <1>3, <1>4, <1>5

\* Only the prune, the teardown and the two calls that drop an expired session
\* take one down.
LEMMA OthersKeepUp ==
  ASSUME SessInv, NEW p \in Procs, BeginAny(p) \/ SessStep(p) \/ Dies(p),
         ~PruneCandidate(p), ~EndSession(p), ~DropExpired(p), ~AdmitRefused(p)
  PROVE  KeptUp
<1>0. {} \in SUBSET Shells /\ 0 \in 0..2
  OBVIOUS
<1>1. CASE sess' = sess
  BY <1>1 DEF KeptUp
<1>2. ASSUME NEW s \in Sids, sess' = Touched(s) PROVE KeptUp
  BY <1>0, <1>2, OtherFields DEF Touched
<1>3. CASE BeginAny(p) \/ Dies(p)
  BY <1>1, <1>3 DEF BeginAny, Begin, Dies, GiveUp
<1>4. CASE TakeLease(p) \/ TakeRegistry(p) \/ TryCandidate(p) \/ StartOverflow(p) \/ AdmitLock(p)
           \/ AdmitCheck(p) \/ StartJob(p) \/ TakeAdmission(p) \/ Inventory(p) \/ Reconciled(p)
           \/ StartShell(p) \/ KillShell(p) \/ EndJobs(p) \/ EndRegistry(p)
  BY <1>1, <1>4 DEF TakeLease, LeaseStart, TakeRegistry, StartPruning, TryCandidate, StartOverflow,
     AdmitLock, AdmitCheck, StartJob, TakeAdmission, Admit, Inventory, Reconciled, StartShell, KillShell,
     EndJobs, EndRegistry, GiveUp
<1>5. CASE EndPruning(p)
  <2>1. ASSUME NEW s \in Sids \ drawn, NEW remote \in BOOLEAN,
               sess' = [sess EXCEPT ![s] = Fresh(remote)]
        PROVE  KeptUp
    <3>1. \A t \in Sids : t # s => sess'[t] = sess[t]
      BY <2>1 DEF SessInv, Shared, Stored
    <3>2. ~sess[s].up
      BY DEF SessInv, Shared, Stored, Up
    <3> QED BY <3>1, <3>2 DEF KeptUp
  <2> QED BY <1>1, <1>5, <2>1 DEF EndPruning
<1>6. CASE Use(p)
  BY <1>1, <1>2, <1>6 DEF Use, Write, GiveUp, At, SessInv, Own, Names, OfSession
<1>7. CASE AdmitWrite(p)
  <2>1. \A s \in Sids : sess[s] \in Meta
    BY DEF SessInv, Shared, Stored
  <2>2. \A s \in Sids : sess'[s] = sess[s] \/ sess'[s] = [sess[s] EXCEPT !.age = 0]
    BY <1>7 DEF AdmitWrite, Write
  <2> QED BY <2>1, <2>2 DEF KeptUp, Meta
<1>8. ASSUME NEW from \in {"jobTouch", "shellTouch"}, NEW to, LeasedTouch(p, from, to) PROVE KeptUp
  BY <1>1, <1>2, <1>8 DEF LeasedTouch, Write, GiveUp, At, SessInv, Own, Names, OfSession
<1>9. ASSUME NEW s \in Sids, NEW S \in SUBSET Shells,
             sess' \in {[sess EXCEPT ![s].shells = S], [sess EXCEPT ![s].age = 0, ![s].shells = S]}
      PROVE  KeptUp
  BY <1>0, <1>9, OtherFields
<1>10. \A s \in Sids : sess[s] \in Meta /\ sess[s].shells \subseteq Shells
  BY DEF SessInv, Shared, Stored, Meta
<1>11. CASE Reserve(p) \/ RegisterShell(p)
  <2> DEFINE s == Sid(p)
             S == sess[s].shells \cup {Shell(p)}
  <2>1. s \in Sids /\ S \in SUBSET Shells
    BY <1>10, <1>11 DEF Reserve, RegisterShell, At, SessInv, Own, Names, OfSession, OfShell
  <2>2. sess' = sess \/ sess' = [sess EXCEPT ![s].age = 0, ![s].shells = @ \cup {Shell(p)}]
    BY <1>11 DEF Reserve, RegisterShell, Write, GiveUp
  <2>3. [sess EXCEPT ![s].age = 0, ![s].shells = @ \cup {Shell(p)}]
          = [sess EXCEPT ![s].age = 0, ![s].shells = S]
    BY <2>1, <1>10 DEF SessInv, Shared, Stored, Meta
  <2> HIDE DEF S
  <2> QED BY <1>1, <1>9, <2>1, <2>2, <2>3
<1>12. CASE Reconcile(p)
  <2>1. PICK s \in act[p].todo : Write([sess EXCEPT ![s].shells = @ \cap act[p].seen])
    BY <1>12 DEF Reconcile
  <2> DEFINE S == sess[s].shells \cap act[p].seen
  <2>2. s \in Sids
    BY <1>12 DEF Reconcile, At, SessInv, Own, Names
  <2>3. S \in SUBSET Shells /\ sess' = [sess EXCEPT ![s].shells = S]
    BY <1>10, <2>1, <2>2 DEF Write, SessInv, Shared, Stored
  <2> HIDE DEF S
  <2> QED BY <1>9, <2>2, <2>3
<1>13. CASE StartFailed(p)
  <2> DEFINE s == Sid(p)
             S == sess[s].shells \ {Shell(p)}
  <2>1. sess' = sess \/ (s # Nobody /\ sess' = [sess EXCEPT ![s].shells = S])
    BY <1>13 DEF StartFailed, Write
  <2>2. s # Nobody => s \in Sids
    BY DEF SessInv, Shared, Acts, Doing, Sid
  <2>3. s # Nobody => S \in SUBSET Shells
    BY <1>10, <2>2
  <2> HIDE DEF S
  <2> QED BY <1>1, <1>9, <2>1, <2>2, <2>3
<1>14. CASE ReleaseShell(p)
  <2>1. ASSUME NEW s \in act[p].seen, Write([sess EXCEPT ![s].shells = @ \ {Shell(p)}])
        PROVE  KeptUp
    <3> DEFINE S == sess[s].shells \ {Shell(p)}
    <3>1. s \in Sids
      BY <1>14 DEF ReleaseShell, SessInv, Own, Names
    <3>2. S \in SUBSET Shells /\ sess' = [sess EXCEPT ![s].shells = S]
      BY <1>10, <2>1, <3>1 DEF Write, SessInv, Shared, Stored
    <3> HIDE DEF S
    <3> QED BY <1>9, <3>1, <3>2
  <2> QED BY <1>1, <1>14, <2>1 DEF ReleaseShell, GiveUp
<1>15. CASE Prepare(p)
  <2>1. Sid(p) \in Sids
    BY <1>15 DEF Prepare, At, SessInv, Own, Names, OfSession, Ending
  <2>2. sess' = sess \/ sess' = [sess EXCEPT ![Sid(p)].age = 0, ![Sid(p)].term = TRUE]
    BY <1>15 DEF Prepare, Write, GiveUp
  <2> QED BY <1>0, <1>1, <2>1, <2>2, OtherFields
<1>16. CASE EndList(p) \/ EndShell(p)
  <2>1. Sid(p) \in Sids /\ Owned(Sid(p)) \in SUBSET Shells
    BY <1>16 DEF EndList, EndShell, At, SessInv, Own, Names, OfSession, Ending, Owned
  <2>2. sess' = sess \/ sess' = [sess EXCEPT ![Sid(p)].shells = Owned(Sid(p))]
    BY <1>16 DEF EndList, EndShell, Write, GiveUp
  <2> QED BY <1>1, <1>9, <2>1, <2>2
<1>17. SessStep(p) =>
         \/ TakeLease(p) \/ TakeRegistry(p) \/ TryCandidate(p) \/ StartOverflow(p) \/ AdmitLock(p)
         \/ AdmitCheck(p) \/ StartJob(p) \/ TakeAdmission(p) \/ Inventory(p) \/ Reconciled(p)
         \/ StartShell(p) \/ KillShell(p) \/ EndJobs(p) \/ EndRegistry(p)
         \/ EndPruning(p) \/ Use(p) \/ AdmitWrite(p) \/ Reserve(p) \/ RegisterShell(p)
         \/ LeasedTouch(p, "jobTouch", "jobStart") \/ LeasedTouch(p, "shellTouch", "admission")
         \/ Reconcile(p) \/ StartFailed(p) \/ ReleaseShell(p) \/ Prepare(p)
         \/ EndList(p) \/ EndShell(p)
  BY DEF SessStep
<1> QED
  BY <1>3, <1>4, <1>5, <1>6, <1>7, <1>8, <1>11, <1>12, <1>13, <1>14, <1>15, <1>16, <1>17

LEMMA EnvironmentKeepsUp ==
  ASSUME SessInv,
         \/ \E s \in Sids : Terminate(s) \/ Grow(s) \/ JobEnds(s)
         \/ \E x \in Shells : ShellExits(x)
  PROVE  KeptUp
<1>0. {} \in SUBSET Shells /\ 0 \in 0..2
  OBVIOUS
<1>1. ASSUME NEW s \in Sids, Terminate(s) PROVE KeptUp
  BY <1>0, <1>1, OtherFields DEF Terminate
<1>2. ASSUME NEW s \in Sids, Grow(s) PROVE KeptUp
  <2>1. PICK age \in sess[s].age + 1..2 : sess' = [sess EXCEPT ![s].age = age]
    BY <1>2 DEF Grow
  <2>2. sess[s].age \in 0..2
    BY DEF SessInv, Shared, Stored, Meta
  <2>3. age \in 0..2
    BY <2>2
  <2> QED BY <1>0, <2>1, <2>3, OtherFields
<1>3. ASSUME NEW s \in Sids, JobEnds(s) PROVE KeptUp
  BY <1>3 DEF JobEnds, KeptUp
<1>4. ASSUME NEW x \in Shells, ShellExits(x) PROVE KeptUp
  BY <1>4 DEF ShellExits, KeptUp
<1> QED BY <1>1, <1>2, <1>3, <1>4

\* How a session goes down.
Ends(s) ==
  \/ \E p \in Procs : Tears(p, s)
  \/ /\ Unprotected(s) /\ sess[s].age >= 1 /\ ~sess[s].remote
     /\ \A p \in Procs : lease[s] = p => Prunes2(p)

LEMMA PruneEnds ==
  ASSUME SessInv, NEW p \in Procs, PruneCandidate(p), NEW s \in Sids, sess[s].up, ~sess'[s].up
  PROVE  Ends(s)
<1>1. Sid(p) \in Sids /\ lease[Sid(p)] = p /\ Prunes2(p)
  BY DEF PruneCandidate, Prunes2, SessInv, Own, Names, HoldsLocks, OfSession, Leased
<1>2. s = Sid(p) /\ Prunes(p)
  BY <1>1 DEF PruneCandidate, Removed, SessInv, Shared, Stored
<1>3. Unprotected(s) /\ sess[s].age >= 1 /\ ~sess[s].remote
  BY <1>2 DEF Prunes, PrunesExpired, PrunesOverflow, Expired
<1> QED BY <1>1, <1>2, <1>3 DEF Ends

LEMMA DropEnds ==
  ASSUME SessInv, NEW p \in Procs, NEW s \in Sids, NEW t \in Sids, sess[s].up, ~sess'[s].up,
         Expired(t), sess' = IF Droppable(t) THEN Removed(t) ELSE sess
  PROVE  Ends(s)
<1>1. s = t /\ Droppable(t)
  BY DEF Removed, SessInv, Shared, Stored
<1>2. \A q \in Procs : lease[s] # q
  BY <1>1, SessionsAssumption DEF Droppable
<1> QED BY <1>1, <1>2 DEF Ends, Expired, Droppable

LEMMA HowSessionsEnd ==
  ASSUME SessInv, [SessNext]_sessVars, NEW s \in Sids, sess[s].up, ~sess'[s].up
  PROVE  Ends(s)
<1>1. ~KeptUp
  BY DEF KeptUp
<1>2. ASSUME NEW p \in Procs, BeginAny(p) \/ SessStep(p) \/ Dies(p) PROVE Ends(s)
  <2>1. CASE PruneCandidate(p)
    BY <2>1, PruneEnds
  <2>2. CASE EndSession(p)
    <3>1. Sid(p) \in Sids /\ At(p, "remove")
      BY <2>2 DEF EndSession, At, SessInv, Own, Names, OfSession, Ending
    <3>2. s = Sid(p)
      BY <2>2, <3>1 DEF EndSession, Write, Removed, SessInv, Shared, Stored
    <3> QED BY <3>1, <3>2 DEF Ends, Tears
  <2>3. CASE DropExpired(p)
    <3>1. Sid(p) \in Sids /\ Expired(Sid(p))
      BY <2>3 DEF DropExpired, At, SessInv, Own, Names, Knows, OfSession
    <3> QED BY <2>3, <3>1, DropEnds DEF DropExpired, Write
  <2>4. CASE AdmitRefused(p)
    <3>1. PICK t \in act[p].seen : Write(IF Expired(t) /\ Droppable(t) THEN Removed(t) ELSE sess)
      BY <2>4 DEF AdmitRefused
    <3>2. t \in Sids
      BY <2>4 DEF AdmitRefused, At, SessInv, Own, Names
    <3>3. Expired(t)
      BY <3>1 DEF Write
    <3> QED BY <3>1, <3>2, <3>3, DropEnds DEF Write
  <2> QED BY <1>1, <1>2, <2>1, <2>2, <2>3, <2>4, OthersKeepUp
<1>3. CASE \/ \E r \in Sids : Terminate(r) \/ Grow(r) \/ JobEnds(r)
           \/ \E x \in Shells : ShellExits(x)
  BY <1>1, <1>3, EnvironmentKeepsUp
<1>4. CASE UNCHANGED sessVars
  BY <1>1, <1>4 DEF sessVars, KeptUp
<1> QED BY <1>2, <1>3, <1>4 DEF SessNext

\* A session in use is kept, and one that was torn down leaves nothing running:
\* neither an active job nor a shell with its tag, whatever else was under way.
THEOREM SessionsEndTheorem == SessSpec => SessionsEndRightly
<1>1. SessInv /\ [SessNext]_sessVars =>
        [\A s \in Sids : sess[s].up /\ ~sess'[s].up =>
           \/ \E p \in Procs : Tears(p, s)
           \/ /\ Unprotected(s) /\ sess[s].age >= 1 /\ ~sess[s].remote
              /\ \A p \in Procs : lease[s] = p => Prunes2(p)]_sessVars
  BY HowSessionsEnd DEF Ends
<1>2. SessInv => \A s \in Sids, p \in Procs : Tears(p, s) => s \notin job /\ Owned(s) = {}
  BY DEF SessInv, Own, Knows, Tears, At
<1>3. SessInv /\ [SessNext]_sessVars =>
        [\A s \in Sids, p \in Procs : sess[s].up /\ ~sess'[s].up /\ Tears(p, s) =>
           s \notin job /\ Owned(s) = {}]_sessVars
  BY <1>2
<1> QED
  BY <1>1, <1>3, InvInit, InvNext, PTL DEF SessSpec, SessionsEndRightly, UsedIsKept, TornDownIsQuiet

--------------------------------------------------------------------------------
(*****************************************************************************)
(* What a copy promises.                                                     *)
(*****************************************************************************)
CopyFields == {"pc", "att", "gen", "want", "off", "then", "verdict"}
DownFields == {"pc", "off", "slot", "tries", "gen", "want", "c", "driven"}
Verdicts == {"none", "running", "copied", "failed", "cancelled", "interrupted"}

\* The copy, with d at the destination: it is running until it reports, and is past
\* its publication only when a whole version is there.
CopyFine(k, d) ==
  /\ DOMAIN k = CopyFields /\ k.then \in {"failed", "cancelled"} /\ k.verdict \in Verdicts
  /\ k.pc # "idle" => k.verdict = "running" /\ k.want \in Versions /\ k.att \in Gens
  /\ k.pc \in {"consume", "delete", "reply"} => d \in Wholes
\* A download client, whose copy has reported v.
DownFine(w, v, d) ==
  /\ DOMAIN w = DownFields
  /\ w.pc # "none" => w.want \in Versions /\ v # "none"
  /\ w.pc = "ok" => d \in Wholes

PromiseInv ==
  /\ src \in Versions /\ CopyFine(copy, dest)
  /\ DOMAIN down = Gens /\ \A a \in Gens : DownFine(down[a], copy.verdict, dest)

\* What a step does to the promise.
NoClobber == ~mode.overwrite /\ dest = Other => dest' = Other
CopyKeeps == PromiseInv' /\ [Promise!Next]_<<dest, copy.verdict>> /\ NoClobber

LEMMA WholeContents ==
  /\ \A v \in Versions : Whole(v) \in Wholes
  /\ Absent \notin Wholes /\ Other \notin Wholes /\ Absent # Other
<1>1. \A v \in Versions : Whole(v) \in Wholes BY DEF Wholes
<1>2. 1 \in Chunks BY SizeAssumption DEF Chunks
<1>3. ASSUME NEW v \in Versions PROVE Whole(v) # Absent /\ Whole(v) # Other
  <2>1. DOMAIN Whole(v) = Chunks /\ Whole(v)[1] = Piece(1, v) BY <1>2 DEF Whole
  <2>2. Piece(1, v) # Hole BY DEF Piece, Hole
  <2>3. DOMAIN Absent = {} BY DEF Absent
  <2>4. Other[1] = Hole BY DEF Other
  <2> QED BY <1>2, <2>1, <2>2, <2>3, <2>4
<1>4. Absent # Other BY DEF Absent, Other
<1> QED BY <1>1, <1>3, <1>4 DEF Wholes

\* The destination stays, or becomes whole.
LEMMA DestMoves ==
  ASSUME NEW w, NEW v, NEW d, NEW e, DownFine(w, v, d), d \in Wholes => e \in Wholes, NEW u,
         v # "none" => u # "none"
  PROVE  DownFine(w, u, e)
BY DEF DownFine

\* The copy moves, the destination and the downloads stay.
LEMMA CopyMoves ==
  ASSUME PromiseInv, UNCHANGED <<dest, down>>, src' \in Versions, CopyFine(copy', dest),
         \/ copy'.verdict = copy.verdict
         \/ copy'.verdict = "running" /\ copy.verdict \in {"none", "failed", "interrupted"}
         \/ copy.verdict = "running" /\ copy'.verdict \in {"failed", "cancelled", "interrupted"}
         \/ copy.verdict = "running" /\ copy'.verdict = "copied" /\ dest \in Wholes
  PROVE  CopyKeeps
<1>1. PromiseInv'
  <2>1. copy.verdict # "none" => copy'.verdict # "none" OBVIOUS
  <2>2. CopyFine(copy', dest') OBVIOUS
  <2>3. ASSUME NEW a \in Gens PROVE DownFine(down'[a], copy'.verdict, dest')
    BY <2>1, DestMoves DEF PromiseInv
  <2> QED BY <2>2, <2>3 DEF PromiseInv
<1>2. [Promise!Next]_<<dest, copy.verdict>>
  BY DEF Promise!Next, Promise!Begin, Promise!GiveUp, Promise!Over, Promise!Succeed
<1>3. NoClobber BY DEF NoClobber
<1> QED BY <1>1, <1>2, <1>3 DEF CopyKeeps

\* Download clients move, or are lost; the destination and the copy stay.
LEMMA DownMoves ==
  ASSUME PromiseInv, UNCHANGED <<dest, copy>>, src' \in Versions,
         DOMAIN down' = Gens, \A a \in Gens : DownFine(down'[a], copy.verdict, dest)
  PROVE  CopyKeeps
<1>1. PromiseInv' BY DEF PromiseInv
<1>2. NoClobber BY DEF NoClobber
<1> QED BY <1>1, <1>2 DEF CopyKeeps

\* Nothing that the promise speaks of changes.
LEMMA Aside == ASSUME PromiseInv, UNCHANGED <<dest, copy, down>>, src' \in Versions PROVE CopyKeeps
BY DownMoves DEF PromiseInv

LEMMA OneDownMoves ==
  ASSUME PromiseInv, UNCHANGED <<dest, copy>>, src' = src, NEW a \in Gens, NEW w,
         down' = [down EXCEPT ![a] = w], DownFine(w, copy.verdict, dest)
  PROVE  CopyKeeps
<1>1. DOMAIN down' = Gens /\ \A b \in Gens : DownFine(down'[b], copy.verdict, dest)
  BY DEF PromiseInv
<1> QED BY <1>1, DownMoves DEF PromiseInv

--------------------------------------------------------------------------------
LEMMA GotoKeeps ==
  ASSUME PromiseInv, UNCHANGED <<dest, down, src>>, NEW pc, Goto(pc), copy.pc # "idle",
         pc \in {"consume", "delete", "reply"} => dest \in Wholes
  PROVE  CopyKeeps
<1>1. CopyFine(copy, dest) BY DEF PromiseInv
<1>2. PICK k : k = [copy EXCEPT !.pc = pc] OBVIOUS
<1>3. CopyFine(k, dest) /\ k.verdict = copy.verdict BY <1>1, <1>2 DEF CopyFine, CopyFields
<1> QED BY <1>2, <1>3, CopyMoves DEF PromiseInv, Goto

LEMMA ReportKeeps ==
  ASSUME PromiseInv, UNCHANGED <<dest, down, src>>, NEW v, Report(v), copy.pc # "idle",
         v \in {"failed", "cancelled"} \/ (v = "copied" /\ dest \in Wholes)
  PROVE  CopyKeeps
<1>1. CopyFine(copy, dest) BY DEF PromiseInv
<1>2. PICK k : k = [copy EXCEPT !.pc = "idle", !.verdict = v] OBVIOUS
<1>3. CopyFine(k, dest) /\ k.verdict = v
  BY <1>1, <1>2 DEF CopyFine, CopyFields, Verdicts
<1>4. copy.verdict = "running" BY <1>1 DEF CopyFine
<1> QED BY <1>2, <1>3, <1>4, CopyMoves DEF PromiseInv, Report

LEMMA UnwindKeeps ==
  ASSUME PromiseInv, UNCHANGED <<dest, down, src>>, NEW v, Unwind(v), copy.pc # "idle",
         v \in {"failed", "cancelled"}
  PROVE  CopyKeeps
<1>1. CopyFine(copy, dest) BY DEF PromiseInv
<1>2. PICK k : k = [copy EXCEPT !.pc = "undo", !.then = v] OBVIOUS
<1>3. CopyFine(k, dest) /\ k.verdict = copy.verdict BY <1>1, <1>2 DEF CopyFine, CopyFields
<1> QED BY <1>2, <1>3, CopyMoves DEF PromiseInv, Unwind

LEMMA StartKeeps == ASSUME PromiseInv, Start PROVE CopyKeeps
<1>1. CopyFine(copy, dest) /\ src \in Versions BY DEF PromiseInv
<1>2. PICK pc \in {"prepare", "rpcBegin", "same"} :
        copy' = [copy EXCEPT !.pc = pc, !.att = @ + 1, !.want = src, !.off = 0,
                             !.verdict = "running"]
  BY DEF Start
<1>3. UNCHANGED <<dest, down, src>> /\ copy.att + 1 \in Gens
      /\ copy.verdict \in {"none", "failed", "interrupted"}
  BY DEF Start, fileVars
<1>4. PICK k : k = [copy EXCEPT !.pc = pc, !.att = @ + 1, !.want = src, !.off = 0,
                                !.verdict = "running"]
  OBVIOUS
<1>5. DOMAIN k = CopyFields /\ k.pc = pc /\ k.att = copy.att + 1 /\ k.want = src
      /\ k.then = copy.then /\ k.verdict = "running"
  BY <1>1, <1>4 DEF CopyFine, CopyFields
<1>6. CopyFine(k, dest) BY <1>1, <1>3, <1>5 DEF CopyFine, Verdicts
<1> QED BY <1>1, <1>2, <1>3, <1>4, <1>5, <1>6, CopyMoves

LEMMA PreparedKeeps == ASSUME PromiseInv, Prepared PROVE CopyKeeps
<1>1. UNCHANGED <<dest, down, src>> /\ copy.pc = "prepare" BY DEF Prepared, fileVars
<1>2. CASE Report("failed") BY <1>1, <1>2, ReportKeeps
<1>3. CASE copy' = [copy EXCEPT !.pc = IF SrcRemote THEN "upload" ELSE "check", !.gen = obj.gen]
  <2>1. CopyFine(copy, dest) BY DEF PromiseInv
  <2>2. PICK pc \in {"upload", "check"} : pc = IF SrcRemote THEN "upload" ELSE "check" OBVIOUS
  <2>3. PICK k : k = [copy EXCEPT !.pc = pc, !.gen = obj.gen] OBVIOUS
  <2>4. CopyFine(k, dest) /\ k.verdict = copy.verdict
    BY <1>1, <2>1, <2>3 DEF CopyFine, CopyFields
  <2> QED BY <1>1, <1>3, <2>2, <2>3, <2>4, CopyMoves DEF PromiseInv
<1> QED BY <1>2, <1>3 DEF Prepared

LEMMA CallDownloadKeeps == ASSUME PromiseInv, CallDownload PROVE CopyKeeps
<1>1. UNCHANGED <<dest, src>> /\ copy.pc = "download" /\ Goto("downloading")
  BY DEF CallDownload, fileVars
<1>2. CopyFine(copy, dest) /\ \A a \in Gens : DownFine(down[a], copy.verdict, dest)
      /\ DOMAIN down = Gens
  BY DEF PromiseInv
<1>3. copy.verdict = "running" /\ copy.want \in Versions BY <1>1, <1>2 DEF CopyFine
<1>4. PICK pc \in {"head", "begin"} : pc = IF DstRemote THEN "head" ELSE "begin" OBVIOUS
<1>5. PICK w : w = [NoDown EXCEPT !.pc = pc, !.gen = copy.gen, !.want = copy.want] OBVIOUS
<1>6. DOMAIN w = DownFields /\ w.pc = pc /\ w.want = copy.want
  BY <1>5 DEF NoDown, DownFields
<1>7. down' = [down EXCEPT ![a0] = w] BY <1>4, <1>5 DEF CallDownload
<1>8. DownFine(w, "running", dest) BY <1>3, <1>6 DEF DownFine
<1>9. PICK k : k = [copy EXCEPT !.pc = "downloading"] OBVIOUS
<1>10. CopyFine(k, dest) /\ k.verdict = "running" /\ copy' = k
  BY <1>1, <1>2, <1>3, <1>9 DEF CopyFine, CopyFields, Goto
<1>11. PromiseInv' BY <1>1, <1>2, <1>3, <1>7, <1>8, <1>10 DEF PromiseInv
<1>12. UNCHANGED <<dest, copy.verdict>> BY <1>1, <1>3, <1>10
<1> QED BY <1>1, <1>11, <1>12 DEF CopyKeeps, NoClobber

LEMMA DownloadedKeeps == ASSUME PromiseInv, Downloaded PROVE CopyKeeps
<1>1. UNCHANGED <<dest, down, src>> /\ copy.pc = "downloading" BY DEF Downloaded, fileVars
<1>2. CASE Unwind("failed") BY <1>1, <1>2, UnwindKeeps
<1>3. CASE down[a0].pc = "ok" /\ Goto("consume")
  <2>1. a0 \in Gens BY <1>1 DEF PromiseInv, CopyFine, a0
  <2>2. dest \in Wholes BY <1>3, <2>1 DEF PromiseInv, DownFine
  <2> QED BY <1>1, <1>3, <2>2, GotoKeeps
<1> QED BY <1>2, <1>3 DEF Downloaded

\* The file becomes whole.
LEMMA PublishKeeps ==
  ASSUME PromiseInv, dest' \in Wholes, mode.overwrite \/ dest = Absent, UNCHANGED <<src, mode>>,
         copy.verdict # "none", copy'.verdict = copy.verdict, CopyFine(copy', dest'),
         DOMAIN down' = Gens, \A a \in Gens : DownFine(down'[a], copy.verdict, dest')
  PROVE  CopyKeeps
<1>1. PromiseInv' BY DEF PromiseInv
<1>2. Promise!Publish BY DEF Promise!Publish
<1>3. NoClobber BY WholeContents DEF NoClobber
<1> QED BY <1>1, <1>2, <1>3 DEF CopyKeeps, Promise!Next

LEMMA RpcFinishKeeps == ASSUME PromiseInv, RpcFinish PROVE CopyKeeps
<1>1. UNCHANGED <<src, mode, down>> /\ copy.pc = "rpcCopy" BY DEF RpcFinish
<1>2. CASE ~FinishAccepted(a0, copy.want, mode.overwrite)
  <2>1. UNCHANGED dest /\ Unwind("failed") BY <1>2 DEF RpcFinish, fileVars
  <2> QED BY <1>1, <2>1, UnwindKeeps
<1>3. CASE FinishAccepted(a0, copy.want, mode.overwrite)
  <2>1. dest' = Whole(copy.want) /\ Goto("reply") /\ (mode.overwrite \/ dest = Absent)
    BY <1>3 DEF RpcFinish, FinishAccepted, FinishMove, DigestIs
  <2>2. CopyFine(copy, dest) BY DEF PromiseInv
  <2>3. copy.verdict = "running" /\ copy.want \in Versions BY <1>1, <2>2 DEF CopyFine
  <2>4. dest' \in Wholes BY <2>1, <2>3, WholeContents
  <2>5. PICK k : k = [copy EXCEPT !.pc = "reply"] OBVIOUS
  <2>6. CopyFine(k, dest') /\ k.verdict = copy.verdict /\ copy' = k
    BY <1>1, <2>1, <2>2, <2>4, <2>5 DEF CopyFine, CopyFields, Goto
  <2>7. \A a \in Gens : DownFine(down'[a], copy.verdict, dest')
    BY <1>1, <2>4, DestMoves DEF PromiseInv
  <2> QED BY <1>1, <2>1, <2>3, <2>4, <2>6, <2>7, PublishKeeps DEF PromiseInv
<1> QED BY <1>2, <1>3

LEMMA SameWorkerCopyKeeps == ASSUME PromiseInv, SameWorkerCopy PROVE CopyKeeps
<1>1. UNCHANGED <<src, mode, down>> /\ copy.pc = "same" BY DEF SameWorkerCopy
<1>2. CASE ~MayBegin(mode.overwrite)
  <2>1. UNCHANGED dest /\ Report("failed") BY <1>2 DEF SameWorkerCopy
  <2> QED BY <1>1, <2>1, ReportKeeps
<1>3. CASE MayBegin(mode.overwrite)
  <2>1. dest' = Whole(src) /\ Goto("reply") /\ (mode.overwrite \/ dest = Absent)
    BY <1>3 DEF SameWorkerCopy, MayBegin
  <2>2. CopyFine(copy, dest) /\ src \in Versions BY DEF PromiseInv
  <2>3. copy.verdict = "running" BY <1>1, <2>2 DEF CopyFine
  <2>4. dest' \in Wholes BY <2>1, <2>2, WholeContents
  <2>5. PICK k : k = [copy EXCEPT !.pc = "reply"] OBVIOUS
  <2>6. CopyFine(k, dest') /\ k.verdict = copy.verdict /\ copy' = k
    BY <1>1, <2>1, <2>2, <2>4, <2>5 DEF CopyFine, CopyFields, Goto
  <2>7. \A a \in Gens : DownFine(down'[a], copy.verdict, dest')
    BY <1>1, <2>4, DestMoves DEF PromiseInv
  <2> QED BY <1>1, <2>1, <2>3, <2>4, <2>6, <2>7, PublishKeeps DEF PromiseInv
<1> QED BY <1>2, <1>3

\* The other steps of the copy.
LEMMA CopyStepKeeps == ASSUME PromiseInv, CopyStep PROVE CopyKeeps
<1>1. CopyFine(copy, dest) /\ copy.then \in {"failed", "cancelled"} /\ src \in Versions
  BY DEF PromiseInv, CopyFine
<1>2. CASE PrepOpen \/ PrepSave
  <2>1. UNCHANGED <<dest, copy, down, src>> BY <1>2 DEF PrepOpen, PrepSave, fileVars
  <2> QED BY <1>1, <2>1, Aside
<1>3. CASE CallUpload \/ Uploaded \/ Check
  <2>1. UNCHANGED <<dest, down, src>> /\ copy.pc # "idle"
        /\ (Goto("uploading") \/ Goto("check") \/ Goto("download") \/ Unwind("failed"))
    BY <1>3 DEF CallUpload, Uploaded, Check, fileVars
  <2> QED BY <2>1, GotoKeeps, UnwindKeeps
<1>4. CASE ConsumeIt
  <2>1. UNCHANGED <<dest, down, src>> /\ copy.pc = "consume"
        /\ (Goto("delete") \/ Report("failed"))
    BY <1>4 DEF ConsumeIt, fileVars
  <2>2. dest \in Wholes BY <1>1, <2>1 DEF CopyFine
  <2> QED BY <2>1, <2>2, GotoKeeps, ReportKeeps
<1>5. CASE DeleteIt \/ Replied
  <2>1. UNCHANGED <<dest, down, src>> /\ copy.pc \in {"delete", "reply"} /\ Report("copied")
    BY <1>5 DEF DeleteIt, Replied, fileVars
  <2>2. dest \in Wholes BY <1>1, <2>1 DEF CopyFine
  <2> QED BY <2>1, <2>2, ReportKeeps
<1>6. CASE Undo
  <2>1. UNCHANGED <<dest, down, src>> /\ copy.pc # "idle"
        /\ (Goto("suspend") \/ Goto("abort") \/ Report(copy.then))
    BY <1>6 DEF Undo, AbortWrite, fileVars
  <2> QED BY <1>1, <2>1, GotoKeeps, ReportKeeps
<1>7. CASE SuspendIt \/ AbortIt \/ EraseIt
  <2>1. UNCHANGED <<dest, down, src>> /\ copy.pc # "idle" /\ (Goto("erase") \/ Report(copy.then))
    BY <1>7 DEF SuspendIt, AbortIt, EraseIt, fileVars
  <2> QED BY <1>1, <2>1, GotoKeeps, ReportKeeps
<1>8. CASE RpcBegin
  <2>1. UNCHANGED <<dest, down, src>> /\ copy.pc = "rpcBegin" BY <1>8 DEF RpcBegin
  <2>2. CASE Report("failed") BY <2>1, <2>2, ReportKeeps
  <2>3. CASE copy' = [copy EXCEPT !.pc = "rpcCopy", !.gen = a0]
    <3>1. PICK k : k = [copy EXCEPT !.pc = "rpcCopy", !.gen = a0] OBVIOUS
    <3>2. CopyFine(k, dest) /\ k.verdict = copy.verdict
      BY <1>1, <2>1, <3>1 DEF CopyFine, CopyFields
    <3> QED BY <1>1, <2>1, <2>3, <3>1, <3>2, CopyMoves
  <2> QED BY <1>8, <2>2, <2>3 DEF RpcBegin
<1>9. CASE RpcChunk
  <2>1. UNCHANGED <<dest, down, src>> /\ copy.pc = "rpcCopy" BY <1>9 DEF RpcChunk
  <2>2. CASE Unwind("failed") BY <2>1, <2>2, UnwindKeeps
  <2>3. CASE copy' = [copy EXCEPT !.off = copy.off + 1]
    <3>1. PICK k : k = [copy EXCEPT !.off = copy.off + 1] OBVIOUS
    <3>2. CopyFine(k, dest) /\ k.verdict = copy.verdict
      BY <1>1, <2>1, <3>1 DEF CopyFine, CopyFields
    <3> QED BY <1>1, <2>1, <2>3, <3>1, <3>2, CopyMoves
  <2> QED BY <1>9, <2>2, <2>3 DEF RpcChunk
<1> QED BY <1>2, <1>3, <1>4, <1>5, <1>6, <1>7, <1>8, <1>9, PreparedKeeps, CallDownloadKeeps,
           DownloadedKeeps, RpcFinishKeeps, SameWorkerCopyKeeps DEF CopyStep

--------------------------------------------------------------------------------
\* A download client moves on and has not published.
LEMMA ClientMoves ==
  ASSUME PromiseInv, NEW a \in Gens, down[a].pc # "none", UNCHANGED <<dest, copy>>, src' = src,
         DOMAIN down' = DOMAIN down, \A b \in Gens \ {a} : down'[b] = down[b],
         DOMAIN down'[a] = DOMAIN down[a], down'[a].want = down[a].want, down'[a].pc # "ok"
  PROVE  CopyKeeps
<1>1. DownFine(down'[a], copy.verdict, dest) BY DEF PromiseInv, DownFine
<1>2. DOMAIN down' = Gens /\ \A b \in Gens : DownFine(down'[b], copy.verdict, dest)
  BY <1>1 DEF PromiseInv
<1> QED BY <1>2, DownMoves DEF PromiseInv

LEMMA DownFinishKeeps == ASSUME PromiseInv, NEW a \in Gens, DownFinish(a) PROVE CopyKeeps
<1>1. UNCHANGED <<src, mode, copy>> /\ down[a].pc = "next" BY DEF DownFinish
<1>2. DownFine(down[a], copy.verdict, dest) /\ CopyFine(copy, dest) /\ DOMAIN down = Gens
  BY DEF PromiseInv
<1>3. CASE ~FinishAccepted(down[a].gen, down[a].want, mode.overwrite)
  <2>1. UNCHANGED dest BY <1>3 DEF DownFinish, fileVars
  <2>2. PICK pc \in {"bad", "stopped"} : down' = [down EXCEPT ![a].pc = pc]
    BY <1>3 DEF DownFinish, Onward
  <2>3. /\ DOMAIN down' = DOMAIN down /\ \A b \in Gens \ {a} : down'[b] = down[b]
        /\ DOMAIN down'[a] = DOMAIN down[a] /\ down'[a].want = down[a].want
        /\ down'[a].pc # "ok"
    BY <1>2, <2>2 DEF DownFine, DownFields
  <2> QED BY <1>1, <2>1, <2>3, ClientMoves
<1>4. CASE FinishAccepted(down[a].gen, down[a].want, mode.overwrite)
  <2>1. dest' = Whole(down[a].want) /\ (mode.overwrite \/ dest = Absent)
    BY <1>4 DEF DownFinish, FinishAccepted, FinishMove, DigestIs
  <2>2. down[a].want \in Versions /\ copy.verdict # "none" BY <1>1, <1>2 DEF DownFine
  <2>3. dest' \in Wholes BY <2>1, <2>2, WholeContents
  <2>4. PICK pc \in {"ok", "stopped"} : down' = [down EXCEPT ![a].pc = pc]
    BY <1>4 DEF DownFinish, Onward
  <2>5. DOMAIN down' = Gens /\ DOMAIN down'[a] = DownFields /\ down'[a].want = down[a].want
        /\ \A b \in Gens \ {a} : down'[b] = down[b]
    BY <1>2, <2>4 DEF DownFine, DownFields
  <2>6. DownFine(down'[a], copy.verdict, dest') BY <2>2, <2>3, <2>5 DEF DownFine
  <2>7. ASSUME NEW b \in Gens \ {a} PROVE DownFine(down'[b], copy.verdict, dest')
    BY <2>3, <2>5, DestMoves DEF PromiseInv
  <2>8. CopyFine(copy', dest') BY <1>1, <1>2, <2>3 DEF CopyFine
  <2> QED BY <1>1, <2>1, <2>2, <2>3, <2>5, <2>6, <2>7, <2>8, PublishKeeps
<1> QED BY <1>3, <1>4

LEMMA DownStepKeeps == ASSUME PromiseInv, NEW a \in Gens, DownStep(a) PROVE CopyKeeps
<1>1. DOMAIN down = Gens /\ DOMAIN down[a] = DownFields BY DEF PromiseInv, DownFine
<1> DEFINE Moves == /\ DOMAIN down' = DOMAIN down /\ \A b \in Gens \ {a} : down'[b] = down[b]
                    /\ DOMAIN down'[a] = DOMAIN down[a] /\ down'[a].want = down[a].want
                    /\ down'[a].pc # "ok"
<1>2. CASE DownHead(a)
  <2>1. PICK pc \in {"begin", "bad"} : down' = [down EXCEPT ![a].pc = pc]
    BY <1>2 DEF DownHead
  <2>2. Moves /\ down[a].pc # "none" /\ UNCHANGED <<dest, copy, src>>
    BY <1>1, <1>2, <2>1 DEF DownHead, DownFields, fileVars
  <2> QED BY <2>2, ClientMoves
<1>3. CASE DownBegin(a)
  <2>1. \/ \E pc \in {"next", "stopped", "bad", "beginLog"} : down' = [down EXCEPT ![a].pc = pc]
        \/ \E pc \in {"next", "stopped"} : \E n : down' = [down EXCEPT ![a].pc = pc, ![a].off = n]
    BY <1>3 DEF DownBegin, Onward
  <2>2. Moves BY <1>1, <2>1 DEF DownFields
  <2>3. down[a].pc # "none" /\ UNCHANGED <<dest, copy, src>>
    BY <1>3 DEF DownBegin, BeginFile, fileVars
  <2> QED BY <2>2, <2>3, ClientMoves
<1>4. CASE DownBeginLog(a)
  <2>1. PICK pc \in {"next", "stopped"} : down' = [down EXCEPT ![a].pc = pc]
    BY <1>4 DEF DownBeginLog, Onward
  <2>2. Moves /\ down[a].pc # "none" /\ UNCHANGED <<dest, copy, src>>
    BY <1>1, <1>4, <2>1 DEF DownBeginLog, BeginLog, DownFields
  <2> QED BY <2>2, ClientMoves
<1>5. CASE DownGet(a)
  <2>1. \/ \E n : down' = [down EXCEPT ![a].pc = "wait", ![a].slot = n]
        \/ \E c : down' = [down EXCEPT ![a].pc = "write", ![a].c = c]
    BY <1>5 DEF DownGet
  <2>2. Moves BY <1>1, <2>1 DEF DownFields
  <2>3. down[a].pc # "none" /\ UNCHANGED <<dest, copy, src>> BY <1>5 DEF DownGet, fileVars
  <2> QED BY <2>2, <2>3, ClientMoves
<1>6. CASE DownReply(a)
  <2>1. \E pc \in {"write", "bad"} : \E c : down' = [down EXCEPT ![a].pc = pc, ![a].c = c]
    BY <1>6 DEF DownReply
  <2>2. Moves BY <1>1, <2>1 DEF DownFields
  <2>3. down[a].pc # "none" /\ UNCHANGED <<dest, copy, src>> BY <1>6 DEF DownReply, fileVars
  <2> QED BY <2>2, <2>3, ClientMoves
<1>7. CASE DownTransport(a)
  <2>1. \E pc \in {"next", "bad"} : \E n : down' = [down EXCEPT ![a].tries = n, ![a].pc = pc]
    BY <1>7 DEF DownTransport
  <2>2. Moves BY <1>1, <2>1 DEF DownFields
  <2>3. down[a].pc # "none" /\ UNCHANGED <<dest, copy, src>> BY <1>7 DEF DownTransport, fileVars
  <2> QED BY <2>2, <2>3, ClientMoves
<1>8. CASE DownWrite(a)
  <2>1. \E pc \in {"writeLog", "bad", "stopped"} : down' = [down EXCEPT ![a].pc = pc]
    BY <1>8 DEF DownWrite, Onward
  <2>2. Moves BY <1>1, <2>1 DEF DownFields
  <2>3. down[a].pc # "none" /\ UNCHANGED <<dest, copy, src>>
    BY <1>8 DEF DownWrite, WriteFile, fileVars
  <2> QED BY <2>2, <2>3, ClientMoves
<1>9. CASE DownWriteLog(a)
  <2>1. \E pc \in {"next", "stopped"} : \E n :
          down' = [down EXCEPT ![a].pc = pc, ![a].off = n, ![a].tries = 0]
    BY <1>9 DEF DownWriteLog, Onward
  <2>2. Moves BY <1>1, <2>1 DEF DownFields
  <2>3. down[a].pc # "none" /\ UNCHANGED <<dest, copy, src>>
    BY <1>9 DEF DownWriteLog, WriteLog
  <2> QED BY <2>2, <2>3, ClientMoves
<1> QED BY <1>2, <1>3, <1>4, <1>5, <1>6, <1>7, <1>8, <1>9, DownFinishKeeps DEF DownStep

LEMMA UpStepKeeps == ASSUME PromiseInv, NEW a \in Gens, UpStep(a) PROVE CopyKeeps
<1>1. UNCHANGED <<dest, copy, down, src>>
  BY DEF UpStep, UpOpen, UpSend, UpReply, UpTransport, UpAsk, UpFinal, fileVars
<1> QED BY <1>1, Aside DEF PromiseInv

LEMMA CancelKeeps == ASSUME PromiseInv, Cancel PROVE CopyKeeps
<1>1. copy.pc # "idle" /\ UNCHANGED <<dest, src>> BY DEF Cancel, Waits, fileVars
<1>2. CopyFine(copy, dest) /\ DOMAIN down = Gens /\ a0 \in Gens /\ copy.verdict = "running"
  BY <1>1 DEF PromiseInv, CopyFine, a0
<1>3. CopyFine(copy', dest) /\ copy'.verdict \in {"running", "cancelled"}
  <2>1. CASE Report("cancelled")
    <3>1. PICK k : k = [copy EXCEPT !.pc = "idle", !.verdict = "cancelled"] OBVIOUS
    <3>2. CopyFine(k, dest) /\ k.verdict = "cancelled"
      BY <1>2, <3>1 DEF CopyFine, CopyFields, Verdicts
    <3> QED BY <2>1, <3>1, <3>2 DEF Report
  <2>2. CASE \E pc \in {"abort", "undo"} : copy' = [copy EXCEPT !.pc = pc, !.then = "cancelled"]
    <3>1. PICK pc \in {"abort", "undo"} : copy' = [copy EXCEPT !.pc = pc, !.then = "cancelled"]
      BY <2>2
    <3>2. PICK k : k = [copy EXCEPT !.pc = pc, !.then = "cancelled"] OBVIOUS
    <3>3. CopyFine(k, dest) /\ k.verdict = "running"
      BY <1>1, <1>2, <3>2 DEF CopyFine, CopyFields, Verdicts
    <3> QED BY <3>1, <3>2, <3>3
  <2> QED BY <2>1, <2>2 DEF Cancel, Unwind
<1>4. /\ DOMAIN down' = Gens
      /\ \A a \in Gens : /\ DOMAIN down'[a] = DOMAIN down[a] /\ down'[a].pc = down[a].pc
                         /\ down'[a].want = down[a].want
  <2>1. \A a \in Gens : DOMAIN down[a] = DownFields BY DEF PromiseInv, DownFine
  <2>2. CASE down' = [down EXCEPT ![a0].driven = FALSE] BY <1>2, <2>1, <2>2 DEF DownFields
  <2>3. CASE down' = down BY <1>2, <2>3
  <2> QED BY <2>2, <2>3 DEF Cancel
<1>5. \A a \in Gens : DownFine(down'[a], copy'.verdict, dest)
  BY <1>3, <1>4 DEF PromiseInv, DownFine
<1>6. PromiseInv' BY <1>1, <1>3, <1>4, <1>5 DEF PromiseInv
<1>7. [Promise!Next]_<<dest, copy.verdict>>
  BY <1>1, <1>2, <1>3 DEF Promise!Next, Promise!GiveUp, Promise!Over
<1> QED BY <1>1, <1>6, <1>7 DEF CopyKeeps, NoClobber

LEMMA CrashKeeps == ASSUME PromiseInv, Crash PROVE CopyKeeps
<1>1. UNCHANGED <<dest, src>> BY DEF Crash
<1>2. CopyFine(copy, dest) BY DEF PromiseInv
<1>3. /\ CopyFine(copy', dest)
      /\ copy' = copy \/ (copy.verdict = "running" /\ copy'.verdict = "interrupted")
  <2>1. CASE copy' = copy BY <1>2, <2>1
  <2>2. CASE copy.verdict = "running"
             /\ copy' = [copy EXCEPT !.pc = "idle", !.verdict = "interrupted"]
    <3>1. PICK k : k = [copy EXCEPT !.pc = "idle", !.verdict = "interrupted"] OBVIOUS
    <3>2. CopyFine(k, dest) /\ k.verdict = "interrupted"
      BY <1>2, <3>1 DEF CopyFine, CopyFields, Verdicts
    <3> QED BY <2>2, <3>1, <3>2
  <2> QED BY <2>1, <2>2 DEF Crash
<1>4. DOMAIN down' = Gens /\ \A a \in Gens : DownFine(down'[a], copy'.verdict, dest)
  <2>1. CASE down' = down BY <1>3, <2>1 DEF PromiseInv, DownFine
  <2>2. CASE down' = [a \in Gens |-> NoDown]
    <3>1. DOMAIN NoDown = DownFields /\ NoDown.pc = "none" BY DEF NoDown, DownFields
    <3> QED BY <2>2, <3>1 DEF DownFine
  <2> QED BY <2>1, <2>2 DEF Crash
<1>5. PromiseInv' BY <1>1, <1>3, <1>4 DEF PromiseInv
<1>6. [Promise!Next]_<<dest, copy.verdict>>
  BY <1>1, <1>3 DEF Promise!Next, Promise!GiveUp, Promise!Over
<1> QED BY <1>1, <1>5, <1>6 DEF CopyKeeps, NoClobber

LEMMA WorkerCrashKeeps == ASSUME PromiseInv, WorkerCrash PROVE CopyKeeps
<1>1. UNCHANGED <<dest, src, copy>> BY DEF WorkerCrash
<1>2. CASE UNCHANGED down BY <1>1, <1>2, Aside DEF PromiseInv
<1>3. CASE down' = LoseClients(down)
  <2>1. \A a \in Gens : DOMAIN down[a] = DownFields BY DEF PromiseInv, DownFine
  <2>2. ASSUME NEW a \in Gens PROVE DownFine(down'[a], copy.verdict, dest)
    <3>1. down'[a] = down[a] \/ (down[a].pc # "none" /\ down'[a] = [down[a] EXCEPT !.pc = "lost"])
      BY <1>3 DEF LoseClients, Alive
    <3> QED BY <2>1, <3>1 DEF PromiseInv, DownFine, DownFields
  <2>3. DOMAIN down' = Gens BY <1>3 DEF LoseClients
  <2> QED BY <1>1, <2>2, <2>3, DownMoves DEF PromiseInv
<1> QED BY <1>2, <1>3 DEF WorkerCrash

LEMMA OtherWritesKeeps == ASSUME PromiseInv, OtherWrites PROVE CopyKeeps
<1>1. dest = Absent /\ dest' = Other /\ UNCHANGED <<src, copy, down>> BY DEF OtherWrites
<1>2. dest \notin Wholes /\ dest' \notin Wholes BY <1>1, WholeContents
<1>3. PromiseInv' BY <1>1, <1>2 DEF PromiseInv, CopyFine, DownFine
<1>4. Promise!Disturb BY <1>1, <1>2 DEF Promise!Disturb
<1> QED BY <1>1, <1>3, <1>4 DEF CopyKeeps, NoClobber, Promise!Next

LEMMA DisturbanceKeeps == ASSUME PromiseInv, Disturbance PROVE CopyKeeps
<1>1. copy.then \in {"failed", "cancelled"} /\ src \in Versions BY DEF PromiseInv, CopyFine
<1>2. CASE CancelLate
  <2>1. UNCHANGED <<dest, down, src>> /\ copy.pc # "idle" /\ Report("cancelled")
    BY <1>2 DEF CancelLate, fileVars
  <2> QED BY <2>1, ReportKeeps
<1>3. CASE UndoLost \/ RpcBeginFails \/ RpcFails
  <2>1. /\ UNCHANGED <<dest, down, src>> /\ copy.pc # "idle"
        /\ Goto("abort") \/ Report(copy.then) \/ Report("failed") \/ Unwind("failed")
    BY <1>3 DEF UndoLost, RpcBeginFails, RpcFails, fileVars
  <2> QED BY <1>1, <2>1, GotoKeeps, ReportKeeps, UnwindKeeps
<1>4. CASE SourceChanges \/ GrantExpires \/ ServerFault
  <2>1. UNCHANGED <<dest, down, copy>> /\ src' \in Versions
    BY <1>1, <1>4 DEF SourceChanges, GrantExpires, ServerFault, fileVars
  <2> QED BY <2>1, Aside
<1> QED BY <1>2, <1>3, <1>4, CancelKeeps, OtherWritesKeeps, CrashKeeps, WorkerCrashKeeps
        DEF Disturbance

LEMMA CopyNextKeeps == ASSUME PromiseInv, [Next]_vars PROVE CopyKeeps
<1>1. CASE GateProgress \/ OthersClean \/ UNCHANGED vars
  <2>1. UNCHANGED <<dest, copy, down, src>>
    BY <1>1 DEF GateProgress, OthersClean, vars, fileVars, copyVars
  <2> QED BY <2>1, Aside DEF PromiseInv
<1>2. CASE CallTimesOut
  <2>1. UNCHANGED <<dest, down, src>> /\ copy.pc # "idle" /\ Unwind("failed")
    BY <1>2 DEF CallTimesOut, fileVars
  <2> QED BY <2>1, UnwindKeeps
<1>3. CASE ClientStep BY <1>3, UpStepKeeps, DownStepKeeps DEF ClientStep
<1> QED BY <1>1, <1>2, <1>3, StartKeeps, CopyStepKeeps, DisturbanceKeeps DEF Next

LEMMA PromiseStarts == ASSUME Init PROVE PromiseInv /\ Promise!Init
<1>1. src = 1 /\ dest \in {Other, Absent} BY DEF Init
<1>2. PICK k : k = [pc |-> "idle", att |-> 0, gen |-> 0, want |-> 0, off |-> 0,
                    then |-> "failed", verdict |-> "none"]
  OBVIOUS
<1>3. CopyFine(k, dest) /\ k.verdict = "none" BY <1>2 DEF CopyFine, CopyFields, Verdicts
<1>4. copy = k BY <1>2 DEF Init
<1>5. DOMAIN NoDown = DownFields /\ NoDown.pc = "none" BY DEF NoDown, DownFields
<1>6. DOMAIN down = Gens /\ \A a \in Gens : DownFine(down[a], copy.verdict, dest)
  BY <1>5 DEF Init, DownFine
<1>7. Promise!Init BY <1>1, <1>3, <1>4, WholeContents DEF Promise!Init
<1> QED BY <1>1, <1>3, <1>4, <1>6, <1>7, VersionsAssumption DEF PromiseInv

\* Every behaviour of a copy, whatever its route and whatever is cancelled, times out or
\* crashes, is one of CopyPromise: the destination becomes one whole version of the
\* source at once, and "copied" is reported only when it has.
THEOREM PromiseTheorem == Spec => KeepsPromise
<1>1. Init => PromiseInv /\ Promise!Init BY PromiseStarts
<1>2. PromiseInv /\ [Next]_vars => CopyKeeps BY CopyNextKeeps
<1>3. CopyKeeps => PromiseInv' /\ [Promise!Next]_<<dest, copy.verdict>> BY DEF CopyKeeps
<1>4. Promise!Spec <=> Promise!Init /\ [][Promise!Next]_<<dest, copy.verdict>>
  BY DEF Promise!Spec, Promise!promiseVars
<1> QED BY <1>1, <1>2, <1>3, <1>4, PTL DEF Spec, KeepsPromise

--------------------------------------------------------------------------------
(*****************************************************************************)
(* What the gateway holds for a copy.                                        *)
(*****************************************************************************)
Offsets == 0..Size
GenOrNone == Gens \cup {0}
VersionOrNone == Versions \cup {0}
ChunkOrHole == Chunk \cup {Hole}
SlotOrNone == Reqs \cup {0}
Contents == Seq(Chunk)

ObjStates == {"none", "uploading", "ready"} \cup Terminal
Claims == {NoClaim, StaleClaim, LeakedClaim} \cup {ClaimOf(n) : n \in Reqs}
ObjRecords ==
  [up : BOOLEAN, state : ObjStates, off : Offsets, tok : GenOrNone, claim : Claims,
   want : VersionOrNone, gen : GenOrNone, expired : BOOLEAN, fresh : BOOLEAN]
ReqPlaces ==
  {"free", "auth", "claim", "body", "commit", "append", "stream", "ok", "err", "lost"}
ReqKinds == {"put", "get"}
ReqRecords ==
  [pc : ReqPlaces, kind : ReqKinds, att : GenOrNone, gen : GenOrNone, i : Offsets,
   c : ChunkOrHole, gone : BOOLEAN]

\* A transfer whose spool is complete for good: nothing will be appended to it, and no
\* new transfer has its number.
Settled ==
  {g \in Gens : /\ g <= copy.att /\ (prep \in {"open", "save"} => g # copy.att)
                /\ Len(spool[g]) = Size /\ (Loads(g) => obj.off = Size)}

Handled == {"auth", "claim", "body", "commit", "append", "stream"}
ReqFine(r, settled) ==
  /\ r.pc \in Handled => r.i \in Chunks
  /\ r.pc \in Handled /\ r.kind = "put" => r.c \in Chunk /\ r.c[1] = r.i
  /\ r.pc \in {"body", "commit", "append"} => r.kind = "put"
  /\ r.pc = "stream" => r.gen \in settled

InOrder(data) == Len(data) <= Size /\ \A k \in 1..Len(data) : data[k][1] = k

GateTypes ==
  /\ obj \in ObjRecords /\ spools \subseteq Gens /\ spool \in [Gens -> Contents]
  /\ glock \in Reqs \cup {0, 100} /\ req \in [Reqs -> ReqRecords]
\* What is known of the object, while it is there.
ObjFine ==
  obj.up =>
    /\ obj.gen \in Gens /\ obj.gen <= copy.att
    /\ prep # "save" /\ (prep = "open" => obj.gen # copy.att)
    /\ InOrder(spool[obj.gen]) /\ obj.off <= Len(spool[obj.gen])
    /\ obj.state = "ready" => obj.off = Size /\ spool[obj.gen] = Whole(obj.want)
\* A chunk is being appended, by who holds the lock.
Appends(n, r) ==
  r.pc = "append" =>
    /\ glock = n /\ obj.up /\ obj.gen = r.gen /\ r.i = obj.off + 1
    /\ Len(spool[obj.gen]) = obj.off + 1
\* prepare has made the spool and will write the metadata, with the lock.
Preparing ==
  /\ prep \in {"open", "save"} => copy.att \in Gens /\ copy.want \in Versions
  /\ prep = "save" =>
       /\ glock = 100 /\ spool[copy.att] \in {<<>>, Whole(copy.want)}
       /\ \A n \in Reqs : req[n].pc # "append"
ReqsFine == \A n \in Reqs : ReqFine(req[n], Settled) /\ Appends(n, req[n])

GateInv == GateTypes /\ ObjFine /\ Preparing /\ ReqsFine

\* One step of CommittedStays.
Commits ==
  obj.up /\ obj'.up /\ obj'.gen = obj.gen =>
    /\ obj'.off >= obj.off
    /\ \A k \in 1..obj.off : k <= Len(spool'[obj.gen]) /\ spool'[obj.gen][k] = spool[obj.gen][k]
GateKeeps == GateInv' /\ Settled \subseteq Settled' /\ Commits

\* The copy keeps its attempt, and prepare begins nothing.
SameAttempt ==
  UNCHANGED <<copy.att, copy.want>> /\ (prep' = prep \/ prep' \notin {"open", "save"})

LEMMA GateSizes ==
  /\ Size \in Nat /\ Size > 0 /\ Gens \subseteq Nat /\ 0 \notin Gens /\ 0 \notin Reqs
  /\ Offsets \subseteq Nat /\ \A o \in Offsets : o <= Size
  /\ \A o \in Nat : o <= Size => o \in Offsets
  /\ \A i \in Chunks : i \in Nat /\ i > 0 /\ i <= Size /\ i \in Offsets
  /\ \A g \in Gens, s \in [Gens -> Contents] : s[g] \in Seq(Chunk) /\ Len(s[g]) \in Nat
BY SizeAssumption, GensAssumption, ReqsAssumption DEF Offsets, Chunks, Contents

LEMMA GateKnown ==
  ASSUME GateInv
  PROVE  /\ obj.off \in Nat /\ obj.off <= Size /\ obj.gen \in GenOrNone
         /\ \A g \in Gens : spool[g] \in Seq(Chunk) /\ Len(spool[g]) \in Nat
         /\ obj.up => obj.gen \in Gens /\ obj.off <= Len(spool[obj.gen])
                      /\ Len(spool[obj.gen]) <= Size
<1>1. obj \in ObjRecords /\ spool \in [Gens -> Contents] BY DEF GateInv, GateTypes
<1>2. obj.off \in Nat /\ obj.off <= Size /\ obj.gen \in GenOrNone
  BY <1>1, GateSizes DEF ObjRecords
<1>3. \A g \in Gens : spool[g] \in Seq(Chunk) /\ Len(spool[g]) \in Nat BY <1>1, GateSizes
<1> QED BY <1>2, <1>3 DEF GateInv, ObjFine, InOrder

\* The object loses its claim, its capabilities, its state or itself, but not what it
\* holds; the requests do not begin to append.
LEMMA MetaStep ==
  ASSUME GateInv, SameAttempt, spool' = spool, obj' \in ObjRecords, spools' \subseteq Gens,
         obj'.up => /\ obj.up /\ obj'.gen = obj.gen /\ obj'.off = obj.off
                    /\ obj'.want = obj.want /\ (obj'.state = "ready" => obj.state = "ready"),
         glock' \in Reqs \cup {0, 100}, prep' = "save" => glock' = glock,
         req' \in [Reqs -> ReqRecords], \A n \in Reqs : ReqFine(req'[n], Settled),
         \A n \in Reqs : req'[n].pc = "append" =>
            /\ req[n].pc = "append" /\ req'[n].gen = req[n].gen /\ req'[n].i = req[n].i
            /\ glock' = glock /\ obj'.up
  PROVE  GateKeeps
<1>1. GateTypes' BY DEF GateInv, GateTypes
<1>2. ObjFine' BY DEF GateInv, ObjFine, SameAttempt
<1>3. Settled \subseteq Settled' BY DEF Settled, SameAttempt, Loads
<1>4. Preparing' BY DEF GateInv, Preparing, SameAttempt
<1>5. ReqsFine'
  <2>1. SUFFICES ASSUME NEW n \in Reqs PROVE (ReqFine(req[n], Settled) /\ Appends(n, req[n]))'
    BY DEF ReqsFine
  <2>2. ReqFine(req[n], Settled)' BY <1>3 DEF ReqFine
  <2>3. Appends(n, req[n])' BY DEF GateInv, ReqsFine, Appends
  <2> QED BY <2>2, <2>3
<1>6. Commits
  <2>1. ASSUME obj.up, obj'.up, NEW k \in 1..obj.off PROVE k <= Len(spool[obj.gen])
    BY <2>1, GateKnown
  <2>2. obj'.up => obj'.off = obj.off /\ obj.off \in Nat BY GateKnown
  <2> QED BY <2>1, <2>2 DEF Commits
<1> QED BY <1>1, <1>2, <1>3, <1>4, <1>5, <1>6 DEF GateKeeps, GateInv

\* The same, when one request moves and does not begin to append.
LEMMA RequestStep ==
  ASSUME GateInv, SameAttempt, UNCHANGED <<spool, spools>>, obj' \in ObjRecords,
         obj'.up => /\ obj.up /\ obj'.gen = obj.gen /\ obj'.off = obj.off
                    /\ obj'.want = obj.want /\ (obj'.state = "ready" => obj.state = "ready"),
         obj.up => obj'.up,
         glock' \in {glock, 0}, glock # glock' => \E m \in Reqs : req[m].pc = "append",
         NEW n \in Reqs, NEW r \in ReqRecords, req' = [req EXCEPT ![n] = r],
         ReqFine(r, Settled), r.pc # "append",
         glock # glock' => req[n].pc = "append"
  PROVE  GateKeeps
<1>1. GateTypes /\ ObjFine /\ Preparing /\ ReqsFine BY DEF GateInv
<1>2. /\ req' \in [Reqs -> ReqRecords] /\ req'[n] = r
      /\ \A m \in Reqs \ {n} : req'[m] = req[m]
  BY <1>1 DEF GateTypes
<1>3. \A m \in Reqs : ReqFine(req'[m], Settled) BY <1>1, <1>2 DEF ReqsFine
<1>4. prep' = "save" => glock' = glock BY <1>1 DEF Preparing, SameAttempt
<1>5. ASSUME NEW m \in Reqs, req'[m].pc = "append"
      PROVE  /\ req[m].pc = "append" /\ req'[m].gen = req[m].gen /\ req'[m].i = req[m].i
             /\ glock' = glock /\ obj'.up
  <2>1. m # n /\ req'[m] = req[m] BY <1>2, <1>5
  <2>2. glock = m /\ obj.up BY <1>1, <1>5, <2>1 DEF ReqsFine, Appends
  <2>3. req[n].pc # "append" BY <1>1, <2>1, <2>2 DEF ReqsFine, Appends
  <2> QED BY <1>5, <2>1, <2>2, <2>3
<1>6. glock' \in Reqs \cup {0, 100} /\ spools' \subseteq Gens BY <1>1 DEF GateTypes
<1> QED BY <1>2, <1>3, <1>4, <1>5, <1>6, MetaStep

\* The values that requests and the object are given.
LEMMA Replies ==
  ASSUME NEW r \in ReqRecords, NEW c \in ChunkOrHole, NEW pc \in {"ok", "err"}, NEW q,
         q = IF r.gone THEN FreeReq ELSE [r EXCEPT !.pc = pc, !.c = c]
  PROVE  q \in ReqRecords /\ q.pc \notin Handled
<1>1. FreeReq \in ReqRecords /\ FreeReq.pc = "free"
  BY GateSizes DEF FreeReq, ReqRecords, ReqPlaces, ReqKinds, GenOrNone, ChunkOrHole
<1>2. PICK p \in ReqPlaces : p = pc BY DEF ReqPlaces
<1>3. [r EXCEPT !.pc = p, !.c = c] \in ReqRecords /\ [r EXCEPT !.pc = p, !.c = c].pc = p
  BY DEF ReqRecords
<1> QED BY <1>1, <1>2, <1>3 DEF Handled

LEMMA Released1 ==
  ASSUME NEW o \in ObjRecords, NEW n
  PROVE  Released(o, n) \in ObjRecords /\ Released(o, n).up = o.up /\ Released(o, n).gen = o.gen
         /\ Released(o, n).off = o.off /\ Released(o, n).want = o.want
         /\ Released(o, n).state = o.state
<1>1. NoClaim \in Claims BY DEF Claims
<1>2. PICK k \in Claims : k = NoClaim BY <1>1
<1>3. Released(o, n) = IF o.claim = ClaimOf(n) THEN [o EXCEPT !.claim = k] ELSE o
  BY <1>2 DEF Released
<1> QED BY <1>3 DEF ObjRecords

LEMMA ReqPlaced ==
  ASSUME NEW r \in ReqRecords, NEW p \in ReqPlaces, NEW q, q = [r EXCEPT !.pc = p]
  PROVE  q \in ReqRecords /\ q.pc = p /\ q.kind = r.kind /\ q.gen = r.gen /\ q.i = r.i
         /\ q.c = r.c
BY DEF ReqRecords

LEMMA ObjMarked ==
  ASSUME NEW o \in ObjRecords, NEW k \in Claims, NEW e \in BOOLEAN, NEW n,
         n \in {o, [o EXCEPT !.expired = e], [o EXCEPT !.claim = k], [o EXCEPT !.fresh = e]}
  PROVE  n \in ObjRecords /\ n.up = o.up /\ n.gen = o.gen /\ n.off = o.off /\ n.want = o.want
         /\ n.state = o.state
BY DEF ObjRecords

ReqKept(n) == req[n] \in ReqRecords /\ ReqFine(req[n], Settled)
LEMMA ReqKnown == ASSUME GateInv, NEW n \in Reqs PROVE ReqKept(n)
BY DEF GateInv, GateTypes, ReqsFine, ReqKept

\* Request n goes to place p, or is answered, while the object may be marked.
LEMMA RequestGoes ==
  ASSUME GateInv, SameAttempt, UNCHANGED <<spool, spools, glock>>, NEW n \in Reqs,
         obj' \in ObjRecords,
         obj'.up = obj.up, obj'.gen = obj.gen, obj'.off = obj.off, obj'.want = obj.want,
         obj'.state = obj.state, NEW p \in ReqPlaces, StepTo(n, p), p # "append",
         p \in Handled => req[n].pc \in Handled,
         p \in {"body", "commit"} => req[n].kind = "put",
         p = "stream" => req[n].gen \in Settled
  PROVE  GateKeeps
<1>1. req[n] \in ReqRecords /\ ReqFine(req[n], Settled) BY ReqKnown DEF ReqKept
<1>2. PICK r : r = [req[n] EXCEPT !.pc = p] OBVIOUS
<1>3. r \in ReqRecords /\ r.pc = p /\ r.kind = req[n].kind /\ r.gen = req[n].gen
      /\ r.i = req[n].i /\ r.c = req[n].c
  BY <1>1, <1>2, ReqPlaced
<1>4. ReqFine(r, Settled) BY <1>1, <1>3 DEF ReqFine
<1>5. req' = [req EXCEPT ![n] = r] BY <1>2 DEF StepTo
<1> QED BY <1>3, <1>4, <1>5, RequestStep

LEMMA RequestAnswered ==
  ASSUME GateInv, SameAttempt, UNCHANGED <<spool, spools>>, NEW n \in Reqs,
         obj' \in ObjRecords,
         obj'.up = obj.up, obj'.gen = obj.gen, obj'.off = obj.off, obj'.want = obj.want,
         obj'.state = obj.state, NEW pc \in {"ok", "err"}, NEW c \in ChunkOrHole,
         Answer(n, pc, c), glock' \in {glock, 0}, glock # glock' => req[n].pc = "append"
  PROVE  GateKeeps
<1>1. req[n] \in ReqRecords BY ReqKnown DEF ReqKept
<1>2. PICK r : r = IF req[n].gone THEN FreeReq ELSE [req[n] EXCEPT !.pc = pc, !.c = c] OBVIOUS
<1>3. r \in ReqRecords /\ r.pc \notin Handled BY <1>1, <1>2, Replies
<1>4. ReqFine(r, Settled) /\ r.pc # "append" BY <1>3 DEF ReqFine, Handled
<1>5. req' = [req EXCEPT ![n] = r] BY <1>2 DEF Answer
<1> QED BY <1>3, <1>4, <1>5, RequestStep

LEMMA ReqAuthKeeps == ASSUME GateInv, SameAttempt, NEW n \in Reqs, ReqAuth(n) PROVE GateKeeps
<1>1. obj \in ObjRecords /\ req[n] \in ReqRecords /\ req[n].c \in ChunkOrHole /\ req[n].pc = "auth"
  BY ReqKnown DEF GateInv, GateTypes, ReqKept, ReqAuth, ReqRecords
<1>2. UNCHANGED <<spool, spools, glock>> BY DEF ReqAuth
<1>3. CASE Refuse(n) /\ UNCHANGED obj BY <1>1, <1>2, <1>3, RequestAnswered DEF Refuse
<1>4. CASE StepTo(n, "claim") /\ obj' = [obj EXCEPT !.expired = FALSE]
  <2>1. PICK e \in BOOLEAN : e = FALSE OBVIOUS
  <2>2. PICK o : o = [obj EXCEPT !.expired = e] OBVIOUS
  <2>3. NoClaim \in Claims BY DEF Claims
  <2>4. o \in ObjRecords /\ o.up = obj.up /\ o.gen = obj.gen /\ o.off = obj.off
        /\ o.want = obj.want /\ o.state = obj.state
    BY <1>1, <2>2, <2>3, ObjMarked
  <2>5. obj' = o BY <1>4, <2>1, <2>2
  <2>6. "claim" \in ReqPlaces /\ req[n].pc \in Handled BY <1>1 DEF ReqPlaces, Handled
  <2> QED BY <1>2, <1>4, <2>4, <2>5, <2>6, RequestGoes
<1> QED BY <1>3, <1>4 DEF ReqAuth

LEMMA PutClaimKeeps == ASSUME GateInv, SameAttempt, NEW n \in Reqs, PutClaim(n) PROVE GateKeeps
<1>1. obj \in ObjRecords /\ req[n] \in ReqRecords /\ req[n].c \in ChunkOrHole
      /\ req[n].pc = "claim" /\ req[n].kind = "put"
  BY ReqKnown DEF GateInv, GateTypes, ReqKept, PutClaim, ReqRecords
<1>2. UNCHANGED <<spool, spools, glock>> BY DEF PutClaim
<1>3. CASE Refuse(n) /\ UNCHANGED obj BY <1>1, <1>2, <1>3, RequestAnswered DEF Refuse
<1>4. CASE StepTo(n, "body") /\ obj' = [obj EXCEPT !.claim = ClaimOf(n)]
  <2>1. PICK k \in Claims : k = ClaimOf(n) BY DEF Claims
  <2>2. PICK o : o = [obj EXCEPT !.claim = k] OBVIOUS
  <2>4. o \in ObjRecords /\ o.up = obj.up /\ o.gen = obj.gen /\ o.off = obj.off
        /\ o.want = obj.want /\ o.state = obj.state
    BY <1>1, <2>2, ObjMarked
  <2>5. obj' = o BY <1>4, <2>1, <2>2
  <2>6. "body" \in ReqPlaces /\ req[n].pc \in Handled BY <1>1 DEF ReqPlaces, Handled
  <2> QED BY <1>1, <1>2, <1>4, <2>4, <2>5, <2>6, RequestGoes
<1> QED BY <1>3, <1>4 DEF PutClaim

LEMMA PutBodyKeeps == ASSUME GateInv, SameAttempt, NEW n \in Reqs, PutBody(n) PROVE GateKeeps
<1>1. ReqKept(n) /\ req[n].pc = "body" /\ obj \in ObjRecords
  BY ReqKnown DEF PutBody, GateInv, GateTypes
<1>2. req[n].kind = "put" /\ req[n].pc \in Handled BY <1>1 DEF ReqKept, ReqFine, Handled
<1>3. UNCHANGED <<obj, spools, spool, glock>> /\ StepTo(n, "commit") BY DEF PutBody
<1>4. "commit" \in ReqPlaces BY DEF ReqPlaces
<1> QED BY <1>1, <1>2, <1>3, <1>4, RequestGoes

LEMMA PutBodyFailsKeeps ==
  ASSUME GateInv, SameAttempt, NEW n \in Reqs, PutBodyFails(n) PROVE GateKeeps
<1>1. obj \in ObjRecords /\ req[n] \in ReqRecords /\ req[n].c \in ChunkOrHole
  BY ReqKnown DEF GateInv, GateTypes, ReqKept, ReqRecords
<1>2. PICK o : o = Released(obj, n) OBVIOUS
<1>3. o \in ObjRecords /\ o.up = obj.up /\ o.gen = obj.gen /\ o.off = obj.off
      /\ o.want = obj.want /\ o.state = obj.state
  BY <1>1, <1>2, Released1
<1>4. UNCHANGED <<spools, spool, glock>> /\ obj' = o /\ Answer(n, "err", req[n].c)
  BY <1>2 DEF PutBodyFails, Refuse
<1> QED BY <1>1, <1>3, <1>4, RequestAnswered

LEMMA GetClaimKeeps == ASSUME GateInv, SameAttempt, NEW n \in Reqs, GetClaim(n) PROVE GateKeeps
<1>1. obj \in ObjRecords /\ req[n] \in ReqRecords /\ req[n].c \in ChunkOrHole
      /\ req[n].pc = "claim"
  BY ReqKnown DEF GateInv, GateTypes, ReqKept, GetClaim, ReqRecords
<1>2. UNCHANGED <<spool, spools, glock>> BY DEF GetClaim
<1>3. CASE Refuse(n) /\ UNCHANGED obj BY <1>1, <1>2, <1>3, RequestAnswered DEF Refuse
<1>4. CASE /\ Loads(req[n].gen) /\ obj.state = "ready" /\ SpoolValid /\ GateFree
           /\ StepTo(n, "stream") /\ obj' = [obj EXCEPT !.claim = ClaimOf(n)]
  <2>1. PICK k \in Claims : k = ClaimOf(n) BY DEF Claims
  <2>2. PICK o : o = [obj EXCEPT !.claim = k] OBVIOUS
  <2>4. o \in ObjRecords /\ o.up = obj.up /\ o.gen = obj.gen /\ o.off = obj.off
        /\ o.want = obj.want /\ o.state = obj.state
    BY <1>1, <2>2, ObjMarked
  <2>5. obj' = o BY <1>4, <2>1, <2>2
  <2>6. "stream" \in ReqPlaces /\ req[n].pc \in Handled BY <1>1 DEF ReqPlaces, Handled
  <2>7. obj.gen \in Settled
    BY <1>4 DEF Loads, GateInv, ObjFine, SpoolValid, Settled
  <2>8. req[n].gen \in Settled BY <1>4, <2>7 DEF Loads
  <2> QED BY <1>1, <1>2, <1>4, <2>4, <2>5, <2>6, <2>8, RequestGoes
<1> QED BY <1>3, <1>4 DEF GetClaim

LEMMA GetStreamKeeps == ASSUME GateInv, SameAttempt, NEW n \in Reqs, GetStream(n) PROVE GateKeeps
<1>1. obj \in ObjRecords /\ req[n] \in ReqRecords /\ req[n].c \in ChunkOrHole
      /\ req[n].pc = "stream" /\ ReqFine(req[n], Settled)
  BY ReqKnown DEF GateInv, GateTypes, ReqKept, GetStream, ReqRecords
<1>2. PICK o : o = Released(obj, n) OBVIOUS
<1>3. o \in ObjRecords /\ o.up = obj.up /\ o.gen = obj.gen /\ o.off = obj.off
      /\ o.want = obj.want /\ o.state = obj.state
  BY <1>1, <1>2, Released1
<1>4. UNCHANGED <<spools, spool, glock>> /\ obj' = o BY <1>2 DEF GetStream
<1>5. CASE Refuse(n) BY <1>1, <1>3, <1>4, <1>5, RequestAnswered DEF Refuse
<1>6. CASE Answer(n, "ok", spool[req[n].gen][req[n].i])
  <2>1. req[n].gen \in Settled /\ req[n].i \in Chunks BY <1>1 DEF ReqFine, Handled
  <2>2. PICK g \in Gens : g = req[n].gen /\ Len(spool[g]) = Size BY <2>1 DEF Settled
  <2>3. spool[g] \in Seq(Chunk) BY GateKnown
  <2>4. spool[g][req[n].i] \in Chunk BY <2>1, <2>2, <2>3 DEF Chunks
  <2>5. spool[req[n].gen][req[n].i] \in ChunkOrHole BY <2>2, <2>4 DEF ChunkOrHole
  <2> QED BY <1>3, <1>4, <1>6, <2>5, RequestAnswered
<1> QED BY <1>5, <1>6 DEF GetStream

LEMMA FreeFine == FreeReq \in ReqRecords /\ FreeReq.pc = "free" /\ ReqFine(FreeReq, Settled)
<1>1. FreeReq \in ReqRecords
  BY GateSizes DEF FreeReq, ReqRecords, ReqPlaces, ReqKinds, GenOrNone, ChunkOrHole
<1>2. FreeReq.pc = "free" BY DEF FreeReq
<1> QED BY <1>1, <1>2 DEF ReqFine, Handled

LEMMA GetNeverIteratedKeeps ==
  ASSUME GateInv, SameAttempt, NEW n \in Reqs, GetNeverIterated(n) PROVE GateKeeps
<1>1. obj \in ObjRecords BY DEF GateInv, GateTypes
<1>2. PICK k \in Claims : k = LeakedClaim BY DEF Claims
<1>3. obj' \in {obj, [obj EXCEPT !.claim = k]} BY <1>2 DEF GetNeverIterated
<1>4. /\ obj' \in ObjRecords /\ obj'.up = obj.up /\ obj'.gen = obj.gen /\ obj'.off = obj.off
      /\ obj'.want = obj.want /\ obj'.state = obj.state
  <2>1. PICK e \in BOOLEAN : e = FALSE OBVIOUS
  <2>2. PICK o : o = obj' OBVIOUS
  <2>3. o \in {obj, [obj EXCEPT !.expired = e], [obj EXCEPT !.claim = k],
               [obj EXCEPT !.fresh = e]}
    BY <1>3, <2>2
  <2> QED BY <1>1, <2>2, <2>3, ObjMarked
<1>5. UNCHANGED <<spools, spool, glock>> BY DEF GetNeverIterated
<1>6. PICK r : r = FreeReq OBVIOUS
<1>7. r \in ReqRecords /\ r.pc # "append" /\ ReqFine(r, Settled) BY <1>6, FreeFine
<1>8. req' = [req EXCEPT ![n] = r] BY <1>6 DEF GetNeverIterated
<1> QED BY <1>4, <1>5, <1>7, <1>8, RequestStep

--------------------------------------------------------------------------------
\* The spool of the object changes beyond its cursor, by request n.
LEMMA SpoolStep ==
  ASSUME GateInv, SameAttempt, obj.up, obj.off < Size, NEW s \in Contents,
         spool' = [spool EXCEPT ![obj.gen] = s], InOrder(s), obj' \in ObjRecords, obj'.up,
         obj'.gen = obj.gen, obj'.want = obj.want, obj'.off \in {obj.off, obj.off + 1},
         obj.off <= Len(s), obj'.off <= Len(s),
         \A k \in 1..obj.off : s[k] = spool[obj.gen][k],
         obj'.state = "ready" => obj'.off = Size /\ s = Whole(obj.want),
         UNCHANGED spools, glock' \in Reqs \cup {0, 100}, NEW n \in Reqs, NEW r \in ReqRecords,
         req' = [req EXCEPT ![n] = r], ReqFine(r, Settled),
         \A m \in Reqs : req[m].pc = "append" => m = n,
         r.pc = "append" => /\ glock' = n /\ obj.gen = r.gen /\ r.i = obj'.off + 1
                            /\ Len(s) = obj'.off + 1
  PROVE  GateKeeps
<1>1. GateTypes /\ ObjFine /\ Preparing /\ ReqsFine BY DEF GateInv
<1>2. obj.gen \in Gens /\ obj.off \in Nat /\ Len(s) \in Nat BY GateKnown DEF Contents
<1>3. /\ spool' \in [Gens -> Contents] /\ spool'[obj.gen] = s
      /\ \A g \in Gens \ {obj.gen} : spool'[g] = spool[g]
  BY <1>1, <1>2 DEF GateTypes
<1>4. /\ req' \in [Reqs -> ReqRecords] /\ req'[n] = r
      /\ \A m \in Reqs \ {n} : req'[m] = req[m]
  BY <1>1 DEF GateTypes
<1>5. GateTypes' BY <1>1, <1>3, <1>4 DEF GateTypes
<1>6. prep # "save" /\ prep' # "save" BY <1>1 DEF ObjFine, SameAttempt
<1>7. ObjFine' BY <1>1, <1>3, <1>6 DEF ObjFine, SameAttempt
<1>8. obj.gen \notin Settled BY <1>2, GateSizes DEF Settled, Loads
<1>9. Settled \subseteq Settled' BY <1>2, <1>3, <1>8 DEF Settled, Loads, SameAttempt
<1>10. Preparing' BY <1>1, <1>6 DEF Preparing, SameAttempt
<1>11. ReqsFine'
  <2>1. SUFFICES ASSUME NEW m \in Reqs PROVE (ReqFine(req[m], Settled) /\ Appends(m, req[m]))'
    BY DEF ReqsFine
  <2>2. ReqFine(req'[m], Settled) BY <1>1, <1>4 DEF ReqsFine
  <2>3. ReqFine(req[m], Settled)' BY <1>9, <2>2 DEF ReqFine
  <2>4. Appends(m, req[m])' BY <1>3, <1>4 DEF Appends
  <2> QED BY <2>3, <2>4
<1>12. Commits BY <1>2, <1>3, GateKnown DEF Commits
<1> QED BY <1>5, <1>7, <1>9, <1>10, <1>11, <1>12 DEF GateKeeps, GateInv

\* The request that appends is alone, and the object has room.
LEMMA Appending ==
  ASSUME GateInv, NEW n \in Reqs, req[n].pc = "append"
  PROVE  /\ glock = n /\ obj.up /\ obj.gen = req[n].gen /\ req[n].i = obj.off + 1
         /\ Len(spool[obj.gen]) = obj.off + 1 /\ obj.off < Size
         /\ \A m \in Reqs : req[m].pc = "append" => m = n
         /\ InOrder(spool[obj.gen]) /\ obj.state # "ready"
<1>1. \A m \in Reqs : req[m].pc = "append" => glock = m BY DEF GateInv, ReqsFine, Appends
<1>2. /\ obj.up /\ obj.gen = req[n].gen /\ req[n].i = obj.off + 1
      /\ Len(spool[obj.gen]) = obj.off + 1
  BY DEF GateInv, ReqsFine, Appends
<1>3. req[n].i \in Chunks BY DEF GateInv, ReqsFine, ReqFine, Handled
<1>4. obj.off < Size BY <1>2, <1>3, GateSizes, GateKnown
<1>5. InOrder(spool[obj.gen]) /\ (obj.state = "ready" => obj.off = Size)
  BY <1>2 DEF GateInv, ObjFine
<1> QED BY <1>1, <1>2, <1>4, <1>5, GateKnown

LEMMA PutSaveFailsKeeps ==
  ASSUME GateInv, SameAttempt, NEW n \in Reqs, PutSaveFails(n) PROVE GateKeeps
<1>1. obj \in ObjRecords /\ req[n] \in ReqRecords /\ req[n].c \in ChunkOrHole
      /\ req[n].pc = "append"
  BY ReqKnown DEF GateInv, GateTypes, ReqKept, ReqRecords, PutSaveFails
<1>2. PICK o : o = Released(obj, n) OBVIOUS
<1>3. o \in ObjRecords /\ o.up = obj.up /\ o.gen = obj.gen /\ o.off = obj.off
      /\ o.want = obj.want /\ o.state = obj.state
  BY <1>1, <1>2, Released1
<1>4. UNCHANGED <<spools, spool>> /\ glock' = 0 /\ obj' = o /\ Answer(n, "err", req[n].c)
  BY <1>2 DEF PutSaveFails, Refuse
<1> QED BY <1>1, <1>3, <1>4, RequestAnswered

LEMMA PutRollbackKeeps ==
  ASSUME GateInv, SameAttempt, NEW n \in Reqs, PutRollback(n) PROVE GateKeeps
<1>1. obj \in ObjRecords /\ req[n] \in ReqRecords /\ req[n].c \in ChunkOrHole
      /\ req[n].pc = "append"
  BY ReqKnown DEF GateInv, GateTypes, ReqKept, ReqRecords, PutRollback
<1>2. /\ obj.up /\ obj.off < Size /\ InOrder(spool[obj.gen]) /\ obj.state # "ready"
      /\ Len(spool[obj.gen]) = obj.off + 1 /\ \A m \in Reqs : req[m].pc = "append" => m = n
  BY <1>1, Appending
<1>3. obj.off \in Nat /\ spool[obj.gen] \in Seq(Chunk) BY <1>2, GateKnown
<1>4. PICK s : s = SubSeq(spool[obj.gen], 1, obj.off) OBVIOUS
<1>5. /\ s \in Seq(Chunk) /\ Len(s) = obj.off /\ \A k \in 1..obj.off : s[k] = spool[obj.gen][k]
  BY <1>2, <1>3, <1>4
<1>6. InOrder(s)
  <2>1. Len(s) <= Size BY <1>2, <1>3, <1>5, GateSizes
  <2>2. ASSUME NEW k \in 1..Len(s) PROVE s[k][1] = k
    <3>1. k \in 1..obj.off /\ k \in 1..Len(spool[obj.gen]) BY <1>2, <1>3, <1>5
    <3> QED BY <1>2, <1>5, <3>1 DEF InOrder
  <2> QED BY <2>1, <2>2 DEF InOrder
<1>7. PICK t \in BOOLEAN : t = TRUE OBVIOUS
<1>8. PICK f : f = [obj EXCEPT !.fresh = t] OBVIOUS
<1>9. NoClaim \in Claims BY DEF Claims
<1>10. f \in ObjRecords /\ f.up = obj.up /\ f.gen = obj.gen /\ f.off = obj.off
       /\ f.want = obj.want /\ f.state = obj.state
  BY <1>1, <1>8, <1>9, ObjMarked
<1>11. PICK o : o = Released(f, n) OBVIOUS
<1>12. o \in ObjRecords /\ o.up = obj.up /\ o.gen = obj.gen /\ o.off = obj.off
      /\ o.want = obj.want /\ o.state = obj.state
  BY <1>10, <1>11, Released1
<1>13. obj' = o BY <1>7, <1>8, <1>11 DEF PutRollback
<1>14. spool' = [spool EXCEPT ![obj.gen] = s] BY <1>4 DEF PutRollback, RollbackLength
<1>15. PICK r : r = IF req[n].gone THEN FreeReq ELSE [req[n] EXCEPT !.pc = "err", !.c = req[n].c]
  OBVIOUS
<1>16. r \in ReqRecords /\ r.pc \notin Handled BY <1>1, <1>15, Replies
<1>17. ReqFine(r, Settled) /\ r.pc # "append" BY <1>16 DEF ReqFine, Handled
<1>18. req' = [req EXCEPT ![n] = r] BY <1>15 DEF PutRollback, Refuse, Answer
<1>19. UNCHANGED spools /\ glock' = 0 BY DEF PutRollback
<1>20. s \in Contents BY <1>5 DEF Contents
<1>21. obj.off <= Len(s) /\ obj'.off <= Len(s) BY <1>3, <1>5, <1>12, <1>13
<1>22. glock' \in Reqs \cup {0, 100} /\ obj'.state # "ready" BY <1>2, <1>12, <1>13, <1>19
<1>23. obj' \in ObjRecords /\ obj'.up /\ obj'.gen = obj.gen /\ obj'.want = obj.want
       /\ obj'.off \in {obj.off, obj.off + 1}
  BY <1>2, <1>12, <1>13
<1>24. /\ obj'.state = "ready" => obj'.off = Size /\ s = Whole(obj.want)
       /\ r.pc = "append" => /\ glock' = n /\ obj.gen = r.gen /\ r.i = obj'.off + 1
                            /\ Len(s) = obj'.off + 1
  BY <1>17, <1>22
<1>25. /\ obj.up /\ obj.off < Size /\ \A m \in Reqs : req[m].pc = "append" => m = n
       /\ \A k \in 1..obj.off : s[k] = spool[obj.gen][k]
       /\ r \in ReqRecords /\ ReqFine(r, Settled)
  BY <1>2, <1>5, <1>16, <1>17
<1> QED BY <1>6, <1>14, <1>18, <1>19, <1>20, <1>21, <1>22, <1>23, <1>24, <1>25, SpoolStep

LEMMA PutSaveKeeps ==
  ASSUME GateInv, SameAttempt, NEW n \in Reqs, PutSave(n) PROVE GateKeeps
<1>1. obj \in ObjRecords /\ req[n] \in ReqRecords /\ req[n].c \in ChunkOrHole
      /\ req[n].pc = "append" /\ req[n].i \in Offsets /\ spool \in [Gens -> Contents]
  BY ReqKnown DEF GateInv, GateTypes, ReqKept, ReqRecords, PutSave
<1>2. /\ obj.up /\ obj.off < Size /\ InOrder(spool[obj.gen]) /\ obj.state # "ready"
      /\ req[n].i = obj.off + 1
      /\ Len(spool[obj.gen]) = obj.off + 1 /\ \A m \in Reqs : req[m].pc = "append" => m = n
  BY <1>1, Appending
<1>3. obj.off \in Nat /\ obj.gen \in Gens /\ spool[obj.gen] \in Contents
  BY <1>2, GateKnown DEF Contents
<1>4. PICK t \in BOOLEAN, k \in Claims, i \in Offsets, ready \in ObjStates, failed \in ObjStates :
        t = TRUE /\ k = NoClaim /\ i = req[n].i /\ ready = "ready" /\ failed = "failed"
  BY <1>1 DEF Claims, ObjStates, Terminal
<1>5. PICK o : o = [obj EXCEPT !.fresh = t, !.off = i, !.claim = k] OBVIOUS
<1>6. o \in ObjRecords /\ o.up = obj.up /\ o.gen = obj.gen /\ o.off = i
      /\ o.want = obj.want /\ o.state = obj.state
  BY <1>1, <1>5 DEF ObjRecords
<1>7. \/ obj' = o
      \/ obj' = [o EXCEPT !.state = ready] /\ i = Size /\ spool[obj.gen] = Whole(obj.want)
      \/ obj' = [o EXCEPT !.state = failed]
  <2>1. CASE req[n].i # Size BY <1>4, <1>5, <2>1 DEF PutSave
  <2>2. CASE req[n].i = Size /\ ~DigestIs(spool[obj.gen], obj.want)
    BY <1>4, <1>5, <2>2 DEF PutSave
  <2>3. CASE req[n].i = Size /\ DigestIs(spool[obj.gen], obj.want)
    <3>1. spool[obj.gen] = Whole(obj.want) BY <2>3 DEF DigestIs
    <3>2. obj' = [o EXCEPT !.state = ready] BY <1>4, <1>5, <2>3 DEF PutSave
    <3> QED BY <1>4, <2>3, <3>1, <3>2
  <2> QED BY <2>1, <2>2, <2>3
<1>8. PICK w : w = obj' OBVIOUS
<1>9. w \in ObjRecords /\ w.up = obj.up /\ w.gen = obj.gen /\ w.off = i /\ w.want = obj.want
      /\ (w.state = "ready" => i = Size /\ spool[obj.gen] = Whole(obj.want))
  <2>1. CASE w = o BY <1>2, <1>6, <2>1
  <2>2. CASE w = [o EXCEPT !.state = ready] /\ i = Size /\ spool[obj.gen] = Whole(obj.want)
    BY <1>6, <2>2 DEF ObjRecords
  <2>3. CASE w = [o EXCEPT !.state = failed]
    <3>1. w \in ObjRecords /\ w.up = obj.up /\ w.gen = obj.gen /\ w.off = i
          /\ w.want = obj.want /\ w.state = failed
      BY <1>6, <2>3 DEF ObjRecords
    <3> QED BY <1>4, <3>1
  <2> QED BY <1>7, <1>8, <2>1, <2>2, <2>3
<1>10. PICK pc \in {"ok", "err"} : Answer(n, pc, req[n].c) BY DEF PutSave, Refuse
<1>11. PICK r : r = IF req[n].gone THEN FreeReq ELSE [req[n] EXCEPT !.pc = pc, !.c = req[n].c]
  OBVIOUS
<1>12. r \in ReqRecords /\ r.pc \notin Handled BY <1>1, <1>11, Replies
<1>13. ReqFine(r, Settled) /\ r.pc # "append" BY <1>12 DEF ReqFine, Handled
<1>14. req' = [req EXCEPT ![n] = r] BY <1>10, <1>11 DEF Answer
<1>15. UNCHANGED spools /\ glock' = 0 /\ spool' = spool BY DEF PutSave
<1>16. PICK s \in Contents : s = spool[obj.gen] BY <1>3
<1>17. spool' = [spool EXCEPT ![obj.gen] = s] BY <1>1, <1>15, <1>16
<1>18. Len(s) = obj.off + 1 /\ InOrder(s) BY <1>2, <1>16
<1>19. obj.off <= Len(s) /\ i <= Len(s) /\ i \in {obj.off, obj.off + 1} BY <1>2, <1>3, <1>4, <1>18
<1> QED BY <1>2, <1>8, <1>9, <1>12, <1>13, <1>14, <1>15, <1>16, <1>17, <1>18, <1>19, SpoolStep

LEMMA PutCommitKeeps ==
  ASSUME GateInv, SameAttempt, NEW n \in Reqs, PutCommit(n) PROVE GateKeeps
<1>1. obj \in ObjRecords /\ req[n] \in ReqRecords /\ req[n].c \in ChunkOrHole
      /\ req[n].pc = "commit" /\ ReqFine(req[n], Settled) /\ spool \in [Gens -> Contents]
  BY ReqKnown DEF GateInv, GateTypes, ReqKept, ReqRecords, PutCommit
<1>2. UNCHANGED spools /\ glock = 0 BY DEF PutCommit, GateFree
<1>3. CASE /\ obj' = [obj EXCEPT !.claim = NoClaim] /\ Answer(n, "ok", req[n].c)
           /\ UNCHANGED <<spool, glock>>
  <2>1. PICK k \in Claims : k = NoClaim BY DEF Claims
  <2>2. PICK o : o = [obj EXCEPT !.claim = k] OBVIOUS
  <2>3. o \in ObjRecords /\ o.up = obj.up /\ o.gen = obj.gen /\ o.off = obj.off
        /\ o.want = obj.want /\ o.state = obj.state
    BY <1>1, <2>2, ObjMarked
  <2> QED BY <1>1, <1>2, <1>3, <2>1, <2>2, <2>3, RequestAnswered
<1>4. CASE obj' = Released(obj, n) /\ Refuse(n) /\ UNCHANGED <<spool, glock>>
  <2>1. PICK o : o = Released(obj, n) OBVIOUS
  <2>2. o \in ObjRecords /\ o.up = obj.up /\ o.gen = obj.gen /\ o.off = obj.off
        /\ o.want = obj.want /\ o.state = obj.state
    BY <1>1, <2>1, Released1
  <2>3. Answer(n, "err", req[n].c) BY <1>4 DEF Refuse
  <2> QED BY <1>1, <1>2, <1>4, <2>1, <2>2, <2>3, RequestAnswered
<1>5. CASE /\ HasClaim(n) /\ MayAppend(n)
           /\ spool' = [spool EXCEPT ![obj.gen] = Append(@, req[n].c)]
           /\ obj' = [obj EXCEPT !.fresh = FALSE] /\ glock' = n /\ StepTo(n, "append")
  <2>1. obj.up /\ obj.gen = req[n].gen /\ req[n].i = obj.off + 1
        /\ Len(spool[obj.gen]) = obj.off
    BY <1>5 DEF HasClaim, Loads, MayAppend, SpoolValid
  <2>2. req[n].kind = "put" /\ req[n].i \in Chunks /\ req[n].c \in Chunk
        /\ req[n].c[1] = req[n].i
    BY <1>1 DEF ReqFine, Handled
  <2>3. obj.off \in Nat /\ obj.off < Size /\ obj.gen \in Gens
        /\ spool[obj.gen] \in Seq(Chunk) /\ InOrder(spool[obj.gen])
        /\ (obj.state = "ready" => obj.off = Size)
    <3>1. /\ obj.gen \in Gens /\ InOrder(spool[obj.gen])
          /\ obj.state = "ready" => obj.off = Size
      BY <2>1 DEF GateInv, ObjFine
    <3>2. obj.off \in Nat /\ spool[obj.gen] \in Seq(Chunk) BY <3>1, GateKnown
    <3>3. obj.off < Size BY <2>1, <2>2, <3>2, GateSizes
    <3> QED BY <3>1, <3>2, <3>3
  <2>4. PICK s : s = Append(spool[obj.gen], req[n].c) OBVIOUS
  <2>5. s \in Seq(Chunk) /\ Len(s) = obj.off + 1
        /\ \A k \in 1..obj.off : s[k] = spool[obj.gen][k]
    BY <2>1, <2>2, <2>3, <2>4
  <2>6. s[obj.off + 1] = req[n].c BY <2>1, <2>2, <2>3, <2>4
  <2>7. InOrder(s)
    <3>1. Len(s) <= Size BY <2>3, <2>5, GateSizes
    <3>2. ASSUME NEW k \in 1..Len(s) PROVE s[k][1] = k
      <4>1. CASE k = obj.off + 1 BY <2>1, <2>2, <2>6, <4>1
      <4>2. CASE k # obj.off + 1
        <5>1. k \in 1..obj.off BY <2>3, <2>5, <4>2
        <5> QED BY <2>1, <2>3, <2>5, <5>1 DEF InOrder
      <4> QED BY <4>1, <4>2
    <3> QED BY <3>1, <3>2 DEF InOrder
  <2>8. PICK t \in BOOLEAN : t = FALSE OBVIOUS
  <2>9. PICK o : o = [obj EXCEPT !.fresh = t] OBVIOUS
  <2>10. NoClaim \in Claims BY DEF Claims
  <2>11. o \in ObjRecords /\ o.up = obj.up /\ o.gen = obj.gen /\ o.off = obj.off
         /\ o.want = obj.want /\ o.state = obj.state
    BY <1>1, <2>9, <2>10, ObjMarked
  <2>12. obj' = o BY <1>5, <2>8, <2>9
  <2>13. PICK p \in ReqPlaces : p = "append" BY DEF ReqPlaces
  <2>14. PICK r : r = [req[n] EXCEPT !.pc = p] OBVIOUS
  <2>15. r \in ReqRecords /\ r.pc = p /\ r.kind = req[n].kind /\ r.gen = req[n].gen
         /\ r.i = req[n].i /\ r.c = req[n].c
    BY <1>1, <2>14, ReqPlaced
  <2>16. ReqFine(r, Settled) BY <1>1, <2>2, <2>13, <2>15 DEF ReqFine
  <2>17. req' = [req EXCEPT ![n] = r] BY <1>5, <2>13, <2>14 DEF StepTo
  <2>18. \A m \in Reqs : req[m].pc = "append" => m = n
    BY <1>2, GateSizes DEF GateInv, ReqsFine, Appends
  <2>19. spool' = [spool EXCEPT ![obj.gen] = s] BY <1>5, <2>4
  <2>20. s \in Contents /\ glock' \in Reqs \cup {0, 100} /\ glock' = n BY <1>5, <2>5 DEF Contents
  <2>21. obj.off <= Len(s) /\ obj'.off <= Len(s) BY <2>3, <2>5, <2>11, <2>12
  <2>22. obj' \in ObjRecords /\ obj'.up /\ obj'.gen = obj.gen /\ obj'.want = obj.want
         /\ obj'.off = obj.off /\ obj'.state # "ready"
    <3>1. obj.state # "ready" BY <2>3, GateSizes
    <3>2. o.up BY <2>1, <2>11
    <3> QED BY <2>11, <2>12, <3>1, <3>2
  <2>23. obj.gen = r.gen /\ r.i = obj'.off + 1 /\ Len(s) = obj'.off + 1
    BY <2>1, <2>5, <2>15, <2>22
  <2> QED BY <1>2, <2>1, <2>3, <2>5, <2>7, <2>15, <2>16, <2>17, <2>18, <2>19,
             <2>20, <2>21, <2>22, <2>23, SpoolStep
<1> QED BY <1>3, <1>4, <1>5 DEF PutCommit

LEMMA GateStepKeeps ==
  ASSUME GateInv, SameAttempt, NEW n \in Reqs, GateStep(n) \/ GateFault(n) PROVE GateKeeps
BY ReqAuthKeeps, PutClaimKeeps, PutBodyKeeps, PutCommitKeeps, PutSaveKeeps, GetClaimKeeps,
   GetStreamKeeps, PutBodyFailsKeeps, PutRollbackKeeps, PutSaveFailsKeeps, GetNeverIteratedKeeps
   DEF GateStep, GateFault

--------------------------------------------------------------------------------
\* Under a free lock nothing is being appended.
LEMMA NoneAppends == ASSUME GateInv, GateFree PROVE \A n \in Reqs : req[n].pc # "append"
BY GateSizes DEF GateInv, ReqsFine, Appends, GateFree

\* The object changes and the requests do not.
LEMMA ObjStep ==
  ASSUME GateInv, SameAttempt, UNCHANGED <<spool, req, glock>>, obj' \in ObjRecords,
         spools' \subseteq Gens, GateFree \/ obj'.up = obj.up,
         obj'.up => /\ obj.up /\ obj'.gen = obj.gen /\ obj'.off = obj.off
                    /\ obj'.want = obj.want /\ (obj'.state = "ready" => obj.state = "ready")
  PROVE  GateKeeps
<1>1. GateTypes /\ ReqsFine BY DEF GateInv
<1>2. ASSUME NEW n \in Reqs, req[n].pc = "append" PROVE obj'.up
  BY <1>1, <1>2, NoneAppends DEF ReqsFine, Appends
<1>3. /\ req' \in [Reqs -> ReqRecords] /\ \A n \in Reqs : ReqFine(req'[n], Settled)
      /\ glock' \in Reqs \cup {0, 100}
  BY <1>1 DEF GateTypes, ReqsFine
<1> QED BY <1>2, <1>3, MetaStep

LEMMA NothingHeld == NoObj \in ObjRecords /\ NoObj.up = FALSE
<1>1. NoClaim \in Claims /\ "none" \in ObjStates BY DEF Claims, ObjStates
<1>2. PICK k \in Claims, st \in ObjStates : k = NoClaim /\ st = "none" BY <1>1
<1>3. 0 \in Offsets /\ 0 \in GenOrNone /\ 0 \in VersionOrNone
  BY GateSizes DEF GenOrNone, VersionOrNone
<1>4. NoObj = [up |-> FALSE, state |-> st, off |-> 0, tok |-> 0, claim |-> k, want |-> 0,
               gen |-> 0, expired |-> FALSE, fresh |-> TRUE]
  BY <1>2 DEF NoObj
<1> QED BY <1>3, <1>4 DEF ObjRecords

LEMMA RevokedFine ==
  ASSUME obj \in ObjRecords, NEW st \in ObjStates, NEW q, q = Revoked(st)
  PROVE  q \in ObjRecords /\ q.up = obj.up /\ q.gen = obj.gen /\ q.off = obj.off
         /\ q.want = obj.want /\ q.state = st
<1>1. PICK k \in Claims, tk \in GenOrNone : k = NoClaim /\ tk = 0 BY DEF Claims, GenOrNone
<1>2. q = [obj EXCEPT !.state = st, !.tok = tk, !.claim = k] BY <1>1 DEF Revoked
<1> QED BY <1>2 DEF ObjRecords

LEMMA NothingKeeps ==
  ASSUME GateInv, SameAttempt, UNCHANGED <<spool, req, glock>>, GateFree, obj' = NoObj,
         spools' \subseteq Gens
  PROVE  GateKeeps
BY NothingHeld, ObjStep

LEMMA IdleKeeps ==
  ASSUME GateInv, SameAttempt, UNCHANGED <<obj, spools, spool, req, glock>> PROVE GateKeeps
<1>1. obj' \in ObjRecords /\ spools' \subseteq Gens BY DEF GateInv, GateTypes
<1> QED BY <1>1, ObjStep

LEMMA RevokeKeeps ==
  ASSUME GateInv, SameAttempt, NEW g, Suspend(g) \/ Abort(g) \/ Consume(g) \/ Delete(g)
  PROVE  GateKeeps
<1>1. obj \in ObjRecords /\ spools \subseteq Gens /\ obj.state \in ObjStates
  BY DEF GateInv, GateTypes, ObjRecords
<1>2. CASE Suspend(g)
  <2>1. PICK st \in ObjStates : st = obj.state BY <1>1
  <2>2. PICK q : q = Revoked(st) OBVIOUS
  <2>3. q \in ObjRecords /\ q.up = obj.up /\ q.gen = obj.gen /\ q.off = obj.off
         /\ q.want = obj.want /\ q.state = st
    BY <1>1, <2>2, RevokedFine
  <2>4. PICK e \in BOOLEAN : e = FALSE OBVIOUS
  <2>5. PICK w : w = [q EXCEPT !.expired = e] OBVIOUS
  <2>6. PICK k : k = NoClaim /\ k \in Claims BY DEF Claims
  <2>7. w \in ObjRecords /\ w.up = q.up /\ w.gen = q.gen /\ w.off = q.off /\ w.want = q.want
        /\ w.state = q.state
    BY <2>3, <2>5, <2>6, ObjMarked
  <2>8. obj' \in {obj, w} /\ UNCHANGED <<spools, spool, glock, req>>
    BY <1>2, <2>1, <2>2, <2>4, <2>5 DEF Suspend
  <2> QED BY <1>1, <2>1, <2>3, <2>7, <2>8, ObjStep
<1>3. CASE Abort(g) \/ Consume(g)
  <2>1. PICK st \in ObjStates : /\ st # "ready"
                                /\ obj' = obj \/ obj' = Revoked(st)
    BY <1>3 DEF Abort, Consume, ObjStates, Terminal
  <2>2. UNCHANGED <<spools, spool, glock, req>> BY <1>3 DEF Abort, Consume
  <2>3. CASE obj' = obj BY <2>2, <2>3, IdleKeeps
  <2>4. CASE obj' = Revoked(st)
    <3>1. PICK q : q = obj' OBVIOUS
    <3>2. q \in ObjRecords /\ q.up = obj.up /\ q.gen = obj.gen /\ q.off = obj.off
          /\ q.want = obj.want /\ q.state = st
      BY <1>1, <2>4, <3>1, RevokedFine
    <3> QED BY <1>1, <2>1, <2>2, <3>1, <3>2, ObjStep
  <2> QED BY <2>1, <2>3, <2>4
<1>4. CASE Delete(g)
  <2>1. obj' \in {obj, NoObj} /\ spools' \subseteq Gens /\ UNCHANGED <<spool, req, glock>> /\ GateFree
    BY <1>1, <1>4 DEF Delete
  <2> QED BY <1>1, <2>1, NothingKeeps, ObjStep
<1> QED BY <1>2, <1>3, <1>4

LEMMA CleanupKeeps == ASSUME GateInv, SameAttempt, CleanupByOthers PROVE GateKeeps
<1>1. spools' \subseteq Gens BY DEF GateInv, GateTypes, CleanupByOthers
<1> QED BY <1>1, NothingKeeps DEF CleanupByOthers

\* The time to live passes, or is extended.
LEMMA ExpiryKeeps ==
  ASSUME GateInv, SameAttempt, NEW e \in BOOLEAN, obj' \in {obj, [obj EXCEPT !.expired = e]},
         UNCHANGED <<spools, spool, glock, req>>
  PROVE  GateKeeps
<1>1. obj \in ObjRecords /\ spools \subseteq Gens BY DEF GateInv, GateTypes
<1>2. NoClaim \in Claims BY DEF Claims
<1>3. PICK k \in Claims : k = NoClaim BY <1>2
<1>4. PICK q : q = obj' OBVIOUS
<1>5. q \in {obj, [obj EXCEPT !.expired = e], [obj EXCEPT !.claim = k], [obj EXCEPT !.fresh = e]}
  BY <1>4
<1>6. /\ q \in ObjRecords /\ q.up = obj.up /\ q.gen = obj.gen /\ q.off = obj.off
      /\ q.want = obj.want /\ q.state = obj.state
  BY <1>1, <1>5, ObjMarked
<1> QED BY <1>1, <1>4, <1>6, ObjStep

--------------------------------------------------------------------------------
\* The preparation of an object.
LEMMA WholeInOrder ==
  ASSUME NEW v \in Versions
  PROVE  /\ Whole(v) \in Contents /\ InOrder(Whole(v)) /\ Len(Whole(v)) = Size
         /\ Whole(v) # <<>>
<1>1. Size \in Nat /\ Chunks = 1..Size BY GateSizes DEF Chunks
<1>2. \A i \in Chunks : Whole(v)[i] = <<i, v>> /\ <<i, v>> \in Chunk
  BY DEF Whole, Piece, Chunk
<1>3. PICK w : w = Whole(v) OBVIOUS
<1>4. w \in [1..Size -> Chunk] BY <1>1, <1>2, <1>3 DEF Whole, Piece, Chunk
<1>5. w \in Seq(Chunk) /\ Len(w) = Size BY <1>1, <1>4
<1>6. w # <<>> BY <1>5, GateSizes
<1>7. \A k \in 1..Len(w) : w[k][1] = k
  <2>1. ASSUME NEW k \in 1..Len(w) PROVE w[k] = <<k, v>> BY <1>1, <1>2, <1>3, <1>5
  <2> QED BY <2>1
<1>8. Len(w) <= Size BY <1>1, <1>5
<1> QED BY <1>3, <1>5, <1>6, <1>7, <1>8 DEF Contents, InOrder

LEMMA NothingInOrder == <<>> \in Contents /\ InOrder(<<>>) /\ Len(<<>>) = 0
BY GateSizes DEF Contents, InOrder

LEMMA CreateSpoolKeeps ==
  ASSUME GateInv, prep = "open", prep' = "save", UNCHANGED <<copy>>, GateFree, NEW content,
         content \in {<<>>, Whole(copy.want)}, CreateSpool(copy.att, content)
  PROVE  GateKeeps
<1>1. GateTypes /\ ReqsFine /\ copy.att \in Gens /\ copy.want \in Versions
  BY DEF GateInv, Preparing
<1>2. PICK g \in Gens : g = copy.att BY <1>1
<1>3. PICK s \in Contents : s = content BY <1>1, WholeInOrder, NothingInOrder
<1>4. spool' = [spool EXCEPT ![g] = s] /\ obj' = NoObj /\ glock' = 100 /\ req' = req
      /\ spools' = (spools \ {obj.gen}) \cup {g}
  BY <1>2, <1>3 DEF CreateSpool
<1>5. spool' \in [Gens -> Contents] /\ spool'[g] = s /\ \A h \in Gens \ {g} : spool'[h] = spool[h]
  BY <1>1, <1>4 DEF GateTypes
<1>6. GateTypes' BY <1>1, <1>4, <1>5, NothingHeld DEF GateTypes
<1>7. ~obj'.up BY <1>4, NothingHeld
<1>8. ObjFine' /\ Commits BY <1>7 DEF ObjFine, Commits
<1>9. Settled \subseteq Settled' BY <1>2, <1>5, <1>7 DEF Settled, Loads
<1>10. \A n \in Reqs : req'[n].pc # "append" BY <1>4, NoneAppends
<1>11. Preparing' BY <1>1, <1>2, <1>3, <1>4, <1>5, <1>10 DEF Preparing
<1>12. ReqsFine'
  <2>1. SUFFICES ASSUME NEW m \in Reqs PROVE (ReqFine(req[m], Settled) /\ Appends(m, req[m]))'
    BY DEF ReqsFine
  <2>2. ReqFine(req'[m], Settled) BY <1>1, <1>4 DEF ReqsFine
  <2>3. ReqFine(req[m], Settled)' BY <1>9, <2>2 DEF ReqFine
  <2>4. Appends(m, req[m])' BY <1>10 DEF Appends
  <2> QED BY <2>3, <2>4
<1> QED BY <1>6, <1>8, <1>9, <1>11, <1>12 DEF GateKeeps, GateInv

LEMMA CreateObjectKeeps ==
  ASSUME GateInv, prep = "save", prep' = "done", UNCHANGED <<copy>>,
         CreateObject(copy.att, copy.want)
  PROVE  GateKeeps
<1>1. GateTypes /\ ReqsFine /\ copy.att \in Gens /\ copy.want \in Versions /\ ~obj.up
      /\ spool[copy.att] \in {<<>>, Whole(copy.want)} /\ \A n \in Reqs : req[n].pc # "append"
  BY DEF GateInv, Preparing, ObjFine
<1>2. PICK g \in Gens, v \in Versions : g = copy.att /\ v = copy.want BY <1>1
<1>3. /\ spool[g] \in Contents /\ InOrder(spool[g]) /\ Len(spool[g]) \in Offsets
      /\ spool[g] # <<>> => spool[g] = Whole(v) /\ Len(spool[g]) = Size
  BY <1>1, <1>2, WholeInOrder, NothingInOrder, GateSizes
<1>4. PICK st \in ObjStates : st = IF spool[g] = <<>> THEN "uploading" ELSE "ready"
  BY DEF ObjStates
<1>5. PICK q : q = obj' OBVIOUS
<1>6. q = [NoObj EXCEPT !.up = TRUE, !.tok = g, !.want = v, !.gen = g,
                        !.off = Len(spool[g]), !.state = st]
  BY <1>2, <1>4, <1>5 DEF CreateObject
<1>7. PICK t \in BOOLEAN, o \in Offsets, tk \in GenOrNone, w \in VersionOrNone :
        t = TRUE /\ o = Len(spool[g]) /\ tk = g /\ w = v
  BY <1>3 DEF GenOrNone, VersionOrNone
<1>8. q = [NoObj EXCEPT !.up = t, !.tok = tk, !.want = w, !.gen = tk, !.off = o, !.state = st]
  BY <1>6, <1>7
<1>9. PICK z \in ObjRecords : z = NoObj BY NothingHeld
<1>10. /\ q \in ObjRecords /\ q.up = t /\ q.gen = tk /\ q.off = o /\ q.want = w /\ q.state = st
  BY <1>8, <1>9 DEF ObjRecords
<1>11. UNCHANGED <<spools, spool, req>> /\ glock' = 0 BY DEF CreateObject
<1>12. GateTypes' BY <1>1, <1>5, <1>10, <1>11 DEF GateTypes
<1>13. q.state = "ready" => q.off = Size /\ spool[g] = Whole(v)
  BY <1>3, <1>4, <1>7, <1>10
<1>14. g <= copy.att /\ q.off <= Len(spool[g])
  BY <1>2, <1>3, <1>7, <1>10, GateSizes
<1>15. ObjFine'
  <2>1. q.gen = g /\ q.want = v BY <1>7, <1>10
  <2>2. prep' # "save" /\ prep' # "open" /\ copy' = copy /\ spool' = spool BY <1>11
  <2> QED BY <1>2, <1>3, <1>5, <1>13, <1>14, <2>1, <2>2 DEF ObjFine
<1>16. Settled \subseteq Settled' BY <1>2, <1>5, <1>7, <1>10, <1>11 DEF Settled, Loads
<1>17. Commits BY <1>1 DEF Commits
<1>18. Preparing' BY DEF Preparing
<1>19. ReqsFine'
  <2>1. SUFFICES ASSUME NEW m \in Reqs PROVE (ReqFine(req[m], Settled) /\ Appends(m, req[m]))'
    BY DEF ReqsFine
  <2>2. ReqFine(req'[m], Settled) BY <1>1, <1>11 DEF ReqsFine
  <2>3. ReqFine(req[m], Settled)' BY <1>16, <2>2 DEF ReqFine
  <2>4. Appends(m, req[m])' BY <1>1, <1>11 DEF Appends
  <2> QED BY <2>3, <2>4
<1> QED BY <1>12, <1>15, <1>16, <1>17, <1>18, <1>19 DEF GateKeeps, GateInv

\* A new object keeps its fields but who may use it.
LEMMA ResumeKeeps ==
  ASSUME GateInv, SameAttempt, copy.att \in Gens, Resume(copy.att) PROVE GateKeeps
<1>1. obj \in ObjRecords /\ spools \subseteq Gens BY DEF GateInv, GateTypes
<1>2. PICK k \in Claims, tk \in GenOrNone, e \in BOOLEAN : k = NoClaim /\ tk = copy.att /\ e = FALSE
  BY DEF Claims, GenOrNone
<1>3. PICK q : q = obj' OBVIOUS
<1>4. q = [obj EXCEPT !.tok = tk, !.claim = k, !.expired = e] BY <1>2, <1>3 DEF Resume
<1>5. /\ q \in ObjRecords /\ q.up = obj.up /\ q.gen = obj.gen /\ q.off = obj.off
      /\ q.want = obj.want /\ q.state = obj.state
  BY <1>1, <1>4 DEF ObjRecords
<1>6. UNCHANGED <<spools, spool, glock, req>> BY DEF Resume
<1> QED BY <1>1, <1>3, <1>5, <1>6, ObjStep

LEMMA PrepOpenKeeps == ASSUME GateInv, PrepOpen PROVE GateKeeps
<1>1. copy.att \in Gens /\ copy.want \in Versions /\ spools \subseteq Gens
      /\ prep = "open" /\ GateFree /\ copy' = copy
  BY DEF GateInv, Preparing, GateTypes, PrepOpen
<1>2. CASE Resumes(copy.want) /\ Resume(a0) /\ prep' = "done"
  <2>1. SameAttempt BY <1>1, <1>2 DEF SameAttempt
  <2> QED BY <1>1, <1>2, <2>1, ResumeKeeps DEF a0
<1>3. CASE prep' = "refused" /\ UNCHANGED gateVars
  <2>1. SameAttempt BY <1>1, <1>3 DEF SameAttempt
  <2> QED BY <1>3, <2>1, IdleKeeps DEF gateVars
<1>4. CASE /\ SrcRemote \/ src = copy.want
           /\ CreateSpool(a0, IF SrcRemote THEN <<>> ELSE Whole(src)) /\ prep' = "save"
  <2>1. PICK content : content = IF SrcRemote THEN <<>> ELSE Whole(src) OBVIOUS
  <2>2. content \in {<<>>, Whole(copy.want)} BY <1>4, <2>1
  <2>3. CreateSpool(copy.att, content) BY <1>4, <2>1 DEF a0
  <2> QED BY <1>1, <1>4, <2>2, <2>3, CreateSpoolKeeps
<1>5. CASE obj' = NoObj /\ spools' = spools \ {obj.gen} /\ prep' = "refused"
           /\ UNCHANGED <<spool, glock, req>>
  <2>1. SameAttempt BY <1>1, <1>5 DEF SameAttempt
  <2>2. spools' \subseteq Gens BY <1>1, <1>5
  <2> QED BY <1>1, <1>5, <2>1, <2>2, NothingKeeps
<1> QED BY <1>2, <1>3, <1>4, <1>5 DEF PrepOpen

LEMMA PrepSaveKeeps == ASSUME GateInv, PrepSave PROVE GateKeeps
BY CreateObjectKeeps DEF PrepSave, a0

\* A new attempt takes a number that no object has.
LEMMA StartGateKeeps ==
  ASSUME GateInv, PromiseInv, Start, copy.att \in GenOrNone PROVE GateKeeps
<1>1. UNCHANGED <<obj, spools, spool, glock, req>> /\ prep \in {"none", "done", "refused"}
      /\ prep' \in {"open", "none"} /\ copy.att + 1 \in Gens
  BY DEF Start, gateVars
<1>2. copy'.att = copy.att + 1 /\ copy'.want = src /\ src \in Versions
  <2>1. PICK pc : copy' = [copy EXCEPT !.pc = pc, !.att = @ + 1, !.want = src, !.off = 0,
                                       !.verdict = "running"]
    BY DEF Start
  <2>2. DOMAIN copy = CopyFields /\ src \in Versions BY DEF PromiseInv, CopyFine
  <2> QED BY <2>1, <2>2 DEF CopyFields
<1>3. \A g \in Gens : g <= copy.att => g <= copy.att + 1 /\ g # copy.att + 1
  <2>1. \A g \in Gens : g \in Nat BY GensAssumption
  <2>2. PICK n \in GenOrNone : n = copy.att OBVIOUS
  <2>3. n \in Nat BY <2>1, <2>2 DEF GenOrNone
  <2> QED BY <2>1, <2>2, <2>3
<1>4. GateTypes /\ ObjFine /\ ReqsFine BY DEF GateInv
<1>5. GateTypes' BY <1>1, <1>4 DEF GateTypes
<1>6. ObjFine' BY <1>1, <1>2, <1>3, <1>4 DEF ObjFine
<1>7. Settled \subseteq Settled' BY <1>1, <1>2, <1>3 DEF Settled, Loads
<1>8. Preparing' BY <1>1, <1>2 DEF Preparing
<1>9. ReqsFine'
  <2>1. SUFFICES ASSUME NEW m \in Reqs PROVE (ReqFine(req[m], Settled) /\ Appends(m, req[m]))'
    BY DEF ReqsFine
  <2>2. ReqFine(req'[m], Settled) BY <1>1, <1>4 DEF ReqsFine
  <2>3. ReqFine(req[m], Settled)' BY <1>7, <2>2 DEF ReqFine
  <2>4. Appends(m, req[m])' BY <1>1, <1>4 DEF ReqsFine, Appends
  <2> QED BY <2>3, <2>4
<1>10. Commits
  <2>1. obj.up => obj.off \in Nat /\ \A k \in 1..obj.off : k <= Len(spool[obj.gen])
    BY GateKnown
  <2> QED BY <1>1, <2>1 DEF Commits
<1> QED BY <1>5, <1>6, <1>7, <1>8, <1>9, <1>10 DEF GateKeeps, GateInv

--------------------------------------------------------------------------------
\* Requests are taken, left, or lost; no one begins.
LEMMA ReqsLeave ==
  ASSUME GateInv, SameAttempt, UNCHANGED <<spools, spool>>, obj' \in ObjRecords,
         obj'.up = obj.up, obj'.gen = obj.gen, obj'.off = obj.off, obj'.want = obj.want,
         obj'.state = obj.state, req' = [n \in Reqs |-> req'[n]],
         \A n \in Reqs : req'[n] \in {FreeReq, req[n], [req[n] EXCEPT !.gone = TRUE],
                                      [req[n] EXCEPT !.pc = "lost"]},
         glock' \in Reqs \cup {0, 100}, prep' = "save" => glock' = glock,
         glock' = glock \/ \A n \in Reqs : req'[n].pc # "append"
  PROVE  GateKeeps
<1>1. ASSUME NEW n \in Reqs
      PROVE  /\ req'[n] \in ReqRecords /\ ReqFine(req'[n], Settled)
             /\ req'[n].pc = "append" => /\ req[n].pc = "append" /\ req'[n].gen = req[n].gen
                                         /\ req'[n].i = req[n].i
  <2>1. req[n] \in ReqRecords /\ ReqFine(req[n], Settled) BY ReqKnown DEF ReqKept
  <2>2. PICK q : q = req'[n] OBVIOUS
  <2>3. PICK t \in BOOLEAN, p \in ReqPlaces : t = TRUE /\ p = "lost" BY DEF ReqPlaces
  <2>4. CASE q = FreeReq BY <2>2, <2>4, FreeFine
  <2>5. CASE q = req[n] BY <2>1, <2>2, <2>5
  <2>6. CASE q = [req[n] EXCEPT !.gone = t]
    <3>1. /\ q \in ReqRecords /\ q.pc = req[n].pc /\ q.kind = req[n].kind /\ q.i = req[n].i
          /\ q.c = req[n].c /\ q.gen = req[n].gen
      BY <2>1, <2>6 DEF ReqRecords
    <3> QED BY <2>1, <2>2, <3>1 DEF ReqFine
  <2>7. CASE q = [req[n] EXCEPT !.pc = p]
    <3>1. q \in ReqRecords /\ q.pc = p BY <2>1, <2>7, ReqPlaced
    <3> QED BY <2>2, <2>3, <3>1 DEF ReqFine, Handled
  <2> QED BY <2>2, <2>3, <2>4, <2>5, <2>6, <2>7
<1>2. req' \in [Reqs -> ReqRecords] BY <1>1
<1>3. spools' \subseteq Gens BY DEF GateInv, GateTypes
<1>4. ASSUME NEW n \in Reqs, req'[n].pc = "append" PROVE obj'.up
  BY <1>1, <1>4 DEF GateInv, ReqsFine, Appends
<1> QED BY <1>1, <1>2, <1>3, <1>4, MetaStep

--------------------------------------------------------------------------------
(*****************************************************************************)
(* The copy, its clients and the files.                                      *)
(*****************************************************************************)
UpFields == {"pc", "off", "slot", "tries", "gen", "want"}
UploadFine(w) ==
  /\ DOMAIN w = UpFields /\ w.off \in Offsets /\ w.gen \in GenOrNone
  /\ w.pc = "wait" => w.slot \in Reqs
\* A download reads a transfer whose spool is complete for good.
DownloadFine(w, settled) ==
  /\ w.off \in Offsets /\ w.c \in ChunkOrHole
  /\ w.pc = "wait" => w.slot \in Reqs
  /\ w.pc # "none" => w.gen \in settled
  /\ w.pc \in {"wait", "write", "writeLog"} => w.off # Size
CopyTyped(k, settled) ==
  /\ k.att \in GenOrNone /\ k.gen \in GenOrNone /\ k.off \in Offsets
  /\ k.pc = "download" => k.gen \in settled
ClientInv ==
  /\ CopyTyped(copy, Settled)
  /\ DOMAIN up = Gens /\ \A a \in Gens : UploadFine(up[a])
  /\ \A a \in Gens : DownloadFine(down[a], Settled)
Preps == {"none", "open", "save", "done", "refused"}
PartRecords ==
  [up : BOOLEAN, log : BOOLEAN, data : [Chunks -> ChunkOrHole], got : SUBSET Chunks,
   len : Offsets]
Files == [Chunks -> ChunkOrHole]
FilesFine ==
  part \in [Gens -> PartRecords] /\ dest \in {Absent, Other} \cup Files /\ plock \in Nat
WorldInv == mode \in Modes /\ prep \in Preps /\ faults \in 0..MaxFaults
CopyInv == PromiseInv /\ GateInv /\ ClientInv /\ FilesFine /\ WorldInv

\* What every step shows of all but the promise.
Shows == GateKeeps /\ ClientInv' /\ FilesFine' /\ WorldInv'

LEMMA LastOf == ASSUME NEW S, S \subseteq Chunks, S # {} PROVE \E i \in S : \A k \in S : k <= i
<1>1. \A i \in S : i \in Nat /\ i <= Size /\ Size \in Nat BY GateSizes
<1> DEFINE T == {Size - i : i \in S}
<1>2. T \subseteq Nat /\ T # {} BY <1>1
<1>3. PICK m \in T : \A k \in T : ~ (<<k, m>> \in OpToRel(<, Nat))
  <2> HIDE DEF T
  <2> QED BY <1>2, NatLessThanWellFounded, WFMin, Zenon
<1>4. \A k \in T : ~ (k < m) BY <1>2, <1>3 DEF OpToRel
<1>5. PICK i \in S : m = Size - i OBVIOUS
<1>6. \A k \in S : ~ (Size - k < Size - i) BY <1>4, <1>5
<1> QED BY <1>1, <1>6

LEMMA FileLenTyped == ASSUME NEW d \in Files PROVE FileLen(d) \in Offsets
<1>1. PICK written : written = {i \in Chunks : d[i] # Hole} OBVIOUS
<1>2. CASE written = {} BY <1>1, <1>2, GateSizes DEF FileLen
<1>3. CASE written # {}
  <2>1. \E i \in written : \A j \in written : j <= i BY <1>1, <1>3, LastOf
  <2>2. FileLen(d) = CHOOSE i \in written : \A j \in written : j <= i
    BY <1>1, <1>3 DEF FileLen
  <2>3. FileLen(d) \in Chunks BY <1>1, <2>1, <2>2
  <2> QED BY <2>3, GateSizes
<1> QED BY <1>2, <1>3

--------------------------------------------------------------------------------
\* A client that keeps what it reads keeps it when more is settled.
LEMMA SettledGrows ==
  ASSUME NEW s, NEW t, s \subseteq t
  PROVE  /\ \A w : DownloadFine(w, s) => DownloadFine(w, t)
         /\ \A k : CopyTyped(k, s) => CopyTyped(k, t)
BY DEF DownloadFine, CopyTyped

\* The copy moves and its clients stay.
LEMMA ClientsStay ==
  ASSUME ClientInv, GateKeeps, UNCHANGED <<up, down>>, CopyTyped(copy', Settled)
  PROVE  ClientInv'
<1>1. CopyTyped(copy', Settled') BY SettledGrows DEF GateKeeps
<1>2. \A a \in Gens : DownloadFine(down'[a], Settled')
  BY SettledGrows DEF GateKeeps, ClientInv
<1> QED BY <1>1, <1>2 DEF ClientInv

\* Clients move; the copy goes on.
LEMMA ClientsMove ==
  ASSUME ClientInv, GateKeeps, CopyTyped(copy', Settled),
         DOMAIN up' = Gens, \A a \in Gens : UploadFine(up'[a]),
         \A a \in Gens : DownloadFine(down'[a], Settled)
  PROVE  ClientInv'
<1>1. CopyTyped(copy', Settled') BY SettledGrows DEF GateKeeps
<1>2. \A a \in Gens : DownloadFine(down'[a], Settled') BY SettledGrows DEF GateKeeps
<1> QED BY <1>1, <1>2 DEF ClientInv

LEMMA UploadMoves ==
  ASSUME ClientInv, GateKeeps, CopyTyped(copy', Settled), UNCHANGED down,
         NEW a \in Gens, NEW w, up' = [up EXCEPT ![a] = w], UploadFine(w)
  PROVE  ClientInv'
<1>1. DOMAIN up' = Gens /\ \A b \in Gens : UploadFine(up'[b]) BY DEF ClientInv
<1> QED BY <1>1, ClientsMove DEF ClientInv

LEMMA DownloadMoves ==
  ASSUME PromiseInv, ClientInv, GateKeeps, CopyTyped(copy', Settled), UNCHANGED up,
         NEW a \in Gens, NEW w, down' = [down EXCEPT ![a] = w], DownloadFine(w, Settled)
  PROVE  ClientInv'
<1>1. \A b \in Gens : DownloadFine(down'[b], Settled) BY DEF ClientInv, PromiseInv
<1> QED BY <1>1, ClientsMove DEF ClientInv

LEMMA WorldStays ==
  ASSUME WorldInv, UNCHANGED mode, prep' \in Preps,
         faults' = faults \/ Fault
  PROVE  WorldInv'
<1>1. faults' \in 0..MaxFaults BY FaultsAssumption DEF WorldInv, Fault
<1> QED BY <1>1 DEF WorldInv

\* The copy moves: the gateway sees the same attempt.
CopyGoes(k) ==
  /\ k.att = copy.att /\ k.want = copy.want /\ k.gen = copy.gen /\ k.off = copy.off
LEMMA CopyMoved ==
  ASSUME PromiseInv, NEW x, NEW v,
         Goto(x) \/ Report(v) \/ Unwind(v)
         \/ copy' = [copy EXCEPT !.pc = "abort", !.then = "cancelled"]
  PROVE  CopyGoes(copy') /\ (copy'.pc = x \/ copy'.pc \in {"idle", "undo", "abort"})
<1>1. DOMAIN copy = CopyFields BY DEF PromiseInv, CopyFine
<1>2. CASE Goto(x) BY <1>1, <1>2 DEF Goto, CopyGoes, CopyFields
<1>3. CASE Report(v) BY <1>1, <1>3 DEF Report, CopyGoes, CopyFields
<1>4. CASE Unwind(v) BY <1>1, <1>4 DEF Unwind, CopyGoes, CopyFields
<1>5. CASE copy' = [copy EXCEPT !.pc = "abort", !.then = "cancelled"]
  BY <1>1, <1>5 DEF CopyGoes, CopyFields
<1> QED BY <1>2, <1>3, <1>4, <1>5

\* The copy goes on, and neither its clients nor the files change; the gateway is idle
\* or revokes.
LEMMA CopyAlone ==
  ASSUME CopyInv, UNCHANGED <<up, down, mode>>, FilesFine', faults' = faults \/ Fault,
         NEW x, NEW v, Goto(x) \/ Report(v) \/ Unwind(v), x = "download" => copy.gen \in Settled,
         prep' \in {prep, "none"},
         \/ UNCHANGED gateVars
         \/ \E g : Suspend(g) \/ Abort(g) \/ Consume(g) \/ Delete(g)
  PROVE  Shows
<1>1. CopyGoes(copy') /\ (copy'.pc = x \/ copy'.pc \in {"idle", "undo", "abort"})
  BY CopyMoved DEF CopyInv
<1>2. SameAttempt BY <1>1 DEF SameAttempt, CopyGoes
<1>3. GateKeeps BY <1>2, IdleKeeps, RevokeKeeps DEF CopyInv, gateVars
<1>4. CopyTyped(copy', Settled) BY <1>1 DEF CopyInv, ClientInv, CopyTyped, CopyGoes
<1>5. ClientInv' BY <1>3, <1>4, ClientsStay DEF CopyInv
<1>6. WorldInv' BY WorldStays DEF CopyInv, WorldInv, Preps
<1> QED BY <1>3, <1>5, <1>6 DEF Shows

--------------------------------------------------------------------------------
\* The files.
LEMMA FilesStay == ASSUME FilesFine, UNCHANGED fileVars PROVE FilesFine'
BY DEF FilesFine, fileVars

LEMMA NoPartTyped == NoPart \in PartRecords /\ Empty \in Files /\ Hole \in ChunkOrHole
<1>1. Hole \in ChunkOrHole BY DEF ChunkOrHole
<1>2. PICK h \in ChunkOrHole : h = Hole BY <1>1
<1>3. Empty = [i \in Chunks |-> h] BY <1>2 DEF Empty
<1>4. Empty \in Files BY <1>3 DEF Files
<1>5. PICK e \in Files : e = Empty BY <1>4
<1>6. NoPart = [up |-> FALSE, log |-> FALSE, data |-> e, got |-> {}, len |-> 0]
  BY <1>5 DEF NoPart
<1>7. NoPart \in PartRecords BY <1>6, GateSizes DEF PartRecords, Files
<1> QED BY <1>1, <1>4, <1>7

LEMMA PartMoves ==
  ASSUME FilesFine, NEW g, NEW p \in PartRecords, part' = [part EXCEPT ![g] = p],
         dest' = dest, plock' \in Nat
  PROVE  FilesFine'
BY DEF FilesFine

LEMMA AbortFiles == ASSUME FilesFine, NEW g, AbortWrite(g) PROVE FilesFine'
<1>1. PICK p \in PartRecords : p = NoPart BY NoPartTyped
<1>2. part' = [part EXCEPT ![g] = p] /\ dest' = dest /\ plock' = plock BY <1>1 DEF AbortWrite
<1> QED BY <1>2, PartMoves DEF FilesFine

LEMMA FinishFiles == ASSUME FilesFine, NEW g \in Gens, FinishMove(g) PROVE FilesFine'
<1>1. PICK p \in PartRecords : p = NoPart BY NoPartTyped
<1>2. part' = [part EXCEPT ![g] = p] /\ dest' = part[g].data /\ plock' = plock
  BY <1>1 DEF FinishMove
<1>3. part[g].data \in Files BY DEF FilesFine, PartRecords, Files
<1> QED BY <1>2, <1>3 DEF FilesFine

LEMMA WholeFiles == ASSUME NEW v \in Versions PROVE Whole(v) \in Files
BY DEF Whole, Files, Piece, ChunkOrHole, Chunk

--------------------------------------------------------------------------------
\* The steps of the copy.
LEMMA ReadySettled ==
  ASSUME GateInv, NEW g, Loads(g), obj.state = "ready", SpoolValid PROVE g \in Settled
<1>1. /\ obj.up /\ obj.gen = g /\ g \in Gens /\ g <= copy.att /\ obj.off = Size
      /\ (prep \in {"open", "save"} => g # copy.att)
  BY DEF GateInv, ObjFine, Loads
<1>2. Len(spool[g]) = Size BY <1>1 DEF SpoolValid
<1> QED BY <1>1, <1>2 DEF Settled

LEMMA CheckShows == ASSUME CopyInv, Check PROVE Shows
<1>1. FilesFine' /\ UNCHANGED <<up, down, mode, faults, prep>> /\ UNCHANGED gateVars
  BY FilesStay DEF Check, CopyInv
<1>2. CASE Goto("download") /\ copy.gen \in Settled BY <1>1, <1>2, CopyAlone
<1>3. CASE Unwind("failed") BY <1>1, <1>3, CopyAlone
<1>4. Goto("download") => copy.gen \in Settled \/ Unwind("failed")
  BY ReadySettled DEF Check, CopyInv
<1> QED BY <1>2, <1>3, <1>4 DEF Check

\* The steps of the copy that change no file.
LEMMA CopyShows ==
  ASSUME CopyInv,
         Uploaded \/ Downloaded \/ ConsumeIt \/ DeleteIt \/ UndoLost \/ SuspendIt \/ AbortIt
         \/ EraseIt \/ CallTimesOut \/ CancelLate \/ Replied \/ RpcFails
  PROVE  Shows
<1>1. /\ UNCHANGED fileVars /\ UNCHANGED <<up, down, mode, prep>>
      /\ faults' = faults \/ Fault
  BY DEF Uploaded, Downloaded, ConsumeIt, DeleteIt, UndoLost, SuspendIt, AbortIt, EraseIt,
         CallTimesOut, CancelLate, Replied, RpcFails
<1>2. FilesFine' BY <1>1, FilesStay DEF CopyInv
<1>3. \/ UNCHANGED gateVars
      \/ \E g : Suspend(g) \/ Abort(g) \/ Consume(g) \/ Delete(g)
  BY DEF Uploaded, Downloaded, ConsumeIt, DeleteIt, UndoLost, SuspendIt, AbortIt, EraseIt,
         CallTimesOut, CancelLate, Replied, RpcFails
<1>4. PICK x, v : (Goto(x) /\ x # "download") \/ Report(v) \/ Unwind(v)
  BY DEF Uploaded, Downloaded, ConsumeIt, DeleteIt, UndoLost, SuspendIt, AbortIt, EraseIt,
         CallTimesOut, CancelLate, Replied, RpcFails
<1>5. CASE Goto(x) /\ x # "download" BY <1>1, <1>2, <1>3, <1>5, CopyAlone
<1>6. CASE Report(v) \/ Unwind(v)
  <2>1. PICK y : y = "idle" OBVIOUS
  <2>2. y # "download" BY <2>1
  <2> QED BY <1>1, <1>2, <1>3, <1>6, <2>2, CopyAlone
<1> QED BY <1>4, <1>5, <1>6

\* The steps of the copy that may change a file, and leave the gateway and the clients.
LEMMA PublishShows ==
  ASSUME CopyInv, Undo \/ RpcFinish \/ SameWorkerCopy PROVE Shows
<1>1. /\ UNCHANGED gateVars /\ UNCHANGED <<up, down, mode, prep>> /\ faults' = faults
  BY DEF Undo, RpcFinish, SameWorkerCopy
<1>2. FilesFine'
  <2>1. CASE Undo
    <3>1. UNCHANGED fileVars \/ \E g : AbortWrite(g) BY <2>1 DEF Undo
    <3> QED BY <3>1, FilesStay, AbortFiles DEF CopyInv
  <2>2. CASE RpcFinish
    <3>1. copy.att \in Gens BY <2>2 DEF CopyInv, PromiseInv, CopyFine, RpcFinish
    <3>2. UNCHANGED fileVars \/ FinishMove(copy.att) BY <2>2 DEF RpcFinish, a0
    <3> QED BY <3>1, <3>2, FilesStay, FinishFiles DEF CopyInv
  <2>3. CASE SameWorkerCopy
    <3>1. dest' \in {dest, Whole(src)} /\ part' = part /\ plock' = plock /\ src \in Versions
      BY <2>3 DEF SameWorkerCopy, CopyInv, PromiseInv
    <3>2. PICK w \in Files : w = Whole(src) BY <3>1, WholeFiles
    <3> QED BY <3>1, <3>2 DEF FilesFine, CopyInv
  <2> QED BY <2>1, <2>2, <2>3
<1>3. PICK x, v : (Goto(x) /\ x # "download") \/ Report(v) \/ Unwind(v)
  <2>1. CASE Undo BY <2>1 DEF Undo
  <2>2. CASE RpcFinish BY <2>2 DEF RpcFinish
  <2>3. CASE SameWorkerCopy BY <2>3 DEF SameWorkerCopy
  <2> QED BY <2>1, <2>2, <2>3
<1>4. CASE Goto(x) /\ x # "download" BY <1>1, <1>2, <1>4, CopyAlone
<1>5. CASE Report(v) \/ Unwind(v)
  <2>1. PICK y : y = "idle" OBVIOUS
  <2>2. y # "download" BY <2>1
  <2> QED BY <1>1, <1>2, <1>5, <2>2, CopyAlone
<1> QED BY <1>3, <1>4, <1>5

LEMMA StartShows == ASSUME CopyInv, Start PROVE Shows
<1>1. GateInv /\ PromiseInv /\ copy.att \in GenOrNone BY DEF CopyInv, ClientInv, CopyTyped
<1>2. GateKeeps BY <1>1, StartGateKeeps
<1>3. UNCHANGED <<fileVars, mode, up, down, faults>> /\ prep' \in {"open", "none"}
      /\ copy.att + 1 \in Gens
  BY DEF Start
<1>4. PICK pc \in {"prepare", "rpcBegin", "same"} :
        copy' = [copy EXCEPT !.pc = pc, !.att = @ + 1, !.want = src, !.off = 0,
                             !.verdict = "running"]
  BY DEF Start
<1>5. DOMAIN copy = CopyFields BY DEF CopyInv, PromiseInv, CopyFine
<1>6. /\ copy'.att = copy.att + 1 /\ copy'.gen = copy.gen /\ copy'.off = 0
      /\ copy'.pc # "download"
  BY <1>4, <1>5 DEF CopyFields
<1>7. CopyTyped(copy', Settled)
  BY <1>3, <1>6, GateSizes DEF CopyTyped, GenOrNone, CopyInv, ClientInv
<1>8. ClientInv' BY <1>2, <1>3, <1>7, ClientsStay DEF CopyInv
<1>9. FilesFine' BY <1>3, FilesStay DEF CopyInv
<1>10. WorldInv' BY <1>3, WorldStays DEF CopyInv, Preps
<1> QED BY <1>2, <1>8, <1>9, <1>10 DEF Shows

LEMMA PrepareShows == ASSUME CopyInv, PrepOpen \/ PrepSave PROVE Shows
<1>1. GateKeeps BY PrepOpenKeeps, PrepSaveKeeps DEF CopyInv
<1>2. UNCHANGED <<fileVars, mode, copy, up, down, faults>> /\ prep' \in Preps
  BY DEF PrepOpen, PrepSave, Preps
<1>3. ClientInv' BY <1>1, <1>2, ClientsStay DEF CopyInv, ClientInv
<1>4. FilesFine' BY <1>2, FilesStay DEF CopyInv
<1>5. WorldInv' BY <1>2, WorldStays DEF CopyInv
<1> QED BY <1>1, <1>3, <1>4, <1>5 DEF Shows

\* The copy moves with its fields, its clients stay or move, the gateway is idle.
LEMMA IdleShows ==
  ASSUME CopyInv, UNCHANGED gateVars, UNCHANGED <<mode>>, prep' \in {prep, "none"},
         faults' = faults \/ Fault, FilesFine',
         copy'.att = copy.att, copy'.want = copy.want, CopyTyped(copy', Settled),
         GateKeeps => ClientInv'
  PROVE  Shows
<1>1. SameAttempt BY DEF SameAttempt
<1>2. GateKeeps BY <1>1, IdleKeeps DEF CopyInv, gateVars
<1>3. WorldInv' BY WorldStays DEF CopyInv, WorldInv, Preps
<1> QED BY <1>2, <1>3 DEF Shows

LEMMA PreparedShows == ASSUME CopyInv, Prepared PROVE Shows
<1>1. /\ UNCHANGED <<up, down, mode, faults>> /\ UNCHANGED gateVars /\ prep' = "none"
      /\ UNCHANGED fileVars
  BY DEF Prepared
<1>2. FilesFine' BY <1>1, FilesStay DEF CopyInv
<1>3. CASE Report("failed")
  <2>1. PICK x : x = "idle" OBVIOUS
  <2> QED BY <1>1, <1>2, <1>3, <2>1, CopyAlone
<1>4. CASE copy' = [copy EXCEPT !.pc = IF SrcRemote THEN "upload" ELSE "check", !.gen = obj.gen]
  <2>1. DOMAIN copy = CopyFields BY DEF CopyInv, PromiseInv, CopyFine
  <2>2. PICK pc \in {"upload", "check"} : copy' = [copy EXCEPT !.pc = pc, !.gen = obj.gen]
    BY <1>4
  <2>3. copy'.att = copy.att /\ copy'.want = copy.want /\ copy'.off = copy.off
        /\ copy'.gen = obj.gen /\ copy'.pc = pc
    BY <2>1, <2>2 DEF CopyFields
  <2>4. obj.gen \in GenOrNone BY GateKnown DEF CopyInv
  <2>5. CopyTyped(copy', Settled) BY <2>2, <2>3, <2>4 DEF CopyTyped, CopyInv, ClientInv
  <2>6. GateKeeps => ClientInv' BY <1>1, <2>5, ClientsStay DEF CopyInv
  <2> QED BY <1>1, <1>2, <2>3, <2>5, <2>6, IdleShows
<1> QED BY <1>3, <1>4 DEF Prepared

LEMMA MovedTyped ==
  ASSUME CopyInv, CopyGoes(copy'), copy'.pc # "download"
  PROVE  copy'.att = copy.att /\ copy'.want = copy.want /\ CopyTyped(copy', Settled)
BY DEF CopyGoes, CopyTyped, CopyInv, ClientInv

LEMMA CallUploadShows == ASSUME CopyInv, CallUpload PROVE Shows
<1>1. /\ UNCHANGED <<down, mode, faults, prep>> /\ UNCHANGED gateVars /\ UNCHANGED fileVars
      /\ Goto("uploading") /\ copy.att \in Gens
  BY DEF CallUpload, CopyInv, PromiseInv, CopyFine
<1>2. FilesFine' BY <1>1, FilesStay DEF CopyInv
<1>3. CopyGoes(copy') /\ copy'.pc # "download" BY <1>1, CopyMoved DEF CopyInv
<1>4. copy'.att = copy.att /\ copy'.want = copy.want /\ CopyTyped(copy', Settled)
  BY <1>3, MovedTyped
<1>5. PICK a \in Gens : a = copy.att BY <1>1
<1>6. PICK w : w = [NoUp EXCEPT !.pc = "open", !.gen = copy.gen, !.want = copy.want] OBVIOUS
<1>7. copy.gen \in GenOrNone BY DEF CopyInv, ClientInv, CopyTyped
<1>8. UploadFine(w) BY <1>6, <1>7, GateSizes DEF UploadFine, UpFields, NoUp
<1>9. up' = [up EXCEPT ![a] = w] BY <1>5, <1>6 DEF CallUpload, a0
<1>10. GateKeeps => ClientInv' BY <1>1, <1>4, <1>8, <1>9, UploadMoves DEF CopyInv
<1> QED BY <1>1, <1>2, <1>4, <1>10, IdleShows

LEMMA CallDownloadShows == ASSUME CopyInv, CallDownload PROVE Shows
<1>1. /\ UNCHANGED <<up, mode, faults, prep>> /\ UNCHANGED gateVars /\ UNCHANGED fileVars
      /\ Goto("downloading") /\ copy.att \in Gens /\ copy.gen \in Settled
  BY DEF CallDownload, CopyInv, PromiseInv, CopyFine, ClientInv, CopyTyped
<1>2. FilesFine' BY <1>1, FilesStay DEF CopyInv
<1>3. CopyGoes(copy') /\ copy'.pc # "download" BY <1>1, CopyMoved DEF CopyInv
<1>4. copy'.att = copy.att /\ copy'.want = copy.want /\ CopyTyped(copy', Settled)
  BY <1>3, MovedTyped
<1>5. PICK a \in Gens : a = copy.att BY <1>1
<1>6. PICK pc \in {"head", "begin"} : pc = IF DstRemote THEN "head" ELSE "begin" OBVIOUS
<1>7. PICK w : w = [NoDown EXCEPT !.pc = pc, !.gen = copy.gen, !.want = copy.want] OBVIOUS
<1>8. /\ w.off = 0 /\ w.c = Hole /\ w.pc = pc /\ w.gen = copy.gen BY <1>7 DEF NoDown
<1>9. DownloadFine(w, Settled) BY <1>1, <1>6, <1>8, GateSizes, NoPartTyped DEF DownloadFine
<1>10. down' = [down EXCEPT ![a] = w] BY <1>5, <1>6, <1>7 DEF CallDownload, a0
<1>11. GateKeeps => ClientInv' BY <1>1, <1>4, <1>9, <1>10, DownloadMoves DEF CopyInv
<1> QED BY <1>1, <1>2, <1>4, <1>11, IdleShows

LEMMA CancelShows == ASSUME CopyInv, Cancel PROVE Shows
<1>1. /\ UNCHANGED <<up, mode, prep>> /\ UNCHANGED gateVars /\ UNCHANGED fileVars /\ Fault
      /\ copy.att \in Gens
  BY DEF Cancel, Waits, CopyInv, PromiseInv, CopyFine
<1>2. FilesFine' BY <1>1, FilesStay DEF CopyInv
<1>3. PICK x : x = "idle" OBVIOUS
<1>4. CopyGoes(copy') /\ copy'.pc # "download"
  <2>1. Report("cancelled") \/ Unwind("cancelled")
        \/ copy' = [copy EXCEPT !.pc = "abort", !.then = "cancelled"]
    BY DEF Cancel
  <2> QED BY <1>3, <2>1, CopyMoved DEF CopyInv
<1>5. copy'.att = copy.att /\ copy'.want = copy.want /\ CopyTyped(copy', Settled)
  BY <1>4, MovedTyped
<1>6. PICK a \in Gens : a = copy.att BY <1>1
<1>7. down' = down \/ down' = [down EXCEPT ![a].driven = FALSE] BY <1>6 DEF Cancel, a0
<1>8. PICK w : w = [down[a] EXCEPT !.driven = FALSE] OBVIOUS
<1>9. DownFine(down[a], copy.verdict, dest) /\ DownloadFine(down[a], Settled)
  BY DEF CopyInv, PromiseInv, ClientInv
<1>10. /\ w.off = down[a].off /\ w.c = down[a].c /\ w.pc = down[a].pc /\ w.gen = down[a].gen
       /\ w.slot = down[a].slot
  BY <1>8, <1>9 DEF DownFine, DownFields
<1>11. DownloadFine(w, Settled) BY <1>9, <1>10 DEF DownloadFine
<1>12. down' = down \/ down' = [down EXCEPT ![a] = w] BY <1>7, <1>8
<1>13. GateKeeps => ClientInv'
  BY <1>1, <1>5, <1>11, <1>12, DownloadMoves, ClientsStay DEF CopyInv
<1> QED BY <1>1, <1>2, <1>5, <1>13, IdleShows

--------------------------------------------------------------------------------
\* What an operation leaves of a temporary file.
Writings(p, i, c, n) ==
  {[p EXCEPT !.data[i] = c], [p EXCEPT !.got = @ \cup {i}, !.len = n],
   [p EXCEPT !.data[i] = c, !.got = @ \cup {i}, !.len = n]}
LEMMA PartWritten ==
  ASSUME NEW p \in PartRecords, NEW i \in Chunks, NEW c \in ChunkOrHole, NEW n \in Offsets,
         NEW q \in Writings(p, i, c, n)
  PROVE  q \in PartRecords
<1>1. PICK d : d = [p.data EXCEPT ![i] = c] OBVIOUS
<1>2. d \in Files BY <1>1 DEF PartRecords, Files
<1>3. PICK got \in SUBSET Chunks : got = p.got \cup {i} BY DEF PartRecords
<1>4. q \in {[p EXCEPT !.data = d], [p EXCEPT !.got = got, !.len = n],
             [p EXCEPT !.data = d, !.got = got, !.len = n]}
  BY <1>1, <1>3 DEF Writings
<1> QED BY <1>2, <1>4 DEF PartRecords, Files

LEMMA PartBegun ==
  ASSUME NEW p \in PartRecords, NEW q,
         q \in {[p EXCEPT !.up = TRUE, !.data = Empty],
                [p EXCEPT !.log = TRUE, !.got = {}, !.len = 0],
                [NoPart EXCEPT !.up = TRUE, !.log = TRUE]}
  PROVE  q \in PartRecords
<1>1. PICK e \in Files : e = Empty BY NoPartTyped
<1>2. PICK z \in PartRecords : z = NoPart BY NoPartTyped
<1>3. PICK got \in SUBSET Chunks : got = {} OBVIOUS
<1>4. PICK n \in Offsets : n = 0
  <2>1. 0 \in Nat /\ 0 <= Size BY GateSizes
  <2> QED BY <2>1, GateSizes
<1>5. PICK t \in BOOLEAN : t = TRUE OBVIOUS
<1>6. q \in {[p EXCEPT !.up = t, !.data = e], [p EXCEPT !.log = t, !.got = got, !.len = n],
             [z EXCEPT !.up = t, !.log = t]}
  BY <1>1, <1>2, <1>3, <1>4, <1>5
<1> QED BY <1>6 DEF PartRecords, Files

LEMMA BeginFiles ==
  ASSUME FilesFine, NEW g \in Gens, NEW who \in Gens, BeginFile(g, who) \/ BeginLog(g)
  PROVE  FilesFine'
<1>1. part \in [Gens -> PartRecords] /\ part[g] \in PartRecords BY DEF FilesFine
<1>2. PICK q : q = part'[g] OBVIOUS
<1>3. q \in {[part[g] EXCEPT !.up = TRUE, !.data = Empty],
             [part[g] EXCEPT !.log = TRUE, !.got = {}, !.len = 0]}
  BY <1>1, <1>2 DEF BeginFile, BeginLog
<1>4. q \in PartRecords BY <1>1, <1>3, PartBegun
<1>5. part' = [part EXCEPT ![g] = q] BY <1>1, <1>2 DEF BeginFile, BeginLog
<1>6. dest' = dest /\ plock' \in Nat BY GensAssumption DEF BeginFile, BeginLog
<1> QED BY <1>4, <1>5, <1>6, PartMoves

LEMMA WriteFiles ==
  ASSUME FilesFine, NEW g \in Gens, NEW i \in Chunks, NEW c \in ChunkOrHole, NEW who \in Gens,
         WriteFile(g, i, c, who) \/ WriteLog(g, i)
  PROVE  FilesFine'
<1>1. part \in [Gens -> PartRecords] /\ part[g] \in PartRecords /\ part[g].data \in Files
  BY DEF FilesFine, PartRecords, Files
<1>2. PICK q : q = part'[g] OBVIOUS
<1>3. PICK n \in Offsets : n = FileLen(part[g].data) BY <1>1, FileLenTyped
<1>4. q \in Writings(part[g], i, c, n) BY <1>1, <1>2, <1>3 DEF WriteFile, WriteLog, Writings
<1>5. q \in PartRecords BY <1>1, <1>4, PartWritten
<1>6. part' = [part EXCEPT ![g] = q] BY <1>1, <1>2 DEF WriteFile, WriteLog
<1>7. dest' = dest /\ plock' \in Nat BY GensAssumption DEF WriteFile, WriteLog
<1> QED BY <1>5, <1>6, <1>7, PartMoves

LEMMA RpcBeginShows == ASSUME CopyInv, RpcBegin \/ RpcBeginFails PROVE Shows
<1>1. /\ UNCHANGED <<up, down, mode, prep>> /\ UNCHANGED gateVars
      /\ faults' = faults \/ Fault
      /\ copy.att \in Gens /\ FilesFine /\ dest' = dest /\ plock' = plock
  BY DEF RpcBegin, RpcBeginFails, CopyInv, PromiseInv, CopyFine
<1>2. FilesFine'
  <2>1. PICK q : q = [NoPart EXCEPT !.up = TRUE, !.log = TRUE] OBVIOUS
  <2>2. PICK p \in PartRecords : p = NoPart BY NoPartTyped
  <2>3. q \in PartRecords BY <2>1, PartBegun, NoPartTyped
  <2>4. part' = part \/ part' = [part EXCEPT ![copy.att] = q]
    BY <2>1 DEF RpcBegin, RpcBeginFails, a0
  <2>5. plock' \in Nat BY <1>1 DEF FilesFine
  <2> QED BY <1>1, <2>3, <2>4, <2>5, PartMoves DEF FilesFine
<1>3. CASE Report("failed")
  <2>1. PICK x : x = "idle" OBVIOUS
  <2>2. x # "download" BY <2>1
  <2> QED BY <1>1, <1>2, <1>3, <2>2, CopyAlone
<1>4. CASE copy' = [copy EXCEPT !.pc = "rpcCopy", !.gen = a0]
  <2>1. DOMAIN copy = CopyFields BY DEF CopyInv, PromiseInv, CopyFine
  <2>2. copy'.att = copy.att /\ copy'.want = copy.want /\ copy'.off = copy.off
        /\ copy'.gen = copy.att /\ copy'.pc = "rpcCopy"
    BY <1>4, <2>1 DEF CopyFields, a0
  <2>3. CopyTyped(copy', Settled) BY <1>1, <2>2 DEF CopyTyped, CopyInv, ClientInv
  <2>4. GateKeeps => ClientInv' BY <1>1, <2>3, ClientsStay DEF CopyInv
  <2> QED BY <1>1, <1>2, <2>2, <2>3, <2>4, IdleShows
<1> QED BY <1>3, <1>4 DEF RpcBegin, RpcBeginFails

LEMMA RpcChunkShows == ASSUME CopyInv, RpcChunk PROVE Shows
<1>1. /\ UNCHANGED <<up, down, mode, prep, faults>> /\ UNCHANGED gateVars
      /\ copy.att \in Gens /\ FilesFine /\ dest' = dest /\ plock' = plock
      /\ copy.off \in Offsets /\ copy.off < Size /\ src \in Versions
  BY DEF RpcChunk, CopyInv, PromiseInv, CopyFine, ClientInv, CopyTyped
<1>2. PICK i : i = copy.off + 1 OBVIOUS
<1>3. i \in Chunks /\ i \in Offsets
  <2>1. copy.off \in Nat BY <1>1, GateSizes
  <2>2. i \in 1..Size BY <1>1, <1>2, <2>1, GateSizes
  <2> QED BY <2>2, GateSizes DEF Chunks
<1>4. CASE Unwind("failed") /\ UNCHANGED part
  <2>1. PICK x : x = "idle" OBVIOUS
  <2>2. x # "download" BY <2>1
  <2>3. FilesFine' BY <1>1, <1>4 DEF FilesFine
  <2> QED BY <1>1, <1>4, <2>2, <2>3, CopyAlone
<1>5. CASE /\ part' = [part EXCEPT ![a0].data[i] = Piece(i, src),
                                   ![a0].got = @ \cup {i}, ![a0].len = i]
           /\ copy' = [copy EXCEPT !.off = i]
  <2>1. PICK g \in Gens : g = copy.att BY <1>1
  <2>2. part \in [Gens -> PartRecords] /\ part[g] \in PartRecords BY <1>1 DEF FilesFine
  <2>3. PICK c \in ChunkOrHole : c = Piece(i, src) BY <1>1, <1>3 DEF ChunkOrHole, Chunk, Piece
  <2>4. PICK q : q = [part[g] EXCEPT !.data[i] = c, !.got = @ \cup {i}, !.len = i] OBVIOUS
  <2>5. q \in PartRecords
    <3>1. q \in Writings(part[g], i, c, i) BY <2>4 DEF Writings
    <3> QED BY <1>3, <2>2, <3>1, PartWritten
  <2>6. part' = [part EXCEPT ![g] = q] BY <1>5, <2>1, <2>2, <2>3, <2>4 DEF a0
  <2>7. plock' \in Nat BY <1>1 DEF FilesFine
  <2>8. FilesFine' BY <1>1, <2>5, <2>6, <2>7, PartMoves
  <2>9. DOMAIN copy = CopyFields BY DEF CopyInv, PromiseInv, CopyFine
  <2>10. copy'.att = copy.att /\ copy'.want = copy.want /\ copy'.off = i
        /\ copy'.gen = copy.gen /\ copy'.pc = copy.pc
    BY <1>5, <2>9 DEF CopyFields
  <2>11. CopyTyped(copy', Settled) BY <1>3, <2>10 DEF CopyTyped, CopyInv, ClientInv
  <2>12. GateKeeps => ClientInv' BY <1>1, <2>11, ClientsStay DEF CopyInv
  <2> QED BY <1>1, <2>8, <2>10, <2>11, <2>12, IdleShows
<1> QED BY <1>2, <1>4, <1>5 DEF RpcChunk

LEMMA CopyStepShows == ASSUME CopyInv, CopyStep PROVE Shows
BY PrepareShows, PreparedShows, CallUploadShows, CheckShows, CallDownloadShows, CopyShows,
   PublishShows, RpcBeginShows, RpcChunkShows DEF CopyStep

--------------------------------------------------------------------------------
\* The requests of the clients.
LEMMA SendKeeps ==
  ASSUME GateInv, SameAttempt, UNCHANGED <<obj, spools, spool, glock>>, NEW n \in Reqs,
         NEW kind \in ReqKinds, NEW a \in Gens, NEW g \in GenOrNone, NEW i \in Chunks,
         NEW c \in ChunkOrHole, kind = "put" => c \in Chunk /\ c[1] = i, Send(n, kind, a, g, i, c)
  PROVE  GateKeeps
<1>1. PICK pc \in ReqPlaces : pc = "auth" BY DEF ReqPlaces
<1>2. PICK r : r = [pc |-> pc, kind |-> kind, att |-> a, gen |-> g, i |-> i, c |-> c,
                    gone |-> FALSE]
  OBVIOUS
<1>3. i \in Offsets /\ a \in GenOrNone BY GateSizes DEF GenOrNone
<1>4. r \in ReqRecords /\ r.pc = pc /\ r.kind = kind /\ r.i = i /\ r.c = c
  BY <1>2, <1>3 DEF ReqRecords
<1>5. ReqFine(r, Settled) BY <1>1, <1>4 DEF ReqFine
<1>6. r.pc # "append" BY <1>1, <1>4
<1>7. req' = [req EXCEPT ![n] = r] BY <1>1, <1>2 DEF Send
<1>8. obj' \in ObjRecords BY DEF GateInv, GateTypes
<1> QED BY <1>4, <1>5, <1>6, <1>7, <1>8, RequestStep

LEMMA TakeKeeps ==
  ASSUME GateInv, SameAttempt, UNCHANGED <<obj, spools, spool, glock>>, NEW n \in Reqs,
         Take(n) \/ Leave(n)
  PROVE  GateKeeps
<1>1. req \in [Reqs -> ReqRecords] /\ obj' \in ObjRecords /\ glock \in Reqs \cup {0, 100}
  BY DEF GateInv, GateTypes
<1>2. PICK r \in {FreeReq, [req[n] EXCEPT !.gone = TRUE]} : req' = [req EXCEPT ![n] = r]
  BY DEF Take, Leave
<1>3. req' = [m \in Reqs |-> req'[m]] BY <1>1, <1>2
<1>4. \A m \in Reqs : req'[m] \in {FreeReq, req[m], [req[m] EXCEPT !.gone = TRUE],
                                   [req[m] EXCEPT !.pc = "lost"]}
  BY <1>1, <1>2
<1> QED BY <1>1, <1>3, <1>4, ReqsLeave

\* A client has moved; so has the gateway.
LEMMA UploadShows ==
  ASSUME CopyInv, UNCHANGED fileVars, UNCHANGED <<mode, copy, prep, down>>,
         faults' = faults \/ Fault, GateKeeps, NEW a \in Gens, NEW w,
         up' = [up EXCEPT ![a] = w], UploadFine(w)
  PROVE  Shows
<1>1. CopyTyped(copy', Settled) BY DEF CopyInv, ClientInv
<1>2. ClientInv' BY <1>1, UploadMoves DEF CopyInv
<1>3. FilesFine' BY FilesStay DEF CopyInv
<1>4. WorldInv' BY WorldStays DEF CopyInv, WorldInv
<1> QED BY <1>2, <1>3, <1>4 DEF Shows

LEMMA DownloadShows ==
  ASSUME CopyInv, FilesFine', UNCHANGED <<mode, copy, prep, up>>,
         faults' = faults \/ Fault, GateKeeps, NEW a \in Gens, NEW w,
         down' = [down EXCEPT ![a] = w], DownloadFine(w, Settled)
  PROVE  Shows
<1>1. CopyTyped(copy', Settled) BY DEF CopyInv, ClientInv
<1>2. ClientInv' BY <1>1, DownloadMoves DEF CopyInv
<1>3. WorldInv' BY WorldStays DEF CopyInv, WorldInv
<1> QED BY <1>2, <1>3 DEF Shows

LEMMA AskKeeps ==
  ASSUME CopyInv, SameAttempt, UNCHANGED <<spools, spool, glock, req>>,
         obj' = obj \/ obj' = [obj EXCEPT !.expired = FALSE]
  PROVE  GateKeeps
<1>1. PICK e \in BOOLEAN : e = FALSE OBVIOUS
<1>2. obj' \in {obj, [obj EXCEPT !.expired = e]} BY <1>1
<1> QED BY <1>2, ExpiryKeeps DEF CopyInv

LEMMA NextChunk ==
  ASSUME NEW o \in Offsets, o # Size PROVE o + 1 \in Chunks /\ o + 1 \in Offsets
<1>1. o \in Nat /\ o <= Size BY GateSizes
<1>2. o + 1 \in 1..Size BY <1>1, GateSizes
<1> QED BY <1>2, GateSizes DEF Chunks

LEMMA UpStepShows == ASSUME CopyInv, NEW a \in Gens, UpStep(a) PROVE Shows
<1>1. UNCHANGED fileVars /\ UNCHANGED <<mode, copy, prep, down>>
      /\ UNCHANGED <<spools, spool, glock>> /\ (faults' = faults \/ Fault)
  BY DEF UpStep, UpOpen, UpSend, UpReply, UpTransport, UpAsk, UpFinal, gateVars
<1>2. SameAttempt BY <1>1 DEF SameAttempt
<1>3. GateInv /\ UploadFine(up[a]) /\ src \in Versions /\ obj.off \in Offsets
  BY DEF CopyInv, ClientInv, PromiseInv, GateInv, GateTypes, ObjRecords
<1>4. 0 \in Offsets BY GateSizes
<1>5. CASE UpOpen(a) \/ UpAsk(a)
  <2>1. PICK pc, o : /\ up' = [up EXCEPT ![a].pc = pc, ![a].off = o] /\ pc # "wait"
                     /\ o \in {0, obj.off, up[a].off}
    BY <1>5 DEF UpOpen, UpAsk
  <2>2. PICK w : w = [up[a] EXCEPT !.pc = pc, !.off = o] OBVIOUS
  <2>3. up' = [up EXCEPT ![a] = w] BY <2>1, <2>2 DEF CopyInv, ClientInv
  <2>4. UploadFine(w) BY <1>3, <1>4, <2>1, <2>2 DEF UploadFine, UpFields
  <2>5. UNCHANGED req /\ (obj' = obj \/ obj' = [obj EXCEPT !.expired = FALSE])
    BY <1>5 DEF UpOpen, UpAsk
  <2>6. GateKeeps BY <1>1, <1>2, <2>5, AskKeeps
  <2> QED BY <1>1, <2>3, <2>4, <2>6, UploadShows
<1>6. CASE UpSend(a)
  <2>1. PICK n \in Reqs : /\ Send(n, "put", a, up[a].gen, up[a].off + 1, Piece(up[a].off + 1, src))
                          /\ up' = [up EXCEPT ![a].pc = "wait", ![a].slot = n]
    BY <1>6 DEF UpSend
  <2>2. up[a].off \in Offsets /\ up[a].off # Size /\ up[a].gen \in GenOrNone
    BY <1>3, <1>6, GateSizes DEF UpSend, UploadFine
  <2>3. PICK i \in Chunks : i = up[a].off + 1 BY <2>2, NextChunk
  <2>4. PICK c \in ChunkOrHole : c = Piece(i, src) BY <1>3 DEF ChunkOrHole, Chunk, Piece
  <2>5. c \in Chunk /\ c[1] = i BY <1>3, <2>4 DEF Chunk, Piece
  <2>6. PICK kind \in ReqKinds : kind = "put" BY DEF ReqKinds
  <2>7. Send(n, kind, a, up[a].gen, i, c) BY <2>1, <2>3, <2>4, <2>6
  <2>8. UNCHANGED <<obj>> BY <1>6 DEF UpSend
  <2>9. GateKeeps BY <1>1, <1>2, <1>3, <2>2, <2>5, <2>7, <2>8, SendKeeps
  <2>10. PICK w : w = [up[a] EXCEPT !.pc = "wait", !.slot = n] OBVIOUS
  <2>11. up' = [up EXCEPT ![a] = w] BY <2>1, <2>10 DEF CopyInv, ClientInv
  <2>12. UploadFine(w) BY <1>3, <2>10 DEF UploadFine, UpFields
  <2> QED BY <1>1, <2>9, <2>11, <2>12, UploadShows
<1>7. CASE UpReply(a) \/ UpTransport(a)
  <2>1. PICK n \in Reqs : n = up[a].slot BY <1>3, <1>7 DEF UpReply, UpTransport, UploadFine
  <2>2. Take(n) \/ Leave(n) BY <1>7, <2>1 DEF UpReply, UpTransport
  <2>3. UNCHANGED <<obj>> BY <1>7 DEF UpReply, UpTransport
  <2>4. GateKeeps BY <1>1, <1>2, <1>3, <2>2, <2>3, TakeKeeps
  <2>5. req[n].i \in Offsets BY DEF CopyInv, GateInv, GateTypes, ReqRecords
  <2>6. PICK w : w = up'[a] OBVIOUS
  <2>7. up' = [up EXCEPT ![a] = w]
    BY <1>7, <2>6 DEF UpReply, UpTransport, CopyInv, ClientInv
  <2>8. DOMAIN up = Gens /\ DOMAIN up[a] = UpFields
    BY <1>3 DEF CopyInv, ClientInv, UploadFine
  <2>9. /\ DOMAIN w = UpFields /\ w.pc # "wait" /\ w.gen = up[a].gen
        /\ w.off \in {up[a].off, req[n].i}
    <3>1. CASE UpReply(a) BY <2>1, <2>6, <2>8, <3>1 DEF UpReply, UpFields
    <3>2. CASE UpTransport(a) BY <2>6, <2>8, <3>2 DEF UpTransport, UpFields
    <3> QED BY <1>7, <3>1, <3>2
  <2>10. UploadFine(w) BY <1>3, <2>5, <2>9 DEF UploadFine
  <2> QED BY <1>1, <2>4, <2>7, <2>10, UploadShows
<1>8. CASE UpFinal(a)
  <2>1. PICK pc \in {"ok", "bad"} : up' = [up EXCEPT ![a].pc = pc] BY <1>8 DEF UpFinal
  <2>2. PICK w : w = [up[a] EXCEPT !.pc = pc] OBVIOUS
  <2>3. up' = [up EXCEPT ![a] = w] BY <2>1, <2>2 DEF CopyInv, ClientInv
  <2>4. UploadFine(w) BY <1>3, <2>1, <2>2 DEF UploadFine, UpFields
  <2>5. UNCHANGED <<obj, spools, spool, glock, req>> BY <1>8 DEF UpFinal, gateVars
  <2>6. GateKeeps BY <1>2, <1>3, <2>5, IdleKeeps
  <2> QED BY <1>1, <2>3, <2>4, <2>6, UploadShows
<1> QED BY <1>5, <1>6, <1>7, <1>8 DEF UpStep

LEMMA PrefixSize == ASSUME NEW k \in 0..Size PROVE Cardinality(1..k) \in Offsets
<1>1. k \in Nat /\ k <= Size BY GateSizes
<1>2. Cardinality(1..k) = k BY <1>1, FS_Interval
<1> QED BY <1>1, <1>2, GateSizes

\* The fields of a download client that a step leaves or changes.
LEMMA DownloadKept ==
  ASSUME CopyInv, NEW a \in Gens
  PROVE  /\ DOMAIN down = Gens /\ DOMAIN down[a] = DownFields
         /\ DownloadFine(down[a], Settled)
         /\ down[a].pc # "none" => down[a].gen \in Settled /\ down[a].gen \in Gens
BY DEF CopyInv, PromiseInv, DownFine, ClientInv, DownloadFine, Settled

LEMMA SpooledChunk ==
  ASSUME GateInv, NEW g \in Settled, NEW i \in Chunks PROVE spool[g][i] \in ChunkOrHole
<1>1. g \in Gens /\ Len(spool[g]) = Size BY DEF Settled
<1>2. spool[g] \in Seq(Chunk) BY <1>1, GateKnown
<1>3. spool[g][i] \in Chunk BY <1>1, <1>2 DEF Chunks
<1> QED BY <1>3 DEF ChunkOrHole

\* The steps on the gateway.
LEMMA DownGateShows ==
  ASSUME CopyInv, NEW a \in Gens,
         DownHead(a) \/ DownGet(a) \/ DownReply(a) \/ DownTransport(a)
  PROVE  Shows
<1>1. UNCHANGED fileVars /\ UNCHANGED <<mode, copy, prep, up>>
      /\ UNCHANGED <<spools, spool, glock>> /\ (faults' = faults \/ Fault)
  BY DEF DownHead, DownGet, DownReply, DownTransport
<1>2. SameAttempt BY <1>1 DEF SameAttempt
<1>3. FilesFine' /\ GateInv BY <1>1, FilesStay DEF CopyInv
<1>4. /\ DOMAIN down = Gens /\ DOMAIN down[a] = DownFields /\ DownloadFine(down[a], Settled)
      /\ down[a].pc # "none" => down[a].gen \in Settled /\ down[a].gen \in Gens
  BY DownloadKept
<1>5. PICK w : w = down'[a] OBVIOUS
<1>6. CASE DownHead(a)
  <2>1. UNCHANGED req /\ (obj' = obj \/ obj' = [obj EXCEPT !.expired = FALSE])
    BY <1>6 DEF DownHead
  <2>2. GateKeeps BY <1>1, <1>2, <2>1, AskKeeps
  <2>3. PICK pc \in {"begin", "bad"} : down' = [down EXCEPT ![a].pc = pc] BY <1>6 DEF DownHead
  <2>4. down' = [down EXCEPT ![a] = w] BY <1>4, <1>5, <2>3
  <2>5. /\ w.pc = pc /\ w.off = down[a].off /\ w.c = down[a].c /\ w.gen = down[a].gen
    BY <1>4, <1>5, <2>3 DEF DownFields
  <2>6. down[a].pc = "head" BY <1>6 DEF DownHead
  <2>7. DownloadFine(w, Settled) BY <1>4, <2>3, <2>5, <2>6 DEF DownloadFine
  <2> QED BY <1>1, <1>3, <2>2, <2>4, <2>7, DownloadShows
<1>7. CASE DownGet(a)
  <2>1. down[a].pc = "next" /\ down[a].off \in Offsets /\ down[a].off # Size
        /\ down[a].gen \in Settled /\ down[a].gen \in Gens /\ obj' = obj
    BY <1>4, <1>7, GateSizes DEF DownGet, DownloadFine
  <2>2. PICK i \in Chunks : i = down[a].off + 1 BY <2>1, NextChunk
  <2>3. CASE DstRemote
    <3>1. PICK n \in Reqs : /\ Send(n, "get", a, down[a].gen, down[a].off + 1, Hole)
                            /\ down' = [down EXCEPT ![a].pc = "wait", ![a].slot = n]
      BY <1>7, <2>3 DEF DownGet
    <3>2. PICK kind \in ReqKinds, c \in ChunkOrHole : kind = "get" /\ c = Hole
      BY DEF ReqKinds, ChunkOrHole
    <3>3. Send(n, kind, a, down[a].gen, i, c) BY <2>2, <3>1, <3>2
    <3>4. PICK g \in GenOrNone : g = down[a].gen BY <2>1 DEF GenOrNone
    <3>5. Send(n, kind, a, g, i, c) /\ kind # "put" BY <3>2, <3>3, <3>4
    <3>6. GateKeeps BY <1>1, <1>2, <1>3, <2>1, <3>5, SendKeeps
    <3>7. down' = [down EXCEPT ![a] = w] BY <1>4, <1>5, <3>1
    <3>8. /\ w.pc = "wait" /\ w.slot = n /\ w.off = down[a].off /\ w.c = down[a].c
          /\ w.gen = down[a].gen
      BY <1>4, <1>5, <3>1 DEF DownFields
    <3>9. DownloadFine(w, Settled) BY <1>4, <2>1, <3>8 DEF DownloadFine
    <3> QED BY <1>1, <1>3, <3>6, <3>7, <3>9, DownloadShows
  <2>4. CASE ~DstRemote
    <3>1. UNCHANGED req /\ down' = [down EXCEPT ![a].pc = "write",
                                             ![a].c = spool[down[a].gen][down[a].off + 1]]
      BY <1>7, <2>4 DEF DownGet
    <3>2. PICK c \in ChunkOrHole : c = spool[down[a].gen][down[a].off + 1]
      BY <1>3, <2>1, <2>2, SpooledChunk
    <3>3. GateKeeps BY <1>1, <1>2, <1>3, <2>1, <3>1, IdleKeeps
    <3>4. down' = [down EXCEPT ![a] = w] BY <1>4, <1>5, <3>1
    <3>5. w.pc = "write" /\ w.off = down[a].off /\ w.c = c /\ w.gen = down[a].gen
      BY <1>4, <1>5, <3>1, <3>2 DEF DownFields
    <3>6. DownloadFine(w, Settled) BY <1>4, <2>1, <3>5 DEF DownloadFine
    <3> QED BY <1>1, <1>3, <3>3, <3>4, <3>6, DownloadShows
  <2> QED BY <2>3, <2>4
<1>8. CASE DownReply(a) \/ DownTransport(a)
  <2>1. PICK n \in Reqs : n = down[a].slot
    BY <1>4, <1>8 DEF DownReply, DownTransport, DownloadFine
  <2>2. Take(n) \/ Leave(n) BY <1>8, <2>1 DEF DownReply, DownTransport
  <2>3. UNCHANGED <<obj>> /\ down[a].pc = "wait" BY <1>8 DEF DownReply, DownTransport
  <2>4. GateKeeps BY <1>1, <1>2, <1>3, <2>2, <2>3, TakeKeeps
  <2>5. req[n].c \in ChunkOrHole BY <1>3 DEF GateInv, GateTypes, ReqRecords
  <2>6. down' = [down EXCEPT ![a] = w]
    BY <1>4, <1>5, <1>8 DEF DownReply, DownTransport
  <2>7. /\ w.pc # "wait" /\ w.gen = down[a].gen /\ w.off = down[a].off
        /\ w.c \in {down[a].c, req[n].c}
    <3>1. CASE DownReply(a) BY <1>4, <1>5, <2>1, <3>1 DEF DownReply, DownFields
    <3>2. CASE DownTransport(a) BY <1>4, <1>5, <3>2 DEF DownTransport, DownFields
    <3> QED BY <1>8, <3>1, <3>2
  <2>8. DownloadFine(w, Settled) BY <1>4, <2>3, <2>5, <2>7 DEF DownloadFine
  <2> QED BY <1>1, <1>3, <2>4, <2>6, <2>8, DownloadShows
<1> QED BY <1>6, <1>7, <1>8

\* The steps on the file.
LEMMA DownFileShows ==
  ASSUME CopyInv, NEW a \in Gens,
         DownBegin(a) \/ DownBeginLog(a) \/ DownWrite(a) \/ DownWriteLog(a) \/ DownFinish(a)
  PROVE  Shows
<1>1. UNCHANGED gateVars /\ UNCHANGED <<mode, copy, prep, up>> /\ faults' = faults
  BY DEF DownBegin, DownBeginLog, DownWrite, DownWriteLog, DownFinish
<1>2. SameAttempt BY <1>1 DEF SameAttempt
<1>3. GateKeeps /\ FilesFine BY <1>1, <1>2, IdleKeeps DEF CopyInv, gateVars
<1>4. /\ DOMAIN down = Gens /\ DOMAIN down[a] = DownFields /\ DownloadFine(down[a], Settled)
      /\ down[a].gen \in Settled
  BY DownloadKept DEF DownBegin, DownBeginLog, DownWrite, DownWriteLog, DownFinish
<1>5. PICK g \in Gens : g = down[a].gen BY <1>4 DEF Settled
<1>6. PICK w : w = down'[a] OBVIOUS
<1>7. down[a].off \in Offsets /\ down[a].c \in ChunkOrHole BY <1>4 DEF DownloadFine
<1>8. CASE DownBegin(a)
  <2>1. UNCHANGED fileVars \/ BeginFile(g, a) BY <1>5, <1>8 DEF DownBegin
  <2>2. FilesFine' BY <1>3, <2>1, BeginFiles, FilesStay
  <2>3. down' = [down EXCEPT ![a] = w] BY <1>4, <1>6, <1>8 DEF DownBegin
  <2>4. /\ w.pc \notin {"wait", "write", "writeLog"} /\ w.gen = down[a].gen /\ w.c = down[a].c
        /\ w.off = down[a].off
           \/ (BeginResumes(g, mode.overwrite) /\ w.off = Cardinality(part[g].got))
    BY <1>4, <1>5, <1>6, <1>8 DEF DownBegin, Onward, DownFields
  <2>5. w.off \in Offsets
    <3>1. BeginResumes(g, mode.overwrite) => Cardinality(part[g].got) \in Offsets
      BY PrefixSize DEF BeginResumes
    <3> QED BY <1>7, <2>4, <3>1
  <2>6. DownloadFine(w, Settled) BY <1>4, <1>7, <2>4, <2>5 DEF DownloadFine
  <2> QED BY <1>1, <1>3, <2>2, <2>3, <2>6, DownloadShows
<1>9. CASE DownBeginLog(a) \/ DownFinish(a)
  <2>1. UNCHANGED fileVars \/ BeginLog(g) \/ FinishMove(g)
    BY <1>5, <1>9 DEF DownBeginLog, DownFinish
  <2>2. FilesFine' BY <1>3, <2>1, BeginFiles, FinishFiles, FilesStay
  <2>3. down' = [down EXCEPT ![a] = w] BY <1>4, <1>6, <1>9 DEF DownBeginLog, DownFinish
  <2>4. /\ w.pc \notin {"wait", "write", "writeLog"} /\ w.gen = down[a].gen /\ w.c = down[a].c
        /\ w.off = down[a].off
    BY <1>4, <1>6, <1>9 DEF DownBeginLog, DownFinish, Onward, DownFields
  <2>5. DownloadFine(w, Settled) BY <1>4, <1>7, <2>4 DEF DownloadFine
  <2> QED BY <1>1, <1>3, <2>2, <2>3, <2>5, DownloadShows
<1>10. CASE DownWrite(a) \/ DownWriteLog(a)
  <2>1. down[a].off # Size BY <1>4, <1>10 DEF DownWrite, DownWriteLog, DownloadFine
  <2>2. PICK i \in Chunks : i = down[a].off + 1 /\ i \in Offsets BY <1>7, <2>1, NextChunk
  <2>3. UNCHANGED fileVars \/ WriteFile(g, i, down[a].c, a) \/ WriteLog(g, i)
    BY <1>5, <1>10, <2>2 DEF DownWrite, DownWriteLog
  <2>4. FilesFine' BY <1>3, <1>7, <2>3, WriteFiles, FilesStay
  <2>5. down' = [down EXCEPT ![a] = w] BY <1>4, <1>6, <1>10 DEF DownWrite, DownWriteLog
  <2>6. /\ w.gen = down[a].gen /\ w.c = down[a].c
        /\ \/ w.off = down[a].off /\ w.pc \notin {"wait", "write"}
           \/ w.off = i /\ w.pc \notin {"wait", "write", "writeLog"}
    <3>1. CASE DownWrite(a) BY <1>4, <1>6, <3>1 DEF DownWrite, Onward, DownFields
    <3>2. CASE DownWriteLog(a) BY <1>4, <1>6, <2>2, <3>2 DEF DownWriteLog, Onward, DownFields
    <3> QED BY <1>10, <3>1, <3>2
  <2>7. DownloadFine(w, Settled) BY <1>4, <1>7, <2>1, <2>2, <2>6 DEF DownloadFine
  <2> QED BY <1>1, <1>3, <2>4, <2>5, <2>7, DownloadShows
<1> QED BY <1>8, <1>9, <1>10

LEMMA ClientStepShows == ASSUME CopyInv, ClientStep PROVE Shows
BY UpStepShows, DownGateShows, DownFileShows DEF ClientStep, DownStep

--------------------------------------------------------------------------------
\* What happens around the copy.
LEMMA Untouched ==
  ASSUME CopyInv, UNCHANGED fileVars, UNCHANGED <<mode, copy, up, down>>,
         prep' \in {prep, "refused"}, (faults' = faults \/ Fault), GateKeeps
  PROVE  Shows
<1>1. CopyTyped(copy', Settled) BY DEF CopyInv, ClientInv
<1>2. ClientInv' BY <1>1, ClientsStay DEF CopyInv
<1>3. FilesFine' BY FilesStay DEF CopyInv
<1>4. WorldInv' BY WorldStays DEF CopyInv, WorldInv, Preps
<1> QED BY <1>2, <1>3, <1>4 DEF Shows

LEMMA GateProgressShows == ASSUME CopyInv, GateProgress PROVE Shows
<1>1. PICK n \in Reqs : GateStep(n) /\ UNCHANGED <<fileVars, copyVars>> BY DEF GateProgress
<1>2. UNCHANGED <<mode, copy, prep, up, down, faults>> BY <1>1 DEF copyVars
<1>3. SameAttempt BY <1>2 DEF SameAttempt
<1>4. GateKeeps BY <1>1, <1>3, GateStepKeeps DEF CopyInv
<1> QED BY <1>1, <1>2, <1>4, Untouched

LEMMA AroundShows ==
  ASSUME CopyInv, SourceChanges \/ GrantExpires \/ OthersClean \/ UNCHANGED vars PROVE Shows
<1>1. /\ UNCHANGED fileVars /\ UNCHANGED <<mode, copy, prep, up, down>>
      /\ (faults' = faults \/ Fault)
  BY DEF SourceChanges, GrantExpires, OthersClean, vars, copyVars
<1>2. SameAttempt BY <1>1 DEF SameAttempt
<1>3. CASE SourceChanges \/ UNCHANGED vars
  <2>1. UNCHANGED <<obj, spools, spool, glock, req>>
    BY <1>3 DEF SourceChanges, vars, gateVars
  <2>2. GateKeeps BY <1>2, <2>1, IdleKeeps DEF CopyInv
  <2> QED BY <1>1, <2>2, Untouched
<1>4. CASE GrantExpires
  <2>1. PICK e \in BOOLEAN : e = TRUE OBVIOUS
  <2>2. obj' \in {obj, [obj EXCEPT !.expired = e]} /\ UNCHANGED <<spools, spool, glock, req>>
    BY <1>4, <2>1 DEF GrantExpires, Expire
  <2>3. GateKeeps BY <1>2, <2>2, ExpiryKeeps DEF CopyInv
  <2> QED BY <1>1, <2>3, Untouched
<1>5. CASE OthersClean
  <2>1. GateKeeps BY <1>2, <1>5, CleanupKeeps DEF OthersClean, CopyInv
  <2> QED BY <1>1, <2>1, Untouched
<1> QED BY <1>3, <1>4, <1>5

LEMMA OtherWritesShows == ASSUME CopyInv, OtherWrites PROVE Shows
<1>1. /\ UNCHANGED <<part, plock, mode, copy, prep, up, down>> /\ UNCHANGED gateVars
      /\ dest' = Other /\ Fault
  BY DEF OtherWrites
<1>2. FilesFine' BY <1>1 DEF CopyInv, FilesFine
<1>3. CopyTyped(copy', Settled) BY <1>1 DEF CopyInv, ClientInv
<1>4. GateKeeps => ClientInv' BY <1>1, <1>3, ClientsStay DEF CopyInv
<1> QED BY <1>1, <1>2, <1>3, <1>4, IdleShows

LEMMA ServerFaultShows == ASSUME CopyInv, ServerFault PROVE Shows
<1>1. UNCHANGED fileVars /\ UNCHANGED <<mode, copy, up, down>> /\ Fault
  BY DEF ServerFault
<1>2. CASE \E n \in Reqs : GateFault(n) /\ UNCHANGED prep
  <2>1. SameAttempt BY <1>1, <1>2 DEF SameAttempt
  <2>2. GateKeeps BY <1>2, <2>1, GateStepKeeps DEF CopyInv
  <2> QED BY <1>1, <1>2, <2>2, Untouched
<1>3. CASE /\ prep = "save" /\ prep' = "refused" /\ glock' = 0
           /\ UNCHANGED <<obj, spools, spool, req>>
  <2>1. SameAttempt BY <1>1, <1>3 DEF SameAttempt
  <2>2. GateTypes /\ ReqsFine /\ \A n \in Reqs : req[n].pc # "append"
    BY <1>3 DEF CopyInv, GateInv, Preparing
  <2>3. /\ obj' \in ObjRecords /\ spools' \subseteq Gens /\ glock' \in Reqs \cup {0, 100}
        /\ req' \in [Reqs -> ReqRecords] /\ \A n \in Reqs : ReqFine(req'[n], Settled)
    BY <1>3, <2>2 DEF GateTypes, ReqsFine
  <2>4. \A n \in Reqs : req'[n].pc # "append" BY <1>3, <2>2
  <2>5. GateKeeps BY <1>3, <2>1, <2>3, <2>4, MetaStep DEF CopyInv
  <2> QED BY <1>1, <1>3, <2>5, Untouched
<1> QED BY <1>2, <1>3 DEF ServerFault

LEMMA StaleKeeps ==
  ASSUME GateInv, SameAttempt, GateCrash, prep' # "save" PROVE GateKeeps
<1>1. obj \in ObjRecords /\ req \in [Reqs -> ReqRecords] BY DEF GateInv, GateTypes
<1>2. PICK k \in Claims : k = StaleClaim BY DEF Claims
<1>3. PICK q : q = obj' OBVIOUS
<1>4. q = obj \/ q = [obj EXCEPT !.claim = k] BY <1>2, <1>3 DEF GateCrash
<1>5. /\ q \in ObjRecords /\ q.up = obj.up /\ q.gen = obj.gen /\ q.off = obj.off
      /\ q.want = obj.want /\ q.state = obj.state
  BY <1>1, <1>4 DEF ObjRecords
<1>6. req' = [n \in Reqs |-> req'[n]] BY DEF GateCrash
<1>7. ASSUME NEW n \in Reqs
      PROVE  /\ req'[n] \in {FreeReq, [req[n] EXCEPT !.pc = "lost"]} /\ req'[n].pc # "append"
  <2>1. req[n] \in ReqRecords BY <1>1
  <2>2. req'[n] \in {FreeReq, [req[n] EXCEPT !.pc = "lost"]} BY DEF GateCrash
  <2>3. PICK p \in ReqPlaces : p = "lost" BY DEF ReqPlaces
  <2>4. [req[n] EXCEPT !.pc = p].pc = p BY <2>1, ReqPlaced
  <2> QED BY <2>2, <2>3, <2>4, FreeFine
<1>8. UNCHANGED <<spools, spool>> /\ glock' = 0 BY DEF GateCrash
<1> QED BY <1>3, <1>5, <1>6, <1>7, <1>8, ReqsLeave

LEMMA CrashShows == ASSUME CopyInv, Crash PROVE Shows
<1>1. /\ UNCHANGED <<part, dest, mode, up>> /\ Fault /\ GateCrash /\ prep' = "none"
      /\ plock' \in {plock, 0}
  BY DEF Crash
<1>2. DOMAIN copy = CopyFields BY DEF CopyInv, PromiseInv, CopyFine
<1>3. CopyGoes(copy') /\ (copy' = copy \/ copy'.pc = "idle")
  BY <1>2 DEF Crash, CopyGoes, CopyFields
<1>4. SameAttempt BY <1>1, <1>3 DEF SameAttempt, CopyGoes
<1>5. GateKeeps BY <1>1, <1>4, StaleKeeps DEF CopyInv
<1>6. CopyTyped(copy', Settled) BY <1>3, MovedTyped DEF CopyInv, ClientInv
<1>7. NoDown.off = 0 /\ NoDown.c = Hole /\ NoDown.pc = "none" BY DEF NoDown
<1>8. DownloadFine(NoDown, Settled) BY <1>7, GateSizes, NoPartTyped DEF DownloadFine
<1>9. \A a \in Gens : DownloadFine(down'[a], Settled)
  BY <1>8 DEF Crash, CopyInv, ClientInv
<1>10. ClientInv' BY <1>1, <1>5, <1>6, <1>9, ClientsMove DEF CopyInv, ClientInv
<1>11. FilesFine' BY <1>1 DEF CopyInv, FilesFine
<1>12. WorldInv' BY <1>1, WorldStays DEF CopyInv, Preps
<1> QED BY <1>5, <1>10, <1>11, <1>12 DEF Shows

LEMMA LeaveAllKeeps ==
  ASSUME GateInv, SameAttempt, UNCHANGED <<obj, spools, spool, glock>>, NEW c, LeaveAll(c)
  PROVE  GateKeeps
<1>1. req' = [n \in Reqs |-> req'[n]] BY DEF LeaveAll
<1>2. \A n \in Reqs : req'[n] \in {FreeReq, req[n], [req[n] EXCEPT !.gone = TRUE],
                                   [req[n] EXCEPT !.pc = "lost"]}
  BY DEF LeaveAll
<1>3. obj' \in ObjRecords /\ glock' \in Reqs \cup {0, 100} BY DEF GateInv, GateTypes
<1> QED BY <1>1, <1>2, <1>3, ReqsLeave

LEMMA WorkerCrashShows == ASSUME CopyInv, WorkerCrash PROVE Shows
<1>1. /\ UNCHANGED <<part, dest, obj, spools, spool, glock, mode, copy, prep>> /\ Fault
      /\ plock' \in {plock, 0} /\ \E c : LeaveAll(c)
  BY DEF WorkerCrash
<1>2. SameAttempt BY <1>1 DEF SameAttempt
<1>3. GateKeeps BY <1>1, <1>2, LeaveAllKeeps DEF CopyInv
<1>4. CopyTyped(copy', Settled) BY <1>1 DEF CopyInv, ClientInv
<1>5. DOMAIN up' = Gens /\ \A a \in Gens : UploadFine(up'[a])
  <2>1. DOMAIN up' = Gens BY DEF WorkerCrash, LoseClients, CopyInv, ClientInv
  <2>2. ASSUME NEW a \in Gens PROVE UploadFine(up'[a])
    <3>1. UploadFine(up[a]) BY DEF CopyInv, ClientInv
    <3>2. up'[a] = up[a] \/ up'[a] = [up[a] EXCEPT !.pc = "lost"]
      BY DEF WorkerCrash, LoseClients
    <3>3. PICK w : w = up'[a] OBVIOUS
    <3> QED BY <3>1, <3>2, <3>3 DEF UploadFine, UpFields
  <2> QED BY <2>1, <2>2
<1>6. ASSUME NEW a \in Gens PROVE DownloadFine(down'[a], Settled)
  <2>1. DownloadFine(down[a], Settled) /\ DOMAIN down[a] = DownFields BY DownloadKept
  <2>2. down'[a] = down[a]
        \/ (down'[a] = [down[a] EXCEPT !.pc = "lost"] /\ down[a].pc \in Alive)
    BY DEF WorkerCrash, LoseClients
  <2>3. PICK w : w = down'[a] OBVIOUS
  <2>4. CASE w = [down[a] EXCEPT !.pc = "lost"] /\ down[a].pc \in Alive
    <3>1. /\ w.pc = "lost" /\ w.off = down[a].off /\ w.c = down[a].c /\ w.gen = down[a].gen
      BY <2>1, <2>4 DEF DownFields
    <3>2. down[a].pc # "none" BY <2>4 DEF Alive
    <3> QED BY <2>1, <2>3, <3>1, <3>2 DEF DownloadFine
  <2> QED BY <2>1, <2>2, <2>3, <2>4
<1>7. ClientInv' BY <1>3, <1>4, <1>5, <1>6, ClientsMove DEF CopyInv
<1>8. FilesFine' BY <1>1 DEF CopyInv, FilesFine
<1>9. WorldInv' BY <1>1, WorldStays DEF CopyInv, WorldInv
<1> QED BY <1>3, <1>7, <1>8, <1>9 DEF Shows

LEMMA NextShows == ASSUME CopyInv, [Next]_vars PROVE Shows
<1>1. CASE Disturbance
  BY <1>1, CancelShows, CopyShows, RpcBeginShows, AroundShows, OtherWritesShows,
     ServerFaultShows, CrashShows, WorkerCrashShows DEF Disturbance
<1> QED BY <1>1, StartShows, GateProgressShows, CopyStepShows, ClientStepShows, CopyShows,
           AroundShows DEF Next

\* The invariant is kept, what is committed stays, and nothing of another's is replaced.
LEMMA CopyInvKept == ASSUME CopyInv, [Next]_vars PROVE CopyInv' /\ Commits /\ NoClobber
<1>1. Shows BY NextShows
<1>2. CopyKeeps BY CopyNextKeeps DEF CopyInv
<1> QED BY <1>1, <1>2 DEF Shows, CopyKeeps, GateKeeps, CopyInv

LEMMA CopyInvStarts == ASSUME Init PROVE CopyInv
<1>1. PromiseInv BY PromiseStarts
<1>2. /\ obj = NoObj /\ spools = {} /\ spool = [g \in Gens |-> <<>>] /\ glock = 0
      /\ req = [n \in Reqs |-> FreeReq] /\ prep = "none"
  BY DEF Init, GateInit
<1>3. PICK z \in ObjRecords : z = NoObj BY NothingHeld
<1>4. GateTypes BY <1>2, <1>3, NothingInOrder, FreeFine DEF GateTypes
<1>5. ObjFine /\ Preparing BY <1>2, NothingHeld DEF ObjFine, Preparing
<1>6. ReqsFine BY <1>2, FreeFine DEF ReqsFine, Appends
<1>7. copy = [pc |-> "idle", att |-> 0, gen |-> 0, want |-> 0, off |-> 0,
              then |-> "failed", verdict |-> "none"]
  BY DEF Init
<1>8. 0 \in GenOrNone /\ 0 \in Offsets BY GateSizes DEF GenOrNone
<1>9. CopyTyped(copy, Settled) BY <1>7, <1>8 DEF CopyTyped
<1>10. /\ DOMAIN NoUp = UpFields /\ NoUp.off = 0 /\ NoUp.gen = 0 /\ NoUp.pc = "none"
  BY DEF NoUp, UpFields
<1>11. UploadFine(NoUp) BY <1>8, <1>10 DEF UploadFine
<1>12. NoDown.off = 0 /\ NoDown.c = Hole /\ NoDown.pc = "none" BY DEF NoDown
<1>13. DownloadFine(NoDown, Settled) BY <1>8, <1>12, NoPartTyped DEF DownloadFine
<1>14. ClientInv BY <1>9, <1>11, <1>13 DEF ClientInv, Init
<1>15. FilesFine
  <2>1. PICK p \in PartRecords : p = NoPart BY NoPartTyped
  <2>2. part = [g \in Gens |-> p] /\ plock = 0 /\ dest \in {Absent, Other}
    BY <2>1 DEF Init, FileInit
  <2> QED BY <2>2 DEF FilesFine
<1>16. WorldInv BY <1>2, FaultsAssumption DEF Init, WorldInv, Preps
<1> QED BY <1>1, <1>4, <1>5, <1>6, <1>14, <1>15, <1>16 DEF CopyInv, GateInv

LEMMA CopyInvSound == ASSUME CopyInv PROVE ObjectSound
<1>1. FileTypeOK BY DEF CopyInv, FilesFine, FileTypeOK, PartRecords, Files, ChunkOrHole, Offsets
<1>2. GateTypeOK
  BY DEF CopyInv, GateInv, GateTypes, GateTypeOK, ObjRecords, ObjStates, Claims, Offsets,
         GenOrNone, VersionOrNone, ChunkOrHole, Contents, ReqRecords, ReqPlaces, ReqKinds
<1>3. /\ mode \in Modes /\ src \in Versions /\ copy.att \in Gens \cup {0}
      /\ copy.gen \in Gens \cup {0} /\ copy.verdict \in Verdicts
      /\ prep \in {"none", "open", "save", "done", "refused"} /\ faults \in 0..MaxFaults
  BY DEF CopyInv, PromiseInv, CopyFine, ClientInv, CopyTyped, GenOrNone, WorldInv, Preps
<1>4. TypeOK BY <1>1, <1>2, <1>3 DEF TypeOK, Verdicts
<1>5. ReadyIsWhole BY DEF CopyInv, GateInv, ObjFine, ReadyIsWhole
<1>6. CursorInSpool BY DEF CopyInv, GateInv, ObjFine, InOrder, CursorInSpool
<1> QED BY <1>4, <1>5, <1>6 DEF ObjectSound

\* What the gateway holds for a copy is sound for every size, number of attempts, of
\* requests and of faults: every chunk below the cursor is on disk at its place, and a
\* ready object is the whole version its transfer was made for.
THEOREM ObjectTheorem == Spec => []ObjectSound
<1>1. Init => CopyInv BY CopyInvStarts
<1>2. CopyInv /\ [Next]_vars => CopyInv' BY CopyInvKept
<1>3. CopyInv => ObjectSound BY CopyInvSound
<1> QED BY <1>1, <1>2, <1>3, PTL DEF Spec

\* No step takes back what a living object has committed, and none replaces a file that
\* is not ours without leave.
THEOREM NothingLostTheorem == Spec => NothingLost
<1>1. Init => CopyInv BY CopyInvStarts
<1>2. CopyInv /\ [Next]_vars => CopyInv' /\ Commits /\ NoClobber BY CopyInvKept
<1>3. Commits => (obj.up /\ obj'.up /\ obj'.gen = obj.gen =>
                    /\ obj'.off >= obj.off
                    /\ \A k \in 1..obj.off : /\ k <= Len(spool'[obj.gen])
                                             /\ spool'[obj.gen][k] = spool[obj.gen][k])
  BY DEF Commits
<1>4. NoClobber => (~mode.overwrite /\ dest = Other => dest' = Other) BY DEF NoClobber
<1> QED BY <1>1, <1>2, <1>3, <1>4, PTL DEF Spec, NothingLost, CommittedStays, NeverClobbers
================================================================================
