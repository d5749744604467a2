------------------------------ MODULE FileProofs ------------------------------
(*****************************************************************************)
(* What the file tools, the copies of directories and the links to files     *)
(* rely on: the locks of paths, for every set of threads, files and state    *)
(* files and every assignment of paths to lock files; the exchange of an old *)
(* tree for a new one, for any number of failures; and the store of links,   *)
(* for every set of links, every number of requests and any limit.           *)
(*****************************************************************************)
EXTENDS PathLocks, DirectoryCopy, Downloads, FiniteSetTheorems, TLAPS

(*****************************************************************************)
(* The locks of paths.                                                       *)
(*****************************************************************************)

Kinds == {"path", "shard"}
Thread ==
  [pc : {"rest", "count", "inside", "unwind"}, want : SUBSET Paths,
   objs : SUBSET (Paths \X Objects), mine : SUBSET (Kinds \X Nat)]

LocksTypeOK ==
  /\ holds \in [Threads -> Thread]
  /\ entry \in [Processes -> [Paths -> Objects \cup {0}]]
  /\ users \in [Processes -> [Objects -> Nat]]
  /\ shard \in [LockFiles -> Threads \cup {Unowned}]
  /\ locked \in 0 .. MaxLocked

(* A lock file a thread has taken is its own, and who is inside has taken  *)
(* the lock file of every path it asked for.                               *)
ShardsHeld ==
  \A t \in Threads, s \in LockFiles : <<"shard", s>> \in holds[t].mine => shard[s] = t
InsideHasAll ==
  \A t \in Threads : holds[t].pc = "inside" =>
    \A f \in holds[t].want : <<"shard", ShardOf[f]>> \in holds[t].mine

(* How far a request is, by its phase.                                     *)
Phases ==
  \A t \in Threads :
    /\ holds[t].pc = "rest" => holds[t].objs = {} /\ holds[t].mine = {}
    /\ holds[t].pc # "rest" => locked >= 1
    /\ Counted(t) \subseteq holds[t].want
    /\ holds[t].pc = "unwind" => holds[t].objs # {}
    /\ holds[t].pc = "count" => holds[t].want # {}
    /\ holds[t].pc = "inside" => holds[t].objs # {}
    /\ holds[t].mine # {} => holds[t].objs # {}

(* The threads of a process that count in the lock object of a path.       *)
UsersOf(p, f) == {t \in Threads : ProcessOf[t] = p /\ <<f, entry[p][f]>> \in holds[t].objs}

CountsOwn == \A t \in Threads : \A b \in holds[t].objs : entry[ProcessOf[t]][b[1]] = b[2]
EntriesCounted ==
  \A p \in Processes : \A f \in Paths : entry[p][f] # 0 =>
    /\ users[p][entry[p][f]] = Cardinality(UsersOf(p, f))
    /\ UsersOf(p, f) # {}
EntriesDiffer ==
  \A p \in Processes : \A f, g \in Paths :
    entry[p][f] # 0 /\ entry[p][f] = entry[p][g] => f = g
FreeUnused ==
  \A p \in Processes : \A o \in Objects :
    (\A f \in Paths : entry[p][f] # o) => users[p][o] = 0

EntriesInv == CountsOwn /\ EntriesCounted /\ EntriesDiffer /\ FreeUnused

(* The lock of a path, or a lock file, is taken by somebody who knows.     *)
PathHolders ==
  \A p \in Processes : \A o \in Objects : heldBy[p][o] # Unowned =>
    /\ heldBy[p][o] \in Threads /\ ProcessOf[heldBy[p][o]] = p
    /\ \E b \in holds[heldBy[p][o]].objs :
         b[2] = o /\ <<"path", b[1]>> \in holds[heldBy[p][o]].mine
ShardHolders ==
  \A s \in LockFiles : shard[s] # Unowned => <<"shard", s>> \in holds[shard[s]].mine

(* Whoever still waits took what is first in the order: paths, then files. *)
Climbing(h) ==
  h.pc = "count" =>
    /\ \A f, g \in h.want : <<"path", f>> \in h.mine /\ <<"path", g>> \notin h.mine => f < g
    /\ \A s \in LockFiles : <<"shard", s>> \in h.mine =>
         /\ \A g \in h.want : <<"path", g>> \in h.mine
         /\ \A g \in h.want : <<"shard", ShardOf[g]>> \notin h.mine => s < ShardOf[g]
    /\ \A f : <<"path", f>> \in h.mine => f \in h.want
    /\ \A s : <<"shard", s>> \in h.mine => \E g \in h.want : s = ShardOf[g]
    /\ \E g \in h.want : <<"shard", ShardOf[g]>> \notin h.mine
AllClimb == \A t \in Threads : Climbing(holds[t])

HeldTypeOK == heldBy \in [Processes -> [Objects -> Threads \cup {Unowned}]]
WaitsInv == HeldTypeOK /\ PathHolders /\ ShardHolders /\ AllClimb

LocksInv == LocksTypeOK /\ ShardsHeld /\ InsideHasAll /\ Phases /\ EntriesInv
InductiveInv == LocksInv /\ WaitsInv

-----------------------------------------------------------------------------
(* A nonempty set of naturals has a least element ...                      *)
LEMMA LeastNatural ==
  ASSUME NEW S, S \subseteq Nat, S # {}
  PROVE  \E i \in S : \A k \in S : i <= k
<1>1. PICK i \in S : \A k \in S : ~ (<<k, i>> \in OpToRel(<, Nat))
  BY NatLessThanWellFounded, WFMin, Zenon
<1>2. \A k \in S : ~ (k < i)
  BY <1>1 DEF OpToRel
<1> QED
  BY <1>2

LEMMA LowestIn ==
  ASSUME NEW S, S \subseteq Nat, S # {}
  PROVE  Lowest(S) \in S /\ \A k \in S : Lowest(S) <= k
  BY LeastNatural DEF Lowest

(* ... and a finite one a greatest: the element with the fewest above it.  *)
LEMMA GreatestNatural ==
  ASSUME NEW S, S \subseteq Nat, S # {}, IsFiniteSet(S)
  PROVE  \E i \in S : \A k \in S : k <= i
<1> DEFINE Above(x) == {y \in S : x < y}
           sizes == {Cardinality(Above(x)) : x \in S}
<1>1. \A x \in S : IsFiniteSet(Above(x)) /\ Cardinality(Above(x)) \in Nat
  <2> SUFFICES ASSUME NEW x \in S PROVE IsFiniteSet(Above(x)) /\ Cardinality(Above(x)) \in Nat
    OBVIOUS
  <2>1. Above(x) \in SUBSET S
    OBVIOUS
  <2> HIDE DEF Above
  <2> QED
    BY <2>1, FS_Subset, FS_CardinalityType
<1>2. sizes \subseteq Nat /\ sizes # {}
  <2> HIDE DEF Above
  <2> QED
    BY <1>1
<1>3. PICK n \in sizes : \A k \in sizes : n <= k
  <2> HIDE DEF sizes
  <2> QED
    BY <1>2, LeastNatural
<1>4. PICK i \in S : n = Cardinality(Above(i))
  OBVIOUS
<1>5. \A x \in S : Cardinality(Above(i)) <= Cardinality(Above(x))
  BY <1>3, <1>4
<1>6. ASSUME NEW k \in S, ~(k <= i) PROVE FALSE
  <2>1. k \in Above(i) /\ k \notin Above(k) /\ Above(k) \in SUBSET Above(i)
    <3>1. i < k /\ \A y \in S : k < y => i < y
      BY <1>6
    <3>2. ~(k < k)
      BY <1>6
    <3> QED
      BY <3>1, <3>2
  <2> HIDE DEF Above
  <2>2. PICK big : big = Above(i)
    OBVIOUS
  <2>3. PICK small : small = Above(k)
    OBVIOUS
  <2>4. small \in SUBSET big /\ small # big /\ IsFiniteSet(big)
    BY <1>1, <2>1, <2>2, <2>3
  <2>5. Cardinality(small) < Cardinality(big)
    <3>1. Cardinality(small) <= Cardinality(big) /\ Cardinality(small) # Cardinality(big)
      BY <2>4, FS_Subset
    <3>2. Cardinality(small) \in Nat /\ Cardinality(big) \in Nat
      BY <1>1, <2>2, <2>3
    <3> QED
      BY <3>1, <3>2
  <2>6. Cardinality(big) <= Cardinality(small) /\ Cardinality(small) \in Nat /\ Cardinality(big) \in Nat
    BY <1>1, <1>5, <1>6, <2>2, <2>3
  <2> QED
    BY <2>5, <2>6
<1> QED
  BY <1>6

(* The pair that Uncount takes is one of the thread's.                     *)
LEMMA HighestPair ==
  ASSUME NEW B, B \subseteq Paths \X Objects, B # {}
  PROVE  (CHOOSE c \in B : \A d \in B : d[1] <= c[1]) \in B
<1> DEFINE S == {b[1] : b \in B}
<1>1. S \subseteq Paths /\ S # {}
  OBVIOUS
<1>2. S \subseteq Nat /\ IsFiniteSet(S)
  <2>1. Paths \subseteq Nat /\ IsFiniteSet(Paths)
    BY PathLocksAssumption DEF Paths
  <2> HIDE DEF S
  <2> QED
    BY <1>1, <2>1, FS_Subset
<1>3. PICK i \in S : \A k \in S : k <= i
  <2> HIDE DEF S
  <2> QED
    BY <1>1, <1>2, GreatestNatural
<1>4. PICK c \in B : c[1] = i
  OBVIOUS
<1>5. \A d \in B : d[1] <= c[1]
  BY <1>3, <1>4
<1> QED
  BY <1>5

(* As long as an entry is free, so is a lock object.                       *)
LEMMA FreeObject ==
  ASSUME LocksInv, MaxLocked >= 1, NEW p \in Processes, NEW f \in Paths, entry[p][f] = 0
  PROVE  \E n \in Objects : users[p][n] = 0 /\ \A g \in Paths : entry[p][g] # n
<1> DEFINE e == entry[p]
           R == {e[g] : g \in Paths}
           c == Cardinality(Paths)
<1>1. IsFiniteSet(Paths) /\ c \in Nat /\ c >= 1 /\ MaxLocked \in Nat
  <2>1. IsFiniteSet(Paths) /\ MaxLocked \in Nat
    BY PathLocksAssumption
  <2>2. c \in Nat /\ c # 0
    BY <2>1, FS_CardinalityType, FS_EmptySet
  <2> QED
    BY <2>1, <2>2
<1>2. e \in [Paths -> Objects \cup {0}]
  BY DEF LocksInv, LocksTypeOK
<1>3. e \in Surjection(Paths, R)
  BY <1>2 DEF Surjection
<1>4. IsFiniteSet(R) /\ Cardinality(R) <= c /\ Cardinality(R) \in Nat
  <2> HIDE DEF R, e
  <2> QED
    BY <1>1, <1>3, FS_Surjection, FS_CardinalityType
<1>5. 0 \in R
  OBVIOUS
<1>6. /\ IsFiniteSet(R \ {0}) /\ Cardinality(R \ {0}) < c /\ Cardinality(R \ {0}) \in Nat
  <2> HIDE DEF R
  <2>1. IsFiniteSet(R \ {0}) /\ Cardinality(R \ {0}) = Cardinality(R) - 1
    BY <1>4, <1>5, FS_RemoveElement
  <2> QED
    BY <1>1, <1>4, <2>1, FS_CardinalityType
<1>7. IsFiniteSet(Objects) /\ Cardinality(Objects) >= c /\ Cardinality(Objects) \in Nat
  <2>1. MaxLocked * c \in Nat /\ MaxLocked * c >= c
    <3> HIDE DEF c
    <3>1. PICK m \in Nat : MaxLocked = m + 1
      BY <1>1
    <3>2. MaxLocked * c = m * c + c /\ m * c \in Nat
      BY <1>1, <3>1
    <3> QED
      BY <1>1, <3>2
  <2>2. Objects = 1 .. (MaxLocked * c)
    BY DEF Objects
  <2> HIDE DEF c
  <2>3. IsFiniteSet(Objects) /\ Cardinality(Objects) = MaxLocked * c
    <3> DEFINE m == MaxLocked * c
    <3>1. m \in Nat /\ m >= 1
      BY <1>1, <2>1
    <3> HIDE DEF m
    <3>2. IsFiniteSet(1 .. m) /\ Cardinality(1 .. m) = m
      BY <3>1, FS_Interval
    <3> QED
      BY <2>2, <3>2 DEF m
  <2> QED
    BY <2>1, <2>3
<1>8. ~(Objects \subseteq R \ {0})
  <2> HIDE DEF R, c
  <2>1. ASSUME Objects \in SUBSET (R \ {0}) PROVE FALSE
    <3>1. Cardinality(Objects) <= Cardinality(R \ {0})
      BY <1>6, <2>1, FS_Subset
    <3> QED
      BY <1>1, <1>6, <1>7, <3>1
  <2> QED
    BY <2>1
<1>9. PICK n \in Objects : n \notin R \ {0}
  BY <1>8
<1>10. n # 0
  BY <1>9 DEF Objects
<1>11. \A g \in Paths : entry[p][g] # n
  BY <1>9, <1>10
<1> QED
  BY <1>9, <1>11 DEF LocksInv, EntriesInv, FreeUnused

LEMMA UsersFinite ==
  \A p, f : IsFiniteSet(UsersOf(p, f)) /\ Cardinality(UsersOf(p, f)) \in Nat
<1> SUFFICES ASSUME NEW p, NEW f
             PROVE  IsFiniteSet(UsersOf(p, f)) /\ Cardinality(UsersOf(p, f)) \in Nat
  OBVIOUS
<1>1. UsersOf(p, f) \in SUBSET Threads /\ IsFiniteSet(Threads)
  BY PathLocksAssumption DEF UsersOf
<1> QED
  BY <1>1, FS_Subset, FS_CardinalityType

-----------------------------------------------------------------------------
(* The locks and the phases, handler by handler.                           *)

LEMMA PathsAre == /\ Paths \subseteq Nat /\ MaxLocked \in Nat
                  /\ \A f \in Paths : ShardOf[f] \in Nat /\ ShardOf[f] \in LockFiles
                  /\ LockFiles \subseteq Nat
  BY PathLocksAssumption DEF Paths, LockFiles

LEMMA OwnProcess == \A t \in Threads : ProcessOf[t] \in Processes
  BY DEF Processes

LEMMA AskKeeps ==
  ASSUME LocksInv, NEW t \in Threads, NEW S \in FileRequests \cup StateRequests, Ask(t, S)
  PROVE  LocksInv'
<1> DEFINE h == [Rest EXCEPT !.pc = "count", !.want = S]
<1>1. S \subseteq Paths /\ S # {}
  BY DEF FileRequests, StateRequests, Paths
<1>2. /\ holds' = [holds EXCEPT ![t] = h]
      /\ holds[t].pc = "rest" /\ locked < MaxLocked /\ locked' = locked + 1
      /\ UNCHANGED <<entry, users, shard>>
  BY DEF Ask
<1>3. h \in Thread /\ h.pc = "count" /\ h.want = S /\ h.objs = {} /\ h.mine = {}
  <2>1. Rest \in Thread /\ Rest.objs = {} /\ Rest.mine = {}
    BY DEF Rest, Thread
  <2> QED
    BY <1>1, <2>1 DEF Thread
<1> HIDE DEF h
<1>4. holds'[t] = h /\ \A u \in Threads \ {t} : holds'[u] = holds[u]
  BY <1>2 DEF LocksInv, LocksTypeOK
<1>5. LocksTypeOK'
  BY <1>2, <1>3, PathsAre DEF LocksInv, LocksTypeOK
<1>6. ShardsHeld' /\ InsideHasAll'
  BY <1>2, <1>3, <1>4 DEF LocksInv, ShardsHeld, InsideHasAll
<1>7. Phases'
  BY <1>1, <1>2, <1>3, <1>4, PathsAre DEF LocksInv, LocksTypeOK, Phases, Counted
<1>8. \A u \in Threads : holds'[u].objs = holds[u].objs
  BY <1>2, <1>3, <1>4 DEF LocksInv, Phases
<1>9. EntriesInv'
  BY <1>2, <1>8, SMTT(20) DEF LocksInv, EntriesInv, CountsOwn, EntriesCounted, EntriesDiffer, FreeUnused, UsersOf
<1> QED
  BY <1>5, <1>6, <1>7, <1>9 DEF LocksInv

(* The steps that take and give back locks, and leave, count nobody.       *)
LEMMA LockingKeeps ==
  ASSUME LocksInv, NEW t \in Threads,
         LockThread(t) \/ LockShard(t) \/ Exits(t) \/ Unlock(t)
  PROVE  LocksInv'
<1> USE DEF LocksInv
<1>1. /\ UNCHANGED <<entry, users, locked>>
      /\ \A u \in Threads : holds'[u].objs = holds[u].objs /\ holds'[u].want = holds[u].want
      /\ \A u \in Threads \ {t} : holds'[u] = holds[u]
  <2>0. holds \in [Threads -> Thread]
    BY DEF LocksTypeOK
  <2>1. CASE LockThread(t)
    BY <2>0, <2>1 DEF LockThread, Thread
  <2>2. CASE LockShard(t)
    <3>1. PICK s : holds' = [holds EXCEPT ![t].mine = @ \cup {<<"shard", s>>},
                      ![t].pc = IF Shards(t) = Has(t, "shard") \cup {s} THEN "inside" ELSE @]
      BY <2>2 DEF LockShard
    <3>2. UNCHANGED <<entry, users, locked>>
      BY <2>2 DEF LockShard
    <3>3. \A u \in Threads \ {t} : holds'[u] = holds[u]
      BY <2>0, <3>1
    <3>4. holds'[t].objs = holds[t].objs /\ holds'[t].want = holds[t].want
      BY <2>0, <3>1 DEF Thread
    <3> QED
      BY <3>2, <3>3, <3>4
  <2>3. CASE Exits(t)
    BY <2>0, <2>3 DEF Exits, Thread
  <2>4. CASE Unlock(t)
    BY <2>0, <2>4 DEF Unlock, Thread
  <2> QED
    BY <2>1, <2>2, <2>3, <2>4
<1>2. EntriesInv'
  BY <1>1 DEF EntriesInv, CountsOwn, EntriesCounted, EntriesDiffer, FreeUnused, UsersOf
<1>3. holds[t] \in Thread /\ holds \in [Threads -> Thread]
  BY DEF LocksTypeOK
<1>4. CASE LockThread(t)
  <2> DEFINE n == NextPath(t)
  <2>1. /\ shard' = shard /\ holds[t].pc = "count"
        /\ holds' = [holds EXCEPT ![t].mine = @ \cup {<<"path", n>>}]
        /\ \E b \in holds[t].objs : b[1] = n
    BY <1>4 DEF LockThread
  <2>2. n \in Nat
    BY <1>3, <2>1, PathsAre DEF Thread
  <2> HIDE DEF n
  <2>3. /\ holds'[t] \in Thread /\ holds'[t].pc = "count"
        /\ holds'[t].mine = holds[t].mine \cup {<<"path", n>>}
    BY <1>3, <2>1, <2>2 DEF Thread, Kinds
  <2>4. LocksTypeOK'
    BY <1>1, <1>3, <2>1, <2>3 DEF LocksTypeOK
  <2>5. ShardsHeld' /\ InsideHasAll'
    BY <1>1, <2>1, <2>3 DEF ShardsHeld, InsideHasAll
  <2>6. Phases'
    BY <1>1, <2>1, <2>3 DEF Phases, Counted
  <2> QED
    BY <1>2, <2>4, <2>5, <2>6
<1>5. CASE LockShard(t)
  <2>1. PICK s \in Shards(t) \ Has(t, "shard") :
          /\ shard[s] = Unowned
          /\ shard' = [shard EXCEPT ![s] = t]
          /\ holds' = [holds EXCEPT ![t].mine = @ \cup {<<"shard", s>>},
                         ![t].pc = IF Shards(t) = Has(t, "shard") \cup {s} THEN "inside" ELSE @]
    BY <1>5 DEF LockShard
  <2>2. s \in LockFiles /\ s \in Nat
    BY <1>3, PathsAre DEF Shards, Thread
  <2> DEFINE q == IF Shards(t) = Has(t, "shard") \cup {s} THEN "inside" ELSE "count"
  <2>3. holds[t].pc = "count"
    BY <1>5 DEF LockShard
  <2>4. /\ holds'[t] \in Thread /\ holds'[t].pc = q
        /\ holds'[t].mine = holds[t].mine \cup {<<"shard", s>>}
    <3>1. <<"shard", s>> \in Kinds \X Nat
      BY <2>2 DEF Kinds
    <3>2. holds'[t] = [holds[t] EXCEPT !.mine = @ \cup {<<"shard", s>>}, !.pc = q]
      BY <1>3, <2>1, <2>3
    <3>3. q \in {"count", "inside"}
      OBVIOUS
    <3> HIDE DEF q
    <3> DEFINE h1 == [holds[t] EXCEPT !.mine = @ \cup {<<"shard", s>>}]
    <3>4. h1 \in Thread /\ h1.mine = holds[t].mine \cup {<<"shard", s>>}
      BY <1>3, <3>1 DEF Thread
    <3> HIDE DEF h1
    <3>5. [h1 EXCEPT !.pc = q] \in Thread /\ [h1 EXCEPT !.pc = q].pc = q
          /\ [h1 EXCEPT !.pc = q].mine = h1.mine
      BY <3>3, <3>4 DEF Thread
    <3>6. holds'[t] = [h1 EXCEPT !.pc = q]
      BY <1>3, <3>2 DEF h1, Thread
    <3> QED
      BY <3>4, <3>5, <3>6
  <2>5. LocksTypeOK'
    BY <1>1, <1>3, <2>1, <2>2, <2>4 DEF LocksTypeOK
  <2>6. ShardsHeld'
    <3>1. \A x \in LockFiles : <<"shard", x>> \in holds'[t].mine =>
            x = s \/ <<"shard", x>> \in holds[t].mine
      BY <2>4
    <3>2. shard'[s] = t /\ \A x \in LockFiles \ {s} : shard'[x] = shard[x]
      BY <2>1, <2>2 DEF LocksTypeOK
    <3>3. \A u \in Threads : <<"shard", s>> \notin holds[u].mine
      BY <2>1, <2>2, PathLocksAssumption DEF ShardsHeld
    <3> QED
      BY <1>1, <3>1, <3>2, <3>3 DEF ShardsHeld
  <2>7. InsideHasAll'
    <3>1. ASSUME q = "inside", NEW f \in holds[t].want
          PROVE  <<"shard", ShardOf[f]>> \in holds'[t].mine
      <4>1. ShardOf[f] \in Has(t, "shard") \cup {s}
        BY <3>1 DEF Shards
      <4>2. ASSUME ShardOf[f] \in Has(t, "shard") PROVE <<"shard", ShardOf[f]>> \in holds[t].mine
        <5>1. PICK m \in holds[t].mine : m[1] = "shard" /\ m[2] = ShardOf[f]
          BY <4>2 DEF Has
        <5>2. m = <<m[1], m[2]>>
          BY <1>3, <5>1 DEF Thread
        <5> QED
          BY <5>1, <5>2
      <4> QED
        BY <2>4, <4>1, <4>2
    <3> QED
      BY <1>1, <2>4, <3>1 DEF InsideHasAll
  <2>8. Phases'
    <3>1. holds[t].want # {} /\ Has(t, "path") = holds[t].want
      BY <1>5, <2>3 DEF LockShard, Phases
    <3>2. holds[t].mine # {}
      BY <3>1 DEF Has
    <3>3. holds[t].objs # {}
      BY <3>2 DEF Phases
    <3> QED
      BY <1>1, <2>3, <2>4, <3>3 DEF Phases, Counted
  <2> QED
    BY <1>2, <2>5, <2>6, <2>7, <2>8
<1>6. CASE Exits(t)
  <2>1. /\ shard' = shard /\ holds' = [holds EXCEPT ![t].pc = "unwind"]
        /\ holds[t].pc = "inside" \/ (holds[t].pc = "count" /\ Counted(t) = holds[t].want)
    BY <1>6 DEF Exits
  <2>2. holds'[t] \in Thread /\ holds'[t].pc = "unwind" /\ holds'[t].mine = holds[t].mine
    BY <1>3, <2>1 DEF Thread
  <2>3. holds[t].objs # {}
    BY <2>1 DEF Phases, Counted
  <2>4. LocksTypeOK'
    BY <1>1, <1>3, <2>1, <2>2 DEF LocksTypeOK
  <2>5. ShardsHeld' /\ InsideHasAll' /\ Phases'
    BY <1>1, <2>1, <2>2, <2>3 DEF ShardsHeld, InsideHasAll, Phases, Counted
  <2> QED
    BY <1>2, <2>4, <2>5
<1>7. CASE Unlock(t)
  <2>1. /\ holds[t].pc = "unwind" /\ holds' = [holds EXCEPT ![t].mine = {}]
        /\ shard' = [s \in LockFiles |-> IF shard[s] = t THEN Unowned ELSE shard[s]]
    BY <1>7 DEF Unlock
  <2>2. holds'[t] \in Thread /\ holds'[t].pc = "unwind" /\ holds'[t].mine = {}
    BY <1>3, <2>1 DEF Thread
  <2>3. LocksTypeOK'
    BY <1>1, <1>3, <2>1, <2>2 DEF LocksTypeOK
  <2>4. ShardsHeld' /\ InsideHasAll' /\ Phases'
    BY <1>1, <2>1, <2>2 DEF ShardsHeld, InsideHasAll, Phases, Counted
  <2> QED
    BY <1>2, <2>3, <2>4
<1> QED
  BY <1>4, <1>5, <1>6, <1>7

(* A thread counts itself in at the lock object of its next path.          *)
LEMMA CountKeeps ==
  ASSUME LocksInv, NEW t \in Threads, Count(t)
  PROVE  LocksInv'
<1> USE DEF LocksInv
<1> DEFINE p == ProcessOf[t]
           g0 == Lowest(holds[t].want \ Counted(t))
           o0 == IF entry[p][g0] # 0 THEN entry[p][g0]
                ELSE CHOOSE n \in Objects : users[p][n] = 0 /\ \A g \in Paths : entry[p][g] # n
<1>0. /\ holds[t].pc = "count" /\ holds[t].want # Counted(t)
      /\ entry' = [entry EXCEPT ![p][g0] = o0]
      /\ users' = [users EXCEPT ![p][o0] = @ + 1]
      /\ holds' = [holds EXCEPT ![t].objs = @ \cup {<<g0, o0>>}]
      /\ UNCHANGED <<shard, locked>>
  BY DEF Count
<1>2. p \in Processes /\ holds[t] \in Thread /\ holds \in [Threads -> Thread]
  BY OwnProcess DEF LocksTypeOK
<1>30. g0 \in holds[t].want /\ g0 \notin Counted(t) /\ g0 \in Paths
  <2>1. holds[t].want \ Counted(t) # {} /\ holds[t].want \subseteq Paths
    BY <1>0, <1>2 DEF Phases, Thread
  <2>2. g0 \in holds[t].want \ Counted(t)
    BY <2>1, LowestIn, PathsAre
  <2> QED
    BY <2>1, <2>2
<1>31. o0 \in Objects /\ entry[p][g0] \in Objects \cup {0}
      /\ \/ entry[p][g0] = o0
         \/ entry[p][g0] = 0 /\ users[p][o0] = 0 /\ \A g \in Paths : entry[p][g] # o0
  <2>1. entry[p][g0] \in Objects \cup {0}
    BY <1>2, <1>30 DEF LocksTypeOK
  <2>2. CASE entry[p][g0] = 0
    <3>1. MaxLocked >= 1
      <4>1. locked \in 0 .. MaxLocked BY DEF LocksTypeOK
      <4>2. holds[t].pc # "rest" BY <1>0
      <4>3. locked >= 1 BY <4>2, Zenon DEF Phases
      <4> HIDE DEF LocksInv
      <4> QED BY <4>1, <4>3, PathsAre
    <3>2. \E n \in Objects : users[p][n] = 0 /\ \A g \in Paths : entry[p][g] # n
      BY <1>2, <1>30, <2>2, <3>1, FreeObject
    <3> QED
      BY <2>2, <3>2
  <2>3. CASE entry[p][g0] # 0
    BY <2>1, <2>3
  <2> QED
    BY <2>1, <2>2, <2>3
<1> HIDE DEF o0, g0
<1> PICK f, o : f = g0 /\ o = o0
  OBVIOUS
<1>1. /\ holds[t].pc = "count" /\ holds[t].want # Counted(t)
      /\ entry' = [entry EXCEPT ![p][f] = o]
      /\ users' = [users EXCEPT ![p][o] = @ + 1]
      /\ holds' = [holds EXCEPT ![t].objs = @ \cup {<<f, o>>}]
      /\ UNCHANGED <<shard, locked>>
  BY <1>0
<1>3. f \in holds[t].want /\ f \notin Counted(t) /\ f \in Paths
  BY <1>30
<1>4. o \in Objects /\ entry[p][f] \in Objects \cup {0}
      /\ \/ entry[p][f] = o
         \/ entry[p][f] = 0 /\ users[p][o] = 0 /\ \A g \in Paths : entry[p][g] # o
  BY <1>31
<1>5. 0 \notin Objects
  BY DEF Objects
<1>6. /\ holds'[t] \in Thread /\ holds'[t].pc = "count" /\ holds'[t].mine = holds[t].mine
      /\ holds'[t].want = holds[t].want
      /\ holds'[t].objs = holds[t].objs \cup {<<f, o>>}
      /\ \A u \in Threads \ {t} : holds'[u] = holds[u]
  BY <1>1, <1>2, <1>3, <1>4 DEF Thread
<1>7. /\ entry'[p][f] = o
      /\ \A q \in Processes, g \in Paths : (q # p \/ g # f) => entry'[q][g] = entry[q][g]
      /\ users'[p][o] = users[p][o] + 1 /\ users[p][o] \in Nat
      /\ \A q \in Processes, x \in Objects : (q # p \/ x # o) => users'[q][x] = users[q][x]
  BY <1>1, <1>2, <1>3, <1>4 DEF LocksTypeOK
<1>8. LocksTypeOK'
  <2>1. holds' \in [Threads -> Thread]
    BY <1>1, <1>2, <1>6
  <2>2. entry' \in [Processes -> [Paths -> Objects \cup {0}]]
    BY <1>1, <1>2, <1>3, <1>4 DEF LocksTypeOK
  <2>3. users' \in [Processes -> [Objects -> Nat]]
    BY <1>1, <1>2, <1>4, <1>7 DEF LocksTypeOK
  <2> QED
    BY <1>1, <2>1, <2>2, <2>3 DEF LocksTypeOK
<1>9. ShardsHeld' /\ InsideHasAll'
  BY <1>1, <1>6 DEF ShardsHeld, InsideHasAll
<1>10. Phases'
  <2>1. Counted(t)' \subseteq Counted(t) \cup {f}
    BY <1>6 DEF Counted
  <2>2. \A u \in Threads \ {t} : Counted(u)' = Counted(u)
    BY <1>6 DEF Counted
  <2> QED
    BY <1>1, <1>3, <1>6, <2>1, <2>2 DEF Phases
(* Nobody else is counted at that object unless at this path.              *)
<1>11. \A u \in Threads : ProcessOf[u] = p => \A b \in holds[u].objs : b[1] # f => b[2] # o
  <2> SUFFICES ASSUME NEW u \in Threads, ProcessOf[u] = p, NEW b \in holds[u].objs, b[1] # f
               PROVE  b[2] # o
    OBVIOUS
  <2>1. b[1] \in Paths /\ b[2] \in Objects /\ entry[p][b[1]] = b[2]
    BY DEF LocksTypeOK, Thread, CountsOwn, EntriesInv
  <2> QED
    BY <1>2, <1>3, <1>4, <1>5, <2>1 DEF EntriesDiffer, EntriesInv
<1>12. CountsOwn'
  <2> SUFFICES ASSUME NEW u \in Threads, NEW b \in holds'[u].objs
               PROVE  entry'[ProcessOf[u]][b[1]] = b[2]
    BY DEF CountsOwn
  <2>1. CASE u = t /\ b = <<f, o>>
    BY <1>7, <2>1
  <2>2. CASE b \in holds[u].objs
    <3>1. b[1] \in Paths /\ b[2] \in Objects /\ entry[ProcessOf[u]][b[1]] = b[2]
      BY <2>2 DEF LocksTypeOK, Thread, CountsOwn, EntriesInv
    <3>2. CASE ProcessOf[u] = p /\ b[1] = f
      BY <1>4, <1>5, <1>7, <3>1, <3>2
    <3>3. CASE ~(ProcessOf[u] = p /\ b[1] = f)
      BY <1>7, <3>1, <3>3, OwnProcess
    <3> QED
      BY <3>2, <3>3
  <2> QED
    BY <1>6, <2>1, <2>2
<1>13. EntriesDiffer'
  <2> SUFFICES ASSUME NEW q \in Processes, NEW g \in Paths, NEW h \in Paths,
                      entry'[q][g] # 0, entry'[q][g] = entry'[q][h]
               PROVE  g = h
    BY DEF EntriesDiffer
  <2>1. CASE q # p \/ (g # f /\ h # f)
    BY <1>7, <2>1 DEF EntriesDiffer, EntriesInv
  <2>2. CASE q = p /\ g = f /\ h # f
    BY <1>2, <1>3, <1>4, <1>5, <1>7, <2>2 DEF EntriesDiffer, EntriesInv
  <2>3. CASE q = p /\ g # f /\ h = f
    BY <1>2, <1>3, <1>4, <1>5, <1>7, <2>3 DEF EntriesDiffer, EntriesInv
  <2> QED
    BY <2>1, <2>2, <2>3
<1>14. FreeUnused'
  <2> SUFFICES ASSUME NEW q \in Processes, NEW x \in Objects,
                      \A g \in Paths : entry'[q][g] # x
               PROVE  users'[q][x] = 0
    BY DEF FreeUnused
  <2>1. ~(q = p /\ x = o)
    BY <1>3, <1>7
  <2>2. \A g \in Paths : entry[q][g] # x
    BY <1>3, <1>4, <1>5, <1>7, <2>1
  <2> QED
    BY <1>7, <2>1, <2>2 DEF FreeUnused, EntriesInv
<1>15. EntriesCounted'
  <2> SUFFICES ASSUME NEW q \in Processes, NEW g \in Paths, entry'[q][g] # 0
               PROVE  /\ users'[q][entry'[q][g]] = Cardinality(UsersOf(q, g)')
                      /\ UsersOf(q, g)' # {}
    BY DEF EntriesCounted
  <2>1. CASE ~(q = p /\ g = f)
    <3>1. entry'[q][g] = entry[q][g] /\ entry[q][g] \in Objects
      BY <1>7, <2>1 DEF LocksTypeOK
    <3>2. q = p => entry[q][g] # o
      BY <1>2, <1>3, <1>4, <1>5, <2>1, <3>1 DEF EntriesDiffer, EntriesInv
    <3>3. users'[q][entry[q][g]] = users[q][entry[q][g]]
      BY <1>7, <3>1, <3>2
    <3>4. UsersOf(q, g)' = UsersOf(q, g)
      BY <1>6, <2>1, <3>1 DEF UsersOf
    <3> QED
      BY <3>1, <3>3, <3>4 DEF EntriesCounted, EntriesInv
  <2>2. CASE q = p /\ g = f
    <3> DEFINE U == UsersOf(p, f)
    <3>1. t \notin U
      BY <1>3 DEF UsersOf, Counted
    <3>2. CASE entry[p][f] = o
      <4>1. UsersOf(p, f)' = U \cup {t}
        BY <1>6, <1>7, <3>2 DEF UsersOf
      <4>2. users[p][o] = Cardinality(U)
        BY <1>2, <1>3, <1>4, <1>5, <3>2 DEF EntriesCounted, EntriesInv
      <4>3. IsFiniteSet(U) /\ Cardinality(U) \in Nat
        BY UsersFinite
      <4> HIDE DEF U
      <4>4. Cardinality(U \cup {t}) = Cardinality(U) + 1
        BY <3>1, <4>3, FS_AddElement
      <4> QED
        BY <1>7, <2>2, <4>1, <4>2, <4>4
    <3>3. CASE entry[p][f] = 0 /\ users[p][o] = 0
      <4>1. ASSUME NEW u \in Threads \ {t}, ProcessOf[u] = p PROVE <<f, o>> \notin holds[u].objs
        BY <1>4, <1>5, <3>3, <4>1 DEF CountsOwn, EntriesInv
      <4>2. UsersOf(p, f)' = {t}
        BY <1>6, <1>7, <4>1 DEF UsersOf
      <4>3. Cardinality({t}) = 1
        BY FS_Singleton
      <4>4. users'[p][entry'[p][f]] = 1
        BY <1>7, <3>3
      <4> QED
        BY <2>2, <4>2, <4>3, <4>4
    <3> QED
      BY <1>4, <2>2, <3>2, <3>3
  <2> QED
    BY <2>1, <2>2
<1> QED
  BY <1>8, <1>9, <1>10, <1>12, <1>13, <1>14, <1>15 DEF EntriesInv

(* The finally clause stops counting; the last one removes the entry.      *)
LEMMA UncountKeeps ==
  ASSUME LocksInv, NEW t \in Threads, Uncount(t)
  PROVE  LocksInv'
<1> USE DEF LocksInv
<1> DEFINE p == ProcessOf[t]
           last == CHOOSE c \in holds[t].objs : \A d \in holds[t].objs : d[1] <= c[1]
<1>0. last \in holds[t].objs
  <2>1. holds[t].objs \subseteq Paths \X Objects /\ holds[t].objs # {}
    BY DEF Uncount, Phases, LocksTypeOK, Thread
  <2> QED
    BY <2>1, HighestPair
<1> PICK b : b = last
  OBVIOUS
<1> DEFINE f == b[1]
           o == b[2]
           left == holds[t].objs \ {b}
           h == IF left = {} THEN Rest ELSE [holds[t] EXCEPT !.objs = left]
<1>1. /\ holds[t].pc = "unwind" /\ holds[t].mine = {}
      /\ users' = [users EXCEPT ![p][o] = @ - 1]
      /\ entry' = (IF LastUser(p, o) /\ entry[p][f] = o
                   THEN [entry EXCEPT ![p][f] = 0] ELSE entry)
      /\ holds' = [holds EXCEPT ![t] = h]
      /\ UNCHANGED <<shard, locked>>
  BY DEF Uncount, LocksTypeOK
<1>2. p \in Processes /\ holds[t] \in Thread /\ holds \in [Threads -> Thread]
  BY OwnProcess DEF LocksTypeOK
<1>3. b \in holds[t].objs
  BY <1>0
<1> HIDE DEF last
<1>4. f \in Paths /\ o \in Objects /\ b = <<f, o>> /\ entry[p][f] = o /\ 0 \notin Objects
  BY <1>2, <1>3 DEF Thread, CountsOwn, EntriesInv, Objects
<1>5. left \subseteq holds[t].objs /\ <<f, o>> \notin left /\ \A c \in left : c[1] # f
  <2>1. \A c \in left : c \in Paths \X Objects /\ entry[p][c[1]] = c[2]
    BY <1>2 DEF Thread, CountsOwn, EntriesInv
  <2>2. ASSUME NEW c \in left, c[1] = f PROVE FALSE
    <3>1. c = <<c[1], c[2]>> /\ c[2] = o
      BY <1>4, <2>1, <2>2
    <3> QED
      BY <1>4, <2>2, <3>1
  <2> QED
    BY <1>4, <2>2
<1>6. /\ h \in Thread /\ h.pc \in {"rest", "unwind"} /\ h.mine = {} /\ h.objs = left
      /\ h.pc = "rest" <=> left = {}
      /\ h.pc = "unwind" => h.want = holds[t].want
  <2>1. CASE left = {}
    BY <2>1 DEF Rest, Thread
  <2>2. CASE left # {}
    BY <1>1, <1>2, <2>2 DEF Thread
  <2> QED
    BY <2>1, <2>2
<1> DEFINE U == UsersOf(p, f)
<1>7. /\ t \in U /\ users[p][o] = Cardinality(U)
      /\ IsFiniteSet(U) /\ Cardinality(U) \in Nat /\ Cardinality(U) # 0
      /\ Cardinality(U) = 1 => U = {t}
  <2>1. t \in U
    BY <1>3, <1>4 DEF UsersOf
  <2>2. users[p][o] = Cardinality(U)
    BY <1>2, <1>4 DEF EntriesCounted, EntriesInv
  <2>3. IsFiniteSet(U) /\ Cardinality(U) \in Nat
    BY UsersFinite
  <2> HIDE DEF U
  <2>4. Cardinality(U) # 0
    BY <2>1, <2>3, FS_EmptySet
  <2>5. Cardinality(U) = 1 => U = {t}
    <3>1. ASSUME Cardinality(U) = 1 PROVE U = {t}
      <4>1. PICK x : U = {x}
        BY <2>3, <3>1, FS_Singleton
      <4> QED
        BY <2>1, <4>1
    <3> QED
      BY <3>1
  <2> QED
    BY <2>1, <2>2, <2>3, <2>4, <2>5
<1> HIDE DEF f, o, left, h
<1>8. holds'[t] = h /\ \A u \in Threads \ {t} : holds'[u] = holds[u]
  BY <1>1, <1>2
<1>9. /\ users'[p][o] = users[p][o] - 1 /\ users[p][o] \in Nat /\ users[p][o] >= 1
      /\ \A q \in Processes, x \in Objects : (q # p \/ x # o) => users'[q][x] = users[q][x]
      /\ entry'[p][f] = IF users[p][o] = 1 THEN 0 ELSE o
      /\ \A q \in Processes, g \in Paths : (q # p \/ g # f) => entry'[q][g] = entry[q][g]
  BY <1>1, <1>2, <1>4, <1>7 DEF LocksTypeOK, LastUser
<1>10. LocksTypeOK'
  <2>1. holds' \in [Threads -> Thread]
    BY <1>1, <1>2, <1>6
  <2>2. entry' \in [Processes -> [Paths -> Objects \cup {0}]]
    BY <1>1, <1>2, <1>4 DEF LocksTypeOK
  <2>3. users' \in [Processes -> [Objects -> Nat]]
    <3>1. users[p][o] - 1 \in Nat
      BY <1>9
    <3> QED
      BY <1>1, <1>2, <1>4, <3>1 DEF LocksTypeOK
  <2> QED
    BY <1>1, <2>1, <2>2, <2>3 DEF LocksTypeOK
<1>11. ShardsHeld' /\ InsideHasAll'
  BY <1>1, <1>6, <1>8 DEF ShardsHeld, InsideHasAll
<1>12. Phases'
  <2>1. \A u \in Threads \ {t} : Counted(u)' = Counted(u)
    BY <1>8 DEF Counted
  <2>2. Counted(t)' \subseteq holds'[t].want
    <3>1. CASE left = {}
      BY <1>6, <1>8, <3>1 DEF Counted
    <3>2. CASE left # {}
      <4>1. holds'[t].want = holds[t].want /\ Counted(t)' \subseteq Counted(t)
        BY <1>5, <1>6, <1>8, <3>2 DEF Counted
      <4> QED
        BY <4>1 DEF Phases
    <3> QED
      BY <3>1, <3>2
  <2> QED
    BY <1>1, <1>6, <1>8, <2>1, <2>2 DEF Phases
(* Who else counts at the path keeps the entry alive.                      *)
<1>13. ASSUME NEW u \in Threads \ {t}, ProcessOf[u] = p, NEW c \in holds[u].objs, c[1] = f
       PROVE  users[p][o] # 1 /\ c[2] = o
  <2>1. c = <<c[1], c[2]>> /\ entry[p][c[1]] = c[2]
    BY <1>2, <1>13 DEF Thread, CountsOwn, EntriesInv
  <2>2. u \in U
    BY <1>4, <1>13, <2>1 DEF UsersOf
  <2> QED
    BY <1>4, <1>7, <1>13, <2>1, <2>2
<1>14. CountsOwn'
  <2> SUFFICES ASSUME NEW u \in Threads, NEW c \in holds'[u].objs
               PROVE  entry'[ProcessOf[u]][c[1]] = c[2]
    BY DEF CountsOwn
  <2>1. CASE u = t
    <3>1. c \in left /\ c \in holds[t].objs /\ c[1] # f
      BY <1>5, <1>6, <1>8, <2>1
    <3>2. c[1] \in Paths /\ entry[p][c[1]] = c[2]
      BY <1>2, <3>1 DEF Thread, CountsOwn, EntriesInv
    <3> QED
      BY <1>2, <1>9, <2>1, <3>1, <3>2
  <2>2. CASE u # t
    <3>1. c \in holds[u].objs
      BY <1>8, <2>2
    <3>2. c[1] \in Paths /\ entry[ProcessOf[u]][c[1]] = c[2] /\ ProcessOf[u] \in Processes
      BY <1>2, <3>1, OwnProcess DEF Thread, CountsOwn, EntriesInv
    <3>3. CASE ProcessOf[u] = p /\ c[1] = f
      BY <1>9, <1>13, <2>2, <3>1, <3>3
    <3>4. CASE ~(ProcessOf[u] = p /\ c[1] = f)
      BY <1>9, <3>2, <3>4
    <3> QED
      BY <3>3, <3>4
  <2> QED
    BY <2>1, <2>2
<1>15. EntriesDiffer'
  <2> SUFFICES ASSUME NEW q \in Processes, NEW g \in Paths, NEW k \in Paths,
                      entry'[q][g] # 0, entry'[q][g] = entry'[q][k]
               PROVE  g = k
    BY DEF EntriesDiffer
  <2>1. entry'[q][g] = entry[q][g] /\ entry'[q][k] = entry[q][k]
    BY <1>4, <1>9
  <2> QED
    BY <2>1 DEF EntriesDiffer, EntriesInv
<1>16. FreeUnused'
  <2> SUFFICES ASSUME NEW q \in Processes, NEW x \in Objects,
                      \A g \in Paths : entry'[q][g] # x
               PROVE  users'[q][x] = 0
    BY DEF FreeUnused
  <2>1. CASE q = p /\ x = o
    BY <1>4, <1>9, <2>1
  <2>2. CASE ~(q = p /\ x = o)
    <3>1. \A g \in Paths : entry[q][g] # x
      BY <1>4, <1>9, <2>2
    <3> QED
      BY <1>9, <2>2, <3>1 DEF FreeUnused, EntriesInv
  <2> QED
    BY <2>1, <2>2
<1>17. EntriesCounted'
  <2> SUFFICES ASSUME NEW q \in Processes, NEW g \in Paths, entry'[q][g] # 0
               PROVE  /\ users'[q][entry'[q][g]] = Cardinality(UsersOf(q, g)')
                      /\ UsersOf(q, g)' # {}
    BY DEF EntriesCounted
  <2>1. CASE ~(q = p /\ g = f)
    <3>1. entry'[q][g] = entry[q][g] /\ entry[q][g] \in Objects
      BY <1>9, <2>1 DEF LocksTypeOK
    <3>2. q = p => entry[q][g] # o
      BY <1>2, <1>4, <2>1, <3>1 DEF EntriesDiffer, EntriesInv
    <3>3. users'[q][entry[q][g]] = users[q][entry[q][g]]
      BY <1>9, <3>1, <3>2
    <3>4. \A c \in holds[t].objs : c \in left \/ c = <<f, o>>
      BY <1>4 DEF left
    <3>5. ProcessOf[t] = q => (<<g, entry[q][g]>> \in holds[t].objs <=> <<g, entry[q][g]>> \in left)
      BY <1>5, <2>1, <3>4
    <3>6. UsersOf(q, g)' = UsersOf(q, g)
      BY <1>6, <1>8, <3>1, <3>5 DEF UsersOf
    <3> QED
      BY <3>1, <3>3, <3>6 DEF EntriesCounted, EntriesInv
  <2>2. CASE q = p /\ g = f
    <3>1. users[p][o] # 1 /\ entry'[p][f] = o
      BY <1>9, <2>2
    <3>2. UsersOf(p, f)' = U \ {t}
      BY <1>4, <1>5, <1>6, <1>8, <3>1 DEF UsersOf
    <3>3. Cardinality(U \ {t}) = Cardinality(U) - 1 /\ IsFiniteSet(U \ {t})
      <4> HIDE DEF U
      <4> QED
        BY <1>7, FS_RemoveElement
    <3>4. Cardinality(U \ {t}) # 0
      <4> HIDE DEF U
      <4> QED
        BY <1>7, <3>1, <3>3
    <3>5. U \ {t} # {}
      <4> HIDE DEF U
      <4> QED
        BY <3>3, <3>4, FS_EmptySet
    <3> QED
      BY <1>7, <1>9, <2>2, <3>1, <3>2, <3>3, <3>5
  <2> QED
    BY <2>1, <2>2
<1> QED
  BY <1>10, <1>11, <1>12, <1>14, <1>15, <1>16, <1>17 DEF EntriesInv

(* A process that dies leaves no lock file taken and no entry behind.      *)
LEMMA DeathKeeps ==
  ASSUME LocksInv, NEW p \in Processes, ProcessDies(p)
  PROVE  LocksInv'
<1> USE DEF LocksInv
<1>1. /\ holds' = [t \in Threads |-> IF ProcessOf[t] = p THEN Rest ELSE holds[t]]
      /\ entry' = [entry EXCEPT ![p] = [f \in Paths |-> 0]]
      /\ users' = [users EXCEPT ![p] = [o \in Objects |-> 0]]
      /\ shard' = [s \in LockFiles |->
                     IF shard[s] # Unowned /\ ProcessOf[shard[s]] = p THEN Unowned ELSE shard[s]]
      /\ locked' = locked
  BY DEF ProcessDies
<1>2. Rest \in Thread /\ Rest.pc = "rest" /\ Rest.objs = {} /\ Rest.mine = {} /\ Rest.want = {}
  BY DEF Rest, Thread
<1>3. \A t \in Threads : holds'[t] = IF ProcessOf[t] = p THEN Rest ELSE holds[t]
  BY <1>1
<1>4. \A q \in Processes \ {p} : entry'[q] = entry[q] /\ users'[q] = users[q]
  BY <1>1 DEF LocksTypeOK
<1>5. /\ \A f \in Paths : entry'[p][f] = 0
      /\ \A o \in Objects : users'[p][o] = 0
  BY <1>1 DEF LocksTypeOK
<1>6. LocksTypeOK'
  BY <1>1, <1>2 DEF LocksTypeOK
<1>7. ShardsHeld' /\ InsideHasAll'
  BY <1>1, <1>2, <1>3, PathLocksAssumption DEF ShardsHeld, InsideHasAll
<1>8. Phases'
  <2>1. \A t \in Threads : Counted(t)' = IF ProcessOf[t] = p THEN {} ELSE Counted(t)
    BY <1>2, <1>3 DEF Counted
  <2> QED
    BY <1>1, <1>2, <1>3, <2>1 DEF Phases
<1>9. EntriesInv'
  <2>1. CountsOwn'
    <3> SUFFICES ASSUME NEW t \in Threads, NEW b \in holds'[t].objs
                 PROVE  entry'[ProcessOf[t]][b[1]] = b[2]
      BY DEF CountsOwn
    <3>1. ProcessOf[t] # p /\ b \in holds[t].objs
      BY <1>2, <1>3
    <3> QED
      BY <1>4, <3>1, OwnProcess DEF CountsOwn, EntriesInv
  <2>2. \A q \in Processes \ {p}, f \in Paths : UsersOf(q, f)' = UsersOf(q, f)
    BY <1>3, <1>4 DEF UsersOf
  <2>3. EntriesCounted'
    BY <1>4, <1>5, <2>2 DEF EntriesCounted, EntriesInv
  <2>4. EntriesDiffer' /\ FreeUnused'
    BY <1>4, <1>5 DEF EntriesDiffer, FreeUnused, EntriesInv
  <2> QED
    BY <2>1, <2>3, <2>4 DEF EntriesInv
<1> QED
  BY <1>6, <1>7, <1>8, <1>9

-----------------------------------------------------------------------------
LEMMA LocksInvInit == LocksInit => LocksInv
<1> SUFFICES ASSUME LocksInit PROVE LocksInv
  OBVIOUS
<1>1. Rest \in Thread /\ Rest.pc = "rest" /\ Rest.objs = {} /\ Rest.mine = {} /\ Rest.want = {}
  BY DEF Rest, Thread
<1>2. LocksTypeOK
  BY <1>1, PathLocksAssumption DEF LocksInit, LocksTypeOK
<1>3. \A t \in Threads : holds[t] = Rest
  BY DEF LocksInit
<1>4. ShardsHeld /\ InsideHasAll /\ Phases
  BY <1>1, <1>3 DEF ShardsHeld, InsideHasAll, Phases, Counted
<1>5. EntriesInv
  BY <1>1, <1>3 DEF LocksInit, EntriesInv, CountsOwn, EntriesCounted, EntriesDiffer, FreeUnused
<1> QED
  BY <1>2, <1>4, <1>5 DEF LocksInv

LEMMA LocksInvStep == LocksInv /\ [LocksNext]_plVars => LocksInv'
<1> SUFFICES ASSUME LocksInv, [LocksNext]_plVars PROVE LocksInv'
  OBVIOUS
<1>1. ASSUME UNCHANGED plVars PROVE LocksInv'
  <2>1. LocksTypeOK' /\ ShardsHeld' /\ InsideHasAll'
    BY <1>1 DEF plVars, LocksInv, LocksTypeOK, ShardsHeld, InsideHasAll
  <2>2. Phases'
    BY <1>1 DEF plVars, LocksInv, Phases, Counted
  <2>3. \A p \in Processes : \A f \in Paths : UsersOf(p, f)' = UsersOf(p, f)
    BY <1>1 DEF plVars, UsersOf
  <2>4. EntriesInv'
    BY <1>1, <2>3 DEF plVars, LocksInv, EntriesInv, CountsOwn, EntriesCounted, EntriesDiffer,
                      FreeUnused
  <2> QED
    BY <2>1, <2>2, <2>4 DEF LocksInv
<1> QED
  BY <1>1, AskKeeps, LockingKeeps, CountKeeps, UncountKeeps, DeathKeeps DEF LocksNext, LockStep

-----------------------------------------------------------------------------
(* Who waits for whom.                                                     *)
LEMMA HasIs ==
  ASSUME LocksInv, NEW t \in Threads, NEW k, NEW x
  PROVE  x \in Has(t, k) <=> <<k, x>> \in holds[t].mine
<1>1. \A m \in holds[t].mine : m = <<m[1], m[2]>>
  BY DEF LocksInv, LocksTypeOK, Thread
<1> QED
  BY <1>1 DEF Has

(* A step that takes no lock, and gives back none that is held.            *)
LEMMA HoldersKept ==
  ASSUME LocksInv, WaitsInv, NEW t \in Threads, UNCHANGED <<heldBy, shard>>,
         \A u \in Threads \ {t} : holds'[u] = holds[u],
         \/ holds[t].mine = {}
         \/ holds[t].mine \subseteq holds'[t].mine /\ holds[t].objs \subseteq holds'[t].objs
  PROVE  HeldTypeOK' /\ PathHolders' /\ ShardHolders'
<1>1. HeldTypeOK'
  BY DEF WaitsInv, HeldTypeOK
<1>2. PathHolders'
  <2> SUFFICES ASSUME NEW p \in Processes, NEW o \in Objects, heldBy[p][o] # Unowned
               PROVE  /\ heldBy[p][o] \in Threads /\ ProcessOf[heldBy[p][o]] = p
                      /\ \E b \in holds'[heldBy[p][o]].objs :
                           b[2] = o /\ <<"path", b[1]>> \in holds'[heldBy[p][o]].mine
    BY DEF PathHolders
  <2> DEFINE u == heldBy[p][o]
  <2>1. u \in Threads /\ ProcessOf[u] = p
    BY DEF WaitsInv, PathHolders
  <2>2. PICK b \in holds[u].objs : b[2] = o /\ <<"path", b[1]>> \in holds[u].mine
    BY DEF WaitsInv, PathHolders
  <2> HIDE DEF u
  <2>3. b \in holds'[u].objs /\ <<"path", b[1]>> \in holds'[u].mine
    BY <2>1, <2>2
  <2> QED
    BY <2>1, <2>2, <2>3 DEF u
<1>3. ShardHolders'
  <2> SUFFICES ASSUME NEW s \in LockFiles, shard[s] # Unowned
               PROVE  <<"shard", s>> \in holds'[shard[s]].mine
    BY DEF ShardHolders
  <2>1. <<"shard", s>> \in holds[shard[s]].mine /\ shard[s] \in Threads
    BY DEF WaitsInv, ShardHolders, LocksInv, LocksTypeOK
  <2> QED
    BY <2>1
<1> QED
  BY <1>1, <1>2, <1>3

LEMMA PathTakenClimbs ==
  ASSUME LocksInv, WaitsInv, NEW t \in Threads, LockThread(t)
  PROVE  WaitsInv'
<1> DEFINE n0 == NextPath(t)
<1>0. holds[t] \in Thread /\ holds \in [Threads -> Thread]
  BY DEF LocksInv, LocksTypeOK
<1>1. PICK n : n = n0
  OBVIOUS
<1>2. holds[t].pc = "count" /\ Has(t, "path") # holds[t].want
  BY DEF LockThread
<1>3. /\ n \in holds[t].want /\ n \in Nat /\ <<"path", n>> \notin holds[t].mine
      /\ \A g \in holds[t].want : <<"path", g>> \notin holds[t].mine => n <= g
  <2> DEFINE S == holds[t].want \ Has(t, "path")
  <2>1. Has(t, "path") \subseteq holds[t].want
    BY <1>2, HasIs DEF WaitsInv, AllClimb, Climbing
  <2>2. S \subseteq Nat /\ S # {}
    BY <1>0, <1>2, <2>1, PathsAre DEF Thread
  <2>3. n = Lowest(S)
    BY <1>1 DEF NextPath
  <2>4. n \in S /\ \A g \in S : n <= g
    <3> HIDE DEF S
    <3> QED
      BY <2>2, <2>3, LowestIn
  <2> QED
    BY <2>2, <2>4, HasIs
<1>4. PICK b \in holds[t].objs :
        /\ b[1] = n /\ heldBy[ProcessOf[t]][b[2]] = Unowned
        /\ heldBy' = [heldBy EXCEPT ![ProcessOf[t]][b[2]] = t]
  BY <1>1 DEF LockThread
<1>5. /\ holds' = [holds EXCEPT ![t].mine = @ \cup {<<"path", n>>}]
      /\ UNCHANGED <<entry, users, shard, locked>>
  BY <1>1 DEF LockThread
<1> HIDE DEF n0
<1>6. /\ holds'[t].mine = holds[t].mine \cup {<<"path", n>>}
      /\ holds'[t].objs = holds[t].objs /\ holds'[t].want = holds[t].want
      /\ \A u \in Threads \ {t} : holds'[u] = holds[u]
  BY <1>0, <1>5 DEF Thread
<1>7. b[2] \in Objects /\ ProcessOf[t] \in Processes
  BY <1>0, OwnProcess DEF Thread
<1>8. /\ heldBy'[ProcessOf[t]][b[2]] = t
      /\ \A p \in Processes, o \in Objects :
           ~(p = ProcessOf[t] /\ o = b[2]) => heldBy'[p][o] = heldBy[p][o]
  BY <1>4, <1>7 DEF WaitsInv, HeldTypeOK
<1>9. HeldTypeOK'
  BY <1>4, <1>7 DEF WaitsInv, HeldTypeOK
<1>10. PathHolders'
  <2> SUFFICES ASSUME NEW p \in Processes, NEW o \in Objects, heldBy'[p][o] # Unowned
               PROVE  /\ heldBy'[p][o] \in Threads /\ ProcessOf[heldBy'[p][o]] = p
                      /\ \E c \in holds'[heldBy'[p][o]].objs :
                           c[2] = o /\ <<"path", c[1]>> \in holds'[heldBy'[p][o]].mine
    BY DEF PathHolders
  <2>1. CASE p = ProcessOf[t] /\ o = b[2]
    BY <1>4, <1>6, <1>8, <2>1
  <2>2. CASE ~(p = ProcessOf[t] /\ o = b[2])
    <3>1. PICK u \in Threads : u = heldBy[p][o] /\ u = heldBy'[p][o] /\ ProcessOf[u] = p
      BY <1>8, <2>2 DEF WaitsInv, PathHolders
    <3>2. PICK c \in holds[u].objs : c[2] = o /\ <<"path", c[1]>> \in holds[u].mine
      <4>1. heldBy[p][o] # Unowned
        BY <3>1
      <4>2. \E c \in holds[heldBy[p][o]].objs :
              c[2] = o /\ <<"path", c[1]>> \in holds[heldBy[p][o]].mine
        BY <4>1 DEF WaitsInv, PathHolders
      <4> QED
        BY ONLY <3>1, <4>2
    <3>3. c \in holds'[u].objs /\ <<"path", c[1]>> \in holds'[u].mine
      BY <1>6, <3>2
    <3> QED
      BY <3>1, <3>2, <3>3
  <2> QED
    BY <2>1, <2>2
<1>11. ShardHolders'
  <2> SUFFICES ASSUME NEW s \in LockFiles, shard[s] # Unowned
               PROVE  <<"shard", s>> \in holds'[shard[s]].mine
    BY <1>5 DEF ShardHolders
  <2>1. <<"shard", s>> \in holds[shard[s]].mine /\ shard[s] \in Threads
    BY DEF WaitsInv, ShardHolders, LocksInv, LocksTypeOK
  <2> QED
    BY <1>6, <2>1
<1>12. AllClimb'
  <2>1. Climbing(holds[t])
    BY DEF WaitsInv, AllClimb
  <2>2. \A f, g \in holds[t].want :
          <<"path", f>> \in holds'[t].mine /\ <<"path", g>> \notin holds'[t].mine => f < g
    <3> SUFFICES ASSUME NEW f \in holds[t].want, NEW g \in holds[t].want,
                        <<"path", f>> \in holds'[t].mine, <<"path", g>> \notin holds'[t].mine
                 PROVE  f < g
      OBVIOUS
    <3>1. CASE <<"path", f>> \in holds[t].mine
      BY <1>2, <1>6, <2>1, <3>1 DEF Climbing
    <3>2. CASE f = n
      <4>1. n <= g /\ g # n /\ g \in Nat
        BY <1>0, <1>3, <1>6, PathsAre DEF Thread
      <4> QED
        BY <1>3, <3>2, <4>1
    <3> QED
      BY <1>6, <3>1, <3>2
  <2>3. \A s : <<"shard", s>> \in holds'[t].mine <=> <<"shard", s>> \in holds[t].mine
    BY <1>6
  <2>4. Climbing(holds'[t])
    <3>1. \A f : <<"path", f>> \in holds'[t].mine => f \in holds'[t].want
      BY <1>2, <1>3, <1>6, <2>1 DEF Climbing
    <3>2. \A g : <<"path", g>> \in holds[t].mine => <<"path", g>> \in holds'[t].mine
      BY <1>6
    <3>3. \A s \in LockFiles : <<"shard", s>> \in holds'[t].mine =>
            /\ \A g \in holds'[t].want : <<"path", g>> \in holds'[t].mine
            /\ \A g \in holds'[t].want : <<"shard", ShardOf[g]>> \notin holds'[t].mine
                 => s < ShardOf[g]
      BY <1>2, <1>6, <2>1, <2>3, <3>2 DEF Climbing
    <3>4. /\ \A s : <<"shard", s>> \in holds'[t].mine => \E g \in holds'[t].want : s = ShardOf[g]
          /\ \E g \in holds'[t].want : <<"shard", ShardOf[g]>> \notin holds'[t].mine
      BY <1>2, <1>6, <2>1, <2>3 DEF Climbing
    <3> QED
      BY <1>6, <2>2, <3>1, <3>3, <3>4 DEF Climbing
  <2> QED
    BY <1>6, <2>4 DEF WaitsInv, AllClimb
<1> QED
  BY <1>9, <1>10, <1>11, <1>12 DEF WaitsInv

LEMMA ShardTakenClimbs ==
  ASSUME LocksInv, WaitsInv, NEW t \in Threads, LockShard(t)
  PROVE  WaitsInv'
<1>0. holds[t] \in Thread /\ holds \in [Threads -> Thread]
  BY DEF LocksInv, LocksTypeOK
<1>1. PICK s \in Shards(t) \ Has(t, "shard") :
        /\ InOrder(t, s) /\ shard[s] = Unowned
        /\ shard' = [shard EXCEPT ![s] = t]
        /\ holds' = [holds EXCEPT ![t].mine = @ \cup {<<"shard", s>>},
                       ![t].pc = IF Shards(t) = Has(t, "shard") \cup {s} THEN "inside" ELSE @]
  BY DEF LockShard
<1>2. /\ holds[t].pc = "count" /\ Has(t, "path") = holds[t].want
      /\ UNCHANGED <<entry, users, heldBy, locked>>
  BY DEF LockShard
<1>3. s \in Nat /\ s \in LockFiles /\ \A x \in Shards(t) \ Has(t, "shard") : s <= x
  <2> DEFINE S == Shards(t) \ Has(t, "shard")
  <2>1. S \subseteq Nat /\ S \subseteq LockFiles /\ S # {}
    BY <1>0, <1>1, PathsAre DEF Shards, Thread
  <2>2. s = Lowest(S)
    BY <1>1 DEF InOrder, NextShard
  <2> HIDE DEF S
  <2>3. s \in S /\ \A x \in S : s <= x
    BY <2>1, <2>2, LowestIn
  <2> QED
    BY <2>1, <2>3 DEF S
<1>4. /\ holds'[t].mine = holds[t].mine \cup {<<"shard", s>>}
      /\ holds'[t].objs = holds[t].objs /\ holds'[t].want = holds[t].want
      /\ \A u \in Threads \ {t} : holds'[u] = holds[u]
      /\ holds'[t].pc = "count" => Shards(t) # Has(t, "shard") \cup {s}
  BY <1>0, <1>1 DEF Thread
<1>5. HeldTypeOK' /\ PathHolders'
  <2> SUFFICES ASSUME NEW p \in Processes, NEW o \in Objects, heldBy[p][o] # Unowned
               PROVE  /\ heldBy[p][o] \in Threads /\ ProcessOf[heldBy[p][o]] = p
                      /\ \E c \in holds'[heldBy[p][o]].objs :
                           c[2] = o /\ <<"path", c[1]>> \in holds'[heldBy[p][o]].mine
    BY <1>2 DEF WaitsInv, HeldTypeOK, PathHolders
  <2>1. PICK u \in Threads : u = heldBy[p][o] /\ ProcessOf[u] = p
    BY DEF WaitsInv, PathHolders
  <2>2. PICK c \in holds[u].objs : c[2] = o /\ <<"path", c[1]>> \in holds[u].mine
    BY <2>1 DEF WaitsInv, PathHolders
  <2>3. c \in holds'[u].objs /\ <<"path", c[1]>> \in holds'[u].mine
    BY <1>4, <2>2
  <2> QED
    BY <2>1, <2>2, <2>3
<1>6. ShardHolders'
  <2> SUFFICES ASSUME NEW x \in LockFiles, shard'[x] # Unowned
               PROVE  <<"shard", x>> \in holds'[shard'[x]].mine
    BY DEF ShardHolders
  <2>1. CASE x = s
    BY <1>1, <1>3, <1>4, <2>1 DEF LocksInv, LocksTypeOK
  <2>2. CASE x # s
    <3>1. shard'[x] = shard[x]
      BY <1>1, <1>3, <2>2 DEF LocksInv, LocksTypeOK
    <3>2. <<"shard", x>> \in holds[shard[x]].mine /\ shard[x] \in Threads
      BY <3>1 DEF WaitsInv, ShardHolders, LocksInv, LocksTypeOK
    <3> QED
      BY <1>4, <3>1, <3>2
  <2> QED
    BY <2>1, <2>2
<1>7. Climbing(holds'[t])
  <2> SUFFICES ASSUME holds'[t].pc = "count" PROVE Climbing(holds'[t])
    BY DEF Climbing
  <2>1. /\ \A f : <<"path", f>> \in holds[t].mine => f \in holds[t].want
        /\ \A x : <<"shard", x>> \in holds[t].mine => \E g \in holds[t].want : x = ShardOf[g]
        /\ \A x \in LockFiles : <<"shard", x>> \in holds[t].mine =>
             \A g \in holds[t].want : <<"shard", ShardOf[g]>> \notin holds[t].mine => x < ShardOf[g]
    BY <1>2 DEF WaitsInv, AllClimb, Climbing
  <2>2. \A g \in holds[t].want : <<"path", g>> \in holds'[t].mine
    BY <1>2, <1>4, HasIs
  <2>3. \A f : <<"path", f>> \in holds'[t].mine => f \in holds[t].want
    BY <1>4, <2>1
  <2>4. PICK h \in holds[t].want : s = ShardOf[h]
    BY <1>1 DEF Shards
  <2>5. \A x : <<"shard", x>> \in holds'[t].mine => \E g \in holds[t].want : x = ShardOf[g]
    BY <1>4, <2>1, <2>4
  <2>6. \A g \in holds[t].want : <<"shard", ShardOf[g]>> \notin holds'[t].mine =>
          /\ ShardOf[g] \in Shards(t) \ Has(t, "shard") /\ ShardOf[g] # s /\ ShardOf[g] \in Nat
          /\ <<"shard", ShardOf[g]>> \notin holds[t].mine
    BY <1>0, <1>4, HasIs, PathsAre DEF Shards, Thread
  <2>7. \A g \in holds[t].want : <<"shard", ShardOf[g]>> \notin holds'[t].mine => s < ShardOf[g]
    BY <1>3, <2>6
  <2>8. \A x \in LockFiles : <<"shard", x>> \in holds'[t].mine =>
          \A g \in holds[t].want : <<"shard", ShardOf[g]>> \notin holds'[t].mine => x < ShardOf[g]
    BY <1>4, <2>1, <2>6, <2>7
  <2>9. \E g \in holds[t].want : <<"shard", ShardOf[g]>> \notin holds'[t].mine
    <3>1. Has(t, "shard") \cup {s} \subseteq Shards(t)
      BY <1>1, <2>1, HasIs DEF Shards
    <3>2. PICK x \in Shards(t) : x \notin Has(t, "shard") \cup {s}
      BY <1>4, <3>1
    <3>3. <<"shard", x>> \notin holds'[t].mine
      BY <1>4, <3>2, HasIs
    <3> QED
      BY <3>3 DEF Shards
  <2> QED
    BY <1>4, <2>2, <2>3, <2>5, <2>8, <2>9 DEF Climbing
<1>8. AllClimb'
  BY <1>4, <1>7 DEF WaitsInv, AllClimb
<1> QED
  BY <1>5, <1>6, <1>8 DEF WaitsInv

(* Who gives everything back, and whose process dies, is waited for by     *)
(* nobody; the locks of the others stay theirs.                            *)
LEMMA UnlockClimbs ==
  ASSUME LocksInv, WaitsInv, NEW t \in Threads, Unlock(t)
  PROVE  WaitsInv'
<1>0. holds[t] \in Thread /\ holds \in [Threads -> Thread] /\ ProcessOf[t] \in Processes
  BY OwnProcess DEF LocksInv, LocksTypeOK
<1>1. /\ holds[t].pc = "unwind" /\ holds' = [holds EXCEPT ![t].mine = {}]
      /\ shard' = [s \in LockFiles |-> IF shard[s] = t THEN Unowned ELSE shard[s]]
      /\ heldBy' = [heldBy EXCEPT ![ProcessOf[t]] =
                      [o \in Objects |-> IF @[o] = t THEN Unowned ELSE @[o]]]
  BY DEF Unlock
<1>2. holds'[t].pc = "unwind" /\ \A u \in Threads \ {t} : holds'[u] = holds[u]
  BY <1>0, <1>1 DEF Thread
<1>3. \A p \in Processes, o \in Objects :
        heldBy'[p][o] = IF p = ProcessOf[t] /\ heldBy[p][o] = t THEN Unowned ELSE heldBy[p][o]
  BY <1>0, <1>1 DEF WaitsInv, HeldTypeOK
<1>4. HeldTypeOK'
  BY <1>0, <1>1 DEF WaitsInv, HeldTypeOK
<1>5. PathHolders'
  <2> SUFFICES ASSUME NEW p \in Processes, NEW o \in Objects, heldBy'[p][o] # Unowned
               PROVE  /\ heldBy'[p][o] \in Threads /\ ProcessOf[heldBy'[p][o]] = p
                      /\ \E c \in holds'[heldBy'[p][o]].objs :
                           c[2] = o /\ <<"path", c[1]>> \in holds'[heldBy'[p][o]].mine
    BY DEF PathHolders
  <2>1. heldBy'[p][o] = heldBy[p][o] /\ heldBy[p][o] # Unowned
    BY <1>3
  <2>2. PICK u \in Threads : u = heldBy[p][o] /\ ProcessOf[u] = p
    BY <2>1 DEF WaitsInv, PathHolders
  <2>3. PICK c \in holds[u].objs : c[2] = o /\ <<"path", c[1]>> \in holds[u].mine
    BY <2>1, <2>2 DEF WaitsInv, PathHolders
  <2>4. u # t
    BY <1>3, <2>1, <2>2
  <2> QED
    BY <1>2, <2>1, <2>2, <2>3, <2>4
<1>6. ShardHolders'
  <2> SUFFICES ASSUME NEW s \in LockFiles, shard'[s] # Unowned
               PROVE  <<"shard", s>> \in holds'[shard'[s]].mine
    BY DEF ShardHolders
  <2>1. shard'[s] = shard[s] /\ shard[s] # t /\ shard[s] # Unowned
    BY <1>1
  <2>2. <<"shard", s>> \in holds[shard[s]].mine /\ shard[s] \in Threads
    BY <2>1 DEF WaitsInv, ShardHolders, LocksInv, LocksTypeOK
  <2> QED
    BY <1>2, <2>1, <2>2
<1>7. AllClimb'
  BY <1>2 DEF WaitsInv, AllClimb, Climbing
<1> QED
  BY <1>4, <1>5, <1>6, <1>7 DEF WaitsInv

LEMMA DeathClimbs ==
  ASSUME LocksInv, WaitsInv, NEW q \in Processes, ProcessDies(q)
  PROVE  WaitsInv'
<1>1. /\ holds' = [t \in Threads |-> IF ProcessOf[t] = q THEN Rest ELSE holds[t]]
      /\ heldBy' = [heldBy EXCEPT ![q] = [o \in Objects |-> Unowned]]
      /\ shard' = [s \in LockFiles |->
                     IF shard[s] # Unowned /\ ProcessOf[shard[s]] = q THEN Unowned ELSE shard[s]]
  BY DEF ProcessDies
<1>2. \A p \in Processes, o \in Objects :
        heldBy'[p][o] = IF p = q THEN Unowned ELSE heldBy[p][o]
  BY <1>1 DEF WaitsInv, HeldTypeOK
<1>3. HeldTypeOK'
  BY <1>1 DEF WaitsInv, HeldTypeOK
<1>4. PathHolders'
  <2> SUFFICES ASSUME NEW p \in Processes, NEW o \in Objects, heldBy'[p][o] # Unowned
               PROVE  /\ heldBy'[p][o] \in Threads /\ ProcessOf[heldBy'[p][o]] = p
                      /\ \E c \in holds'[heldBy'[p][o]].objs :
                           c[2] = o /\ <<"path", c[1]>> \in holds'[heldBy'[p][o]].mine
    BY DEF PathHolders
  <2>1. heldBy'[p][o] = heldBy[p][o] /\ heldBy[p][o] # Unowned /\ p # q
    BY <1>2
  <2>2. PICK u \in Threads : u = heldBy[p][o] /\ ProcessOf[u] = p
    BY <2>1 DEF WaitsInv, PathHolders
  <2>3. PICK c \in holds[u].objs : c[2] = o /\ <<"path", c[1]>> \in holds[u].mine
    BY <2>1, <2>2 DEF WaitsInv, PathHolders
  <2>4. holds'[u] = holds[u]
    BY <1>1, <2>1, <2>2
  <2> QED
    BY <2>1, <2>2, <2>3, <2>4
<1>5. ShardHolders'
  <2> SUFFICES ASSUME NEW s \in LockFiles, shard'[s] # Unowned
               PROVE  <<"shard", s>> \in holds'[shard'[s]].mine
    BY DEF ShardHolders
  <2>1. shard'[s] = shard[s] /\ ProcessOf[shard[s]] # q /\ shard[s] # Unowned
    BY <1>1
  <2>2. <<"shard", s>> \in holds[shard[s]].mine /\ shard[s] \in Threads
    BY <2>1 DEF WaitsInv, ShardHolders, LocksInv, LocksTypeOK
  <2> QED
    BY <1>1, <2>1, <2>2
<1>6. Rest.pc # "count"
  BY DEF Rest
<1>7. AllClimb'
  BY <1>1, <1>6 DEF WaitsInv, AllClimb, Climbing
<1> QED
  BY <1>3, <1>4, <1>5, <1>7 DEF WaitsInv

(* The other steps take no lock.                                           *)
LEMMA OthersClimb ==
  ASSUME LocksInv, WaitsInv, NEW t \in Threads,
         \/ \E S \in FileRequests \cup StateRequests : Ask(t, S)
         \/ Count(t) \/ Exits(t) \/ Uncount(t)
  PROVE  WaitsInv'
<1>0. holds[t] \in Thread /\ holds \in [Threads -> Thread]
  BY DEF LocksInv, LocksTypeOK
<1>1. UNCHANGED <<heldBy, shard>> /\ \A u \in Threads \ {t} : holds'[u] = holds[u]
  BY <1>0 DEF Ask, Count, Exits, Uncount
<1>2. /\ \/ holds[t].mine = {}
         \/ holds[t].mine \subseteq holds'[t].mine /\ holds[t].objs \subseteq holds'[t].objs
      /\ Climbing(holds'[t])
  <2>1. CASE \E S \in FileRequests \cup StateRequests : Ask(t, S)
    <3>1. PICK S \in FileRequests \cup StateRequests : Ask(t, S)
      BY <2>1
    <3>2. holds[t].mine = {}
      BY <3>1 DEF Ask, LocksInv, Phases
    <3>3. S # {}
      BY DEF FileRequests, StateRequests
    <3>4. holds'[t] = [Rest EXCEPT !.pc = "count", !.want = S]
      BY <1>0, <3>1 DEF Ask
    <3>5. holds'[t].mine = {} /\ holds'[t].want = S
      BY <3>4 DEF Rest
    <3> QED
      BY <3>2, <3>3, <3>5 DEF Climbing
  <2>2. CASE Count(t)
    <3>1. PICK c : holds' = [holds EXCEPT ![t].objs = @ \cup {c}]
      BY <2>2 DEF Count
    <3>2. /\ holds'[t].mine = holds[t].mine /\ holds'[t].want = holds[t].want
          /\ holds'[t].pc = holds[t].pc /\ holds[t].objs \subseteq holds'[t].objs
      BY <1>0, <3>1 DEF Thread
    <3> QED
      BY <3>2 DEF WaitsInv, AllClimb, Climbing
  <2>3. CASE Exits(t)
    <3>1. /\ holds'[t].mine = holds[t].mine /\ holds'[t].objs = holds[t].objs
          /\ holds'[t].pc = "unwind"
      BY <1>0, <2>3 DEF Exits, Thread
    <3> QED
      BY <3>1 DEF Climbing
  <2>4. CASE Uncount(t)
    <3>1. PICK B : holds' = [holds EXCEPT ![t] = IF B = {} THEN Rest ELSE [@ EXCEPT !.objs = B]]
      BY <2>4 DEF Uncount
    <3>2. holds[t].pc = "unwind" /\ holds[t].mine = {}
      BY <2>4 DEF Uncount
    <3>3. holds'[t] = IF B = {} THEN Rest ELSE [holds[t] EXCEPT !.objs = B]
      BY <1>0, <3>1
    <3>4. holds'[t].pc # "count"
      BY <1>0, <3>2, <3>3 DEF Rest, Thread
    <3> QED
      BY <3>2, <3>4 DEF Climbing
  <2> QED
    BY <2>1, <2>2, <2>3, <2>4
<1>3. HeldTypeOK' /\ PathHolders' /\ ShardHolders'
  BY <1>1, <1>2, HoldersKept
<1>4. AllClimb'
  BY <1>1, <1>2 DEF WaitsInv, AllClimb
<1> QED
  BY <1>3, <1>4 DEF WaitsInv

LEMMA WaitsInvStep == LocksInv /\ WaitsInv /\ [LocksNext]_plVars => WaitsInv'
<1> SUFFICES ASSUME LocksInv, WaitsInv, [LocksNext]_plVars PROVE WaitsInv'
  OBVIOUS
<1>1. ASSUME UNCHANGED plVars PROVE WaitsInv'
  BY <1>1 DEF plVars, WaitsInv, HeldTypeOK, PathHolders, ShardHolders, AllClimb, Climbing
<1> QED
  BY <1>1, PathTakenClimbs, ShardTakenClimbs, UnlockClimbs, DeathClimbs, OthersClimb
     DEF LocksNext, LockStep

LEMMA WaitsInvInit == LocksInit => WaitsInv
<1> SUFFICES ASSUME LocksInit PROVE WaitsInv
  OBVIOUS
<1>1. HeldTypeOK /\ PathHolders /\ ShardHolders
  BY DEF LocksInit, HeldTypeOK, PathHolders, ShardHolders
<1>2. Rest.pc # "count"
  BY DEF Rest
<1>3. AllClimb
  BY <1>2 DEF LocksInit, AllClimb, Climbing
<1> QED
  BY <1>1, <1>3 DEF WaitsInv

LEMMA InductiveInit == LocksInit => InductiveInv
  BY LocksInvInit, WaitsInvInit DEF InductiveInv

LEMMA InductiveStep == InductiveInv /\ [LocksNext]_plVars => InductiveInv'
  BY LocksInvStep, WaitsInvStep DEF InductiveInv

THEOREM LocksInvariant == LocksSpec => []InductiveInv
BY InductiveInit, InductiveStep, PTL DEF LocksSpec

(* No two threads, of one process or of two, are inside for the same path, *)
(* and in one process all who want a path count at one lock object, which  *)
(* lives exactly as long as somebody counts there.  Nobody waits in a      *)
(* circle: along a chain of waiting threads the locks come later and later.*)
THEOREM LocksTheorem == LocksSpec => []LocksSound
<1>1. ASSUME LocksInv PROVE Exclusive
  <2> SUFFICES ASSUME NEW t \in Threads, NEW u \in Threads, t # u,
                      holds[t].pc = "inside", holds[u].pc = "inside",
                      NEW f \in holds[t].want, f \in holds[u].want
               PROVE  FALSE
    BY DEF Exclusive
  <2>1. f \in Paths
    BY <1>1 DEF LocksInv, LocksTypeOK, Thread
  <2>2. shard[ShardOf[f]] = t /\ shard[ShardOf[f]] = u
    BY <1>1, <2>1, PathsAre DEF LocksInv, InsideHasAll, ShardsHeld
  <2> QED
    BY <2>2
<1>2. ASSUME LocksInv PROVE OneObject
  <2> SUFFICES ASSUME NEW p \in Processes
               PROVE  /\ \A t \in Threads : ProcessOf[t] = p =>
                           \A b \in holds[t].objs : entry[p][b[1]] = b[2]
                      /\ \A f \in Paths : entry[p][f] # 0 =>
                           users[p][entry[p][f]] = Cardinality(UsersOf(p, f))
                      /\ (\A t \in Threads : ProcessOf[t] = p => holds[t].objs = {})
                           => \A f \in Paths : entry[p][f] = 0
    BY DEF OneObject, UsersOf
  <2>1. \A t \in Threads : ProcessOf[t] = p => \A b \in holds[t].objs : entry[p][b[1]] = b[2]
    BY <1>2 DEF LocksInv, EntriesInv, CountsOwn
  <2>2. \A f \in Paths : entry[p][f] # 0 =>
          users[p][entry[p][f]] = Cardinality(UsersOf(p, f)) /\ UsersOf(p, f) # {}
    BY <1>2 DEF LocksInv, EntriesInv, EntriesCounted
  <2>3. (\A t \in Threads : ProcessOf[t] = p => holds[t].objs = {})
          => \A f \in Paths : UsersOf(p, f) = {}
    BY DEF UsersOf
  <2> QED
    BY <2>1, <2>2, <2>3
<1>3. ASSUME LocksInv, WaitsInv PROVE WaitsClimb
  <2> SUFFICES ASSUME NEW t \in Threads, NEW u \in Threads, WaitsFor(t, u)
               PROVE  /\ NeedsPath(u) => NeedsPath(t) /\ NextPath(t) < NextPath(u)
                      /\ NeedsShard(t) /\ NeedsShard(u) => NextShard(t) < NextShard(u)
    BY DEF WaitsClimb
  <2> USE <1>3
  <2>1. ASSUME NEW v \in Threads, NeedsPath(v)
        PROVE  NextPath(v) \in holds[v].want /\ <<"path", NextPath(v)>> \notin holds[v].mine
    <3>1. holds[v].want \ Has(v, "path") # {}
      BY <2>1, HasIs DEF NeedsPath, InQueue, WaitsInv, AllClimb, Climbing
    <3>2. holds[v].want \ Has(v, "path") \subseteq Nat
      BY PathsAre DEF LocksInv, LocksTypeOK, Thread
    <3>3. NextPath(v) \in holds[v].want \ Has(v, "path")
      BY <3>1, <3>2, LowestIn DEF NextPath
    <3> QED
      BY <3>3, HasIs
  <2>2. ASSUME NEW v \in Threads, NeedsShard(v)
        PROVE  \E g \in holds[v].want : NextShard(v) = ShardOf[g] /\ <<"shard", ShardOf[g]>> \notin holds[v].mine
    <3>1. Shards(v) \ Has(v, "shard") # {}
      <4>1. PICK g \in holds[v].want : <<"shard", ShardOf[g]>> \notin holds[v].mine
        BY <2>2 DEF NeedsShard, InQueue, WaitsInv, AllClimb, Climbing
      <4>2. ShardOf[g] \in Shards(v) /\ ShardOf[g] \notin Has(v, "shard")
        BY <4>1, HasIs DEF Shards
      <4> QED
        BY <4>2
    <3>2. Shards(v) \ Has(v, "shard") \subseteq Nat
      <4>1. holds[v].want \subseteq Paths
        BY DEF LocksInv, LocksTypeOK, Thread
      <4> QED
        BY <4>1, PathsAre DEF Shards
    <3>3. NextShard(v) \in Shards(v) \ Has(v, "shard")
      BY <3>1, <3>2, LowestIn DEF NextShard
    <3> QED
      BY <3>3, HasIs DEF Shards
  <2>3. ASSUME NeedsPath(t)
        PROVE  <<"path", NextPath(t)>> \in holds[u].mine
    <3>1. PICK b \in holds[t].objs : b[1] = NextPath(t) /\ heldBy[ProcessOf[t]][b[2]] = u
      BY <2>3 DEF WaitsFor, NeedsPath, NeedsShard
    <3>2. b[1] \in Paths /\ b[2] \in Objects /\ ProcessOf[t] \in Processes /\ u # Unowned
      BY OwnProcess, PathLocksAssumption DEF LocksInv, LocksTypeOK, Thread
    <3>3. PICK c \in holds[u].objs : c[2] = b[2] /\ <<"path", c[1]>> \in holds[u].mine
      BY <3>1, <3>2 DEF WaitsInv, PathHolders
    <3>4. ProcessOf[u] = ProcessOf[t] /\ c[1] \in Paths
      BY <3>1, <3>2 DEF WaitsInv, PathHolders, LocksInv, LocksTypeOK, Thread
    <3>5. entry[ProcessOf[t]][b[1]] = b[2] /\ entry[ProcessOf[t]][c[1]] = b[2]
      BY <3>3, <3>4 DEF LocksInv, EntriesInv, CountsOwn
    <3>6. b[2] # 0
      BY <3>2 DEF Objects
    <3>7. b[1] = c[1]
      BY <3>2, <3>4, <3>5, <3>6 DEF LocksInv, EntriesInv, EntriesDiffer
    <3> QED
      BY <3>1, <3>3, <3>7
  <2>4. ASSUME NeedsShard(t)
        PROVE  <<"shard", NextShard(t)>> \in holds[u].mine /\ NextShard(t) \in LockFiles
    <3>1. shard[NextShard(t)] = u /\ u # Unowned
      BY <2>4, PathLocksAssumption DEF WaitsFor, NeedsPath, NeedsShard
    <3>2. NextShard(t) \in LockFiles
      BY <2>2, <2>4, PathsAre DEF LocksInv, LocksTypeOK, Thread
    <3> QED
      BY <3>1, <3>2 DEF WaitsInv, ShardHolders
  <2>5. NeedsPath(t) \/ NeedsShard(t)
    BY DEF WaitsFor
  <2>6. ASSUME NeedsPath(u) PROVE NeedsPath(t) /\ NextPath(t) < NextPath(u)
    <3>1. NextPath(u) \in holds[u].want /\ <<"path", NextPath(u)>> \notin holds[u].mine
      BY <2>1, <2>6
    <3>2. Climbing(holds[u]) /\ holds[u].pc = "count"
      BY <2>6 DEF WaitsInv, AllClimb, NeedsPath, InQueue
    <3>3. ~NeedsShard(t)
      BY <2>4, <3>1, <3>2 DEF Climbing
    <3>4. <<"path", NextPath(t)>> \in holds[u].mine
      BY <2>3, <2>5, <3>3
    <3> QED
      BY <2>5, <3>1, <3>2, <3>3, <3>4 DEF Climbing
  <2>7. ASSUME NeedsShard(t), NeedsShard(u) PROVE NextShard(t) < NextShard(u)
    <3>1. PICK g \in holds[u].want : NextShard(u) = ShardOf[g] /\ <<"shard", ShardOf[g]>> \notin holds[u].mine
      BY <2>2, <2>7
    <3>2. Climbing(holds[u]) /\ holds[u].pc = "count"
      BY <2>7 DEF WaitsInv, AllClimb, NeedsShard, InQueue
    <3> QED
      BY <2>4, <2>7, <3>1, <3>2 DEF Climbing
  <2> QED
    BY <2>6, <2>7
<1>4. InductiveInv => LocksSound
  BY <1>1, <1>2, <1>3 DEF LocksSound, InductiveInv
<1> QED
  BY <1>4, LocksInvariant, PTL

(*****************************************************************************)
(* The copy of a directory.                                                  *)
(*****************************************************************************)

(* What is at the destination and in the backup, by the step of the unpacking.  Until *)
(* it moves something away the first tree is there; then it is in the backup, and     *)
(* somebody else may fill the destination. A backup survives a failed commit only     *)
(* when its return failed too, or another's tree is in its place.                     *)
OldNotMoved == backup = "none" /\ tree # "new" /\ (dir.first = "old" => tree = "old")
OldMoved == tree \notin {"old", "new"} /\ (dir.first = "old" => backup = "old")
OldReturning ==
  /\ tree # "new" /\ (dir.first = "old" => "old" \in {tree, backup})
  /\ backup # "none" => bad >= 2 \/ tree = "theirs"
  /\ backup # "none" /\ tree = "empty" => bad >= 3
TreeInv ==
  /\ unpack \in {"idle", "extract", "replace", "moveEmpty", "moveOld"} => OldNotMoved
  /\ unpack = "moveEmpty" => tree \in {"empty", "theirs"}
  /\ unpack = "moveOld" => dir.overwrite /\ tree \in {"old", "theirs"}
  /\ unpack = "commit" => OldMoved /\ (tree # "none" => bad >= 1)
  /\ unpack = "restore" =>
       OldMoved /\ backup # "none" /\ bad >= 1 /\ (tree = "empty" => bad >= 2)
  /\ unpack = "rollback" => OldReturning
  /\ unpack \in {"tidy", "done"} => tree = "new"

(* The copy says that it is done when the unpacking is, and cleans up in order.       *)
CopyInv ==
  /\ dir.pc \in {"pack", "alloc", "file", "unpack"} => unpack = "idle"
  /\ dir.pc \in {"pack", "alloc", "file", "unpack", "unpacking"} => dir.verdict = "running"
  /\ dir.verdict = "copied" => unpack = "done"
  /\ dir.pc \in {"cleanSrc", "end"} => "dst" \notin archives \cap known \/ "dst" \in dir.missed
  /\ dir.pc = "end" => "src" \notin archives \cap known \/ "src" \in dir.missed

TreesInv == DirTypeOK /\ OldTreeKept /\ TreeInv /\ CopyInv

(* The copy and its archive begin with the destination as it was.                     *)
LEMMA TreesInvInit == DirInit => TreesInv
BY BadAssumption DEF DirInit, TreesInv, DirTypeOK, OldTreeKept, TreeInv, OldNotMoved, OldMoved,
   OldReturning, CopyInv

(* A copy that goes to another step changes nothing else of itself.                   *)
LEMMA DirGoes ==
  ASSUME DirTypeOK, NEW pc,
         pc \in {"pack", "alloc", "file", "unpack", "unpacking", "cleanDst", "cleanSrc", "end"},
         DirGoto(pc)
  PROVE  /\ dir'.pc = pc /\ dir'.verdict = dir.verdict
         /\ dir'.overwrite = dir.overwrite /\ dir'.first = dir.first
         /\ dir'.missed = dir.missed
         /\ dir' \in [pc : {"pack", "alloc", "file", "unpack", "unpacking",
                            "cleanDst", "cleanSrc", "end"},
                      verdict : {"running", "copied", "failed", "cancelled"},
                      overwrite : BOOLEAN, first : {"old", "empty", "none"},
                      missed : SUBSET {"src", "dst", "staging"}]
BY DEF DirTypeOK, DirGoto

(* A copy that ends goes on to the cleanup with its verdict.                          *)
LEMMA DirEnds ==
  ASSUME DirTypeOK, NEW verdict \in {"copied", "failed", "cancelled"}, Ending(verdict)
  PROVE  /\ dir'.pc = "cleanDst" /\ dir'.verdict = verdict
         /\ dir'.overwrite = dir.overwrite /\ dir'.first = dir.first
         /\ dir'.missed = dir.missed
         /\ dir' \in [pc : {"pack", "alloc", "file", "unpack", "unpacking",
                            "cleanDst", "cleanSrc", "end"},
                      verdict : {"running", "copied", "failed", "cancelled"},
                      overwrite : BOOLEAN, first : {"old", "empty", "none"},
                      missed : SUBSET {"src", "dst", "staging"}]
BY DEF DirTypeOK, Ending

(* A step of the copy leaves the trees alone; it may end, or begin the unpacking.     *)
LEMMA CopyKeeps ==
  ASSUME TreesInv, DirStep \/ StepFails \/ StopWaiting \/ CleanFails
  PROVE  TreesInv'
<1> USE DEF TreesInv
<1>1. CASE Pack
  BY <1>1, DirGoes DEF Pack, DirTypeOK, OldTreeKept, TreeInv, OldNotMoved, OldMoved, OldReturning, CopyInv
<1>2. CASE AllocArchive
  BY <1>2, DirGoes DEF AllocArchive, DirTypeOK, OldTreeKept, TreeInv, OldNotMoved, OldMoved,
     OldReturning, CopyInv
<1>3. CASE CopyArchive
  BY <1>3, DirGoes DEF CopyArchive, DirTypeOK, OldTreeKept, TreeInv, OldNotMoved, OldMoved,
     OldReturning, CopyInv
<1>4. CASE CallUnpack
  BY <1>4, DirGoes DEF CallUnpack, DirTypeOK, OldTreeKept, TreeInv, OldNotMoved, OldMoved,
     OldReturning, CopyInv
<1>5. CASE Unpacked
  BY <1>5, DirEnds DEF Unpacked, DirTypeOK, OldTreeKept, TreeInv, OldNotMoved, OldMoved,
     OldReturning, CopyInv
<1>6. CASE CleanDst
  BY <1>6, DirGoes DEF CleanDst, DirTypeOK, OldTreeKept, TreeInv, OldNotMoved, OldMoved,
     OldReturning, CopyInv
<1>7. CASE CleanSrc
  BY <1>7, DirGoes DEF CleanSrc, DirTypeOK, OldTreeKept, TreeInv, OldNotMoved, OldMoved,
     OldReturning, CopyInv
<1>8. CASE StepFails
  <2>1. PICK verdict \in {"failed", "cancelled"} : Ending(verdict)
    BY <1>8 DEF StepFails
  <2>2. archives' \subseteq {"src", "dst"} /\ bad' \in 0..MaxBad /\ bad' >= bad
    BY <1>8, BadAssumption DEF StepFails, DirTypeOK, Bad
  <2> QED
    BY <1>8, <2>1, <2>2, DirEnds, BadAssumption DEF StepFails, DirTypeOK, OldTreeKept, TreeInv,
       OldNotMoved, OldMoved, OldReturning, CopyInv
<1>9. CASE StopWaiting
  BY <1>9, DirEnds, BadAssumption DEF StopWaiting, Bad, DirTypeOK, OldTreeKept, TreeInv,
     OldNotMoved, OldMoved, OldReturning, CopyInv
<1>10. CASE CleanFails
  <2>1. \E pc \in {"cleanSrc", "end"}, m \in {"src", "dst"} :
          /\ dir' = [dir EXCEPT !.pc = pc, !.missed = @ \cup {m}]
          /\ pc = "cleanSrc" => dir.pc = "cleanDst" /\ m = "dst"
          /\ pc = "end" => dir.pc = "cleanSrc" /\ m = "src"
          /\ archives' \in {archives, archives \ {m}}
    BY <1>10 DEF CleanFails
  <2>2. PICK pc \in {"cleanSrc", "end"}, m \in {"src", "dst"} :
          /\ dir' = [dir EXCEPT !.pc = pc, !.missed = @ \cup {m}]
          /\ pc = "cleanSrc" => dir.pc = "cleanDst" /\ m = "dst"
          /\ pc = "end" => dir.pc = "cleanSrc" /\ m = "src"
          /\ archives' \in {archives, archives \ {m}}
    BY <2>1
  <2>3. /\ dir'.pc = pc /\ dir'.verdict = dir.verdict /\ dir'.overwrite = dir.overwrite
        /\ dir'.first = dir.first /\ dir'.missed = dir.missed \cup {m}
        /\ dir' \in [pc : {"pack", "alloc", "file", "unpack", "unpacking",
                           "cleanDst", "cleanSrc", "end"},
                     verdict : {"running", "copied", "failed", "cancelled"},
                     overwrite : BOOLEAN, first : {"old", "empty", "none"},
                     missed : SUBSET {"src", "dst", "staging"}]
    BY <2>2 DEF DirTypeOK
  <2>4. UNCHANGED <<known, unpack, tree, staging, backup>> /\ bad' \in 0..MaxBad /\ bad' >= bad
    BY <1>10, BadAssumption DEF CleanFails, Bad, DirTypeOK
  <2> QED
    BY <2>2, <2>3, <2>4, BadAssumption DEF DirTypeOK, OldTreeKept, TreeInv, OldNotMoved, OldMoved,
       OldReturning, CopyInv
<1> QED
  BY <1>1, <1>2, <1>3, <1>4, <1>5, <1>6, <1>7, <1>8, <1>9, <1>10 DEF DirStep

(* A step of the unpacking, of another writer, or its death.                          *)
LEMMA UnpackKeeps ==
  ASSUME TreesInv, UnpackStep \/ DirBad, ~StepFails, ~StopWaiting, ~CleanFails
  PROVE  TreesInv'
<1> USE BadAssumption DEF TreesInv, DirTypeOK, OldTreeKept, TreeInv, OldNotMoved, OldMoved,
                          OldReturning, CopyInv, UGoto, Bad, Vacant
<1>1. CASE Extract
  <2>1. CASE "dst" \in archives BY <1>1, <2>1 DEF Extract
  <2>2. CASE "dst" \notin archives
    <3>1. unpack' = "rollback" /\ UNCHANGED <<dir, archives, known, tree, staging, backup, bad>>
      BY <1>1, <2>2 DEF Extract
    <3>2. backup = "none" /\ tree # "new" /\ (dir.first = "old" => tree = "old")
          /\ unpack = "extract"
      BY <1>1 DEF Extract
    <3> QED BY <3>1, <3>2
  <2> QED BY <2>1, <2>2
<1>2. CASE Refused BY <1>2 DEF Refused
<1>3. CASE Replaceable
  <2>1. CASE tree = "none" BY <1>3, <2>1 DEF Replaceable
  <2>2. CASE tree = "empty" BY <1>3, <2>2 DEF Replaceable
  <2>3. CASE tree \notin {"none", "empty"}
    BY <1>3, <2>3 DEF Replaceable, MayReplace
  <2> QED BY <2>1, <2>2, <2>3
<1>4. CASE MoveAway BY <1>4 DEF MoveAway
<1>5. CASE Commit BY <1>5 DEF Commit
<1>6. CASE Restore BY <1>6 DEF Restore
<1>7. CASE Tidy BY <1>7 DEF Tidy
<1>8. CASE Rollback BY <1>8 DEF Rollback
<1>9. CASE ExtractFails BY <1>9 DEF ExtractFails
<1>10. CASE MoveAwayFails BY <1>10 DEF MoveAwayFails
<1>11. CASE CommitFails BY <1>11 DEF CommitFails
<1>12. CASE RestoreFails BY <1>12 DEF RestoreFails
<1>13. CASE TidyFails BY <1>13 DEF TidyFails
<1>14. CASE RollbackFails
  <2>1. /\ dir'.pc = dir.pc /\ dir'.verdict = dir.verdict /\ dir'.overwrite = dir.overwrite
        /\ dir'.first = dir.first /\ dir.missed \subseteq dir'.missed
        /\ dir' \in [pc : {"pack", "alloc", "file", "unpack", "unpacking",
                           "cleanDst", "cleanSrc", "end"},
                     verdict : {"running", "copied", "failed", "cancelled"},
                     overwrite : BOOLEAN, first : {"old", "empty", "none"},
                     missed : SUBSET {"src", "dst", "staging"}]
    <3>1. PICK m : m = IF staging' = "none" THEN dir.missed ELSE dir.missed \cup {"staging"}
      OBVIOUS
    <3>2. dir' = [dir EXCEPT !.missed = m] BY <1>14, <3>1 DEF RollbackFails
    <3> QED BY <3>1, <3>2
  <2> QED BY <1>14, <2>1 DEF RollbackFails
<1>15. CASE Theirs BY <1>15 DEF Theirs
<1>16. CASE UnpackerDies
  <2>1. CASE dir.pc = "unpacking"
    BY <1>16, <2>1, DirEnds DEF UnpackerDies
  <2>2. CASE dir.pc # "unpacking"
    BY <1>16, <2>2 DEF UnpackerDies
  <2> QED BY <2>1, <2>2
<1> QED
  BY <1>1, <1>2, <1>3, <1>4, <1>5, <1>6, <1>7, <1>8, <1>9, <1>10, <1>11, <1>12, <1>13, <1>14,
     <1>15, <1>16 DEF UnpackStep, DirBad

(* Every step of the copy, of the unpacking and of the rest of the world.             *)
LEMMA TreesInvStep == TreesInv /\ [DirNext]_dirVars => TreesInv'
<1> SUFFICES ASSUME TreesInv, [DirNext]_dirVars PROVE TreesInv' OBVIOUS
<1>1. CASE DirNext
  BY <1>1, CopyKeeps, UnpackKeeps DEF DirNext, DirBad
<1>2. CASE UNCHANGED dirVars
  BY <1>2 DEF dirVars, TreesInv, DirTypeOK, OldTreeKept, TreeInv, OldNotMoved, OldMoved,
     OldReturning, CopyInv
<1> QED BY <1>1, <1>2

(* No two failures lose the old tree but to somebody else's, none is claimed that is *)
(* not there, and no archive is forgotten but one whose removal failed: TreesSafe, for *)
(* any number of failures.                                                            *)
THEOREM TreesTheorem == DirSpec => []TreesSafe
<1>1. TreesInv => TreesSafe
  <2> SUFFICES ASSUME TreesInv PROVE DirectoryCopied
    BY DEF TreesInv, TreesSafe
  <2>1. dir.pc = "end" => archives \cap known \subseteq dir.missed
    BY DEF TreesInv, CopyInv, DirTypeOK
  <2> QED BY <2>1 DEF TreesInv, CopyInv, TreeInv, DirectoryCopied
<1> QED BY <1>1, TreesInvInit, TreesInvStep, PTL DEF DirSpec

(* With overwrite=false nothing that is there is replaced, also what came after the   *)
(* copy began, but what is written into an empty directory after the look at it.      *)
THEOREM NotReplacedTheorem == DirSpec => TreeNotReplaced
<1>1. TreesInv /\ [DirNext]_dirVars =>
        [~dir.overwrite /\ tree \in {"old", "theirs"} /\ unpack # "moveEmpty" =>
           tree' = tree]_dirVars
  <2> SUFFICES ASSUME TreesInv, DirNext, ~dir.overwrite, tree \in {"old", "theirs"},
                      unpack # "moveEmpty"
               PROVE  tree' = tree
    BY DEF dirVars
  <2>1. CASE DirStep \/ StepFails \/ StopWaiting \/ CleanFails
    BY <2>1 DEF DirStep, Pack, AllocArchive, CopyArchive, CallUnpack, Unpacked, CleanDst,
       CleanSrc, StepFails, StopWaiting, CleanFails
  <2>2. CASE MoveAway
    BY <2>2 DEF MoveAway, TreesInv, TreeInv
  <2>3. CASE Commit \/ Restore \/ Rollback \/ RollbackFails \/ Theirs
    BY <2>3 DEF Commit, Restore, Vacant, Rollback, RollbackFails, Theirs
  <2>4. CASE Extract \/ Refused \/ Replaceable \/ Tidy \/ ExtractFails \/ MoveAwayFails
             \/ CommitFails \/ RestoreFails \/ TidyFails \/ UnpackerDies
    BY <2>4 DEF Extract, Refused, Replaceable, Tidy, ExtractFails, MoveAwayFails, CommitFails,
       RestoreFails, TidyFails, UnpackerDies
  <2> QED
    BY <2>1, <2>2, <2>3, <2>4 DEF DirNext, DirBad, UnpackStep
<1> QED
  BY <1>1, TreesInvInit, TreesInvStep, PTL DEF DirSpec, TreeNotReplaced

(*****************************************************************************)
(* The links to files. The invariant says what the store in memory is worth  *)
(* by the step of the request that has it (RequestInv), that a claim is      *)
(* counted before it is answered (ClaimCounted), and what a store that was   *)
(* not rolled back tells of a link (Tells); a link has no past until its     *)
(* only creation publishes it (Pending).                                     *)
(*****************************************************************************)
DlPcs == {"new", "wants", "work", "save", "backup", "tidy", "answer", "streaming", "end"}
DlKinds == {"none", "create", "get", "head", "revoke", "list"}
ARequest == [pc : DlPcs, kind : DlKinds, link : Links \cup {0},
             then : {"end", "revoked", "tidy", "answer"}, final : BOOLEAN, wrong : BOOLEAN]
InTransaction == {"work", "save", "backup", "tidy", "answer"}

IsStore(f) == f \in [DOMAIN f -> Nat] /\ DOMAIN f \subseteq created
DlTyped ==
  /\ IsStore(stored) /\ IsStore(copy) /\ IsStore(links)
  /\ readable \subseteq {"primary", "backup"}
  /\ created \subseteq Links /\ late \subseteq created /\ snapshots \subseteq created
  /\ inTx \in Requests \cup {0}
  /\ req \in [Requests -> ARequest]
  /\ served \in [Links -> Nat] /\ revoked \subseteq Links /\ touched \subseteq Links
  /\ rolledBack \in BOOLEAN

\* A request that has its claim, until it is answered.
Claiming(r) == \/ req[r].pc \in {"tidy", "answer"}
               \/ req[r].pc \in {"save", "backup"} /\ req[r].then \in {"tidy", "answer"}
\* A link that no store has held: its one creation is yet to come, or has not published it.
Creates(r) == req[r].kind = "create" /\ req[r].pc # "new"
Pending(l) == \/ l \notin created
              \/ \E r \in Requests : Creates(r) /\ req[r].link = l /\ req[r].pc \in {"wants", "work"}
CreatedOnce ==
  \A r, q \in Requests : Creates(r) /\ Creates(q) /\ req[r].link = req[q].link => r = q

\* What the store in memory is worth, by the step of the request that has it.
RequestInv(r) ==
  /\ req[r].pc \in InTransaction <=> inTx = r
  /\ ~req[r].wrong
  /\ req[r].pc # "new" => req[r].link \in created
  /\ req[r].kind = "revoke" /\ req[r].pc # "new" => req[r].link \in touched
  /\ req[r].pc \in {"work", "backup", "tidy", "answer"} => links = stored
  /\ req[r].kind = "create" /\ req[r].pc = "save" => req[r].link \notin DOMAIN stored
  /\ req[r].pc \in {"save", "backup"} /\ req[r].then = "revoked" =>
       req[r].link \notin snapshots /\ ~Pending(req[r].link)
  /\ Claiming(r) => /\ req[r].kind \in {"get", "head"}
                    /\ req[r].link \in DOMAIN links \ revoked
  /\ req[r].pc \in {"wants", "work"} => ~req[r].final
  /\ req[r].pc = "streaming" => served[req[r].link] # 0

\* A link that is used up wherever it still is.
Spent(l) == /\ l \in DOMAIN stored => stored[l] >= MaxUses
            /\ inTx # 0 /\ l \in DOMAIN links => links[l] >= MaxUses

\* The count of a claim is in memory before it is answered, and the last claim has used
\* the link up.
ClaimCounted(r) ==
  LET l == req[r].link IN
  /\ Claiming(r) /\ req[r].kind = "get" => served[l] < links[l]
  /\ Claiming(r) /\ req[r].final => links[l] >= MaxUses
  /\ req[r].pc = "streaming" /\ req[r].final => Spent(l)

\* What a store that was not rolled back says of a link.
Tells(f, l) ==
  l \in DOMAIN f => /\ served[l] <= f[l] /\ f[l] <= MaxUses
                    /\ l \notin late /\ f[l] < MaxUses => l \in snapshots \cup touched
LinkInv(l) ==
  /\ Pending(l) => /\ l \notin DOMAIN stored \cup DOMAIN copy \cup DOMAIN links \cup revoked
                   /\ served[l] = 0
  /\ l \in revoked => l \notin snapshots
LinkCounted(l) ==
  /\ served[l] <= MaxUses
  /\ Tells(stored, l)
  /\ inTx # 0 => Tells(links, l)

Counts == ~rolledBack => /\ \A r \in Requests : ClaimCounted(r)
                         /\ \A l \in Links : LinkCounted(l)
DlInv ==
  /\ DlTyped /\ CreatedOnce
  /\ \A r \in Requests : RequestInv(r)
  /\ \A l \in Links : LinkInv(l)
  /\ Counts

\* One request goes on; the others stay where they are.
Goes(r) ==
  /\ req' \in [Requests -> ARequest]
  /\ req'[r].pc # "new" /\ req'[r].kind = req[r].kind /\ req'[r].link = req[r].link
  /\ \A q \in Requests \ {r} : req'[q] = req[q]
Keeps(r) == /\ req'[r].then = req[r].then /\ req'[r].final = req[r].final
            /\ req'[r].wrong = req[r].wrong

--------------------------------------------------------------------------------
(* A step of a request, and one that goes to save the store.                          *)
LEMMA StepGoes ==
  ASSUME DlTyped, NEW r \in Requests, NEW pc \in DlPcs \ {"new"}, Step(r, pc)
  PROVE  Goes(r) /\ Keeps(r) /\ req'[r].pc = pc
BY DEF DlTyped, ARequest, Step, Goes, Keeps

LEMMA SavesGoes ==
  ASSUME DlTyped, NEW r \in Requests, NEW then \in {"end", "revoked", "tidy", "answer"},
         Saves(r, then)
  PROVE  /\ Goes(r) /\ req'[r].pc = "save" /\ req'[r].then = then
         /\ req'[r].final = req[r].final /\ req'[r].wrong = req[r].wrong
BY ZenonT(40) DEF DlTyped, ARequest, Saves, Goes, DlPcs

(* A store without some links, or with one more count, is a store.                    *)
LEMMA WithoutStore ==
  ASSUME NEW f, IsStore(f), NEW S
  PROVE  /\ IsStore(Without(f, S)) /\ DOMAIN Without(f, S) = DOMAIN f \ S
         /\ \A l \in DOMAIN f \ S : Without(f, S)[l] = f[l]
         /\ S = {} => Without(f, S) = f
BY DEF IsStore, Without

LEMMA WithStore ==
  ASSUME NEW f, IsStore(f), NEW l \in created, NEW n \in Nat
  PROVE  /\ IsStore(With(f, l, n)) /\ DOMAIN With(f, l, n) = DOMAIN f \cup {l}
         /\ With(f, l, n)[l] = n
         /\ \A k \in DOMAIN f \ {l} : With(f, l, n)[k] = f[k]
BY DEF IsStore, With

(* A request that goes on makes no link pending, and no link is created twice.        *)
LEMMA PendingShrinks ==
  ASSUME CreatedOnce, NEW r \in Requests, Goes(r), req[r].pc # "new", created' = created,
         req'[r].pc \in {"wants", "work"} => req[r].pc \in {"wants", "work"}
  PROVE  CreatedOnce' /\ \A l \in Links : Pending(l)' => Pending(l)
<1>1. \A q \in Requests : (Creates(q)' => Creates(q)) /\ req'[q].link = req[q].link
  BY DEF Creates, Goes
<1>2. CreatedOnce'
  BY <1>1 DEF CreatedOnce
<1>3. \A l \in Links : Pending(l)' => Pending(l)
  <2> SUFFICES ASSUME NEW l \in Links, l \in created,
                      NEW q \in Requests, Creates(q)', req'[q].link = l,
                      req'[q].pc \in {"wants", "work"}
               PROVE  Pending(l)
    BY DEF Pending
  <2>1. req[q].pc \in {"wants", "work"}
    BY DEF Goes
  <2> QED BY <1>1, <2>1 DEF Pending
<1> QED BY <1>2, <1>3

(* A step of the request that has the store: the others are not in a transaction, so  *)
(* that only what they know of a link they stream is about the store.                 *)
LEMMA TransactionKeeps ==
  ASSUME DlInv, NEW r \in Requests, inTx = r, Goes(r), req'[r].pc \notin {"wants", "work"},
         inTx' \in {0, r}, created' = created, touched' = touched, rolledBack' = rolledBack,
         DlTyped', RequestInv(r)', ~rolledBack => ClaimCounted(r)',
         \A l \in Links : LinkInv(l)' /\ served'[l] >= served[l],
         ~rolledBack => \A l \in Links :
           LinkCounted(l)' /\ (Spent(l) /\ ~Pending(l) => Spent(l)')
  PROVE  DlInv'
<1>1. CreatedOnce'
  <2>1. req[r].pc # "new"
    BY DEF DlInv, RequestInv, InTransaction
  <2> QED BY <2>1, PendingShrinks DEF DlInv
<1>2. ASSUME NEW q \in Requests \ {r} PROVE RequestInv(q)' /\ (~rolledBack => ClaimCounted(q)')
  <2>1. req'[q] = req[q] /\ req[q].pc \notin InTransaction /\ RequestInv(q)
    BY DEF DlInv, RequestInv, Goes
  <2>2. ~Claiming(q)'
    BY <2>1 DEF Claiming, InTransaction
  <2>3. inTx' # q /\ inTx # q
    BY <2>1 DEF RequestInv, DlInv, Requests
  <2>4. req[q].pc = "streaming" =>
          req[q].link \in Links /\ served'[req[q].link] # 0 /\ ~Pending(req[q].link)
    <3> SUFFICES ASSUME req[q].pc = "streaming"
                 PROVE  req[q].link \in Links /\ served'[req[q].link] # 0 /\ ~Pending(req[q].link)
      OBVIOUS
    <3>1. req[q].link \in Links /\ served[req[q].link] # 0
      BY <2>1 DEF RequestInv, DlInv, DlTyped
    <3>2. served[req[q].link] \in Nat /\ served'[req[q].link] \in Nat
      BY <3>1 DEF DlInv, DlTyped
    <3> QED BY <3>1, <3>2 DEF DlInv, LinkInv
  <2>5. RequestInv(q)'
    BY <2>1, <2>2, <2>3, <2>4 DEF RequestInv, InTransaction
  <2>6. ASSUME ~rolledBack PROVE ClaimCounted(q)'
    <3>1. req[q].pc = "streaming" /\ req[q].final => Spent(req[q].link)
      BY <2>6 DEF DlInv, Counts, ClaimCounted
    <3>2. req[q].pc = "streaming" /\ req[q].final => Spent(req[q].link)'
      BY <2>1, <2>4, <2>6, <3>1
    <3> QED BY <2>1, <2>2, <3>2 DEF ClaimCounted
  <2> QED BY <2>5, <2>6
<1>3. Counts'
  BY <1>2 DEF Counts
<1> QED BY <1>1, <1>2, <1>3 DEF DlInv

--------------------------------------------------------------------------------
(* What the request that works on the store knows: nobody else does, and the store in *)
(* memory is the stored one.                                                          *)
LEMMA AtWork ==
  ASSUME DlInv, NEW r \in Requests, req[r].pc \in {"work", "tidy"}
  PROVE  /\ inTx = r /\ inTx # 0 /\ links = stored /\ req[r].link \in created
         /\ req[r].link \in Links /\ ~req[r].wrong
BY DEF DlInv, DlTyped, RequestInv, InTransaction, Requests

(* A link that is pruned is late or used up, and a snapshot that is pruned has no     *)
(* link that stays.                                                                   *)
LEMMA PrunedStore ==
  ASSUME DlInv, NEW keep
  PROVE  /\ IsStore(Pruned(keep)) /\ DOMAIN Pruned(keep) \subseteq DOMAIN links
         /\ \A l \in DOMAIN Pruned(keep) : Pruned(keep)[l] = links[l]
         /\ \A l \in DOMAIN links \cap keep : l \in DOMAIN Pruned(keep)
         /\ \A l \in snapshots \cap Orphans(keep) : l \in DOMAIN links =>
              l \notin keep /\ (l \in late \/ links[l] >= MaxUses)
         /\ \A l \in DOMAIN links : l \notin DOMAIN Pruned(keep) =>
              l \in late \/ links[l] >= MaxUses
         /\ ~Prunes(keep) => Pruned(keep) = links
<1>1. IsStore(links)
  BY DEF DlInv, DlTyped
<1>2. /\ IsStore(Pruned(keep)) /\ DOMAIN Pruned(keep) = DOMAIN links \ Over(keep)
      /\ \A l \in DOMAIN links \ Over(keep) : Pruned(keep)[l] = links[l]
      /\ Over(keep) = {} => Pruned(keep) = links
  BY <1>1, WithoutStore DEF Pruned
<1>3. \A l \in Over(keep) : l \notin keep /\ (l \in late \/ links[l] >= MaxUses)
  BY DEF Over, UsedUp
<1> QED BY <1>2, <1>3 DEF Orphans, Prunes

(* A step that prunes: what stays has its snapshot, and what is used up stays so.     *)
LEMMA PruningKeeps ==
  ASSUME DlInv, NEW r \in Requests, req[r].pc \in {"work", "tidy"}, NEW keep,
         links' = Pruned(keep), snapshots' = snapshots \ Orphans(keep),
         Goes(r), req'[r].pc \notin {"wants", "work"}, inTx' \in {0, r},
         UNCHANGED <<linkFiles, created, late, notes>>
  PROVE  \A l \in Links :
           /\ LinkInv(l)' /\ served'[l] >= served[l]
           /\ ~rolledBack => LinkCounted(l)' /\ (Spent(l) /\ ~Pending(l) => Spent(l)')
<1>1. inTx = r /\ inTx # 0 /\ links = stored /\ req[r].pc # "new"
  BY AtWork
<1>2. \A l \in Links : Pending(l)' => Pending(l)
  BY <1>1, PendingShrinks DEF DlInv
<1>3. SUFFICES ASSUME NEW l \in Links
               PROVE  /\ LinkInv(l)' /\ served'[l] >= served[l]
                      /\ ~rolledBack => LinkCounted(l)' /\ (Spent(l) => Spent(l)')
  OBVIOUS
<1>4. served'[l] = served[l] /\ served[l] \in Nat
  BY DEF notes, DlInv, DlTyped
<1>5. LinkInv(l)'
  BY <1>2, <1>4, PrunedStore DEF LinkInv, DlInv, linkFiles, notes
<1>6. ASSUME ~rolledBack PROVE LinkCounted(l)'
  <2>1. LinkCounted(l)
    BY <1>6 DEF DlInv, Counts
  <2>2. links \in [DOMAIN links -> Nat]
    BY DEF DlInv, DlTyped, IsStore
  <2>3. Tells(stored, l)'
    BY <1>1, <1>4, <2>1, <2>2, PrunedStore, DownloadsAssumption
       DEF LinkCounted, Tells, linkFiles, notes
  <2>4. Tells(links, l)'
    BY <1>1, <1>4, <2>1, <2>2, PrunedStore, DownloadsAssumption
       DEF LinkCounted, Tells, linkFiles, notes
  <2> QED BY <1>4, <2>1, <2>3, <2>4 DEF LinkCounted
<1>7. Spent(l) => Spent(l)'
  BY <1>1, PrunedStore DEF Spent, linkFiles
<1> QED BY <1>4, <1>5, <1>6, <1>7

(* _register_snapshot.                                                                *)
LEMMA PublishKeeps ==
  ASSUME DlInv, NEW r \in Requests, Publish(r)
  PROVE  DlInv'
<1>0. PICK new \in Links : new = req[r].link
  BY AtWork DEF Publish, Works
<1>1. /\ inTx = r /\ inTx # 0 /\ links = stored /\ new \in created /\ new = req[r].link
      /\ ~req[r].wrong /\ req[r].pc = "work" /\ req[r].kind = "create"
  BY <1>0, AtWork DEF Publish, Works
<1>2. Goes(r) /\ req'[r].pc = "save" /\ req'[r].then = "end" /\ req'[r].wrong = FALSE
  BY <1>1, SavesGoes DEF Publish, DlInv
<1>3. Pending(new) /\ LinkInv(new)
  BY <1>1 DEF Pending, Creates, DlInv
<1>4. \A l \in Links : Pending(l)' => Pending(l)
  BY <1>1, <1>2, PendingShrinks DEF DlInv, Publish
<1>5. ~Pending(new)'
  <2>1. \A q \in Requests : Creates(q)' /\ req'[q].link = new => q = r
    BY <1>1, <1>2 DEF DlInv, CreatedOnce, Creates, Goes
  <2>2. created' = created
    BY DEF Publish
  <2> QED BY <1>1, <1>2, <2>1, <2>2 DEF Pending
<1>6. /\ IsStore(links') /\ DOMAIN links' = DOMAIN Pruned({}) \cup {new} /\ links'[new] = 0
      /\ \A l \in DOMAIN Pruned({}) \ {new} : links'[l] = Pruned({})[l]
  <2>1. IsStore(Pruned({})) /\ links' = With(Pruned({}), new, 0)
    BY <1>1, PrunedStore DEF Publish
  <2>2. /\ IsStore(With(Pruned({}), new, 0)) /\ With(Pruned({}), new, 0)[new] = 0
        /\ DOMAIN With(Pruned({}), new, 0) = DOMAIN Pruned({}) \cup {new}
        /\ \A l \in DOMAIN Pruned({}) \ {new} : With(Pruned({}), new, 0)[l] = Pruned({})[l]
    <3>1. PICK f : f = Pruned({})
      OBVIOUS
    <3> QED BY <1>1, <2>1, <3>1, WithStore
  <2> QED BY <2>1, <2>2
<1>7. DlTyped'
  BY <1>1, <1>2, <1>6 DEF DlTyped, DlInv, Publish, IsStore, linkFiles, notes, Goes, Orphans
<1>8. RequestInv(r)' /\ ~Claiming(r)'
  BY <1>1, <1>2, <1>3 DEF RequestInv, Claiming, InTransaction, LinkInv, Goes, Publish, linkFiles
<1>9. ClaimCounted(r)'
  BY <1>2, <1>8 DEF ClaimCounted
<1>10. ASSUME NEW l \in Links
       PROVE  /\ LinkInv(l)' /\ served'[l] >= served[l]
              /\ ~rolledBack => LinkCounted(l)' /\ (Spent(l) /\ ~Pending(l) => Spent(l)')
  <2>1. served'[l] = served[l] /\ served[l] \in Nat
    BY DEF Publish, notes, DlInv, DlTyped
  <2>2. LinkInv(l)'
    <3>1. LinkInv(l) /\ DOMAIN Pruned({}) \subseteq DOMAIN links
      BY PrunedStore DEF DlInv
    <3>2. UNCHANGED <<stored, copy, revoked>> /\ snapshots' \subseteq snapshots \cup {new}
      BY <1>1 DEF Publish, linkFiles, notes
    <3> QED BY <1>3, <1>4, <1>5, <1>6, <2>1, <3>1, <3>2 DEF LinkInv
  <2>3. ASSUME ~rolledBack PROVE LinkCounted(l)'
    <3>1. LinkCounted(l)
      BY <2>3 DEF DlInv, Counts
    <3>2. links \in [DOMAIN links -> Nat]
      BY DEF DlInv, DlTyped, IsStore
    <3>3. Tells(stored, l)'
      BY <1>1, <1>3, <2>1, <3>1, <3>2, PrunedStore, DownloadsAssumption
         DEF LinkCounted, LinkInv, Tells, Publish, linkFiles, notes
    <3>4. Tells(links, l)'
      BY <1>1, <1>3, <1>6, <2>1, <3>1, <3>2, PrunedStore, DownloadsAssumption
         DEF LinkCounted, LinkInv, Tells, Publish, linkFiles, notes
    <3> QED BY <2>1, <3>1, <3>3, <3>4 DEF LinkCounted
  <2>4. Spent(l) /\ ~Pending(l) => Spent(l)'
    BY <1>1, <1>3, <1>6, PrunedStore DEF Spent, Publish, linkFiles
  <2> QED BY <2>1, <2>2, <2>3, <2>4
<1>11. inTx' = inTx /\ created' = created /\ touched' = touched /\ rolledBack' = rolledBack
  BY DEF Publish, linkFiles, notes
<1> QED
  BY <1>1, <1>2, <1>7, <1>8, <1>9, <1>10, <1>11, TransactionKeeps

(* list_file_links_execute.                                                           *)
LEMMA ListKeeps ==
  ASSUME DlInv, NEW r \in Requests, ListLinks(r)
  PROVE  DlInv'
<1>1. /\ inTx = r /\ inTx # 0 /\ links = stored /\ req[r].link \in created
      /\ ~req[r].wrong /\ req[r].pc = "work" /\ req[r].kind = "list"
  BY AtWork DEF ListLinks, Works
<1>2. /\ Goes(r) /\ req'[r].wrong = FALSE
      /\ \/ req'[r].pc = "save" /\ req'[r].then = "end" /\ inTx' = inTx
         \/ req'[r].pc = "end" /\ inTx' = 0
  <2>1. CASE Prunes({})
    BY <1>1, <2>1, SavesGoes DEF ListLinks, DlInv
  <2>2. CASE ~Prunes({})
    BY <1>1, <2>2, StepGoes DEF ListLinks, DlInv, Leaves, DlPcs, Keeps
  <2> QED BY <2>1, <2>2
<1>3. DlTyped'
  BY <1>1, <1>2, PrunedStore DEF DlTyped, DlInv, ListLinks, IsStore, linkFiles, notes, Goes
<1>4. RequestInv(r)' /\ ~Claiming(r)'
  BY <1>1, <1>2 DEF RequestInv, Claiming, InTransaction, Goes, ListLinks, Requests
<1>5. ClaimCounted(r)'
  BY <1>2, <1>4 DEF ClaimCounted
<1>6. \A l \in Links :
        /\ LinkInv(l)' /\ served'[l] >= served[l]
        /\ ~rolledBack => LinkCounted(l)' /\ (Spent(l) /\ ~Pending(l) => Spent(l)')
  BY <1>1, <1>2, PruningKeeps DEF ListLinks
<1>7. created' = created /\ touched' = touched /\ rolledBack' = rolledBack
  BY DEF ListLinks, linkFiles, notes
<1> QED
  BY <1>1, <1>2, <1>3, <1>4, <1>5, <1>6, <1>7, TransactionKeeps

(* A link is dropped, with its snapshot, which it had not or no longer needs.         *)
LEMMA DropKeeps ==
  ASSUME DlInv, NEW r \in Requests, req[r].pc = "work", NEW gone \in DOMAIN links,
         gone \in touched \/ gone \in late \/ gone \notin snapshots \/ links[gone] >= MaxUses,
         links' = Without(links, {gone}), snapshots' = snapshots \ {gone},
         Goes(r), req'[r].pc \notin {"wants", "work"}, inTx' \in {0, r},
         UNCHANGED <<linkFiles, created, late, notes>>
  PROVE  /\ IsStore(links') /\ DOMAIN links' = DOMAIN links \ {gone}
         /\ \A l \in Links :
              /\ LinkInv(l)' /\ served'[l] >= served[l]
              /\ ~rolledBack => LinkCounted(l)' /\ (Spent(l) /\ ~Pending(l) => Spent(l)')
<1>1. inTx = r /\ inTx # 0 /\ links = stored /\ req[r].pc # "new"
  BY AtWork
<1>2. \A l \in Links : Pending(l)' => Pending(l)
  BY <1>1, PendingShrinks DEF DlInv
<1>3. /\ IsStore(links') /\ DOMAIN links' = DOMAIN links \ {gone}
      /\ \A l \in DOMAIN links' : links'[l] = links[l]
  BY WithoutStore, ZenonT(40) DEF DlInv, DlTyped
<1>4. SUFFICES ASSUME NEW l \in Links
               PROVE  /\ LinkInv(l)' /\ served'[l] >= served[l]
                      /\ ~rolledBack => LinkCounted(l)' /\ (Spent(l) => Spent(l)')
  BY <1>3
<1>5. served'[l] = served[l] /\ served[l] \in Nat
  BY DEF notes, DlInv, DlTyped
<1>6. LinkInv(l)'
  <2>1. LinkInv(l) /\ UNCHANGED <<stored, copy, revoked>>
    BY DEF DlInv, linkFiles, notes
  <2> QED BY <1>2, <1>3, <1>5, <2>1 DEF LinkInv
<1>7. ASSUME ~rolledBack PROVE LinkCounted(l)'
  <2>1. LinkCounted(l)
    BY <1>7 DEF DlInv, Counts
  <2>2. links \in [DOMAIN links -> Nat]
    BY DEF DlInv, DlTyped, IsStore
  <2>3. Tells(stored, l)'
    BY <1>1, <1>3, <1>5, <2>1, <2>2, DownloadsAssumption DEF LinkCounted, Tells, linkFiles, notes
  <2>4. Tells(links, l)'
    BY <1>1, <1>3, <1>5, <2>1, <2>2, DownloadsAssumption DEF LinkCounted, Tells, linkFiles, notes
  <2> QED BY <1>5, <2>1, <2>3, <2>4 DEF LinkCounted
<1>8. Spent(l) => Spent(l)'
  BY <1>1, <1>3 DEF Spent, linkFiles
<1> QED BY <1>5, <1>6, <1>7, <1>8

(* A request that ends without a change of the store.                                 *)
LEMMA LeavesKeeps ==
  ASSUME DlInv, NEW r \in Requests, inTx = r, Leaves(r),
         UNCHANGED <<linkFiles, snapshots, created, late, links, notes>>
  PROVE  DlInv'
<1>1. Goes(r) /\ Keeps(r) /\ req'[r].pc = "end" /\ inTx' = 0
  BY StepGoes DEF DlInv, Leaves, DlPcs
<1>2. inTx # 0 /\ req[r].pc # "new"
  BY DEF Requests, DlInv, RequestInv, InTransaction
<1>3. \A l \in Links : Pending(l)' => Pending(l)
  BY <1>1, <1>2, PendingShrinks DEF DlInv
<1>4. DlTyped'
  BY <1>1 DEF DlTyped, DlInv, IsStore, linkFiles, notes, Goes
<1>5. RequestInv(r)' /\ ~Claiming(r)'
  BY <1>1, <1>2 DEF DlInv, RequestInv, Claiming, InTransaction, Goes, Keeps, Requests, notes
<1>6. ClaimCounted(r)'
  BY <1>1, <1>5 DEF ClaimCounted
<1>7. ASSUME NEW l \in Links
      PROVE  /\ LinkInv(l)' /\ served'[l] >= served[l]
             /\ ~rolledBack => LinkCounted(l)' /\ (Spent(l) /\ ~Pending(l) => Spent(l)')
  <2>1. served'[l] = served[l] /\ served[l] \in Nat
    BY DEF notes, DlInv, DlTyped
  <2>2. LinkInv(l)'
    <3>1. LinkInv(l) /\ UNCHANGED <<stored, copy, revoked>>
      BY DEF DlInv, linkFiles, notes
    <3> QED BY <1>3, <2>1, <3>1 DEF LinkInv
  <2>3. ~rolledBack => LinkCounted(l)'
    BY <1>1, <2>1 DEF LinkCounted, Tells, DlInv, Counts, linkFiles, notes
  <2>4. Spent(l) => Spent(l)'
    BY <1>1 DEF Spent, linkFiles
  <2> QED BY <2>1, <2>2, <2>3, <2>4
<1>8. created' = created /\ touched' = touched /\ rolledBack' = rolledBack
  BY DEF linkFiles, notes
<1> QED BY <1>1, <1>4, <1>5, <1>6, <1>7, <1>8, TransactionKeeps

(* revoke_file_link_execute.                                                          *)
LEMMA RevokeKeeps ==
  ASSUME DlInv, NEW r \in Requests, Revoke(r)
  PROVE  DlInv'
<1>0. PICK gone \in Links : gone = req[r].link
  BY AtWork DEF Revoke, Works
<1>1. /\ inTx = r /\ inTx # 0 /\ links = stored /\ gone \in created /\ gone = req[r].link
      /\ ~req[r].wrong /\ req[r].pc = "work" /\ req[r].kind = "revoke" /\ gone \in touched
  BY <1>0, AtWork DEF Revoke, Works, DlInv, RequestInv
<1>2. CASE gone \notin DOMAIN links
  BY <1>1, <1>2, LeavesKeeps DEF Revoke
<1>3. CASE gone \in DOMAIN links
  <2>1. Goes(r) /\ req'[r].pc = "save" /\ req'[r].then = "revoked" /\ req'[r].wrong = FALSE
    BY <1>1, <1>3, SavesGoes DEF Revoke, DlInv
  <2>2. /\ links' = Without(links, {gone}) /\ snapshots' = snapshots \ {gone} /\ inTx' = inTx
        /\ UNCHANGED <<linkFiles, created, late, notes>>
    BY <1>1, <1>3 DEF Revoke
  <2>3. /\ IsStore(links')
        /\ \A l \in Links :
             /\ LinkInv(l)' /\ served'[l] >= served[l]
             /\ ~rolledBack => LinkCounted(l)' /\ (Spent(l) /\ ~Pending(l) => Spent(l)')
    BY <1>1, <1>3, <2>1, <2>2, DropKeeps
  <2>4. DlTyped'
    BY <2>1, <2>2, <2>3, <1>1 DEF DlTyped, DlInv, IsStore, linkFiles, notes, Goes
  <2>5. RequestInv(r)' /\ ~Claiming(r)'
    <3>1. ~Pending(gone)'
      <4>1. req[r].pc # "new" /\ created' = created
        BY <1>1, <2>2
      <4>2. Pending(gone)' => Pending(gone)
        BY <2>1, <4>1, PendingShrinks DEF DlInv
      <4> QED BY <1>3, <4>2 DEF DlInv, LinkInv
    <3> QED BY <1>1, <2>1, <2>2, <3>1 DEF RequestInv, Claiming, InTransaction, Goes, notes
  <2>6. ClaimCounted(r)'
    BY <2>1, <2>5 DEF ClaimCounted
  <2>7. created' = created /\ touched' = touched /\ rolledBack' = rolledBack
    BY <2>2 DEF linkFiles, notes
  <2> QED BY <1>1, <2>1, <2>2, <2>3, <2>4, <2>5, <2>6, <2>7, TransactionKeeps
<1> QED BY <1>2, <1>3

(* claim_download, for a link that cannot be served.                                  *)
LEMMA RefuseKeeps ==
  ASSUME DlInv, NEW r \in Requests, Refuse(r)
  PROVE  DlInv'
<1>0. PICK gone \in Links : gone = req[r].link
  BY AtWork DEF Refuse, Claims, Works
<1>1. /\ inTx = r /\ inTx # 0 /\ links = stored /\ gone \in created /\ gone = req[r].link
      /\ ~req[r].wrong /\ req[r].pc = "work" /\ req[r].kind \in {"get", "head"}
      /\ ~Servable(gone)
  BY <1>0, AtWork DEF Refuse, Claims, Works
<1>2. /\ Goes(r) /\ req'[r].wrong = FALSE
      /\ \/ req'[r].pc = "save" /\ req'[r].then = "end" /\ inTx' = inTx
         \/ req'[r].pc = "end" /\ inTx' = 0
  <2>1. CASE Saves(r, "end") /\ UNCHANGED inTx
    BY <1>1, <2>1, SavesGoes DEF DlInv
  <2>2. CASE Leaves(r)
    BY <1>1, <2>2, StepGoes DEF DlInv, Leaves, DlPcs, Keeps
  <2> QED BY <2>1, <2>2 DEF Refuse
<1>3. UNCHANGED <<linkFiles, created, late, notes>>
  BY DEF Refuse
<1>4. /\ IsStore(links') /\ snapshots' \subseteq snapshots
      /\ \A l \in Links :
           /\ LinkInv(l)' /\ served'[l] >= served[l]
           /\ ~rolledBack => LinkCounted(l)' /\ (Spent(l) /\ ~Pending(l) => Spent(l)')
  <2>1. CASE gone \in DOMAIN links
    <3>1. links' = Without(links, {gone}) /\ snapshots' = snapshots \ {gone}
      BY <1>1, <2>1 DEF Refuse
    <3>2. gone \in late \/ gone \notin snapshots \/ links[gone] >= MaxUses
      BY <1>1, <2>1 DEF Servable, UsedUp
    <3> QED BY <1>1, <1>2, <1>3, <2>1, <3>1, <3>2, DropKeeps
  <2>2. CASE gone \notin DOMAIN links
    <3>1. links' = Pruned({}) /\ snapshots' = snapshots \ Orphans({})
      BY <1>1, <2>2 DEF Refuse
    <3>2. IsStore(Pruned({}))
      BY PrunedStore
    <3>3. IsStore(links')
      BY <1>3, <3>1, <3>2 DEF IsStore
    <3> QED BY <1>1, <1>2, <1>3, <3>1, <3>3, PruningKeeps
  <2> QED BY <2>1, <2>2
<1>5. DlTyped'
  BY <1>1, <1>2, <1>3, <1>4 DEF DlTyped, DlInv, IsStore, linkFiles, notes, Goes
<1>6. RequestInv(r)' /\ ~Claiming(r)'
  BY <1>1, <1>2, <1>3 DEF RequestInv, Claiming, InTransaction, Goes, notes, Requests
<1>7. ClaimCounted(r)'
  BY <1>2, <1>6 DEF ClaimCounted
<1>8. created' = created /\ touched' = touched /\ rolledBack' = rolledBack
  BY <1>3 DEF linkFiles, notes
<1> QED BY <1>1, <1>2, <1>4, <1>5, <1>6, <1>7, <1>8, TransactionKeeps

(* claim_download, for a link that can be served: a GET is counted in memory.         *)
LEMMA ClaimKeeps ==
  ASSUME DlInv, NEW r \in Requests, Claim(r)
  PROVE  DlInv'
<1>0. PICK got \in Links : got = req[r].link
  BY AtWork DEF Claim, Claims, Works
<1>1. /\ inTx = r /\ inTx # 0 /\ links = stored /\ got \in created /\ got = req[r].link
      /\ ~req[r].wrong /\ req[r].pc = "work" /\ ~req[r].final
      /\ got \in DOMAIN links /\ got \in snapshots /\ got \notin late /\ ~UsedUp(got)
      /\ got \notin revoked
  BY <1>0, AtWork DEF Claim, Claims, Works, Servable, DlInv, RequestInv, LinkInv
<1>2. /\ links \in [DOMAIN links -> Nat] /\ links[got] \in Nat /\ links[got] < MaxUses
      /\ MaxUses \in Nat
  BY <1>1, DownloadsAssumption DEF DlInv, DlTyped, IsStore, UsedUp
<1>3. /\ UNCHANGED <<stored, copy, readable, rolledBack, diskFaults, snapshots, created, late,
                     inTx, served, revoked, touched>>
  BY DEF Claim, linkFiles, notes
<1>4. \/ /\ req[r].kind = "get" /\ links' = With(links, got, links[got] + 1)
         /\ req'[r].pc = "save" /\ req'[r].then = "tidy"
         /\ req'[r].final => links[got] + 1 >= MaxUses
         /\ Goes(r) /\ req'[r].wrong = FALSE
      \/ /\ req[r].kind = "head" /\ links' = links
         /\ req'[r].pc = "tidy" /\ ~req'[r].final
         /\ Goes(r) /\ req'[r].wrong = FALSE
  <2>1. CASE req[r].kind = "get"
    <3>1. links' = With(links, got, links[got] + 1)
      BY <1>1, <2>1 DEF Claim, CountedNow
    <3>2. PICK last \in BOOLEAN : last = (links[got] + 1 >= MaxUses)
      <4>1. (links[got] + 1 >= MaxUses) \in BOOLEAN
        BY <1>2
      <4> QED BY <4>1, Zenon
    <3>3. req' = [req EXCEPT ![r].pc = "save", ![r].then = "tidy", ![r].final = last]
      BY <1>1, <2>1, <3>2 DEF Claim
    <3> DEFINE R == [req[r] EXCEPT !.pc = "save", !.then = "tidy", !.final = last]
    <3>4. req \in [Requests -> ARequest] /\ req[r] \in ARequest
      BY DEF DlInv, DlTyped
    <3>5. req' = [req EXCEPT ![r] = R]
      BY <3>3, <3>4 DEF ARequest
    <3>6. /\ R \in ARequest /\ R.pc = "save" /\ R.then = "tidy" /\ R.final = last
          /\ R.kind = req[r].kind /\ R.link = req[r].link /\ R.wrong = req[r].wrong
      BY <3>2, <3>4 DEF ARequest, DlPcs
    <3> HIDE DEF R
    <3>7. /\ req'[r] = R /\ req' \in [Requests -> ARequest]
          /\ \A q \in Requests \ {r} : req'[q] = req[q]
      BY <3>4, <3>5, <3>6
    <3>8. /\ req'[r].pc = "save" /\ req'[r].then = "tidy" /\ req'[r].final = last
          /\ Goes(r) /\ req'[r].wrong = FALSE
      BY <1>1, <3>4, <3>6, <3>7 DEF Goes, ARequest
    <3> QED BY <2>1, <3>1, <3>2, <3>8
  <2>2. CASE req[r].kind # "get"
    <3>1. req[r].kind = "head" /\ links' = links /\ Step(r, "tidy")
      BY <2>2 DEF Claim, Claims, Works
    <3> QED BY <1>1, <3>1, StepGoes DEF DlInv, DlPcs, Keeps
  <2> QED BY <2>1, <2>2
<1>5. Goes(r) /\ req'[r].pc \notin {"new", "wants", "work"} /\ Claiming(r)'
  BY <1>4 DEF Claiming
<1>6. /\ IsStore(links') /\ DOMAIN links' = DOMAIN links
      /\ links'[got] = (IF req[r].kind = "get" THEN links[got] + 1 ELSE links[got])
      /\ \A l \in DOMAIN links \ {got} : links'[l] = links[l]
  <2>1. CASE req[r].kind = "get"
    <3>1. links' = With(links, got, links[got] + 1) /\ links[got] + 1 \in Nat /\ IsStore(links)
      BY <1>2, <1>4, <2>1 DEF DlInv, DlTyped
    <3>2. PICK n \in Nat : n = links[got] + 1
      BY <3>1
    <3>3. /\ IsStore(With(links, got, n)) /\ DOMAIN With(links, got, n) = DOMAIN links \cup {got}
          /\ With(links, got, n)[got] = n
          /\ \A k \in DOMAIN links \ {got} : With(links, got, n)[k] = links[k]
      BY <1>1, <3>1, <3>2 DEF IsStore, With
    <3>4. IsStore(links')
      BY <1>3, <3>1, <3>2, <3>3 DEF IsStore
    <3> QED BY <1>1, <2>1, <3>1, <3>2, <3>3, <3>4
  <2>2. CASE req[r].kind # "get"
    BY <1>1, <1>3, <1>4, <2>2 DEF DlInv, DlTyped, IsStore
  <2> QED BY <2>1, <2>2
<1>7. DlTyped'
  BY <1>3, <1>5, <1>6 DEF DlTyped, DlInv, IsStore, Goes
<1>8. RequestInv(r)'
  BY <1>1, <1>3, <1>4, <1>5, <1>6 DEF RequestInv, InTransaction, Goes
<1>9. ASSUME ~rolledBack PROVE ClaimCounted(r)'
  <2>1. served[got] \in Nat /\ Tells(links, got)
    BY <1>1, <1>9 DEF DlInv, DlTyped, Counts, LinkCounted
  <2>2. served'[got] = served[got] /\ served[got] <= links[got] /\ req'[r].link = got
    BY <1>1, <1>3, <1>5, <2>1 DEF Tells, Goes
  <2>3. CASE req[r].kind = "get"
    BY <1>2, <1>4, <1>5, <1>6, <2>1, <2>2, <2>3 DEF ClaimCounted
  <2>4. CASE req[r].kind = "head"
    BY <1>4, <1>5, <2>4 DEF ClaimCounted, Goes
  <2> QED BY <1>4, <2>3, <2>4
<1>10. \A l \in Links : Pending(l)' => Pending(l)
  BY <1>1, <1>3, <1>5, PendingShrinks DEF DlInv
<1>11. ASSUME NEW l \in Links
       PROVE  /\ LinkInv(l)' /\ served'[l] >= served[l]
              /\ ~rolledBack => LinkCounted(l)' /\ (Spent(l) /\ ~Pending(l) => Spent(l)')
  <2>1. served'[l] = served[l] /\ served[l] \in Nat /\ LinkInv(l)
    BY <1>3 DEF DlInv, DlTyped
  <2>2. LinkInv(l)'
    BY <1>3, <1>6, <1>10, <2>1 DEF LinkInv
  <2>3. ASSUME ~rolledBack PROVE LinkCounted(l)'
    <3>1. LinkCounted(l)
      BY <2>3 DEF DlInv, Counts
    <3>2. Tells(stored, l)'
      BY <1>3, <3>1 DEF LinkCounted, Tells
    <3>3. Tells(links, l)'
      <4>1. CASE l = got
        BY <1>1, <1>2, <1>3, <1>6, <2>1, <3>1, <4>1 DEF LinkCounted, Tells
      <4>2. CASE l # got
        BY <1>1, <1>3, <1>6, <3>1, <4>2 DEF LinkCounted, Tells
      <4> QED BY <4>1, <4>2
    <3> QED BY <1>3, <3>1, <3>2, <3>3 DEF LinkCounted
  <2>4. Spent(l) => Spent(l)'
    BY <1>1, <1>2, <1>3, <1>6 DEF Spent
  <2> QED BY <2>1, <2>2, <2>3, <2>4
<1>12. req'[r].pc \notin {"wants", "work"} /\ inTx' \in {0, r}
  BY <1>1, <1>3, <1>5
<1> QED BY <1>1, <1>3, <1>5, <1>7, <1>8, <1>9, <1>11, <1>12, TransactionKeeps

(* The other links are pruned before the answer.                                      *)
LEMMA PruneOthersKeeps ==
  ASSUME DlInv, NEW r \in Requests, PruneOthers(r)
  PROVE  DlInv'
<1>0. PICK got \in Links : got = req[r].link
  BY AtWork DEF PruneOthers
<1>1. /\ inTx = r /\ inTx # 0 /\ links = stored /\ got \in created /\ got = req[r].link
      /\ ~req[r].wrong /\ req[r].pc = "tidy" /\ Claiming(r)
      /\ got \in DOMAIN links /\ got \notin revoked /\ req[r].kind \in {"get", "head"}
  BY <1>0, AtWork DEF PruneOthers, DlInv, RequestInv, Claiming
<1>2. /\ links' = Pruned({got}) /\ snapshots' = snapshots \ Orphans({got})
      /\ UNCHANGED <<stored, copy, readable, rolledBack, diskFaults, created, late,
                     inTx, served, revoked, touched>>
  BY <1>1 DEF PruneOthers, linkFiles, notes
<1>3. /\ Goes(r) /\ req'[r].wrong = FALSE /\ req'[r].final = req[r].final
      /\ \/ req'[r].pc = "save" /\ req'[r].then = "answer"
         \/ req'[r].pc = "answer" /\ ~Prunes({got})
  <2>1. CASE Saves(r, "answer")
    BY <1>1, <2>1, SavesGoes DEF DlInv
  <2>2. CASE Step(r, "answer") /\ ~Prunes({got})
    BY <1>1, <2>2, StepGoes DEF DlInv, DlPcs, Keeps
  <2> QED BY <1>1, <2>1, <2>2 DEF PruneOthers
<1>4. /\ IsStore(links') /\ DOMAIN links' \subseteq DOMAIN links /\ got \in DOMAIN links'
      /\ links'[got] = links[got] /\ (~Prunes({got}) => links' = links)
  <2>1. IsStore(Pruned({got}))
    BY PrunedStore
  <2> QED BY <1>1, <1>2, <2>1, PrunedStore DEF IsStore
<1>5. DlTyped'
  BY <1>2, <1>3, <1>4 DEF DlTyped, DlInv, IsStore, Goes
<1>6. RequestInv(r)' /\ Claiming(r)'
  BY <1>1, <1>2, <1>3, <1>4 DEF RequestInv, Claiming, InTransaction, Goes
<1>7. ASSUME ~rolledBack PROVE ClaimCounted(r)'
  <2>1. ClaimCounted(r)
    BY <1>7 DEF DlInv, Counts
  <2> QED BY <1>1, <1>2, <1>3, <1>4, <2>1 DEF ClaimCounted, Goes
<1>8. \A l \in Links :
        /\ LinkInv(l)' /\ served'[l] >= served[l]
        /\ ~rolledBack => LinkCounted(l)' /\ (Spent(l) /\ ~Pending(l) => Spent(l)')
  <2>1. req'[r].pc \notin {"wants", "work"} /\ inTx' \in {0, r}
    BY <1>1, <1>2, <1>3
  <2> QED BY <1>1, <1>2, <1>3, <2>1, PruningKeeps DEF linkFiles, notes
<1>9. req'[r].pc \notin {"wants", "work"} /\ inTx' \in {0, r}
  BY <1>1, <1>2, <1>3
<1> QED BY <1>1, <1>2, <1>3, <1>5, <1>6, <1>7, <1>8, <1>9, TransactionKeeps

(* A claim is answered: the link was not revoked, and the answer was counted.         *)
LEMMA AnswerKeeps ==
  ASSUME DlInv, NEW r \in Requests, AnswerClaim(r)
  PROVE  DlInv'
<1>0. req[r].pc = "answer" /\ inTx' = 0 /\ inTx = r /\ Claiming(r)
  BY DEF AnswerClaim, DlInv, RequestInv, InTransaction, Claiming
<1>1. PICK got \in Links : got = req[r].link
  BY <1>0 DEF DlInv, DlTyped, RequestInv
<1>2. /\ inTx # 0 /\ links = stored /\ got = req[r].link /\ got \in created
      /\ got \in DOMAIN links /\ got \notin revoked /\ req[r].kind \in {"get", "head"}
      /\ ~req[r].wrong
  BY <1>0, <1>1 DEF DlInv, RequestInv, Requests
<1>3. UNCHANGED <<stored, copy, readable, rolledBack, diskFaults, snapshots, created, late,
                  links, revoked, touched>>
  BY DEF AnswerClaim, linkFiles
<1>4. /\ Goes(r) /\ req'[r].wrong = FALSE /\ req'[r].final = req[r].final
      /\ \/ /\ req[r].kind = "get" /\ req'[r].pc = "streaming"
            /\ served' = [served EXCEPT ![got] = @ + 1]
         \/ /\ req[r].kind = "head" /\ req'[r].pc = "end" /\ served' = served
  <2>1. CASE req[r].kind = "get"
    <3>1. /\ req' = [req EXCEPT ![r].pc = "streaming", ![r].wrong = FALSE]
          /\ served' = [served EXCEPT ![got] = @ + 1]
      BY <1>2, <2>1 DEF AnswerClaim
    <3> QED BY <1>0, <2>1, <3>1, ZenonT(40) DEF Goes, DlInv, DlTyped, ARequest, DlPcs
  <2>2. CASE req[r].kind # "get"
    <3>1. Step(r, "end") /\ served' = served
      BY <2>2 DEF AnswerClaim
    <3> QED BY <1>2, <2>2, <3>1, StepGoes DEF DlInv, DlPcs, Keeps
  <2> QED BY <2>1, <2>2
<1>5. /\ served \in [Links -> Nat] /\ served' \in [Links -> Nat]
      /\ \A l \in Links : served'[l] >= served[l] /\ (l # got => served'[l] = served[l])
      /\ req[r].kind = "get" => served'[got] = served[got] + 1
  BY <1>4 DEF DlInv, DlTyped
<1>6. /\ Goes(r) /\ req'[r].pc \in {"streaming", "end"} /\ req'[r].link = got
  BY <1>2, <1>4 DEF Goes
<1>7. DlTyped'
  BY <1>0, <1>3, <1>5, <1>6 DEF DlTyped, DlInv, IsStore, Goes
<1>8. RequestInv(r)' /\ ~Claiming(r)'
  BY <1>0, <1>2, <1>3, <1>4, <1>5, <1>6 DEF RequestInv, Claiming, InTransaction, Goes, Requests
<1>9. ASSUME ~rolledBack PROVE ClaimCounted(r)'
  <2>1. Claiming(r) /\ req[r].final => links[got] >= MaxUses
    BY <1>2, <1>9 DEF DlInv, Counts, ClaimCounted
  <2>2. req[r].final => Spent(got)'
    BY <1>0, <1>2, <1>3, <2>1 DEF Spent
  <2> QED BY <1>4, <1>6, <1>8, <2>2 DEF ClaimCounted
<1>10. \A l \in Links : Pending(l)' => Pending(l)
  BY <1>0, <1>3, <1>6, PendingShrinks DEF DlInv
<1>11. ASSUME NEW l \in Links
       PROVE  /\ LinkInv(l)' /\ served'[l] >= served[l]
              /\ ~rolledBack => LinkCounted(l)' /\ (Spent(l) /\ ~Pending(l) => Spent(l)')
  <2>1. LinkInv(l) /\ served[l] \in Nat
    BY <1>5 DEF DlInv
  <2>2. LinkInv(l)'
    BY <1>2, <1>3, <1>5, <1>10, <2>1 DEF LinkInv
  <2>3. ASSUME ~rolledBack PROVE LinkCounted(l)'
    <3>1. LinkCounted(l) /\ inTx' = 0
      BY <1>0, <2>3 DEF DlInv, Counts
    <3>2. CASE l = got /\ req[r].kind = "get"
      <4>1. served[got] < links[got] /\ links[got] \in Nat
        BY <1>0, <1>2, <2>3, <3>2 DEF DlInv, DlTyped, IsStore, Counts, ClaimCounted
      <4> QED
        BY <1>2, <1>3, <1>5, <2>1, <3>1, <3>2, <4>1, DownloadsAssumption DEF LinkCounted, Tells
    <3>3. CASE l # got \/ req[r].kind # "get"
      <4>1. served'[l] = served[l]
        BY <1>4, <1>5, <3>3
      <4> QED BY <1>3, <3>1, <4>1 DEF LinkCounted, Tells
    <3> QED BY <3>2, <3>3
  <2>4. Spent(l) => Spent(l)'
    BY <1>0, <1>3 DEF Spent
  <2> QED BY <1>5, <2>2, <2>3, <2>4
<1>12. req'[r].pc \notin {"wants", "work"} /\ inTx' \in {0, r}
  BY <1>0, <1>6
<1> QED BY <1>0, <1>3, <1>6, <1>7, <1>8, <1>9, <1>11, <1>12, TransactionKeeps

(* save_locked, the file.                                                             *)
LEMMA SaveFileKeeps ==
  ASSUME DlInv, NEW r \in Requests, SaveFile(r)
  PROVE  DlInv'
<1>0. req[r].pc = "save" /\ inTx = r /\ inTx # 0 /\ req[r].link \in Links
  BY DEF SaveFile, DlInv, DlTyped, RequestInv, InTransaction, Requests
<1>1. Goes(r) /\ Keeps(r) /\ req'[r].pc = "backup"
  BY <1>0, StepGoes DEF SaveFile, DlInv, DlPcs
<1>2. /\ stored' = links /\ readable' = readable \cup {"primary"}
      /\ UNCHANGED <<copy, rolledBack, diskFaults, snapshots, created, late, inTx, links,
                     served, revoked, touched>>
  BY DEF SaveFile, notes
<1>3. DlTyped'
  BY <1>1, <1>2 DEF DlTyped, DlInv, IsStore, Goes
<1>4. Claiming(r)' <=> Claiming(r)
  BY <1>0, <1>1 DEF Claiming, Keeps
<1>5. \A l \in Links : Pending(l)' => Pending(l)
  BY <1>0, <1>1, <1>2, PendingShrinks DEF DlInv
<1>6. RequestInv(r)'
  BY <1>0, <1>1, <1>2, <1>4, <1>5 DEF DlInv, RequestInv, InTransaction, Goes, Keeps
<1>7. ~rolledBack => ClaimCounted(r)'
  BY <1>0, <1>1, <1>2, <1>4 DEF DlInv, Counts, ClaimCounted, Goes, Keeps
<1>8. ASSUME NEW l \in Links
      PROVE  /\ LinkInv(l)' /\ served'[l] >= served[l]
             /\ ~rolledBack => LinkCounted(l)' /\ (Spent(l) /\ ~Pending(l) => Spent(l)')
  <2>1. LinkInv(l) /\ served[l] \in Nat /\ (~rolledBack => LinkCounted(l))
    BY DEF DlInv, DlTyped, Counts
  <2>2. LinkInv(l)'
    BY <1>2, <1>5, <2>1 DEF LinkInv
  <2>3. ~rolledBack => LinkCounted(l)'
    BY <1>0, <1>2, <2>1 DEF LinkCounted, Tells
  <2>4. Spent(l) => Spent(l)'
    BY <1>0, <1>2 DEF Spent
  <2> QED BY <1>2, <2>1, <2>2, <2>3, <2>4
<1>9. req'[r].pc \notin {"wants", "work"} /\ inTx' \in {0, r}
  BY <1>0, <1>1, <1>2
<1> QED BY <1>0, <1>1, <1>2, <1>3, <1>6, <1>7, <1>8, <1>9, TransactionKeeps

(* The file cannot be saved: a creation gives up its snapshot.                        *)
LEMMA SaveFailsKeeps ==
  ASSUME DlInv, NEW r \in Requests, SaveFails(r)
  PROVE  DlInv'
<1>0. req[r].pc = "save" /\ inTx = r /\ inTx # 0 /\ req[r].link \in Links
  BY DEF SaveFails, DlInv, DlTyped, RequestInv, InTransaction, Requests
<1>1. Goes(r) /\ Keeps(r) /\ req'[r].pc = "end" /\ inTx' = 0
  BY <1>0, StepGoes DEF SaveFails, Leaves, DlInv, DlPcs
<1>2. /\ UNCHANGED <<stored, copy, readable, rolledBack, created, late, links, served, revoked,
                     touched>>
      /\ snapshots' \subseteq snapshots
      /\ \A l \in DOMAIN stored : l \in snapshots => l \in snapshots'
  BY <1>0 DEF SaveFails, notes, DlInv, RequestInv
<1>3. DlTyped'
  BY <1>1, <1>2 DEF DlTyped, DlInv, IsStore, Goes
<1>4. RequestInv(r)' /\ ~Claiming(r)'
  BY <1>0, <1>1, <1>2 DEF DlInv, RequestInv, Claiming, InTransaction, Goes, Keeps, Requests
<1>5. ClaimCounted(r)'
  BY <1>1, <1>4 DEF ClaimCounted
<1>6. \A l \in Links : Pending(l)' => Pending(l)
  BY <1>0, <1>1, <1>2, PendingShrinks DEF DlInv
<1>7. ASSUME NEW l \in Links
      PROVE  /\ LinkInv(l)' /\ served'[l] >= served[l]
             /\ ~rolledBack => LinkCounted(l)' /\ (Spent(l) /\ ~Pending(l) => Spent(l)')
  <2>1. LinkInv(l) /\ served[l] \in Nat /\ (~rolledBack => LinkCounted(l))
    BY DEF DlInv, DlTyped, Counts
  <2>2. LinkInv(l)'
    BY <1>2, <1>6, <2>1 DEF LinkInv
  <2>3. ~rolledBack => LinkCounted(l)'
    BY <1>1, <1>2, <2>1 DEF LinkCounted, Tells
  <2>4. Spent(l) => Spent(l)'
    BY <1>1, <1>2 DEF Spent
  <2> QED BY <1>2, <2>1, <2>2, <2>3, <2>4
<1>8. req'[r].pc \notin {"wants", "work"}
  BY <1>1
<1> QED BY <1>0, <1>1, <1>2, <1>3, <1>4, <1>5, <1>7, <1>8, TransactionKeeps

(* save_locked, the copy, and the end of the save.                                    *)
LEMMA SaveCopyKeeps ==
  ASSUME DlInv, NEW r \in Requests, SaveCopy(r)
  PROVE  DlInv'
<1>0. /\ req[r].pc = "backup" /\ inTx = r /\ inTx # 0 /\ req[r].link \in Links
      /\ links = stored /\ Saved(r)
  BY DEF SaveCopy, DlInv, DlTyped, RequestInv, InTransaction, Requests
<1>1. /\ UNCHANGED <<stored, rolledBack, snapshots, created, late, links, served, touched>>
      /\ copy' \in {copy, links} /\ readable' \in {readable, readable \cup {"backup"}}
  BY DEF SaveCopy
<1>2. /\ Goes(r) /\ Keeps(r)
      /\ \/ /\ req[r].then \in {"tidy", "answer"} /\ req'[r].pc = req[r].then
            /\ inTx' = inTx /\ revoked' = revoked
         \/ /\ req[r].then \notin {"tidy", "answer"} /\ req'[r].pc = "end" /\ inTx' = 0
            /\ revoked' = (IF req[r].then = "revoked" THEN revoked \cup {req[r].link} ELSE revoked)
  <2>1. CASE req[r].then \in {"tidy", "answer"}
    <3>1. Step(r, req[r].then) /\ inTx' = inTx /\ revoked' = revoked
      BY <1>0, <2>1 DEF Saved
    <3>2. req[r].then \in DlPcs \ {"new"}
      BY <2>1 DEF DlPcs
    <3> QED BY <2>1, <3>1, <3>2, StepGoes DEF DlInv
  <2>2. CASE req[r].then \notin {"tidy", "answer"}
    BY <1>0, <2>2, StepGoes DEF Saved, Leaves, DlInv, DlPcs
  <2> QED BY <2>1, <2>2
<1>3. DlTyped'
  BY <1>0, <1>1, <1>2 DEF DlTyped, DlInv, IsStore, Goes
<1>4. Claiming(r)' <=> req[r].then \in {"tidy", "answer"}
  BY <1>0, <1>2 DEF Claiming
<1>5. Claiming(r)' => Claiming(r) /\ revoked' = revoked
  BY <1>0, <1>2, <1>4 DEF Claiming
<1>6. RequestInv(r)'
  BY <1>0, <1>1, <1>2, <1>4, <1>5 DEF DlInv, RequestInv, InTransaction, Goes, Keeps, Requests
<1>7. ~rolledBack => ClaimCounted(r)'
  BY <1>0, <1>1, <1>2, <1>4, <1>5 DEF DlInv, Counts, ClaimCounted, Goes, Keeps
<1>8. \A l \in Links : Pending(l)' => Pending(l)
  BY <1>0, <1>1, <1>2, PendingShrinks DEF DlInv
<1>9. ASSUME NEW l \in Links
      PROVE  /\ LinkInv(l)' /\ served'[l] >= served[l]
             /\ ~rolledBack => LinkCounted(l)' /\ (Spent(l) /\ ~Pending(l) => Spent(l)')
  <2>1. LinkInv(l) /\ served[l] \in Nat /\ (~rolledBack => LinkCounted(l))
    BY DEF DlInv, DlTyped, Counts
  <2>2. l \in revoked' => l \in revoked \/ (l \notin snapshots /\ ~Pending(l))
    <3>1. req[r].then = "revoked" => req[r].link \notin snapshots /\ ~Pending(req[r].link)
      BY <1>0 DEF DlInv, RequestInv
    <3>2. CASE req[r].then = "revoked"
      BY <1>2, <3>1, <3>2
    <3>3. CASE req[r].then # "revoked"
      BY <1>2, <3>3
    <3> QED BY <3>2, <3>3
  <2>3. LinkInv(l)'
    BY <1>1, <1>8, <2>1, <2>2 DEF LinkInv
  <2>4. ~rolledBack => LinkCounted(l)'
    BY <1>0, <1>1, <1>2, <2>1 DEF LinkCounted, Tells
  <2>5. Spent(l) => Spent(l)'
    BY <1>0, <1>1, <1>2 DEF Spent
  <2> QED BY <1>1, <2>1, <2>3, <2>4, <2>5
<1>10. req'[r].pc \notin {"wants", "work"} /\ inTx' \in {0, r}
  BY <1>0, <1>2
<1> QED BY <1>0, <1>1, <1>2, <1>3, <1>6, <1>7, <1>9, <1>10, TransactionKeeps

--------------------------------------------------------------------------------
(* A step outside a transaction, or that begins one: the store in memory is of nobody, *)
(* or just read.                                                                      *)
LEMMA ReleaseKeeps ==
  ASSUME DlInv, NEW r \in Requests, Release(r)
  PROVE  DlInv'
<1>0. req[r].pc = "streaming" /\ req[r].link \in Links /\ inTx # r
  BY DEF Release, DlInv, DlTyped, RequestInv, InTransaction
<1>1. Goes(r) /\ Keeps(r) /\ req'[r].pc = "end"
  BY <1>0, StepGoes DEF Release, DlInv, DlPcs
<1>2. /\ UNCHANGED <<stored, copy, readable, rolledBack, diskFaults, created, late, inTx, links,
                     served, revoked, touched>>
      /\ snapshots' \subseteq snapshots
      /\ \A l \in snapshots \ snapshots' : l = req[r].link /\ req[r].final
  BY DEF Release, linkFiles, notes
<1>3. DlTyped'
  BY <1>1, <1>2 DEF DlTyped, DlInv, IsStore, Goes
<1>4. CreatedOnce' /\ \A l \in Links : Pending(l)' => Pending(l)
  BY <1>0, <1>1, <1>2, PendingShrinks DEF DlInv
<1>5. ASSUME NEW q \in Requests
      PROVE  RequestInv(q)' /\ (~rolledBack => ClaimCounted(q)')
  <2>1. CASE q = r
    BY <1>0, <1>1, <1>2, <2>1
       DEF DlInv, RequestInv, Claiming, InTransaction, ClaimCounted, Goes, Keeps
  <2>2. CASE q # r
    <3>1. req'[q] = req[q] /\ RequestInv(q) /\ (~rolledBack => ClaimCounted(q))
      BY <1>1, <2>2 DEF Goes, DlInv, Counts
    <3>2. Claiming(q)' <=> Claiming(q)
      BY <3>1 DEF Claiming
    <3>3. req[q].pc \in {"save", "backup"} /\ req[q].then = "revoked" =>
            req[q].link \in Links /\ ~Pending(req[q].link)'
      BY <1>4, <3>1 DEF RequestInv, DlInv, DlTyped
    <3>4. RequestInv(q)'
      BY <1>2, <3>1, <3>2, <3>3 DEF RequestInv
    <3> QED BY <1>2, <3>1, <3>2, <3>4 DEF ClaimCounted, Spent
  <2> QED BY <2>1, <2>2
<1>6. ASSUME NEW l \in Links
      PROVE  LinkInv(l)' /\ (~rolledBack => LinkCounted(l)')
  <2>1. LinkInv(l) /\ (~rolledBack => LinkCounted(l))
    BY DEF DlInv, Counts
  <2>2. ASSUME ~rolledBack, l \in snapshots \ snapshots' PROVE Spent(l)
    BY <1>0, <1>2, <2>2 DEF DlInv, Counts, ClaimCounted
  <2>3. ASSUME ~rolledBack PROVE Tells(stored, l)'
    BY <1>2, <2>1, <2>2, <2>3, DownloadsAssumption DEF LinkCounted, Tells, Spent, DlInv, DlTyped, IsStore
  <2>4. ASSUME ~rolledBack, inTx # 0 PROVE Tells(links, l)'
    BY <1>2, <2>1, <2>2, <2>4, DownloadsAssumption DEF LinkCounted, Tells, Spent, DlInv, DlTyped, IsStore
  <2> QED BY <1>2, <1>4, <2>1, <2>3, <2>4 DEF LinkInv, LinkCounted
<1> QED BY <1>2, <1>3, <1>4, <1>5, <1>6 DEF DlInv, Counts

(* A request that dies, and a file that is damaged: nothing of the store changes.     *)
LEMMA DiesKeeps ==
  ASSUME DlInv, NEW r \in Requests, RequestDies(r)
  PROVE  DlInv'
<1>0. req[r].pc \notin {"new", "end"} /\ inTx' = (IF inTx = r THEN 0 ELSE inTx)
  BY DEF RequestDies
<1>1. Goes(r) /\ Keeps(r) /\ req'[r].pc = "end"
  BY StepGoes DEF RequestDies, DlInv, DlPcs
<1>2. UNCHANGED <<stored, copy, readable, rolledBack, diskFaults, snapshots, created, late, links,
                  served, revoked, touched>>
  BY DEF RequestDies, linkFiles, notes
<1>3. DlTyped'
  BY <1>0, <1>1, <1>2 DEF DlTyped, DlInv, IsStore, Goes
<1>4. CreatedOnce' /\ \A l \in Links : Pending(l)' => Pending(l)
  BY <1>0, <1>1, <1>2, PendingShrinks DEF DlInv
<1>5. ASSUME NEW q \in Requests
      PROVE  RequestInv(q)' /\ (~rolledBack => ClaimCounted(q)')
  <2>1. CASE q = r
    BY <1>0, <1>1, <1>2, <2>1
       DEF DlInv, RequestInv, Claiming, InTransaction, ClaimCounted, Goes, Keeps, Requests
  <2>2. CASE q # r
    <3>1. req'[q] = req[q] /\ RequestInv(q) /\ (~rolledBack => ClaimCounted(q))
      BY <1>1, <2>2 DEF Goes, DlInv, Counts
    <3>2. Claiming(q)' <=> Claiming(q)
      BY <3>1 DEF Claiming
    <3>3. req[q].pc \in {"save", "backup"} /\ req[q].then = "revoked" =>
            req[q].link \in Links /\ ~Pending(req[q].link)'
      BY <1>4, <3>1 DEF RequestInv, DlInv, DlTyped
    <3>4. inTx' = q <=> inTx = q
      BY <1>0, <2>2 DEF Requests
    <3>5. RequestInv(q)'
      BY <1>2, <3>1, <3>2, <3>3, <3>4 DEF RequestInv
    <3> QED BY <1>0, <1>2, <3>1, <3>2, <3>5 DEF ClaimCounted, Spent
  <2> QED BY <2>1, <2>2
<1>6. ASSUME NEW l \in Links
      PROVE  LinkInv(l)' /\ (~rolledBack => LinkCounted(l)')
  BY <1>0, <1>2, <1>4 DEF DlInv, Counts, LinkInv, LinkCounted, Tells
<1> QED BY <1>2, <1>3, <1>4, <1>5, <1>6 DEF DlInv, Counts

(* transaction: a request gets the store, or ends when it cannot be read.             *)
LEMMA EnterKeeps ==
  ASSUME DlInv, NEW r \in Requests, Enter(r)
  PROVE  DlInv'
<1>0. req[r].pc = "wants" /\ inTx = 0 /\ req[r].link \in Links /\ ~req[r].final
  BY DEF Enter, DlInv, DlTyped, RequestInv
<1>1. /\ UNCHANGED <<copy, diskFaults, snapshots, created, late, served, revoked, touched>>
      /\ readable' \subseteq {"primary", "backup"} /\ rolledBack' \in BOOLEAN
      /\ rolledBack => rolledBack'
      /\ stored' \in {stored, copy} /\ (~rolledBack' => stored' = stored)
  <2>1. copy # stored \/ copy = stored OBVIOUS
  <2> QED BY <2>1 DEF Enter, linkFiles, notes, DlInv, DlTyped
<1>2. /\ Goes(r) /\ Keeps(r)
      /\ \/ req'[r].pc = "work" /\ inTx' = r /\ links' = stored'
         \/ req'[r].pc = "end" /\ inTx' = 0 /\ links' = links /\ stored' = stored
  <2>1. CASE Step(r, "work") /\ inTx' = r /\ links' = stored'
    BY <2>1, StepGoes DEF DlInv, DlPcs
  <2>2. CASE Step(r, "end") /\ UNCHANGED <<linkFiles, inTx, links>>
    BY <1>0, <2>2, StepGoes DEF DlInv, DlPcs, linkFiles
  <2> QED BY <2>1, <2>2 DEF Enter, linkFiles
<1>3. DlTyped'
  <2>1. IsStore(stored)' /\ IsStore(copy)' /\ IsStore(links)'
    BY <1>1, <1>2 DEF DlInv, DlTyped, IsStore
  <2> QED BY <1>1, <1>2, <2>1 DEF DlTyped, DlInv, Goes
<1>4. CreatedOnce' /\ \A l \in Links : Pending(l)' => Pending(l)
  BY <1>0, <1>1, <1>2, PendingShrinks DEF DlInv
<1>5. ASSUME NEW q \in Requests
      PROVE  RequestInv(q)' /\ (~rolledBack' => ClaimCounted(q)')
  <2>1. CASE q = r
    BY <1>0, <1>1, <1>2, <2>1
       DEF DlInv, RequestInv, Claiming, InTransaction, ClaimCounted, Goes, Keeps, Requests
  <2>2. CASE q # r
    <3>1. /\ req'[q] = req[q] /\ RequestInv(q) /\ req[q].pc \notin InTransaction
          /\ ~rolledBack => ClaimCounted(q)
      BY <1>0, <1>2, <2>2 DEF Goes, DlInv, Counts, RequestInv, Requests
    <3>2. ~Claiming(q)'
      BY <3>1 DEF Claiming, InTransaction
    <3>3. inTx' # q
      BY <1>2, <2>2 DEF Requests
    <3>4. RequestInv(q)'
      BY <1>1, <3>1, <3>2, <3>3 DEF RequestInv, InTransaction
    <3>5. ASSUME ~rolledBack' PROVE ClaimCounted(q)'
      BY <1>0, <1>1, <1>2, <3>1, <3>2, <3>5 DEF ClaimCounted, Spent
    <3> QED BY <3>4, <3>5
  <2> QED BY <2>1, <2>2
<1>6. ASSUME NEW l \in Links
      PROVE  LinkInv(l)' /\ (~rolledBack' => LinkCounted(l)')
  <2>1. LinkInv(l) /\ (~rolledBack => LinkCounted(l))
    BY DEF DlInv, Counts
  <2>2. LinkInv(l)'
    BY <1>1, <1>2, <1>4, <2>1 DEF LinkInv
  <2>3. ASSUME ~rolledBack' PROVE LinkCounted(l)'
    BY <1>0, <1>1, <1>2, <2>1, <2>3 DEF LinkCounted, Tells
  <2> QED BY <2>2, <2>3
<1> QED BY <1>3, <1>4, <1>5, <1>6 DEF DlInv, Counts

(* A request arrives; only a link that is not yet created gets its creation.          *)
LEMMA RequestKeeps ==
  ASSUME DlInv, NEW r \in Requests, NEW new \in Links,
         NEW kind \in {"create", "get", "head", "revoke", "list"}, Request(r, kind, new)
  PROVE  DlInv'
<1>1. PICK pc \in {"wants", "end"} :
        req' = [req EXCEPT ![r] = [NewRequest EXCEPT !.pc = pc, !.kind = kind, !.link = new]]
  BY DEF Request
<1> DEFINE R == [NewRequest EXCEPT !.pc = pc, !.kind = kind, !.link = new]
<1>2. /\ R \in ARequest /\ R.pc = pc /\ R.kind = kind /\ R.link = new /\ R.then = "end"
      /\ R.final = FALSE /\ R.wrong = FALSE
  <2>1. FALSE \in BOOLEAN BY Zenon
  <2> QED BY <2>1 DEF NewRequest, ARequest, DlPcs, DlKinds
<1>3. req' = [req EXCEPT ![r] = R]
  BY <1>1
<1> HIDE DEF R
<1>4. req \in [Requests -> ARequest] /\ req[r].pc = "new" /\ inTx # r
  BY DEF Request, DlInv, DlTyped, RequestInv, InTransaction
<1>5. /\ req' \in [Requests -> ARequest] /\ req'[r] = R
      /\ \A q \in Requests \ {r} : req'[q] = req[q]
  BY <1>2, <1>3, <1>4
<1>6. /\ UNCHANGED <<stored, copy, readable, rolledBack, diskFaults, snapshots, late, inTx, links,
                     served, revoked>>
      /\ created' = created \cup {new} /\ touched' \in {touched, touched \cup {new}}
      /\ kind = "revoke" => new \in touched'
      /\ kind = "create" => new \notin created
  BY DEF Request, linkFiles
<1>7. DlTyped'
  BY <1>5, <1>6 DEF DlTyped, DlInv, IsStore
<1>8. \A q \in Requests \ {r} : (Creates(q)' <=> Creates(q)) /\ (Claiming(q)' <=> Claiming(q))
  BY <1>5 DEF Creates, Claiming
<1>9. CreatedOnce'
  <2> SUFFICES ASSUME NEW p \in Requests, NEW q \in Requests, Creates(p)', Creates(q)',
                      req'[p].link = req'[q].link
               PROVE  p = q
    BY DEF CreatedOnce
  <2>1. \A n \in Requests \ {r} : Creates(n)' => Creates(n) /\ req'[n].link = req[n].link
                                                 /\ req[n].link \in created
    BY <1>5, <1>8 DEF DlInv, RequestInv, Creates
  <2>2. Creates(r)' => req'[r].link \notin created
    BY <1>2, <1>5, <1>6 DEF Creates
  <2> QED BY <2>1, <2>2 DEF DlInv, CreatedOnce
<1>10. \A l \in Links : Pending(l)' => Pending(l)
  <2> SUFFICES ASSUME NEW l \in Links, Pending(l)', l \in created PROVE Pending(l)
    BY DEF Pending
  <2>1. PICK q \in Requests : Creates(q)' /\ req'[q].link = l /\ req'[q].pc \in {"wants", "work"}
    BY <1>6 DEF Pending
  <2>2. q # r
    BY <1>2, <1>5, <1>6, <2>1 DEF Creates
  <2> QED BY <1>5, <1>8, <2>1, <2>2 DEF Pending
<1>11. ASSUME NEW q \in Requests
       PROVE  RequestInv(q)' /\ (~rolledBack => ClaimCounted(q)')
  <2>1. CASE q = r
    BY <1>2, <1>4, <1>5, <1>6, <2>1 DEF RequestInv, Claiming, InTransaction, ClaimCounted
  <2>2. CASE q # r
    <3>1. req'[q] = req[q] /\ RequestInv(q) /\ (~rolledBack => ClaimCounted(q))
      BY <1>5, <2>2 DEF DlInv, Counts
    <3>2. req[q].pc \in {"save", "backup"} /\ req[q].then = "revoked" =>
            req[q].link \in Links /\ ~Pending(req[q].link)'
      BY <1>10, <3>1 DEF RequestInv, DlInv, DlTyped
    <3>3. RequestInv(q)'
      BY <1>6, <1>8, <2>2, <3>1, <3>2 DEF RequestInv
    <3> QED BY <1>6, <1>8, <2>2, <3>1, <3>3 DEF ClaimCounted, Spent
  <2> QED BY <2>1, <2>2
<1>12. ASSUME NEW l \in Links
       PROVE  LinkInv(l)' /\ (~rolledBack => LinkCounted(l)')
  <2>1. LinkInv(l) /\ (~rolledBack => LinkCounted(l))
    BY DEF DlInv, Counts
  <2> QED BY <1>6, <1>10, <2>1 DEF LinkInv, LinkCounted, Tells
<1> QED BY <1>6, <1>7, <1>9, <1>11, <1>12 DEF DlInv, Counts

(* The time of a link passes, or a file is damaged.                                   *)
LEMMA TimeKeeps ==
  ASSUME DlInv, (\E l \in Links : LinkEnds(l)) \/ (\E f \in {"primary", "backup"} : Damage(f))
  PROVE  DlInv'
<1>1. /\ UNCHANGED <<stored, copy, rolledBack, snapshots, created, inTx, links, req, served,
                     revoked, touched>>
      /\ late \subseteq late' /\ late' \subseteq created /\ readable' \subseteq readable
  <2>1. late \subseteq created
    BY DEF DlInv, DlTyped
  <2> QED BY <2>1 DEF LinkEnds, Damage, linkFiles, notes
<1>2. DlTyped'
  BY <1>1 DEF DlTyped, DlInv, IsStore
<1>3. CreatedOnce'
  BY <1>1 DEF DlInv, CreatedOnce, Creates
<1>4. \A l : Pending(l)' <=> Pending(l)
  BY <1>1 DEF Pending, Creates
<1>5. ASSUME NEW q \in Requests
      PROVE  RequestInv(q)' /\ (~rolledBack => ClaimCounted(q)')
  BY <1>1, <1>4 DEF DlInv, Counts, RequestInv, ClaimCounted, Claiming, Spent
<1>6. ASSUME NEW l \in Links
      PROVE  LinkInv(l)' /\ (~rolledBack => LinkCounted(l)')
  BY <1>1, <1>4 DEF DlInv, Counts, LinkInv, LinkCounted, Tells
<1> QED BY <1>1, <1>2, <1>3, <1>5, <1>6 DEF DlInv, Counts

(* No request has come and no link is created.                                        *)
LEMMA DlInvInit == DownloadsInit => DlInv
<1> SUFFICES ASSUME DownloadsInit PROVE DlInv OBVIOUS
<1>1. \A r \in Requests : req[r] = NewRequest
  BY DEF DownloadsInit
<1>2. NewRequest \in ARequest /\ NewRequest.pc = "new" /\ NewRequest.kind = "none"
      /\ NewRequest.wrong = FALSE /\ NewRequest.then = "end"
  <2>1. FALSE \in BOOLEAN BY Zenon
  <2> QED BY <2>1 DEF NewRequest, ARequest, DlPcs, DlKinds
<1>3. DOMAIN Empty = {} /\ Empty \in [DOMAIN Empty -> Nat]
  BY DEF Empty
<1>4. DlTyped
  <2>1. FALSE \in BOOLEAN BY Zenon
  <2>2. req \in [Requests -> ARequest]
    BY <1>2 DEF DownloadsInit
  <2> QED BY <1>3, <2>1, <2>2 DEF DlTyped, DownloadsInit, IsStore
<1>5. CreatedOnce /\ \A r \in Requests : RequestInv(r) /\ ClaimCounted(r)
  BY <1>1, <1>2 DEF CreatedOnce, Creates, RequestInv, ClaimCounted, Claiming, InTransaction,
     DownloadsInit, Requests
<1>6. \A l \in Links : LinkInv(l) /\ LinkCounted(l)
  BY <1>3, DownloadsAssumption DEF LinkInv, LinkCounted, Tells, DownloadsInit
<1> QED BY <1>4, <1>5, <1>6 DEF DlInv, Counts

(* Every step of the requests, of time and of the disk.                               *)
LEMMA DlInvStep == DlInv /\ [DownloadsNext]_dlVars => DlInv'
<1> SUFFICES ASSUME DlInv, [DownloadsNext]_dlVars PROVE DlInv' OBVIOUS
<1>1. ASSUME NEW r \in Requests, RequestStep(r) PROVE DlInv'
  BY <1>1, EnterKeeps, PublishKeeps, ListKeeps, RevokeKeeps, RefuseKeeps, ClaimKeeps, PruneOthersKeeps,
     AnswerKeeps, SaveFileKeeps, SaveFailsKeeps, SaveCopyKeeps, ReleaseKeeps DEF RequestStep
<1>2. CASE UNCHANGED dlVars
  <2>1. UNCHANGED <<stored, copy, readable, snapshots, created, late, inTx, links, req, served,
                    revoked, touched, rolledBack>>
    BY <1>2 DEF dlVars
  <2>2. DlTyped' /\ CreatedOnce'
    BY <2>1 DEF DlInv, DlTyped, IsStore, CreatedOnce, Creates
  <2>3. \A r \in Requests : RequestInv(r)'
    BY <2>1 DEF DlInv, RequestInv, Claiming, Pending, Creates
  <2>4. \A l \in Links : LinkInv(l)'
    BY <2>1 DEF DlInv, LinkInv, Pending, Creates
  <2>5. Counts'
    BY <2>1 DEF DlInv, Counts, ClaimCounted, Claiming, Spent, LinkCounted, Tells
  <2> QED BY <2>2, <2>3, <2>4, <2>5 DEF DlInv
<1> QED BY <1>1, <1>2, RequestKeeps, DiesKeeps, TimeKeeps DEF DownloadsNext

(* What the property says of links follows from what their stores tell of them.       *)
LEMMA DlInvSound == DlInv => DownloadsSound
<1> SUFFICES ASSUME DlInv PROVE DownloadsSound OBVIOUS
<1>1. DlTypeOK
  BY DEF DlInv, DlTyped, IsStore, RequestInv, InTransaction, DlTypeOK
<1>2. LinksBounded
  BY DEF DlInv, DlTyped, RequestInv, Counts, LinkCounted, LinksBounded
<1>3. LinksHaveSnapshots
  <2> SUFFICES ASSUME NEW l \in DOMAIN stored, l \notin late, stored[l] < MaxUses, ~rolledBack
               PROVE  l \in snapshots \cup touched
    BY DEF LinksHaveSnapshots
  <2>1. l \in Links
    BY DEF DlInv, DlTyped, IsStore
  <2> QED BY <2>1 DEF DlInv, Counts, LinkCounted, Tells
<1> QED BY <1>1, <1>2, <1>3 DEF DownloadsSound

(* DownloadsSound: a link is served at most as often as it may be, never after its    *)
(* revocation was answered, and a link that can be used has its snapshot.             *)
THEOREM DownloadsTheorem == DownloadsSpec => []DownloadsSound
BY DlInvInit, DlInvStep, DlInvSound, PTL DEF DownloadsSpec
================================================================================
