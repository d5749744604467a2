------------------------------- MODULE PathLocks -------------------------------
(*****************************************************************************)
(* The locks around every change of a file or of a state file               *)
(* (utils/path_locks.py, FileStateStore.transaction): a reference-counted    *)
(* lock per path among the threads of a process, then a file lock per shard  *)
(* among the processes.  Several paths are locked in one order.              *)
(*****************************************************************************)
EXTENDS Naturals, FiniteSets

CONSTANTS Threads,    \* of all processes
          ProcessOf,  \* [Threads -> processes]
          Files,      \* paths that are changed, as numbers in the order of their names
          Keys,       \* state files, likewise
          ShardOf,    \* [Files \cup Keys -> lock files, as numbers in their order]
          MaxLocked,  \* bound on requests
          Unowned

Paths == Files \cup Keys
Processes == {ProcessOf[t] : t \in Threads}
LockFiles == {ShardOf[f] : f \in Paths}

ASSUME PathLocksAssumption ==
  /\ IsFiniteSet(Threads) /\ IsFiniteSet(Paths)
  /\ Files \subseteq Nat /\ Keys \subseteq Nat /\ MaxLocked \in Nat
  /\ ShardOf \in [Paths -> Nat]
  /\ Unowned \notin Threads

VARIABLES
  holds,   \* [Threads -> what it wants, and how far it got]
  entry,   \* _PATH_LOCKS of each process: the number of the lock object of a path
  users,   \* [processes -> [objects -> holders and waiters]]
  heldBy,   \* [processes -> [objects -> thread]]: threading.RLock
  shard,   \* [lock files -> thread]: flock
  locked   \* requests so far

plVars == <<holds, entry, users, heldBy, shard, locked>>

\* At most one lock object for a request and path.
Objects == 1..(MaxLocked * Cardinality(Paths))

Rest == [pc |-> "rest", want |-> {}, objs |-> {}, mine |-> {}]

LocksInit ==
  /\ holds = [t \in Threads |-> Rest]
  /\ entry = [p \in Processes |-> [f \in Paths |-> 0]]
  /\ users = [p \in Processes |-> [o \in Objects |-> 0]]
  /\ heldBy = [p \in Processes |-> [o \in Objects |-> Unowned]]
  /\ shard = [s \in LockFiles |-> Unowned]
  /\ locked = 0

\* holds[t].objs are the pairs of a path and its lock object that t counts in,
\* holds[t].mine the objects and lock files t has taken.
Counted(t) == {b[1] : b \in holds[t].objs}
Has(t, kind) == {m[2] : m \in {n \in holds[t].mine : n[1] = kind}}
Lowest(S) == CHOOSE x \in S : \A y \in S : x <= y

--------------------------------------------------------------------------------
\* path_locks takes any set of paths, once each; a transaction one state file.
FileRequests == {S \in SUBSET Files : S # {}}
StateRequests == {{k} : k \in Keys}

Ask(t, S) ==
  /\ holds[t].pc = "rest" /\ locked < MaxLocked
  /\ holds' = [holds EXCEPT ![t] = [Rest EXCEPT !.pc = "count", !.want = S]]
  /\ locked' = locked + 1
  /\ UNCHANGED <<entry, users, heldBy, shard>>

\* _thread_lock_for, under the guard of the registry.
Count(t) ==
  LET p == ProcessOf[t]
      f == Lowest(holds[t].want \ Counted(t))
      o == IF entry[p][f] # 0 THEN entry[p][f]
           ELSE CHOOSE n \in Objects : users[p][n] = 0 /\ \A g \in Paths : entry[p][g] # n
  IN /\ holds[t].pc = "count" /\ holds[t].want # Counted(t)
     /\ entry' = [entry EXCEPT ![p][f] = o]
     /\ users' = [users EXCEPT ![p][o] = @ + 1]
     /\ holds' = [holds EXCEPT ![t].objs = @ \cup {<<f, o>>}]
     /\ UNCHANGED <<heldBy, shard, locked>>

\* The locks of the threads, in the order of the paths.
NextPath(t) == Lowest(holds[t].want \ Has(t, "path"))
LockThread(t) ==
  /\ holds[t].pc = "count" /\ holds[t].want = Counted(t)
  /\ Has(t, "path") # holds[t].want
  /\ \E b \in holds[t].objs :
       /\ b[1] = NextPath(t) /\ heldBy[ProcessOf[t]][b[2]] = Unowned
       /\ heldBy' = [heldBy EXCEPT ![ProcessOf[t]][b[2]] = t]
  /\ holds' = [holds EXCEPT ![t].mine = @ \cup {<<"path", NextPath(t)>>}]
  /\ UNCHANGED <<entry, users, shard, locked>>

\* The lock files, in their order, each of them once.
Shards(t) == {ShardOf[f] : f \in holds[t].want}
NextShard(t) == Lowest(Shards(t) \ Has(t, "shard"))

\* In the order of the files that are changed.
ShardOfSomeFile(t, s) == s \in Shards(t) \ Has(t, "shard")
InOrder(t, s) == s = NextShard(t)
LockShard(t) ==
  /\ holds[t].pc = "count" /\ Has(t, "path") = holds[t].want
  /\ \E s \in Shards(t) \ Has(t, "shard") :
       /\ InOrder(t, s) /\ shard[s] = Unowned
       /\ shard' = [shard EXCEPT ![s] = t]
       /\ holds' = [holds EXCEPT ![t].mine = @ \cup {<<"shard", s>>},
                       ![t].pc = IF Shards(t) = Has(t, "shard") \cup {s} THEN "inside" ELSE @]
  /\ UNCHANGED <<entry, users, heldBy, locked>>

\* The body ends, or a lock file cannot be prepared, opened or locked.
Exits(t) ==
  /\ holds[t].pc = "inside" \/ (holds[t].pc = "count" /\ Counted(t) = holds[t].want)
  /\ holds' = [holds EXCEPT ![t].pc = "unwind"]
  /\ UNCHANGED <<entry, users, heldBy, shard, locked>>

\* The exit stack gives back what was taken ...
Unlock(t) ==
  /\ holds[t].pc = "unwind" /\ holds[t].mine # {}
  /\ shard' = [s \in LockFiles |-> IF shard[s] = t THEN Unowned ELSE shard[s]]
  /\ heldBy' = [heldBy EXCEPT ![ProcessOf[t]] =
                 [o \in Objects |-> IF @[o] = t THEN Unowned ELSE @[o]]]
  /\ holds' = [holds EXCEPT ![t].mine = {}]
  /\ UNCHANGED <<entry, users, locked>>

\* ... and the finally clause stops counting: the last user removes the entry.
LastUserAnyhow(p, o) == TRUE
LastUser(p, o) == users[p][o] = 1
Uncount(t) ==
  LET p == ProcessOf[t]
      b == CHOOSE c \in holds[t].objs : \A d \in holds[t].objs : d[1] <= c[1]
      left == holds[t].objs \ {b}
  IN /\ holds[t].pc = "unwind" /\ holds[t].mine = {}
     /\ users' = [users EXCEPT ![p][b[2]] = @ - 1]
     /\ entry' = (IF LastUser(p, b[2]) /\ entry[p][b[1]] = b[2]
                  THEN [entry EXCEPT ![p][b[1]] = 0] ELSE entry)
     /\ holds' = [holds EXCEPT ![t] = IF left = {} THEN Rest ELSE [@ EXCEPT !.objs = left]]
     /\ UNCHANGED <<heldBy, shard, locked>>

\* A process dies: the kernel closes its lock files, its registry is gone.
ProcessDies(p) ==
  /\ holds' = [t \in Threads |-> IF ProcessOf[t] = p THEN Rest ELSE holds[t]]
  /\ \E t \in Threads : ProcessOf[t] = p /\ holds[t].pc # "rest"
  /\ entry' = [entry EXCEPT ![p] = [f \in Paths |-> 0]]
  /\ users' = [users EXCEPT ![p] = [o \in Objects |-> 0]]
  /\ heldBy' = [heldBy EXCEPT ![p] = [o \in Objects |-> Unowned]]
  /\ shard' = [s \in LockFiles |->
                 IF shard[s] # Unowned /\ ProcessOf[shard[s]] = p THEN Unowned ELSE shard[s]]
  /\ UNCHANGED locked

LockStep(t) ==
  \/ Count(t) \/ LockThread(t) \/ LockShard(t)
  \/ (holds[t].pc = "inside" /\ Exits(t)) \/ Unlock(t) \/ Uncount(t)

LocksNext ==
  \/ \E t \in Threads :
       \/ \E S \in FileRequests \cup StateRequests : Ask(t, S)
       \/ LockStep(t) \/ Exits(t)
  \/ \E p \in Processes : ProcessDies(p)

LocksSpec == LocksInit /\ [][LocksNext]_plVars

--------------------------------------------------------------------------------
\* No two threads, of one process or of two, are inside for the same path.
Exclusive ==
  \A t, u \in Threads :
    t # u /\ holds[t].pc = "inside" /\ holds[u].pc = "inside"
      => holds[t].want \cap holds[u].want = {}

\* All who wait for a path in one process wait for one object: an entry lives as
\* long as it has users, and no longer.
OneObject ==
  \A p \in Processes :
    /\ \A t \in Threads : ProcessOf[t] = p =>
         \A b \in holds[t].objs : entry[p][b[1]] = b[2]
    /\ \A f \in Paths : entry[p][f] # 0 =>
         users[p][entry[p][f]] =
           Cardinality({t \in Threads : ProcessOf[t] = p /\ <<f, entry[p][f]>> \in holds[t].objs})
    /\ (\A t \in Threads : ProcessOf[t] = p => holds[t].objs = {})
         => \A f \in Paths : entry[p][f] = 0

\* t waits for u: the next lock that t needs is u's.
InQueue(t) == holds[t].pc = "count" /\ holds[t].want = Counted(t)
NeedsPath(t) == InQueue(t) /\ Has(t, "path") # holds[t].want
NeedsShard(t) == InQueue(t) /\ Has(t, "path") = holds[t].want
WaitsFor(t, u) ==
  \/ /\ NeedsPath(t)
     /\ \E b \in holds[t].objs : b[1] = NextPath(t) /\ heldBy[ProcessOf[t]][b[2]] = u
  \/ NeedsShard(t) /\ shard[NextShard(t)] = u

\* Nobody waits in a circle: whoever is waited for, and waits itself, waits for a
\* later lock, where the lock files are later than all paths.
WaitsClimb ==
  \A t, u \in Threads :
    WaitsFor(t, u) =>
      /\ NeedsPath(u) => NeedsPath(t) /\ NextPath(t) < NextPath(u)
      /\ NeedsShard(t) /\ NeedsShard(u) => NextShard(t) < NextShard(u)

LocksSound == Exclusive /\ OneObject /\ WaitsClimb
================================================================================
