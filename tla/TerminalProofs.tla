---------------------------- MODULE TerminalProofs ----------------------------
(*****************************************************************************)
(* The two halves of the terminal, the shells a Windows host keeps and the   *)
(* raw connections a controller keeps to shells, and what the Human UI keeps *)
(* on machines: its terminal connections and its sessions on the workers;    *)
(* and the commands that a runner bounds.                                    *)
(* ConPtySound holds in every state of ConPtySpec, for any set of starts and *)
(* of identifiers; BridgesSound in every state of BridgesSpec, for any set   *)
(* of openings, of terminals and any limit; SocketsSound in every state of   *)
(* SocketsSpec, for any connections, any limit and any length of input;      *)
(* FilesSound in every state of FilesSpec, for any requests and directories; *)
(* and CommandsSound in every state of BrSpec and of LdSpec, for any number  *)
(* of processes and of looks.                                                *)
(* What ConPtySound says of a session follows from where its start stands:   *)
(* before it is registered nothing closes it, and after that its lease       *)
(* stands for its place in the table. What BridgesSound says of a client     *)
(* follows from where the operation that made it stands, and from the two    *)
(* maps of the registry, which agree and are counted. What SocketsSound says *)
(* of a connection follows from its place and from the call of its receiver  *)
(* that is under way, of which there is one at most. FilesSound needs to     *)
(* know which request makes a session and which hold one. CommandsSound      *)
(* follows from what the runner's walk or tracker has before it of what      *)
(* lives.                                                                    *)
(*****************************************************************************)
EXTENDS ConPtyShells, TerminalBridges, RemoteFiles, TerminalSockets,
        LaunchdRunner, FiniteSetTheorems, WellFoundedInduction, TLAPS

(*****************************************************************************)
(* Windows shells.                                                           *)
(*****************************************************************************)
StartPcs == {"new", "checking", "leasing", "spawning", "spawned", "overtaken", "up",
             "undoing", "closing", "failed", "uncertain", "left"}
Stages == {"none", "reading", "mark", "stop", "final", "kept", "remove"}
Gates == {"open", "stopped", "draining", "closing", "closed"}

AStart == [pc : StartPcs, id : ShellIds \cup {0}, cancel : BOOLEAN]
AShell == [proc : {"none", "alive", "dead"}, lease : BOOLEAN, closing : BOOLEAN, sub : BOOLEAN]
CpType ==
  /\ start \in [ShellStarts -> AStart]
  /\ shell \in [ShellStarts -> AShell]
  /\ closes \in [ShellStarts -> [Closers -> Stages]]
  /\ table \in [ShellIds -> ShellStarts \cup {0}]
  /\ shellGate \in Gates

\* The places of a start whose session no one else can know.
Early == {"new", "checking", "leasing", "spawning", "spawned", "overtaken"}
Unseen(o) ==
  start[o].pc \in Early =>
    ~Registered(o) /\ \A c \in Closers : closes[o][c] = "none"
\* The start has its identifier, and from the look at the table until it enters it no
\* other start can take it. The table has a session under its identifier only.
HasName(o) ==
  /\ start[o].pc = "new" => start[o].id = 0
  /\ start[o].pc # "new" => start[o].id \in ShellIds
  /\ \A i \in ShellIds : table[i] = o => start[o].id = i
  /\ start[o].pc \in {"leasing", "spawning", "spawned"} => table[start[o].id] = 0
\* What the start has by then, the lease first.
HasByThen(o) ==
  /\ start[o].pc \in {"new", "checking", "leasing"} => ~shell[o].lease
  /\ start[o].pc \in {"new", "checking", "leasing", "spawning"} => shell[o].proc = "none"
  /\ start[o].pc = "spawning" => shell[o].lease
\* The lease covers the process, and a session that has its lease is still registered.
LeaseStands(o) ==
  /\ ProcAlive(o) => shell[o].lease
  /\ start[o].pc \notin Early /\ shell[o].lease => Registered(o)
  /\ \A c \in Closers : closes[o][c] = "remove" => ~shell[o].lease
\* A start that is undone is sure of the end of its process before it says so.
UndoneIsDead(o) ==
  /\ start[o].pc \in {"undoing", "closing"} /\ closes[o]["start"] \in {"none", "remove"} =>
       ~ProcAlive(o)
  /\ start[o].pc = "failed" => ~ProcAlive(o)
SubscribersGone(o) == shell[o].closing => ~shell[o].sub
\* The registry is closed after the last start, and marks whatever runs.
ClosedOver(o) ==
  /\ start[o].pc = "overtaken" => shellGate # "open"
  /\ shellGate \in {"closing", "closed"} => ~Underway(o)
  /\ shellGate \in {"closing", "closed"} /\ ProcAlive(o) =>
       \/ shell[o].closing \/ start[o].pc = "overtaken"
       \/ shellGate = "closing" /\ closes[o]["registry"] = "mark"
SessionInv(o) ==
  /\ Unseen(o) /\ HasName(o) /\ HasByThen(o) /\ LeaseStands(o)
  /\ UndoneIsDead(o) /\ SubscribersGone(o) /\ ClosedOver(o)
\* The admission lock.
OneAtATime == \A o, q \in ShellStarts : Underway(o) /\ Underway(q) => o = q

ConPtyInv == CpType /\ OneAtATime /\ \A o \in ShellStarts : SessionInv(o)

-----------------------------------------------------------------------------
\* The moves the actions are made of keep the types.
LEMMA PlaceType ==
  ASSUME CpType, NEW o \in ShellStarts, NEW pc \in StartPcs, StartGoes(o, pc)
  PROVE  start' \in [ShellStarts -> AStart]
<1>1. start[o] \in AStart
  BY DEF CpType, AStart, AShell
<1>2. [start[o] EXCEPT !.pc = pc] \in AStart
  BY <1>1 DEF AStart
<1> QED
  BY <1>2 DEF CpType, AStart, AShell, StartGoes

LEMMA ShellType ==
  ASSUME CpType, NEW o \in ShellStarts
  PROVE  /\ \A b \in BOOLEAN : [shell EXCEPT ![o].lease = b] \in [ShellStarts -> AShell]
         /\ \A b \in BOOLEAN : [shell EXCEPT ![o].sub = b] \in [ShellStarts -> AShell]
         /\ \A x \in {"none", "alive", "dead"} :
              [shell EXCEPT ![o].proc = x] \in [ShellStarts -> AShell]
<1>1. shell[o] \in AShell
  BY DEF CpType
<1>2. ASSUME NEW b \in BOOLEAN
      PROVE  [shell EXCEPT ![o].lease = b] \in [ShellStarts -> AShell]
  <2>1. [shell[o] EXCEPT !.lease = b] \in AShell
    BY <1>1 DEF AShell
  <2> QED
    BY <2>1 DEF CpType
<1>3. ASSUME NEW b \in BOOLEAN
      PROVE  [shell EXCEPT ![o].sub = b] \in [ShellStarts -> AShell]
  <2>1. [shell[o] EXCEPT !.sub = b] \in AShell
    BY <1>1 DEF AShell
  <2> QED
    BY <2>1 DEF CpType
<1>4. ASSUME NEW x \in {"none", "alive", "dead"}
      PROVE  [shell EXCEPT ![o].proc = x] \in [ShellStarts -> AShell]
  <2>1. [shell[o] EXCEPT !.proc = x] \in AShell
    BY <1>1 DEF AShell
  <2> QED
    BY <2>1 DEF CpType
<1> QED
  BY <1>2, <1>3, <1>4

LEMMA CloserType ==
  ASSUME CpType, NEW o \in ShellStarts, NEW c \in Closers, NEW stage \in Stages,
         CloserGoes(o, c, stage)
  PROVE  closes' \in [ShellStarts -> [Closers -> Stages]]
BY DEF CpType, AStart, AShell, CloserGoes

\* What a step of one session leaves to the others: they find their place in the table as
\* it was, and the gate.
LEMMA OtherSession ==
  ASSUME NEW q \in ShellStarts, SessionInv(q),
         start'[q] = start[q], shell'[q] = shell[q], closes'[q] = closes[q],
         shellGate' = shellGate,
         \A i \in ShellIds : table'[i] = q <=> table[i] = q,
         start[q].pc \in {"leasing", "spawning", "spawned"} =>
           table'[start[q].id] = table[start[q].id]
  PROVE  SessionInv(q)'
<1>1. HasName(q)'
  BY DEF SessionInv, HasName
<1>2. Registered(q)' <=> Registered(q)
  BY DEF SessionInv, HasName, Registered
<1>3. Unseen(q)' /\ HasByThen(q)'
  BY <1>2 DEF SessionInv, Unseen, HasByThen
<1>4. LeaseStands(q)'
  BY <1>2 DEF SessionInv, LeaseStands, ProcAlive
<1>5. UndoneIsDead(q)' /\ SubscribersGone(q)' /\ ClosedOver(q)'
  BY DEF SessionInv, UndoneIsDead, SubscribersGone, ClosedOver, ProcAlive, Underway
<1> QED
  BY <1>1, <1>3, <1>4, <1>5 DEF SessionInv

\* A step of one session that leaves the table and the gate alone is safe for the others,
\* and makes no other start one under way.
LEMMA OwnStep ==
  ASSUME ConPtyInv, NEW o \in ShellStarts,
         \A q \in ShellStarts \ {o} :
           start'[q] = start[q] /\ shell'[q] = shell[q] /\ closes'[q] = closes[q],
         table' = table, shellGate' = shellGate,
         Underway(o)' => Underway(o),
         CpType', SessionInv(o)'
  PROVE  ConPtyInv'
<1>1. \A q \in ShellStarts : SessionInv(q)'
  <2> SUFFICES ASSUME NEW q \in ShellStarts, q # o PROVE SessionInv(q)'
    OBVIOUS
  <2> QED
    BY OtherSession DEF ConPtyInv
<1>2. OneAtATime'
  BY DEF ConPtyInv, OneAtATime, Underway
<1> QED
  BY <1>1, <1>2 DEF ConPtyInv

-----------------------------------------------------------------------------
\* The steps of a start before it is registered.
LEMMA BeginKeeps ==
  ASSUME ConPtyInv, NEW o \in ShellStarts, NEW i \in ShellIds, BeginStart(o, i)
  PROVE  ConPtyInv'
<1>t. CpType /\ SessionInv(o) /\ start[o].pc = "new" /\ shellGate = "open"
  BY DEF ConPtyInv, BeginStart, StartAt
<1>1. /\ start'[o].pc = "checking" /\ start'[o].id = i
      /\ \A q \in ShellStarts \ {o} : start'[q] = start[q]
      /\ UNCHANGED <<shell, closes, table, shellGate>>
  BY <1>t DEF BeginStart, AStart, AShell, CpType
<1>2. CpType'
  <2>1. [start[o] EXCEPT !.pc = "checking", !.id = i]
          \in AStart
    BY <1>t DEF CpType, AStart, AShell, StartPcs
  <2> QED
    BY <1>t, <1>1, <2>1 DEF BeginStart, AStart, AShell, CpType
<1>3. OneAtATime'
  BY <1>1 DEF BeginStart, OneAtATime, Underway
<1>4. \A k \in ShellIds : table[k] # o
  BY <1>t, ConPtyAssumption DEF SessionInv, HasName
<1>5. Unseen(o)' /\ HasName(o)'
  BY <1>t, <1>1, <1>4 DEF SessionInv, Unseen, HasName, Registered, Early
<1>6. HasByThen(o)' /\ LeaseStands(o)'
  BY <1>t, <1>1 DEF SessionInv, HasByThen, LeaseStands, Early, ProcAlive
<1>7. UndoneIsDead(o)' /\ SubscribersGone(o)' /\ ClosedOver(o)'
  BY <1>t, <1>1
     DEF SessionInv, UndoneIsDead, SubscribersGone, ClosedOver, HasByThen, ProcAlive
<1>8. \A q \in ShellStarts \ {o} : SessionInv(q)'
  BY <1>1, OtherSession DEF ConPtyInv
<1> QED
  BY <1>2, <1>3, <1>5, <1>6, <1>7, <1>8 DEF ConPtyInv, SessionInv

\* It looks at the table, takes the lease and spawns the process, or fails.
LEMMA EarlyKeeps ==
  ASSUME ConPtyInv, NEW o \in ShellStarts,
         CheckTable(o) \/ LockLease(o) \/ MissLease(o) \/ Spawned(o) \/ SpawnFails(o)
  PROVE  ConPtyInv'
<1>t. CpType /\ SessionInv(o) /\ Underway(o)
  BY DEF ConPtyInv, CheckTable, LockLease, MissLease, Spawned, SpawnFails, StartAt, Underway
<1>1. /\ start'[o].id = start[o].id
      /\ \A q \in ShellStarts \ {o} : start'[q] = start[q] /\ shell'[q] = shell[q]
      /\ shell'[o].sub = shell[o].sub /\ shell'[o].closing = shell[o].closing
      /\ UNCHANGED <<closes, table, shellGate>>
  BY <1>t
     DEF CpType, AStart, AShell, CheckTable, LockLease, MissLease, Spawned,
         SpawnFails, StartGoes
<1>2. CpType'
  <2>1. CASE CheckTable(o) \/ MissLease(o)
    <3>1. \E pc \in StartPcs : StartGoes(o, pc)
      BY <2>1 DEF CheckTable, MissLease, StartPcs
    <3> QED
      BY <1>t, <2>1, <3>1, PlaceType DEF CpType, AStart, AShell, CheckTable, MissLease
  <2>2. CASE LockLease(o) \/ SpawnFails(o) \/ Spawned(o)
    <3>1. \E pc \in StartPcs : StartGoes(o, pc)
      BY <2>2 DEF LockLease, SpawnFails, Spawned, StartPcs
    <3>2. shell' \in [ShellStarts -> AShell]
      <4>1. \/ shell' = [shell EXCEPT ![o].lease = TRUE]
            \/ shell' = [shell EXCEPT ![o].lease = FALSE]
            \/ shell' = [shell EXCEPT ![o].proc = "alive"]
        BY <2>2, Zenon DEF LockLease, SpawnFails, Spawned
      <4>2. "alive" \in {"none", "alive", "dead"}
        OBVIOUS
      <4>3. \A b \in BOOLEAN : [shell EXCEPT ![o].lease = b] \in [ShellStarts -> AShell]
        BY <1>t, ShellType, Zenon
      <4>4. \A x \in {"none", "alive", "dead"} :
              [shell EXCEPT ![o].proc = x] \in [ShellStarts -> AShell]
        BY <1>t, ShellType, Zenon
      <4>5. TRUE \in BOOLEAN /\ FALSE \in BOOLEAN
        OBVIOUS
      <4> QED
        BY <4>1, <4>2, <4>3, <4>4, <4>5, Zenon
    <3> QED
      BY <1>t, <1>1, <3>1, <3>2, PlaceType DEF CpType, AStart, AShell
  <2> QED
    BY <2>1, <2>2
<1>3. \* where it was, where it goes, and what it has then
      \/ /\ start[o].pc = "checking" /\ start'[o].pc = "leasing" /\ shell' = shell
         /\ table[start[o].id] = 0
      \/ start[o].pc \in {"checking", "leasing"} /\ start'[o].pc = "failed" /\ shell' = shell
      \/ /\ start[o].pc = "leasing" /\ start'[o].pc = "spawning"
         /\ shell'[o].lease /\ shell'[o].proc = shell[o].proc
      \/ /\ start[o].pc = "spawning" /\ start'[o].pc = "spawned"
         /\ shell'[o].lease = shell[o].lease
      \/ /\ start[o].pc = "spawning" /\ start'[o].pc = "failed"
         /\ ~shell'[o].lease /\ shell'[o].proc = shell[o].proc
  BY <1>t
     DEF CpType, AStart, AShell, CheckTable, LockLease, MissLease, Spawned,
         SpawnFails, StartGoes, StartAt
<1>4. Unseen(o)' /\ HasName(o)'
  BY <1>t, <1>1, <1>3 DEF SessionInv, Unseen, HasName, Registered, Early
<1>5. HasByThen(o)' /\ LeaseStands(o)'
  BY <1>t, <1>1, <1>3 DEF SessionInv, Unseen, HasByThen, LeaseStands, Early, ProcAlive
<1>6. UndoneIsDead(o)' /\ SubscribersGone(o)' /\ ClosedOver(o)'
  BY <1>t, <1>1, <1>3
    
        DEF SessionInv, UndoneIsDead, SubscribersGone, ClosedOver, HasByThen,
            ProcAlive, Underway
<1> QED
  BY <1>t, <1>1, <1>2, <1>4, <1>5, <1>6, OwnStep DEF SessionInv

\* The start enters the table, or finds the registry closed.
LEMMA EnterKeeps ==
  ASSUME ConPtyInv, NEW o \in ShellStarts, EnterTable(o)
  PROVE  ConPtyInv'
<1>t. /\ CpType /\ SessionInv(o) /\ Underway(o) /\ start[o].pc = "spawned"
      /\ start[o].id \in ShellIds /\ table[start[o].id] = 0
  BY DEF ConPtyInv, EnterTable, StartAt, Underway, SessionInv, HasName
<1>n. o # 0 /\ start[o].id # 0
  BY <1>t, ConPtyAssumption
<1>1. CASE shellGate # "open"
  <2>1. /\ start' = [start EXCEPT ![o].pc = "overtaken"]
        /\ UNCHANGED <<shell, closes, table, shellGate>>
    BY <1>1 DEF EnterTable, StartGoes
  <2>2. CpType'
    BY <1>t, <2>1 DEF CpType, AStart, AShell, StartPcs
  <2>3. /\ start'[o].pc = "overtaken" /\ start'[o].id = start[o].id
        /\ \A q \in ShellStarts \ {o} : start'[q] = start[q]
    BY <1>t, <2>1 DEF CpType, AStart, AShell
  <2>4. SessionInv(o)'
    BY <1>t, <1>1, <2>1, <2>3
      
          DEF SessionInv, Unseen, HasName, HasByThen, LeaseStands, UndoneIsDead,
              SubscribersGone,
           ClosedOver, Registered, Early, ProcAlive, Underway
  <2>5. ~Underway(o)'
    BY <2>3 DEF Underway
  <2> QED
    BY <2>1, <2>2, <2>3, <2>4, <2>5, OwnStep
<1>2. CASE shellGate = "open"
  <2>1. /\ table' = [table EXCEPT ![start[o].id] = o]
        /\ UNCHANGED <<shell, shellGate>>
        /\ \E pc \in {"up", "undoing", "closing"} : start' = [start EXCEPT ![o].pc = pc]
        /\ \/ start'[o].pc = "up" /\ closes' = [closes EXCEPT ![o]["reader"] = "reading"]
           \/ start'[o].pc # "up" /\ closes' = [closes EXCEPT ![o]["start"] = "mark"]
    <3>1. /\ table' = [table EXCEPT ![start[o].id] = o]
          /\ UNCHANGED <<shell, shellGate>>
      BY <1>2 DEF EnterTable
    <3>2. ASSUME NEW pc, StartGoes(o, pc)
          PROVE  start'[o].pc = pc
      BY <1>t, <3>2 DEF CpType, AStart, StartGoes
    <3>3. \/ /\ StartGoes(o, "up") /\ CloserGoes(o, "reader", "reading")
          \/ /\ StartGoes(o, "undoing") \/ StartGoes(o, "closing")
             /\ CloserGoes(o, "start", "mark")
      BY <1>2 DEF EnterTable
    <3> QED
      BY <3>1, <3>2, <3>3 DEF StartGoes, CloserGoes
  <2>2. CpType'
    <3>1. \E pc \in StartPcs : StartGoes(o, pc)
      BY <2>1 DEF StartGoes, StartPcs
    <3>2. \E c \in Closers, stage \in Stages : CloserGoes(o, c, stage)
      BY <2>1 DEF CloserGoes, Closers, Stages
    <3> QED
      BY <1>t, <2>1, <3>1, <3>2, PlaceType, CloserType DEF CpType, AStart, AShell
  <2>3. /\ start'[o].pc \in {"up", "undoing", "closing"} /\ start'[o].id = start[o].id
        /\ \A q \in ShellStarts \ {o} : start'[q] = start[q] /\ closes'[q] = closes[q]
    BY <1>t, <2>1 DEF CpType, AStart, AShell
  <2>4. /\ \A c \in Closers : closes'[o][c] # "remove"
        /\ start'[o].pc # "up" => closes'[o]["start"] = "mark"
    <3>1. closes[o] \in [Closers -> Stages] /\ \A c \in Closers : closes[o][c] = "none"
      BY <1>t DEF CpType, AStart, AShell, SessionInv, Unseen, Early
    <3>2. closes'[o] \in {[closes[o] EXCEPT !["reader"] = "reading"],
                          [closes[o] EXCEPT !["start"] = "mark"]}
      BY <1>t, <2>1 DEF CpType, AStart, AShell
    <3>3. start'[o].pc # "up" => closes'[o] = [closes[o] EXCEPT !["start"] = "mark"]
      BY <1>t, <2>1 DEF CpType, AStart, AShell
    <3> QED
      BY <3>1, <3>2, <3>3 DEF Closers
  <2>5. Registered(o)' /\ \A i \in ShellIds : table'[i] = IF i = start[o].id THEN o ELSE table[i]
    BY <1>t, <1>n, <2>1, <2>3 DEF Registered, CpType
  <2>6. Unseen(o)' /\ HasName(o)' /\ HasByThen(o)'
    BY <1>t, <2>3, <2>5 DEF SessionInv, Unseen, HasName, HasByThen, Early
  <2>7. LeaseStands(o)' /\ UndoneIsDead(o)'
    BY <1>t, <2>1, <2>3, <2>4, <2>5 DEF SessionInv, LeaseStands, UndoneIsDead, ProcAlive
  <2>8. SubscribersGone(o)' /\ ClosedOver(o)'
    BY <1>t, <1>2, <2>1, <2>3 DEF SessionInv, SubscribersGone, ClosedOver
  <2>9. ASSUME NEW q \in ShellStarts, q # o
        PROVE  SessionInv(q)'
    <3>1. start[q].pc \notin {"leasing", "spawning", "spawned"}
      BY <1>t, <2>9 DEF ConPtyInv, OneAtATime, Underway
    <3>2. \A i \in ShellIds : table'[i] = q <=> table[i] = q
      BY <1>t, <1>n, <2>5, <2>9, ConPtyAssumption
    <3> QED
      BY <2>1, <2>3, <2>9, <3>1, <3>2, OtherSession DEF ConPtyInv
  <2>10. OneAtATime'
    BY <1>t, <2>3 DEF ConPtyInv, OneAtATime, Underway
  <2> QED
    BY <2>2, <2>6, <2>7, <2>8, <2>9, <2>10 DEF ConPtyInv, SessionInv
<1> QED
  BY <1>1, <1>2

\* The end of a start that was undone: its close found the process gone, or says that it
\* did not.
LEMMA UndoneKeeps ==
  ASSUME ConPtyInv, NEW o \in ShellStarts, StartUndone(o) \/ StartLeft(o) \/ CancelStart(o)
  PROVE  ConPtyInv'
<1>t. CpType /\ SessionInv(o) /\ Underway(o)
  BY DEF ConPtyInv, StartUndone, StartLeft, CancelStart, StartAt, Underway
<1>1. /\ start'[o].id = start[o].id
      /\ \A q \in ShellStarts \ {o} : start'[q] = start[q]
      /\ UNCHANGED <<shell, closes, table, shellGate>>
  BY <1>t DEF CpType, AStart, AShell, StartUndone, StartLeft, CancelStart, StartGoes
<1>2. CpType'
  <2>1. CASE StartUndone(o) \/ StartLeft(o)
    <3>1. \E pc \in StartPcs : StartGoes(o, pc)
      BY <2>1 DEF StartUndone, AsItWent, StartLeft, StartPcs
    <3> QED
      BY <1>t, <1>1, <3>1, PlaceType DEF CpType, AStart, AShell
  <2>2. CASE CancelStart(o)
    BY <1>t, <2>2 DEF CpType, AStart, AShell, CancelStart
  <2> QED
    BY <2>1, <2>2
<1>3. \/ start'[o].pc = start[o].pc
      \/ /\ start[o].pc \in {"undoing", "closing"}
         /\ \/ start'[o].pc \in {"uncertain", "left"}
            \/ start'[o].pc = "failed" /\ closes[o]["start"] = "none"
  BY <1>t
     DEF CpType, AStart, AShell, StartUndone, AsItWent, StartLeft, CancelStart,
         StartGoes, StartAt
<1>4. Unseen(o)' /\ HasName(o)' /\ HasByThen(o)'
  BY <1>t, <1>1, <1>3 DEF SessionInv, Unseen, HasName, HasByThen, Registered, Early
<1>5. LeaseStands(o)' /\ UndoneIsDead(o)'
  BY <1>t, <1>1, <1>3
     DEF SessionInv, LeaseStands, UndoneIsDead, Registered, Early, ProcAlive
<1>6. SubscribersGone(o)' /\ ClosedOver(o)'
  BY <1>t, <1>1, <1>3 DEF SessionInv, SubscribersGone, ClosedOver, ProcAlive, Underway
<1> QED
  BY <1>t, <1>1, <1>2, <1>4, <1>5, <1>6, OwnStep DEF SessionInv

-----------------------------------------------------------------------------
\* A session that can be closed has left its start behind, or is being undone by it.
LEMMA ClosedIsLate ==
  ASSUME ConPtyInv, NEW o \in ShellStarts, NEW c \in Closers,
         closes[o][c] # "none" \/ Registered(o)
  PROVE  start[o].pc \notin Early
BY DEF ConPtyInv, SessionInv, Unseen

\* One step of a close, but for its last: the session is marked, its process stopped, its
\* lease given up.
LEMMA CloseKeeps ==
  ASSUME ConPtyInv, NEW o \in ShellStarts, NEW c \in Closers,
         Mark(o, c) \/ StopProcess(o, c) \/ Finalize(o, c)
  PROVE  ConPtyInv'
<1>t. CpType /\ SessionInv(o) /\ start[o].pc \notin Early
  BY ClosedIsLate DEF ConPtyInv, Mark, StopProcess, Finalize
<1>1. /\ \A q \in ShellStarts \ {o} : shell'[q] = shell[q] /\ closes'[q] = closes[q]
      /\ \A d \in Closers \ {c} : closes'[o][d] = closes[o][d]
      /\ UNCHANGED <<start, table, shellGate>>
  BY <1>t DEF CpType, AStart, AShell, Mark, StopProcess, Finalize, CloserGoes
<1>2. CpType'
  <2>1. CASE Mark(o, c)
    BY <1>t, <2>1, ZenonT(40) DEF CpType, AStart, AShell, Mark, CloserGoes, Stages
  <2>2. CASE StopProcess(o, c)
    <3>1. \E stage \in Stages : CloserGoes(o, c, stage)
      BY <2>2 DEF StopProcess, Stages
    <3>2. shell' \in [ShellStarts -> AShell]
      BY <1>t, <2>2, ShellType, ZenonT(40) DEF CpType, StopProcess
    <3> QED
      BY <1>t, <1>1, <3>1, <3>2, CloserType DEF CpType, AStart, AShell
  <2>3. CASE Finalize(o, c)
    <3>1. \E stage \in Stages : CloserGoes(o, c, stage)
      BY <2>3 DEF Finalize, Stages
    <3>2. shell' \in [ShellStarts -> AShell]
      BY <1>t, <2>3, ShellType, ZenonT(40) DEF CpType, Finalize
    <3> QED
      BY <1>t, <1>1, <3>1, <3>2, CloserType DEF CpType, AStart, AShell
  <2> QED
    BY <2>1, <2>2, <2>3
<1>3. /\ closes[o][c] \in {"mark", "stop", "final"}
      /\ \/ /\ closes'[o][c] \in {"stop", "final"} /\ shell'[o].closing /\ ~shell'[o].sub
            /\ shell'[o].lease = shell[o].lease /\ shell'[o].proc = shell[o].proc
         \/ /\ closes'[o][c] = "final" /\ closes[o][c] = "stop"
            /\ shell'[o].lease = shell[o].lease
            /\ shell'[o].closing = shell[o].closing /\ shell'[o].sub = shell[o].sub
            /\ shell'[o].proc \in {shell[o].proc, "dead"}
         \/ /\ closes'[o][c] = (IF c = "start" THEN "kept" ELSE "none") /\ shell' = shell
            /\ closes[o][c] = "final"
         \/ /\ closes'[o][c] = "remove" /\ closes[o][c] = "final" /\ ~ProcAlive(o)
            /\ ~shell'[o].lease /\ shell'[o].proc = shell[o].proc
            /\ shell'[o].closing = shell[o].closing /\ shell'[o].sub = shell[o].sub
  <2>1. CASE Mark(o, c)
    BY <1>t, <2>1 DEF CpType, AStart, AShell, Mark, CloserGoes
  <2>2. CASE StopProcess(o, c)
    BY <1>t, <2>2 DEF CpType, AStart, AShell, StopProcess, CloserGoes
  <2>3. CASE Finalize(o, c)
    BY <1>t, <2>3 DEF CpType, AStart, AShell, Finalize, CloserGoes, Unconfirmed
  <2> QED
    BY <2>1, <2>2, <2>3
<1>4. Unseen(o)' /\ HasName(o)'
  BY <1>t, <1>1 DEF SessionInv, Unseen, HasName
<1>5. HasByThen(o)' /\ SubscribersGone(o)'
  BY <1>t, <1>1, <1>3 DEF SessionInv, HasByThen, SubscribersGone, Early
<1>6. LeaseStands(o)'
  BY <1>t, <1>1, <1>3 DEF SessionInv, LeaseStands, Registered, ProcAlive
<1>7. UndoneIsDead(o)'
  BY <1>t, <1>1, <1>3 DEF SessionInv, UndoneIsDead, ProcAlive, Closers
<1>8. ClosedOver(o)'
  BY <1>t, <1>1, <1>3 DEF SessionInv, ClosedOver, ProcAlive, Closers, Underway
<1>9. Underway(o)' => Underway(o)
  BY <1>1 DEF Underway
<1> QED
  BY <1>1, <1>2, <1>4, <1>5, <1>6, <1>7, <1>8, <1>9, OwnStep DEF SessionInv

\* The last: the session leaves the table, if it is still there.
LEMMA RemoveKeeps ==
  ASSUME ConPtyInv, NEW o \in ShellStarts, NEW c \in Closers, RemoveSession(o, c)
  PROVE  ConPtyInv'
<1>t. /\ CpType /\ SessionInv(o) /\ start[o].pc \notin Early
      /\ closes[o][c] = "remove" /\ ~shell[o].lease
  BY ClosedIsLate DEF ConPtyInv, RemoveSession, SessionInv, LeaseStands
<1>i. start[o].id \in ShellIds
  BY <1>t DEF SessionInv, HasName, Early
<1>1. /\ closes' = [closes EXCEPT ![o][c] = "none"]
      /\ UNCHANGED <<start, shell, shellGate>>
      /\ \A i \in ShellIds :
           table'[i] = IF i = start[o].id /\ table[i] = o THEN 0 ELSE table[i]
  BY <1>t, <1>i DEF CpType, AStart, AShell, RemoveSession, RemoveSelf, CloserGoes
<1>2. CpType'
  BY <1>t, <1>i DEF CpType, AStart, AShell, RemoveSession, RemoveSelf, CloserGoes, Stages
<1>3. /\ \A q \in ShellStarts \ {o} : closes'[q] = closes[q]
      /\ closes'[o][c] = "none"
      /\ \A d \in Closers \ {c} : closes'[o][d] = closes[o][d]
  BY <1>t, <1>1 DEF CpType, AStart, AShell
<1>4. SessionInv(o)'
  <2>1. Unseen(o)' /\ HasByThen(o)' /\ SubscribersGone(o)'
    BY <1>t, <1>1 DEF SessionInv, Unseen, HasByThen, SubscribersGone
  <2>2. HasName(o)'
    BY <1>t, <1>1, ConPtyAssumption DEF SessionInv, HasName, Early
  <2>3. LeaseStands(o)' /\ UndoneIsDead(o)' /\ ClosedOver(o)'
    BY <1>t, <1>1, <1>3
       DEF SessionInv, LeaseStands, UndoneIsDead, ClosedOver, ProcAlive, Underway, Closers
  <2> QED
    BY <2>1, <2>2, <2>3 DEF SessionInv
<1>5. ASSUME NEW q \in ShellStarts, q # o
      PROVE  SessionInv(q)'
  <2>1. \A i \in ShellIds : table'[i] = q <=> table[i] = q
    BY <1>1, <1>5, ConPtyAssumption
  <2>2. SessionInv(q)
    BY DEF ConPtyInv
  <2>3. start[q].pc \in {"leasing", "spawning", "spawned"} =>
          table'[start[q].id] = table[start[q].id]
    BY <1>1, <1>5, <2>2, ConPtyAssumption DEF SessionInv, HasName
  <2> QED
    BY <1>1, <1>3, <1>5, <2>1, <2>2, <2>3, OtherSession
<1>6. OneAtATime'
  BY <1>1 DEF ConPtyInv, OneAtATime, Underway
<1> QED
  BY <1>2, <1>4, <1>5, <1>6 DEF ConPtyInv

\* A close begins: by the reader or by whoever kills or reaps.
LEMMA CloseBegins ==
  ASSUME ConPtyInv, NEW o \in ShellStarts, ReaderEnds(o) \/ HostKills(o)
  PROVE  ConPtyInv'
<1>t. CpType /\ SessionInv(o)
  BY DEF ConPtyInv
<1>0. PICK c \in {"reader", "kill"} :
        /\ CloserGoes(o, c, "mark") /\ UNCHANGED <<start, shell, table, shellGate>>
        /\ start[o].pc \notin Early
  BY ClosedIsLate DEF ReaderEnds, HostKills, Closers
<1>1. CpType'
  BY <1>t, <1>0 DEF CpType, AStart, AShell, CloserGoes, Stages, Closers
<1>2. /\ \A q \in ShellStarts \ {o} : closes'[q] = closes[q]
      /\ closes'[o][c] = "mark"
      /\ \A d \in Closers \ {c} : closes'[o][d] = closes[o][d]
  BY <1>t, <1>0 DEF CpType, AStart, AShell, CloserGoes, Closers
<1>3. SessionInv(o)'
  BY <1>t, <1>0, <1>2
     DEF SessionInv, Unseen, HasName, HasByThen, LeaseStands, UndoneIsDead, SubscribersGone,
         ClosedOver, Registered, ProcAlive, Underway, Closers
<1>4. Underway(o)' => Underway(o)
  BY <1>0 DEF Underway
<1> QED
  BY <1>0, <1>1, <1>2, <1>3, <1>4, OwnStep

\* A subscriber comes or goes, and the process may end by itself.
LEMMA ShellKeeps ==
  ASSUME ConPtyInv, NEW o \in ShellStarts, Subscribe(o) \/ Unsubscribe(o) \/ ProcExits(o)
  PROVE  ConPtyInv'
<1>t. CpType /\ SessionInv(o)
  BY DEF ConPtyInv
<1>1. CpType'
  <2>1. CASE Subscribe(o) \/ Unsubscribe(o)
    <3>1. \/ shell' = [shell EXCEPT ![o].sub = TRUE]
          \/ shell' = [shell EXCEPT ![o].sub = FALSE]
      BY <2>1, Zenon DEF Subscribe, Unsubscribe
    <3>2. shell' \in [ShellStarts -> AShell]
      BY <1>t, <3>1, ShellType, ZenonT(30)
    <3> QED
      BY <1>t, <2>1, <3>2 DEF CpType, AStart, AShell, Subscribe, Unsubscribe
  <2>2. CASE ProcExits(o)
    BY <1>t, <2>2 DEF CpType, AStart, AShell, ProcExits
  <2> QED
    BY <2>1, <2>2
<1>2. /\ \A q \in ShellStarts \ {o} : shell'[q] = shell[q]
      /\ UNCHANGED <<start, closes, table, shellGate>>
  BY <1>t DEF CpType, AStart, AShell, Subscribe, Unsubscribe, ProcExits
<1>3. /\ shell'[o].lease = shell[o].lease /\ shell'[o].closing = shell[o].closing
      /\ \/ shell'[o].proc = shell[o].proc
            /\ (~shell[o].closing \/ ~shell'[o].sub)
         \/ shell'[o].proc = "dead" /\ ProcAlive(o) /\ shell'[o].sub = shell[o].sub
  BY <1>t
     DEF CpType, AStart, AShell, Subscribe, Unsubscribe, ProcExits, Attachable,
         ProcAlive
<1>4. Unseen(o)' /\ HasName(o)' /\ HasByThen(o)'
  BY <1>t, <1>2, <1>3 DEF SessionInv, Unseen, HasName, HasByThen, Registered, ProcAlive
<1>5. LeaseStands(o)' /\ UndoneIsDead(o)'
  BY <1>t, <1>2, <1>3 DEF SessionInv, LeaseStands, UndoneIsDead, Registered, ProcAlive
<1>6. SubscribersGone(o)' /\ ClosedOver(o)'
  BY <1>t, <1>2, <1>3 DEF SessionInv, SubscribersGone, ClosedOver, ProcAlive, Underway
<1>7. Underway(o)' => Underway(o)
  BY <1>2 DEF Underway
<1> QED
  BY <1>1, <1>2, <1>4, <1>5, <1>6, <1>7, OwnStep DEF SessionInv

-----------------------------------------------------------------------------
\* The registry stops admission, cancels what is under way and waits for it.
LEMMA GateKeeps ==
  ASSUME ConPtyInv, StopShells \/ CloseShells
  PROVE  ConPtyInv'
<1>t. CpType
  BY DEF ConPtyInv
<1>1. /\ UNCHANGED <<shell, closes, table>> /\ shellGate' \in {"stopped", "draining"}
      /\ \A o \in ShellStarts : start'[o].pc = start[o].pc /\ start'[o].id = start[o].id
  BY <1>t DEF CpType, AStart, AShell, StopShells, CloseShells
<1>2. CpType'
  <2>1. CASE StopShells
    BY <1>t, <2>1 DEF CpType, AStart, AShell, StopShells, Gates
  <2>2. CASE CloseShells
    BY <1>t, <2>2, ZenonT(40) DEF CpType, AStart, AShell, CloseShells, Gates
  <2> QED
    BY <2>1, <2>2
<1>3. ASSUME NEW o \in ShellStarts
      PROVE  SessionInv(o)'
  <2>1. SessionInv(o)
    BY DEF ConPtyInv
  <2>2. Unseen(o)' /\ HasName(o)' /\ HasByThen(o)' /\ LeaseStands(o)'
    BY <1>1, <2>1
       DEF SessionInv, Unseen, HasName, HasByThen, LeaseStands, Registered,
           ProcAlive
  <2>3. UndoneIsDead(o)' /\ SubscribersGone(o)' /\ ClosedOver(o)'
    BY <1>1, <2>1 DEF SessionInv, UndoneIsDead, SubscribersGone, ClosedOver, ProcAlive
  <2> QED
    BY <2>2, <2>3 DEF SessionInv
<1>4. OneAtATime'
  BY <1>1 DEF ConPtyInv, OneAtATime, Underway
<1> QED
  BY <1>2, <1>3, <1>4 DEF ConPtyInv

\* Every session that is left is marked: a process that runs has its lease, and so is
\* registered, unless its start was overtaken.
LEMMA DrainedKeeps ==
  ASSUME ConPtyInv, ShellsDrained
  PROVE  ConPtyInv'
<1>t. CpType
  BY DEF ConPtyInv
<1>1. /\ UNCHANGED <<start, shell, table>> /\ shellGate' = "closing"
      /\ \A o \in ShellStarts : ~Underway(o)
      /\ \A o \in ShellStarts :
           /\ closes'[o]["registry"]
                = IF Registered(o) THEN "mark" ELSE closes[o]["registry"]
           /\ \A c \in Closers \ {"registry"} : closes'[o][c] = closes[o][c]
  BY <1>t DEF CpType, AStart, AShell, ShellsDrained, Closers
<1>2. CpType'
  BY <1>t DEF CpType, AStart, AShell, ShellsDrained, Closers, Gates, Stages
<1>3. ASSUME NEW o \in ShellStarts
      PROVE  SessionInv(o)'
  <2>1. SessionInv(o) /\ ~Underway(o)
    BY <1>1 DEF ConPtyInv
  <2>2. Unseen(o)' /\ HasName(o)' /\ HasByThen(o)'
    BY <1>1, <2>1 DEF SessionInv, Unseen, HasName, HasByThen, Registered, Closers
  <2>3. LeaseStands(o)' /\ UndoneIsDead(o)' /\ SubscribersGone(o)'
    BY <1>1, <2>1
      
          DEF SessionInv, LeaseStands, UndoneIsDead, SubscribersGone, Registered,
              ProcAlive, Closers
  <2>4. ASSUME ProcAlive(o), start[o].pc # "overtaken"
        PROVE  Registered(o)
    BY <2>1, <2>4 DEF SessionInv, LeaseStands, HasByThen, Underway, Early, ProcAlive
  <2>5. ClosedOver(o)'
    BY <1>1, <2>1, <2>4 DEF ClosedOver, ProcAlive, Underway
  <2> QED
    BY <2>2, <2>3, <2>5 DEF SessionInv
<1>4. OneAtATime'
  BY <1>1 DEF ConPtyInv, OneAtATime, Underway
<1> QED
  BY <1>2, <1>3, <1>4 DEF ConPtyInv

\* The registry is closed when its closes are over.
LEMMA ClosedKeeps ==
  ASSUME ConPtyInv, ShellsClosed
  PROVE  ConPtyInv'
<1>1. /\ UNCHANGED <<start, shell, closes, table>>
      /\ shellGate = "closing" /\ shellGate' = "closed"
      /\ \A o \in ShellStarts : closes[o]["registry"] = "none"
  BY DEF ShellsClosed
<1>2. CpType'
  BY <1>1 DEF ConPtyInv, AStart, AShell, CpType, Gates
<1>3. ASSUME NEW o \in ShellStarts
      PROVE  SessionInv(o)'
  BY <1>1 DEF ConPtyInv, SessionInv, Unseen, HasName, HasByThen, LeaseStands, UndoneIsDead,
              SubscribersGone, ClosedOver, Registered, ProcAlive, Underway
<1> QED
  BY <1>1, <1>2, <1>3 DEF ConPtyInv, OneAtATime, Underway

-----------------------------------------------------------------------------
LEMMA ConPtyInvInit == ConPtyInit => ConPtyInv
<1> SUFFICES ASSUME ConPtyInit PROVE ConPtyInv
  OBVIOUS
<1>1. CpType
  BY
     DEF ConPtyInit, AStart, AShell, CpType, NewShellStart, NewShell, StartPcs,
         Stages, Gates
<1>2. ASSUME NEW o \in ShellStarts
      PROVE  SessionInv(o) /\ ~Underway(o)
  BY ConPtyAssumption
     DEF ConPtyInit, NewShellStart, NewShell, SessionInv, Unseen, HasName, HasByThen,
         LeaseStands, UndoneIsDead, SubscribersGone, ClosedOver, Registered, ProcAlive,
         Underway, Early
<1> QED
  BY <1>1, <1>2 DEF ConPtyInv, OneAtATime

LEMMA ConPtyInvStep == ConPtyInv /\ [ConPtyNext]_cpVars => ConPtyInv'
<1> SUFFICES ASSUME ConPtyInv, [ConPtyNext]_cpVars PROVE ConPtyInv'
  OBVIOUS
<1>1. ASSUME NEW o \in ShellStarts, NEW i \in ShellIds, BeginStart(o, i)
      PROVE  ConPtyInv'
  BY <1>1, BeginKeeps
<1>2. ASSUME NEW o \in ShellStarts, StartStep(o) \/ StartLeft(o) \/ CancelStart(o)
      PROVE  ConPtyInv'
  BY <1>2, EarlyKeeps, EnterKeeps, UndoneKeeps DEF StartStep
<1>3. ASSUME NEW o \in ShellStarts, ReaderEnds(o) \/ HostKills(o) \/ Reap(o)
      PROVE  ConPtyInv'
  BY <1>3, CloseBegins DEF Reap
<1>4. ASSUME NEW o \in ShellStarts, Subscribe(o) \/ Unsubscribe(o) \/ ProcExits(o)
      PROVE  ConPtyInv'
  BY <1>4, ShellKeeps
<1>5. ASSUME NEW o \in ShellStarts, NEW c \in Closers, CloserStep(o, c)
      PROVE  ConPtyInv'
  BY <1>5, CloseKeeps, RemoveKeeps DEF CloserStep
<1>6. ASSUME StopShells \/ CloseShells \/ ShellsDrained \/ ShellsClosed
      PROVE  ConPtyInv'
  BY <1>6, GateKeeps, DrainedKeeps, ClosedKeeps
<1>7. CASE UNCHANGED cpVars
  BY <1>7
     DEF cpVars, ConPtyInv, AStart, AShell, CpType, OneAtATime, SessionInv, Unseen,
         HasName, HasByThen,
              LeaseStands, UndoneIsDead, SubscribersGone, ClosedOver, Registered, ProcAlive,
              Underway
<1> QED
  BY <1>1, <1>2, <1>3, <1>4, <1>5, <1>6, <1>7 DEF ConPtyNext

\* The invariant implies the property.
LEMMA ConPtyInvSound == ConPtyInv => ConPtySound
<1> SUFFICES ASSUME ConPtyInv PROVE ConPtySound
  OBVIOUS
<1>1. ASSUME NEW o \in ShellStarts
      PROVE  SessionInv(o)
  BY <1>1 DEF ConPtyInv
<1>2. LeaseCoversProcess
  BY <1>1 DEF LeaseCoversProcess, SessionInv, LeaseStands, Authoritative
<1>3. NoneForgotten
  BY <1>1 DEF NoneForgotten, SessionInv, LeaseStands, HasByThen, ClosedOver, Busy, Underway,
              Early, StartAt
<1>4. FailureIsTrue /\ StreamsEnd
  BY <1>1 DEF FailureIsTrue, StreamsEnd, SessionInv, UndoneIsDead, SubscribersGone, StartAt
<1>5. AskedToEnd
  BY <1>1 DEF AskedToEnd, SessionInv, ClosedOver, StartAt
<1> QED
  BY <1>2, <1>3, <1>4, <1>5 DEF ConPtySound

\* A shell that lives has its lease and so is never taken for dead by another process, and
\* that lease is accounted for; a failed start left no process; the subscribers of a
\* session that closes have been finished; and the close of the registry asks every
\* process to end, but for the start it overtook.
THEOREM ConPtyTheorem == ConPtySpec => []ConPtySound
BY ConPtyInvInit, ConPtyInvStep, ConPtyInvSound, PTL DEF ConPtySpec

(*****************************************************************************)
(* Raw bridges.                                                              *)
(*****************************************************************************)
Places == {"new", "creating", "waiting", "using", "ending", "end"}
ATask == [pc : Places, at : Terminals \cup {0}, bridge : BridgeOps \cup {0},
          made : {"no", "yes", "failed"}, cancel : BOOLEAN]
TbTyped ==
  /\ bridges \subseteq BridgeOps /\ promised \subseteq Terminals /\ quiet \subseteq bridges
  /\ bridgeOf \in [Terminals -> BridgeOps \cup {0}]
  /\ raw \in [BridgeOps -> {"none", "attached", "gone"}]
  /\ closer \in [BridgeOps -> {"none", "queued", "running", "owed"}]
  /\ task \in [BridgeOps -> ATask]
  /\ \A o \in BridgeOps : task[o].pc \in {"using", "ending"} => task[o].bridge # 0
  /\ dropped \subseteq BridgeOps
  /\ closing \in {"no", "stopped", "draining", "closing", "closed"}

\* What the client of an operation is, from where the operation stands.
Untouched(b) ==
  /\ raw[b] = "none" /\ closer[b] = "none" /\ task[b].made = "no"
  /\ b \notin bridges \cup dropped
InOpening(b) ==
  /\ task[b].at \in Terminals /\ bridgeOf[task[b].at] = 0
  /\ b \notin bridges /\ b \notin dropped /\ closer[b] = "none"
  /\ raw[b] = IF task[b].made = "yes" THEN "attached" ELSE "none"
InUse(b) ==
  /\ task[b].at \in Terminals /\ bridgeOf[task[b].at] = b
  /\ raw[b] = "attached" /\ closer[b] = "none"
ClientInv(b) ==
  /\ Doing(b, "new") => Untouched(b)
  /\ Opening(b) => InOpening(b)
  /\ b \in bridges => InUse(b)
  /\ closer[b] # "none" => raw[b] = "attached"
  /\ raw[b] = "attached" => b \in bridges \/ Opening(b) \/ b \in Leaving

\* The maps agree, each shell is promised to one opening, and both are counted.
Mapped == \A s \in Terminals :
  bridgeOf[s] # 0 => bridgeOf[s] \in bridges /\ task[bridgeOf[s]].at = s
PromisedToOne ==
  /\ promised = {task[o].at : o \in {n \in BridgeOps : Opening(n)}}
  /\ \A o, n \in BridgeOps : Opening(o) /\ Opening(n) /\ task[o].at = task[n].at => o = n
Counted == /\ IsFiniteSet(bridges) /\ IsFiniteSet(promised)
           /\ Cardinality(bridges) + Cardinality(promised) <= MaxBridges
ClosedEmpty == closing \in {"closing", "closed"} => bridges = {} /\ promised = {}
Registry == Mapped /\ PromisedToOne /\ Counted /\ ClosedEmpty

BridgesInv == TbTyped /\ Registry /\ \A b \in BridgeOps : ClientInv(b)

--------------------------------------------------------------------------------
\* Changes of the record of one operation.
LEMMA TaskChange ==
  ASSUME TbTyped, NEW o \in BridgeOps, NEW r \in ATask, task' = [task EXCEPT ![o] = r],
         r.pc \in {"using", "ending"} => r.bridge # 0
  PROVE  /\ task' \in [BridgeOps -> ATask] /\ task'[o] = r
         /\ \A n \in BridgeOps : n # o => task'[n] = task[n]
         /\ \A n \in BridgeOps : task'[n].pc \in {"using", "ending"} => task'[n].bridge # 0
BY DEF TbTyped

LEMMA Record ==
  ASSUME TbTyped, NEW o \in BridgeOps
  PROVE  /\ task[o] \in ATask /\ task[o].pc \in Places /\ task[o].cancel \in BOOLEAN
         /\ task[o].at \in Terminals \cup {0} /\ task[o].bridge \in BridgeOps \cup {0}
         /\ task[o].made \in {"no", "yes", "failed"}
         /\ task[o].pc \in {"using", "ending"} => task[o].bridge \in BridgeOps
BY DEF TbTyped, ATask

LEMMA BoolTypes == TRUE \in BOOLEAN /\ FALSE \in BOOLEAN
BY Zenon

\* A client whose surroundings are as they were.
LEMMA KeepClient ==
  ASSUME TbTyped, NEW b \in BridgeOps, ClientInv(b),
         task'[b].at = task[b].at, task'[b].made = task[b].made,
         Doing(b, "new")' => Doing(b, "new"), Opening(b)' <=> Opening(b),
         b \in bridges' <=> b \in bridges, b \in dropped' => b \in dropped \/ task[b].pc \notin {"new", "creating", "waiting"},
         raw'[b] = raw[b], closer'[b] = closer[b], b \in Leaving => b \in Leaving',
         Opening(b) \/ b \in bridges => bridgeOf'[task[b].at] = bridgeOf[task[b].at]
  PROVE  ClientInv(b)'
<1> USE DEF ClientInv
<1>1. (Doing(b, "new") => Untouched(b))' BY DEF Untouched, Doing
<1>2. (Opening(b) => InOpening(b))' BY DEF InOpening, Opening
<1>3. (b \in bridges => InUse(b))' BY DEF InUse
<1> QED BY <1>1, <1>2, <1>3

\* The registry, when no opening begins or ends and no bridge comes or goes.
LEMMA KeepRegistry ==
  ASSUME TbTyped, Registry, UNCHANGED <<bridges, bridgeOf, promised>>,
         \A b \in BridgeOps : (Opening(b)' <=> Opening(b)) /\ task'[b].at = task[b].at,
         closing' \in {"closing", "closed"} => closing \in {"closing", "closed"}
  PROVE  Registry'
<1> USE DEF Registry
<1>1. Mapped' BY DEF Mapped, TbTyped
<1>2. PromisedToOne' BY DEF PromisedToOne
<1>3. Counted' BY DEF Counted
<1>4. ClosedEmpty' BY DEF ClosedEmpty
<1> QED BY <1>1, <1>2, <1>3, <1>4

\* A step that leaves every client where it is: it touches a bridge, begins or ends
\* an operation that opens nothing, or stops the admission.
LEMMA SideStep ==
  ASSUME BridgesInv, UNCHANGED <<bridges, bridgeOf, promised, raw, closer, dropped>>,
         quiet' \subseteq bridges, task' \in [BridgeOps -> ATask],
         \A o \in BridgeOps : task'[o].pc \in {"using", "ending"} => task'[o].bridge # 0,
         \A b \in BridgeOps : /\ task'[b].at = task[b].at /\ task'[b].made = task[b].made
                              /\ (Doing(b, "new")' => Doing(b, "new"))
                              /\ (Opening(b)' <=> Opening(b)),
         closing' \in {"no", "stopped", "draining", "closing", "closed"},
         closing' \in {"closing", "closed"} => closing \in {"closing", "closed"}
  PROVE  BridgesInv'
<1>1. TbTyped /\ Registry BY DEF BridgesInv
<1>2. TbTyped' BY <1>1 DEF TbTyped
<1>3. Registry' BY <1>1, KeepRegistry
<1>4. ASSUME NEW b \in BridgeOps PROVE ClientInv(b)'
  <2>1. ClientInv(b) /\ (b \in Leaving => b \in Leaving') BY DEF BridgesInv, Leaving
  <2> QED BY <1>1, <2>1, KeepClient
<1> QED BY <1>2, <1>3, <1>4 DEF BridgesInv

LEMMA GoesOn ==
  ASSUME BridgesInv, NEW o \in BridgeOps, NEW p \in Places, Does(o, p), ~Opening(o),
         p \in {"using", "ending", "end"}, p = "end" \/ task[o].bridge # 0
  PROVE  /\ task' \in [BridgeOps -> ATask]
         /\ \A n \in BridgeOps : task'[n].pc \in {"using", "ending"} => task'[n].bridge # 0
         /\ \A b \in BridgeOps : /\ task'[b].at = task[b].at /\ task'[b].made = task[b].made
                                 /\ (Doing(b, "new")' => Doing(b, "new"))
                                 /\ (Opening(b)' <=> Opening(b))
<1> DEFINE r == [task[o] EXCEPT !.pc = p]
<1>1. TbTyped /\ task[o] \in ATask BY Record DEF BridgesInv
<1>2. task' = [task EXCEPT ![o] = r] BY DEF Does
<1>3. r \in ATask /\ r.pc = p /\ r.at = task[o].at /\ r.made = task[o].made
      /\ r.bridge = task[o].bridge
  BY <1>1 DEF ATask
<1> HIDE DEF r
<1>4. /\ task' \in [BridgeOps -> ATask] /\ task'[o] = r
      /\ \A n \in BridgeOps : n # o => task'[n] = task[n]
      /\ \A n \in BridgeOps : task'[n].pc \in {"using", "ending"} => task'[n].bridge # 0
  BY <1>1, <1>2, <1>3, TaskChange
<1>5. Opening(o)' <=> Opening(o) BY <1>3, <1>4 DEF Opening
<1> QED BY <1>3, <1>4, <1>5 DEF Doing, Opening

LEMMA PlainSteps ==
  ASSUME BridgesInv, NEW o \in BridgeOps,
         \/ \E b \in BridgeOps : UseBridge(o, b)
         \/ Used(o) \/ BridgeDone(o) \/ CancelOpening(o) \/ CancelTask(o) \/ Pass(o)
  PROVE  BridgesInv'
<1>0. TbTyped BY DEF BridgesInv
<1>1. closing' = closing /\ UNCHANGED <<bridges, bridgeOf, promised, raw, closer, dropped>>
  BY DEF UseBridge, Used, BridgeDone, CancelOpening, CancelTask, Pass
<1>2. closing \in {"no", "stopped", "draining", "closing", "closed"} BY <1>0 DEF TbTyped
<1>3. quiet' \subseteq bridges
  BY <1>0 DEF UseBridge, Used, BridgeDone, CancelOpening, CancelTask, Pass, TbTyped
<1>4. ASSUME NEW b \in BridgeOps, UseBridge(o, b) PROVE BridgesInv'
  <2>1. Doing(o, "new") /\ ~Opening(o) BY <1>4 DEF UseBridge, BeginsTask, Doing, Opening
  <2>2. CASE Does(o, "end")
    BY <1>1, <1>2, <1>3, <2>1, <2>2, GoesOn, SideStep DEF Places
  <2>3. CASE task' = [task EXCEPT ![o].pc = "using", ![o].bridge = b]
    <3> DEFINE r == [task[o] EXCEPT !.pc = "using", !.bridge = b]
    <3>1. task[o] \in ATask BY <1>0, Record
    <3>2. task' = [task EXCEPT ![o] = r] BY <2>3
    <3>3. r \in ATask /\ r.pc = "using" /\ r.at = task[o].at /\ r.made = task[o].made
          /\ r.bridge = b
      BY <3>1 DEF ATask, Places
    <3>4. b # 0 BY DEF BridgeOps
    <3> HIDE DEF r
    <3>5. /\ task' \in [BridgeOps -> ATask] /\ task'[o] = r
          /\ \A n \in BridgeOps : n # o => task'[n] = task[n]
          /\ \A n \in BridgeOps : task'[n].pc \in {"using", "ending"} => task'[n].bridge # 0
      BY <1>0, <3>2, <3>3, <3>4, TaskChange
    <3>6. \A n \in BridgeOps : /\ task'[n].at = task[n].at /\ task'[n].made = task[n].made
                               /\ (Doing(n, "new")' => Doing(n, "new"))
                               /\ (Opening(n)' <=> Opening(n))
      BY <2>1, <3>3, <3>5 DEF Doing, Opening
    <3> QED BY <1>1, <1>2, <1>3, <3>5, <3>6, SideStep
  <2> QED BY <1>4, <2>2, <2>3 DEF UseBridge
<1>5. CASE Used(o) \/ BridgeDone(o)
  <2>1. ~Opening(o) /\ Does(o, "end") BY <1>5 DEF Used, BridgeDone, Doing, Opening
  <2> QED BY <1>1, <1>2, <1>3, <2>1, GoesOn, SideStep DEF Places
<1>6. CASE CancelOpening(o) \/ CancelTask(o)
  <2>1. PICK r \in ATask :
          /\ task' = [task EXCEPT ![o] = r] /\ r.at = task[o].at /\ r.made = task[o].made
          /\ r.bridge = task[o].bridge
          /\ r.pc = task[o].pc \/ (r.pc = "waiting" /\ Opening(o))
    <3>1. task[o] \in ATask BY <1>0, Record
    <3>2. CASE CancelOpening(o)
      <4> DEFINE q == [task[o] EXCEPT !.pc = "waiting", !.cancel = FALSE]
      <4>1. q \in ATask /\ q.at = task[o].at /\ q.made = task[o].made
            /\ q.bridge = task[o].bridge /\ q.pc = "waiting"
        BY <3>1, BoolTypes DEF ATask, Places
      <4>2. task' = [task EXCEPT ![o] = q] /\ Opening(o) BY <3>2 DEF CancelOpening
      <4> HIDE DEF q
      <4> QED BY <4>1, <4>2
    <3>3. CASE CancelTask(o)
      <4> DEFINE q == [task[o] EXCEPT !.cancel = TRUE]
      <4>1. q \in ATask /\ q.at = task[o].at /\ q.made = task[o].made
            /\ q.bridge = task[o].bridge /\ q.pc = task[o].pc
        BY <3>1, BoolTypes DEF ATask
      <4>2. task' = [task EXCEPT ![o] = q] BY <3>3 DEF CancelTask
      <4> HIDE DEF q
      <4> QED BY <4>1, <4>2
    <3> QED BY <1>6, <3>2, <3>3
  <2>2. r.pc \in {"using", "ending"} => r.bridge # 0 BY <1>0, <2>1 DEF TbTyped
  <2>3. /\ task' \in [BridgeOps -> ATask] /\ task'[o] = r
        /\ \A n \in BridgeOps : n # o => task'[n] = task[n]
        /\ \A n \in BridgeOps : task'[n].pc \in {"using", "ending"} => task'[n].bridge # 0
    BY <1>0, <2>1, <2>2, TaskChange
  <2>4. \A n \in BridgeOps : /\ task'[n].at = task[n].at /\ task'[n].made = task[n].made
                             /\ (Doing(n, "new")' => Doing(n, "new"))
                             /\ (Opening(n)' <=> Opening(n))
    BY <2>1, <2>3 DEF Doing, Opening
  <2> QED BY <1>1, <1>2, <1>3, <2>3, <2>4, SideStep
<1>7. CASE Pass(o)
  <2>1. UNCHANGED task BY <1>7 DEF Pass
  <2> QED BY <1>0, <1>1, <1>2, <1>3, <2>1, SideStep DEF TbTyped, Doing, Opening
<1> QED BY <1>4, <1>5, <1>6, <1>7

LEMMA StopSteps ==
  ASSUME BridgesInv, StopBridges \/ CloseAll \/ AllClosed \/ UNCHANGED tbVars
  PROVE  BridgesInv'
<1>0. TbTyped BY DEF BridgesInv
<1>1. UNCHANGED <<bridges, bridgeOf, promised, quiet, raw, closer, dropped>>
  BY DEF StopBridges, CloseAll, AllClosed, tbVars
<1>2. /\ closing' \in {"no", "stopped", "draining", "closing", "closed"}
      /\ closing' \in {"closing", "closed"} => closing \in {"closing", "closed"}
  BY <1>0 DEF StopBridges, CloseAll, AllClosed, tbVars, TbTyped
<1>3. CASE UNCHANGED task
  BY <1>0, <1>1, <1>2, <1>3, SideStep DEF TbTyped, Doing, Opening
<1>4. CASE CloseAll
  <2>1. ASSUME NEW o \in BridgeOps
        PROVE  /\ task'[o] \in ATask /\ task'[o].at = task[o].at /\ task'[o].made = task[o].made
               /\ task'[o].pc = task[o].pc /\ task'[o].bridge = task[o].bridge
    <3> DEFINE q == [task[o] EXCEPT !.cancel = TRUE]
    <3>1. task[o] \in ATask BY <1>0, Record
    <3>2. q \in ATask /\ q.at = task[o].at /\ q.made = task[o].made
          /\ q.bridge = task[o].bridge /\ q.pc = task[o].pc
      BY <3>1, BoolTypes DEF ATask
    <3>3. task'[o] = q \/ task'[o] = task[o] BY <1>4 DEF CloseAll
    <3> HIDE DEF q
    <3> QED BY <3>1, <3>2, <3>3
  <2>2. task' \in [BridgeOps -> ATask]
    <3> DEFINE g(o) == IF task[o].pc \in {"new", "end"} THEN task[o]
                       ELSE [task[o] EXCEPT !.cancel = TRUE]
    <3>1. task' = [o \in BridgeOps |-> g(o)] BY <1>4 DEF CloseAll
    <3> HIDE DEF g
    <3>2. \A o \in BridgeOps : g(o) = task'[o] BY <3>1
    <3>3. \A o \in BridgeOps : g(o) \in ATask BY <2>1, <3>2
    <3> QED BY <3>1, <3>3
  <2> QED BY <1>0, <1>1, <1>2, <2>1, <2>2, SideStep DEF TbTyped, Doing, Opening
<1> QED BY <1>3, <1>4 DEF StopBridges, AllClosed, tbVars

--------------------------------------------------------------------------------
\* close_sync goes on: its bridge is in nobody's hands, and its client goes.
LEMMA CloseRunsStep ==
  ASSUME BridgesInv, NEW b \in BridgeOps, CloseRuns(b)
  PROVE  BridgesInv'
<1>0. TbTyped /\ Registry /\ ClientInv(b) BY DEF BridgesInv
<1>1. /\ closer[b] # "none"
      /\ \/ closer' = [closer EXCEPT ![b] = "running"] /\ raw' = raw
         \/ closer' = [closer EXCEPT ![b] = "none"] /\ raw' = [raw EXCEPT ![b] = "gone"]
      /\ UNCHANGED <<bridges, bridgeOf, promised, quiet, task, closing, dropped>>
  BY DEF CloseRuns
<1>2. TbTyped' BY <1>0, <1>1 DEF TbTyped
<1>3. Registry' BY <1>0, <1>1, KeepRegistry DEF Opening
<1>4. ~Doing(b, "new") /\ ~Opening(b) /\ b \notin bridges
  BY <1>0, <1>1 DEF ClientInv, Untouched, InOpening, InUse
<1>5. ClientInv(b)'
  <2>1. \/ closer'[b] = "running" /\ raw'[b] = "attached"
        \/ closer'[b] = "none" /\ raw'[b] = "gone"
    BY <1>0, <1>1 DEF TbTyped, ClientInv
  <2> QED BY <1>1, <1>4, <2>1 DEF ClientInv, Doing, Opening, Leaving
<1>6. ASSUME NEW c \in BridgeOps, c # b PROVE ClientInv(c)'
  <2>1. raw'[c] = raw[c] /\ closer'[c] = closer[c] BY <1>0, <1>1, <1>6 DEF TbTyped
  <2> QED BY <1>0, <1>1, <2>1, KeepClient DEF BridgesInv, Leaving, Doing, Opening
<1> QED BY <1>2, <1>3, <1>5, <1>6 DEF BridgesInv

\* A cancellation outside an opening: what waits for a close that never started
\* leaves its client in dropped.
LEMMA CancelUseStep ==
  ASSUME BridgesInv, NEW o \in BridgeOps, CancelUse(o)
  PROVE  BridgesInv'
<1> DEFINE r == [task[o] EXCEPT !.pc = "end", !.cancel = FALSE]
<1>0. TbTyped /\ Registry BY DEF BridgesInv
<1>1. /\ task[o].pc \in {"using", "ending"} /\ task' = [task EXCEPT ![o] = r]
      /\ UNCHANGED <<bridges, bridgeOf, promised, quiet, raw, closing>>
  BY DEF CancelUse
<1>2. PICK b \in BridgeOps :
        \/ UNCHANGED <<closer, dropped>>
        \/ closer[b] = "queued" /\ closer' = [closer EXCEPT ![b] = "none"]
           /\ dropped' = dropped \cup {b}
  <2>1. task[o].bridge \in BridgeOps BY <1>0, <1>1, Record
  <2> QED BY <2>1 DEF CancelUse
<1>3. task[o] \in ATask BY <1>0, Record
<1>4. r \in ATask /\ r.at = task[o].at /\ r.made = task[o].made /\ r.pc = "end"
  BY <1>3, BoolTypes DEF ATask, Places
<1> HIDE DEF r
<1>5. /\ task' \in [BridgeOps -> ATask] /\ task'[o] = r
      /\ \A n \in BridgeOps : n # o => task'[n] = task[n]
      /\ \A n \in BridgeOps : task'[n].pc \in {"using", "ending"} => task'[n].bridge # 0
  BY <1>0, <1>1, <1>4, TaskChange
<1>6. \A n \in BridgeOps : /\ task'[n].at = task[n].at /\ task'[n].made = task[n].made
                           /\ (Doing(n, "new")' => Doing(n, "new"))
                           /\ (Opening(n)' <=> Opening(n))
  BY <1>1, <1>4, <1>5 DEF Doing, Opening
<1>7. TbTyped' BY <1>0, <1>1, <1>2, <1>5 DEF TbTyped
<1>8. Registry' BY <1>0, <1>1, <1>6, KeepRegistry
<1>9. CASE UNCHANGED <<closer, dropped>>
  <2>1. ASSUME NEW c \in BridgeOps PROVE ClientInv(c)'
    BY <1>0, <1>1, <1>6, <1>9, KeepClient DEF BridgesInv, Leaving
  <2> QED BY <1>7, <1>8, <2>1 DEF BridgesInv
<1>10. CASE /\ closer[b] = "queued" /\ closer' = [closer EXCEPT ![b] = "none"]
            /\ dropped' = dropped \cup {b}
  <2>1. ClientInv(b) BY DEF BridgesInv
  <2>2. ~Doing(b, "new") /\ ~Opening(b) /\ b \notin bridges /\ raw[b] = "attached"
    BY <1>10, <2>1 DEF ClientInv, Untouched, InOpening, InUse
  <2>3. closer'[b] = "none" /\ b \in Leaving' BY <1>0, <1>10 DEF TbTyped, Leaving
  <2>4. ClientInv(b)' BY <1>1, <1>6, <2>2, <2>3 DEF ClientInv
  <2>5. ASSUME NEW c \in BridgeOps, c # b PROVE ClientInv(c)'
    <3>1. closer'[c] = closer[c] /\ (c \in dropped' <=> c \in dropped)
      BY <1>0, <1>10, <2>5 DEF TbTyped
    <3> QED BY <1>0, <1>1, <1>6, <3>1, KeepClient DEF BridgesInv, Leaving
  <2> QED BY <1>7, <1>8, <2>4, <2>5 DEF BridgesInv
<1> QED BY <1>2, <1>9, <1>10

\* The thread of an opening attaches its client, or does not.
LEMMA AttachStep ==
  ASSUME BridgesInv, NEW o \in BridgeOps, Attach(o)
  PROVE  BridgesInv'
<1>0. TbTyped /\ Registry /\ ClientInv(o) /\ Opening(o) /\ task[o].made = "no"
  BY DEF BridgesInv, Attach
<1>1. UNCHANGED <<bridges, bridgeOf, promised, quiet, closer, closing, dropped>>
  BY DEF Attach
<1>2. PICK m \in {"yes", "failed"} :
        /\ task' = [task EXCEPT ![o].made = m]
        /\ raw' = IF m = "yes" THEN [raw EXCEPT ![o] = "attached"] ELSE raw
  BY DEF Attach
<1> DEFINE r == [task[o] EXCEPT !.made = m]
<1>3. task[o] \in ATask BY <1>0, Record
<1>4. r \in ATask /\ r.at = task[o].at /\ r.made = m /\ r.pc = task[o].pc
      /\ r.bridge = task[o].bridge
  BY <1>3 DEF ATask
<1>5. task' = [task EXCEPT ![o] = r] BY <1>2
<1> HIDE DEF r
<1>6. r.pc \in {"using", "ending"} => r.bridge # 0 BY <1>0, <1>4 DEF TbTyped
<1>7. /\ task' \in [BridgeOps -> ATask] /\ task'[o] = r
      /\ \A n \in BridgeOps : n # o => task'[n] = task[n]
      /\ \A n \in BridgeOps : task'[n].pc \in {"using", "ending"} => task'[n].bridge # 0
  BY <1>0, <1>4, <1>5, <1>6, TaskChange
<1>8. raw' \in [BridgeOps -> {"none", "attached", "gone"}] /\ \A n \in BridgeOps : n # o => raw'[n] = raw[n]
  BY <1>0, <1>2 DEF TbTyped
<1>9. TbTyped' BY <1>0, <1>1, <1>7, <1>8 DEF TbTyped
<1>10. \A n \in BridgeOps : /\ task'[n].at = task[n].at /\ task'[n].pc = task[n].pc
  BY <1>4, <1>7
<1>11. Registry' BY <1>0, <1>1, <1>10, KeepRegistry DEF Opening
<1>12. ClientInv(o)'
  <2>1. Opening(o)' /\ ~Doing(o, "new")' BY <1>0, <1>10 DEF Opening, Doing
  <2>2. InOpening(o) /\ task'[o].made = m BY <1>0, <1>4, <1>7 DEF ClientInv
  <2>3. raw[o] = "none" BY <1>0, <2>2 DEF InOpening
  <2>4. raw'[o] = IF m = "yes" THEN "attached" ELSE "none" BY <1>0, <1>2, <2>3 DEF TbTyped
  <2>5. InOpening(o)' BY <1>1, <1>10, <2>2, <2>4 DEF InOpening
  <2> QED BY <1>1, <2>1, <2>2, <2>5 DEF ClientInv, InOpening
<1>13. ASSUME NEW c \in BridgeOps, c # o PROVE ClientInv(c)'
  BY <1>0, <1>1, <1>7, <1>8, <1>13, KeepClient DEF BridgesInv, Leaving, Doing, Opening
<1> QED BY <1>9, <1>11, <1>12, <1>13 DEF BridgesInv

--------------------------------------------------------------------------------
\* An opening begins: its shell has no bridge and is promised to nobody, and there
\* is room for one more.
LEMMA OpenStep ==
  ASSUME BridgesInv, NEW o \in BridgeOps, NEW s \in Terminals, Open(o, s)
  PROVE  BridgesInv'
<1>0. /\ TbTyped /\ Registry /\ ClientInv(o) /\ Doing(o, "new") /\ ~Opening(o)
      /\ UNCHANGED <<bridges, bridgeOf, quiet, raw, closer, closing, dropped>>
  BY DEF BridgesInv, Open, BeginsTask, Doing, Opening
<1>1. CASE Does(o, "end") /\ UNCHANGED promised
  BY <1>0, <1>1, GoesOn, SideStep DEF Places, TbTyped
<1>2. CASE /\ closing = "no" /\ ~Taken(s) /\ ~Full
           /\ task' = [task EXCEPT ![o].pc = "creating", ![o].at = s]
           /\ promised' = promised \cup {s}
  <2> DEFINE r == [task[o] EXCEPT !.pc = "creating", !.at = s]
  <2>1. task[o] \in ATask BY <1>0, Record
  <2>2. task' = [task EXCEPT ![o] = r] BY <1>2
  <2>3. r \in ATask /\ r.pc = "creating" /\ r.at = s /\ r.made = task[o].made
    BY <2>1 DEF ATask, Places
  <2> HIDE DEF r
  <2>4. /\ task' \in [BridgeOps -> ATask] /\ task'[o] = r
        /\ \A n \in BridgeOps : n # o => task'[n] = task[n]
        /\ \A n \in BridgeOps : task'[n].pc \in {"using", "ending"} => task'[n].bridge # 0
    BY <1>0, <2>2, <2>3, TaskChange
  <2>5. TbTyped' BY <1>0, <1>2, <2>4 DEF TbTyped
  <2>6. bridgeOf[s] = 0 /\ s \notin promised BY <1>2 DEF Taken
  <2>7. Opening(o)' /\ \A n \in BridgeOps : n # o => (Opening(n)' <=> Opening(n))
    BY <2>3, <2>4 DEF Opening
  <2>8. o \notin bridges BY <1>0 DEF ClientInv, Untouched
  <2>9. Registry'
    <3>1. Mapped'
      <4>1. \A t \in Terminals : bridgeOf[t] # 0 => bridgeOf[t] # o
        BY <1>0, <2>8 DEF Registry, Mapped
      <4> QED BY <1>0, <2>4, <4>1 DEF Registry, Mapped, TbTyped
    <3>2. PromisedToOne'
      <4>1. \A n \in BridgeOps : Opening(n) => n # o /\ task[n].at \in promised
        BY <1>0 DEF Registry, PromisedToOne
      <4>2. promised' = {task'[n].at : n \in {m \in BridgeOps : Opening(m)'}}
        BY <1>0, <1>2, <2>3, <2>4, <2>7, <4>1 DEF Registry, PromisedToOne
      <4>3. \A n, m \in BridgeOps : Opening(n)' /\ Opening(m)' /\ task'[n].at = task'[m].at => n = m
        BY <1>0, <2>3, <2>4, <2>6, <2>7, <4>1 DEF Registry, PromisedToOne
      <4> QED BY <4>2, <4>3 DEF PromisedToOne
    <3>3. Counted'
      <4>1. /\ IsFiniteSet(bridges) /\ IsFiniteSet(promised)
            /\ Cardinality(bridges) \in Nat /\ Cardinality(promised) \in Nat
            /\ Cardinality(bridges) + Cardinality(promised) < MaxBridges
        BY <1>0, <1>2, FS_CardinalityType, TerminalBridgesAssumption DEF Registry, Counted, Full
      <4>2. IsFiniteSet(promised') /\ Cardinality(promised') = Cardinality(promised) + 1
        BY <1>2, <2>6, <4>1, FS_AddElement
      <4> QED BY <1>0, <4>1, <4>2, TerminalBridgesAssumption DEF Counted
    <3>4. ClosedEmpty' BY <1>0, <1>2 DEF ClosedEmpty
    <3> QED BY <3>1, <3>2, <3>3, <3>4 DEF Registry
  <2>10. ClientInv(o)'
    <3>1. Untouched(o) BY <1>0 DEF ClientInv
    <3>2. InOpening(o)' BY <1>0, <2>3, <2>4, <2>6, <3>1 DEF InOpening, Untouched
    <3>3. ~Doing(o, "new")' /\ o \notin bridges' BY <1>0, <2>3, <2>4, <2>8 DEF Doing
    <3> QED BY <2>7, <3>2, <3>3 DEF ClientInv, InOpening
  <2>11. ASSUME NEW c \in BridgeOps, c # o PROVE ClientInv(c)'
    BY <1>0, <2>4, <2>7, <2>11, KeepClient DEF BridgesInv, Leaving, Doing
  <2> QED BY <2>5, <2>9, <2>10, <2>11 DEF BridgesInv
<1> QED BY <1>0, <1>1, <1>2 DEF Open

\* The end of an opening: the promise of its shell was its own.
LEMMA PromiseEnds ==
  ASSUME BridgesInv, NEW o \in BridgeOps, Opening(o), promised' = Unpromised(o),
         ~Opening(o)', \A n \in BridgeOps : n # o => task'[n] = task[n]
  PROVE  /\ PromisedToOne' /\ task[o].at \in promised /\ task[o].at \in Terminals
         /\ bridgeOf[task[o].at] = 0 /\ o \notin bridges
         /\ IsFiniteSet(promised) /\ IsFiniteSet(promised') /\ IsFiniteSet(bridges)
         /\ Cardinality(promised') = Cardinality(promised) - 1
         /\ Cardinality(bridges) \in Nat /\ Cardinality(promised) \in Nat
         /\ \A n \in BridgeOps : n # o /\ Opening(n) => task[n].at # task[o].at
         /\ \A n \in BridgeOps : n # o => (Opening(n)' <=> Opening(n))
<1>1. Registry /\ ClientInv(o) BY DEF BridgesInv
<1>2. \A n \in BridgeOps : n # o => (Opening(n)' <=> Opening(n)) BY DEF Opening
<1>3. \A n \in BridgeOps : n # o /\ Opening(n) => task[n].at # task[o].at
  BY <1>1 DEF Registry, PromisedToOne
<1>4. task[o].at \in promised BY <1>1 DEF Registry, PromisedToOne
<1>5. promised' = {task'[n].at : n \in {m \in BridgeOps : Opening(m)'}}
  BY <1>1, <1>2, <1>3 DEF Registry, PromisedToOne, Unpromised
<1>6. \A n, m \in BridgeOps : Opening(n)' /\ Opening(m)' /\ task'[n].at = task'[m].at => n = m
  BY <1>1, <1>2 DEF Registry, PromisedToOne
<1>7. PromisedToOne' BY <1>5, <1>6 DEF PromisedToOne
<1>8. /\ IsFiniteSet(promised) /\ IsFiniteSet(promised') /\ IsFiniteSet(bridges)
      /\ Cardinality(promised') = Cardinality(promised) - 1
      /\ Cardinality(bridges) \in Nat /\ Cardinality(promised) \in Nat
  BY <1>1, <1>4, FS_RemoveElement, FS_CardinalityType DEF Registry, Counted, Unpromised
<1> QED BY <1>1, <1>2, <1>3, <1>4, <1>7, <1>8 DEF ClientInv, InOpening

\* The bridge is registered in the place of the promise.
LEMMA RegisterBridgeStep ==
  ASSUME BridgesInv, NEW o \in BridgeOps, RegisterBridge(o)
  PROVE  BridgesInv'
<1> DEFINE r == [task[o] EXCEPT !.pc = "end"]
<1>0. /\ TbTyped /\ Registry /\ ClientInv(o) /\ Opening(o) /\ task[o].made = "yes"
      /\ closing = "no" /\ task' = [task EXCEPT ![o] = r]
      /\ promised' = Unpromised(o) /\ bridges' = bridges \cup {o}
      /\ UNCHANGED <<quiet, raw, closer, closing, dropped>>
  BY DEF BridgesInv, RegisterBridge, Doing, Opening, Admits, Does
<1>1. PICK s \in Terminals : s = task[o].at BY <1>0 DEF ClientInv, InOpening
<1>2. bridgeOf' = [bridgeOf EXCEPT ![s] = o] BY <1>1 DEF RegisterBridge
<1>3. task[o] \in ATask BY <1>0, Record
<1>4. r \in ATask /\ r.pc = "end" /\ r.at = s /\ r.made = "yes"
  BY <1>0, <1>1, <1>3 DEF ATask, Places
<1> HIDE DEF r
<1>5. /\ task' \in [BridgeOps -> ATask] /\ task'[o] = r
      /\ \A n \in BridgeOps : n # o => task'[n] = task[n]
      /\ \A n \in BridgeOps : task'[n].pc \in {"using", "ending"} => task'[n].bridge # 0
  BY <1>0, <1>4, TaskChange
<1>6. ~Opening(o)' /\ ~Doing(o, "new")' BY <1>4, <1>5 DEF Opening, Doing
<1>7. /\ PromisedToOne' /\ bridgeOf[s] = 0 /\ o \notin bridges /\ s \in promised
      /\ IsFiniteSet(promised') /\ IsFiniteSet(bridges)
      /\ Cardinality(promised') = Cardinality(promised) - 1
      /\ Cardinality(bridges) \in Nat /\ Cardinality(promised) \in Nat
      /\ \A n \in BridgeOps : n # o /\ Opening(n) => task[n].at # s
      /\ \A n \in BridgeOps : n # o => (Opening(n)' <=> Opening(n))
  BY <1>0, <1>1, <1>5, <1>6, PromiseEnds
<1>8. bridgeOf' \in [Terminals -> BridgeOps \cup {0}] /\ bridgeOf'[s] = o
      /\ \A t \in Terminals : t # s => bridgeOf'[t] = bridgeOf[t]
  BY <1>0, <1>2 DEF TbTyped
<1>9. TbTyped' BY <1>0, <1>5, <1>8 DEF TbTyped, Unpromised
<1>10. Registry'
  <2>1. Mapped'
    <3>1. \A t \in Terminals : t # s /\ bridgeOf[t] # 0 =>
            bridgeOf[t] \in BridgeOps /\ bridgeOf[t] # o /\ bridgeOf[t] \in bridges
            /\ task[bridgeOf[t]].at = t
      BY <1>0, <1>7 DEF Registry, Mapped, TbTyped
    <3> QED BY <1>0, <1>4, <1>5, <1>8, <3>1 DEF Mapped
  <2>2. Counted'
    <3>1. IsFiniteSet(bridges') /\ Cardinality(bridges') = Cardinality(bridges) + 1
      BY <1>0, <1>7, FS_AddElement
    <3> QED BY <1>0, <1>7, <3>1, TerminalBridgesAssumption DEF Registry, Counted
  <2>3. ClosedEmpty' BY <1>0 DEF ClosedEmpty
  <2> QED BY <1>7, <2>1, <2>2, <2>3 DEF Registry
<1>11. ClientInv(o)'
  <2>1. InOpening(o) BY <1>0 DEF ClientInv
  <2>2. InUse(o)' BY <1>0, <1>4, <1>5, <1>8, <2>1 DEF InOpening, InUse
  <2> QED BY <1>0, <1>6, <2>2 DEF ClientInv, InUse
<1>12. ASSUME NEW c \in BridgeOps, c # o PROVE ClientInv(c)'
  <2>1. ClientInv(c) BY DEF BridgesInv
  <2>2. c \in bridges' <=> c \in bridges BY <1>0, <1>12
  <2>3. Opening(c) \/ c \in bridges => bridgeOf'[task[c].at] = bridgeOf[task[c].at]
    <3>1. c \in bridges => task[c].at # s /\ task[c].at \in Terminals
      BY <1>7, <1>12, <2>1 DEF ClientInv, InUse, BridgeOps
    <3>2. Opening(c) => task[c].at # s /\ task[c].at \in Terminals
      BY <1>7, <1>12, <2>1 DEF ClientInv, InOpening
    <3> QED BY <1>8, <3>1, <3>2
  <2> QED BY <1>0, <1>5, <1>7, <1>12, <2>1, <2>2, <2>3, KeepClient DEF Leaving, Doing
<1> QED BY <1>9, <1>10, <1>11, <1>12 DEF BridgesInv

\* An opening gives up: a client that is there is closed, and nothing else is left.
LEMMA AbandonStep ==
  ASSUME BridgesInv, NEW o \in BridgeOps, Opening(o), task[o].made # "no", Abandon(o)
  PROVE  BridgesInv'
<1>0. /\ TbTyped /\ Registry /\ ClientInv(o) /\ promised' = Unpromised(o)
      /\ UNCHANGED <<bridges, bridgeOf, quiet, raw, closing, dropped>>
  BY DEF BridgesInv, Abandon
<1>1. PICK r \in ATask :
        /\ task' = [task EXCEPT ![o] = r] /\ r.at = task[o].at /\ r.made = task[o].made
        /\ r.pc \in {"using", "ending"} => r.bridge # 0
        /\ \/ task[o].made = "yes" /\ r.pc = "ending" /\ closer' = [closer EXCEPT ![o] = "queued"]
           \/ task[o].made = "failed" /\ r.pc = "end" /\ closer' = closer
  <2>1. task[o] \in ATask /\ task[o].made \in {"yes", "failed"} BY <1>0, Record
  <2>2. CASE task[o].made = "yes"
    <3> DEFINE q == [task[o] EXCEPT !.pc = "ending", !.bridge = o, !.cancel = FALSE]
    <3>1. q \in ATask /\ q.at = task[o].at /\ q.made = task[o].made /\ q.pc = "ending"
          /\ q.bridge = o
      BY <2>1, BoolTypes DEF ATask, Places
    <3>2. task' = [task EXCEPT ![o] = q] /\ closer' = [closer EXCEPT ![o] = "queued"]
      BY <2>2 DEF Abandon
    <3>3. o # 0 BY DEF BridgeOps
    <3> HIDE DEF q
    <3> QED BY <2>2, <3>1, <3>2, <3>3
  <2>3. CASE task[o].made = "failed"
    <3> DEFINE q == [task[o] EXCEPT !.pc = "end", !.cancel = FALSE]
    <3>1. q \in ATask /\ q.at = task[o].at /\ q.made = task[o].made /\ q.pc = "end"
      BY <2>1, BoolTypes DEF ATask, Places
    <3>2. task' = [task EXCEPT ![o] = q] /\ closer' = closer
      BY <2>3 DEF Abandon
    <3> HIDE DEF q
    <3> QED BY <2>3, <3>1, <3>2
  <2> QED BY <2>1, <2>2, <2>3
<1>2. /\ task' \in [BridgeOps -> ATask] /\ task'[o] = r
      /\ \A n \in BridgeOps : n # o => task'[n] = task[n]
      /\ \A n \in BridgeOps : task'[n].pc \in {"using", "ending"} => task'[n].bridge # 0
  BY <1>0, <1>1, TaskChange
<1>3. ~Opening(o)' /\ ~Doing(o, "new")' BY <1>1, <1>2 DEF Opening, Doing
<1>4. /\ PromisedToOne' /\ o \notin bridges
      /\ IsFiniteSet(promised') /\ IsFiniteSet(bridges)
      /\ Cardinality(promised') = Cardinality(promised) - 1
      /\ Cardinality(bridges) \in Nat /\ Cardinality(promised) \in Nat
      /\ \A n \in BridgeOps : n # o => (Opening(n)' <=> Opening(n))
  BY <1>0, <1>2, <1>3, PromiseEnds
<1>5. /\ closer' \in [BridgeOps -> {"none", "queued", "running", "owed"}]
      /\ \A n \in BridgeOps : n # o => closer'[n] = closer[n]
      /\ closer'[o] = IF task[o].made = "yes" THEN "queued" ELSE closer[o]
  BY <1>0, <1>1 DEF TbTyped
<1>6. TbTyped' BY <1>0, <1>2, <1>5 DEF TbTyped, Unpromised
<1>7. \A n \in BridgeOps : task'[n].at = task[n].at BY <1>1, <1>2
<1>8. Registry'
  <2>1. Mapped' BY <1>0, <1>7 DEF Registry, Mapped, TbTyped
  <2>2. Counted' BY <1>0, <1>4, TerminalBridgesAssumption DEF Registry, Counted
  <2>3. ClosedEmpty' BY <1>0 DEF Registry, ClosedEmpty, Unpromised
  <2> QED BY <1>4, <2>1, <2>2, <2>3 DEF Registry
<1>9. ClientInv(o)'
  <2>1. InOpening(o) BY <1>0 DEF ClientInv
  <2>2. raw'[o] = "attached" <=> task[o].made = "yes" BY <1>0, <2>1 DEF InOpening
  <2>3. closer'[o] # "none" <=> task[o].made = "yes" BY <1>5, <2>1 DEF InOpening
  <2> QED BY <1>0, <1>3, <1>4, <2>2, <2>3 DEF ClientInv, Leaving
<1>10. ASSUME NEW c \in BridgeOps, c # o PROVE ClientInv(c)'
  BY <1>0, <1>2, <1>4, <1>5, <1>10, KeepClient DEF BridgesInv, Leaving, Doing
<1> QED BY <1>6, <1>8, <1>9, <1>10 DEF BridgesInv

--------------------------------------------------------------------------------
\* A bridge is taken out of the maps, and its client is closed.
LEMMA DetachStep ==
  ASSUME BridgesInv, NEW b \in bridges, Detached(b), NEW x \in {"queued", "running"},
         closer' = [closer EXCEPT ![b] = x], UNCHANGED <<promised, raw, closing, dropped>>,
         task' \in [BridgeOps -> ATask],
         \A n \in BridgeOps : task'[n].pc \in {"using", "ending"} => task'[n].bridge # 0,
         \A n \in BridgeOps : /\ task'[n].at = task[n].at /\ task'[n].made = task[n].made
                              /\ (Doing(n, "new")' => Doing(n, "new"))
                              /\ (Opening(n)' <=> Opening(n))
  PROVE  BridgesInv'
<1>0. TbTyped /\ Registry /\ b \in BridgeOps /\ b # 0 /\ ClientInv(b)
  BY DEF BridgesInv, TbTyped, BridgeOps
<1>1. /\ bridges' = bridges \ {b} /\ quiet' = quiet \ {b}
      /\ bridgeOf' \in [Terminals -> BridgeOps \cup {0}]
      /\ \A s \in Terminals : bridgeOf'[s] = IF bridgeOf[s] = b THEN 0 ELSE bridgeOf[s]
  <2>1. \A s \in Terminals : bridgeOf[s] \in BridgeOps \cup {0} BY <1>0 DEF TbTyped
  <2> QED BY <2>1 DEF Detached
<1>2. /\ closer' \in [BridgeOps -> {"none", "queued", "running", "owed"}] /\ closer'[b] = x
      /\ \A n \in BridgeOps : n # b => closer'[n] = closer[n]
  BY <1>0 DEF TbTyped
<1>3. TbTyped' BY <1>0, <1>1, <1>2 DEF TbTyped
<1>4. Registry'
  <2>1. Mapped' BY <1>0, <1>1 DEF Registry, Mapped, TbTyped
  <2>2. PromisedToOne' BY <1>0 DEF Registry, PromisedToOne
  <2>3. Counted'
    <3>1. IsFiniteSet(bridges') /\ Cardinality(bridges') <= Cardinality(bridges)
          /\ Cardinality(bridges') \in Nat /\ Cardinality(bridges) \in Nat
          /\ Cardinality(promised) \in Nat
      <4>1. bridges' \in SUBSET bridges BY <1>1
      <4> QED BY <1>0, <4>1, FS_Subset, FS_CardinalityType DEF Registry, Counted
    <3> QED BY <1>0, <3>1, TerminalBridgesAssumption DEF Registry, Counted
  <2>4. ClosedEmpty' BY <1>0 DEF Registry, ClosedEmpty
  <2> QED BY <2>1, <2>2, <2>3, <2>4 DEF Registry
<1>5. ClientInv(b)'
  <2>1. raw'[b] = "attached" /\ ~Doing(b, "new")' /\ ~Opening(b)'
    BY <1>0 DEF ClientInv, InUse, InOpening, Untouched
  <2> QED BY <1>0, <1>1, <1>2, <2>1 DEF ClientInv, Leaving
<1>6. ASSUME NEW c \in BridgeOps, c # b PROVE ClientInv(c)'
  <2>1. ClientInv(c) BY DEF BridgesInv
  <2>2. c \in bridges' <=> c \in bridges BY <1>1, <1>6
  <2>3. Opening(c) \/ c \in bridges => bridgeOf'[task[c].at] = bridgeOf[task[c].at]
    BY <1>0, <1>1, <1>6, <2>1 DEF ClientInv, InOpening, InUse
  <2> QED BY <1>0, <1>2, <1>6, <2>1, <2>2, <2>3, KeepClient DEF Leaving
<1> QED BY <1>3, <1>4, <1>5, <1>6 DEF BridgesInv

LEMMA ClosingSteps ==
  ASSUME BridgesInv, NEW o \in BridgeOps,
         \/ ReadsEnd(o) \/ ExpireBridge(o)
         \/ \E b \in BridgeOps : CloseBridge(o, b)
  PROVE  BridgesInv'
<1>0. TbTyped BY DEF BridgesInv
<1>1. ASSUME NEW b \in BridgeOps, DetachAndClose(o, b), ~Opening(o) PROVE BridgesInv'
  <2>0. UNCHANGED <<promised, raw, closing, dropped>> BY <1>1 DEF DetachAndClose
  <2>1. CASE b \notin bridges
    <3>1. Does(o, "end") /\ UNCHANGED <<bridges, bridgeOf, quiet, closer>>
      BY <1>1, <2>1 DEF DetachAndClose
    <3>2. quiet \subseteq bridges
          /\ closing \in {"no", "stopped", "draining", "closing", "closed"}
      BY <1>0 DEF TbTyped
    <3> QED BY <1>1, <2>0, <3>1, <3>2, GoesOn, SideStep DEF Places
  <2>2. CASE b \in bridges
    <3> DEFINE r == [task[o] EXCEPT !.pc = "ending", !.bridge = b]
    <3>1. Detached(b) /\ closer' = [closer EXCEPT ![b] = "queued"]
          /\ task' = [task EXCEPT ![o] = r]
      BY <1>1, <2>2 DEF DetachAndClose
    <3>2. task[o] \in ATask BY <1>0, Record
    <3>3. r \in ATask /\ r.pc = "ending" /\ r.at = task[o].at /\ r.made = task[o].made
          /\ r.bridge = b
      BY <3>2 DEF ATask, Places
    <3>4. b # 0 BY DEF BridgeOps
    <3> HIDE DEF r
    <3>5. /\ task' \in [BridgeOps -> ATask] /\ task'[o] = r
          /\ \A n \in BridgeOps : n # o => task'[n] = task[n]
          /\ \A n \in BridgeOps : task'[n].pc \in {"using", "ending"} => task'[n].bridge # 0
      BY <1>0, <3>1, <3>3, <3>4, TaskChange
    <3>6. \A n \in BridgeOps : /\ task'[n].at = task[n].at /\ task'[n].made = task[n].made
                               /\ (Doing(n, "new")' => Doing(n, "new"))
                               /\ (Opening(n)' <=> Opening(n))
      BY <1>1, <3>3, <3>5 DEF Doing, Opening
    <3> QED BY <2>0, <2>2, <3>1, <3>5, <3>6, DetachStep
  <2> QED BY <2>1, <2>2
<1>2. CASE ReadsEnd(o)
  <2>1. PICK b \in BridgeOps : b = task[o].bridge
    BY <1>0, <1>2, Record DEF ReadsEnd, Doing
  <2>2. ~Opening(o) BY <1>2 DEF ReadsEnd, Doing, Opening
  <2> QED BY <1>1, <1>2, <2>1, <2>2 DEF ReadsEnd
<1>3. ASSUME NEW b \in BridgeOps, CloseBridge(o, b) PROVE BridgesInv'
  <2>1. ~Opening(o) BY <1>3 DEF CloseBridge, BeginsTask, Doing, Opening
  <2> QED BY <1>1, <1>3, <2>1 DEF CloseBridge
<1>4. CASE ExpireBridge(o)
  <2>1. /\ o \in bridges /\ Detached(o) /\ closer' = [closer EXCEPT ![o] = "running"]
        /\ UNCHANGED <<promised, raw, task, closing, dropped>>
    BY <1>4 DEF ExpireBridge
  <2>2. /\ task' \in [BridgeOps -> ATask]
        /\ \A n \in BridgeOps : task'[n].pc \in {"using", "ending"} => task'[n].bridge # 0
    BY <1>0, <2>1 DEF TbTyped
  <2>3. \A n \in BridgeOps : /\ task'[n].at = task[n].at /\ task'[n].made = task[n].made
                             /\ (Doing(n, "new")' => Doing(n, "new"))
                             /\ (Opening(n)' <=> Opening(n))
    BY <2>1 DEF Doing, Opening
  <2> QED BY <2>1, <2>2, <2>3, DetachStep
<1> QED BY <1>2, <1>3, <1>4

\* The close of the registry, after its tasks: every bridge that is left is closed.
LEMMA DrainedStep ==
  ASSUME BridgesInv, Drained
  PROVE  BridgesInv'
<1>0. /\ TbTyped /\ Registry /\ closing' = "closing" /\ bridges' = {} /\ promised' = {}
      /\ quiet' = {} /\ bridgeOf' = [s \in Terminals |-> 0]
      /\ closer' = [b \in BridgeOps |-> IF b \in bridges THEN "owed" ELSE closer[b]]
      /\ UNCHANGED <<raw, task, dropped>>
      /\ \A o \in BridgeOps : ~Opening(o) /\ ~Opening(o)'
  BY DEF BridgesInv, Drained, Opening
<1>1. TbTyped'
  <2>1. \A b \in BridgeOps : (IF b \in bridges THEN "owed" ELSE closer[b])
                               \in {"none", "queued", "running", "owed"}
    BY <1>0 DEF TbTyped
  <2>2. closer' \in [BridgeOps -> {"none", "queued", "running", "owed"}] BY <1>0, <2>1
  <2> QED BY <1>0, <2>2 DEF TbTyped
<1>2. Registry'
  <2>1. Mapped' /\ ClosedEmpty' BY <1>0 DEF Mapped, ClosedEmpty
  <2>2. PromisedToOne' BY <1>0 DEF PromisedToOne
  <2>3. Counted' BY <1>0, FS_EmptySet, TerminalBridgesAssumption DEF Counted
  <2> QED BY <2>1, <2>2, <2>3 DEF Registry
<1>3. ASSUME NEW b \in BridgeOps PROVE ClientInv(b)'
  <2>1. ClientInv(b) BY DEF BridgesInv
  <2>2. closer'[b] = IF b \in bridges THEN "owed" ELSE closer[b] BY <1>0
  <2>3. Doing(b, "new")' => Untouched(b)'
    BY <1>0, <2>1, <2>2 DEF ClientInv, Untouched, Doing
  <2>4. closer'[b] # "none" => raw'[b] = "attached"
    BY <1>0, <2>1, <2>2 DEF ClientInv, InUse
  <2>5. raw'[b] = "attached" => b \in Leaving'
    BY <1>0, <2>1, <2>2 DEF ClientInv, Leaving
  <2> QED BY <1>0, <2>3, <2>4, <2>5 DEF ClientInv
<1> QED BY <1>1, <1>2, <1>3 DEF BridgesInv

--------------------------------------------------------------------------------
LEMMA BridgesStart == BridgesInit => BridgesInv
<1> SUFFICES ASSUME BridgesInit PROVE BridgesInv
  OBVIOUS
<1>1. NewTask \in ATask /\ NewTask.pc = "new" /\ NewTask.made = "no" BY DEF NewTask, ATask, Places
<1>2. TbTyped BY <1>1 DEF BridgesInit, TbTyped
<1>3. \A o \in BridgeOps : Doing(o, "new") /\ ~Opening(o) /\ task[o].made = "no"
  BY <1>1 DEF BridgesInit, Doing, Opening
<1>4. Registry
  BY <1>3, FS_EmptySet, TerminalBridgesAssumption
     DEF BridgesInit, Registry, Mapped, PromisedToOne, Counted, ClosedEmpty
<1>5. \A b \in BridgeOps : ClientInv(b) BY <1>3 DEF BridgesInit, ClientInv, Untouched
<1> QED BY <1>2, <1>4, <1>5 DEF BridgesInv

LEMMA BridgesKeep == BridgesInv /\ [BridgesNext]_tbVars => BridgesInv'
<1> SUFFICES ASSUME BridgesInv, [BridgesNext]_tbVars PROVE BridgesInv'
  OBVIOUS
<1>1. ASSUME NEW o \in BridgeOps, NEW s \in Terminals, Open(o, s) PROVE BridgesInv'
  BY <1>1, OpenStep
<1>2. ASSUME NEW o \in BridgeOps, NEW b \in BridgeOps, UseBridge(o, b) \/ CloseBridge(o, b)
      PROVE  BridgesInv'
  BY <1>2, PlainSteps, ClosingSteps
<1>3. ASSUME NEW o \in BridgeOps, TaskStep(o) PROVE BridgesInv'
  <2>1. CASE OpenFails(o) \/ CancelledOpening(o)
    <3>1. Opening(o) /\ task[o].made # "no" /\ Abandon(o)
      BY <2>1 DEF OpenFails, CancelledOpening, Opening, Doing
    <3> QED BY <3>1, AbandonStep
  <2> QED BY <1>3, <2>1, RegisterBridgeStep, PlainSteps, ClosingSteps, CancelUseStep DEF TaskStep
<1>4. ASSUME NEW o \in BridgeOps, ThreadStep(o) \/ TimerStep(o) \/ CancelTask(o)
      PROVE  BridgesInv'
  BY <1>4, AttachStep, CloseRunsStep, PlainSteps, ClosingSteps DEF ThreadStep, TimerStep
<1>5. CASE StopBridges \/ CloseAll \/ CloseRegistry \/ UNCHANGED tbVars
  BY <1>5, StopSteps, DrainedStep DEF CloseRegistry
<1> QED BY <1>1, <1>2, <1>3, <1>4, <1>5 DEF BridgesNext

\* In every reachable state of the raw bridges: a shell has one bridge and the maps
\* agree, a second client of a shell is there only while the first is being closed,
\* the limit counts bridges and the openings that were promised one, and a client is
\* lost only through the cancellation of a close that waits for its thread
\* (TerminalBridgeRegistry of terminal/bridge.py).
THEOREM BridgesTheorem == BridgesSpec => []BridgesSound
<1>1. BridgesInv => BridgesSound
  <2> SUFFICES ASSUME BridgesInv PROVE BridgesSound
    OBVIOUS
  <2>1. TbTypeOK BY DEF BridgesInv, TbTyped, TbTypeOK, ClientInv
  <2>2. OneRawClient
    <3>1. \A s \in Terminals :
            bridgeOf[s] # 0 => bridgeOf[s] \in bridges /\ task[bridgeOf[s]].at = s
      BY DEF BridgesInv, Registry, Mapped
    <3>2. \A b \in bridges : bridgeOf[task[b].at] = b
      BY DEF BridgesInv, TbTyped, ClientInv, InUse
    <3>3. ASSUME NEW b \in Attached \ Leaving, NEW c \in Attached \ Leaving,
                 task[b].at = task[c].at
          PROVE  b = c
      <4>1. /\ b \in BridgeOps /\ (b \in bridges \/ Opening(b))
            /\ c \in BridgeOps /\ (c \in bridges \/ Opening(c))
        BY <3>3 DEF Attached, BridgesInv, ClientInv
      <4>2. \A n \in BridgeOps : /\ n \in bridges => bridgeOf[task[n].at] = n /\ n # 0
                                 /\ Opening(n) => bridgeOf[task[n].at] = 0
        BY DEF BridgesInv, ClientInv, InUse, InOpening, BridgeOps
      <4> QED BY <3>3, <4>1, <4>2 DEF BridgesInv, Registry, PromisedToOne
    <3> QED BY <3>1, <3>2, <3>3 DEF OneRawClient
  <2>3. BridgesBounded BY DEF BridgesInv, Registry, PromisedToOne, Counted, BridgesBounded
  <2>4. NoClientLost BY DEF BridgesInv, Registry, ClosedEmpty, ClientInv, NoClientLost, Attached
  <2> QED BY <2>1, <2>2, <2>3, <2>4 DEF BridgesSound
<1> QED BY <1>1, BridgesStart, BridgesKeep, PTL DEF BridgesSpec

(*****************************************************************************)
(* The Human UI's sessions on the workers.                                   *)
(*****************************************************************************)

UiPcs == {"new", "seeking", "locking", "starting", "undoing", "calling", "next", "end"}
UiReqs ==
  [pc : UiPcs, step : 1..LastCall, ses : WorkerSessions \cup {0}, dir : Dirs, again : BOOLEAN,
   answer : {"none", "done", "missing"}, wrote : 0..1, cancel : BOOLEAN]
FilesTyped ==
  /\ request \in [UiRequests -> UiReqs] /\ cached \in WorkerSessions \cup {0}
  /\ retired \in SUBSET WorkerSessions /\ ending \in SUBSET WorkerSessions
  /\ strays \in SUBSET WorkerSessions
  /\ filesGate \in {"open", "stopped", "draining", "ending", "closed"}
  /\ session \in [WorkerSessions -> {"none", "live", "dead"}]
  /\ dirOf \in [WorkerSessions -> Dirs] /\ machine \in [online : BOOLEAN, dir : Dirs]

\* What a session is in the hands of a request, and that it wrote with its last call only.
RequestFine(r) ==
  /\ request[r].pc \in {"calling", "undoing"} =>
       request[r].ses # 0 /\ session[request[r].ses] # "none"
  /\ request[r].answer # "none" => request[r].pc = "calling"
  /\ request[r].answer = "missing" => session[request[r].ses] = "dead"
  /\ request[r].wrote # 0 =>
       \/ request[r].pc = "end"
       \/ request[r].pc = "calling" /\ request[r].answer = "done" /\ Writes(r)
\* The request under the lock makes a session because there is none of its directory.
MakerFine(r) ==
  /\ request[r].pc \in {"starting", "undoing"} => ~CachedFor(request[r].dir)
  /\ request[r].pc = "undoing" => dirOf[request[r].ses] = request[r].dir
OneMaker ==
  \A r, q \in UiRequests :
    request[r].pc \in {"starting", "undoing"} /\ request[q].pc \in {"starting", "undoing"} => r = q
\* The server knows of no session that was not made.
KnownMade ==
  /\ \A w \in retired \cup ending \cup strays : session[w] # "none"
  /\ cached # 0 => session[cached] # "none"
GateFine ==
  /\ filesGate \in {"ending", "closed"} => cached = 0 /\ retired = {}
  /\ filesGate # "ending" => ending = {}
FilesInv ==
  /\ FilesTyped /\ \A r \in UiRequests : RequestFine(r) /\ MakerFine(r)
  /\ OneMaker /\ KnownMade /\ GateFine /\ NoSessionForgotten /\ ClosedIsQuiet
\* One field of a request changed, the others kept.
LEMMA UiPc ==
  ASSUME NEW m \in UiReqs, NEW v \in UiPcs, NEW n, n = [m EXCEPT !.pc = v]
  PROVE  /\ n \in UiReqs /\ n.pc = v
         /\ n.step = m.step /\ n.ses = m.ses /\ n.dir = m.dir /\ n.answer = m.answer /\ n.wrote = m.wrote
<1>1. n \in UiReqs BY SMT DEF UiReqs
<1>2. n.pc = v BY SMT DEF UiReqs
<1>3. n.step = m.step /\ n.ses = m.ses /\ n.dir = m.dir /\ n.answer = m.answer /\ n.wrote = m.wrote
  BY SMT DEF UiReqs
<1> QED BY <1>1, <1>2, <1>3

LEMMA UiStep ==
  ASSUME NEW m \in UiReqs, NEW v \in 1..LastCall, NEW n, n = [m EXCEPT !.step = v]
  PROVE  /\ n \in UiReqs /\ n.step = v
         /\ n.pc = m.pc /\ n.ses = m.ses /\ n.dir = m.dir /\ n.answer = m.answer /\ n.wrote = m.wrote
<1>1. n \in UiReqs BY SMT DEF UiReqs
<1>2. n.step = v BY SMT DEF UiReqs
<1>3. n.pc = m.pc /\ n.ses = m.ses /\ n.dir = m.dir /\ n.answer = m.answer /\ n.wrote = m.wrote
  BY SMT DEF UiReqs
<1> QED BY <1>1, <1>2, <1>3

LEMMA UiSes ==
  ASSUME NEW m \in UiReqs, NEW v \in WorkerSessions \cup {0}, NEW n, n = [m EXCEPT !.ses = v]
  PROVE  /\ n \in UiReqs /\ n.ses = v
         /\ n.pc = m.pc /\ n.step = m.step /\ n.dir = m.dir /\ n.answer = m.answer /\ n.wrote = m.wrote
<1>1. n \in UiReqs BY SMT DEF UiReqs
<1>2. n.ses = v BY SMT DEF UiReqs
<1>3. n.pc = m.pc /\ n.step = m.step /\ n.dir = m.dir /\ n.answer = m.answer /\ n.wrote = m.wrote
  BY SMT DEF UiReqs
<1> QED BY <1>1, <1>2, <1>3

LEMMA UiDir ==
  ASSUME NEW m \in UiReqs, NEW v \in Dirs, NEW n, n = [m EXCEPT !.dir = v]
  PROVE  /\ n \in UiReqs /\ n.dir = v
         /\ n.pc = m.pc /\ n.step = m.step /\ n.ses = m.ses /\ n.answer = m.answer /\ n.wrote = m.wrote
<1>1. n \in UiReqs BY SMT DEF UiReqs
<1>2. n.dir = v BY SMT DEF UiReqs
<1>3. n.pc = m.pc /\ n.step = m.step /\ n.ses = m.ses /\ n.answer = m.answer /\ n.wrote = m.wrote
  BY SMT DEF UiReqs
<1> QED BY <1>1, <1>2, <1>3

LEMMA UiAnswer ==
  ASSUME NEW m \in UiReqs, NEW v \in {"none", "done", "missing"}, NEW n, n = [m EXCEPT !.answer = v]
  PROVE  /\ n \in UiReqs /\ n.answer = v
         /\ n.pc = m.pc /\ n.step = m.step /\ n.ses = m.ses /\ n.dir = m.dir /\ n.wrote = m.wrote
<1>1. n \in UiReqs BY SMT DEF UiReqs
<1>2. n.answer = v BY SMT DEF UiReqs
<1>3. n.pc = m.pc /\ n.step = m.step /\ n.ses = m.ses /\ n.dir = m.dir /\ n.wrote = m.wrote
  BY SMT DEF UiReqs
<1> QED BY <1>1, <1>2, <1>3

LEMMA UiWrote ==
  ASSUME NEW m \in UiReqs, NEW v \in 0..1, NEW n, n = [m EXCEPT !.wrote = v]
  PROVE  /\ n \in UiReqs /\ n.wrote = v
         /\ n.pc = m.pc /\ n.step = m.step /\ n.ses = m.ses /\ n.dir = m.dir /\ n.answer = m.answer
<1>1. n \in UiReqs BY SMT DEF UiReqs
<1>2. n.wrote = v BY SMT DEF UiReqs
<1>3. n.pc = m.pc /\ n.step = m.step /\ n.ses = m.ses /\ n.dir = m.dir /\ n.answer = m.answer
  BY SMT DEF UiReqs
<1> QED BY <1>1, <1>2, <1>3

LEMMA UiAgain ==
  ASSUME NEW m \in UiReqs, NEW v \in BOOLEAN, NEW n, n = [m EXCEPT !.again = v]
  PROVE  /\ n \in UiReqs 
         /\ n.pc = m.pc /\ n.step = m.step /\ n.ses = m.ses /\ n.dir = m.dir /\ n.answer = m.answer /\ n.wrote = m.wrote
<1>1. n \in UiReqs BY SMT DEF UiReqs
<1>2. n.pc = m.pc /\ n.step = m.step /\ n.ses = m.ses /\ n.dir = m.dir /\ n.answer = m.answer /\ n.wrote = m.wrote
  BY SMT DEF UiReqs
<1> QED BY <1>1, <1>2

LEMMA UiCancel ==
  ASSUME NEW m \in UiReqs, NEW v \in BOOLEAN, NEW n, n = [m EXCEPT !.cancel = v]
  PROVE  /\ n \in UiReqs 
         /\ n.pc = m.pc /\ n.step = m.step /\ n.ses = m.ses /\ n.dir = m.dir /\ n.answer = m.answer /\ n.wrote = m.wrote
<1>1. n \in UiReqs BY SMT DEF UiReqs
<1>2. n.pc = m.pc /\ n.step = m.step /\ n.ses = m.ses /\ n.dir = m.dir /\ n.answer = m.answer /\ n.wrote = m.wrote
  BY SMT DEF UiReqs
<1> QED BY <1>1, <1>2

LEMMA NewUiFine ==
  /\ NewUiRequest \in UiReqs /\ NewUiRequest.pc = "new" /\ NewUiRequest.step = 1
  /\ NewUiRequest.answer = "none" /\ NewUiRequest.wrote = 0
<1>1. 1 \in 1..LastCall BY RemoteFilesAssumption, SMT DEF RemoteFilesAssumption
<1> QED BY <1>1, SMT DEF NewUiRequest, UiReqs, UiPcs, Dirs

\* What a request is at its end, before its next call, and when it tries again.
LEMMA EndedUi ==
  ASSUME NEW r \in UiRequests, request \in [UiRequests -> UiReqs], NEW n, n = ReqEnded(r)
  PROVE  /\ n \in UiReqs /\ n.pc = "end" /\ n.answer = "none" /\ n.wrote = request[r].wrote
<1>1. PICK m : m = [NewUiRequest EXCEPT !.pc = "end"] OBVIOUS
<1>2. m \in UiReqs /\ m.pc = "end" /\ m.answer = "none" BY <1>1, NewUiFine, UiPc DEF UiPcs
<1>3. PICK v \in 0..1 : v = request[r].wrote BY SMT DEF UiReqs
<1>4. n = [m EXCEPT !.wrote = v] BY <1>1, <1>3, Zenon DEF ReqEnded
<1> QED BY <1>2, <1>3, <1>4, UiWrote

LEMMA NextUi ==
  ASSUME NEW r \in UiRequests, request \in [UiRequests -> UiReqs], Reads(r), NEW n, n = NextCall(r)
  PROVE  /\ n \in UiReqs /\ n.pc = "next" /\ n.answer = "none" /\ n.wrote = request[r].wrote
<1>1. PICK m : m = [NewUiRequest EXCEPT !.pc = "next"] OBVIOUS
<1>2. m \in UiReqs /\ m.pc = "next" /\ m.answer = "none" BY <1>1, NewUiFine, UiPc DEF UiPcs
<1>3. PICK v \in 0..1 : v = request[r].wrote BY SMT DEF UiReqs
<1>4. PICK k \in 1..LastCall : k = request[r].step + 1
  <2>1. request[r].step \in 1..LastCall BY SMT DEF UiReqs
  <2>2. request[r].step + 1 \in 1..LastCall
    BY <2>1, RemoteFilesAssumption, SMT DEF Reads, RemoteFilesAssumption
  <2> QED BY <2>2
<1>5. PICK u : u = [m EXCEPT !.step = k] OBVIOUS
<1>6. u \in UiReqs /\ u.pc = "next" /\ u.answer = "none" BY <1>2, <1>4, <1>5, UiStep
<1>7. n = [u EXCEPT !.wrote = v] BY <1>1, <1>3, <1>4, <1>5, Zenon DEF NextCall
<1> QED BY <1>3, <1>6, <1>7, UiWrote
\* The sessions that requests use stay as they are, or die, when request r moves; the
\* cached one changes only under the lock.
LEMMA RequestsStep ==
  ASSUME FilesInv, NEW r \in UiRequests, NEW n, n \in UiReqs,
         request' = [request EXCEPT ![r] = n],
         \A w \in WorkerSessions : /\ session[w] # "none" => session'[w] # "none" /\ dirOf'[w] = dirOf[w]
                                   /\ session[w] = "dead" => session'[w] = "dead",
         cached' \in {cached, 0} \/ request[r].pc \in {"starting", "undoing"},
         n.pc \in {"calling", "undoing"} => n.ses # 0 /\ session'[n.ses] # "none",
         n.answer # "none" => n.pc = "calling",
         n.answer = "missing" => session'[n.ses] = "dead",
         n.wrote # 0 => \/ n.pc = "end"
                        \/ n.pc = "calling" /\ n.answer = "done" /\ n.step = LastCall,
         n.pc \in {"starting", "undoing"} =>
           /\ request[r].pc \in {"starting", "undoing"} \/ ~Locked
           /\ cached' # 0 => dirOf'[cached'] # n.dir,
         n.pc = "undoing" => dirOf'[n.ses] = n.dir
  PROVE  /\ request' \in [UiRequests -> UiReqs] /\ OneMaker'
         /\ \A q \in UiRequests : RequestFine(q)' /\ MakerFine(q)'
<1>1. /\ request \in [UiRequests -> UiReqs] /\ cached \in WorkerSessions \cup {0}
      /\ cached # 0 => session[cached] # "none"
      /\ \A q \in UiRequests : RequestFine(q) /\ MakerFine(q)
      /\ OneMaker
  BY DEF FilesInv, FilesTyped, KnownMade
<1>2. request' \in [UiRequests -> UiReqs] BY <1>1
<1>3. request'[r] = n /\ \A q \in UiRequests : q # r => request'[q] = request[q] BY <1>1
<1>4. OneMaker'
  <2> SUFFICES ASSUME NEW p \in UiRequests, NEW q \in UiRequests,
                      request'[p].pc \in {"starting", "undoing"},
                      request'[q].pc \in {"starting", "undoing"}
               PROVE  p = q
    BY DEF OneMaker
  <2>1. CASE p # r /\ q # r BY <1>1, <1>3, <2>1 DEF OneMaker
  <2>2. CASE p = r /\ q # r BY <1>1, <1>3, <2>2 DEF OneMaker, Locked
  <2>3. CASE p # r /\ q = r BY <1>1, <1>3, <2>3 DEF OneMaker, Locked
  <2> QED BY <2>1, <2>2, <2>3
<1>5. RequestFine(r)' BY <1>3 DEF RequestFine, Writes
<1>6. MakerFine(r)' BY <1>3 DEF MakerFine, CachedFor
<1>7. ASSUME NEW q \in UiRequests, q # r PROVE RequestFine(q)' /\ MakerFine(q)'
  <2>1. request'[q] = request[q] /\ request[q] \in UiReqs /\ RequestFine(q) /\ MakerFine(q)
    BY <1>1, <1>3, <1>7
  <2>2. request[q].ses \in WorkerSessions \cup {0} BY <2>1, SMT DEF UiReqs
  <2>6. request[q].pc \in {"calling", "undoing"} =>
          /\ request[q].ses \in WorkerSessions /\ session[request[q].ses] # "none"
          /\ session'[request[q].ses] # "none"
    BY <2>1, <2>2 DEF RequestFine
  <2>7. request[q].answer = "missing" => session'[request[q].ses] = "dead"
    BY <2>1, <2>6 DEF RequestFine
  <2>3. RequestFine(q)' BY <2>1, <2>6, <2>7 DEF RequestFine, Writes
  <2>4. CASE request[q].pc \notin {"starting", "undoing"} BY <2>1, <2>3, <2>4 DEF MakerFine
  <2>5. CASE request[q].pc \in {"starting", "undoing"}
    <3>1. cached' \in {cached, 0} BY <1>1, <1>7, <2>5 DEF OneMaker
    <3>2. ~CachedFor(request[q].dir) BY <2>1, <2>5 DEF MakerFine
    <3>3. cached' # 0 => dirOf'[cached'] = dirOf[cached] BY <1>1, <3>1
    <3>4. ~(cached' # 0 /\ dirOf'[cached'] = request[q].dir) BY <3>1, <3>2, <3>3 DEF CachedFor
    <3>5. request[q].pc = "undoing" => dirOf'[request[q].ses] = request[q].dir
      BY <2>1, <2>6 DEF MakerFine
    <3>6. MakerFine(q)' BY <2>1, <3>4, <3>5 DEF MakerFine, CachedFor
    <3> QED BY <2>3, <3>6
  <2> QED BY <2>3, <2>4, <2>5
<1> QED BY <1>2, <1>4, <1>5, <1>6, <1>7

\* A request moves, the registry and the worker stay.
LEMMA QuietRequest ==
  ASSUME FilesInv, NEW r \in UiRequests, NEW n, n \in UiReqs,
         request' = [request EXCEPT ![r] = n], UNCHANGED <<registryVars, workerVars>>,
         request[r].pc # "undoing", n.pc # "undoing",
         n.pc = "calling" => n.ses # 0 /\ session[n.ses] # "none",
         n.answer # "none" => n.pc = "calling",
         n.answer = "missing" => session[n.ses] = "dead",
         n.wrote # 0 => \/ n.pc = "end"
                        \/ n.pc = "calling" /\ n.answer = "done" /\ n.step = LastCall,
         n.pc = "starting" => ~Locked /\ ~CachedFor(n.dir),
         request[r].pc \in {"new", "end"} => n.pc = "end" \/ filesGate = "open"
  PROVE  FilesInv'
<1>1. FilesTyped /\ KnownMade /\ GateFine /\ NoSessionForgotten /\ ClosedIsQuiet
  BY DEF FilesInv
<1>2. UNCHANGED <<cached, retired, ending, filesGate, session, dirOf, strays, machine>>
  BY DEF registryVars, workerVars
<1>3. /\ request' \in [UiRequests -> UiReqs] /\ OneMaker'
      /\ \A q \in UiRequests : RequestFine(q)' /\ MakerFine(q)'
  BY <1>2, RequestsStep DEF CachedFor
<1>4. FilesTyped' BY <1>1, <1>2, <1>3 DEF FilesTyped
<1>5. KnownMade' /\ GateFine' BY <1>1, <1>2 DEF KnownMade, GateFine
<1>6. \A q \in UiRequests : q # r => request'[q] = request[q] BY <1>1 DEF FilesTyped
<1>7. request'[r] = n BY <1>1 DEF FilesTyped
<1>8. Held' = Held BY <1>2, <1>6, <1>7 DEF Held, ReqAt
<1>9. NoSessionForgotten' BY <1>1, <1>2, <1>8 DEF NoSessionForgotten
<1>10. ClosedIsQuiet' BY <1>1, <1>2, <1>6, <1>7 DEF ClosedIsQuiet
<1> QED BY <1>3, <1>4, <1>5, <1>9, <1>10 DEF FilesInv

\* The end of a request that holds no session of its own.
LEMMA QuietEnd ==
  ASSUME FilesInv, NEW r \in UiRequests, ReqEnds(r), request[r].pc # "undoing",
         UNCHANGED <<registryVars, workerVars>>
  PROVE  FilesInv'
<1>1. request \in [UiRequests -> UiReqs] BY DEF FilesInv, FilesTyped
<1>2. PICK n : n = ReqEnded(r) OBVIOUS
<1>3. n \in UiReqs /\ n.pc = "end" /\ n.answer = "none" BY <1>1, <1>2, EndedUi
<1>4. request' = [request EXCEPT ![r] = n] BY <1>2 DEF ReqEnds
<1> QED BY <1>3, <1>4, QuietRequest

\* The actions of a request that leave the registry and the worker alone.
LEMMA QuietRequests ==
  ASSUME FilesInv, NEW r \in UiRequests,
         \/ BeginCall(r) \/ Seek(r) \/ Lock(r) \/ WorkerRuns(r) \/ Answered(r) \/ CallFails(r)
         \/ Cancelled(r)
  PROVE  FilesInv'
<1>1. /\ request \in [UiRequests -> UiReqs] /\ request[r] \in UiReqs /\ RequestFine(r)
      /\ cached \in WorkerSessions \cup {0}
      /\ cached # 0 => session[cached] # "none"
      /\ session \in [WorkerSessions -> {"none", "live", "dead"}]
      /\ machine \in [online : BOOLEAN, dir : Dirs] /\ filesGate # "none"
  BY DEF FilesInv, FilesTyped, KnownMade
<1>2. /\ request[r].ses \in WorkerSessions \cup {0} /\ machine.dir \in Dirs
      /\ request[r].wrote \in 0..1 /\ request[r].answer \in {"none", "done", "missing"}
  BY <1>1, SMT DEF UiReqs
<1>3. CASE BeginCall(r)
  <2>1. CASE filesGate = "open"
    <3>1. PICK n : n = [request[r] EXCEPT !.pc = "seeking"] OBVIOUS
    <3>2. n \in UiReqs /\ n.pc = "seeking" /\ n.answer = request[r].answer /\ n.wrote = request[r].wrote
      BY <1>1, <3>1, UiPc DEF UiPcs
    <3>3. request[r].answer = "none" /\ request[r].wrote = 0
      BY <1>1, <1>3 DEF RequestFine, BeginCall, ReqAt
    <3>4. request' = [request EXCEPT ![r] = n] /\ UNCHANGED <<registryVars, workerVars>>
      BY <1>1, <1>3, <2>1, <3>1 DEF BeginCall, ReqGoes
    <3>5. request[r].pc # "undoing" BY <1>3 DEF BeginCall, ReqAt
    <3> QED BY <2>1, <3>2, <3>3, <3>4, <3>5, QuietRequest
  <2>2. CASE filesGate # "open" BY <1>3, <2>2, QuietEnd DEF BeginCall, ReqAt
  <2> QED BY <2>1, <2>2
<1>4. ASSUME NEW n, n \in UiReqs, request' = [request EXCEPT ![r] = n], n.pc = "calling",
             n.ses = cached, cached # 0, n.answer = request[r].answer, n.wrote = request[r].wrote,
             UNCHANGED <<registryVars, workerVars>>, request[r].pc \in {"seeking", "locking"}
      PROVE  FilesInv'
  <2>1. n.answer = "none" /\ n.wrote = 0 BY <1>1, <1>4 DEF RequestFine
  <2>2. n.ses # 0 /\ session[n.ses] # "none" BY <1>1, <1>4
  <2>3. request[r].pc \notin {"undoing", "new", "end"} BY <1>4
  <2> QED BY <1>4, <2>1, <2>2, <2>3, QuietRequest
<1>5. CASE Seek(r)
  <2>1. CASE CachedFor(machine.dir)
    <3>1. PICK m : m = [request[r] EXCEPT !.pc = "calling"] OBVIOUS
    <3>2. /\ m \in UiReqs /\ m.pc = "calling" /\ m.answer = request[r].answer
          /\ m.wrote = request[r].wrote
      BY <1>1, <3>1, UiPc DEF UiPcs
    <3>7. PICK c \in WorkerSessions \cup {0} : c = cached BY <1>1
    <3>3. PICK n : n = [m EXCEPT !.ses = c] OBVIOUS
    <3>4. /\ n \in UiReqs /\ n.pc = "calling" /\ n.answer = request[r].answer
          /\ n.wrote = request[r].wrote /\ n.ses = cached
      BY <3>2, <3>3, <3>7, UiSes
    <3>5. n = [request[r] EXCEPT !.pc = "calling", !.ses = cached] BY <3>1, <3>3, <3>7, Zenon
    <3>6. request' = [request EXCEPT ![r] = [request[r] EXCEPT !.pc = "calling", !.ses = cached]]
      BY <1>1, <1>5, <2>1, Zenon DEF Seek
    <3> QED BY <1>4, <1>5, <2>1, <3>4, <3>5, <3>6 DEF Seek, ReqAt, CachedFor
  <2>2. CASE ~CachedFor(machine.dir)
    <3>1. PICK m : m = [request[r] EXCEPT !.pc = "locking"] OBVIOUS
    <3>2. /\ m \in UiReqs /\ m.pc = "locking" /\ m.answer = request[r].answer
          /\ m.wrote = request[r].wrote
      BY <1>1, <3>1, UiPc DEF UiPcs
    <3>3. PICK n : n = [m EXCEPT !.dir = machine.dir] OBVIOUS
    <3>4. /\ n \in UiReqs /\ n.pc = "locking" /\ n.answer = request[r].answer
          /\ n.wrote = request[r].wrote
      BY <1>2, <3>2, <3>3, UiDir
    <3>5. n = [request[r] EXCEPT !.pc = "locking", !.dir = machine.dir] BY <3>1, <3>3, Zenon
    <3>6. request' = [request EXCEPT ![r] = [request[r] EXCEPT !.pc = "locking", !.dir = machine.dir]]
      BY <1>1, <1>5, <2>2, Zenon DEF Seek
    <3>7. request[r].pc = "seeking" /\ UNCHANGED <<registryVars, workerVars>>
      BY <1>5 DEF Seek, ReqAt
    <3>8. n.answer = "none" /\ n.wrote = 0 BY <1>1, <3>4, <3>7 DEF RequestFine
    <3> QED BY <3>4, <3>5, <3>6, <3>7, <3>8, QuietRequest
  <2> QED BY <2>1, <2>2
<1>6. CASE Lock(r)
  <2>0. /\ request[r].pc = "locking" /\ ~Locked /\ UNCHANGED <<registryVars, workerVars>>
    BY <1>6 DEF Lock, ReqAt
  <2>1. CASE filesGate # "open" BY <1>6, <2>0, <2>1, QuietEnd DEF Lock
  <2>2. CASE filesGate = "open" /\ CachedFor(request[r].dir)
    <3>1. PICK m : m = [request[r] EXCEPT !.pc = "calling"] OBVIOUS
    <3>2. /\ m \in UiReqs /\ m.pc = "calling" /\ m.answer = request[r].answer
          /\ m.wrote = request[r].wrote
      BY <1>1, <3>1, UiPc DEF UiPcs
    <3>7. PICK c \in WorkerSessions \cup {0} : c = cached BY <1>1
    <3>3. PICK n : n = [m EXCEPT !.ses = c] OBVIOUS
    <3>4. /\ n \in UiReqs /\ n.pc = "calling" /\ n.answer = request[r].answer
          /\ n.wrote = request[r].wrote /\ n.ses = cached
      BY <3>2, <3>3, <3>7, UiSes
    <3>5. n = [request[r] EXCEPT !.pc = "calling", !.ses = cached] BY <3>1, <3>3, <3>7, Zenon
    <3>6. request' = [request EXCEPT ![r] = [request[r] EXCEPT !.pc = "calling", !.ses = cached]]
      BY <1>1, <1>6, <2>2, Zenon DEF Lock, CachedNow
    <3> QED BY <1>4, <2>0, <2>2, <3>4, <3>5, <3>6 DEF CachedFor
  <2>3. CASE filesGate = "open" /\ ~CachedFor(request[r].dir)
    <3>1. PICK n : n = [request[r] EXCEPT !.pc = "starting"] OBVIOUS
    <3>2. /\ n \in UiReqs /\ n.pc = "starting" /\ n.answer = request[r].answer
          /\ n.wrote = request[r].wrote /\ n.dir = request[r].dir
      BY <1>1, <3>1, UiPc DEF UiPcs
    <3>3. request' = [request EXCEPT ![r] = n]
      BY <1>1, <1>6, <2>3, <3>1 DEF Lock, CachedNow, ReqGoes
    <3>4. n.answer = "none" /\ n.wrote = 0 BY <1>1, <2>0, <3>2 DEF RequestFine
    <3> QED BY <2>0, <2>3, <3>2, <3>3, <3>4, QuietRequest
  <2> QED BY <2>1, <2>2, <2>3
<1>7. CASE WorkerRuns(r)
  <2>0. /\ request[r].pc = "calling" /\ request[r].answer = "none" /\ request[r].ses # 0
        /\ session[request[r].ses] # "none"
        /\ request[r].wrote = 0 /\ UNCHANGED <<registryVars, workerVars>>
    BY <1>1, <1>7 DEF WorkerRuns, ReqAt, RequestFine
  <2>1. CASE session[request[r].ses] = "live"
    <3>1. PICK m : m = [request[r] EXCEPT !.answer = "done"] OBVIOUS
    <3>2. /\ m \in UiReqs /\ m.pc = "calling" /\ m.answer = "done" /\ m.ses = request[r].ses
          /\ m.step = request[r].step /\ m.wrote = 0
      BY <1>1, <2>0, <3>1, UiAnswer
    <3>3. PICK v \in 0..1 : v = IF Writes(r) THEN request[r].wrote + 1 ELSE request[r].wrote
      BY <2>0
    <3>4. PICK n : n = [m EXCEPT !.wrote = v] OBVIOUS
    <3>5. /\ n \in UiReqs /\ n.pc = "calling" /\ n.answer = "done" /\ n.ses = request[r].ses
          /\ n.step = request[r].step /\ n.wrote = v
      BY <3>2, <3>3, <3>4, UiWrote
    <3>6. n = [request[r] EXCEPT !.answer = "done", !.wrote = IF Writes(r) THEN @ + 1 ELSE @]
      BY <3>1, <3>3, <3>4, Zenon
    <3>7. request' = [request EXCEPT ![r] =
                       [request[r] EXCEPT !.answer = "done", !.wrote = IF Writes(r) THEN @ + 1 ELSE @]]
      BY <1>1, <1>7, <2>1, Zenon DEF WorkerRuns
    <3>8. n.wrote # 0 => n.step = LastCall BY <2>0, <3>3, <3>5 DEF Writes
    <3> QED BY <2>0, <3>5, <3>6, <3>7, <3>8, QuietRequest, ZenonT(40)
  <2>2. CASE session[request[r].ses] # "live"
    <3>1. PICK n : n = [request[r] EXCEPT !.answer = "missing"] OBVIOUS
    <3>2. /\ n \in UiReqs /\ n.pc = "calling" /\ n.answer = "missing" /\ n.ses = request[r].ses
          /\ n.wrote = 0
      BY <1>1, <2>0, <3>1, UiAnswer
    <3>3. request' = [request EXCEPT ![r] = n] BY <1>1, <1>7, <2>2, <3>1 DEF WorkerRuns
    <3>4. session[request[r].ses] = "dead" BY <1>1, <1>2, <2>0, <2>2
    <3> QED BY <2>0, <3>2, <3>3, <3>4, QuietRequest
  <2> QED BY <2>1, <2>2
<1>8. CASE Answered(r)
  <2>0. request[r].pc = "calling" /\ request[r].answer = "done" /\ UNCHANGED <<registryVars, workerVars>>
    BY <1>8 DEF Answered, ReqAt
  <2>1. CASE Reads(r) /\ request' = [request EXCEPT ![r] = NextCall(r)]
    <3>1. PICK n : n = NextCall(r) OBVIOUS
    <3>2. n \in UiReqs /\ n.pc = "next" /\ n.answer = "none" /\ n.wrote = request[r].wrote
      BY <1>1, <2>1, <3>1, NextUi
    <3>3. ~Writes(r) BY <1>1, <2>1, RemoteFilesAssumption, SMT
      DEF Reads, Writes, UiReqs, RemoteFilesAssumption
    <3>4. n.wrote = 0 BY <1>1, <2>0, <3>2, <3>3 DEF RequestFine
    <3> QED BY <2>0, <2>1, <3>1, <3>2, <3>4, QuietRequest
  <2>2. CASE ReqEnds(r) BY <2>0, <2>2, QuietEnd
  <2> QED BY <1>8, <2>1, <2>2 DEF Answered
<1>9. CASE CallFails(r) BY <1>9, QuietEnd DEF CallFails, ReqAt
<1>10. CASE Cancelled(r)
  <2>1. request[r].pc # "undoing" /\ ReqEnds(r) /\ UNCHANGED <<registryVars, workerVars>>
    BY <1>10 DEF Cancelled
  <2> QED BY <2>1, QuietEnd
<1> QED BY <1>3, <1>5, <1>6, <1>7, <1>8, <1>9, <1>10
\* The worker is gone: its cached session is given up.
LEMMA OfflineStep == ASSUME FilesInv, NEW r \in UiRequests, Offline(r) PROVE FilesInv'
<1>1. FilesTyped /\ KnownMade /\ GateFine /\ NoSessionForgotten /\ ClosedIsQuiet
  BY DEF FilesInv
<1>2. /\ request[r].pc = "seeking" /\ ReqEnds(r) /\ cached' = 0
      /\ strays' = strays \cup ({cached} \ {0})
      /\ UNCHANGED <<retired, ending, filesGate, session, dirOf, machine>>
  BY DEF Offline, ReqAt
<1>3. request \in [UiRequests -> UiReqs] BY <1>1 DEF FilesTyped
<1>4. PICK n : n = ReqEnded(r) OBVIOUS
<1>5. n \in UiReqs /\ n.pc = "end" /\ n.answer = "none" BY <1>3, <1>4, EndedUi
<1>6. request' = [request EXCEPT ![r] = n] BY <1>2, <1>4 DEF ReqEnds
<1>7. /\ request' \in [UiRequests -> UiReqs] /\ OneMaker'
      /\ \A q \in UiRequests : RequestFine(q)' /\ MakerFine(q)'
  BY <1>2, <1>5, <1>6, RequestsStep
<1>8. FilesTyped' BY <1>1, <1>2, <1>7 DEF FilesTyped
<1>9. KnownMade' BY <1>1, <1>2 DEF KnownMade
<1>10. GateFine' BY <1>1, <1>2 DEF GateFine
<1>11. /\ request'[r] = n
       /\ \A q \in UiRequests : q # r => request'[q] = request[q]
  BY <1>3, <1>6
<1>12. Held' \cup strays' = Held \cup strays BY <1>2, <1>5, <1>11 DEF Held, ReqAt
<1>13. Held' \subseteq Held BY <1>2, <1>5, <1>11 DEF Held, ReqAt
<1>14. 0 \notin retired \cup ending BY <1>1, SMT DEF FilesTyped, WorkerSessions
<1>15. NoSessionForgotten' BY <1>1, <1>2, <1>12, <1>13, <1>14 DEF NoSessionForgotten
<1>16. ClosedIsQuiet' BY <1>1, <1>2, <1>5, <1>11 DEF ClosedIsQuiet
<1> QED BY <1>7, <1>8, <1>9, <1>10, <1>15, <1>16 DEF FilesInv

\* The worker has made a session; nobody knew of it before.
LEMMA SessionMadeStep == ASSUME FilesInv, NEW r \in UiRequests, SessionMade(r) PROVE FilesInv'
<1>1. FilesTyped /\ KnownMade /\ GateFine /\ NoSessionForgotten /\ ClosedIsQuiet /\ RequestFine(r)
  BY DEF FilesInv
<1>2. PICK s : s = NextSession OBVIOUS
<1>3. s \in WorkerSessions /\ session[s] = "none"
  BY <1>2 DEF SessionMade, CanMake, NextSession, Unmade
<1>4. /\ request[r].pc = "starting" /\ session' = [session EXCEPT ![s] = "live"]
      /\ dirOf' = [dirOf EXCEPT ![s] = request[r].dir]
      /\ UNCHANGED <<ending, filesGate, strays, machine>>
  BY <1>2 DEF SessionMade, ReqAt
<1>5. /\ request \in [UiRequests -> UiReqs] /\ request[r] \in UiReqs
      /\ session \in [WorkerSessions -> {"none", "live", "dead"}]
      /\ dirOf \in [WorkerSessions -> Dirs]
  BY <1>1 DEF FilesTyped
<1>6. request[r].dir \in Dirs /\ request[r].answer = "none" /\ request[r].wrote = 0
  BY <1>1, <1>4, <1>5, SMT DEF UiReqs, RequestFine
<1>7. /\ session' \in [WorkerSessions -> {"none", "live", "dead"}]
      /\ dirOf' \in [WorkerSessions -> Dirs] /\ dirOf'[s] = request[r].dir /\ session'[s] = "live"
      /\ \A w \in WorkerSessions : w # s => session'[w] = session[w] /\ dirOf'[w] = dirOf[w]
  BY <1>3, <1>4, <1>5, <1>6
<1>8. \A w \in WorkerSessions :
        /\ session[w] # "none" => session'[w] # "none" /\ dirOf'[w] = dirOf[w]
        /\ session[w] = "dead" => session'[w] = "dead"
  BY <1>3, <1>7
<1>9. s # 0 BY <1>3, SMT DEF WorkerSessions
<1>10. s \notin retired \cup ending \cup strays /\ cached # s BY <1>1, <1>3, <1>9 DEF KnownMade
<1>11. ASSUME NEW p \in {"calling", "undoing"}, NEW n, n = [request[r] EXCEPT !.pc = p, !.ses = s]
       PROVE  /\ n \in UiReqs /\ n.pc = p /\ n.ses = s /\ n.answer = "none" /\ n.wrote = 0
              /\ n.dir = request[r].dir
  <2>1. PICK m : m = [request[r] EXCEPT !.pc = p] OBVIOUS
  <2>2. /\ m \in UiReqs /\ m.pc = p /\ m.answer = "none" /\ m.wrote = 0
        /\ m.dir = request[r].dir
    BY <1>5, <1>6, <2>1, UiPc DEF UiPcs
  <2>3. n = [m EXCEPT !.ses = s] BY <1>11, <2>1, Zenon
  <2> QED BY <1>3, <2>2, <2>3, UiSes
<1>12. CASE filesGate = "open"
  <2>1. PICK n : n = [request[r] EXCEPT !.pc = "calling", !.ses = s] OBVIOUS
  <2>2. /\ n \in UiReqs /\ n.pc = "calling" /\ n.ses = s /\ n.answer = "none" /\ n.wrote = 0
    BY <1>11, <2>1
  <2>3. request' = [request EXCEPT ![r] = [request[r] EXCEPT !.pc = "calling", !.ses = s]]
    BY <1>2, <1>5, <1>12, Zenon DEF SessionMade
  <2>4. cached' = s /\ retired' = retired \cup ({cached} \ {0})
    BY <1>2, <1>12 DEF SessionMade, RetireReplaced
  <2>5. request' = [request EXCEPT ![r] = n] BY <2>1, <2>3
  <2>6. /\ request' \in [UiRequests -> UiReqs] /\ OneMaker'
        /\ \A q \in UiRequests : RequestFine(q)' /\ MakerFine(q)'
    BY <1>4, <1>7, <1>8, <1>9, <2>2, <2>5, RequestsStep
  <2>7. /\ request'[r] = n
        /\ \A q \in UiRequests : q # r => request'[q] = request[q]
    BY <1>5, <2>5
  <2>8. FilesTyped' BY <1>1, <1>3, <1>4, <1>7, <2>4, <2>6 DEF FilesTyped
  <2>9. KnownMade' BY <1>1, <1>3, <1>4, <1>7, <2>4 DEF KnownMade, FilesTyped
  <2>10. GateFine' BY <1>1, <1>4, <1>12 DEF GateFine
  <2>11. Held' = Held \cup {s} BY <1>4, <1>9, <2>2, <2>4, <2>7 DEF Held, ReqAt
  <2>12. NoSessionForgotten'
    BY <1>1, <1>4, <1>7, <1>10, <1>12, <2>4, <2>11 DEF NoSessionForgotten
  <2>13. ClosedIsQuiet' BY <1>4, <1>12 DEF ClosedIsQuiet
  <2> QED BY <2>6, <2>8, <2>9, <2>10, <2>12, <2>13 DEF FilesInv
<1>13. CASE filesGate # "open"
  <2>1. PICK n : n = [request[r] EXCEPT !.pc = "undoing", !.ses = s] OBVIOUS
  <2>2. /\ n \in UiReqs /\ n.pc = "undoing" /\ n.ses = s /\ n.answer = "none" /\ n.wrote = 0
        /\ n.dir = request[r].dir
    BY <1>11, <2>1
  <2>3. request' = [request EXCEPT ![r] = [request[r] EXCEPT !.pc = "undoing", !.ses = s]]
    BY <1>2, <1>5, <1>13, Zenon DEF SessionMade
  <2>4. cached' = cached /\ retired' = retired BY <1>2, <1>13 DEF SessionMade
  <2>5. request' = [request EXCEPT ![r] = n] BY <2>1, <2>3
  <2>14. cached' # 0 => dirOf'[cached'] # n.dir
    <3>1. ~CachedFor(request[r].dir) BY <1>4 DEF FilesInv, MakerFine
    <3>2. cached \in WorkerSessions \cup {0} BY <1>1 DEF FilesTyped
    <3> QED BY <1>7, <1>10, <2>2, <2>4, <3>1, <3>2 DEF CachedFor
  <2>15. dirOf'[n.ses] = n.dir BY <1>7, <2>2
  <2>6. /\ request' \in [UiRequests -> UiReqs] /\ OneMaker'
        /\ \A q \in UiRequests : RequestFine(q)' /\ MakerFine(q)'
    BY <1>4, <1>7, <1>8, <1>9, <2>2, <2>4, <2>5, <2>14, <2>15, RequestsStep
  <2>7. /\ request'[r] = n
        /\ \A q \in UiRequests : q # r => request'[q] = request[q]
    BY <1>5, <2>5
  <2>8. FilesTyped' BY <1>1, <1>3, <1>4, <1>7, <2>4, <2>6 DEF FilesTyped
  <2>9. KnownMade' BY <1>1, <1>3, <1>4, <1>7, <2>4 DEF KnownMade, FilesTyped
  <2>10. GateFine' BY <1>1, <1>4, <2>4 DEF GateFine
  <2>11. Held' = Held \cup {s}
    <3>1. {request'[q].ses : q \in {p \in UiRequests : request'[p].pc = "undoing"}}
          = {request[q].ses : q \in {p \in UiRequests : request[p].pc = "undoing"}} \cup {s}
      BY <1>4, <2>2, <2>7
    <3> QED BY <1>4, <2>4, <3>1 DEF Held, ReqAt
  <2>16. filesGate \notin {"closed", "ending"} BY <1>1, <1>4 DEF ClosedIsQuiet
  <2>12. NoSessionForgotten'
    BY <1>1, <1>4, <1>7, <1>10, <2>4, <2>11, <2>16 DEF NoSessionForgotten
  <2>13. ClosedIsQuiet' BY <1>4, <2>16 DEF ClosedIsQuiet
  <2> QED BY <2>6, <2>8, <2>9, <2>10, <2>12, <2>13 DEF FilesInv
<1> QED BY <1>12, <1>13

\* A session that was made for a call which failed is a stray.
LEMMA MakingFailsStep == ASSUME FilesInv, NEW r \in UiRequests, MakingFails(r) PROVE FilesInv'
<1>1. FilesTyped /\ KnownMade /\ GateFine /\ NoSessionForgotten /\ ClosedIsQuiet
  BY DEF FilesInv
<1>2. request[r].pc = "starting" /\ ReqEnds(r) /\ UNCHANGED registryVars
  BY DEF MakingFails, ReqAt
<1>3. CASE UNCHANGED workerVars BY <1>2, <1>3, QuietEnd
<1>4. CASE /\ CanMake /\ session' = [session EXCEPT ![NextSession] = "live"]
           /\ dirOf' = [dirOf EXCEPT ![NextSession] = request[r].dir]
           /\ strays' = strays \cup {NextSession} /\ UNCHANGED machine
  <2>1. PICK s : s = NextSession OBVIOUS
  <2>2. s \in WorkerSessions /\ session[s] = "none" BY <1>4, <2>1 DEF CanMake, NextSession, Unmade
  <2>3. /\ request \in [UiRequests -> UiReqs] /\ request[r] \in UiReqs
        /\ session \in [WorkerSessions -> {"none", "live", "dead"}]
        /\ dirOf \in [WorkerSessions -> Dirs]
    BY <1>1 DEF FilesTyped
  <2>4. request[r].dir \in Dirs BY <2>3, SMT DEF UiReqs
  <2>5. /\ session' \in [WorkerSessions -> {"none", "live", "dead"}]
        /\ dirOf' \in [WorkerSessions -> Dirs] /\ session'[s] = "live"
        /\ \A w \in WorkerSessions : w # s => session'[w] = session[w] /\ dirOf'[w] = dirOf[w]
    BY <1>4, <2>1, <2>2, <2>3, <2>4
  <2>6. \A w \in WorkerSessions :
          /\ session[w] # "none" => session'[w] # "none" /\ dirOf'[w] = dirOf[w]
          /\ session[w] = "dead" => session'[w] = "dead"
    BY <2>2, <2>5
  <2>7. PICK n : n = ReqEnded(r) OBVIOUS
  <2>8. n \in UiReqs /\ n.pc = "end" /\ n.answer = "none" BY <2>3, <2>7, EndedUi
  <2>9. request' = [request EXCEPT ![r] = n] BY <1>2, <2>7 DEF ReqEnds
  <2>10. UNCHANGED <<cached, retired, ending, filesGate, machine>> /\ strays' = strays \cup {s}
    BY <1>2, <1>4, <2>1 DEF registryVars
  <2>11. /\ request' \in [UiRequests -> UiReqs] /\ OneMaker'
         /\ \A q \in UiRequests : RequestFine(q)' /\ MakerFine(q)'
    BY <2>6, <2>8, <2>9, <2>10, RequestsStep
  <2>12. /\ request'[r] = n
         /\ \A q \in UiRequests : q # r => request'[q] = request[q]
    BY <2>3, <2>9
  <2>13. FilesTyped' BY <1>1, <2>2, <2>5, <2>10, <2>11 DEF FilesTyped
  <2>14. KnownMade' BY <1>1, <2>2, <2>5, <2>10 DEF KnownMade, FilesTyped
  <2>15. GateFine' BY <1>1, <2>10 DEF GateFine
  <2>16. Held' = Held BY <1>2, <2>8, <2>10, <2>12 DEF Held, ReqAt
  <2>17. NoSessionForgotten' BY <1>1, <2>5, <2>10, <2>16 DEF NoSessionForgotten
  <2>18. ClosedIsQuiet' BY <1>1, <2>8, <2>10, <2>12 DEF ClosedIsQuiet
  <2> QED BY <2>11, <2>13, <2>14, <2>15, <2>17, <2>18 DEF FilesInv
<1> QED BY <1>3, <1>4 DEF MakingFails

\* A session dies, or becomes a stray, and is no longer held.
LEMMA SessionLeaves ==
  ASSUME FilesInv, NEW w \in WorkerSessions, session[w] # "none",
         \/ session' = [session EXCEPT ![w] = "dead"] /\ UNCHANGED strays
         \/ strays' = strays \cup {w} /\ UNCHANGED session,
         UNCHANGED <<dirOf, machine>>
  PROVE  /\ session' \in [WorkerSessions -> {"none", "live", "dead"}]
         /\ strays' \in SUBSET WorkerSessions
         /\ \A v \in WorkerSessions :
              /\ session[v] # "none" => session'[v] # "none" /\ dirOf'[v] = dirOf[v]
              /\ session[v] = "dead" => session'[v] = "dead"
              /\ session'[v] = "live" => session[v] = "live"
         /\ session'[w] = "live" => w \in strays'
         /\ strays \subseteq strays' /\ \A v \in strays' : session'[v] # "none"
<1>1. /\ session \in [WorkerSessions -> {"none", "live", "dead"}] /\ strays \in SUBSET WorkerSessions
      /\ \A v \in strays : session[v] # "none"
  BY DEF FilesInv, FilesTyped, KnownMade
<1> QED BY <1>1

LEMMA UndoneStep == ASSUME FilesInv, NEW r \in UiRequests, Undone(r) PROVE FilesInv'
<1>1. FilesTyped /\ KnownMade /\ GateFine /\ NoSessionForgotten /\ ClosedIsQuiet /\ RequestFine(r)
  BY DEF FilesInv
<1>2. /\ request[r].pc = "undoing" /\ ReqEnds(r) /\ UNCHANGED registryVars
      /\ UNCHANGED <<dirOf, machine>>
  BY DEF Undone, ReqAt
<1>3. request \in [UiRequests -> UiReqs] /\ request[r] \in UiReqs BY <1>1 DEF FilesTyped
<1>4. PICK s : s = request[r].ses OBVIOUS
<1>5. s \in WorkerSessions \cup {0} BY <1>3, <1>4, SMT DEF UiReqs
<1>6. s \in WorkerSessions /\ session[s] # "none" BY <1>1, <1>2, <1>4, <1>5 DEF RequestFine
<1>7. \/ session' = [session EXCEPT ![s] = "dead"] /\ UNCHANGED strays
      \/ strays' = strays \cup {s} /\ UNCHANGED session
  BY <1>4 DEF Undone
<1>8. /\ session' \in [WorkerSessions -> {"none", "live", "dead"}]
      /\ strays' \in SUBSET WorkerSessions
      /\ \A v \in WorkerSessions :
           /\ session[v] # "none" => session'[v] # "none" /\ dirOf'[v] = dirOf[v]
           /\ session[v] = "dead" => session'[v] = "dead"
           /\ session'[v] = "live" => session[v] = "live"
      /\ session'[s] = "live" => s \in strays'
      /\ strays \subseteq strays'
      /\ \A v \in strays' : session'[v] # "none"
  BY <1>2, <1>6, <1>7, SessionLeaves
<1>9. PICK n : n = ReqEnded(r) OBVIOUS
<1>10. n \in UiReqs /\ n.pc = "end" /\ n.answer = "none" BY <1>3, <1>9, EndedUi
<1>11. request' = [request EXCEPT ![r] = n] BY <1>2, <1>9 DEF ReqEnds
<1>12. UNCHANGED <<cached, retired, ending, filesGate>> BY <1>2 DEF registryVars
<1>13. /\ request' \in [UiRequests -> UiReqs] /\ OneMaker'
       /\ \A q \in UiRequests : RequestFine(q)' /\ MakerFine(q)'
  BY <1>8, <1>10, <1>11, <1>12, RequestsStep
<1>14. /\ request'[r] = n
       /\ \A q \in UiRequests : q # r => request'[q] = request[q]
  BY <1>3, <1>11
<1>15. FilesTyped' BY <1>1, <1>2, <1>8, <1>12, <1>13 DEF FilesTyped
<1>16. KnownMade' BY <1>1, <1>8, <1>12 DEF KnownMade, FilesTyped
<1>17. GateFine' BY <1>1, <1>12 DEF GateFine
<1>18. Held' \subseteq Held /\ Held \subseteq Held' \cup {s}
  <2>1. {request'[q].ses : q \in {p \in UiRequests : request'[p].pc = "undoing"}}
        \subseteq {request[q].ses : q \in {p \in UiRequests : request[p].pc = "undoing"}}
    BY <1>10, <1>14
  <2>2. {request[q].ses : q \in {p \in UiRequests : request[p].pc = "undoing"}}
        \subseteq {request'[q].ses : q \in {p \in UiRequests : request'[p].pc = "undoing"}} \cup {s}
    BY <1>4, <1>14
  <2> QED BY <1>12, <2>1, <2>2 DEF Held, ReqAt
<1>19. NoSessionForgotten' BY <1>1, <1>8, <1>12, <1>18 DEF NoSessionForgotten
<1>20. ClosedIsQuiet' BY <1>1, <1>10, <1>12, <1>14 DEF ClosedIsQuiet
<1> QED BY <1>13, <1>15, <1>16, <1>17, <1>19, <1>20 DEF FilesInv

\* The worker does not know the session of a call: it is dead, and forgotten.
LEMMA CallAgainStep == ASSUME FilesInv, NEW r \in UiRequests, CallAgain(r) PROVE FilesInv'
<1>1. FilesTyped /\ KnownMade /\ GateFine /\ NoSessionForgotten /\ ClosedIsQuiet /\ RequestFine(r)
  BY DEF FilesInv
<1>2. /\ request[r].pc = "calling" /\ request[r].answer = "missing"
      /\ cached' = IF cached = request[r].ses THEN 0 ELSE cached
      /\ UNCHANGED <<retired, ending, filesGate, session, dirOf, strays, machine>>
  BY DEF CallAgain, ReqAt, TryAgain, ForgetOnly, workerVars
<1>3. request \in [UiRequests -> UiReqs] /\ request[r] \in UiReqs BY <1>1 DEF FilesTyped
<1>4. session[request[r].ses] = "dead" /\ request[r].wrote = 0 BY <1>1, <1>2 DEF RequestFine
<1>5. PICK yes \in BOOLEAN : yes = TRUE OBVIOUS
<1>6. PICK m1 : m1 = [request[r] EXCEPT !.pc = "next"] OBVIOUS
<1>7. m1 \in UiReqs /\ m1.pc = "next" /\ m1.wrote = 0 BY <1>3, <1>4, <1>6, UiPc DEF UiPcs
<1>8. PICK m2 : m2 = [m1 EXCEPT !.answer = "none"] OBVIOUS
<1>9. m2 \in UiReqs /\ m2.pc = "next" /\ m2.wrote = 0 /\ m2.answer = "none"
  BY <1>7, <1>8, UiAnswer
<1>10. PICK m3 : m3 = [m2 EXCEPT !.again = yes] OBVIOUS
<1>11. m3 \in UiReqs /\ m3.pc = "next" /\ m3.wrote = 0 /\ m3.answer = "none"
  BY <1>9, <1>10, UiAgain
<1>12. PICK n : n = [m3 EXCEPT !.ses = 0] OBVIOUS
<1>13. n \in UiReqs /\ n.pc = "next" /\ n.wrote = 0 /\ n.answer = "none"
  BY <1>11, <1>12, UiSes
<1>14. n = [request[r] EXCEPT !.pc = "next", !.answer = "none", !.again = TRUE, !.ses = 0]
  BY <1>5, <1>6, <1>8, <1>10, <1>12, Zenon
<1>15. request' = [request EXCEPT ![r] =
                    [request[r] EXCEPT !.pc = "next", !.answer = "none", !.again = TRUE, !.ses = 0]]
  BY <1>3, Zenon DEF CallAgain
<1>16. request' = [request EXCEPT ![r] = n] BY <1>14, <1>15
<1>17. /\ request' \in [UiRequests -> UiReqs] /\ OneMaker'
       /\ \A q \in UiRequests : RequestFine(q)' /\ MakerFine(q)'
  BY <1>2, <1>13, <1>16, RequestsStep
<1>18. /\ request'[r] = n
       /\ \A q \in UiRequests : q # r => request'[q] = request[q]
  BY <1>3, <1>16
<1>19. FilesTyped' BY <1>1, <1>2, <1>17 DEF FilesTyped
<1>20. KnownMade' BY <1>1, <1>2 DEF KnownMade
<1>21. GateFine' BY <1>1, <1>2 DEF GateFine
<1>22. Held' \subseteq Held /\ Held \subseteq Held' \cup {request[r].ses}
  BY <1>2, <1>13, <1>18 DEF Held, ReqAt
<1>23. 0 \notin retired \cup ending BY <1>1, SMT DEF FilesTyped, WorkerSessions
<1>24. NoSessionForgotten' BY <1>1, <1>2, <1>4, <1>22, <1>23 DEF NoSessionForgotten
<1>25. ClosedIsQuiet' BY <1>1, <1>2, <1>18 DEF ClosedIsQuiet
<1> QED BY <1>17, <1>19, <1>20, <1>21, <1>24, <1>25 DEF FilesInv
\* Requests that only may have been told to end are as fine as before.
LEMMA SameRequests ==
  ASSUME FilesInv, request' \in [UiRequests -> UiReqs],
         \A q \in UiRequests :
           /\ request'[q].pc = request[q].pc /\ request'[q].step = request[q].step
           /\ request'[q].ses = request[q].ses /\ request'[q].dir = request[q].dir
           /\ request'[q].answer = request[q].answer /\ request'[q].wrote = request[q].wrote,
         \A w \in WorkerSessions : /\ session[w] # "none" => session'[w] # "none" /\ dirOf'[w] = dirOf[w]
                                   /\ session[w] = "dead" => session'[w] = "dead",
         cached' \in {cached, 0}
  PROVE  OneMaker' /\ \A q \in UiRequests : RequestFine(q)' /\ MakerFine(q)'
<1>1. /\ request \in [UiRequests -> UiReqs] /\ cached \in WorkerSessions \cup {0}
      /\ cached # 0 => session[cached] # "none"
      /\ \A q \in UiRequests : RequestFine(q) /\ MakerFine(q)
      /\ OneMaker
  BY DEF FilesInv, FilesTyped, KnownMade
<1>2. OneMaker' BY <1>1 DEF OneMaker
<1>3. ASSUME NEW q \in UiRequests PROVE RequestFine(q)' /\ MakerFine(q)'
  <2>1. /\ request[q] \in UiReqs /\ RequestFine(q) /\ MakerFine(q)
        /\ request'[q].pc = request[q].pc /\ request'[q].step = request[q].step
        /\ request'[q].ses = request[q].ses /\ request'[q].dir = request[q].dir
        /\ request'[q].answer = request[q].answer /\ request'[q].wrote = request[q].wrote
    BY <1>1
  <2>2. request[q].ses \in WorkerSessions \cup {0} BY <2>1, SMT DEF UiReqs
  <2>3. request[q].pc \in {"calling", "undoing"} =>
          /\ request[q].ses \in WorkerSessions /\ session[request[q].ses] # "none"
          /\ request[q].ses # 0 /\ session'[request[q].ses] # "none"
          /\ dirOf'[request[q].ses] = dirOf[request[q].ses]
    BY <2>1, <2>2 DEF RequestFine
  <2>4. request[q].answer = "missing" => session'[request[q].ses] = "dead"
    BY <2>1, <2>3 DEF RequestFine
  <2>5. RequestFine(q)' BY <2>1, <2>3, <2>4 DEF RequestFine, Writes
  <2>6. cached' # 0 => dirOf'[cached'] = dirOf[cached] BY <1>1
  <2>7. MakerFine(q)' BY <2>1, <2>3, <2>6 DEF MakerFine, CachedFor
  <2> QED BY <2>5, <2>7
<1> QED BY <1>2, <1>3

\* The registry closes, the worker forgets and changes.
LEMMA GateSteps ==
  ASSUME FilesInv, StopFiles \/ CloseFiles \/ FilesDrained \/ FilesClosed \/ WorkerChanges
                   \/ \E w \in WorkerSessions : EndOwned(w) \/ WorkerForgets(w)
  PROVE  FilesInv'
<1>1. FilesTyped /\ KnownMade /\ GateFine /\ NoSessionForgotten /\ ClosedIsQuiet
  BY DEF FilesInv
<1>2. request \in [UiRequests -> UiReqs] BY <1>1 DEF FilesTyped
<1>3. CASE StopFiles
  <2>1. /\ filesGate = "open" /\ filesGate' = "stopped"
        /\ UNCHANGED <<request, cached, retired, ending, session, dirOf, strays, machine>>
    BY <1>3 DEF StopFiles, workerVars
  <2>2. OneMaker' /\ \A q \in UiRequests : RequestFine(q)' /\ MakerFine(q)'
    BY <1>2, <2>1, SameRequests
  <2>3. FilesTyped' BY <1>1, <2>1 DEF FilesTyped
  <2>4. KnownMade' /\ GateFine' /\ ClosedIsQuiet'
    BY <1>1, <2>1 DEF KnownMade, GateFine, ClosedIsQuiet
  <2>5. NoSessionForgotten' BY <1>1, <2>1 DEF NoSessionForgotten, Held, ReqAt
  <2> QED BY <2>2, <2>3, <2>4, <2>5 DEF FilesInv
<1>4. CASE CloseFiles
  <2>1. /\ filesGate \in {"open", "stopped"} /\ filesGate' = "draining"
        /\ request' = [r \in UiRequests |-> IF request[r].pc \in {"new", "end"} THEN request[r]
                                    ELSE [request[r] EXCEPT !.cancel = TRUE]]
        /\ UNCHANGED <<cached, retired, ending, session, dirOf, strays, machine>>
    BY <1>4 DEF CloseFiles, workerVars
  <2>2. ASSUME NEW q \in UiRequests
        PROVE  /\ request'[q] \in UiReqs
               /\ request'[q].pc = request[q].pc /\ request'[q].step = request[q].step
               /\ request'[q].ses = request[q].ses /\ request'[q].dir = request[q].dir
               /\ request'[q].answer = request[q].answer /\ request'[q].wrote = request[q].wrote
    <3>1. PICK m \in UiReqs : m = request[q] BY <1>2
    <3>2. PICK yes \in BOOLEAN : yes = TRUE OBVIOUS
    <3>3. CASE request[q].pc \in {"new", "end"} BY <2>1, <3>1, <3>3
    <3>4. CASE request[q].pc \notin {"new", "end"}
      <4>1. PICK n : n = [m EXCEPT !.cancel = yes] OBVIOUS
      <4>2. /\ n \in UiReqs
            /\ n.pc = m.pc /\ n.step = m.step /\ n.ses = m.ses /\ n.dir = m.dir /\ n.answer = m.answer
            /\ n.wrote = m.wrote
        <5>1. m \in UiReqs /\ yes \in BOOLEAN /\ n = [m EXCEPT !.cancel = yes]
          BY <3>1, <3>2, <4>1
        <5>2. n \in UiReqs BY <5>1, SMT DEF UiReqs
        <5> QED BY <5>1, <5>2, SMT DEF UiReqs
      <4>3. request'[q] = n BY <2>1, <3>1, <3>2, <3>4, <4>1
      <4> QED BY <3>1, <4>2, <4>3
    <3> QED BY <3>3, <3>4
  <2>3. request' \in [UiRequests -> UiReqs]
    <3>1. request' = [r \in UiRequests |-> request'[r]] BY <2>1
    <3> QED BY <2>2, <3>1
  <2>4. OneMaker' /\ \A q \in UiRequests : RequestFine(q)' /\ MakerFine(q)'
    BY <2>1, <2>2, <2>3, SameRequests
  <2>5. FilesTyped' BY <1>1, <2>1, <2>3 DEF FilesTyped
  <2>6. KnownMade' /\ GateFine' /\ ClosedIsQuiet'
    BY <1>1, <2>1 DEF KnownMade, GateFine, ClosedIsQuiet
  <2>7. Held' = Held
    <3>1. {request'[q].ses : q \in {p \in UiRequests : request'[p].pc = "undoing"}}
          = {request[q].ses : q \in {p \in UiRequests : request[p].pc = "undoing"}}
      BY <2>2
    <3> QED BY <2>1, <3>1 DEF Held, ReqAt
  <2>8. NoSessionForgotten' BY <1>1, <2>1, <2>7 DEF NoSessionForgotten
  <2> QED BY <2>4, <2>5, <2>6, <2>8 DEF FilesInv
<1>5. CASE FilesDrained
  <2>1. /\ filesGate = "draining" /\ filesGate' = "ending"
        /\ \A r \in UiRequests : request[r].pc \in {"new", "end"}
        /\ ending' = retired \cup ({cached} \ {0}) /\ cached' = 0 /\ retired' = {}
        /\ UNCHANGED <<request, session, dirOf, strays, machine>>
    BY <1>5 DEF FilesDrained, workerVars
  <2>2. OneMaker' /\ \A q \in UiRequests : RequestFine(q)' /\ MakerFine(q)'
    BY <1>2, <2>1, SameRequests
  <2>3. FilesTyped' BY <1>1, <2>1 DEF FilesTyped
  <2>4. KnownMade' /\ GateFine' /\ ClosedIsQuiet'
    BY <1>1, <2>1 DEF KnownMade, GateFine, ClosedIsQuiet
  <2>5. Held' = Held
    <3>1. ending = {} BY <1>1, <2>1 DEF GateFine
    <3> QED BY <2>1, <3>1 DEF Held, ReqAt
  <2>6. 0 \notin retired BY <1>1, SMT DEF FilesTyped, WorkerSessions
  <2>7. NoSessionForgotten' BY <1>1, <2>1, <2>5, <2>6 DEF NoSessionForgotten
  <2> QED BY <2>2, <2>3, <2>4, <2>7 DEF FilesInv
<1>6. CASE FilesClosed
  <2>1. /\ filesGate = "ending" /\ ending = {} /\ filesGate' = "closed"
        /\ UNCHANGED <<request, cached, retired, ending, session, dirOf, strays, machine>>
    BY <1>6 DEF FilesClosed, workerVars
  <2>2. OneMaker' /\ \A q \in UiRequests : RequestFine(q)' /\ MakerFine(q)'
    BY <1>2, <2>1, SameRequests
  <2>3. FilesTyped' BY <1>1, <2>1 DEF FilesTyped
  <2>4. KnownMade' /\ GateFine' /\ ClosedIsQuiet'
    BY <1>1, <2>1 DEF KnownMade, GateFine, ClosedIsQuiet
  <2>5. Held' = {} /\ Held = {}
    <3>1. cached = 0 /\ retired = {} BY <1>1, <2>1 DEF GateFine
    <3>2. \A r \in UiRequests : request[r].pc # "undoing" BY <1>1, <2>1 DEF ClosedIsQuiet
    <3> QED BY <2>1, <3>1, <3>2 DEF Held, ReqAt
  <2>6. NoSessionForgotten' BY <1>1, <2>1, <2>5 DEF NoSessionForgotten
  <2> QED BY <2>2, <2>3, <2>4, <2>6 DEF FilesInv
<1>7. CASE WorkerChanges
  <2>1. /\ machine' \in {[machine EXCEPT !.online = ~@], [machine EXCEPT !.dir = 3 - @]}
        /\ UNCHANGED <<request, cached, retired, ending, filesGate, session, dirOf, strays>>
    BY <1>7 DEF WorkerChanges, registryVars
  <2>2. machine' \in [online : BOOLEAN, dir : Dirs]
    <3>1. machine \in [online : BOOLEAN, dir : Dirs] BY <1>1 DEF FilesTyped
    <3>2. ASSUME NEW m \in [online : BOOLEAN, dir : Dirs], NEW v \in BOOLEAN
          PROVE  [m EXCEPT !.online = v] \in [online : BOOLEAN, dir : Dirs]
      BY SMT
    <3>3. ASSUME NEW m \in [online : BOOLEAN, dir : Dirs]
          PROVE  [m EXCEPT !.dir = 3 - @] \in [online : BOOLEAN, dir : Dirs]
      BY SMT DEF Dirs
    <3>4. PICK v \in BOOLEAN : v = ~machine.online BY Zenon
    <3>5. [machine EXCEPT !.online = ~@] = [machine EXCEPT !.online = v] BY <3>4, Zenon
    <3> QED BY <2>1, <3>1, <3>2, <3>3, <3>5
  <2>3. OneMaker' /\ \A q \in UiRequests : RequestFine(q)' /\ MakerFine(q)'
    BY <1>2, <2>1, SameRequests
  <2>4. FilesTyped' BY <1>1, <2>1, <2>2 DEF FilesTyped
  <2>5. KnownMade' /\ GateFine' /\ ClosedIsQuiet'
    BY <1>1, <2>1 DEF KnownMade, GateFine, ClosedIsQuiet
  <2>6. NoSessionForgotten' BY <1>1, <2>1 DEF NoSessionForgotten, Held, ReqAt
  <2> QED BY <2>3, <2>4, <2>5, <2>6 DEF FilesInv
<1>8. ASSUME NEW w \in WorkerSessions, EndOwned(w) PROVE FilesInv'
  <2>1. /\ filesGate = "ending" /\ w \in ending /\ ending' = ending \ {w}
        /\ UNCHANGED <<request, cached, retired, filesGate, dirOf, machine>>
        /\ \/ session' = [session EXCEPT ![w] = "dead"] /\ UNCHANGED strays
           \/ strays' = strays \cup {w} /\ UNCHANGED session
    BY <1>8 DEF EndOwned
  <2>2. session[w] # "none" BY <1>1, <2>1 DEF KnownMade
  <2>3. /\ session' \in [WorkerSessions -> {"none", "live", "dead"}]
        /\ strays' \in SUBSET WorkerSessions
        /\ \A v \in WorkerSessions :
             /\ session[v] # "none" => session'[v] # "none" /\ dirOf'[v] = dirOf[v]
             /\ session[v] = "dead" => session'[v] = "dead"
             /\ session'[v] = "live" => session[v] = "live"
        /\ session'[w] = "live" => w \in strays'
        /\ strays \subseteq strays'
        /\ \A v \in strays' : session'[v] # "none"
    BY <2>1, <2>2, SessionLeaves
  <2>4. OneMaker' /\ \A q \in UiRequests : RequestFine(q)' /\ MakerFine(q)'
    BY <1>2, <2>1, <2>3, SameRequests
  <2>5. FilesTyped' BY <1>1, <2>1, <2>3 DEF FilesTyped
  <2>6. KnownMade' BY <1>1, <2>1, <2>3 DEF KnownMade, FilesTyped
  <2>7. GateFine' /\ ClosedIsQuiet' BY <1>1, <2>1 DEF GateFine, ClosedIsQuiet
  <2>8. Held' \subseteq Held /\ Held \subseteq Held' \cup {w} BY <2>1 DEF Held, ReqAt
  <2>9. NoSessionForgotten' BY <1>1, <2>1, <2>3, <2>8 DEF NoSessionForgotten
  <2> QED BY <2>4, <2>5, <2>6, <2>7, <2>9 DEF FilesInv
<1>9. ASSUME NEW w \in WorkerSessions, WorkerForgets(w) PROVE FilesInv'
  <2>1. /\ session[w] = "live" /\ session' = [session EXCEPT ![w] = "dead"]
        /\ UNCHANGED <<request, cached, retired, ending, filesGate, dirOf, strays, machine>>
    BY <1>9 DEF WorkerForgets, registryVars
  <2>2. session \in [WorkerSessions -> {"none", "live", "dead"}] BY <1>1 DEF FilesTyped
  <2>3. /\ session' \in [WorkerSessions -> {"none", "live", "dead"}]
        /\ \A v \in WorkerSessions :
             /\ session[v] # "none" => session'[v] # "none" /\ dirOf'[v] = dirOf[v]
             /\ session[v] = "dead" => session'[v] = "dead"
             /\ session'[v] = "live" => session[v] = "live"
    BY <2>1, <2>2
  <2>4. OneMaker' /\ \A q \in UiRequests : RequestFine(q)' /\ MakerFine(q)'
    BY <1>2, <2>1, <2>3, SameRequests
  <2>5. FilesTyped' BY <1>1, <2>1, <2>3 DEF FilesTyped
  <2>6. KnownMade' BY <1>1, <2>1, <2>3 DEF KnownMade, FilesTyped
  <2>7. GateFine' /\ ClosedIsQuiet' BY <1>1, <2>1 DEF GateFine, ClosedIsQuiet
  <2>8. Held' = Held BY <2>1 DEF Held, ReqAt
  <2>9. NoSessionForgotten' BY <1>1, <2>1, <2>3, <2>8 DEF NoSessionForgotten
  <2> QED BY <2>4, <2>5, <2>6, <2>7, <2>9 DEF FilesInv
<1> QED BY <1>3, <1>4, <1>5, <1>6, <1>7, <1>8, <1>9

LEMMA FilesFirst == ASSUME FilesInit PROVE FilesInv
<1>1. /\ NewUiRequest \in UiReqs /\ NewUiRequest.pc = "new" /\ NewUiRequest.step = 1
      /\ NewUiRequest.answer = "none" /\ NewUiRequest.wrote = 0
  BY NewUiFine
<1>2. PICK n : n = NewUiRequest OBVIOUS
<1>3. request = [r \in UiRequests |-> n] BY <1>2 DEF FilesInit
<1>4. FilesTyped
  <2>1. request \in [UiRequests -> UiReqs] BY <1>1, <1>2, <1>3
  <2>2. machine \in [online : BOOLEAN, dir : Dirs] BY SMT DEF FilesInit, Dirs
  <2>3. dirOf \in [WorkerSessions -> Dirs] BY SMT DEF FilesInit, Dirs
  <2> QED BY <2>1, <2>2, <2>3 DEF FilesTyped, FilesInit
<1>5. \A r \in UiRequests : RequestFine(r) /\ MakerFine(r)
  BY <1>1, <1>2, <1>3 DEF RequestFine, MakerFine
<1>6. OneMaker BY <1>1, <1>2, <1>3 DEF OneMaker
<1>7. KnownMade /\ GateFine BY DEF KnownMade, GateFine, FilesInit
<1>8. NoSessionForgotten BY DEF NoSessionForgotten, FilesInit
<1>9. ClosedIsQuiet BY DEF ClosedIsQuiet, FilesInit
<1> QED BY <1>4, <1>5, <1>6, <1>7, <1>8, <1>9 DEF FilesInv

LEMMA FilesStep == ASSUME FilesInv, [FilesNext]_rfVars PROVE FilesInv'
<1>1. ASSUME NEW r \in UiRequests,
             \/ BeginCall(r) \/ Seek(r) \/ Lock(r) \/ WorkerRuns(r) \/ Answered(r) \/ CallFails(r)
             \/ Cancelled(r)
      PROVE  FilesInv'
  BY <1>1, QuietRequests
<1>2. ASSUME NEW r \in UiRequests,
             Offline(r) \/ SessionMade(r) \/ MakingFails(r) \/ Undone(r) \/ CallAgain(r)
      PROVE  FilesInv'
  BY <1>2, OfflineStep, SessionMadeStep, MakingFailsStep, UndoneStep, CallAgainStep
<1>3. CASE StopFiles \/ CloseFiles \/ FilesDrained \/ FilesClosed \/ WorkerChanges
           \/ \E w \in WorkerSessions : EndOwned(w) \/ WorkerForgets(w)
  BY <1>3, GateSteps
<1>4. CASE UNCHANGED rfVars
  BY <1>4 DEF rfVars, FilesInv, FilesTyped, RequestFine, MakerFine, OneMaker, KnownMade, GateFine,
    NoSessionForgotten, ClosedIsQuiet, Held, ReqAt, CachedFor, Writes
<1> QED BY <1>1, <1>2, <1>3, <1>4 DEF FilesNext

\* Two sessions that live for one directory: one is cached, the other is being made for
\* want of such a one.
LEMMA SharedSessions == ASSUME FilesInv PROVE SessionShared
<1> SUFFICES ASSUME NEW v \in WorkerSessions, NEW w \in WorkerSessions,
                    session[v] = "live", session[w] = "live", dirOf[v] = dirOf[w],
                    {v, w} \cap (strays \cup retired \cup ending) = {}
             PROVE  v = w
  BY DEF SessionShared
<1>1. NoSessionForgotten /\ OneMaker /\ \A r \in UiRequests : MakerFine(r) BY DEF FilesInv
<1>2. ASSUME NEW u \in WorkerSessions, session[u] = "live", u \notin strays \cup retired \cup ending
      PROVE  \/ u = cached /\ cached # 0
             \/ \E r \in UiRequests : request[r].pc = "undoing" /\ request[r].ses = u
  BY <1>1, <1>2 DEF NoSessionForgotten, Held, ReqAt
<1>3. ASSUME NEW r \in UiRequests, request[r].pc = "undoing", cached # 0
      PROVE  dirOf[request[r].ses] # dirOf[cached]
  BY <1>1, <1>3 DEF MakerFine, CachedFor
<1>4. ASSUME NEW r \in UiRequests, NEW q \in UiRequests, request[r].pc = "undoing", request[q].pc = "undoing"
      PROVE  r = q
  BY <1>1, <1>4 DEF OneMaker
<1> QED BY <1>2, <1>3, <1>4

\* In every state of FilesSpec each session that lives on the worker is known to somebody,
\* requests share one, none writes twice, and nothing is under way after the close.
THEOREM FilesTheorem == FilesSpec => []FilesSound
<1>1. FilesInit => FilesInv BY FilesFirst
<1>2. FilesInv /\ [FilesNext]_rfVars => FilesInv' BY FilesStep
<1>3. FilesInv => FilesSound
  <2> SUFFICES ASSUME FilesInv PROVE FilesSound OBVIOUS
  <2>1. WritesOnce
    <3>1. \A r \in UiRequests : request[r].wrote \in 0..1 BY SMT DEF FilesInv, FilesTyped, UiReqs
    <3> QED BY <3>1, SMT DEF WritesOnce
  <2> QED BY <2>1, SharedSessions DEF FilesInv, FilesSound
<1> QED BY <1>1, <1>2, <1>3, PTL DEF FilesSpec

(*****************************************************************************)
(* The Human UI's terminal connections.                                      *)
(*****************************************************************************)

SockPcs == {"new", "listing", "accepting", "opening", "refused", "greeting", "serving",
            "cleaning", "end"}
SlotlessPcs == {"new", "listing", "refused", "end"}
SockModes == {"snapshot", "auto", "pty"}
RawClients == {"none", "made", "held", "lost", "gone"}
Senders == {"off", "reading", "done"}
Receivers == {"off", "waiting", "calling", "done"}
Socks == [pc : SockPcs, mode : SockModes, bridge : RawClients, tx : Senders, rx : Receivers,
          touched : BOOLEAN, fired : BOOLEAN, cancel : BOOLEAN]
CallSets == SUBSET Nat
Inputs == Seq(Nat)
Wires == [typed : Nat, calls : CallSets, got : Inputs]

SocketsTyped ==
  /\ sock \in [Sockets -> Socks] /\ wire \in [Sockets -> Wires]
  /\ slots \in SUBSET Sockets /\ IsFiniteSet(slots)
  /\ socketGate \in {"open", "stopped", "draining", "closed"}
  /\ remote \in BOOLEAN

\* What the place of a connection says of its tasks and its raw client.
Unstarted(m) == m.tx = "off" /\ m.rx = "off"
Stopped(m) == m.tx \in {"off", "done"} /\ m.rx \in {"off", "done"}
PlaceFine(m, gate, far) ==
  /\ m.pc \in {"new", "listing", "accepting"} => Unstarted(m) /\ m.bridge = "none"
  /\ m.pc = "opening" => Unstarted(m) /\ m.bridge \in {"none", "made"}
  /\ m.pc = "greeting" => Unstarted(m) /\ m.bridge \in {"none", "held"}
  /\ m.pc = "refused" => Unstarted(m) /\ m.bridge \in {"none", "lost", "gone"}
  /\ m.pc \in {"serving", "cleaning"} => m.bridge \in {"none", "held"}
  /\ m.cancel = TRUE => gate \in {"draining", "closed"}
  /\ gate \in {"open", "stopped"} /\ m.pc \in {"cleaning", "end"} => Stopped(m)
  /\ gate \in {"open", "stopped"} /\ m.pc = "end" => far = TRUE \/ m.bridge \in {"none", "gone"}

\* What was typed is with the shell, but for the last while its call is under way or lost.
InOrder(q) == q = [n \in 1..Len(q) |-> n]
WireFine(m, w) ==
  /\ InOrder(w.got)
  /\ Len(w.got) <= w.typed
  /\ w.calls \subseteq {w.typed}
  /\ w.calls # {} => Len(w.got) + 1 = w.typed
  /\ m.rx = "off" => w.typed = 0
  /\ m.rx = "waiting" => w.calls = {} /\ Len(w.got) = w.typed

SocketsInv ==
  /\ SocketsTyped
  /\ \A s \in Sockets : PlaceFine(sock[s], socketGate, remote) /\ WireFine(sock[s], wire[s])
  /\ SlotsCounted

\* One field of a connection changes, and the others do not.
WithPc(m, v) == [m EXCEPT !.pc = v]
WithMode(m, v) == [m EXCEPT !.mode = v]
WithBridge(m, v) == [m EXCEPT !.bridge = v]
WithTx(m, v) == [m EXCEPT !.tx = v]
WithRx(m, v) == [m EXCEPT !.rx = v]
TouchSet(m) == [m EXCEPT !.touched = TRUE]
TouchReset(m) == [m EXCEPT !.touched = FALSE]
FireSet(m) == [m EXCEPT !.fired = TRUE]
FireReset(m) == [m EXCEPT !.fired = FALSE]
CancelSet(m) == [m EXCEPT !.cancel = TRUE]
CancelReset(m) == [m EXCEPT !.cancel = FALSE]
Turns(s, n) == sock' = [sock EXCEPT ![s] = n]

LEMMA WithPcKeeps ==
  ASSUME NEW m \in Socks, NEW v \in SockPcs
  PROVE  /\ WithPc(m, v) \in Socks /\ WithPc(m, v).pc = v
         /\ WithPc(m, v).mode = m.mode
         /\ WithPc(m, v).bridge = m.bridge
         /\ WithPc(m, v).tx = m.tx
         /\ WithPc(m, v).rx = m.rx
         /\ WithPc(m, v).touched = m.touched
         /\ WithPc(m, v).fired = m.fired
         /\ WithPc(m, v).cancel = m.cancel
<1>1. PICK n : n = [m EXCEPT !.pc = v] OBVIOUS
<1>2. n \in Socks BY <1>1, SMT DEF Socks
<1>3. n.pc = v /\ n.mode = m.mode /\ n.bridge = m.bridge /\ n.tx = m.tx
      /\ n.rx = m.rx /\ n.touched = m.touched /\ n.fired = m.fired /\ n.cancel = m.cancel
  BY <1>1, <1>2, SMT DEF Socks
<1>4. n = WithPc(m, v) BY <1>1 DEF WithPc
<1> QED BY <1>2, <1>3, <1>4

LEMMA WithModeKeeps ==
  ASSUME NEW m \in Socks, NEW v \in SockModes
  PROVE  /\ WithMode(m, v) \in Socks /\ WithMode(m, v).mode = v
         /\ WithMode(m, v).pc = m.pc
         /\ WithMode(m, v).bridge = m.bridge
         /\ WithMode(m, v).tx = m.tx
         /\ WithMode(m, v).rx = m.rx
         /\ WithMode(m, v).touched = m.touched
         /\ WithMode(m, v).fired = m.fired
         /\ WithMode(m, v).cancel = m.cancel
<1>1. PICK n : n = [m EXCEPT !.mode = v] OBVIOUS
<1>2. n \in Socks BY <1>1, SMT DEF Socks
<1>3. n.mode = v /\ n.pc = m.pc /\ n.bridge = m.bridge /\ n.tx = m.tx
      /\ n.rx = m.rx /\ n.touched = m.touched /\ n.fired = m.fired /\ n.cancel = m.cancel
  BY <1>1, <1>2, SMT DEF Socks
<1>4. n = WithMode(m, v) BY <1>1 DEF WithMode
<1> QED BY <1>2, <1>3, <1>4

LEMMA WithBridgeKeeps ==
  ASSUME NEW m \in Socks, NEW v \in RawClients
  PROVE  /\ WithBridge(m, v) \in Socks /\ WithBridge(m, v).bridge = v
         /\ WithBridge(m, v).pc = m.pc
         /\ WithBridge(m, v).mode = m.mode
         /\ WithBridge(m, v).tx = m.tx
         /\ WithBridge(m, v).rx = m.rx
         /\ WithBridge(m, v).touched = m.touched
         /\ WithBridge(m, v).fired = m.fired
         /\ WithBridge(m, v).cancel = m.cancel
<1>1. PICK n : n = [m EXCEPT !.bridge = v] OBVIOUS
<1>2. n \in Socks BY <1>1, SMT DEF Socks
<1>3. n.bridge = v /\ n.pc = m.pc /\ n.mode = m.mode /\ n.tx = m.tx
      /\ n.rx = m.rx /\ n.touched = m.touched /\ n.fired = m.fired /\ n.cancel = m.cancel
  BY <1>1, <1>2, SMT DEF Socks
<1>4. n = WithBridge(m, v) BY <1>1 DEF WithBridge
<1> QED BY <1>2, <1>3, <1>4

LEMMA WithTxKeeps ==
  ASSUME NEW m \in Socks, NEW v \in Senders
  PROVE  /\ WithTx(m, v) \in Socks /\ WithTx(m, v).tx = v
         /\ WithTx(m, v).pc = m.pc
         /\ WithTx(m, v).mode = m.mode
         /\ WithTx(m, v).bridge = m.bridge
         /\ WithTx(m, v).rx = m.rx
         /\ WithTx(m, v).touched = m.touched
         /\ WithTx(m, v).fired = m.fired
         /\ WithTx(m, v).cancel = m.cancel
<1>1. PICK n : n = [m EXCEPT !.tx = v] OBVIOUS
<1>2. n \in Socks BY <1>1, SMT DEF Socks
<1>3. n.tx = v /\ n.pc = m.pc /\ n.mode = m.mode /\ n.bridge = m.bridge
      /\ n.rx = m.rx /\ n.touched = m.touched /\ n.fired = m.fired /\ n.cancel = m.cancel
  BY <1>1, <1>2, SMT DEF Socks
<1>4. n = WithTx(m, v) BY <1>1 DEF WithTx
<1> QED BY <1>2, <1>3, <1>4

LEMMA WithRxKeeps ==
  ASSUME NEW m \in Socks, NEW v \in Receivers
  PROVE  /\ WithRx(m, v) \in Socks /\ WithRx(m, v).rx = v
         /\ WithRx(m, v).pc = m.pc
         /\ WithRx(m, v).mode = m.mode
         /\ WithRx(m, v).bridge = m.bridge
         /\ WithRx(m, v).tx = m.tx
         /\ WithRx(m, v).touched = m.touched
         /\ WithRx(m, v).fired = m.fired
         /\ WithRx(m, v).cancel = m.cancel
<1>1. PICK n : n = [m EXCEPT !.rx = v] OBVIOUS
<1>2. n \in Socks BY <1>1, SMT DEF Socks
<1>3. n.rx = v /\ n.pc = m.pc /\ n.mode = m.mode /\ n.bridge = m.bridge
      /\ n.tx = m.tx /\ n.touched = m.touched /\ n.fired = m.fired /\ n.cancel = m.cancel
  BY <1>1, <1>2, SMT DEF Socks
<1>4. n = WithRx(m, v) BY <1>1 DEF WithRx
<1> QED BY <1>2, <1>3, <1>4

LEMMA TouchSetKeeps ==
  ASSUME NEW m \in Socks
  PROVE  /\ TouchSet(m) \in Socks
         /\ TouchSet(m).pc = m.pc
         /\ TouchSet(m).mode = m.mode
         /\ TouchSet(m).bridge = m.bridge
         /\ TouchSet(m).tx = m.tx
         /\ TouchSet(m).rx = m.rx
         /\ TouchSet(m).cancel = m.cancel
<1>1. PICK v \in BOOLEAN : v = TRUE OBVIOUS
<1>2. PICK n : n = [m EXCEPT !.touched = v] OBVIOUS
<1>3. n \in Socks BY <1>2, SMT DEF Socks
<1>4. n.pc = m.pc /\ n.mode = m.mode /\ n.bridge = m.bridge /\ n.tx = m.tx /\ n.rx = m.rx /\ n.cancel = m.cancel
  BY <1>2, <1>3, SMT DEF Socks
<1>5. n = TouchSet(m) BY <1>1, <1>2 DEF TouchSet
<1> QED BY <1>1, <1>3, <1>4, <1>5

LEMMA TouchResetKeeps ==
  ASSUME NEW m \in Socks
  PROVE  /\ TouchReset(m) \in Socks
         /\ TouchReset(m).pc = m.pc
         /\ TouchReset(m).mode = m.mode
         /\ TouchReset(m).bridge = m.bridge
         /\ TouchReset(m).tx = m.tx
         /\ TouchReset(m).rx = m.rx
         /\ TouchReset(m).cancel = m.cancel
<1>1. PICK v \in BOOLEAN : v = FALSE OBVIOUS
<1>2. PICK n : n = [m EXCEPT !.touched = v] OBVIOUS
<1>3. n \in Socks BY <1>2, SMT DEF Socks
<1>4. n.pc = m.pc /\ n.mode = m.mode /\ n.bridge = m.bridge /\ n.tx = m.tx /\ n.rx = m.rx /\ n.cancel = m.cancel
  BY <1>2, <1>3, SMT DEF Socks
<1>5. n = TouchReset(m) BY <1>1, <1>2 DEF TouchReset
<1> QED BY <1>1, <1>3, <1>4, <1>5

LEMMA FireSetKeeps ==
  ASSUME NEW m \in Socks
  PROVE  /\ FireSet(m) \in Socks
         /\ FireSet(m).pc = m.pc
         /\ FireSet(m).mode = m.mode
         /\ FireSet(m).bridge = m.bridge
         /\ FireSet(m).tx = m.tx
         /\ FireSet(m).rx = m.rx
         /\ FireSet(m).cancel = m.cancel
<1>1. PICK v \in BOOLEAN : v = TRUE OBVIOUS
<1>2. PICK n : n = [m EXCEPT !.fired = v] OBVIOUS
<1>3. n \in Socks BY <1>2, SMT DEF Socks
<1>4. n.pc = m.pc /\ n.mode = m.mode /\ n.bridge = m.bridge /\ n.tx = m.tx /\ n.rx = m.rx /\ n.cancel = m.cancel
  BY <1>2, <1>3, SMT DEF Socks
<1>5. n = FireSet(m) BY <1>1, <1>2 DEF FireSet
<1> QED BY <1>1, <1>3, <1>4, <1>5

LEMMA FireResetKeeps ==
  ASSUME NEW m \in Socks
  PROVE  /\ FireReset(m) \in Socks
         /\ FireReset(m).pc = m.pc
         /\ FireReset(m).mode = m.mode
         /\ FireReset(m).bridge = m.bridge
         /\ FireReset(m).tx = m.tx
         /\ FireReset(m).rx = m.rx
         /\ FireReset(m).cancel = m.cancel
<1>1. PICK v \in BOOLEAN : v = FALSE OBVIOUS
<1>2. PICK n : n = [m EXCEPT !.fired = v] OBVIOUS
<1>3. n \in Socks BY <1>2, SMT DEF Socks
<1>4. n.pc = m.pc /\ n.mode = m.mode /\ n.bridge = m.bridge /\ n.tx = m.tx /\ n.rx = m.rx /\ n.cancel = m.cancel
  BY <1>2, <1>3, SMT DEF Socks
<1>5. n = FireReset(m) BY <1>1, <1>2 DEF FireReset
<1> QED BY <1>1, <1>3, <1>4, <1>5

LEMMA CancelSetKeeps ==
  ASSUME NEW m \in Socks
  PROVE  /\ CancelSet(m) \in Socks
         /\ CancelSet(m).pc = m.pc
         /\ CancelSet(m).mode = m.mode
         /\ CancelSet(m).bridge = m.bridge
         /\ CancelSet(m).tx = m.tx
         /\ CancelSet(m).rx = m.rx
<1>1. PICK v \in BOOLEAN : v = TRUE OBVIOUS
<1>2. PICK n : n = [m EXCEPT !.cancel = v] OBVIOUS
<1>3. n \in Socks BY <1>2, SMT DEF Socks
<1>4. n.pc = m.pc /\ n.mode = m.mode /\ n.bridge = m.bridge /\ n.tx = m.tx /\ n.rx = m.rx
  BY <1>2, <1>3, SMT DEF Socks
<1>5. n = CancelSet(m) BY <1>1, <1>2 DEF CancelSet
<1> QED BY <1>1, <1>3, <1>4, <1>5

LEMMA CancelResetKeeps ==
  ASSUME NEW m \in Socks
  PROVE  /\ CancelReset(m) \in Socks
         /\ CancelReset(m).pc = m.pc
         /\ CancelReset(m).mode = m.mode
         /\ CancelReset(m).bridge = m.bridge
         /\ CancelReset(m).tx = m.tx
         /\ CancelReset(m).rx = m.rx
<1>1. PICK v \in BOOLEAN : v = FALSE OBVIOUS
<1>2. PICK n : n = [m EXCEPT !.cancel = v] OBVIOUS
<1>3. n \in Socks BY <1>2, SMT DEF Socks
<1>4. n.pc = m.pc /\ n.mode = m.mode /\ n.bridge = m.bridge /\ n.tx = m.tx /\ n.rx = m.rx
  BY <1>2, <1>3, SMT DEF Socks
<1>5. n = CancelReset(m) BY <1>1, <1>2 DEF CancelReset
<1> QED BY <1>1, <1>3, <1>4, <1>5

\* One connection moves, with its slot.
LEMMA SocketMoves ==
  ASSUME SocketsInv, NEW s \in Sockets, NEW n \in Socks, Turns(s, n),
         UNCHANGED <<socketGate, remote, wire>>,
         PlaceFine(n, socketGate, remote), WireFine(n, wire[s]),
         \/ slots' = slots /\ (n.pc \in SlotlessPcs <=> sock[s].pc \in SlotlessPcs)
         \/ /\ slots' = slots \cup {s} /\ n.pc \notin SlotlessPcs
            /\ Cardinality(slots) < MaxSlots /\ socketGate = "open"
         \/ slots' = slots \ {s} /\ n.pc \in SlotlessPcs
         \/ slots' = slots /\ socketGate = "draining" /\ n.pc \in SlotlessPcs
  PROVE  SocketsInv'
<1>1. SocketsTyped /\ SlotsCounted BY DEF SocketsInv
<1>2. sock \in [Sockets -> Socks] /\ IsFiniteSet(slots) BY <1>1 DEF SocketsTyped
<1>3. sock'[s] = n /\ \A q \in Sockets \ {s} : sock'[q] = sock[q] BY <1>2 DEF Turns
<1>4. /\ IsFiniteSet(slots') /\ slots' \subseteq Sockets
      /\ Cardinality(slots') <= MaxSlots
  <2>1. Cardinality(slots) <= MaxSlots /\ Cardinality(slots) \in Nat /\ MaxSlots \in Nat
    BY <1>1, <1>2, FS_CardinalityType, TerminalSocketsAssumption
    DEF SlotsCounted, TerminalSocketsAssumption
  <2>2. slots \subseteq Sockets BY <1>1 DEF SocketsTyped
  <2>3. CASE slots' = slots BY <1>2, <2>1, <2>2, <2>3
  <2>4. CASE slots' = slots \cup {s} /\ Cardinality(slots) < MaxSlots
    <3>1. /\ IsFiniteSet(slots \cup {s})
          /\ Cardinality(slots \cup {s}) = IF s \in slots THEN Cardinality(slots)
                                           ELSE Cardinality(slots) + 1
      BY <1>2, FS_AddElement
    <3> QED BY <2>1, <2>2, <2>4, <3>1
  <2>5. CASE slots' = slots \ {s}
    <3>1. /\ IsFiniteSet(slots \ {s})
          /\ Cardinality(slots \ {s}) = IF s \in slots THEN Cardinality(slots) - 1
                                        ELSE Cardinality(slots)
      BY <1>2, FS_RemoveElement
    <3> QED BY <2>1, <2>2, <2>5, <3>1
  <2> QED BY <2>3, <2>4, <2>5
<1>5. SocketsTyped'
  <2>1. sock' \in [Sockets -> Socks] BY <1>2 DEF Turns
  <2> QED BY <1>1, <1>4, <2>1 DEF SocketsTyped
<1>6. \A q \in Sockets : PlaceFine(sock'[q], socketGate', remote') /\ WireFine(sock'[q], wire'[q])
  BY <1>3 DEF SocketsInv
<1>7. /\ Reserved = {q \in Sockets : sock[q].pc \notin SlotlessPcs}
      /\ Reserved' = {q \in Sockets : sock'[q].pc \notin SlotlessPcs}
  BY DEF Reserved, SlotlessPcs
<1>8. SlotsCounted'
  <2>1. /\ Reserved \subseteq slots /\ (socketGate # "draining" => slots = Reserved)
        /\ (socketGate = "closed" => slots = {})
    BY <1>1 DEF SlotsCounted
  <2>2. Reserved' = IF n.pc \in SlotlessPcs THEN Reserved \ {s} ELSE Reserved \cup {s}
    BY <1>3, <1>7
  <2>3. s \in Reserved <=> sock[s].pc \notin SlotlessPcs BY <1>7
  <2>4. /\ Reserved' \subseteq slots' /\ (socketGate # "draining" => slots' = Reserved')
        /\ (socketGate = "closed" => slots' = {})
    BY <2>1, <2>2, <2>3
  <2> QED BY <1>4, <2>4 DEF SlotsCounted
<1> QED BY <1>5, <1>6, <1>8 DEF SocketsInv

\* The input of one connection moves, and perhaps its receiver.
LEMMA InputMoves ==
  ASSUME SocketsInv, NEW s \in Sockets, NEW n \in Socks, NEW w \in Wires,
         Turns(s, n), wire' = [wire EXCEPT ![s] = w],
         UNCHANGED <<slots, socketGate, remote>>, n.pc = sock[s].pc,
         PlaceFine(n, socketGate, remote), WireFine(n, w)
  PROVE  SocketsInv'
<1>1. SocketsTyped /\ SlotsCounted BY DEF SocketsInv
<1>2. sock \in [Sockets -> Socks] /\ wire \in [Sockets -> Wires] BY <1>1 DEF SocketsTyped
<1>3. /\ sock'[s] = n /\ \A q \in Sockets \ {s} : sock'[q] = sock[q]
      /\ wire'[s] = w /\ \A q \in Sockets \ {s} : wire'[q] = wire[q]
  BY <1>2 DEF Turns
<1>4. SocketsTyped'
  <2>1. sock' \in [Sockets -> Socks] /\ wire' \in [Sockets -> Wires] BY <1>2 DEF Turns
  <2> QED BY <1>1, <2>1 DEF SocketsTyped
<1>5. \A q \in Sockets : PlaceFine(sock'[q], socketGate', remote') /\ WireFine(sock'[q], wire'[q])
  BY <1>3 DEF SocketsInv
<1>6. SlotsCounted'
  <2>1. Reserved' = Reserved BY <1>3 DEF Reserved
  <2> QED BY <1>1, <2>1 DEF SlotsCounted
<1> QED BY <1>4, <1>5, <1>6 DEF SocketsInv

\* A connection in hand.
LEMMA OneSocket ==
  ASSUME SocketsInv, NEW s \in Sockets
  PROVE  /\ sock \in [Sockets -> Socks] /\ wire \in [Sockets -> Wires]
         /\ sock[s] \in Socks /\ wire[s] \in Wires
         /\ PlaceFine(sock[s], socketGate, remote) /\ WireFine(sock[s], wire[s])
         /\ socketGate \in {"open", "stopped", "draining", "closed"} /\ remote \in BOOLEAN
BY DEF SocketsInv, SocketsTyped

\* A connection at another place, with its tasks and its raw client.
LEMMA AtPlace ==
  ASSUME SocketsInv, NEW s \in Sockets, NEW v \in SockPcs, Becomes(s, v)
  PROVE  \E n \in Socks :
           /\ Turns(s, n)
           /\ n.pc = v /\ n.mode = sock[s].mode /\ n.bridge = sock[s].bridge /\ n.tx = sock[s].tx
           /\ n.rx = sock[s].rx /\ n.cancel = sock[s].cancel
<1>1. sock \in [Sockets -> Socks] /\ sock[s] \in Socks BY OneSocket
<1>2. Turns(s, WithPc(sock[s], v)) BY <1>1, Zenon DEF Becomes, Turns, WithPc
<1> QED BY <1>1, <1>2, WithPcKeeps

\* A connection without tasks, refused or at its end, and one that goes on to its next place.
LEMMA EndsFine ==
  ASSUME SocketsInv, NEW s \in Sockets, NEW n \in Socks,
         Unstarted(sock[s]), sock[s].bridge = "none",
         n.bridge = "none", n.tx = sock[s].tx, n.rx = sock[s].rx,
         n.pc \in {"end", "refused", "listing", "accepting", "opening", "greeting"},
         n.cancel = sock[s].cancel
  PROVE  PlaceFine(n, socketGate, remote) /\ WireFine(n, wire[s])
<1>1. PlaceFine(sock[s], socketGate, remote) /\ WireFine(sock[s], wire[s]) BY OneSocket
<1> QED BY <1>1 DEF PlaceFine, WireFine, Unstarted, Stopped

LEMMA DialStep ==
  ASSUME SocketsInv, NEW s \in Sockets, NEW m \in SockModes, Dial(s, m)
  PROVE  SocketsInv'
<1>1. /\ sock \in [Sockets -> Socks] /\ wire \in [Sockets -> Wires]
      /\ sock[s] \in Socks /\ wire[s] \in Wires
      /\ PlaceFine(sock[s], socketGate, remote) /\ WireFine(sock[s], wire[s])
      /\ socketGate \in {"open", "stopped", "draining", "closed"} /\ remote \in BOOLEAN
  BY OneSocket
<1>2. /\ sock[s].pc = "new" /\ UNCHANGED <<slots, socketGate, remote, wire>>
      /\ \/ sock' = [sock EXCEPT ![s].pc = "listing", ![s].mode = m]
         \/ Becomes(s, "end")
  BY DEF Dial, Stands, Becomes
<1>3. Unstarted(sock[s]) /\ sock[s].bridge = "none" BY <1>1, <1>2 DEF PlaceFine
<1>4. sock[s].pc \in SlotlessPcs /\ {"listing", "end"} \subseteq SlotlessPcs \cap SockPcs
  BY <1>2 DEF SlotlessPcs, SockPcs
<1>5. PICK n \in Socks :
        /\ Turns(s, n) /\ n.pc \in {"listing", "end"}
        /\ n.bridge = sock[s].bridge /\ n.tx = sock[s].tx /\ n.rx = sock[s].rx
        /\ n.cancel = sock[s].cancel
  <2>1. CASE sock' = [sock EXCEPT ![s].pc = "listing", ![s].mode = m]
    <3>1. PICK u1 \in Socks :
            /\ u1 = WithPc(sock[s], "listing")
            /\ u1.pc = "listing" /\ u1.mode = sock[s].mode /\ u1.bridge = sock[s].bridge /\ u1.tx = sock[s].tx
            /\ u1.rx = sock[s].rx /\ u1.cancel = sock[s].cancel
      BY <1>1, <1>4, WithPcKeeps
    <3>2. PICK u2 \in Socks :
            /\ u2 = WithMode(u1, m)
            /\ u2.pc = "listing" /\ u2.mode = m /\ u2.bridge = sock[s].bridge /\ u2.tx = sock[s].tx
            /\ u2.rx = sock[s].rx /\ u2.cancel = sock[s].cancel
      BY <1>1, <3>1, <1>4, WithModeKeeps
    <3>3. Turns(s, u2)
      BY <1>1, <3>1, <3>2, <2>1, Zenon DEF Turns, WithMode, WithPc
    <3> QED BY <3>2, <3>3
  <2>2. CASE Becomes(s, "end") BY <1>4, <2>2, AtPlace
  <2> QED BY <1>2, <2>1, <2>2
<1> QED BY <1>2, <1>3, <1>4, <1>5, EndsFine, SocketMoves

LEMMA ListedStep ==
  ASSUME SocketsInv, NEW s \in Sockets, ShellsListed(s)
  PROVE  SocketsInv'
<1>1. /\ sock \in [Sockets -> Socks] /\ wire \in [Sockets -> Wires]
      /\ sock[s] \in Socks /\ wire[s] \in Wires
      /\ PlaceFine(sock[s], socketGate, remote) /\ WireFine(sock[s], wire[s])
      /\ socketGate \in {"open", "stopped", "draining", "closed"} /\ remote \in BOOLEAN
  BY OneSocket
<1>2. /\ sock[s].pc = "listing" /\ UNCHANGED <<socketGate, remote, wire>>
      /\ \/ /\ Becomes(s, "accepting") /\ slots' = slots \cup {s}
            /\ socketGate = "open" /\ Cardinality(slots) < MaxSlots
         \/ Becomes(s, "end") /\ slots' = slots
  BY DEF ShellsListed, Stands, TakeSlot
<1>3. Unstarted(sock[s]) /\ sock[s].bridge = "none" BY <1>1, <1>2 DEF PlaceFine
<1>4. /\ sock[s].pc \in SlotlessPcs /\ "end" \in SlotlessPcs /\ "accepting" \notin SlotlessPcs
      /\ {"accepting", "end"} \subseteq SockPcs
  BY <1>2 DEF SlotlessPcs, SockPcs
<1>5. CASE Becomes(s, "accepting") /\ slots' = slots \cup {s}
           /\ socketGate = "open" /\ Cardinality(slots) < MaxSlots
  <2>1. PICK n \in Socks :
          /\ Turns(s, n)
          /\ n.pc = "accepting" /\ n.mode = sock[s].mode /\ n.bridge = sock[s].bridge
          /\ n.tx = sock[s].tx /\ n.rx = sock[s].rx /\ n.cancel = sock[s].cancel
    BY <1>4, <1>5, AtPlace
  <2> QED BY <1>2, <1>3, <1>4, <1>5, <2>1, EndsFine, SocketMoves
<1>6. CASE Becomes(s, "end") /\ slots' = slots
  <2>1. PICK n \in Socks :
          /\ Turns(s, n)
          /\ n.pc = "end" /\ n.mode = sock[s].mode /\ n.bridge = sock[s].bridge
          /\ n.tx = sock[s].tx /\ n.rx = sock[s].rx /\ n.cancel = sock[s].cancel
    BY <1>4, <1>6, AtPlace
  <2> QED BY <1>2, <1>3, <1>4, <1>6, <2>1, EndsFine, SocketMoves
<1> QED BY <1>2, <1>5, <1>6

LEMMA AcceptedStep ==
  ASSUME SocketsInv, NEW s \in Sockets, Accepted(s)
  PROVE  SocketsInv'
<1>1. /\ sock \in [Sockets -> Socks] /\ wire \in [Sockets -> Wires]
      /\ sock[s] \in Socks /\ wire[s] \in Wires
      /\ PlaceFine(sock[s], socketGate, remote) /\ WireFine(sock[s], wire[s])
      /\ socketGate \in {"open", "stopped", "draining", "closed"} /\ remote \in BOOLEAN
  BY OneSocket
<1>2. /\ sock[s].pc = "accepting" /\ UNCHANGED <<socketGate, remote, wire>>
      /\ \/ /\ Becomes(s, "greeting") \/ Becomes(s, "opening")
            /\ slots' = slots
         \/ Becomes(s, "end") /\ slots' = slots \ {s}
  BY DEF Accepted, Stands, SlotFreed
<1>3. Unstarted(sock[s]) /\ sock[s].bridge = "none" BY <1>1, <1>2 DEF PlaceFine
<1>4. /\ sock[s].pc \notin SlotlessPcs /\ "end" \in SlotlessPcs
      /\ "greeting" \notin SlotlessPcs /\ "opening" \notin SlotlessPcs
      /\ {"greeting", "opening", "end"} \subseteq SockPcs
  BY <1>2 DEF SlotlessPcs, SockPcs
<1>5. PICK v \in {"greeting", "opening", "end"} :
        /\ Becomes(s, v)
        /\ slots' = IF v = "end" THEN slots \ {s} ELSE slots
  BY <1>2
<1>6. PICK n \in Socks :
        /\ Turns(s, n)
        /\ n.pc = v /\ n.mode = sock[s].mode /\ n.bridge = sock[s].bridge
        /\ n.tx = sock[s].tx /\ n.rx = sock[s].rx /\ n.cancel = sock[s].cancel
  BY <1>4, <1>5, AtPlace
<1> QED BY <1>2, <1>3, <1>4, <1>5, <1>6, EndsFine, SocketMoves

LEMMA MachineAttachesStep ==
  ASSUME SocketsInv, NEW s \in Sockets, MachineAttaches(s)
  PROVE  SocketsInv'
<1>1. /\ sock \in [Sockets -> Socks] /\ wire \in [Sockets -> Wires]
      /\ sock[s] \in Socks /\ wire[s] \in Wires
      /\ PlaceFine(sock[s], socketGate, remote) /\ WireFine(sock[s], wire[s])
      /\ socketGate \in {"open", "stopped", "draining", "closed"} /\ remote \in BOOLEAN
  BY OneSocket
<1>2. /\ sock[s].pc \in {"opening", "refused"} /\ sock[s].bridge = "none"
      /\ UNCHANGED <<slots, socketGate, remote, wire>>
      /\ \/ sock[s].pc = "opening" /\ sock' = [sock EXCEPT ![s].bridge = "made"]
         \/ sock[s].pc = "refused" /\ sock' = [sock EXCEPT ![s].bridge = "lost"]
  BY DEF MachineAttaches, Stands
<1>7. {"made", "lost"} \subseteq RawClients
  BY DEF SockPcs, SockModes, RawClients, Senders, Receivers
<1>8. sock[s].pc \in SlotlessPcs <=> sock[s].pc = "refused"
  BY <1>2 DEF SlotlessPcs
<1>3. CASE sock[s].pc = "opening" /\ sock' = [sock EXCEPT ![s].bridge = "made"]
  <2>1. PICK u1 \in Socks :
          /\ u1 = WithBridge(sock[s], "made")
          /\ u1.pc = sock[s].pc /\ u1.mode = sock[s].mode /\ u1.bridge = "made" /\ u1.tx = sock[s].tx
          /\ u1.rx = sock[s].rx /\ u1.cancel = sock[s].cancel
    BY <1>1, <1>7, WithBridgeKeeps
  <2>2. Turns(s, u1)
    BY <1>1, <2>1, <1>3, Zenon DEF Turns, WithBridge
  <2>3. PlaceFine(u1, socketGate, remote) /\ WireFine(u1, wire[s])
    BY <1>1, <1>2, <1>3, <2>1 DEF PlaceFine, WireFine, Unstarted, Stopped
  <2>4. u1.pc \in SlotlessPcs <=> sock[s].pc \in SlotlessPcs
    BY <1>2, <1>3, <2>1 DEF SlotlessPcs
  <2>5. sock[s].pc \in SlotlessPcs \/ sock[s].pc \notin SlotlessPcs OBVIOUS
  <2> QED BY <1>1, <1>2, <1>3, <1>8, <2>1, <2>2, <2>3, <2>4, SocketMoves
<1>4. CASE sock[s].pc = "refused" /\ sock' = [sock EXCEPT ![s].bridge = "lost"]
  <2>1. PICK u1 \in Socks :
          /\ u1 = WithBridge(sock[s], "lost")
          /\ u1.pc = sock[s].pc /\ u1.mode = sock[s].mode /\ u1.bridge = "lost" /\ u1.tx = sock[s].tx
          /\ u1.rx = sock[s].rx /\ u1.cancel = sock[s].cancel
    BY <1>1, <1>7, WithBridgeKeeps
  <2>2. Turns(s, u1)
    BY <1>1, <2>1, <1>4, Zenon DEF Turns, WithBridge
  <2>3. PlaceFine(u1, socketGate, remote) /\ WireFine(u1, wire[s])
    BY <1>1, <1>2, <1>4, <2>1 DEF PlaceFine, WireFine, Unstarted, Stopped
  <2>4. u1.pc \in SlotlessPcs <=> sock[s].pc \in SlotlessPcs
    BY <1>2, <1>4, <2>1 DEF SlotlessPcs
  <2>5. sock[s].pc \in SlotlessPcs \/ sock[s].pc \notin SlotlessPcs OBVIOUS
  <2> QED BY <1>1, <1>2, <1>4, <1>8, <2>1, <2>2, <2>3, <2>4, SocketMoves
<1> QED BY <1>2, <1>3, <1>4

LEMMA OpenedStep ==
  ASSUME SocketsInv, NEW s \in Sockets, BridgeOpened(s)
  PROVE  SocketsInv'
<1>1. /\ sock \in [Sockets -> Socks] /\ wire \in [Sockets -> Wires]
      /\ sock[s] \in Socks /\ wire[s] \in Wires
      /\ PlaceFine(sock[s], socketGate, remote) /\ WireFine(sock[s], wire[s])
      /\ socketGate \in {"open", "stopped", "draining", "closed"} /\ remote \in BOOLEAN
  BY OneSocket
<1>2. /\ sock[s].pc = "opening" /\ sock[s].bridge = "made"
      /\ UNCHANGED <<slots, socketGate, remote, wire>>
      /\ sock' = [sock EXCEPT ![s].pc = "greeting", ![s].bridge = "held", ![s].mode = "snapshot"]
  BY DEF BridgeOpened, Stands
<1>7. "greeting" \in SockPcs /\ "held" \in RawClients /\ "snapshot" \in SockModes
  BY DEF SockPcs, SockModes, RawClients, Senders, Receivers
<1>8. sock[s].pc \notin SlotlessPcs /\ "greeting" \notin SlotlessPcs
  BY <1>2 DEF SlotlessPcs
<1>3. CASE sock' = [sock EXCEPT ![s].pc = "greeting", ![s].bridge = "held", ![s].mode = "snapshot"]
  <2>1. PICK u1 \in Socks :
          /\ u1 = WithPc(sock[s], "greeting")
          /\ u1.pc = "greeting" /\ u1.mode = sock[s].mode /\ u1.bridge = sock[s].bridge /\ u1.tx = sock[s].tx
          /\ u1.rx = sock[s].rx /\ u1.cancel = sock[s].cancel
    BY <1>1, <1>7, WithPcKeeps
  <2>2. PICK u2 \in Socks :
          /\ u2 = WithBridge(u1, "held")
          /\ u2.pc = "greeting" /\ u2.mode = sock[s].mode /\ u2.bridge = "held" /\ u2.tx = sock[s].tx
          /\ u2.rx = sock[s].rx /\ u2.cancel = sock[s].cancel
    BY <1>1, <2>1, <1>7, WithBridgeKeeps
  <2>3. PICK u3 \in Socks :
          /\ u3 = WithMode(u2, "snapshot")
          /\ u3.pc = "greeting" /\ u3.mode = "snapshot" /\ u3.bridge = "held" /\ u3.tx = sock[s].tx
          /\ u3.rx = sock[s].rx /\ u3.cancel = sock[s].cancel
    BY <1>1, <2>2, <1>7, WithModeKeeps
  <2>4. Turns(s, u3)
    BY <1>1, <2>1, <2>2, <2>3, <1>3, Zenon DEF Turns, WithBridge, WithMode, WithPc
  <2>5. PlaceFine(u3, socketGate, remote) /\ WireFine(u3, wire[s])
    BY <1>1, <1>2, <1>3, <2>3 DEF PlaceFine, WireFine, Unstarted, Stopped
  <2>6. u3.pc \in SlotlessPcs <=> sock[s].pc \in SlotlessPcs
    BY <1>2, <1>3, <2>3 DEF SlotlessPcs
  <2>7. sock[s].pc \in SlotlessPcs \/ sock[s].pc \notin SlotlessPcs OBVIOUS
  <2> QED BY <1>1, <1>2, <1>3, <1>8, <2>3, <2>4, <2>5, <2>6, SocketMoves
<1> QED BY <1>2, <1>3

LEMMA FallBackStep ==
  ASSUME SocketsInv, NEW s \in Sockets, FallBack(s)
  PROVE  SocketsInv'
<1>1. /\ sock \in [Sockets -> Socks] /\ wire \in [Sockets -> Wires]
      /\ sock[s] \in Socks /\ wire[s] \in Wires
      /\ PlaceFine(sock[s], socketGate, remote) /\ WireFine(sock[s], wire[s])
      /\ socketGate \in {"open", "stopped", "draining", "closed"} /\ remote \in BOOLEAN
  BY OneSocket
<1>2. /\ sock[s].pc = "opening" /\ sock[s].bridge = "none"
      /\ UNCHANGED <<slots, socketGate, remote, wire>>
      /\ sock' = [sock EXCEPT ![s].pc = "greeting", ![s].mode = "snapshot"]
  BY DEF FallBack, Stands
<1>7. "greeting" \in SockPcs /\ "snapshot" \in SockModes
  BY DEF SockPcs, SockModes, RawClients, Senders, Receivers
<1>8. sock[s].pc \notin SlotlessPcs /\ "greeting" \notin SlotlessPcs
  BY <1>2 DEF SlotlessPcs
<1>3. CASE sock' = [sock EXCEPT ![s].pc = "greeting", ![s].mode = "snapshot"]
  <2>1. PICK u1 \in Socks :
          /\ u1 = WithPc(sock[s], "greeting")
          /\ u1.pc = "greeting" /\ u1.mode = sock[s].mode /\ u1.bridge = sock[s].bridge /\ u1.tx = sock[s].tx
          /\ u1.rx = sock[s].rx /\ u1.cancel = sock[s].cancel
    BY <1>1, <1>7, WithPcKeeps
  <2>2. PICK u2 \in Socks :
          /\ u2 = WithMode(u1, "snapshot")
          /\ u2.pc = "greeting" /\ u2.mode = "snapshot" /\ u2.bridge = sock[s].bridge /\ u2.tx = sock[s].tx
          /\ u2.rx = sock[s].rx /\ u2.cancel = sock[s].cancel
    BY <1>1, <2>1, <1>7, WithModeKeeps
  <2>3. Turns(s, u2)
    BY <1>1, <2>1, <2>2, <1>3, Zenon DEF Turns, WithMode, WithPc
  <2>4. PlaceFine(u2, socketGate, remote) /\ WireFine(u2, wire[s])
    BY <1>1, <1>2, <1>3, <2>2 DEF PlaceFine, WireFine, Unstarted, Stopped
  <2>5. u2.pc \in SlotlessPcs <=> sock[s].pc \in SlotlessPcs
    BY <1>2, <1>3, <2>2 DEF SlotlessPcs
  <2>6. sock[s].pc \in SlotlessPcs \/ sock[s].pc \notin SlotlessPcs OBVIOUS
  <2> QED BY <1>1, <1>2, <1>3, <1>8, <2>2, <2>3, <2>4, <2>5, SocketMoves
<1> QED BY <1>2, <1>3

LEMMA OpeningFailsStep ==
  ASSUME SocketsInv, NEW s \in Sockets, OpeningFails(s)
  PROVE  SocketsInv'
<1>1. /\ sock \in [Sockets -> Socks] /\ wire \in [Sockets -> Wires]
      /\ sock[s] \in Socks /\ wire[s] \in Wires
      /\ PlaceFine(sock[s], socketGate, remote) /\ WireFine(sock[s], wire[s])
      /\ socketGate \in {"open", "stopped", "draining", "closed"} /\ remote \in BOOLEAN
  BY OneSocket
<1>2. /\ sock[s].pc = "opening" /\ slots' = slots \ {s} /\ UNCHANGED <<socketGate, remote, wire>>
      /\ \/ /\ sock[s].bridge = "none"
            /\ \/ sock' = [sock EXCEPT ![s].pc = "refused"]
               \/ sock' = [sock EXCEPT ![s].pc = "end"]
         \/ /\ remote
            /\ \/ sock' = [sock EXCEPT ![s].pc = "end", ![s].bridge = "lost"]
               \/ sock' = [sock EXCEPT ![s].pc = "end", ![s].bridge = "gone"]
  BY DEF OpeningFails, Stands, GivesSlotBack, SlotFreed, Becomes
<1>7. {"refused", "end"} \subseteq SockPcs /\ {"lost", "gone"} \subseteq RawClients
  BY DEF SockPcs, SockModes, RawClients, Senders, Receivers
<1>8. {"refused", "end"} \subseteq SlotlessPcs
  BY <1>2 DEF SlotlessPcs
<1>3. CASE sock[s].bridge = "none" /\ sock' = [sock EXCEPT ![s].pc = "refused"]
  <2>1. PICK u1 \in Socks :
          /\ u1 = WithPc(sock[s], "refused")
          /\ u1.pc = "refused" /\ u1.mode = sock[s].mode /\ u1.bridge = sock[s].bridge /\ u1.tx = sock[s].tx
          /\ u1.rx = sock[s].rx /\ u1.cancel = sock[s].cancel
    BY <1>1, <1>7, WithPcKeeps
  <2>2. Turns(s, u1)
    BY <1>1, <2>1, <1>3, Zenon DEF Turns, WithPc
  <2>3. PlaceFine(u1, socketGate, remote) /\ WireFine(u1, wire[s])
    BY <1>1, <1>2, <1>3, <2>1 DEF PlaceFine, WireFine, Unstarted, Stopped
  <2>4. u1.pc \in SlotlessPcs <=> TRUE
    BY <1>2, <1>3, <2>1 DEF SlotlessPcs
  <2>5. sock[s].pc \in SlotlessPcs \/ sock[s].pc \notin SlotlessPcs OBVIOUS
  <2> QED BY <1>1, <1>2, <1>3, <1>8, <2>1, <2>2, <2>3, <2>4, SocketMoves
<1>4. CASE sock[s].bridge = "none" /\ sock' = [sock EXCEPT ![s].pc = "end"]
  <2>1. PICK u1 \in Socks :
          /\ u1 = WithPc(sock[s], "end")
          /\ u1.pc = "end" /\ u1.mode = sock[s].mode /\ u1.bridge = sock[s].bridge /\ u1.tx = sock[s].tx
          /\ u1.rx = sock[s].rx /\ u1.cancel = sock[s].cancel
    BY <1>1, <1>7, WithPcKeeps
  <2>2. Turns(s, u1)
    BY <1>1, <2>1, <1>4, Zenon DEF Turns, WithPc
  <2>3. PlaceFine(u1, socketGate, remote) /\ WireFine(u1, wire[s])
    BY <1>1, <1>2, <1>4, <2>1 DEF PlaceFine, WireFine, Unstarted, Stopped
  <2>4. u1.pc \in SlotlessPcs <=> TRUE
    BY <1>2, <1>4, <2>1 DEF SlotlessPcs
  <2>5. sock[s].pc \in SlotlessPcs \/ sock[s].pc \notin SlotlessPcs OBVIOUS
  <2> QED BY <1>1, <1>2, <1>4, <1>8, <2>1, <2>2, <2>3, <2>4, SocketMoves
<1>5. CASE remote /\ sock' = [sock EXCEPT ![s].pc = "end", ![s].bridge = "lost"]
  <2>1. PICK u1 \in Socks :
          /\ u1 = WithPc(sock[s], "end")
          /\ u1.pc = "end" /\ u1.mode = sock[s].mode /\ u1.bridge = sock[s].bridge /\ u1.tx = sock[s].tx
          /\ u1.rx = sock[s].rx /\ u1.cancel = sock[s].cancel
    BY <1>1, <1>7, WithPcKeeps
  <2>2. PICK u2 \in Socks :
          /\ u2 = WithBridge(u1, "lost")
          /\ u2.pc = "end" /\ u2.mode = sock[s].mode /\ u2.bridge = "lost" /\ u2.tx = sock[s].tx
          /\ u2.rx = sock[s].rx /\ u2.cancel = sock[s].cancel
    BY <1>1, <2>1, <1>7, WithBridgeKeeps
  <2>3. Turns(s, u2)
    BY <1>1, <2>1, <2>2, <1>5, Zenon DEF Turns, WithBridge, WithPc
  <2>4. PlaceFine(u2, socketGate, remote) /\ WireFine(u2, wire[s])
    BY <1>1, <1>2, <1>5, <2>2 DEF PlaceFine, WireFine, Unstarted, Stopped
  <2>5. u2.pc \in SlotlessPcs <=> TRUE
    BY <1>2, <1>5, <2>2 DEF SlotlessPcs
  <2>6. sock[s].pc \in SlotlessPcs \/ sock[s].pc \notin SlotlessPcs OBVIOUS
  <2> QED BY <1>1, <1>2, <1>5, <1>8, <2>2, <2>3, <2>4, <2>5, SocketMoves
<1>6. CASE remote /\ sock' = [sock EXCEPT ![s].pc = "end", ![s].bridge = "gone"]
  <2>1. PICK u1 \in Socks :
          /\ u1 = WithPc(sock[s], "end")
          /\ u1.pc = "end" /\ u1.mode = sock[s].mode /\ u1.bridge = sock[s].bridge /\ u1.tx = sock[s].tx
          /\ u1.rx = sock[s].rx /\ u1.cancel = sock[s].cancel
    BY <1>1, <1>7, WithPcKeeps
  <2>2. PICK u2 \in Socks :
          /\ u2 = WithBridge(u1, "gone")
          /\ u2.pc = "end" /\ u2.mode = sock[s].mode /\ u2.bridge = "gone" /\ u2.tx = sock[s].tx
          /\ u2.rx = sock[s].rx /\ u2.cancel = sock[s].cancel
    BY <1>1, <2>1, <1>7, WithBridgeKeeps
  <2>3. Turns(s, u2)
    BY <1>1, <2>1, <2>2, <1>6, Zenon DEF Turns, WithBridge, WithPc
  <2>4. PlaceFine(u2, socketGate, remote) /\ WireFine(u2, wire[s])
    BY <1>1, <1>2, <1>6, <2>2 DEF PlaceFine, WireFine, Unstarted, Stopped
  <2>5. u2.pc \in SlotlessPcs <=> TRUE
    BY <1>2, <1>6, <2>2 DEF SlotlessPcs
  <2>6. sock[s].pc \in SlotlessPcs \/ sock[s].pc \notin SlotlessPcs OBVIOUS
  <2> QED BY <1>1, <1>2, <1>6, <1>8, <2>2, <2>3, <2>4, <2>5, SocketMoves
<1> QED BY <1>2, <1>3, <1>4, <1>5, <1>6

LEMMA GreetedStep ==
  ASSUME SocketsInv, NEW s \in Sockets, Greeted(s)
  PROVE  SocketsInv'
<1>1. /\ sock \in [Sockets -> Socks] /\ wire \in [Sockets -> Wires]
      /\ sock[s] \in Socks /\ wire[s] \in Wires
      /\ PlaceFine(sock[s], socketGate, remote) /\ WireFine(sock[s], wire[s])
      /\ socketGate \in {"open", "stopped", "draining", "closed"} /\ remote \in BOOLEAN
  BY OneSocket
<1>2. /\ sock[s].pc = "greeting" /\ UNCHANGED <<slots, socketGate, remote, wire>>
      /\ \/ sock' = [sock EXCEPT ![s].pc = "serving", ![s].tx = "reading", ![s].rx = "waiting",
                                 ![s].touched = FALSE, ![s].fired = FALSE]
         \/ sock' = [sock EXCEPT ![s].pc = "cleaning"]
  BY DEF Greeted, Stands
<1>7. {"serving", "cleaning"} \subseteq SockPcs /\ "reading" \in Senders /\ "waiting" \in Receivers
  BY DEF SockPcs, SockModes, RawClients, Senders, Receivers
<1>8. sock[s].pc \notin SlotlessPcs /\ "serving" \notin SlotlessPcs /\ "cleaning" \notin SlotlessPcs
  BY <1>2 DEF SlotlessPcs
<1>5. wire[s].calls = {} /\ Len(wire[s].got) = wire[s].typed
  <2>1. wire[s].got \in Seq(Nat) BY <1>1, SMT DEF Wires, Inputs
  <2>2. Len(wire[s].got) \in Nat BY <2>1
  <2> QED BY <1>1, <1>2, <2>2 DEF PlaceFine, WireFine, Unstarted
<1>3. CASE sock' = [sock EXCEPT ![s].pc = "serving", ![s].tx = "reading", ![s].rx = "waiting",
                                    ![s].touched = FALSE, ![s].fired = FALSE]
  <2>1. PICK u1 \in Socks :
          /\ u1 = WithPc(sock[s], "serving")
          /\ u1.pc = "serving" /\ u1.mode = sock[s].mode /\ u1.bridge = sock[s].bridge /\ u1.tx = sock[s].tx
          /\ u1.rx = sock[s].rx /\ u1.cancel = sock[s].cancel
    BY <1>1, <1>7, WithPcKeeps
  <2>2. PICK u2 \in Socks :
          /\ u2 = WithTx(u1, "reading")
          /\ u2.pc = "serving" /\ u2.mode = sock[s].mode /\ u2.bridge = sock[s].bridge /\ u2.tx = "reading"
          /\ u2.rx = sock[s].rx /\ u2.cancel = sock[s].cancel
    BY <1>1, <2>1, <1>7, WithTxKeeps
  <2>3. PICK u3 \in Socks :
          /\ u3 = WithRx(u2, "waiting")
          /\ u3.pc = "serving" /\ u3.mode = sock[s].mode /\ u3.bridge = sock[s].bridge /\ u3.tx = "reading"
          /\ u3.rx = "waiting" /\ u3.cancel = sock[s].cancel
    BY <1>1, <2>2, <1>7, WithRxKeeps
  <2>4. PICK u4 \in Socks :
          /\ u4 = TouchReset(u3)
          /\ u4.pc = "serving" /\ u4.mode = sock[s].mode /\ u4.bridge = sock[s].bridge /\ u4.tx = "reading"
          /\ u4.rx = "waiting" /\ u4.cancel = sock[s].cancel
    BY <1>1, <2>3, <1>7, TouchResetKeeps
  <2>5. PICK u5 \in Socks :
          /\ u5 = FireReset(u4)
          /\ u5.pc = "serving" /\ u5.mode = sock[s].mode /\ u5.bridge = sock[s].bridge /\ u5.tx = "reading"
          /\ u5.rx = "waiting" /\ u5.cancel = sock[s].cancel
    BY <1>1, <2>4, <1>7, FireResetKeeps
  <2>6. Turns(s, u5)
    BY <1>1, <2>1, <2>2, <2>3, <2>4, <2>5, <1>3, Zenon DEF Turns, FireReset, TouchReset, WithPc, WithRx, WithTx
  <2>7. PlaceFine(u5, socketGate, remote) /\ WireFine(u5, wire[s])
    BY <1>1, <1>2, <1>3, <2>5, <1>5 DEF PlaceFine, WireFine, Unstarted, Stopped
  <2>8. u5.pc \in SlotlessPcs <=> sock[s].pc \in SlotlessPcs
    BY <1>2, <1>3, <2>5 DEF SlotlessPcs
  <2>9. sock[s].pc \in SlotlessPcs \/ sock[s].pc \notin SlotlessPcs OBVIOUS
  <2> QED BY <1>1, <1>2, <1>3, <1>8, <2>5, <2>6, <2>7, <2>8, SocketMoves
<1>4. CASE sock' = [sock EXCEPT ![s].pc = "cleaning"]
  <2>1. PICK u1 \in Socks :
          /\ u1 = WithPc(sock[s], "cleaning")
          /\ u1.pc = "cleaning" /\ u1.mode = sock[s].mode /\ u1.bridge = sock[s].bridge /\ u1.tx = sock[s].tx
          /\ u1.rx = sock[s].rx /\ u1.cancel = sock[s].cancel
    BY <1>1, <1>7, WithPcKeeps
  <2>2. Turns(s, u1)
    BY <1>1, <2>1, <1>4, Zenon DEF Turns, WithPc
  <2>3. PlaceFine(u1, socketGate, remote) /\ WireFine(u1, wire[s])
    BY <1>1, <1>2, <1>4, <2>1 DEF PlaceFine, WireFine, Unstarted, Stopped
  <2>4. u1.pc \in SlotlessPcs <=> sock[s].pc \in SlotlessPcs
    BY <1>2, <1>4, <2>1 DEF SlotlessPcs
  <2>5. sock[s].pc \in SlotlessPcs \/ sock[s].pc \notin SlotlessPcs OBVIOUS
  <2> QED BY <1>1, <1>2, <1>4, <1>8, <2>1, <2>2, <2>3, <2>4, SocketMoves
<1> QED BY <1>2, <1>3, <1>4

\* A task that runs moves, and the connection stays where it is.
LEMMA TasksFine ==
  ASSUME SocketsInv, NEW s \in Sockets, NEW n \in Socks, ~Stopped(sock[s]),
         n.pc = sock[s].pc, n.bridge = sock[s].bridge, n.cancel = sock[s].cancel
  PROVE  /\ PlaceFine(n, socketGate, remote) /\ sock[s].rx \in {"off", "waiting", "calling", "done"}
         /\ (n.pc \in SlotlessPcs <=> sock[s].pc \in SlotlessPcs)
<1>1. PlaceFine(sock[s], socketGate, remote) /\ sock[s] \in Socks BY OneSocket
<1>2. PlaceFine(n, socketGate, remote) BY <1>1 DEF PlaceFine, Unstarted, Stopped
<1>3. sock[s].rx \in {"off", "waiting", "calling", "done"} BY <1>1, SMT DEF Socks, Receivers
<1> QED BY <1>2, <1>3

LEMMA TaskMoves ==
  ASSUME SocketsInv, NEW s \in Sockets, NEW n \in Socks, ~Stopped(sock[s]),
         Turns(s, n), UNCHANGED <<slots, socketGate, remote, wire>>,
         n.pc = sock[s].pc, n.bridge = sock[s].bridge, n.cancel = sock[s].cancel,
         WireFine(n, wire[s])
  PROVE  SocketsInv'
BY TasksFine, SocketMoves

LEMMA SenderStepStep ==
  ASSUME SocketsInv, NEW s \in Sockets, SenderStep(s)
  PROVE  SocketsInv'
<1>1. /\ sock \in [Sockets -> Socks] /\ wire \in [Sockets -> Wires]
      /\ sock[s] \in Socks /\ wire[s] \in Wires
      /\ PlaceFine(sock[s], socketGate, remote) /\ WireFine(sock[s], wire[s])
      /\ socketGate \in {"open", "stopped", "draining", "closed"} /\ remote \in BOOLEAN
  BY OneSocket
<1>2. /\ sock[s].tx = "reading" /\ UNCHANGED <<slots, socketGate, remote, wire>>
      /\ \/ sock' = sock
         \/ sock' = [sock EXCEPT ![s].touched = TRUE]
         \/ sock' = [sock EXCEPT ![s].tx = "done"]
  BY DEF SenderStep, Lively
<1>6. ~Stopped(sock[s]) BY <1>2 DEF Stopped
<1>7. "done" \in Senders
  BY DEF SockPcs, SockModes, RawClients, Senders, Receivers
<1>3. CASE sock' = sock
  <2>1. Turns(s, sock[s]) BY <1>1, <1>3, Zenon DEF Turns
  <2> QED BY <1>1, <1>2, <1>6, <2>1, TaskMoves
<1>4. CASE sock' = [sock EXCEPT ![s].touched = TRUE]
  <2>1. PICK u1 \in Socks :
          /\ u1 = TouchSet(sock[s])
          /\ u1.pc = sock[s].pc /\ u1.mode = sock[s].mode /\ u1.bridge = sock[s].bridge /\ u1.tx = sock[s].tx
          /\ u1.rx = sock[s].rx /\ u1.cancel = sock[s].cancel
    BY <1>1, <1>7, TouchSetKeeps
  <2>2. Turns(s, u1)
    BY <1>1, <2>1, <1>4, Zenon DEF Turns, TouchSet
  <2>3. WireFine(u1, wire[s])
    BY <1>1, <1>2, <1>4, <2>1 DEF WireFine
  <2> QED BY <1>1, <1>2, <1>6, <2>1, <2>2, <2>3, TaskMoves
<1>5. CASE sock' = [sock EXCEPT ![s].tx = "done"]
  <2>1. PICK u1 \in Socks :
          /\ u1 = WithTx(sock[s], "done")
          /\ u1.pc = sock[s].pc /\ u1.mode = sock[s].mode /\ u1.bridge = sock[s].bridge /\ u1.tx = "done"
          /\ u1.rx = sock[s].rx /\ u1.cancel = sock[s].cancel
    BY <1>1, <1>7, WithTxKeeps
  <2>2. Turns(s, u1)
    BY <1>1, <2>1, <1>5, Zenon DEF Turns, WithTx
  <2>3. WireFine(u1, wire[s])
    BY <1>1, <1>2, <1>5, <2>1 DEF WireFine
  <2> QED BY <1>1, <1>2, <1>6, <2>1, <2>2, <2>3, TaskMoves
<1> QED BY <1>2, <1>3, <1>4, <1>5

LEMMA OtherFrameStep ==
  ASSUME SocketsInv, NEW s \in Sockets, OtherFrame(s)
  PROVE  SocketsInv'
<1>1. /\ sock \in [Sockets -> Socks] /\ wire \in [Sockets -> Wires]
      /\ sock[s] \in Socks /\ wire[s] \in Wires
      /\ PlaceFine(sock[s], socketGate, remote) /\ WireFine(sock[s], wire[s])
      /\ socketGate \in {"open", "stopped", "draining", "closed"} /\ remote \in BOOLEAN
  BY OneSocket
<1>2. /\ sock[s].rx = "waiting" /\ UNCHANGED <<slots, socketGate, remote, wire>>
      /\ \/ sock' = [sock EXCEPT ![s].touched = TRUE]
         \/ sock' = [sock EXCEPT ![s].rx = "done"]
  BY DEF OtherFrame, Lively
<1>6. ~Stopped(sock[s]) BY <1>2 DEF Stopped
<1>7. "done" \in Receivers
  BY DEF SockPcs, SockModes, RawClients, Senders, Receivers
<1>4. CASE sock' = [sock EXCEPT ![s].touched = TRUE]
  <2>1. PICK u1 \in Socks :
          /\ u1 = TouchSet(sock[s])
          /\ u1.pc = sock[s].pc /\ u1.mode = sock[s].mode /\ u1.bridge = sock[s].bridge /\ u1.tx = sock[s].tx
          /\ u1.rx = sock[s].rx /\ u1.cancel = sock[s].cancel
    BY <1>1, <1>7, TouchSetKeeps
  <2>2. Turns(s, u1)
    BY <1>1, <2>1, <1>4, Zenon DEF Turns, TouchSet
  <2>3. WireFine(u1, wire[s])
    BY <1>1, <1>2, <1>4, <2>1 DEF WireFine
  <2> QED BY <1>1, <1>2, <1>6, <2>1, <2>2, <2>3, TaskMoves
<1>5. CASE sock' = [sock EXCEPT ![s].rx = "done"]
  <2>1. PICK u1 \in Socks :
          /\ u1 = WithRx(sock[s], "done")
          /\ u1.pc = sock[s].pc /\ u1.mode = sock[s].mode /\ u1.bridge = sock[s].bridge /\ u1.tx = sock[s].tx
          /\ u1.rx = "done" /\ u1.cancel = sock[s].cancel
    BY <1>1, <1>7, WithRxKeeps
  <2>2. Turns(s, u1)
    BY <1>1, <2>1, <1>5, Zenon DEF Turns, WithRx
  <2>3. WireFine(u1, wire[s])
    BY <1>1, <1>2, <1>5, <2>1 DEF WireFine
  <2> QED BY <1>1, <1>2, <1>6, <2>1, <2>2, <2>3, TaskMoves
<1> QED BY <1>2, <1>4, <1>5

LEMMA AnsweredStep ==
  ASSUME SocketsInv, NEW s \in Sockets, InputAnswered(s)
  PROVE  SocketsInv'
<1>1. /\ sock \in [Sockets -> Socks] /\ wire \in [Sockets -> Wires]
      /\ sock[s] \in Socks /\ wire[s] \in Wires
      /\ PlaceFine(sock[s], socketGate, remote) /\ WireFine(sock[s], wire[s])
      /\ socketGate \in {"open", "stopped", "draining", "closed"} /\ remote \in BOOLEAN
  BY OneSocket
<1>2. /\ sock[s].rx = "calling" /\ UNCHANGED <<slots, socketGate, remote, wire>>
      /\ \/ /\ wire[s].calls = {} /\ Len(wire[s].got) = wire[s].typed
            /\ sock' = [sock EXCEPT ![s].rx = "waiting", ![s].touched = FALSE, ![s].fired = FALSE]
         \/ sock' = [sock EXCEPT ![s].rx = "done"]
  BY DEF InputAnswered, EndsReceiver
<1>6. ~Stopped(sock[s]) BY <1>2 DEF Stopped
<1>7. {"waiting", "done"} \subseteq Receivers
  BY DEF SockPcs, SockModes, RawClients, Senders, Receivers
<1>4. CASE /\ wire[s].calls = {} /\ Len(wire[s].got) = wire[s].typed
          /\ sock' = [sock EXCEPT ![s].rx = "waiting", ![s].touched = FALSE, ![s].fired = FALSE]
  <2>1. PICK u1 \in Socks :
          /\ u1 = WithRx(sock[s], "waiting")
          /\ u1.pc = sock[s].pc /\ u1.mode = sock[s].mode /\ u1.bridge = sock[s].bridge /\ u1.tx = sock[s].tx
          /\ u1.rx = "waiting" /\ u1.cancel = sock[s].cancel
    BY <1>1, <1>7, WithRxKeeps
  <2>2. PICK u2 \in Socks :
          /\ u2 = TouchReset(u1)
          /\ u2.pc = sock[s].pc /\ u2.mode = sock[s].mode /\ u2.bridge = sock[s].bridge /\ u2.tx = sock[s].tx
          /\ u2.rx = "waiting" /\ u2.cancel = sock[s].cancel
    BY <1>1, <2>1, <1>7, TouchResetKeeps
  <2>3. PICK u3 \in Socks :
          /\ u3 = FireReset(u2)
          /\ u3.pc = sock[s].pc /\ u3.mode = sock[s].mode /\ u3.bridge = sock[s].bridge /\ u3.tx = sock[s].tx
          /\ u3.rx = "waiting" /\ u3.cancel = sock[s].cancel
    BY <1>1, <2>2, <1>7, FireResetKeeps
  <2>4. Turns(s, u3)
    BY <1>1, <2>1, <2>2, <2>3, <1>4, Zenon DEF Turns, FireReset, TouchReset, WithRx
  <2>5. WireFine(u3, wire[s])
    BY <1>1, <1>2, <1>4, <2>3 DEF WireFine
  <2> QED BY <1>1, <1>2, <1>6, <2>3, <2>4, <2>5, TaskMoves
<1>5. CASE sock' = [sock EXCEPT ![s].rx = "done"]
  <2>1. PICK u1 \in Socks :
          /\ u1 = WithRx(sock[s], "done")
          /\ u1.pc = sock[s].pc /\ u1.mode = sock[s].mode /\ u1.bridge = sock[s].bridge /\ u1.tx = sock[s].tx
          /\ u1.rx = "done" /\ u1.cancel = sock[s].cancel
    BY <1>1, <1>7, WithRxKeeps
  <2>2. Turns(s, u1)
    BY <1>1, <2>1, <1>5, Zenon DEF Turns, WithRx
  <2>3. WireFine(u1, wire[s])
    BY <1>1, <1>2, <1>5, <2>1 DEF WireFine
  <2> QED BY <1>1, <1>2, <1>6, <2>1, <2>2, <2>3, TaskMoves
<1> QED BY <1>2, <1>4, <1>5

LEMMA IdleStep ==
  ASSUME SocketsInv, NEW s \in Sockets, IdleTime(s) \/ IdleTimeout(s)
  PROVE  SocketsInv'
<1>1. /\ sock \in [Sockets -> Socks] /\ wire \in [Sockets -> Wires]
      /\ sock[s] \in Socks /\ wire[s] \in Wires
      /\ PlaceFine(sock[s], socketGate, remote) /\ WireFine(sock[s], wire[s])
      /\ socketGate \in {"open", "stopped", "draining", "closed"} /\ remote \in BOOLEAN
  BY OneSocket
<1>2. /\ sock[s].rx = "waiting" /\ UNCHANGED <<slots, socketGate, remote, wire>>
      /\ \/ sock' = [sock EXCEPT ![s].fired = TRUE]
         \/ sock' = [sock EXCEPT ![s].rx = "done"]
         \/ sock' = [sock EXCEPT ![s].fired = FALSE, ![s].touched = FALSE]
  BY DEF IdleTime, IdleTimeout
<1>6. ~Stopped(sock[s]) BY <1>2 DEF Stopped
<1>7. "done" \in Receivers
  BY DEF SockPcs, SockModes, RawClients, Senders, Receivers
<1>3. CASE sock' = [sock EXCEPT ![s].fired = TRUE]
  <2>1. PICK u1 \in Socks :
          /\ u1 = FireSet(sock[s])
          /\ u1.pc = sock[s].pc /\ u1.mode = sock[s].mode /\ u1.bridge = sock[s].bridge /\ u1.tx = sock[s].tx
          /\ u1.rx = sock[s].rx /\ u1.cancel = sock[s].cancel
    BY <1>1, <1>7, FireSetKeeps
  <2>2. Turns(s, u1)
    BY <1>1, <2>1, <1>3, Zenon DEF Turns, FireSet
  <2>3. WireFine(u1, wire[s])
    BY <1>1, <1>2, <1>3, <2>1 DEF WireFine
  <2> QED BY <1>1, <1>2, <1>6, <2>1, <2>2, <2>3, TaskMoves
<1>4. CASE sock' = [sock EXCEPT ![s].rx = "done"]
  <2>1. PICK u1 \in Socks :
          /\ u1 = WithRx(sock[s], "done")
          /\ u1.pc = sock[s].pc /\ u1.mode = sock[s].mode /\ u1.bridge = sock[s].bridge /\ u1.tx = sock[s].tx
          /\ u1.rx = "done" /\ u1.cancel = sock[s].cancel
    BY <1>1, <1>7, WithRxKeeps
  <2>2. Turns(s, u1)
    BY <1>1, <2>1, <1>4, Zenon DEF Turns, WithRx
  <2>3. WireFine(u1, wire[s])
    BY <1>1, <1>2, <1>4, <2>1 DEF WireFine
  <2> QED BY <1>1, <1>2, <1>6, <2>1, <2>2, <2>3, TaskMoves
<1>5. CASE sock' = [sock EXCEPT ![s].fired = FALSE, ![s].touched = FALSE]
  <2>1. PICK u1 \in Socks :
          /\ u1 = FireReset(sock[s])
          /\ u1.pc = sock[s].pc /\ u1.mode = sock[s].mode /\ u1.bridge = sock[s].bridge /\ u1.tx = sock[s].tx
          /\ u1.rx = sock[s].rx /\ u1.cancel = sock[s].cancel
    BY <1>1, <1>7, FireResetKeeps
  <2>2. PICK u2 \in Socks :
          /\ u2 = TouchReset(u1)
          /\ u2.pc = sock[s].pc /\ u2.mode = sock[s].mode /\ u2.bridge = sock[s].bridge /\ u2.tx = sock[s].tx
          /\ u2.rx = sock[s].rx /\ u2.cancel = sock[s].cancel
    BY <1>1, <2>1, <1>7, TouchResetKeeps
  <2>3. Turns(s, u2)
    BY <1>1, <2>1, <2>2, <1>5, Zenon DEF Turns, FireReset, TouchReset
  <2>4. WireFine(u2, wire[s])
    BY <1>1, <1>2, <1>5, <2>2 DEF WireFine
  <2> QED BY <1>1, <1>2, <1>6, <2>2, <2>3, <2>4, TaskMoves
<1> QED BY <1>2, <1>3, <1>4, <1>5

\* What a shell got, what was typed and what is under way.
PutTyped(w, v) == [w EXCEPT !.typed = v]
PutCalls(w, v) == [w EXCEPT !.calls = v]
PutGot(w, v) == [w EXCEPT !.got = v]

LEMMA PutTypedKeeps ==
  ASSUME NEW w \in Wires, NEW v \in Nat
  PROVE  /\ PutTyped(w, v) \in Wires /\ PutTyped(w, v).typed = v
         /\ PutTyped(w, v).calls = w.calls /\ PutTyped(w, v).got = w.got
<1>1. PICK n : n = [w EXCEPT !.typed = v] OBVIOUS
<1>2. n \in Wires BY <1>1, SMT DEF Wires
<1>3. n.typed = v /\ n.calls = w.calls /\ n.got = w.got BY <1>1, <1>2, SMT DEF Wires
<1>4. n = PutTyped(w, v) BY <1>1 DEF PutTyped
<1> QED BY <1>2, <1>3, <1>4

LEMMA PutCallsKeeps ==
  ASSUME NEW w \in Wires, NEW v \in CallSets
  PROVE  /\ PutCalls(w, v) \in Wires /\ PutCalls(w, v).calls = v
         /\ PutCalls(w, v).typed = w.typed /\ PutCalls(w, v).got = w.got
<1>1. PICK n : n = [w EXCEPT !.calls = v] OBVIOUS
<1>2. n \in Wires BY <1>1, SMT DEF Wires
<1>3. n.calls = v /\ n.typed = w.typed /\ n.got = w.got BY <1>1, <1>2, SMT DEF Wires
<1>4. n = PutCalls(w, v) BY <1>1 DEF PutCalls
<1> QED BY <1>2, <1>3, <1>4

LEMMA PutGotKeeps ==
  ASSUME NEW w \in Wires, NEW v \in Inputs
  PROVE  /\ PutGot(w, v) \in Wires /\ PutGot(w, v).got = v
         /\ PutGot(w, v).typed = w.typed /\ PutGot(w, v).calls = w.calls
<1>1. PICK n : n = [w EXCEPT !.got = v] OBVIOUS
<1>2. n \in Wires BY <1>1, SMT DEF Wires
<1>3. n.got = v /\ n.typed = w.typed /\ n.calls = w.calls BY <1>1, <1>2, SMT DEF Wires
<1>4. n = PutGot(w, v) BY <1>1 DEF PutGot
<1> QED BY <1>2, <1>3, <1>4

WithTyped(w, k) == [w EXCEPT !.typed = @ + 1, !.calls = @ \cup {k}]
WithGot(w, k) == [w EXCEPT !.calls = @ \ {k}, !.got = Append(@, k)]
WithoutCall(w, k) == [w EXCEPT !.calls = @ \ {k}]

LEMMA WiresKeep ==
  ASSUME NEW w \in Wires, NEW k \in Nat
  PROVE  /\ WithTyped(w, k) \in Wires /\ WithTyped(w, k).typed = w.typed + 1
         /\ WithTyped(w, k).calls = w.calls \cup {k} /\ WithTyped(w, k).got = w.got
         /\ WithGot(w, k) \in Wires /\ WithGot(w, k).typed = w.typed
         /\ WithGot(w, k).calls = w.calls \ {k} /\ WithGot(w, k).got = Append(w.got, k)
         /\ WithoutCall(w, k) \in Wires /\ WithoutCall(w, k).typed = w.typed
         /\ WithoutCall(w, k).calls = w.calls \ {k} /\ WithoutCall(w, k).got = w.got
         /\ w.typed \in Nat /\ w.calls \subseteq Nat /\ w.got \in Seq(Nat)
<1>1. w.typed \in Nat /\ w.calls \subseteq Nat /\ w.got \in Seq(Nat)
  <2>1. w.typed \in Nat /\ w.calls \in CallSets /\ w.got \in Inputs BY SMT DEF Wires
  <2> QED BY <2>1 DEF CallSets, Inputs
<1>2. PICK t \in Nat : t = w.typed + 1 BY <1>1
<1>3. PICK a \in CallSets : a = w.calls \cup {k} BY <1>1 DEF CallSets
<1>4. PICK c \in CallSets : c = w.calls \ {k} BY <1>1 DEF CallSets
<1>5. PICK g \in Inputs : g = Append(w.got, k)
  <2>1. PICK q \in Seq(Nat) : q = w.got BY <1>1
  <2>2. Append(q, k) \in Seq(Nat) OBVIOUS
  <2> QED BY <2>1, <2>2 DEF Inputs
<1>8. /\ PutTyped(w, t) \in Wires /\ PutTyped(w, t).typed = t
      /\ PutTyped(w, t).calls = w.calls /\ PutTyped(w, t).got = w.got
  BY PutTypedKeeps
<1>9. /\ PutCalls(w, c) \in Wires /\ PutCalls(w, c).typed = w.typed
      /\ PutCalls(w, c).calls = c /\ PutCalls(w, c).got = w.got
  BY PutCallsKeeps
<1>10. /\ PutCalls(PutTyped(w, t), a) \in Wires /\ PutCalls(PutTyped(w, t), a).typed = t
       /\ PutCalls(PutTyped(w, t), a).calls = a /\ PutCalls(PutTyped(w, t), a).got = w.got
  BY <1>8, PutCallsKeeps
<1>11. /\ PutGot(PutCalls(w, c), g) \in Wires /\ PutGot(PutCalls(w, c), g).typed = w.typed
       /\ PutGot(PutCalls(w, c), g).calls = c /\ PutGot(PutCalls(w, c), g).got = g
  BY <1>9, PutGotKeeps
<1>12. PutCalls(PutTyped(w, t), a) = WithTyped(w, k)
  BY <1>2, <1>3, Zenon DEF WithTyped, PutCalls, PutTyped
<1>13. PutGot(PutCalls(w, c), g) = WithGot(w, k)
  BY <1>4, <1>5, Zenon DEF WithGot, PutCalls, PutGot
<1>14. PutCalls(w, c) = WithoutCall(w, k) BY <1>4, Zenon DEF WithoutCall, PutCalls
<1> QED BY <1>1, <1>2, <1>3, <1>4, <1>5, <1>9, <1>10, <1>11, <1>12, <1>13, <1>14

\* Numbers in order, with the next.
LEMMA OneMoreInOrder ==
  ASSUME NEW q \in Seq(Nat), InOrder(q), NEW k, k = Len(q) + 1
  PROVE  /\ InOrder(Append(q, k))
         /\ Len(Append(q, k)) = k
<1>1. Len(q) \in Nat /\ k \in Nat OBVIOUS
<1>2. Len(Append(q, k)) = k BY <1>1
<1>3. Append(q, k) = [n \in 1..k |-> IF n = k THEN k ELSE q[n]]
  BY <1>1
<1>4. \A n \in 1..k : (IF n = k THEN k ELSE q[n]) = n BY <1>1 DEF InOrder
<1> QED BY <1>2, <1>3, <1>4 DEF InOrder

LEMMA TypedStep ==
  ASSUME SocketsInv, NEW s \in Sockets, Typed(s)
  PROVE  SocketsInv'
<1>1. /\ sock \in [Sockets -> Socks] /\ wire \in [Sockets -> Wires]
      /\ sock[s] \in Socks /\ wire[s] \in Wires
      /\ PlaceFine(sock[s], socketGate, remote) /\ WireFine(sock[s], wire[s])
      /\ socketGate \in {"open", "stopped", "draining", "closed"} /\ remote \in BOOLEAN
  BY OneSocket
<1>2. /\ sock[s].rx = "waiting" /\ UNCHANGED <<slots, socketGate, remote>>
      /\ sock' = [[sock EXCEPT ![s].touched = TRUE] EXCEPT ![s].rx = "calling"]
      /\ wire' = [wire EXCEPT ![s].typed = @ + 1, ![s].calls = @ \cup {wire[s].typed + 1}]
  BY DEF Typed, Lively
<1>6. ~Stopped(sock[s]) BY <1>2 DEF Stopped
<1>7. "calling" \in Receivers
  BY DEF SockPcs, SockModes, RawClients, Senders, Receivers
<1>3. PICK n \in Socks :
        /\ Turns(s, n) /\ n.rx = "calling"
        /\ n.pc = sock[s].pc /\ n.bridge = sock[s].bridge /\ n.cancel = sock[s].cancel
  <2>1. PICK u1 \in Socks :
          /\ u1 = TouchSet(sock[s])
          /\ u1.pc = sock[s].pc /\ u1.mode = sock[s].mode /\ u1.bridge = sock[s].bridge /\ u1.tx = sock[s].tx
          /\ u1.rx = sock[s].rx /\ u1.cancel = sock[s].cancel
    BY <1>1, <1>7, TouchSetKeeps
  <2>2. PICK u2 \in Socks :
          /\ u2 = WithRx(u1, "calling")
          /\ u2.pc = sock[s].pc /\ u2.mode = sock[s].mode /\ u2.bridge = sock[s].bridge /\ u2.tx = sock[s].tx
          /\ u2.rx = "calling" /\ u2.cancel = sock[s].cancel
    BY <1>1, <2>1, <1>7, WithRxKeeps
  <2>3. Turns(s, u2)
    BY <1>1, <2>1, <2>2, <1>2, Zenon DEF Turns, TouchSet, WithRx
  <2> QED BY <2>2, <2>3
<1>4. PICK m \in Nat : m = wire[s].typed BY <1>1, WiresKeep
<1>5. PICK w \in Wires :
        /\ wire' = [wire EXCEPT ![s] = w]
        /\ w.typed = m + 1 /\ w.calls = wire[s].calls \cup {m + 1} /\ w.got = wire[s].got
  <2>1. m + 1 \in Nat BY <1>4
  <2>2. wire' = [wire EXCEPT ![s] = WithTyped(wire[s], m + 1)]
    BY <1>1, <1>2, <1>4, Zenon DEF WithTyped
  <2>3. /\ WithTyped(wire[s], m + 1) \in Wires
        /\ WithTyped(wire[s], m + 1).typed = wire[s].typed + 1
        /\ WithTyped(wire[s], m + 1).calls = wire[s].calls \cup {m + 1}
        /\ WithTyped(wire[s], m + 1).got = wire[s].got
    BY <1>1, <2>1, WiresKeep
  <2> QED BY <1>4, <2>2, <2>3
<1>8. WireFine(n, w)
  <2>1. wire[s].calls = {} /\ Len(wire[s].got) = m BY <1>1, <1>2, <1>4 DEF WireFine
  <2> QED BY <1>1, <1>3, <1>5, <2>1 DEF WireFine
<1>9. PlaceFine(n, socketGate, remote) BY <1>3, <1>6, TasksFine
<1> QED BY <1>2, <1>3, <1>5, <1>8, <1>9, InputMoves DEF Turns

LEMMA ShellStep ==
  ASSUME SocketsInv, NEW s \in Sockets, NEW k \in 1..MaxTyped, ShellGets(s, k) \/ ShellMisses(s, k)
  PROVE  SocketsInv'
<1>1. /\ sock \in [Sockets -> Socks] /\ wire \in [Sockets -> Wires]
      /\ sock[s] \in Socks /\ wire[s] \in Wires
      /\ PlaceFine(sock[s], socketGate, remote) /\ WireFine(sock[s], wire[s])
      /\ socketGate \in {"open", "stopped", "draining", "closed"} /\ remote \in BOOLEAN
  BY OneSocket
<1>2. /\ k \in wire[s].calls /\ UNCHANGED <<sock, slots, socketGate, remote>>
      /\ \/ wire' = [wire EXCEPT ![s].calls = @ \ {k}, ![s].got = Append(@, k)]
         \/ wire' = [wire EXCEPT ![s].calls = @ \ {k}]
  BY DEF ShellGets, ShellMisses
<1>3. /\ k \in Nat /\ wire[s].typed \in Nat /\ wire[s].got \in Seq(Nat)
      /\ Len(wire[s].got) \in Nat
  BY <1>1, <1>2, WiresKeep
<1>4. /\ k = wire[s].typed /\ k = Len(wire[s].got) + 1 /\ wire[s].calls \ {k} = {}
      /\ sock[s].rx # "off" /\ sock[s].rx # "waiting"
      /\ InOrder(wire[s].got)
  BY <1>1, <1>2, <1>3 DEF WireFine
<1>5. Turns(s, sock[s]) BY <1>1, <1>2, Zenon DEF Turns
<1>6. CASE wire' = [wire EXCEPT ![s].calls = @ \ {k}, ![s].got = Append(@, k)]
  <2>1. PICK w \in Wires : w = WithGot(wire[s], k) BY <1>1, <1>3, WiresKeep
  <2>2. w.typed = wire[s].typed /\ w.calls = {} /\ w.got = Append(wire[s].got, k)
    BY <1>1, <1>3, <1>4, <2>1, WiresKeep, ZenonT(40)
  <2>3. wire' = [wire EXCEPT ![s] = w] BY <1>1, <1>6, <2>1, Zenon DEF WithGot
  <2>4. /\ InOrder(Append(wire[s].got, k))
        /\ Len(Append(wire[s].got, k)) = k
    BY <1>3, <1>4, OneMoreInOrder
  <2>5. WireFine(sock[s], w)
    <3>1. InOrder(w.got) BY <2>2, <2>4
    <3>2. Len(w.got) = k BY <2>2, <2>4
    <3>3. /\ w.typed = k /\ w.calls = {} /\ k \in Nat
          /\ sock[s].rx # "off" /\ sock[s].rx # "waiting"
      BY <1>3, <1>4, <2>2
    <3>4. Len(w.got) <= w.typed BY <3>2, <3>3
    <3> QED BY <3>1, <3>3, <3>4, Zenon DEF WireFine
  <2> QED BY <1>1, <1>2, <1>5, <2>3, <2>5, InputMoves
<1>7. CASE wire' = [wire EXCEPT ![s].calls = @ \ {k}]
  <2>1. PICK w \in Wires : w = WithoutCall(wire[s], k) BY <1>1, <1>3, WiresKeep
  <2>2. w.typed = wire[s].typed /\ w.calls = {} /\ w.got = wire[s].got
    BY <1>1, <1>3, <1>4, <2>1, WiresKeep
  <2>3. wire' = [wire EXCEPT ![s] = w] BY <1>1, <1>7, <2>1, Zenon DEF WithoutCall
  <2>5. WireFine(sock[s], w) BY <1>1, <1>3, <1>4, <2>2 DEF WireFine
  <2> QED BY <1>1, <1>2, <1>5, <2>3, <2>5, InputMoves
<1> QED BY <1>2, <1>6, <1>7

LEMMA OneEndedStep ==
  ASSUME SocketsInv, NEW s \in Sockets, OneEnded(s)
  PROVE  SocketsInv'
<1>1. /\ sock \in [Sockets -> Socks] /\ wire \in [Sockets -> Wires]
      /\ sock[s] \in Socks /\ wire[s] \in Wires
      /\ PlaceFine(sock[s], socketGate, remote) /\ WireFine(sock[s], wire[s])
      /\ socketGate \in {"open", "stopped", "draining", "closed"} /\ remote \in BOOLEAN
  BY OneSocket
<1>2. /\ sock[s].pc = "serving" /\ UNCHANGED <<slots, socketGate, remote, wire>>
      /\ sock' = [sock EXCEPT ![s] = [NewSocket EXCEPT !.pc = "cleaning", !.bridge = sock[s].bridge,
                                                      !.tx = "done", !.rx = "done"]]
  BY DEF OneEnded, Stands
<1>3. PICK no \in BOOLEAN : no = FALSE OBVIOUS
<1>4. PICK b \in RawClients : b = sock[s].bridge BY <1>1, SMT DEF Socks
<1>5. NewSocket \in Socks /\ NewSocket.cancel = FALSE
  <2>1. PICK p : p = [pc |-> "new", mode |-> "snapshot", bridge |-> "none", tx |-> "off",
                      rx |-> "off", touched |-> no, fired |-> no, cancel |-> no]
    OBVIOUS
  <2>2. p \in Socks BY <2>1 DEF Socks, SockPcs, SockModes, RawClients, Senders, Receivers
  <2>3. p = NewSocket BY <1>3, <2>1 DEF NewSocket
  <2> QED BY <1>3, <2>1, <2>2, <2>3
<1>6. "cleaning" \in SockPcs /\ "done" \in Senders /\ "done" \in Receivers
  BY DEF SockPcs, Senders, Receivers
<1>7. PICK n \in Socks :
        /\ n = WithRx(WithTx(WithBridge(WithPc(NewSocket, "cleaning"), b), "done"), "done")
        /\ n.pc = "cleaning" /\ n.bridge = b /\ n.tx = "done" /\ n.rx = "done"
        /\ n.cancel = FALSE
  <2>1. PICK u \in Socks : u = WithPc(NewSocket, "cleaning") /\ u.pc = "cleaning" /\ u.cancel = FALSE
    BY <1>5, <1>6, WithPcKeeps
  <2>2. PICK x \in Socks :
          x = WithBridge(u, b) /\ x.pc = "cleaning" /\ x.bridge = b /\ x.cancel = FALSE
    BY <2>1, WithBridgeKeeps
  <2>3. PICK y \in Socks :
          /\ y = WithTx(x, "done") /\ y.pc = "cleaning" /\ y.bridge = b /\ y.tx = "done"
          /\ y.cancel = FALSE
    BY <1>6, <2>2, WithTxKeeps
  <2>4. PICK z \in Socks :
          /\ z = WithRx(y, "done") /\ z.pc = "cleaning" /\ z.bridge = b /\ z.tx = "done"
          /\ z.rx = "done" /\ z.cancel = FALSE
    BY <1>6, <2>3, WithRxKeeps
  <2> QED BY <2>1, <2>2, <2>3, <2>4
<1>8. Turns(s, n)
  BY <1>2, <1>4, <1>7, Zenon DEF Turns, WithPc, WithBridge, WithTx, WithRx
<1>9. PlaceFine(n, socketGate, remote) /\ WireFine(n, wire[s])
  BY <1>1, <1>2, <1>4, <1>7 DEF PlaceFine, WireFine, Unstarted, Stopped
<1>10. n.pc \notin SlotlessPcs /\ sock[s].pc \notin SlotlessPcs
  BY <1>2, <1>7 DEF SlotlessPcs
<1> QED BY <1>2, <1>7, <1>8, <1>9, <1>10, SocketMoves

LEMMA CleanedStep ==
  ASSUME SocketsInv, NEW s \in Sockets, Cleaned(s)
  PROVE  SocketsInv'
<1>1. /\ sock \in [Sockets -> Socks] /\ wire \in [Sockets -> Wires]
      /\ sock[s] \in Socks /\ wire[s] \in Wires
      /\ PlaceFine(sock[s], socketGate, remote) /\ WireFine(sock[s], wire[s])
      /\ socketGate \in {"open", "stopped", "draining", "closed"} /\ remote \in BOOLEAN
  BY OneSocket
<1>2. /\ sock[s].pc = "cleaning" /\ slots' = slots \ {s} /\ UNCHANGED <<socketGate, remote, wire>>
      /\ \E f \in RawClients :
           /\ sock' = [sock EXCEPT ![s].pc = "end", ![s].bridge = f]
           /\ f \in {"none", "gone"} \/ remote = TRUE
  <2>1. sock[s].pc = "cleaning" /\ slots' = slots \ {s} /\ UNCHANGED <<socketGate, remote, wire>>
    BY DEF Cleaned, Stands, SlotFreed
  <2>2. sock[s].bridge \in {"none", "held"} BY <1>1, <2>1 DEF PlaceFine
  <2>3. PICK f \in {"none", "gone", "lost"} :
          /\ sock' = [sock EXCEPT ![s].pc = "end", ![s].bridge = f]
          /\ f = "lost" => remote
    BY <2>2 DEF Cleaned
  <2>4. f \in RawClients BY DEF RawClients
  <2>5. remote \in BOOLEAN BY <1>1
  <2> QED BY <2>1, <2>3, <2>4, <2>5
<1>3. PICK f \in RawClients :
        /\ sock' = [sock EXCEPT ![s].pc = "end", ![s].bridge = f]
        /\ f \in {"none", "gone"} \/ remote = TRUE
  BY <1>2
<1>7. "end" \in SockPcs
  BY DEF SockPcs, SockModes, RawClients, Senders, Receivers
<1>4. PICK n \in Socks :
        /\ Turns(s, n) /\ n.pc = "end" /\ n.bridge = f
        /\ n.tx = sock[s].tx /\ n.rx = sock[s].rx /\ n.cancel = sock[s].cancel
  <2>1. PICK u1 \in Socks :
          /\ u1 = WithPc(sock[s], "end")
          /\ u1.pc = "end" /\ u1.mode = sock[s].mode /\ u1.bridge = sock[s].bridge /\ u1.tx = sock[s].tx
          /\ u1.rx = sock[s].rx /\ u1.cancel = sock[s].cancel
    BY <1>1, <1>7, WithPcKeeps
  <2>2. PICK u2 \in Socks :
          /\ u2 = WithBridge(u1, f)
          /\ u2.pc = "end" /\ u2.mode = sock[s].mode /\ u2.bridge = f /\ u2.tx = sock[s].tx
          /\ u2.rx = sock[s].rx /\ u2.cancel = sock[s].cancel
    BY <1>1, <2>1, <1>7, WithBridgeKeeps
  <2>3. Turns(s, u2)
    BY <1>1, <2>1, <2>2, <1>3, Zenon DEF Turns, WithBridge, WithPc
  <2> QED BY <2>2, <2>3
<1>5. PlaceFine(n, socketGate, remote) /\ WireFine(n, wire[s])
  BY <1>1, <1>2, <1>3, <1>4 DEF PlaceFine, WireFine, Unstarted, Stopped
<1>6. n.pc \in SlotlessPcs BY <1>4 DEF SlotlessPcs
<1> QED BY <1>2, <1>4, <1>5, <1>6, SocketMoves

LEMMA CancelRunningStep ==
  ASSUME SocketsInv, NEW s \in Sockets, CancelRunning(s)
  PROVE  SocketsInv'
<1>1. /\ sock \in [Sockets -> Socks] /\ wire \in [Sockets -> Wires]
      /\ sock[s] \in Socks /\ wire[s] \in Wires
      /\ PlaceFine(sock[s], socketGate, remote) /\ WireFine(sock[s], wire[s])
      /\ socketGate \in {"open", "stopped", "draining", "closed"} /\ remote \in BOOLEAN
  BY OneSocket
<1>2. /\ sock[s].pc = "serving" /\ sock[s].cancel = TRUE
      /\ UNCHANGED <<slots, socketGate, remote, wire>>
      /\ sock' = [sock EXCEPT ![s].pc = "cleaning", ![s].cancel = FALSE]
  <2>1. /\ sock[s].pc = "serving" /\ sock[s].cancel
        /\ UNCHANGED <<slots, socketGate, remote, wire>>
        /\ sock' = [sock EXCEPT ![s].pc = "cleaning", ![s].cancel = FALSE]
    BY DEF CancelRunning, Stands
  <2>2. sock[s].cancel \in BOOLEAN BY <1>1, SMT DEF Socks
  <2> QED BY <2>1, <2>2
<1>7. "cleaning" \in SockPcs
  BY DEF SockPcs, SockModes, RawClients, Senders, Receivers
<1>8. sock[s].pc \notin SlotlessPcs /\ "cleaning" \notin SlotlessPcs
  BY <1>2 DEF SlotlessPcs
<1>3. CASE sock' = [sock EXCEPT ![s].pc = "cleaning", ![s].cancel = FALSE]
  <2>1. PICK u1 \in Socks :
          /\ u1 = WithPc(sock[s], "cleaning")
          /\ u1.pc = "cleaning" /\ u1.mode = sock[s].mode /\ u1.bridge = sock[s].bridge /\ u1.tx = sock[s].tx
          /\ u1.rx = sock[s].rx /\ u1.cancel = sock[s].cancel
    BY <1>1, <1>7, WithPcKeeps
  <2>2. PICK u2 \in Socks :
          /\ u2 = CancelReset(u1)
          /\ u2.pc = "cleaning" /\ u2.mode = sock[s].mode /\ u2.bridge = sock[s].bridge /\ u2.tx = sock[s].tx
          /\ u2.rx = sock[s].rx
    BY <1>1, <2>1, <1>7, CancelResetKeeps
  <2>3. Turns(s, u2)
    BY <1>1, <2>1, <2>2, <1>3, Zenon DEF Turns, CancelReset, WithPc
  <2>4. PlaceFine(u2, socketGate, remote) /\ WireFine(u2, wire[s])
    BY <1>1, <1>2, <1>3, <2>2 DEF PlaceFine, WireFine, Unstarted, Stopped
  <2>5. u2.pc \in SlotlessPcs <=> sock[s].pc \in SlotlessPcs
    BY <1>2, <1>3, <2>2 DEF SlotlessPcs
  <2>6. sock[s].pc \in SlotlessPcs \/ sock[s].pc \notin SlotlessPcs OBVIOUS
  <2> QED BY <1>1, <1>2, <1>3, <1>8, <2>2, <2>3, <2>4, <2>5, SocketMoves
<1> QED BY <1>2, <1>3

LEMMA CancelElsewhereStep ==
  ASSUME SocketsInv, NEW s \in Sockets, CancelElsewhere(s)
  PROVE  SocketsInv'
<1>1. /\ sock \in [Sockets -> Socks] /\ wire \in [Sockets -> Wires]
      /\ sock[s] \in Socks /\ wire[s] \in Wires
      /\ PlaceFine(sock[s], socketGate, remote) /\ WireFine(sock[s], wire[s])
      /\ socketGate \in {"open", "stopped", "draining", "closed"} /\ remote \in BOOLEAN
  BY OneSocket
<1>2. /\ sock[s].pc \in {"accepting", "opening", "greeting", "cleaning"} /\ sock[s].cancel = TRUE
      /\ UNCHANGED <<slots, socketGate, remote, wire>>
  <2>1. /\ sock[s].pc \in {"accepting", "opening", "greeting", "cleaning"} /\ sock[s].cancel
        /\ UNCHANGED <<slots, socketGate, remote, wire>>
    BY DEF CancelElsewhere
  <2>2. sock[s].cancel \in BOOLEAN BY <1>1, SMT DEF Socks
  <2> QED BY <2>1, <2>2
<1>3. PICK v \in {"refused", "end"}, f \in RawClients :
        /\ sock' = [sock EXCEPT ![s].pc = v, ![s].bridge = f, ![s].cancel = FALSE]
        /\ v = "refused" => sock[s].pc = "opening" /\ f \in {"none", "lost"}
  <2>1. PICK v : v = IF sock[s].pc = "opening" /\ remote THEN "refused" ELSE "end" OBVIOUS
  <2>2. PICK f : f = CASE sock[s].bridge = "made" -> IF remote THEN "lost" ELSE "gone"
                       [] sock[s].bridge = "held" -> "lost" [] OTHER -> sock[s].bridge
    OBVIOUS
  <2>3. sock' = [sock EXCEPT ![s].pc = v, ![s].bridge = f, ![s].cancel = FALSE]
    BY <2>1, <2>2, Zenon DEF CancelElsewhere, Stands
  <2>4. sock[s].bridge \in {"none", "made", "held"}
        /\ (sock[s].pc = "opening" => sock[s].bridge \in {"none", "made"})
    BY <1>1, <1>2 DEF PlaceFine
  <2>5. f \in {"none", "lost", "gone"} BY <2>2, <2>4
  <2>6. v = "refused" => sock[s].pc = "opening" /\ f \in {"none", "lost"}
    BY <2>1, <2>2, <2>4
  <2>7. v \in {"refused", "end"} BY <2>1
  <2>8. f \in RawClients BY <2>5 DEF RawClients
  <2> QED BY <2>3, <2>6, <2>7, <2>8
<1>4. /\ socketGate \in {"draining", "closed"}
      /\ v \in SockPcs /\ v \in SlotlessPcs /\ sock[s].pc \notin SlotlessPcs
  BY <1>1, <1>2 DEF PlaceFine, SockPcs, SlotlessPcs
<1>5. socketGate = "draining"
  <2>1. s \in Reserved BY <1>2 DEF Reserved
  <2>2. Reserved \subseteq slots /\ (socketGate = "closed" => slots = {})
    BY DEF SocketsInv, SlotsCounted
  <2> QED BY <1>4, <2>1, <2>2
<1>6. PICK n \in Socks :
        /\ Turns(s, n) /\ n.pc = v /\ n.bridge = f
        /\ n.tx = sock[s].tx /\ n.rx = sock[s].rx 
  <2>1. PICK u1 \in Socks :
          /\ u1 = WithPc(sock[s], v)
          /\ u1.pc = v /\ u1.mode = sock[s].mode /\ u1.bridge = sock[s].bridge /\ u1.tx = sock[s].tx
          /\ u1.rx = sock[s].rx /\ u1.cancel = sock[s].cancel
    BY <1>1, <1>4, WithPcKeeps
  <2>2. PICK u2 \in Socks :
          /\ u2 = WithBridge(u1, f)
          /\ u2.pc = v /\ u2.mode = sock[s].mode /\ u2.bridge = f /\ u2.tx = sock[s].tx
          /\ u2.rx = sock[s].rx /\ u2.cancel = sock[s].cancel
    BY <1>1, <2>1, <1>4, WithBridgeKeeps
  <2>3. PICK u3 \in Socks :
          /\ u3 = CancelReset(u2)
          /\ u3.pc = v /\ u3.mode = sock[s].mode /\ u3.bridge = f /\ u3.tx = sock[s].tx
          /\ u3.rx = sock[s].rx
    BY <1>1, <2>2, <1>4, CancelResetKeeps
  <2>4. Turns(s, u3)
    BY <1>1, <2>1, <2>2, <2>3, <1>3, Zenon DEF Turns, CancelReset, WithBridge, WithPc
  <2> QED BY <2>3, <2>4
<1>7. PlaceFine(n, socketGate, remote) /\ WireFine(n, wire[s])
  BY <1>1, <1>2, <1>3, <1>5, <1>6 DEF PlaceFine, WireFine, Unstarted, Stopped
<1> QED BY <1>2, <1>4, <1>5, <1>6, <1>7, SocketMoves

LEMMA ClientEndsStep ==
  ASSUME SocketsInv, NEW s \in Sockets, ClientEnds(s)
  PROVE  SocketsInv'
<1>1. /\ sock \in [Sockets -> Socks] /\ wire \in [Sockets -> Wires]
      /\ sock[s] \in Socks /\ wire[s] \in Wires
      /\ PlaceFine(sock[s], socketGate, remote) /\ WireFine(sock[s], wire[s])
      /\ socketGate \in {"open", "stopped", "draining", "closed"} /\ remote \in BOOLEAN
  BY OneSocket
<1>2. /\ sock[s].bridge = "lost" /\ UNCHANGED <<slots, socketGate, remote, wire>>
      /\ sock' = [sock EXCEPT ![s].bridge = "gone"]
  BY DEF ClientEnds
<1>7. "gone" \in RawClients
  BY DEF SockPcs, SockModes, RawClients, Senders, Receivers
<1>8. sock[s].pc \in {"refused", "end"}
  <2>1. sock[s].pc \in SockPcs BY <1>1, SMT DEF Socks
  <2> QED BY <1>1, <1>2, <2>1 DEF PlaceFine, SockPcs
<1>3. CASE sock' = [sock EXCEPT ![s].bridge = "gone"]
  <2>1. PICK u1 \in Socks :
          /\ u1 = WithBridge(sock[s], "gone")
          /\ u1.pc = sock[s].pc /\ u1.mode = sock[s].mode /\ u1.bridge = "gone" /\ u1.tx = sock[s].tx
          /\ u1.rx = sock[s].rx /\ u1.cancel = sock[s].cancel
    BY <1>1, <1>7, WithBridgeKeeps
  <2>2. Turns(s, u1)
    BY <1>1, <2>1, <1>3, Zenon DEF Turns, WithBridge
  <2>3. PlaceFine(u1, socketGate, remote) /\ WireFine(u1, wire[s])
    BY <1>1, <1>2, <1>3, <2>1, <1>8 DEF PlaceFine, WireFine, Unstarted, Stopped
  <2>4. u1.pc \in SlotlessPcs <=> sock[s].pc \in SlotlessPcs
    BY <1>2, <1>3, <2>1 DEF SlotlessPcs
  <2>5. sock[s].pc \in SlotlessPcs \/ sock[s].pc \notin SlotlessPcs OBVIOUS
  <2> QED BY <1>1, <1>2, <1>3, <1>8, <2>1, <2>2, <2>3, <2>4, SocketMoves
<1> QED BY <1>2, <1>3

\* The shutdown.
LEMMA SocketGateSteps ==
  ASSUME SocketsInv, StopSockets \/ CloseSockets \/ SocketsDrained
  PROVE  SocketsInv'
<1>1. SocketsTyped /\ SlotsCounted BY DEF SocketsInv
<1>2. sock \in [Sockets -> Socks] BY <1>1 DEF SocketsTyped
<1>3. CASE StopSockets
  <2>1. /\ socketGate = "open" /\ socketGate' = "stopped" /\ UNCHANGED <<sock, slots, remote, wire>>
    BY <1>3 DEF StopSockets
  <2>2. SocketsTyped' BY <1>1, <2>1 DEF SocketsTyped
  <2>3. \A s \in Sockets : PlaceFine(sock'[s], socketGate', remote') /\ WireFine(sock'[s], wire'[s])
    BY <2>1 DEF SocketsInv, PlaceFine
  <2>4. SlotsCounted' BY <1>1, <2>1 DEF SlotsCounted, Reserved
  <2> QED BY <2>2, <2>3, <2>4 DEF SocketsInv
<1>4. CASE CloseSockets
  <2>1. /\ socketGate' = "draining" /\ UNCHANGED <<slots, remote, wire>>
        /\ sock' = [s \in Sockets |-> IF s \in slots THEN [sock[s] EXCEPT !.cancel = TRUE]
                                     ELSE sock[s]]
    BY <1>4 DEF CloseSockets
  <2>2. ASSUME NEW s \in Sockets
        PROVE  /\ sock'[s] \in Socks /\ sock'[s].pc = sock[s].pc
               /\ PlaceFine(sock'[s], socketGate', remote') /\ WireFine(sock'[s], wire'[s])
    <3>1. /\ sock[s] \in Socks
          /\ PlaceFine(sock[s], socketGate, remote) /\ WireFine(sock[s], wire[s])
      BY OneSocket
    <3>2. sock'[s] = CancelSet(sock[s]) \/ sock'[s] = sock[s]
      BY <2>1 DEF CancelSet
    <3>3. PICK n \in Socks :
            /\ sock'[s] = n /\ n.pc = sock[s].pc /\ n.bridge = sock[s].bridge
            /\ n.tx = sock[s].tx /\ n.rx = sock[s].rx
      BY <3>1, <3>2, CancelSetKeeps
    <3>4. PlaceFine(n, "draining", remote) /\ WireFine(n, wire[s])
      BY <3>1, <3>3 DEF PlaceFine, WireFine, Unstarted
    <3> QED BY <2>1, <3>3, <3>4
  <2>3. SocketsTyped'
    <3>1. sock' \in [Sockets -> Socks] BY <2>1, <2>2
    <3> QED BY <1>1, <2>1, <3>1 DEF SocketsTyped
  <2>4. SlotsCounted'
    <3>1. Reserved' = Reserved BY <2>2 DEF Reserved
    <3> QED BY <1>1, <2>1, <3>1 DEF SlotsCounted
  <2> QED BY <2>2, <2>3, <2>4 DEF SocketsInv
<1>5. CASE SocketsDrained
  <2>1. /\ socketGate = "draining" /\ \A s \in slots : sock[s].pc \in {"refused", "end"}
        /\ socketGate' = "closed" /\ slots' = {} /\ UNCHANGED <<sock, remote, wire>>
    BY <1>5 DEF SocketsDrained
  <2>2. SocketsTyped'
    <3>1. IsFiniteSet({}) BY FS_EmptySet
    <3> QED BY <1>1, <2>1, <3>1 DEF SocketsTyped
  <2>3. \A s \in Sockets : PlaceFine(sock'[s], socketGate', remote') /\ WireFine(sock'[s], wire'[s])
    BY <2>1 DEF SocketsInv, PlaceFine
  <2>4. SlotsCounted'
    <3>1. Reserved = {} BY <1>1, <2>1 DEF SlotsCounted, Reserved
    <3>2. Reserved' = {} BY <2>1, <3>1 DEF Reserved
    <3>3. Cardinality({}) = 0 BY FS_EmptySet
    <3>4. 0 <= MaxSlots BY TerminalSocketsAssumption DEF TerminalSocketsAssumption
    <3> QED BY <2>1, <3>2, <3>3, <3>4 DEF SlotsCounted
  <2> QED BY <2>2, <2>3, <2>4 DEF SocketsInv
<1> QED BY <1>3, <1>4, <1>5

LEMMA SocketsFirst == SocketsInit => SocketsInv
<1> SUFFICES ASSUME SocketsInit PROVE SocketsInv OBVIOUS
<1>1. /\ sock = [s \in Sockets |-> NewSocket] /\ wire = [s \in Sockets |-> NoInput]
      /\ slots = {} /\ socketGate = "open" /\ remote \in BOOLEAN
  BY DEF SocketsInit
<1>2. PICK no \in BOOLEAN : no = FALSE OBVIOUS
<1>3. PICK p \in Socks :
        /\ p = NewSocket /\ p.pc = "new" /\ p.bridge = "none" /\ p.tx = "off" /\ p.rx = "off"
        /\ p.cancel = FALSE
  <2>1. PICK p : p = [pc |-> "new", mode |-> "snapshot", bridge |-> "none", tx |-> "off",
                      rx |-> "off", touched |-> no, fired |-> no, cancel |-> no]
    OBVIOUS
  <2>2. p \in Socks BY <2>1 DEF Socks, SockPcs, SockModes, RawClients, Senders, Receivers
  <2>3. p = NewSocket BY <1>2, <2>1 DEF NewSocket
  <2> QED BY <1>2, <2>1, <2>2, <2>3
<1>4. PICK w \in Wires : w = NoInput /\ w.typed = 0 /\ w.calls = {} /\ w.got = <<>>
  <2>1. 0 \in Nat /\ {} \in CallSets /\ <<>> \in Inputs BY DEF CallSets, Inputs
  <2>2. PICK e \in Inputs : e = <<>> BY <2>1
  <2>3. PICK w : w = [typed |-> 0, calls |-> {}, got |-> e] OBVIOUS
  <2>4. w \in Wires BY <2>1, <2>3 DEF Wires
  <2> QED BY <2>2, <2>3, <2>4 DEF NoInput
<1>5. SocketsTyped
  <2>1. IsFiniteSet(slots) BY <1>1, FS_EmptySet
  <2> QED BY <1>1, <1>3, <1>4, <2>1 DEF SocketsTyped
<1>6. PlaceFine(p, "open", remote) /\ WireFine(p, w)
  <2>1. Len(w.got) = 0 /\ InOrder(w.got) BY <1>4 DEF InOrder
  <2>2. PlaceFine(p, "open", remote) BY <1>3 DEF PlaceFine, Unstarted
  <2>3. WireFine(p, w) BY <1>4, <2>1 DEF WireFine
  <2> QED BY <2>2, <2>3
<1>7. SlotsCounted
  <2>1. Reserved = {} BY <1>1, <1>3 DEF Reserved
  <2>2. Cardinality(slots) = 0 BY <1>1, FS_EmptySet
  <2>3. 0 <= MaxSlots BY TerminalSocketsAssumption DEF TerminalSocketsAssumption
  <2> QED BY <1>1, <2>1, <2>2, <2>3 DEF SlotsCounted
<1> QED BY <1>1, <1>3, <1>4, <1>5, <1>6, <1>7 DEF SocketsInv

LEMMA SocketsStep == SocketsInv /\ [SocketsNext]_tsVars => SocketsInv'
<1> SUFFICES ASSUME SocketsInv, [SocketsNext]_tsVars PROVE SocketsInv' OBVIOUS
<1>1. ASSUME NEW s \in Sockets, NEW m \in {"snapshot", "auto", "pty"}, Dial(s, m)
      PROVE  SocketsInv'
  <2>1. m \in SockModes BY DEF SockModes
  <2> QED BY <1>1, <2>1, DialStep
<1>2. ASSUME NEW s \in Sockets, ConnectionStep(s) PROVE SocketsInv'
  BY <1>2, ListedStep, AcceptedStep, OpenedStep, FallBackStep, OpeningFailsStep, GreetedStep,
     AnsweredStep, OneEndedStep, CleanedStep, CancelRunningStep, CancelElsewhereStep
  DEF ConnectionStep
<1>3. ASSUME NEW s \in Sockets,
             \/ SenderStep(s) \/ Typed(s) \/ OtherFrame(s) \/ MachineAttaches(s)
             \/ ClientEnds(s) \/ IdleTime(s) \/ IdleTimeout(s)
      PROVE  SocketsInv'
  BY <1>3, SenderStepStep, TypedStep, OtherFrameStep, MachineAttachesStep, ClientEndsStep, IdleStep
<1>4. ASSUME NEW s \in Sockets, NEW k \in 1..MaxTyped, ShellGets(s, k) \/ ShellMisses(s, k)
      PROVE  SocketsInv'
  BY <1>4, ShellStep
<1>5. ASSUME StopSockets \/ CloseSockets \/ SocketsDrained PROVE SocketsInv'
  BY <1>5, SocketGateSteps
<1>6. ASSUME ShellEnds \/ UNCHANGED tsVars PROVE SocketsInv'
  <2>1. UNCHANGED <<sock, slots, socketGate, remote, wire>> BY <1>6 DEF ShellEnds, tsVars
  <2> QED BY <2>1 DEF SocketsInv, SocketsTyped, SlotsCounted, Reserved
<1> QED BY <1>1, <1>2, <1>3, <1>4, <1>5, <1>6 DEF SocketsNext

\* However the connections, their two tasks, the machine, the shell and the shutdown
\* interleave, and for every number of them, the slots are those of the connections that
\* hold one and no more than the limit, a shell gets what was typed in order and without a
\* gap, and a connection that ends by itself leaves no task and no raw client of the host.
THEOREM SocketsTheorem == SocketsSpec => []SocketsSound
<1>1. SocketsInv => SocketsSound
  <2> SUFFICES ASSUME SocketsInv PROVE SocketsSound OBVIOUS
  <2>1. SlotsCounted BY DEF SocketsInv
  <2>2. InputInOrder BY DEF SocketsInv, WireFine, InOrder, InputInOrder
  <2>3. NothingLeft
    <3>1. ASSUME NEW s \in Sockets, sock[s].pc = "end", socketGate \in {"open", "stopped"}
          PROVE  /\ sock[s].tx \in {"off", "done"} /\ sock[s].rx \in {"off", "done"}
                 /\ remote \/ sock[s].bridge \in {"none", "gone"}
      <4>1. PlaceFine(sock[s], socketGate, remote) BY OneSocket
      <4> QED BY <3>1, <4>1 DEF PlaceFine, Stopped
    <3> QED BY <3>1 DEF NothingLeft
  <2> QED BY <2>1, <2>2, <2>3 DEF SocketsSound
<1> QED BY <1>1, SocketsFirst, SocketsStep, PTL DEF SocketsSpec

(*****************************************************************************)
(* Bounded commands. On Linux a walk that is about to find nobody still has  *)
(* a child of the runner to come across while anything is alive, because the *)
(* oldest process that lives is the runner's own child; a kqueue tracker was *)
(* told of all that live until it says that it lost track.                   *)
(*****************************************************************************)
CommandKinds == {"plain", "stubborn", "escaped", "foreign"}
ProcParents == 0..InitPid
ProcStates == {"none", "alive", "zombie", "gone"}
ProcRecords == [is : ProcStates, parent : ProcParents, kind : CommandKinds]
Became(m, parent, is) == [m EXCEPT !.parent = parent, !.is = is]
ProcsTyped == proc \in [Pids -> ProcRecords]

\* Pids are given out in order, and on Linux, where the runner adopts, the parent of a
\* process that is visible is the runner or alive, and older.
PidsInOrder == \A q, r \in Pids : r < q /\ proc[r].is = "none" => proc[q].is = "none"
ParentsAlive ==
  host = "linux" => \A p \in Visible :
    proc[p].parent = Runner \/ (proc[p].parent \in Alive /\ proc[p].parent < p)
TreeFine == ProcsTyped /\ PidsInOrder /\ ParentsAlive

LEMMA PidFacts ==
  /\ Pids \subseteq Nat /\ Root \in Pids /\ Runner \notin Pids /\ InitPid \notin Pids
  /\ Runner # InitPid /\ Pids \subseteq ProcParents
  /\ Runner \in ProcParents /\ InitPid \in ProcParents
  /\ \A p \in Pids : Root <= p
BY ProcessTreeAssumption, SMT DEF Pids, Root, Runner, InitPid, ProcParents

\* A set of pids has a smallest.
LEMMA Oldest ==
  ASSUME NEW T, T \subseteq Nat, T # {}
  PROVE  \E x \in T : \A y \in T : ~(y < x)
<1> DEFINE R == {ss \in Nat \X Nat : ss[1] < ss[2]}
<1>1. IsWellFoundedOn(R, Nat) BY NatLessThanWellFounded DEF OpToRel
<1> HIDE DEF R
<1>2. PICK x \in T : \A y \in T : ~(<<y, x>> \in R) BY <1>1, WFMin
<1>3. \A y \in T : y < x => <<y, x>> \in R
  BY DEF R
<1> QED BY <1>2, <1>3

\* While something is alive on Linux, the runner has a child that is.
LEMMA AliveChild ==
  ASSUME TreeFine, host = "linux", Alive # {}
  PROVE  \E c \in Alive : proc[c].parent = Runner
<1>1. Alive \subseteq Nat BY PidFacts DEF Alive
<1>2. PICK c \in Alive : \A y \in Alive : ~(y < c) BY <1>1, Oldest
<1>3. c \in Visible BY <1>2 DEF Alive, Visible
<1> QED BY <1>2, <1>3 DEF TreeFine, ParentsAlive

LEMMA BecameFields ==
  ASSUME NEW m \in ProcRecords, NEW a \in ProcParents, NEW b \in ProcStates
  PROVE  /\ Became(m, a, b) \in ProcRecords
         /\ Became(m, a, b).parent = a /\ Became(m, a, b).is = b
         /\ Became(m, a, b).kind = m.kind
<1>1. PICK k : k = [m EXCEPT !.parent = a] OBVIOUS
<1>2. k \in ProcRecords BY <1>1, SMT DEF ProcRecords
<1>3. k.parent = a /\ k.kind = m.kind BY <1>1, SMT DEF ProcRecords
<1>4. PICK n : n = [k EXCEPT !.is = b] OBVIOUS
<1>5. n \in ProcRecords BY <1>2, <1>4, SMT DEF ProcRecords
<1>6. n.parent = a /\ n.is = b /\ n.kind = m.kind BY <1>2, <1>3, <1>4, SMT DEF ProcRecords
<1>7. n = Became(m, a, b) BY <1>1, <1>4, Zenon DEF Became
<1> QED BY <1>5, <1>6, <1>7

\* What an end does to each process.
LEMMA AfterFields ==
  ASSUME ProcsTyped, NEW S, S \subseteq Alive
  PROVE  /\ After(S) \in [Pids -> ProcRecords]
         /\ \A p \in Pids :
              /\ After(S)[p].parent = (IF proc[p].parent \in S THEN Reaper ELSE proc[p].parent)
              /\ After(S)[p].is = "none" <=> proc[p].is = "none"
              /\ After(S)[p].is = "alive" <=> p \in Alive \ S
              /\ After(S)[p].is \in {"alive", "zombie"} => p \in Visible
              /\ p \in Visible /\ After(S)[p].parent # InitPid => After(S)[p].is \in {"alive", "zombie"}
<1> DEFINE par(p) == IF proc[p].parent \in S THEN Reaper ELSE proc[p].parent
<1> DEFINE is(p) == IF p \in S \cap Alive THEN "zombie" ELSE proc[p].is
<1> DEFINE fin(p) == IF is(p) = "zombie" /\ par(p) = InitPid THEN "gone" ELSE is(p)
<1>1. Reaper \in ProcParents BY PidFacts DEF Reaper
<1>2. ASSUME NEW p \in Pids
      PROVE  /\ After(S)[p] = [proc[p] EXCEPT !.parent = par(p), !.is = fin(p)]
             /\ proc[p] \in ProcRecords /\ par(p) \in ProcParents
             /\ fin(p) \in ProcStates
  <2>1. proc[p] \in ProcRecords BY <1>2 DEF ProcsTyped
  <2>2. proc[p].is \in ProcStates /\ proc[p].parent \in ProcParents
    BY <2>1, SMT DEF ProcRecords
  <2> QED BY <1>1, <1>2, <2>1, <2>2 DEF After, ProcStates
<1>3. ASSUME NEW p \in Pids
      PROVE  /\ After(S)[p] \in ProcRecords
             /\ After(S)[p].parent = par(p) /\ After(S)[p].is = fin(p)
  <2>1. PICK a \in ProcParents : a = par(p) BY <1>2, <1>3
  <2>2. PICK b \in ProcStates : b = fin(p) BY <1>2, <1>3
  <2>3. After(S)[p] = Became(proc[p], a, b) BY <1>2, <1>3, <2>1, <2>2, Zenon DEF Became
  <2>4. proc[p] \in ProcRecords BY <1>2, <1>3
  <2>5. After(S)[p] \in ProcRecords /\ After(S)[p].parent = a /\ After(S)[p].is = b
    BY <2>3, <2>4, BecameFields
  <2> QED BY <2>1, <2>2, <2>5
<1>4. After(S) = [p \in Pids |-> After(S)[p]] BY DEF After
<1>5. After(S) \in [Pids -> ProcRecords] BY <1>3, <1>4
<1>6. \A p \in Pids : p \in Alive <=> proc[p].is = "alive" BY DEF Alive
<1>7. \A p \in Pids : p \in Visible <=> proc[p].is \in {"alive", "zombie"} BY DEF Visible
<1> QED BY <1>3, <1>5, <1>6, <1>7

LEMMA AfterStep ==
  ASSUME TreeFine, NEW S, S \subseteq Alive, proc' = After(S), host' = host
  PROVE  /\ TreeFine' /\ Alive' = Alive \ S
         /\ \A p \in Pids : proc'[p].is = "none" <=> proc[p].is = "none"
         /\ host = "linux" =>
              \A p \in Visible : proc[p].parent = Runner => p \in Visible' /\ proc'[p].parent = Runner
<1>1. ProcsTyped BY DEF TreeFine
<1>2. /\ proc' \in [Pids -> ProcRecords]
      /\ \A p \in Pids :
           /\ proc'[p].parent = (IF proc[p].parent \in S THEN Reaper ELSE proc[p].parent)
           /\ proc'[p].is = "none" <=> proc[p].is = "none"
           /\ proc'[p].is = "alive" <=> p \in Alive \ S
           /\ proc'[p].is \in {"alive", "zombie"} => p \in Visible
           /\ p \in Visible /\ proc'[p].parent # InitPid => proc'[p].is \in {"alive", "zombie"}
  BY <1>1, AfterFields
<1>3. Alive' = Alive \ S BY <1>2 DEF Alive
<1>4. ProcsTyped' BY <1>2 DEF ProcsTyped
<1>5. PidsInOrder' BY <1>2 DEF TreeFine, PidsInOrder
<1>6. \A p \in Pids : p \in Visible' <=> proc'[p].is \in {"alive", "zombie"} BY DEF Visible
<1>7. Visible \subseteq Pids BY DEF Visible
<1>8. host = "linux" => Reaper = Runner BY DEF Reaper
<1>9. ASSUME host = "linux", NEW p \in Visible'
      PROVE  proc'[p].parent = Runner \/ (proc'[p].parent \in Alive' /\ proc'[p].parent < p)
  <2>1. p \in Pids /\ p \in Visible BY <1>2, <1>6, <1>9 DEF Visible
  <2>2. proc[p].parent = Runner \/ (proc[p].parent \in Alive /\ proc[p].parent < p)
    BY <1>9, <2>1 DEF TreeFine, ParentsAlive
  <2>3. CASE proc[p].parent \in S BY <1>2, <1>8, <1>9, <2>1, <2>3
  <2>4. CASE proc[p].parent \notin S BY <1>2, <1>3, <2>1, <2>2, <2>4
  <2> QED BY <2>3, <2>4
<1>10. ParentsAlive' BY <1>9 DEF ParentsAlive
<1>11. Runner \notin S BY PidFacts DEF Alive
<1>12. ASSUME host = "linux", NEW p \in Visible, proc[p].parent = Runner
       PROVE  p \in Visible' /\ proc'[p].parent = Runner
  <2>1. p \in Pids BY <1>7, <1>12
  <2>2. proc'[p].parent = Runner BY <1>2, <1>11, <1>12, <2>1
  <2>3. proc'[p].parent # InitPid BY <2>2, PidFacts
  <2> QED BY <1>2, <1>6, <1>12, <2>1, <2>2, <2>3
<1> QED BY <1>2, <1>3, <1>4, <1>5, <1>10, <1>12 DEF TreeFine

\* Zombies that are reaped.
GoneOf(S) == [p \in Pids |-> IF p \in S THEN [proc[p] EXCEPT !.is = "gone"] ELSE proc[p]]

LEMMA GoneFields ==
  ASSUME NEW m \in ProcRecords
  PROVE  /\ [m EXCEPT !.is = "gone"] \in ProcRecords
         /\ [m EXCEPT !.is = "gone"].is = "gone"
         /\ [m EXCEPT !.is = "gone"].parent = m.parent
<1>1. PICK n : n = [m EXCEPT !.is = "gone"] OBVIOUS
<1>2. n \in ProcRecords BY <1>1, SMT DEF ProcRecords, ProcStates
<1>3. n.is = "gone" /\ n.parent = m.parent BY <1>1, SMT DEF ProcRecords
<1> QED BY <1>1, <1>2, <1>3

LEMMA GoneStep ==
  ASSUME TreeFine, NEW S, \A p \in S \cap Pids : proc[p].is = "zombie", proc' = GoneOf(S), host' = host
  PROVE  /\ TreeFine' /\ Alive' = Alive
         /\ \A p \in Pids : proc'[p].is = "none" <=> proc[p].is = "none"
         /\ \A p \in Pids \ S : proc'[p] = proc[p]
<1>1. \A p \in Pids : proc[p] \in ProcRecords BY DEF TreeFine, ProcsTyped
<1>2. \A p \in Pids \ S : proc'[p] = proc[p] BY DEF GoneOf
<1>3. \A p \in Pids \cap S : /\ proc'[p] \in ProcRecords /\ proc'[p].is = "gone"
                            /\ proc'[p].parent = proc[p].parent
  BY <1>1, GoneFields DEF GoneOf
<1>4. ProcsTyped'
  <2>1. \A p \in Pids : proc'[p] \in ProcRecords BY <1>1, <1>2, <1>3
  <2>2. proc' = [p \in Pids |-> proc'[p]] BY DEF GoneOf
  <2> QED BY <2>1, <2>2 DEF ProcsTyped
<1>5. \A p \in Pids : proc'[p].is = "none" <=> proc[p].is = "none" BY <1>2, <1>3
<1>6. Alive' = Alive BY <1>2, <1>3 DEF Alive
<1>7. PidsInOrder' BY <1>5 DEF TreeFine, PidsInOrder
<1>8. ParentsAlive'
  <2>1. SUFFICES ASSUME host = "linux", NEW p \in Visible'
        PROVE  proc'[p].parent = Runner \/ (proc'[p].parent \in Alive' /\ proc'[p].parent < p)
    BY DEF ParentsAlive
  <2>2. p \in Pids \ S BY <1>3 DEF Visible
  <2>3. p \in Visible BY <1>2, <2>2 DEF Visible
  <2> QED BY <1>2, <1>6, <2>1, <2>2, <2>3 DEF TreeFine, ParentsAlive
<1> QED BY <1>2, <1>4, <1>5, <1>6, <1>7, <1>8 DEF TreeFine

LEMMA ReapedStep ==
  ASSUME TreeFine, proc' = Reaped, host' = host
  PROVE  TreeFine' /\ Alive' = Alive /\ \A p \in Pids : proc'[p].is = "none" <=> proc[p].is = "none"
<1> DEFINE S == {p \in Pids : proc[p].is = "zombie" /\ proc[p].parent = Runner}
<1>1. proc' = GoneOf(S) BY Zenon DEF Reaped, GoneOf
<1>2. \A p \in S \cap Pids : proc[p].is = "zombie" OBVIOUS
<1> HIDE DEF S
<1> QED BY <1>1, <1>2, GoneStep

LEMMA OneGone ==
  ASSUME TreeFine, NEW p \in Pids, proc[p].is = "zombie", host' = host,
         proc' = [proc EXCEPT ![p].is = "gone"]
  PROVE  /\ TreeFine' /\ Alive' = Alive
         /\ \A q \in Pids : proc'[q].is = "none" <=> proc[q].is = "none"
         /\ \A q \in Pids \ {p} : proc'[q] = proc[q]
<1>1. proc' = GoneOf({p}) BY DEF TreeFine, ProcsTyped, GoneOf
<1>2. \A q \in {p} \cap Pids : proc[q].is = "zombie" OBVIOUS
<1> QED BY <1>1, <1>2, GoneStep

\* A process that starts, on behalf of one that is alive or of the runner.
LEMMA BornStep ==
  ASSUME TreeFine, NEW q \in Pids, proc[q].is = "none", \A r \in Pids : r < q => proc[r].is # "none",
         NEW parent \in Alive \cup {Runner}, NEW kind \in CommandKinds,
         ProcStarts(q, parent, kind), host' = host
  PROVE  /\ TreeFine' /\ Alive' = Alive \cup {q} /\ proc'[q] # proc[q]
         /\ \A r \in Pids \ {q} : proc'[r] = proc[r]
<1> DEFINE born == [is |-> "alive", parent |-> parent, kind |-> kind]
<1>1. parent \in ProcParents BY PidFacts DEF Alive
<1>2. born \in ProcRecords BY <1>1 DEF ProcRecords, ProcStates
<1>3. proc'[q] = born /\ proc' \in [Pids -> ProcRecords]
  BY <1>2 DEF TreeFine, ProcsTyped, ProcStarts
<1>4. \A r \in Pids \ {q} : proc'[r] = proc[r] BY DEF TreeFine, ProcsTyped, ProcStarts
<1>5. proc'[q].is = "alive" /\ proc'[q].parent = parent BY <1>3
<1> HIDE DEF born
<1>6. Alive' = Alive \cup {q} BY <1>4, <1>5 DEF Alive
<1>7. PidsInOrder'
  <2>1. SUFFICES ASSUME NEW x \in Pids, NEW r \in Pids, r < x, proc'[r].is = "none"
        PROVE  proc'[x].is = "none" BY DEF PidsInOrder
  <2>2. r # q /\ proc[r].is = "none" BY <1>4, <1>5, <2>1
  <2>3. proc[x].is = "none" BY <2>1, <2>2 DEF TreeFine, PidsInOrder
  <2>4. x # q BY <2>1, <2>2
  <2> QED BY <1>4, <2>3, <2>4
<1>8. parent \in Alive => parent < q
  <2>1. SUFFICES ASSUME parent \in Alive PROVE parent < q OBVIOUS
  <2>2. parent \in Pids /\ proc[parent].is = "alive" BY <2>1 DEF Alive
  <2>3. ~(q < parent) BY <2>2 DEF TreeFine, PidsInOrder
  <2>4. parent # q BY <2>2
  <2> QED BY <2>2, <2>3, <2>4, PidFacts
<1>9. ParentsAlive'
  <2>1. SUFFICES ASSUME host = "linux", NEW p \in Visible'
        PROVE  proc'[p].parent = Runner \/ (proc'[p].parent \in Alive' /\ proc'[p].parent < p)
    BY DEF ParentsAlive
  <2>2. CASE p = q BY <1>5, <1>6, <1>8, <2>2
  <2>3. CASE p # q
    <3>1. p \in Visible /\ proc'[p] = proc[p] BY <1>4, <2>3 DEF Visible
    <3> QED BY <1>6, <2>1, <3>1 DEF TreeFine, ParentsAlive
  <2> QED BY <2>2, <2>3
<1> QED BY <1>3, <1>4, <1>5, <1>6, <1>7, <1>9 DEF TreeFine, ProcsTyped

(* The records of the runner, its walk and its tracker. *)
RunPlaces == {"start", "run", "group", "groupWait", "groupKill", "groupKilled", "look", "term",
              "wait", "kill", "killed", "again", "returned"}
RunPolls == 0..MaxPolls
RunRecords == [at : RunPlaces, signal : BOOLEAN, polls : RunPolls, group : BOOLEAN,
               rest : BOOLEAN, code : {0, 125, 127}]
WalkModes == {"idle", "files", "status", "done", "unknown"}
WalkTodos == SUBSET (Pids \cup {Runner})
WalkFounds == SUBSET Pids
ParentMaps == UNION {[D -> ProcParents] : D \in SUBSET Pids}
WalkRecords == [mode : WalkModes, todo : WalkTodos, found : WalkFounds, parents : ParentMaps,
                pass : {0, 1, 2}]
PidSets == SUBSET Pids
KqRecords == [live : PidSets, child : PidSets, exit : PidSets, error : BOOLEAN, failed : BOOLEAN]
RunnerTyped == run \in RunRecords /\ walk \in WalkRecords /\ kq \in KqRecords

Moved(m, at, polls) == [m EXCEPT !.at = at, !.polls = polls]

LEMMA PollsZero == 0 \in RunPolls
BY BoundedRunnerAssumption DEF RunPolls

LEMMA MovedFields ==
  ASSUME NEW m \in RunRecords, NEW a \in RunPlaces, NEW n \in RunPolls
  PROVE  Moved(m, a, n) \in RunRecords /\ Moved(m, a, n).at = a
<1>1. PICK k : k = [m EXCEPT !.at = a] OBVIOUS
<1>2. k \in RunRecords /\ k.at = a BY <1>1, SMT DEF RunRecords
<1>3. PICK j : j = [k EXCEPT !.polls = n] OBVIOUS
<1>4. j \in RunRecords BY <1>2, <1>3, SMT DEF RunRecords
<1>5. j.at = a BY <1>2, <1>3, SMT DEF RunRecords
<1>6. j = Moved(m, a, n) BY <1>1, <1>3, Zenon DEF Moved
<1> QED BY <1>4, <1>5, <1>6

LEMMA DecidedFields ==
  ASSUME RunnerTyped, NEW r \in BOOLEAN, Decides("again", r)
  PROVE  run' \in RunRecords /\ run'.at = "again" /\ (run'.rest => r)
<1>1. PICK k : k = [run EXCEPT !.at = "again"] OBVIOUS
<1>2. k \in RunRecords /\ k.at = "again" BY <1>1, SMT DEF RunRecords, RunnerTyped, RunPlaces
<1>3. PICK j : j = [k EXCEPT !.rest = r] OBVIOUS
<1>4. j \in RunRecords BY <1>2, <1>3, SMT DEF RunRecords
<1>5. j.at = "again" BY <1>2, <1>3, SMT DEF RunRecords
<1>6. j.rest => r BY <1>2, <1>3, SMT DEF RunRecords
<1>7. PICK i : i = [j EXCEPT !.polls = 0] OBVIOUS
<1>8. i \in RunRecords BY <1>4, <1>7, PollsZero, SMT DEF RunRecords
<1>9. i.at = "again" BY <1>4, <1>5, <1>7, SMT DEF RunRecords
<1>10. i.rest => r BY <1>4, <1>6, <1>7, SMT DEF RunRecords
<1>11. i = run' BY <1>1, <1>3, <1>7, Zenon DEF Decides
<1> QED BY <1>8, <1>9, <1>10, <1>11

LEMMA ReturnsFields ==
  ASSUME RunnerTyped, NEW c \in {0, 125, 127}, Returns(c)
  PROVE  run' \in RunRecords /\ run'.at = "returned" /\ run'.code = c
<1>1. PICK k : k = [run EXCEPT !.at = "returned"] OBVIOUS
<1>2. k \in RunRecords /\ k.at = "returned" BY <1>1, SMT DEF RunRecords, RunnerTyped, RunPlaces
<1>3. PICK j : j = [k EXCEPT !.code = c] OBVIOUS
<1>4. j \in RunRecords BY <1>2, <1>3, SMT DEF RunRecords
<1>5. j.at = "returned" /\ j.code = c BY <1>2, <1>3, SMT DEF RunRecords
<1>6. j = run' BY <1>1, <1>3, Zenon DEF Returns
<1> QED BY <1>4, <1>5, <1>6

LEMMA GoesFields ==
  ASSUME RunnerTyped, NEW a \in RunPlaces, Goes(a)
  PROVE  run' \in RunRecords /\ run'.at = a
<1>1. run' = Moved(run, a, 0) BY Zenon DEF Goes, Moved
<1> QED BY <1>1, MovedFields, PollsZero DEF RunnerTyped

LEMMA SignalFields ==
  ASSUME RunnerTyped, run' = [run EXCEPT !.signal = TRUE]
  PROVE  /\ run' \in RunRecords /\ run'.at = run.at /\ run'.code = run.code
         /\ run'.rest => run.rest
<1>1. run \in RunRecords BY DEF RunnerTyped
<1>2. PICK v \in BOOLEAN : v = TRUE OBVIOUS
<1>3. PICK k : k = [run EXCEPT !.signal = v] OBVIOUS
<1>4. k \in RunRecords BY <1>1, <1>3, SMT DEF RunRecords
<1>5. k.at = run.at /\ k.code = run.code BY <1>1, <1>3, SMT DEF RunRecords
<1>6. k.rest => run.rest BY <1>1, <1>3, SMT DEF RunRecords
<1>7. k = run' BY <1>2, <1>3
<1> QED BY <1>4, <1>5, <1>6, <1>7

WithExit(m, S) == [m EXCEPT !.exit = S]
LEMMA ExitFields ==
  ASSUME NEW m \in KqRecords, NEW S \in PidSets
  PROVE  /\ WithExit(m, S) \in KqRecords /\ WithExit(m, S).exit = S
         /\ WithExit(m, S).live = m.live /\ WithExit(m, S).child = m.child
         /\ WithExit(m, S).error <=> m.error
         /\ WithExit(m, S).failed <=> m.failed
<1>1. PICK k : k = [m EXCEPT !.exit = S] OBVIOUS
<1>2. k \in KqRecords BY <1>1, SMT DEF KqRecords
<1>3. k.exit = S /\ k.live = m.live /\ k.child = m.child BY <1>1, SMT DEF KqRecords
<1>4. (k.error <=> m.error) /\ (k.failed <=> m.failed) BY <1>1, SMT DEF KqRecords
<1>5. k = WithExit(m, S) BY <1>1 DEF WithExit
<1> QED BY <1>2, <1>3, <1>4, <1>5

LEMMA KqSets ==
  ASSUME NEW m \in KqRecords
  PROVE  m.live \in PidSets /\ m.child \in PidSets /\ m.exit \in PidSets
BY SMT DEF KqRecords

LEMMA PolledFields ==
  ASSUME RunnerTyped
  PROVE  /\ Polled \in KqRecords
         /\ Polled.live = (kq.live \cup kq.child) \ kq.exit /\ Polled.exit = {}
         /\ Polled.child = {}
         /\ Polled.failed <=> (kq.failed \/ kq.error)
         /\ ~Polled.error
<1>0. kq \in KqRecords BY DEF RunnerTyped
<1>1. PICK L \in PidSets : L = (kq.live \cup kq.child) \ kq.exit BY <1>0, KqSets DEF PidSets
<1>2. {} \in PidSets BY DEF PidSets
<1>3. PICK k : k = [kq EXCEPT !.live = L] OBVIOUS
<1>4. k \in KqRecords /\ k.live = L /\ (k.failed <=> kq.failed) BY <1>0, <1>3, SMT DEF KqRecords
<1>5. PICK j : j = [k EXCEPT !.child = {}] OBVIOUS
<1>6. j \in KqRecords BY <1>2, <1>4, <1>5, SMT DEF KqRecords
<1>7. j.live = L /\ j.child = {} BY <1>4, <1>5, SMT DEF KqRecords
<1>8. j.failed <=> kq.failed BY <1>4, <1>5, SMT DEF KqRecords
<1>9. PICK i : i = [j EXCEPT !.exit = {}] OBVIOUS
<1>10. i \in KqRecords BY <1>2, <1>6, <1>9, SMT DEF KqRecords
<1>11. i.live = L /\ i.child = {} /\ i.exit = {} BY <1>6, <1>7, <1>9, SMT DEF KqRecords
<1>12. i.failed <=> kq.failed BY <1>6, <1>8, <1>9, SMT DEF KqRecords
<1>13. PICK v \in BOOLEAN : v = (kq.failed \/ kq.error) OBVIOUS
<1>14. PICK h : h = [i EXCEPT !.failed = v] OBVIOUS
<1>15. h \in KqRecords BY <1>10, <1>14, SMT DEF KqRecords
<1>16. h.live = L /\ h.child = {} /\ h.exit = {} BY <1>10, <1>11, <1>14, SMT DEF KqRecords
<1>17. h.failed <=> v BY <1>10, <1>14, SMT DEF KqRecords
<1>23. PICK w \in BOOLEAN : w = FALSE OBVIOUS
<1>18. PICK g : g = [h EXCEPT !.error = w] OBVIOUS
<1>19. g \in KqRecords BY <1>15, <1>18, SMT DEF KqRecords
<1>20. g.live = L /\ g.child = {} /\ g.exit = {} BY <1>15, <1>16, <1>18, SMT DEF KqRecords
<1>24. (g.failed <=> v) /\ (g.error <=> w) BY <1>15, <1>17, <1>18, SMT DEF KqRecords
<1>21. (g.failed <=> v) /\ ~g.error BY <1>23, <1>24
<1>22. g = Polled BY <1>1, <1>3, <1>5, <1>9, <1>13, <1>14, <1>18, <1>23, Zenon DEF Polled
<1> QED BY <1>1, <1>13, <1>19, <1>20, <1>21, <1>22

WalkMode(m, v) == [m EXCEPT !.mode = v]
LEMMA WalkModeFields ==
  ASSUME NEW m \in WalkRecords, NEW v \in WalkModes
  PROVE  /\ WalkMode(m, v) \in WalkRecords /\ WalkMode(m, v).mode = v
         /\ WalkMode(m, v).todo = m.todo /\ WalkMode(m, v).found = m.found /\ WalkMode(m, v).parents = m.parents
<1>1. PICK k : k = [m EXCEPT !.mode = v] OBVIOUS
<1>2. k \in WalkRecords BY <1>1, SMT DEF WalkRecords
<1>3. k.mode = v /\ k.todo = m.todo /\ k.found = m.found /\ k.parents = m.parents BY <1>1, SMT DEF WalkRecords
<1>4. k = WalkMode(m, v) BY <1>1 DEF WalkMode
<1> QED BY <1>2, <1>3, <1>4

WalkTodo(m, v) == [m EXCEPT !.todo = v]
LEMMA WalkTodoFields ==
  ASSUME NEW m \in WalkRecords, NEW v \in WalkTodos
  PROVE  /\ WalkTodo(m, v) \in WalkRecords /\ WalkTodo(m, v).todo = v
         /\ WalkTodo(m, v).mode = m.mode /\ WalkTodo(m, v).found = m.found /\ WalkTodo(m, v).parents = m.parents
<1>1. PICK k : k = [m EXCEPT !.todo = v] OBVIOUS
<1>2. k \in WalkRecords BY <1>1, SMT DEF WalkRecords
<1>3. k.todo = v /\ k.mode = m.mode /\ k.found = m.found /\ k.parents = m.parents BY <1>1, SMT DEF WalkRecords
<1>4. k = WalkTodo(m, v) BY <1>1 DEF WalkTodo
<1> QED BY <1>2, <1>3, <1>4

WalkFound(m, v) == [m EXCEPT !.found = v]
LEMMA WalkFoundFields ==
  ASSUME NEW m \in WalkRecords, NEW v \in WalkFounds
  PROVE  /\ WalkFound(m, v) \in WalkRecords /\ WalkFound(m, v).found = v
         /\ WalkFound(m, v).mode = m.mode /\ WalkFound(m, v).todo = m.todo /\ WalkFound(m, v).parents = m.parents
<1>1. PICK k : k = [m EXCEPT !.found = v] OBVIOUS
<1>2. k \in WalkRecords BY <1>1, SMT DEF WalkRecords
<1>3. k.found = v /\ k.mode = m.mode /\ k.todo = m.todo /\ k.parents = m.parents BY <1>1, SMT DEF WalkRecords
<1>4. k = WalkFound(m, v) BY <1>1 DEF WalkFound
<1> QED BY <1>2, <1>3, <1>4

WalkParents(m, v) == [m EXCEPT !.parents = v]
LEMMA WalkParentsFields ==
  ASSUME NEW m \in WalkRecords, NEW v \in ParentMaps
  PROVE  /\ WalkParents(m, v) \in WalkRecords /\ WalkParents(m, v).parents = v
         /\ WalkParents(m, v).mode = m.mode /\ WalkParents(m, v).todo = m.todo /\ WalkParents(m, v).found = m.found
<1>1. PICK k : k = [m EXCEPT !.parents = v] OBVIOUS
<1>2. k \in WalkRecords BY <1>1, SMT DEF WalkRecords
<1>3. k.parents = v /\ k.mode = m.mode /\ k.todo = m.todo /\ k.found = m.found BY <1>1, SMT DEF WalkRecords
<1>4. k = WalkParents(m, v) BY <1>1 DEF WalkParents
<1> QED BY <1>2, <1>3, <1>4

LEMMA WalkSets ==
  ASSUME NEW m \in WalkRecords
  PROVE  /\ m.mode \in WalkModes /\ m.todo \in WalkTodos /\ m.found \in WalkFounds
         /\ m.parents \in ParentMaps
BY SMT DEF WalkRecords

LEMMA EmptyMap == <<>> \in ParentMaps /\ DOMAIN <<>> = {}
<1>1. <<>> \in [{} -> ProcParents] OBVIOUS
<1>2. {} \in SUBSET Pids OBVIOUS
<1> QED BY <1>1, <1>2, Zenon DEF ParentMaps

LEMMA NoWalkFields ==
  NoWalk \in WalkRecords /\ NoWalk.mode = "idle" /\ NoWalk.todo = {} /\ NoWalk.found = {}
  /\ NoWalk.parents = <<>>
<1>1. {} \in WalkTodos /\ {} \in WalkFounds /\ "idle" \in WalkModes
  BY DEF WalkTodos, WalkFounds, WalkModes
<1>2. PICK t \in WalkTodos : t = {} BY <1>1
<1>3. PICK f \in WalkFounds : f = {} BY <1>1
<1>4. PICK e \in ParentMaps : e = <<>> BY EmptyMap
<1>5. PICK d \in WalkModes : d = "idle" BY <1>1
<1>6. PICK n : n = [mode |-> d, todo |-> t, found |-> f, parents |-> e, pass |-> 0] OBVIOUS
<1>7. n \in WalkRecords BY <1>6, SMT DEF WalkRecords
<1>8. n.mode = d /\ n.todo = t /\ n.found = f /\ n.parents = e BY <1>6
<1>9. n = NoWalk BY <1>2, <1>3, <1>4, <1>5, <1>6, Zenon DEF NoWalk
<1> QED BY <1>2, <1>3, <1>4, <1>5, <1>7, <1>8, <1>9

LEMMA ScanningFields ==
  /\ Scanning \in WalkRecords /\ Scanning.mode = "files" /\ Scanning.todo = {Runner}
  /\ Scanning.found = {}
<1>1. PICK d \in WalkModes : d = "files" BY DEF WalkModes
<1>2. PICK t \in WalkTodos : t = {Runner} BY DEF WalkTodos
<1>3. PICK k : k = WalkMode(NoWalk, d) OBVIOUS
<1>4. k \in WalkRecords /\ k.mode = d /\ k.found = {} BY <1>3, WalkModeFields, NoWalkFields
<1>5. PICK n : n = WalkTodo(k, t) OBVIOUS
<1>6. n \in WalkRecords /\ n.mode = d /\ n.todo = t /\ n.found = {} BY <1>4, <1>5, WalkTodoFields
<1>7. n = Scanning BY <1>1, <1>2, <1>3, <1>5, Zenon DEF Scanning, WalkMode, WalkTodo
<1> QED BY <1>1, <1>2, <1>6, <1>7

LEMMA ListingFields ==
  ASSUME NEW pass \in {0, 1, 2}
  PROVE  /\ Listing(pass) \in WalkRecords /\ Listing(pass).mode = "status"
         /\ Listing(pass).todo = Visible /\ Listing(pass).parents = <<>>
<1>1. PICK d \in WalkModes : d = "status" BY DEF WalkModes
<1>2. PICK t \in WalkTodos : t = Visible BY DEF WalkTodos, Visible
<1>3. PICK k : k = WalkMode(NoWalk, d) OBVIOUS
<1>4. k \in WalkRecords /\ k.mode = d /\ k.parents = <<>> BY <1>3, WalkModeFields, NoWalkFields
<1>5. PICK j : j = WalkTodo(k, t) OBVIOUS
<1>6. j \in WalkRecords /\ j.mode = d /\ j.todo = t /\ j.parents = <<>>
  BY <1>4, <1>5, WalkTodoFields
<1>7. PICK n : n = [j EXCEPT !.pass = pass] OBVIOUS
<1>8. n \in WalkRecords BY <1>6, <1>7, SMT DEF WalkRecords
<1>9. n.mode = d /\ n.todo = t /\ n.parents = <<>> BY <1>6, <1>7, SMT DEF WalkRecords
<1>10. n = Listing(pass) BY <1>1, <1>2, <1>3, <1>5, <1>7, Zenon DEF Listing, WalkMode, WalkTodo
<1> QED BY <1>1, <1>2, <1>8, <1>9, <1>10

(* What the runner knows. *)
Unborn == {p \in Pids : proc[p].is = "none"}
Over == {p \in Pids : proc[p].is \notin {"none", "alive"}}

\* An exit the tracker was told of is one, and until it says that it lost track it was
\* told of all that live.
ExitsOver == kq.exit \subseteq Over
Tracks == kq.error \/ kq.failed \/ Alive \subseteq kq.live \cup kq.child
KqFine == ExitsOver /\ (host = "kqueue" /\ run.at # "start" => Tracks)

\* A walk that has found nobody has a child of the runner before it, or behind it in its
\* map, while anything is alive.
ChildrenKnown ==
  {c \in DOMAIN walk.parents : walk.parents[c] = Runner}
    \cup {c \in Visible \cap walk.todo : proc[c].parent = Runner}
WalkFine ==
  /\ walk.mode # "idle" => host = "linux" /\ Seeking
  /\ walk.mode = "files" /\ walk.found = {} => walk.todo = {Runner}
  /\ walk.mode = "status" => (Alive = {} \/ ChildrenKnown # {})
  /\ walk.mode = "status" => walk.todo \cap DOMAIN walk.parents = {}
  /\ walk.mode = "done" /\ walk.found = {} => Alive = {}

\* Nothing is alive once the runner has decided that nothing is left.
RunFine ==
  /\ run.at = "start" => Unborn = Pids /\ kq.exit = {}
  /\ run.at = "again" /\ run.rest => Alive = {}
  /\ Contained

CommandInv ==
  host \in {"linux", "kqueue"} /\ TreeFine /\ RunnerTyped /\ KqFine /\ WalkFine /\ RunFine

LEMMA OverStays ==
  ASSUME Unborn' = Unborn, Alive' \subseteq Alive
  PROVE  Over \subseteq Over' /\ Alive \ Alive' \subseteq Over'
<1>1. Over = Pids \ (Unborn \cup Alive) BY DEF Over, Unborn, Alive
<1>2. Over' = Pids \ (Unborn' \cup Alive') BY DEF Over, Unborn, Alive
<1>3. Alive \cap Unborn = {} BY DEF Alive, Unborn
<1>4. Alive \subseteq Pids BY DEF Alive
<1> QED BY <1>1, <1>2, <1>3, <1>4

LEMMA StartIsEmpty ==
  ASSUME CommandInv, run.at = "start"
  PROVE  Alive = {}
BY DEF CommandInv, RunFine, Unborn, Alive

LEMMA NotSeeking ==
  ASSUME CommandInv, ~Seeking
  PROVE  walk.mode = "idle"
BY DEF CommandInv, WalkFine

LEMMA IdleWalk ==
  ASSUME walk'.mode = "idle"
  PROVE  WalkFine'
BY DEF WalkFine

LEMMA KqKept ==
  ASSUME CommandInv, kq' = kq, host' = host, Unborn' = Unborn, Alive' \subseteq Alive
  PROVE  KqFine'
<1>1. ExitsOver' BY OverStays DEF CommandInv, KqFine, ExitsOver
<1>2. CASE run.at = "start"
  <2>1. Alive' = {} BY <1>2, StartIsEmpty
  <2> QED BY <1>1, <2>1 DEF KqFine, Tracks
<1>3. CASE run.at # "start" BY <1>1, <1>3 DEF CommandInv, KqFine, Tracks
<1> QED BY <1>2, <1>3

\* A poll loses nothing that is alive.
LEMMA PollTracks ==
  ASSUME CommandInv, host = "kqueue", run.at # "start"
  PROVE  Polled.failed \/ Alive \subseteq Polled.live
<1>1. Over \cap Alive = {} BY DEF Over, Alive
<1>2. kq.exit \cap Alive = {} BY <1>1 DEF CommandInv, KqFine, ExitsOver
<1>3. Tracks BY DEF CommandInv, KqFine
<1> QED BY <1>2, <1>3, PolledFields DEF CommandInv, Tracks

LEMMA KqPolled ==
  ASSUME CommandInv, kq' = Polled, host' = host, run.at # "start", Alive' \subseteq Alive
  PROVE  KqFine'
<1>1. kq'.exit = {} /\ kq'.child = {} BY PolledFields DEF CommandInv
<1>2. host = "kqueue" => Tracks' BY <1>1, PollTracks DEF Tracks
<1> QED BY <1>1, <1>2 DEF KqFine, ExitsOver

\* Nobody was found, and that is known: nothing is alive.
LEMMA NoneFoundIsEmpty ==
  ASSUME CommandInv, Knows, NoneFound, Seeking
  PROVE  Alive = {}
<1>1. run.at # "start" BY DEF Seeking
<1>2. CASE host = "kqueue" BY <1>1, <1>2, PollTracks DEF NoneFound, Unsure, Found
<1>3. CASE host # "kqueue"
  <2>1. walk.mode = "done" /\ walk.found = {} BY <1>3 DEF Knows, NoneFound, Unsure, Found
  <2> QED BY <2>1 DEF CommandInv, WalkFine
<1> QED BY <1>2, <1>3

(* The steps of the runner. *)
LEMMA UnbornSame ==
  ASSUME \A p \in Pids : proc'[p].is = "none" <=> proc[p].is = "none"
  PROVE  Unborn' = Unborn
BY DEF Unborn

LEMMA TreeSame ==
  ASSUME TreeFine, proc' = proc, host' = host
  PROVE  TreeFine' /\ Alive' = Alive /\ Unborn' = Unborn
BY DEF TreeFine, ProcsTyped, PidsInOrder, ParentsAlive, Alive, Visible, Unborn

\* A step to a place at which nothing is decided.
LEMMA RunOn ==
  ASSUME run'.at \notin {"start", "again", "returned"}
  PROVE  RunFine'
BY DEF RunFine, Contained

LEMMA RefusedStep ==
  ASSUME CommandInv, Refused
  PROVE  CommandInv'
<1>0. run.at = "start" BY DEF Refused
<1>1. PICK c \in {125, 127} : Returns(c) BY DEF Refused
<1>2. RunnerTyped BY DEF CommandInv
<1>3. run' \in RunRecords /\ run'.at = "returned" BY <1>1, <1>2, ReturnsFields
<1>4. proc' = proc /\ host' = host /\ walk' = walk /\ kq' = kq BY DEF Refused
<1>5. TreeFine' /\ Alive' = Alive /\ Unborn' = Unborn BY <1>4, TreeSame DEF CommandInv
<1>6. walk'.mode = "idle" BY <1>0, <1>4, NotSeeking DEF Seeking
<1>7. KqFine' BY <1>4, <1>5, KqKept
<1>8. RunFine' BY <1>0, <1>3, <1>5, StartIsEmpty DEF RunFine, Contained
<1> QED BY <1>2, <1>3, <1>4, <1>5, <1>6, <1>7, <1>8, IdleWalk DEF CommandInv, RunnerTyped

WithLive(m, S) == [m EXCEPT !.live = S]
LEMMA LiveFields ==
  ASSUME NEW m \in KqRecords, NEW S \in PidSets
  PROVE  /\ WithLive(m, S) \in KqRecords /\ WithLive(m, S).live = S
         /\ WithLive(m, S).child = m.child /\ WithLive(m, S).exit = m.exit
         /\ WithLive(m, S).error <=> m.error
         /\ WithLive(m, S).failed <=> m.failed
<1>1. PICK k : k = [m EXCEPT !.live = S] OBVIOUS
<1>2. k \in KqRecords BY <1>1, SMT DEF KqRecords
<1>3. k.live = S /\ k.child = m.child /\ k.exit = m.exit BY <1>1, SMT DEF KqRecords
<1>4. (k.error <=> m.error) /\ (k.failed <=> m.failed) BY <1>1, SMT DEF KqRecords
<1>5. k = WithLive(m, S) BY <1>1 DEF WithLive
<1> QED BY <1>2, <1>3, <1>4, <1>5

LEMMA SpawnStep ==
  ASSUME CommandInv, SpawnCommand
  PROVE  CommandInv'
<1>0. run.at = "start" BY DEF SpawnCommand
<1>1. PICK k \in ProcKinds \ {"escaped", "foreign"} : ProcStarts(Root, Runner, k)
  BY DEF SpawnCommand
<1>2. host' = host /\ walk' = walk /\ Goes("run") BY DEF SpawnCommand
<1>3. Unborn = Pids /\ kq.exit = {} BY <1>0 DEF CommandInv, RunFine
<1>4. Root \in Pids /\ proc[Root].is = "none" BY <1>3, PidFacts DEF Unborn
<1>5. \A r \in Pids : r < Root => proc[r].is # "none" BY PidFacts DEF Pids, Root
<1>6. k \in CommandKinds BY ProcessTreeAssumption DEF CommandKinds
<1>7. TreeFine' /\ Alive' = Alive \cup {Root}
  BY <1>1, <1>2, <1>4, <1>5, <1>6, BornStep DEF CommandInv
<1>8. Alive' = {Root} BY <1>0, <1>7, StartIsEmpty
<1>9. run' \in RunRecords /\ run'.at = "run" BY <1>2, GoesFields DEF CommandInv, RunPlaces
<1>10. walk'.mode = "idle" BY <1>0, <1>2, NotSeeking DEF Seeking
<1>11. PICK L \in PidSets : L = IF host = "kqueue" THEN {Root} ELSE {} BY <1>4 DEF PidSets
<1>12. kq' = WithLive(kq, L) BY <1>11, Zenon DEF SpawnCommand, WithLive
<1>13. kq' \in KqRecords /\ kq'.live = L /\ kq'.exit = {}
  BY <1>3, <1>12, LiveFields DEF CommandInv, RunnerTyped
<1>14. KqFine' BY <1>2, <1>8, <1>11, <1>13 DEF KqFine, ExitsOver, Tracks
<1>15. RunFine' BY <1>9, RunOn
<1> QED BY <1>2, <1>7, <1>9, <1>10, <1>13, <1>14, <1>15, IdleWalk DEF CommandInv, RunnerTyped

LEMMA NoticeStep ==
  ASSUME CommandInv, Notice
  PROVE  CommandInv'
<1>0. run.at = "run" /\ host' = host /\ walk' = walk /\ Goes("group") BY DEF Notice
<1>1. run' \in RunRecords /\ run'.at = "group" BY <1>0, GoesFields DEF CommandInv, RunPlaces
<1>2. walk'.mode = "idle" BY <1>0, NotSeeking DEF Seeking
<1>3. RunFine' BY <1>1, RunOn
<1>4. Polled \in KqRecords BY PolledFields DEF CommandInv
<1>5. CASE proc[Root].is = "zombie" /\ proc' = [proc EXCEPT ![Root].is = "gone"]
           /\ kq' = [Polled EXCEPT !.live = @ \ {Root}]
  <2>1. TreeFine' /\ Alive' = Alive BY <1>0, <1>5, OneGone, PidFacts DEF CommandInv
  <2>2. PICK L \in PidSets : L = Polled.live \ {Root} BY <1>4, KqSets DEF PidSets
  <2>3. kq' = WithLive(Polled, L) BY <1>5, <2>2, Zenon DEF WithLive
  <2>4. /\ kq' \in KqRecords /\ kq'.live = L /\ kq'.exit = {}
        /\ kq'.failed <=> Polled.failed
    BY <1>4, <2>3, LiveFields, PolledFields DEF CommandInv
  <2>5. Root \notin Alive BY <1>5 DEF Alive
  <2>6. host = "kqueue" => Tracks' BY <1>0, <2>1, <2>2, <2>4, <2>5, PollTracks DEF Tracks
  <2>7. KqFine' BY <1>0, <2>4, <2>6 DEF KqFine, ExitsOver
  <2> QED BY <1>0, <1>1, <1>2, <1>3, <2>1, <2>4, <2>7, IdleWalk DEF CommandInv, RunnerTyped
<1>6. CASE proc' = proc /\ kq' = Polled
  <2>1. TreeFine' /\ Alive' = Alive BY <1>0, <1>6, TreeSame DEF CommandInv
  <2>2. KqFine' BY <1>0, <1>6, <2>1, KqPolled
  <2> QED BY <1>0, <1>1, <1>2, <1>3, <1>4, <1>6, <2>1, <2>2, IdleWalk DEF CommandInv, RunnerTyped
<1> QED BY <1>5, <1>6 DEF Notice

\* A signal to the processes in S.
LEMMA KillStep ==
  ASSUME CommandInv, NEW S, NEW sig, KillGroup(S, sig), host' = host, run.at # "start"
  PROVE  TreeFine' /\ kq' \in KqRecords /\ KqFine' /\ Unborn' = Unborn
<1>1. PICK G : G = Ended(S, sig) OBVIOUS
<1>2. G \subseteq Alive BY <1>1 DEF Ended
<1>3. proc' = After(G) /\ kq' = WithExit(kq, kq.exit \cup G)
  BY <1>1, Zenon DEF KillGroup, WithExit
<1>4. /\ TreeFine' /\ Alive' = Alive \ G
      /\ \A p \in Pids : proc'[p].is = "none" <=> proc[p].is = "none"
  BY <1>2, <1>3, AfterStep DEF CommandInv
<1>5. Unborn' = Unborn BY <1>4, UnbornSame
<1>6. kq \in KqRecords /\ kq.exit \cup G \in PidSets
  BY <1>2, KqSets DEF CommandInv, RunnerTyped, PidSets, Alive
<1>7. /\ kq' \in KqRecords /\ kq'.exit = kq.exit \cup G
      /\ kq'.live = kq.live /\ kq'.child = kq.child
      /\ kq'.error <=> kq.error
      /\ kq'.failed <=> kq.failed
  BY <1>3, <1>6, ExitFields
<1>8. ExitsOver' BY <1>2, <1>4, <1>5, <1>7, OverStays DEF CommandInv, KqFine, ExitsOver
<1>9. Tracks => Tracks' BY <1>4, <1>7 DEF Tracks
<1> QED BY <1>4, <1>5, <1>7, <1>8, <1>9 DEF CommandInv, KqFine

LEMMA GroupLookStep ==
  ASSUME CommandInv, GroupLook
  PROVE  CommandInv'
<1>0. run.at = "group" /\ host' = host /\ walk' = walk BY DEF GroupLook
<1>1. walk'.mode = "idle" BY <1>0, NotSeeking DEF Seeking
<1>2. ASSUME Goes("look") \/ Goes("groupWait")
      PROVE  run' \in RunRecords /\ RunFine'
  <2>1. run' \in RunRecords /\ run'.at \in {"look", "groupWait"}
    BY <1>2, GoesFields DEF CommandInv, RunPlaces
  <2> QED BY <2>1, RunOn
<1>3. CASE Goes("look") /\ UNCHANGED <<proc, kq>>
  <2>1. TreeFine' /\ Alive' = Alive /\ Unborn' = Unborn BY <1>0, <1>3, TreeSame DEF CommandInv
  <2>2. KqFine' BY <1>0, <1>3, <2>1, KqKept
  <2> QED BY <1>0, <1>1, <1>2, <1>3, <2>1, <2>2, IdleWalk DEF CommandInv, RunnerTyped
<1>4. CASE KillGroup(Group, "term") /\ Goes("groupWait")
  <2>1. TreeFine' /\ kq' \in KqRecords /\ KqFine' BY <1>0, <1>4, KillStep
  <2> QED BY <1>0, <1>1, <1>2, <1>4, <2>1, IdleWalk DEF CommandInv, RunnerTyped
<1> QED BY <1>3, <1>4 DEF GroupLook

LEMMA GroupKillStep ==
  ASSUME CommandInv, GroupKill
  PROVE  CommandInv'
<1>0. run.at = "groupKill" /\ host' = host /\ walk' = walk /\ KillGroup(Group, "kill")
      /\ Goes("groupKilled")
  BY DEF GroupKill
<1>1. walk'.mode = "idle" BY <1>0, NotSeeking DEF Seeking
<1>2. run' \in RunRecords /\ run'.at = "groupKilled" BY <1>0, GoesFields DEF CommandInv, RunPlaces
<1>3. TreeFine' /\ kq' \in KqRecords /\ KqFine' BY <1>0, KillStep
<1> QED BY <1>0, <1>1, <1>2, <1>3, RunOn, IdleWalk DEF CommandInv, RunnerTyped

LEMMA PolledOnceMore ==
  ASSUME RunnerTyped, run.polls < MaxPolls, run' = [run EXCEPT !.polls = @ + 1]
  PROVE  run' \in RunRecords /\ run'.at = run.at
<1>1. run \in RunRecords BY DEF RunnerTyped
<1>2. run.polls \in RunPolls BY <1>1, SMT DEF RunRecords
<1>3. run.polls + 1 \in RunPolls BY <1>2, BoundedRunnerAssumption DEF RunPolls
<1>4. PICK n \in RunPolls : n = run.polls + 1 BY <1>3
<1>5. run' = [run EXCEPT !.polls = n] BY <1>4
<1>6. run' \in RunRecords BY <1>1, <1>5, SMT DEF RunRecords
<1>7. run'.at = run.at BY <1>1, <1>5, SMT DEF RunRecords
<1> QED BY <1>6, <1>7

LEMMA GroupLeft ==
  ASSUME RunnerTyped, run' = [run EXCEPT !.at = "look", !.polls = 0, !.group = FALSE]
  PROVE  run' \in RunRecords /\ run'.at = "look"
<1>1. PICK k : k = Moved(run, "look", 0) OBVIOUS
<1>2. k \in RunRecords /\ k.at = "look"
  BY <1>1, MovedFields, PollsZero DEF RunnerTyped, RunPlaces
<1>3. PICK v \in BOOLEAN : v = FALSE OBVIOUS
<1>4. PICK n : n = [k EXCEPT !.group = v] OBVIOUS
<1>5. n \in RunRecords BY <1>2, <1>4, SMT DEF RunRecords
<1>6. n.at = "look" BY <1>2, <1>4, SMT DEF RunRecords
<1>7. n = run' BY <1>1, <1>3, <1>4, Zenon DEF Moved
<1> QED BY <1>5, <1>6, <1>7

LEMMA GroupWaitStep ==
  ASSUME CommandInv, GroupWait
  PROVE  CommandInv'
<1>0. /\ run.at \in {"groupWait", "groupKilled"} /\ host' = host /\ walk' = walk /\ kq' = kq
      /\ proc' = Reaped
  BY DEF GroupWait
<1>1. walk'.mode = "idle" BY <1>0, NotSeeking DEF Seeking
<1>2. RunnerTyped BY DEF CommandInv
<1>3. run' \in RunRecords /\ run'.at \in {"look", "groupWait", "groupKill", "groupKilled"}
  <2>1. CASE run' = [run EXCEPT !.at = "look", !.polls = 0]
    <3>1. Goes("look") BY <2>1 DEF Goes
    <3> QED BY <3>1, <1>2, GoesFields DEF RunPlaces
  <2>2. CASE run.polls < MaxPolls /\ run' = [run EXCEPT !.polls = @ + 1]
    BY <1>0, <1>2, <2>2, PolledOnceMore
  <2>3. CASE run' = [run EXCEPT !.at = "groupKill"]
    <3>1. PICK a \in RunPlaces : a = "groupKill" BY DEF RunPlaces
    <3>2. run' = [run EXCEPT !.at = a] /\ run \in RunRecords BY <1>2, <2>3, <3>1 DEF RunnerTyped
    <3>3. run' \in RunRecords BY <3>2, SMT DEF RunRecords
    <3>4. run'.at = a BY <3>2, SMT DEF RunRecords
    <3> QED BY <3>1, <3>3, <3>4
  <2>4. CASE run' = [run EXCEPT !.at = "look", !.polls = 0, !.group = FALSE]
    BY <1>2, <2>4, GroupLeft
  <2> QED BY <2>1, <2>2, <2>3, <2>4 DEF GroupWait
<1>4. RunFine' BY <1>3, RunOn
<1>5. /\ TreeFine' /\ Alive' = Alive
      /\ \A p \in Pids : proc'[p].is = "none" <=> proc[p].is = "none"
  BY <1>0, ReapedStep DEF CommandInv
<1>6. Unborn' = Unborn BY <1>5, UnbornSame
<1>7. KqFine' BY <1>0, <1>5, <1>6, KqKept
<1> QED BY <1>0, <1>1, <1>2, <1>3, <1>4, <1>5, <1>7, IdleWalk DEF CommandInv, RunnerTyped

(* The steps of the walk. *)
LEMMA SeekingRun ==
  ASSUME Seeking, run' = run
  PROVE  RunFine'
BY RunOn DEF Seeking

\* The rest of the invariant, when only the walk moves.
LEMMA WalkOnly ==
  ASSUME CommandInv, Seeking, UNCHANGED <<proc, host, run, kq>>, walk' \in WalkRecords, WalkFine'
  PROVE  CommandInv'
<1>1. TreeFine' /\ Alive' = Alive /\ Unborn' = Unborn BY TreeSame DEF CommandInv
<1>2. KqFine' BY <1>1, KqKept
<1> QED BY <1>1, <1>2, SeekingRun DEF CommandInv, RunnerTyped

LEMMA BeginLookStep ==
  ASSUME CommandInv, BeginLook
  PROVE  CommandInv'
<1>0. Seeking /\ host = "linux" /\ walk' = Scanning /\ host' = host /\ run' = run /\ kq' = kq
  BY DEF BeginLook
<1>1. TreeFine' /\ Alive' = Alive /\ Unborn' = Unborn
  <2>1. CASE proc' = Reaped BY <1>0, <2>1, ReapedStep, UnbornSame DEF CommandInv
  <2>2. CASE proc' = proc BY <1>0, <2>2, TreeSame DEF CommandInv
  <2> QED BY <2>1, <2>2 DEF BeginLook
<1>2. KqFine' BY <1>0, <1>1, KqKept
<1>3. Seeking' BY <1>0 DEF Seeking
<1>4. WalkFine' BY <1>0, <1>3, ScanningFields DEF WalkFine
<1> QED BY <1>0, <1>1, <1>2, <1>4, SeekingRun, ScanningFields DEF CommandInv, RunnerTyped

\* The files are read from the runner down, so the walk ends with nobody only when the
\* runner has no child.
LEMMA ReadChildrenStep ==
  ASSUME CommandInv, NEW x \in walk.todo, ReadChildren(x)
  PROVE  CommandInv'
<1>0. walk.mode = "files" /\ x \in walk.todo /\ UNCHANGED <<proc, host, run, kq>>
  BY DEF ReadChildren
<1>1. host = "linux" /\ Seeking BY <1>0 DEF CommandInv, WalkFine
<1>2. PICK kids : kids = ChildrenOf(x) \ walk.found OBVIOUS
<1>3. kids \subseteq Pids BY <1>2 DEF ChildrenOf, Visible
<1>4. walk \in WalkRecords BY DEF CommandInv, RunnerTyped
<1>5. walk.todo \subseteq Pids \cup {Runner} /\ walk.found \subseteq Pids
  BY <1>4, WalkSets DEF WalkTodos, WalkFounds
<1>6. PICK t \in WalkTodos : t = (walk.todo \ {x}) \cup kids BY <1>3, <1>5 DEF WalkTodos
<1>7. PICK f \in WalkFounds : f = walk.found \cup kids BY <1>3, <1>5 DEF WalkFounds
<1>8. PICK d \in WalkModes : d = IF t = {} THEN "done" ELSE "files" BY DEF WalkModes
<1>9. PICK k : k = WalkFound(walk, f) OBVIOUS
<1>10. k \in WalkRecords /\ k.found = f BY <1>4, <1>9, WalkFoundFields
<1>11. PICK j : j = WalkTodo(k, t) OBVIOUS
<1>12. j \in WalkRecords /\ j.found = f /\ j.todo = t BY <1>10, <1>11, WalkTodoFields
<1>13. PICK n : n = WalkMode(j, d) OBVIOUS
<1>14. n \in WalkRecords /\ n.found = f /\ n.todo = t /\ n.mode = d
  BY <1>12, <1>13, WalkModeFields
<1>15. walk' = [walk EXCEPT !.found = f, !.todo = t, !.mode = d]
  BY <1>0, <1>2, <1>6, <1>7, <1>8 DEF ReadChildren
<1>16. walk' = n BY <1>9, <1>11, <1>13, <1>15, Zenon DEF WalkFound, WalkTodo, WalkMode
<1>17. Seeking' BY <1>0, <1>1 DEF Seeking
<1>18. f = {} => t = {} /\ Alive = {}
  <2>1. SUFFICES ASSUME f = {} PROVE t = {} /\ Alive = {} OBVIOUS
  <2>2. walk.found = {} /\ kids = {} BY <1>7, <2>1
  <2>3. walk.todo = {Runner} BY <1>0, <2>2 DEF CommandInv, WalkFine
  <2>4. x = Runner /\ t = {} BY <1>6, <2>2, <2>3
  <2>5. ChildrenOf(Runner) = {} BY <1>2, <2>2, <2>4
  <2>6. ~(\E c \in Alive : proc[c].parent = Runner) BY <2>5 DEF ChildrenOf, Visible, Alive
  <2> QED BY <1>1, <2>4, <2>6, AliveChild DEF CommandInv
<1>19. Alive' = Alive BY <1>0 DEF Alive
<1>20. WalkFine' BY <1>0, <1>1, <1>8, <1>14, <1>16, <1>17, <1>18, <1>19 DEF WalkFine
<1> QED BY <1>0, <1>1, <1>14, <1>16, <1>20, WalkOnly

\* A listing starts with all that is visible before it.
LEMMA ListingFine ==
  ASSUME CommandInv, Seeking, host = "linux", UNCHANGED <<proc, host, run, kq>>,
         NEW pass \in {0, 1, 2}, walk' = Listing(pass)
  PROVE  CommandInv'
<1>1. /\ walk' \in WalkRecords /\ walk'.mode = "status" /\ walk'.todo = Visible
      /\ DOMAIN walk'.parents = {}
  BY ListingFields, EmptyMap
<1>2. Alive' = Alive /\ Visible' = Visible BY DEF Alive, Visible
<1>3. Alive = {} \/ ChildrenKnown' # {}
  <2>1. SUFFICES ASSUME Alive # {} PROVE ChildrenKnown' # {} OBVIOUS
  <2>2. PICK c \in Alive : proc[c].parent = Runner BY <2>1, AliveChild DEF CommandInv
  <2>3. c \in Visible BY <2>2 DEF Visible, Alive
  <2>4. c \in Visible' \cap walk'.todo /\ proc'[c].parent = Runner BY <1>1, <1>2, <2>2, <2>3
  <2> QED BY <2>4 DEF ChildrenKnown
<1>4. Seeking' BY DEF Seeking
<1>5. WalkFine' BY <1>1, <1>2, <1>3, <1>4 DEF WalkFine
<1> QED BY <1>1, <1>5, WalkOnly

LEMMA FilesFailStep ==
  ASSUME CommandInv, FilesFail
  PROVE  CommandInv'
<1>1. walk.mode = "files" /\ walk' = Listing(1) /\ UNCHANGED <<proc, host, run, kq>>
  BY DEF FilesFail
<1>2. host = "linux" /\ Seeking BY <1>1 DEF CommandInv, WalkFine
<1> QED BY <1>1, <1>2, ListingFine

LEMMA StatusFailsStep ==
  ASSUME CommandInv, StatusFails
  PROVE  CommandInv'
<1>1. walk.mode = "status" /\ walk' = [NoWalk EXCEPT !.mode = "unknown"]
      /\ UNCHANGED <<proc, host, run, kq>>
  BY DEF StatusFails
<1>2. host = "linux" /\ Seeking BY <1>1 DEF CommandInv, WalkFine
<1>3. PICK d \in WalkModes : d = "unknown" BY DEF WalkModes
<1>4. walk' = WalkMode(NoWalk, d) BY <1>1, <1>3 DEF WalkMode
<1>5. walk' \in WalkRecords /\ walk'.mode = "unknown" BY <1>3, <1>4, WalkModeFields, NoWalkFields
<1>6. Seeking' BY <1>1, <1>2 DEF Seeking
<1>7. WalkFine' BY <1>1, <1>2, <1>5, <1>6 DEF WalkFine
<1> QED BY <1>1, <1>2, <1>5, <1>7, WalkOnly

\* A child of the runner is among the descendants of a map.
LEMMA ChildBelow ==
  ASSUME NEW m, NEW c \in DOMAIN m, m[c] = Runner
  PROVE  c \in Below(m)
BY DEF Below, HasChildren

LEMMA BelowInMap ==
  ASSUME NEW m
  PROVE  Below(m) \subseteq DOMAIN m
BY DEF Below

LEMMA MapDomains ==
  ASSUME NEW m \in ParentMaps
  PROVE  DOMAIN m \subseteq Pids /\ m \in [DOMAIN m -> ProcParents]
BY DEF ParentMaps

\* One more process is put in the map.
LEMMA StatusReadFine ==
  ASSUME CommandInv, walk.mode = "status", UNCHANGED <<proc, host, run, kq>>,
         NEW x \in walk.todo,
         walk' = [walk EXCEPT !.todo = @ \ {x},
                    !.parents = [q \in DOMAIN @ \cup ({x} \cap Visible) |->
                                   IF q = x THEN proc[x].parent ELSE @[q]]]
  PROVE  CommandInv'
<1>0. host = "linux" /\ Seeking BY DEF CommandInv, WalkFine
<1>1. walk \in WalkRecords BY DEF CommandInv, RunnerTyped
<1>2. walk.todo \subseteq Pids \cup {Runner} /\ walk.parents \in ParentMaps
  BY <1>1, WalkSets DEF WalkTodos
<1>3. DOMAIN walk.parents \subseteq Pids /\ walk.parents \in [DOMAIN walk.parents -> ProcParents]
  BY <1>2, MapDomains
<1>4. PICK t \in WalkTodos : t = walk.todo \ {x} BY <1>2 DEF WalkTodos
<1>5. PICK g : g = [q \in DOMAIN walk.parents \cup ({x} \cap Visible) |->
                      IF q = x THEN proc[x].parent ELSE walk.parents[q]]
  OBVIOUS
<1>6. Visible \subseteq Pids /\ \A p \in Pids : proc[p].parent \in ProcParents
  <2>1. \A p \in Pids : proc[p] \in ProcRecords BY DEF CommandInv, TreeFine, ProcsTyped
  <2>2. \A m \in ProcRecords : m.parent \in ProcParents BY SMT DEF ProcRecords
  <2> QED BY <2>1, <2>2 DEF Visible
<1>7. DOMAIN g = DOMAIN walk.parents \cup ({x} \cap Visible) BY <1>5
<1>8. g \in [DOMAIN g -> ProcParents] BY <1>3, <1>5, <1>6
<1>9. g \in ParentMaps BY <1>3, <1>6, <1>7, <1>8 DEF ParentMaps
<1>10. PICK k : k = WalkTodo(walk, t) OBVIOUS
<1>11. k \in WalkRecords /\ k.todo = t /\ k.mode = "status"
  BY <1>1, <1>10, WalkTodoFields
<1>12. PICK n : n = WalkParents(k, g) OBVIOUS
<1>13. n \in WalkRecords /\ n.todo = t /\ n.mode = "status" /\ n.parents = g
  BY <1>9, <1>11, <1>12, WalkParentsFields
<1>14. n = walk' BY <1>4, <1>5, <1>10, <1>12, Zenon DEF WalkTodo, WalkParents
<1>15. walk.todo \cap DOMAIN walk.parents = {} BY DEF CommandInv, WalkFine
<1>16. t \cap DOMAIN g = {} BY <1>4, <1>7, <1>15
<1>17. Alive' = Alive /\ Visible' = Visible BY DEF Alive, Visible
<1>18. Alive' = {} \/ ChildrenKnown' # {}
  <2>1. SUFFICES ASSUME Alive # {} PROVE ChildrenKnown' # {} BY <1>17
  <2>2. PICK c : c \in ChildrenKnown BY <2>1 DEF CommandInv, WalkFine
  <2>3. CASE c \in DOMAIN walk.parents /\ walk.parents[c] = Runner
    <3>1. c # x BY <1>15, <2>3
    <3>2. c \in DOMAIN g /\ g[c] = Runner BY <1>5, <2>3, <3>1
    <3> QED BY <1>13, <1>14, <3>2 DEF ChildrenKnown
  <2>4. CASE c \in Visible \cap walk.todo /\ proc[c].parent = Runner
    <3>1. CASE c = x
      <4>1. c \in DOMAIN g /\ g[c] = Runner BY <1>5, <2>4, <3>1
      <4> QED BY <1>13, <1>14, <4>1 DEF ChildrenKnown
    <3>2. CASE c # x
      <4>1. c \in Visible' \cap t /\ proc'[c].parent = Runner BY <1>4, <1>17, <2>4, <3>2
      <4> QED BY <1>13, <1>14, <4>1 DEF ChildrenKnown
    <3> QED BY <3>1, <3>2
  <2> QED BY <2>2, <2>3, <2>4 DEF ChildrenKnown
<1>19. Seeking' BY <1>0 DEF Seeking
<1>20. WalkFine' BY <1>0, <1>13, <1>14, <1>16, <1>18, <1>19 DEF WalkFine
<1> QED BY <1>0, <1>13, <1>14, <1>20, WalkOnly

LEMMA ReadStatusStep ==
  ASSUME CommandInv, ReadStatus
  PROVE  CommandInv'
<1>0. walk.mode = "status" /\ UNCHANGED <<proc, host, run, kq>> BY DEF ReadStatus
<1>1. host = "linux" /\ Seeking BY <1>0 DEF CommandInv, WalkFine
<1>2. CASE walk' = Listing(2) BY <1>0, <1>1, <1>2, ListingFine
<1>3. CASE walk.todo = {} /\ walk' = [walk EXCEPT !.mode = "done", !.found = Below(walk.parents)]
  <2>1. walk \in WalkRecords BY DEF CommandInv, RunnerTyped
  <2>2. PICK f \in WalkFounds : f = Below(walk.parents)
    BY <2>1, WalkSets, MapDomains, BelowInMap DEF WalkFounds
  <2>3. PICK d \in WalkModes : d = "done" BY DEF WalkModes
  <2>4. PICK k : k = WalkMode(walk, d) OBVIOUS
  <2>5. k \in WalkRecords /\ k.mode = d BY <2>1, <2>4, WalkModeFields
  <2>6. PICK n : n = WalkFound(k, f) OBVIOUS
  <2>7. n \in WalkRecords /\ n.mode = d /\ n.found = f BY <2>5, <2>6, WalkFoundFields
  <2>8. n = walk' BY <1>3, <2>2, <2>3, <2>4, <2>6, Zenon DEF WalkMode, WalkFound
  <2>9. f = {} => Alive = {}
    <3>1. SUFFICES ASSUME f = {}, Alive # {} PROVE FALSE OBVIOUS
    <3>2. PICK c : c \in ChildrenKnown BY <1>0, <3>1 DEF CommandInv, WalkFine
    <3>3. c \in DOMAIN walk.parents /\ walk.parents[c] = Runner BY <1>3, <3>2 DEF ChildrenKnown
    <3> QED BY <2>2, <3>1, <3>3, ChildBelow
  <2>10. Seeking' /\ Alive' = Alive BY <1>0, <1>1 DEF Seeking, Alive
  <2>11. WalkFine' BY <1>0, <1>1, <2>3, <2>7, <2>8, <2>9, <2>10 DEF WalkFine
  <2> QED BY <1>0, <1>1, <2>7, <2>8, <2>11, WalkOnly
<1>4. CASE walk.todo # {}
  <2>1. PICK x \in walk.todo :
          walk' = [walk EXCEPT !.todo = @ \ {x},
                    !.parents = [q \in DOMAIN @ \cup ({x} \cap Visible) |->
                                   IF q = x THEN proc[x].parent ELSE @[q]]]
    BY <1>4 DEF ReadStatus
  <2> QED BY <1>0, <2>1, StatusReadFine
<1> QED BY <1>2, <1>3, <1>4 DEF ReadStatus

(* The steps that act on what is known. *)
\* After a look nothing has changed but what the tracker had to tell.
LEMMA LookedStep ==
  ASSUME CommandInv, Seeking, UNCHANGED <<proc, host>>, walk' = NoWalk,
         kq' = IF host = "kqueue" THEN Polled ELSE kq
  PROVE  /\ TreeFine' /\ Alive' = Alive /\ walk' \in WalkRecords /\ kq' \in KqRecords
         /\ KqFine' /\ WalkFine'
<1>1. TreeFine' /\ Alive' = Alive /\ Unborn' = Unborn BY TreeSame DEF CommandInv
<1>2. walk' \in WalkRecords /\ WalkFine' BY NoWalkFields, IdleWalk
<1>3. kq' \in KqRecords BY PolledFields DEF CommandInv, RunnerTyped
<1>4. run.at # "start" BY DEF Seeking
<1>5. KqFine' BY <1>1, <1>4, KqPolled, KqKept
<1> QED BY <1>1, <1>2, <1>3, <1>5

LEMMA DecidedRun ==
  ASSUME CommandInv, NEW r \in BOOLEAN, Decides("again", r), r => Alive' = {}
  PROVE  run' \in RunRecords /\ RunFine'
<1>1. run' \in RunRecords /\ run'.at = "again" /\ (run'.rest => r)
  BY DecidedFields DEF CommandInv
<1> QED BY <1>1 DEF RunFine, Contained

LEMMA GoneOnRun ==
  ASSUME CommandInv, NEW a \in RunPlaces \ {"start", "again", "returned"}, Goes(a)
  PROVE  run' \in RunRecords /\ RunFine'
BY GoesFields, RunOn DEF CommandInv

LEMMA LookStep ==
  ASSUME CommandInv, Look
  PROVE  CommandInv'
<1>1. run.at = "look" /\ Knows /\ UNCHANGED <<proc, host>> /\ walk' = NoWalk
      /\ kq' = IF host = "kqueue" THEN Polled ELSE kq
  BY DEF Look
<1>2. Seeking BY <1>1 DEF Seeking
<1>3. /\ TreeFine' /\ Alive' = Alive /\ walk' \in WalkRecords /\ kq' \in KqRecords
      /\ KqFine' /\ WalkFine'
  BY <1>1, <1>2, LookedStep
<1>4. run' \in RunRecords /\ RunFine'
  <2>1. CASE NoneFound /\ Decides("again", TRUE)
    BY <1>1, <1>2, <1>3, <2>1, NoneFoundIsEmpty, DecidedRun
  <2>2. CASE Decides("again", FALSE) BY <2>2, DecidedRun
  <2>3. CASE Goes("term")
    <3>1. "term" \in RunPlaces \ {"start", "again", "returned"} BY DEF RunPlaces
    <3> QED BY <2>3, <3>1, GoneOnRun
  <2> QED BY <2>1, <2>2, <2>3 DEF Look
<1> QED BY <1>1, <1>3, <1>4 DEF CommandInv, RunnerTyped

LEMMA WaitStep ==
  ASSUME CommandInv, Wait
  PROVE  CommandInv'
<1>1. run.at \in {"wait", "killed"} /\ Knows /\ UNCHANGED <<proc, host>> /\ walk' = NoWalk
      /\ kq' = IF host = "kqueue" THEN Polled ELSE kq
  BY DEF Wait
<1>2. Seeking BY <1>1 DEF Seeking
<1>3. /\ TreeFine' /\ Alive' = Alive /\ walk' \in WalkRecords /\ kq' \in KqRecords
      /\ KqFine' /\ WalkFine'
  BY <1>1, <1>2, LookedStep
<1>4. run' \in RunRecords /\ RunFine'
  <2>1. CASE NoneFound /\ Decides("again", TRUE)
    BY <1>1, <1>2, <1>3, <2>1, NoneFoundIsEmpty, DecidedRun
  <2>2. CASE Decides("again", FALSE) BY <2>2, DecidedRun
  <2>3. CASE Goes("kill")
    <3>1. "kill" \in RunPlaces \ {"start", "again", "returned"} BY DEF RunPlaces
    <3> QED BY <2>3, <3>1, GoneOnRun
  <2>4. CASE run.polls < MaxPolls /\ run' = [run EXCEPT !.polls = @ + 1]
    <3>1. run' \in RunRecords /\ run'.at = run.at BY <2>4, PolledOnceMore DEF CommandInv
    <3> QED BY <1>1, <3>1, RunOn
  <2> QED BY <2>1, <2>2, <2>3, <2>4 DEF Wait
<1> QED BY <1>1, <1>3, <1>4 DEF CommandInv, RunnerTyped

WithFailed(m, S, failed) == [m EXCEPT !.exit = S, !.failed = failed]
LEMMA FailedFields ==
  ASSUME NEW m \in KqRecords, NEW S \in PidSets, NEW v \in BOOLEAN
  PROVE  /\ WithFailed(m, S, v) \in KqRecords
         /\ WithFailed(m, S, v).exit = S
         /\ WithFailed(m, S, v).live = m.live
         /\ WithFailed(m, S, v).failed <=> v
<1>1. PICK k : k = WithExit(m, S) OBVIOUS
<1>2. k \in KqRecords /\ k.exit = S /\ k.live = m.live BY <1>1, ExitFields
<1>3. PICK j : j = [k EXCEPT !.failed = v] OBVIOUS
<1>4. j \in KqRecords BY <1>2, <1>3, SMT DEF KqRecords
<1>5. j.exit = S /\ j.live = m.live BY <1>2, <1>3, SMT DEF KqRecords
<1>6. j.failed <=> v BY <1>2, <1>3, SMT DEF KqRecords
<1>7. j = WithFailed(m, S, v) BY <1>1, <1>3, Zenon DEF WithExit, WithFailed
<1> QED BY <1>4, <1>5, <1>6, <1>7

LEMMA SignalStep ==
  ASSUME CommandInv, Signal
  PROVE  CommandInv'
<1>1. run.at \in {"term", "kill"} /\ Knows /\ host' = host /\ walk' = NoWalk BY DEF Signal
<1>2. Seeking /\ run.at # "start" BY <1>1 DEF Seeking
<1>3. walk' \in WalkRecords /\ WalkFine' BY <1>1, NoWalkFields, IdleWalk
<1>4. CASE Decides("again", FALSE) /\ UNCHANGED <<proc, kq>>
  <2>1. TreeFine' /\ Alive' = Alive /\ Unborn' = Unborn BY <1>1, <1>4, TreeSame DEF CommandInv
  <2>2. KqFine' BY <1>1, <1>4, <2>1, KqKept
  <2>3. run' \in RunRecords /\ RunFine' BY <1>4, DecidedRun
  <2> QED BY <1>1, <1>3, <1>4, <2>1, <2>2, <2>3 DEF CommandInv, RunnerTyped
<1>5. CASE ~(host = "linux" /\ Unsure)
  <2>1. PICK gone : gone = Ended(Found, run.at) OBVIOUS
  <2>2. gone \subseteq Alive BY <2>1 DEF Ended
  <2>3. proc' = After(gone) BY <1>5, <2>1 DEF Signal
  <2>4. /\ TreeFine' /\ Alive' = Alive \ gone
        /\ \A p \in Pids : proc'[p].is = "none" <=> proc[p].is = "none"
    BY <1>1, <2>2, <2>3, AfterStep DEF CommandInv
  <2>5. Unborn' = Unborn BY <2>4, UnbornSame
  <2>6. kq' \in KqRecords /\ KqFine'
    <3>1. CASE host = "linux"
      <4>1. kq' = kq BY <1>5, <3>1 DEF Signal
      <4> QED BY <1>1, <2>4, <2>5, <4>1, KqKept DEF CommandInv, RunnerTyped
    <3>2. CASE host # "linux"
      <4>1. host = "kqueue" BY <3>2 DEF CommandInv
      <4>2. Polled \in KqRecords BY PolledFields DEF CommandInv
      <4>3. PICK v \in BOOLEAN : v = (Polled.failed \/ Forbidden # {}) OBVIOUS
      <4>4. kq' = [Polled EXCEPT !.exit = gone, !.failed = v] BY <1>5, <2>1, <3>2, <4>3 DEF Signal
      <4>5. gone \in PidSets BY <2>2 DEF Alive, PidSets
      <4>9. PICK k : k = WithFailed(Polled, gone, v) OBVIOUS
      <4>10. /\ k \in KqRecords /\ k.exit = gone /\ k.live = Polled.live
             /\ k.failed <=> v
        BY <4>2, <4>5, <4>9, FailedFields
      <4>11. kq' = k BY <4>4, <4>9, Zenon DEF WithFailed
      <4>6. /\ kq' \in KqRecords /\ kq'.exit = gone /\ kq'.live = Polled.live
            /\ kq'.failed <=> v
        BY <4>10, <4>11, Zenon
      <4>7. ExitsOver' BY <2>2, <2>4, <2>5, <4>6, OverStays DEF ExitsOver
      <4>8. Tracks' BY <1>2, <2>4, <4>1, <4>3, <4>6, PollTracks DEF Tracks
      <4> QED BY <4>6, <4>7, <4>8 DEF KqFine
    <3> QED BY <3>1, <3>2
  <2>7. run' \in RunRecords /\ RunFine'
    <3>1. CASE Decides("again", FALSE) BY <3>1, DecidedRun
    <3>2. CASE Goes(IF run.at = "term" THEN "wait" ELSE "killed")
      <4>1. (IF run.at = "term" THEN "wait" ELSE "killed")
              \in RunPlaces \ {"start", "again", "returned"}
        BY DEF RunPlaces
      <4> QED BY <3>2, <4>1, GoneOnRun
    <3> QED BY <1>5, <3>1, <3>2 DEF Signal
  <2> QED BY <1>1, <1>3, <2>4, <2>6, <2>7 DEF CommandInv, RunnerTyped
<1> QED BY <1>4, <1>5 DEF Signal

LEMMA AgainStep ==
  ASSUME CommandInv, Again
  PROVE  CommandInv'
<1>1. run.at = "again" /\ host' = host /\ walk' = walk /\ kq' = kq BY DEF Again
<1>2. walk'.mode = "idle" BY <1>1, NotSeeking DEF Seeking
<1>3. TreeFine' /\ Alive' = Alive /\ Unborn' = Unborn
  <2>1. CASE proc' = Reaped BY <1>1, <2>1, ReapedStep, UnbornSame DEF CommandInv
  <2>2. CASE proc' = proc BY <1>1, <2>2, TreeSame DEF CommandInv
  <2> QED BY <2>1, <2>2 DEF Again
<1>4. KqFine' BY <1>1, <1>3, KqKept
<1>5. PICK c \in {0, 125, 127} : Returns(c) /\ (c # 125 => run.rest)
  <2>1. CASE (run.group \/ GroupEmpty) /\ run.rest /\ ~kq.failed
    BY <2>1 DEF Again
  <2>2. CASE ~((run.group \/ GroupEmpty) /\ run.rest /\ ~kq.failed)
    BY <2>2 DEF Again
  <2> QED BY <2>1, <2>2
<1>6. run' \in RunRecords /\ run'.at = "returned" /\ run'.code = c
  BY <1>5, ReturnsFields DEF CommandInv
<1>7. run'.code # 125 => Alive' = {} BY <1>1, <1>3, <1>5, <1>6 DEF CommandInv, RunFine
<1>8. RunFine' BY <1>6, <1>7 DEF RunFine, Contained
<1> QED BY <1>1, <1>2, <1>3, <1>4, <1>6, <1>8, IdleWalk DEF CommandInv, RunnerTyped

LEMMA SignalledStep ==
  ASSUME CommandInv, Signalled
  PROVE  CommandInv'
<1>1. /\ run.at \notin {"start", "returned"} /\ run' = [run EXCEPT !.signal = TRUE]
      /\ UNCHANGED <<proc, host, walk, kq>>
  BY DEF Signalled
<1>2. run' \in RunRecords /\ run'.at = run.at /\ (run'.rest => run.rest)
  BY <1>1, SignalFields DEF CommandInv
<1>3. TreeFine' /\ Alive' = Alive /\ Unborn' = Unborn BY <1>1, TreeSame DEF CommandInv
<1>4. KqFine' BY <1>1, <1>3, KqKept
<1>5. Seeking' <=> Seeking BY <1>2 DEF Seeking
<1>6. ChildrenKnown' = ChildrenKnown BY <1>1 DEF ChildrenKnown, Visible
<1>7. WalkFine' BY <1>1, <1>3, <1>5, <1>6 DEF CommandInv, WalkFine
<1>8. RunFine' BY <1>1, <1>2, <1>3 DEF CommandInv, RunFine, Contained
<1> QED BY <1>1, <1>2, <1>3, <1>4, <1>7, <1>8 DEF CommandInv, RunnerTyped

(* The steps of the command. *)
\* What they do to the walk and the runner's decisions: they start nothing once nothing
\* is alive, and a child of the runner stays one until it is reaped.
LEMMA CommandSees ==
  ASSUME CommandInv, run.at \notin {"start", "returned"},
         host' = host, run' = run, walk' = walk, Alive = {} => Alive' = {},
         host = "linux" =>
           \A p \in Visible : proc[p].parent = Runner => p \in Visible' /\ proc'[p].parent = Runner
  PROVE  WalkFine' /\ RunFine'
<1>1. RunFine' BY DEF CommandInv, RunFine, Contained
<1>2. Seeking' <=> Seeking BY DEF Seeking
<1>3. walk.mode = "status" => (Alive' = {} \/ ChildrenKnown' # {})
  <2>1. SUFFICES ASSUME walk.mode = "status", Alive # {} PROVE ChildrenKnown' # {} OBVIOUS
  <2>2. host = "linux" BY <2>1 DEF CommandInv, WalkFine
  <2>3. PICK c : c \in ChildrenKnown BY <2>1 DEF CommandInv, WalkFine
  <2>4. CASE c \in DOMAIN walk.parents /\ walk.parents[c] = Runner BY <2>4 DEF ChildrenKnown
  <2>5. CASE c \in Visible \cap walk.todo /\ proc[c].parent = Runner
    <3>1. c \in Visible' \cap walk'.todo /\ proc'[c].parent = Runner BY <2>2, <2>5
    <3> QED BY <3>1 DEF ChildrenKnown
  <2> QED BY <2>3, <2>4, <2>5 DEF ChildrenKnown
<1>4. WalkFine' BY <1>2, <1>3 DEF CommandInv, WalkFine
<1> QED BY <1>1, <1>4

WithChild(m, S) == [m EXCEPT !.child = S]
LEMMA ChildFields ==
  ASSUME NEW m \in KqRecords, NEW S \in PidSets
  PROVE  /\ WithChild(m, S) \in KqRecords /\ WithChild(m, S).child = S
         /\ WithChild(m, S).live = m.live /\ WithChild(m, S).exit = m.exit
         /\ WithChild(m, S).error <=> m.error
         /\ WithChild(m, S).failed <=> m.failed
<1>1. PICK k : k = [m EXCEPT !.child = S] OBVIOUS
<1>2. k \in KqRecords BY <1>1, SMT DEF KqRecords
<1>3. k.child = S /\ k.live = m.live /\ k.exit = m.exit BY <1>1, SMT DEF KqRecords
<1>4. (k.error <=> m.error) /\ (k.failed <=> m.failed) BY <1>1, SMT DEF KqRecords
<1>5. k = WithChild(m, S) BY <1>1 DEF WithChild
<1> QED BY <1>2, <1>3, <1>4, <1>5

LEMMA ErrorFields ==
  ASSUME NEW m \in KqRecords
  PROVE  /\ [m EXCEPT !.error = TRUE] \in KqRecords
         /\ [m EXCEPT !.error = TRUE].exit = m.exit
         /\ [m EXCEPT !.error = TRUE].error
<1>1. PICK v \in BOOLEAN : v = TRUE OBVIOUS
<1>2. PICK k : k = [m EXCEPT !.error = v] OBVIOUS
<1>3. k \in KqRecords BY <1>2, SMT DEF KqRecords
<1>4. k.exit = m.exit BY <1>2, SMT DEF KqRecords
<1>5. k.error <=> v BY <1>2, SMT DEF KqRecords
<1> QED BY <1>1, <1>2, <1>3, <1>4, <1>5

LEMMA CommandForks ==
  ASSUME CommandInv, NEW p \in Pids, NEW k \in ProcKinds, Fork(p, k),
         run.at \notin {"start", "returned"}, UNCHANGED <<host, run, walk>>,
         LET born == CHOOSE q \in Pids : proc'[q] # proc[q] IN
           IF host = "kqueue"
             THEN kq' \in {[kq EXCEPT !.child = @ \cup {born}], [kq EXCEPT !.error = TRUE]}
             ELSE UNCHANGED kq
  PROVE  CommandInv'
<1>1. k \in CommandKinds BY ProcessTreeAssumption DEF CommandKinds
<1>2. PICK q \in Pids : /\ proc[q].is = "none" /\ \A r \in Pids : r < q => proc[r].is # "none"
                        /\ ProcStarts(q, p, k)
  BY DEF Fork
<1>3. p \in Alive BY DEF Fork
<1>4. /\ TreeFine' /\ Alive' = Alive \cup {q} /\ proc'[q] # proc[q]
      /\ \A r \in Pids \ {q} : proc'[r] = proc[r]
  <2>1. p \in Alive \cup {Runner} BY <1>3
  <2>2. TreeFine BY DEF CommandInv
  <2> QED BY <1>1, <1>2, <2>1, <2>2, BornStep
<1>5. (CHOOSE r \in Pids : proc'[r] # proc[r]) = q
  <2>1. \A r \in Pids : proc'[r] # proc[r] <=> r = q BY <1>4
  <2> QED BY <2>1
<1>6. host = "linux" =>
        \A r \in Visible : proc[r].parent = Runner => r \in Visible' /\ proc'[r].parent = Runner
  <2>1. \A r \in Visible : r \in Pids \ {q} BY <1>2 DEF Visible
  <2> QED BY <1>4, <2>1 DEF Visible
<1>7. WalkFine' /\ RunFine' BY <1>3, <1>6, CommandSees
<1>8. Over \subseteq Over'
  <2>1. \A r \in Over : r \in Pids \ {q} BY <1>2 DEF Over
  <2> QED BY <1>4, <2>1 DEF Over
<1>9. kq \in KqRecords /\ kq.exit \subseteq Over BY DEF CommandInv, RunnerTyped, KqFine, ExitsOver
<1>10. kq' \in KqRecords /\ KqFine'
  <2>1. CASE host = "linux"
    <3>1. kq' = kq BY <2>1
    <3> QED BY <1>8, <1>9, <2>1, <3>1 DEF KqFine, ExitsOver
  <2>2. CASE host = "kqueue" /\ kq' = [kq EXCEPT !.child = @ \cup {q}]
    <3>1. PICK S \in PidSets : S = kq.child \cup {q} BY <1>9, KqSets DEF PidSets
    <3>2. kq' = WithChild(kq, S) BY <2>2, <3>1 DEF WithChild
    <3>3. /\ kq' \in KqRecords /\ kq'.child = S /\ kq'.live = kq.live /\ kq'.exit = kq.exit
          /\ kq'.error <=> kq.error
          /\ kq'.failed <=> kq.failed
      BY <1>9, <3>2, ChildFields
    <3>4. Tracks BY <2>2 DEF CommandInv, KqFine
    <3>5. Tracks' BY <1>4, <3>1, <3>3, <3>4 DEF Tracks
    <3> QED BY <1>8, <1>9, <3>3, <3>5 DEF KqFine, ExitsOver
  <2>3. CASE kq' = [kq EXCEPT !.error = TRUE]
    <3>1. kq' \in KqRecords /\ kq'.exit = kq.exit /\ kq'.error BY <1>9, <2>3, ErrorFields
    <3> QED BY <1>8, <1>9, <3>1 DEF KqFine, ExitsOver, Tracks
  <2> QED BY <1>5, <2>1, <2>2, <2>3 DEF CommandInv
<1> QED BY <1>4, <1>7, <1>10 DEF CommandInv, RunnerTyped

LEMMA CommandExits ==
  ASSUME CommandInv, NEW p \in Pids, ProcExit(p), kq' = [kq EXCEPT !.exit = @ \cup {p}],
         run.at \notin {"start", "returned"}, UNCHANGED <<host, run, walk>>
  PROVE  CommandInv'
<1>1. p \in Alive /\ proc' = After({p}) BY DEF ProcExit
<1>2. /\ TreeFine' /\ Alive' = Alive \ {p}
      /\ \A q \in Pids : proc'[q].is = "none" <=> proc[q].is = "none"
      /\ host = "linux" =>
           \A q \in Visible : proc[q].parent = Runner => q \in Visible' /\ proc'[q].parent = Runner
  BY <1>1, AfterStep DEF CommandInv
<1>3. Unborn' = Unborn BY <1>2, UnbornSame
<1>4. WalkFine' /\ RunFine' BY <1>2, CommandSees
<1>5. kq \in KqRecords BY DEF CommandInv, RunnerTyped
<1>6. PICK S \in PidSets : S = kq.exit \cup {p} BY <1>5, KqSets DEF PidSets
<1>7. kq' = WithExit(kq, S) BY <1>6 DEF WithExit
<1>11. PICK k : k = WithExit(kq, S) OBVIOUS
<1>12. /\ k \in KqRecords /\ k.exit = S /\ k.live = kq.live /\ k.child = kq.child
       /\ k.error <=> kq.error
       /\ k.failed <=> kq.failed
  BY <1>5, <1>11, ExitFields
<1>13. kq' = k BY <1>7, <1>11
<1>8. /\ kq' \in KqRecords /\ kq'.exit = S /\ kq'.live = kq.live /\ kq'.child = kq.child
      /\ kq'.error <=> kq.error
      /\ kq'.failed <=> kq.failed
  BY <1>12, <1>13, Zenon
<1>9. ExitsOver' BY <1>1, <1>2, <1>3, <1>6, <1>8, OverStays DEF CommandInv, KqFine, ExitsOver
<1>10. Tracks => Tracks' BY <1>2, <1>8 DEF Tracks
<1> QED BY <1>2, <1>4, <1>8, <1>9, <1>10 DEF CommandInv, RunnerTyped, KqFine

LEMMA CommandReaps ==
  ASSUME CommandInv, NEW p \in Pids, ParentReaps(p), kq' = kq,
         run.at \notin {"start", "returned"}, UNCHANGED <<host, run, walk>>
  PROVE  CommandInv'
<1>1. /\ proc[p].is = "zombie" /\ proc[p].parent \in Alive
      /\ proc' = [proc EXCEPT ![p].is = "gone"]
  BY DEF ParentReaps
<1>2. /\ TreeFine' /\ Alive' = Alive
      /\ \A q \in Pids : proc'[q].is = "none" <=> proc[q].is = "none"
      /\ \A q \in Pids \ {p} : proc'[q] = proc[q]
  BY <1>1, OneGone DEF CommandInv
<1>3. Unborn' = Unborn BY <1>2, UnbornSame
<1>4. proc[p].parent # Runner BY <1>1, PidFacts DEF Alive
<1>5. \A q \in Visible : proc[q].parent = Runner => q \in Visible' /\ proc'[q].parent = Runner
  BY <1>2, <1>4 DEF Visible
<1>6. WalkFine' /\ RunFine' BY <1>2, <1>5, CommandSees
<1>7. KqFine' BY <1>2, <1>3, KqKept
<1> QED BY <1>2, <1>6, <1>7 DEF CommandInv, RunnerTyped

LEMMA CommandStep ==
  ASSUME CommandInv, Command
  PROVE  CommandInv'
<1>1. run.at # "returned" /\ UNCHANGED <<host, run, walk>> BY DEF Command
<1>2. run.at # "start"
  <2>1. SUFFICES ASSUME run.at = "start" PROVE FALSE OBVIOUS
  <2>2. \A p \in Pids : proc[p].is = "none" BY <2>1 DEF CommandInv, RunFine, Unborn
  <2> QED BY <2>2 DEF Command, Fork, ProcExit, ParentReaps, Alive
<1> QED BY <1>1, <1>2, CommandForks, CommandExits, CommandReaps DEF Command

LEMMA CommandStart ==
  ASSUME BrInit
  PROVE  CommandInv
<1>1. \A p \in Pids : proc[p] = NoProc BY DEF BrInit, TreeInit
<1>2. NoProc \in ProcRecords /\ NoProc.is = "none"
  BY PidFacts, Zenon DEF NoProc, ProcRecords, ProcStates, CommandKinds
<1>3. Unborn = Pids /\ Alive = {} /\ Visible = {} BY <1>1, <1>2 DEF Unborn, Alive, Visible
<1>4. TreeFine
  <2>1. ProcsTyped BY <1>2 DEF BrInit, TreeInit, ProcsTyped
  <2> QED BY <1>1, <1>2, <1>3, <2>1 DEF TreeFine, PidsInOrder, ParentsAlive
<1>5. run = [at |-> "start", signal |-> FALSE, polls |-> 0, group |-> TRUE, rest |-> TRUE, code |-> 0]
  BY DEF BrInit, BrStart
<1>6. run \in RunRecords /\ run.at = "start" BY <1>5, PollsZero DEF RunRecords, RunPlaces
<1>7. walk \in WalkRecords /\ walk.mode = "idle" BY NoWalkFields DEF BrInit, BrStart
<1>8. kq = [live |-> {}, child |-> {}, exit |-> {}, error |-> FALSE, failed |-> FALSE]
  BY DEF BrInit, BrStart
<1>9. kq \in KqRecords /\ kq.exit = {} BY <1>8 DEF KqRecords, PidSets
<1>10. KqFine BY <1>6, <1>9 DEF KqFine, ExitsOver
<1>11. WalkFine BY <1>7 DEF WalkFine
<1>12. RunFine BY <1>3, <1>6, <1>9 DEF RunFine, Contained
<1> QED BY <1>4, <1>6, <1>7, <1>9, <1>10, <1>11, <1>12 DEF CommandInv, RunnerTyped, BrInit

LEMMA CommandSound ==
  ASSUME CommandInv
  PROVE  CommandsSound
<1>1. run \in RunRecords /\ walk \in WalkRecords BY DEF CommandInv, RunnerTyped
<1>2. run.code \in {0, 125, 127} BY <1>1, SMT DEF RunRecords
<1>3. run.polls \in 0..MaxPolls BY <1>1, SMT DEF RunRecords, RunPolls
<1>4. walk.found \subseteq Pids /\ walk.todo \subseteq Pids \cup {Runner}
  BY <1>1, WalkSets DEF WalkFounds, WalkTodos
<1>5. \A p \in Pids : proc[p].is \in {"none", "alive", "zombie", "gone"}
  <2>1. \A p \in Pids : proc[p] \in ProcRecords BY DEF CommandInv, TreeFine, ProcsTyped
  <2>2. \A m \in ProcRecords : m.is \in ProcStates BY SMT DEF ProcRecords
  <2> QED BY <2>1, <2>2 DEF ProcStates
<1>6. RunnerSound BY <1>2, <1>3, <1>4, <1>5 DEF RunnerSound, BrTypeOK, CommandInv, RunFine
<1>7. OnlyReleased BY DEF OnlyReleased, CommandInv
<1> QED BY <1>6, <1>7 DEF CommandsSound

\* Whatever the command starts, on Linux and on a kqueue host, for any number of
\* processes and of looks: when its runner answers with anything but 125, nothing of it
\* is alive.
THEOREM CommandsTheorem == BrSpec => []CommandsSound
<1>1. BrInit => CommandInv BY CommandStart
<1>2. CommandInv /\ [BrNext]_brVars => CommandInv'
  <2>1. SUFFICES ASSUME CommandInv, [BrNext]_brVars PROVE CommandInv' OBVIOUS
  <2>2. CASE RunnerStep
    <3>1. ASSUME NEW x \in walk.todo, ReadChildren(x) PROVE CommandInv'
      BY <2>1, <3>1, ReadChildrenStep
    <3> QED BY <2>1, <2>2, <3>1, RefusedStep, SpawnStep, NoticeStep, GroupLookStep, GroupWaitStep,
               GroupKillStep, BeginLookStep, FilesFailStep, ReadStatusStep, StatusFailsStep,
               LookStep, SignalStep, WaitStep, AgainStep DEF RunnerStep
  <2>3. CASE Command BY <2>1, <2>3, CommandStep
  <2>4. CASE Signalled BY <2>1, <2>4, SignalledStep
  <2>5. CASE UNCHANGED brVars
    <3>1. UNCHANGED <<proc, host, run, walk, kq>> BY <2>5 DEF brVars
    <3>2. TreeFine' /\ Alive' = Alive /\ Unborn' = Unborn BY <2>1, <3>1, TreeSame DEF CommandInv
    <3>3. KqFine' BY <2>1, <3>1, <3>2, KqKept
    <3>4. (Seeking' <=> Seeking) /\ ChildrenKnown' = ChildrenKnown
      BY <3>1 DEF Seeking, ChildrenKnown, Visible
    <3>5. WalkFine' BY <2>1, <3>1, <3>2, <3>4 DEF CommandInv, WalkFine
    <3>6. RunFine' BY <2>1, <3>1, <3>2 DEF CommandInv, RunFine, Contained
    <3> QED BY <2>1, <3>1, <3>2, <3>3, <3>5, <3>6 DEF CommandInv, RunnerTyped
  <2> QED BY <2>1, <2>2, <2>3, <2>4, <2>5 DEF BrNext
<1>3. CommandInv => CommandsSound BY CommandSound
<1> QED BY <1>1, <1>2, <1>3, PTL DEF BrSpec

(* The runner under launchd. *)
LdFields == {"at", "seen", "released", "failed", "signal", "bootout", "clean", "looks", "tries",
             "code"}
ChildKeys == {"at", "coalition", "started", "status"}

\* Nothing of the command exists before its coalition was seen to be its own, and the job
\* of an answer other than 125 was removed.
Cleared ==
  /\ ld.released => child.coalition = "own" /\ ld.seen = "own"
  /\ Unborn # Pids => ld.released
  /\ child.at \notin {"commanding", "gone"} => Unborn = Pids
Removed ==
  /\ ld.at = "start" => ~ld.bootout /\ child.at = "none"
  /\ ld.bootout => child.at = "gone"
  /\ ld.at = "returned" /\ ld.code # 125 => ld.bootout
LdInv ==
  /\ host = "launchd" /\ BrStart /\ TreeFine
  /\ DOMAIN ld = LdFields /\ DOMAIN child = ChildKeys
  /\ Cleared /\ Removed

LEMMA AdoptedFields ==
  ASSUME TreeFine
  PROVE  /\ ChildrenAdopted \in [Pids -> ProcRecords]
         /\ \A p \in Pids : ChildrenAdopted[p].is = "none" <=> proc[p].is = "none"
<1>1. ASSUME NEW p \in Pids
      PROVE  /\ ChildrenAdopted[p] \in ProcRecords
             /\ ChildrenAdopted[p].is = "none" <=> proc[p].is = "none"
  <2>1. proc[p] \in ProcRecords BY <1>1 DEF TreeFine, ProcsTyped
  <2>2. CASE proc[p].parent # Runner
    <3>1. ChildrenAdopted[p] = proc[p] BY <1>1, <2>2 DEF ChildrenAdopted
    <3> QED BY <2>1, <3>1
  <2>3. CASE proc[p].parent = Runner
    <3>1. proc[p].is \in ProcStates BY <2>1, SMT DEF ProcRecords
    <3>2. PICK b \in ProcStates : b = IF proc[p].is = "zombie" THEN "gone" ELSE proc[p].is
      BY <3>1 DEF ProcStates
    <3>3. ChildrenAdopted[p] = Became(proc[p], InitPid, b)
      BY <1>1, <2>3, <3>2 DEF ChildrenAdopted, Became
    <3>4. InitPid \in ProcParents BY PidFacts
    <3>5. PICK n : n = Became(proc[p], InitPid, b) OBVIOUS
    <3>6. n \in ProcRecords /\ n.is = b BY <2>1, <3>4, <3>5, BecameFields
    <3>7. b = "none" <=> proc[p].is = "none" BY <3>2
    <3> QED BY <3>3, <3>5, <3>6, <3>7
  <2> QED BY <2>2, <2>3
<1>2. ChildrenAdopted = [p \in Pids |-> ChildrenAdopted[p]] BY DEF ChildrenAdopted
<1> QED BY <1>1, <1>2

\* Outside Linux the tree is fine if its records are and the pids are in order.
LEMMA TreeElsewhere ==
  ASSUME TreeFine, host = "launchd", host' = host, proc' \in [Pids -> ProcRecords],
         \A p \in Pids : proc'[p].is = "none" <=> proc[p].is = "none"
  PROVE  TreeFine' /\ Unborn' = Unborn
<1>1. ProcsTyped' BY DEF ProcsTyped
<1>2. PidsInOrder' BY DEF TreeFine, PidsInOrder
<1>3. ParentsAlive' BY DEF ParentsAlive
<1> QED BY <1>1, <1>2, <1>3, UnbornSame DEF TreeFine

LEMMA AdoptedStep ==
  ASSUME TreeFine, host = "launchd", host' = host, proc' = ChildrenAdopted
  PROVE  TreeFine' /\ Unborn' = Unborn
BY AdoptedFields, TreeElsewhere

LEMMA ReportedStep ==
  ASSUME TreeFine, host = "launchd", host' = host, proc[Root].is = "zombie",
         proc' = [ChildrenAdopted EXCEPT ![Root].is = "gone"]
  PROVE  TreeFine' /\ Unborn' = Unborn
<1>1. PICK a : a = ChildrenAdopted OBVIOUS
<1>2. a \in [Pids -> ProcRecords] /\ \A p \in Pids : a[p].is = "none" <=> proc[p].is = "none"
  BY <1>1, AdoptedFields
<1>3. Root \in Pids BY PidFacts
<1>4. a[Root] \in ProcRecords BY <1>2, <1>3
<1>5. PICK g : g = [a[Root] EXCEPT !.is = "gone"] OBVIOUS
<1>6. g \in ProcRecords /\ g.is = "gone" BY <1>4, <1>5, GoneFields
<1>7. proc' = [a EXCEPT ![Root] = g] BY <1>1, <1>5
<1>8. proc' \in [Pids -> ProcRecords] BY <1>2, <1>6, <1>7
<1>9. \A p \in Pids : proc'[p].is = "none" <=> proc[p].is = "none"
  BY <1>2, <1>3, <1>6, <1>7
<1> QED BY <1>8, <1>9, TreeElsewhere

\* When processes come and go but none is started.
LEMMA LdQuiet ==
  ASSUME LdInv, UNCHANGED <<host, run, walk, kq>>, TreeFine', Unborn' = Unborn,
         DOMAIN ld' = DOMAIN ld, DOMAIN child' = DOMAIN child,
         child'.coalition = child.coalition,
         child'.at \notin {"commanding", "gone"} => child.at \notin {"commanding", "gone"},
         ld.released => ld'.released, ld'.released => child.coalition = "own" /\ ld'.seen = "own",
         Removed'
  PROVE  LdInv'
<1>1. BrStart' BY DEF LdInv, BrStart
<1>2. Cleared' BY DEF LdInv, Cleared
<1> QED BY <1>1, <1>2 DEF LdInv

LEMMA LdSameTree ==
  ASSUME LdInv, proc' = proc, host' = host
  PROVE  TreeFine' /\ Unborn' = Unborn
BY TreeSame DEF LdInv

LEMMA BootstrapStep ==
  ASSUME LdInv, Bootstrap, UNCHANGED <<run, walk, kq>>
  PROVE  LdInv'
<1>1. UNCHANGED <<proc, host, scan>> /\ ld.at = "start" BY DEF Bootstrap
<1>2. TreeFine' /\ Unborn' = Unborn BY <1>1, LdSameTree
<1>3. ~ld.bootout /\ child.at = "none" BY <1>1 DEF LdInv, Removed
<1>4. CASE ld' = [ld EXCEPT !.at = "loop"] /\ child' = [child EXCEPT !.at = "up"]
  BY <1>1, <1>2, <1>3, <1>4, LdQuiet DEF LdInv, Removed, Cleared, LdFields, ChildKeys
<1>5. ASSUME ld' = [ld EXCEPT !.at = "returned", !.code = 125],
             NEW at \in {"none", "up", "gone"}, child' = [child EXCEPT !.at = at]
      PROVE  LdInv'
  BY <1>1, <1>2, <1>3, <1>5, LdQuiet DEF LdInv, Removed, Cleared, LdFields, ChildKeys
<1> QED BY <1>4, <1>5 DEF Bootstrap

LEMMA ChildMoves ==
  ASSUME LdInv, UNCHANGED <<host, ld, run, walk, kq>>, TreeFine', Unborn' = Unborn,
         child.at \notin {"none", "gone"}, DOMAIN child' = DOMAIN child,
         child'.coalition = child.coalition, child'.at # "none",
         child'.at \notin {"commanding", "gone"} => child.at \notin {"commanding", "gone"}
  PROVE  LdInv'
<1>1. Removed' BY DEF LdInv, Removed
<1> QED BY <1>1, LdQuiet DEF LdInv, Cleared

LEMMA EndsFields ==
  ASSUME DOMAIN child = ChildKeys, NEW status, ChildEnds(status)
  PROVE  DOMAIN child' = DOMAIN child /\ child'.coalition = child.coalition /\ child'.at = "gone"
BY DEF ChildEnds, ChildKeys

LEMMA ChildQuiet ==
  ASSUME LdInv, ChildPublishes \/ ChildStarted \/ ChildGivesUp, UNCHANGED <<run, walk, kq>>
  PROVE  LdInv'
<1>1. UNCHANGED <<proc, host, ld>> /\ child.at \in {"up", "published", "gated"}
  BY DEF ChildPublishes, ChildStarted, ChildGivesUp
<1>2. TreeFine' /\ Unborn' = Unborn BY <1>1, LdSameTree
<1>3. DOMAIN child = ChildKeys BY DEF LdInv
<1>4. CASE child' = [child EXCEPT !.at = "published"] \/ child' = [child EXCEPT !.at = "gated", !.started = TRUE]
  <2>1. DOMAIN child' = DOMAIN child /\ child'.coalition = child.coalition
        /\ child'.at \in {"published", "gated"}
    BY <1>3, <1>4 DEF ChildKeys
  <2> QED BY <1>1, <1>2, <2>1, ChildMoves
<1>5. CASE ChildEnds("failed")
  <2>1. DOMAIN child' = DOMAIN child /\ child'.coalition = child.coalition /\ child'.at = "gone"
    BY <1>3, <1>5, EndsFields
  <2> QED BY <1>1, <1>2, <2>1, ChildMoves
<1> QED BY <1>4, <1>5 DEF ChildPublishes, ChildStarted, ChildGivesUp

LEMMA ChildReportsStep ==
  ASSUME LdInv, ChildReports, UNCHANGED <<run, walk, kq>>
  PROVE  LdInv'
<1>1. /\ child.at = "commanding" /\ proc[Root].is = "zombie" /\ UNCHANGED <<host, ld>>
      /\ proc' = [ChildrenAdopted EXCEPT ![Root].is = "gone"] /\ ChildEnds("exit")
  BY DEF ChildReports
<1>2. TreeFine' /\ Unborn' = Unborn BY <1>1, ReportedStep DEF LdInv
<1>3. DOMAIN child' = DOMAIN child /\ child'.coalition = child.coalition /\ child'.at = "gone"
  BY <1>1, EndsFields DEF LdInv
<1> QED BY <1>1, <1>2, <1>3, ChildMoves

LEMMA ChildRunsStep ==
  ASSUME LdInv, ChildRuns, UNCHANGED <<run, walk, kq>>
  PROVE  LdInv'
<1>1. child.at = "gated" /\ ld.released /\ UNCHANGED <<host, ld>>
  BY DEF ChildRuns, Released
<1>2. DOMAIN child = ChildKeys BY DEF LdInv
<1>3. ASSUME NEW k \in LdKinds \ {"foreign"}, ProcStarts(Root, Runner, k),
             child' = [child EXCEPT !.at = "commanding"]
      PROVE  LdInv'
  <2>1. Unborn = Pids BY <1>1 DEF LdInv, Cleared
  <2>2. Root \in Pids /\ proc[Root].is = "none" BY <2>1, PidFacts DEF Unborn
  <2>3. \A r \in Pids : r < Root => proc[r].is # "none" BY PidFacts DEF Pids, Root
  <2>4. k \in CommandKinds BY <1>3, ProcessTreeAssumption DEF LdKinds, CommandKinds
  <2>5. TreeFine' BY <1>1, <1>3, <2>2, <2>3, <2>4, BornStep DEF LdInv
  <2>6. DOMAIN child' = DOMAIN child /\ child'.coalition = child.coalition
        /\ child'.at = "commanding"
    BY <1>2, <1>3 DEF ChildKeys
  <2>7. BrStart' BY DEF LdInv, BrStart
  <2>8. Cleared' BY <1>1, <2>6 DEF LdInv, Cleared
  <2>9. Removed' BY <1>1, <2>6 DEF LdInv, Removed
  <2> QED BY <1>1, <2>5, <2>6, <2>7, <2>8, <2>9 DEF LdInv
<1>4. CASE ChildEnds("failed") /\ UNCHANGED proc
  <2>1. TreeFine' /\ Unborn' = Unborn BY <1>1, <1>4, LdSameTree
  <2>2. DOMAIN child' = DOMAIN child /\ child'.coalition = child.coalition /\ child'.at = "gone"
    BY <1>2, <1>4, EndsFields
  <2> QED BY <1>1, <2>1, <2>2, ChildMoves
<1> QED BY <1>3, <1>4 DEF ChildRuns

LEMMA LdCommandStep ==
  ASSUME LdInv, LdCommand, UNCHANGED <<run, walk, kq>>
  PROVE  LdInv'
<1>1. UNCHANGED <<host, ld, child>> BY DEF LdCommand
<1>2. Removed' BY <1>1 DEF LdInv, Removed
<1>3. ASSUME TreeFine', Unborn' = Unborn PROVE LdInv'
  BY <1>1, <1>2, <1>3, LdQuiet DEF LdInv, Cleared
<1>4. ASSUME NEW p \in Pids, NEW k \in LdKinds, Fork(p, k) PROVE LdInv'
  <2>1. PICK q \in Pids : /\ proc[q].is = "none" /\ \A r \in Pids : r < q => proc[r].is # "none"
                          /\ ProcStarts(q, p, k)
    BY <1>4 DEF Fork
  <2>2. p \in Alive BY <1>4 DEF Fork
  <2>3. k \in CommandKinds BY <1>4, ProcessTreeAssumption DEF LdKinds, CommandKinds
  <2>4. TreeFine'
    <3>1. p \in Alive \cup {Runner} BY <2>2
    <3>2. TreeFine BY DEF LdInv
    <3> QED BY <1>1, <2>1, <2>3, <3>1, <3>2, BornStep
  <2>5. Unborn # Pids BY <2>2 DEF Unborn, Alive
  <2>6. BrStart' BY DEF LdInv, BrStart
  <2>7. Cleared' BY <1>1, <2>5 DEF LdInv, Cleared
  <2> QED BY <1>1, <1>2, <2>4, <2>6, <2>7 DEF LdInv
<1>5. ASSUME NEW p \in Pids, ProcExit(p) PROVE LdInv'
  <2>1. p \in Alive /\ proc' = After({p}) BY <1>5 DEF ProcExit
  <2>3. TreeFine BY DEF LdInv
  <2>4. PICK S : S = {p} OBVIOUS
  <2>5. S \subseteq Alive /\ proc' = After(S) BY <2>1, <2>4
  <2>2. TreeFine' /\ \A q \in Pids : proc'[q].is = "none" <=> proc[q].is = "none"
    BY <1>1, <2>3, <2>5, AfterStep
  <2> QED BY <1>3, <2>2, UnbornSame
<1>6. ASSUME NEW p \in Pids, ParentReaps(p) PROVE LdInv'
  <2>1. TreeFine' /\ \A q \in Pids : proc'[q].is = "none" <=> proc[q].is = "none"
    BY <1>1, <1>6, OneGone DEF LdInv, ParentReaps
  <2> QED BY <1>3, <2>1, UnbornSame
<1> QED BY <1>4, <1>5, <1>6 DEF LdCommand

\* A step of the runner that takes nothing back.
LEMMA LdMoves ==
  ASSUME LdInv, UNCHANGED <<host, child, run, walk, kq>>, TreeFine', Unborn' = Unborn,
         DOMAIN ld' = DOMAIN ld, ld'.released = ld.released, ld'.seen = ld.seen,
         ld'.bootout = ld.bootout, ld'.at = "start" => ld.at = "start",
         ld'.at = "returned" => ld'.code = 125 \/ ld.bootout
  PROVE  LdInv'
<1>1. Removed' BY DEF LdInv, Removed
<1> QED BY <1>1, LdQuiet DEF LdInv, Cleared

LEMMA LdSignalledStep ==
  ASSUME LdInv, LdSignalled \/ LeaveLoop, UNCHANGED <<run, walk, kq>>
  PROVE  LdInv'
<1>1. UNCHANGED <<proc, host, child>> /\ ld.at = "loop" BY DEF LdSignalled, LeaveLoop
<1>2. TreeFine' /\ Unborn' = Unborn BY <1>1, LdSameTree
<1>3. DOMAIN ld = LdFields BY DEF LdInv
<1>4. /\ DOMAIN ld' = DOMAIN ld /\ ld'.released = ld.released /\ ld'.seen = ld.seen
      /\ ld'.bootout = ld.bootout /\ ld'.at \in {"loop", "bootout"}
  BY <1>1, <1>3 DEF LdSignalled, LeaveLoop, LdFields
<1> QED BY <1>1, <1>2, <1>4, LdMoves

LEMMA TurnStep ==
  ASSUME LdInv, Turn, UNCHANGED <<run, walk, kq>>
  PROVE  LdInv'
<1>1. UNCHANGED <<proc, host, child>> /\ ld.at = "loop" /\ ld.seen = "no" BY DEF Turn
<1>2. TreeFine' /\ Unborn' = Unborn BY <1>1, LdSameTree
<1>3. DOMAIN ld = LdFields BY DEF LdInv
<1>4. ~ld.released BY <1>1 DEF LdInv, Cleared
<1>5. CASE child.coalition = "own"
  <2>1. ld' = [ld EXCEPT !.seen = "own", !.released = TRUE,
                         !.at = IF child.status = "none" THEN @ ELSE "bootout"]
    BY <1>5 DEF Turn
  <2>2. /\ DOMAIN ld' = DOMAIN ld /\ ld'.seen = "own" /\ ld'.bootout = ld.bootout
        /\ ld'.at \in {"loop", "bootout"}
    BY <1>1, <1>3, <2>1 DEF LdFields
  <2>3. ld'.released BY <1>3, <2>1 DEF LdFields
  <2>4. Removed' BY <1>1, <2>2 DEF LdInv, Removed
  <2> QED BY <1>1, <1>2, <1>5, <2>2, <2>3, <2>4, LdQuiet
<1>6. CASE child.coalition # "own"
  <2>1. ld' = [ld EXCEPT !.seen = child.coalition, !.failed = TRUE, !.at = "bootout"]
    BY <1>6 DEF Turn
  <2>2. /\ DOMAIN ld' = DOMAIN ld /\ ld'.bootout = ld.bootout /\ ld'.at = "bootout"
        /\ ld'.released = ld.released
    BY <1>3, <2>1 DEF LdFields
  <2>3. Removed' BY <1>1, <2>2 DEF LdInv, Removed
  <2> QED BY <1>1, <1>2, <1>4, <2>2, <2>3, LdQuiet
<1> QED BY <1>5, <1>6

LEMMA BootoutStep ==
  ASSUME LdInv, Bootout, UNCHANGED <<run, walk, kq>>
  PROVE  LdInv'
<1>1. host' = host /\ ld.at = "bootout" BY DEF Bootout
<1>2. PICK done \in BOOLEAN :
        /\ ld' = [ld EXCEPT !.bootout = @ \/ done, !.clean = @ \/ ~ld.released, !.looks = 0,
                     !.at = IF ld.released /\ ~ld.clean THEN "term" ELSE "answer"]
        /\ IF done /\ ~ld.bootout THEN child' = [child EXCEPT !.at = "gone"] /\ proc' = ChildrenAdopted
                                  ELSE UNCHANGED <<child, proc>>
  BY DEF Bootout
<1>3. DOMAIN ld = LdFields /\ DOMAIN child = ChildKeys BY DEF LdInv
<1>4. /\ DOMAIN ld' = DOMAIN ld /\ ld'.released = ld.released /\ ld'.seen = ld.seen
      /\ ld'.at \in {"term", "answer"}
  BY <1>2, <1>3 DEF LdFields
<1>5. ld'.bootout <=> (ld.bootout \/ done) BY <1>2, <1>3 DEF LdFields
<1>6. CASE done /\ ~ld.bootout
  <2>1. child' = [child EXCEPT !.at = "gone"] /\ proc' = ChildrenAdopted BY <1>2, <1>6
  <2>2. TreeFine' /\ Unborn' = Unborn BY <1>1, <2>1, AdoptedStep DEF LdInv
  <2>3. DOMAIN child' = DOMAIN child /\ child'.coalition = child.coalition /\ child'.at = "gone"
    BY <1>3, <2>1 DEF ChildKeys
  <2>4. Removed' BY <1>4, <2>3 DEF Removed
  <2> QED BY <1>1, <1>4, <2>2, <2>3, <2>4, LdQuiet DEF LdInv, Cleared
<1>7. CASE ~(done /\ ~ld.bootout)
  <2>1. UNCHANGED <<child, proc>> BY <1>2, <1>7
  <2>2. TreeFine' /\ Unborn' = Unborn BY <1>1, <2>1, LdSameTree
  <2>3. Removed' BY <1>1, <1>4, <1>5, <1>7, <2>1 DEF LdInv, Removed
  <2> QED BY <1>1, <1>4, <2>1, <2>2, <2>3, LdQuiet DEF LdInv, Cleared
<1> QED BY <1>6, <1>7

LEMMA TerminateStep ==
  ASSUME LdInv, Terminate, UNCHANGED <<run, walk, kq>>
  PROVE  LdInv'
<1>1. UNCHANGED <<host, child>> BY DEF Terminate
<1>2. DOMAIN ld = LdFields BY DEF LdInv
<1>3. PICK forbidden : forbidden = \E p \in scan.found \cap Alive : proc[p].kind = "foreign"
  OBVIOUS
<1>4. TreeFine' /\ Unborn' = Unborn
  <2>1. CASE UNCHANGED proc BY <1>1, <2>1, LdSameTree
  <2>2. CASE proc' = After(Ended(scan.found, ld.at))
    <3>1. PICK S : S = Ended(scan.found, ld.at) OBVIOUS
    <3>2. S \subseteq Alive /\ proc' = After(S) BY <2>2, <3>1 DEF Ended
    <3>3. TreeFine' /\ \A p \in Pids : proc'[p].is = "none" <=> proc[p].is = "none"
      BY <1>1, <3>2, AfterStep DEF LdInv
    <3> QED BY <3>3, UnbornSame
  <2> QED BY <2>1, <2>2 DEF Terminate
<1>5. (\E clean \in BOOLEAN : EndsLooking(clean)) \/ ld' = [ld EXCEPT !.looks = @ + 1]
  <2>1. (~scan.unknown /\ scan.found = {}) \in BOOLEAN OBVIOUS
  <2> QED BY <2>1 DEF Terminate
<1>6. /\ DOMAIN ld' = DOMAIN ld /\ ld'.released = ld.released /\ ld'.seen = ld.seen
      /\ ld'.bootout = ld.bootout
      /\ ld'.at \in {"answer", "kill"} \/ (ld'.at = ld.at /\ ld'.code = ld.code)
  <2>1. ASSUME NEW clean \in BOOLEAN, EndsLooking(clean)
        PROVE  /\ DOMAIN ld' = DOMAIN ld /\ ld'.released = ld.released /\ ld'.seen = ld.seen
               /\ ld'.bootout = ld.bootout /\ ld'.at \in {"answer", "kill"}
    BY <1>2, <2>1 DEF EndsLooking, LdFields
  <2>2. CASE ld' = [ld EXCEPT !.looks = @ + 1] BY <1>2, <2>2 DEF LdFields
  <2> QED BY <1>5, <2>1, <2>2
<1>7. ld'.at = "returned" => ld'.code = 125 \/ ld.bootout BY <1>6 DEF LdInv, Removed
<1>8. ld'.at = "start" => ld.at = "start" BY <1>6
<1> QED BY <1>1, <1>4, <1>6, <1>7, <1>8, LdMoves

LEMMA ScanStep ==
  ASSUME LdInv, UNCHANGED <<proc, host, ld, child, run, walk, kq>>
  PROVE  LdInv'
<1>1. TreeFine' /\ Unborn' = Unborn BY LdSameTree
<1>2. Removed' BY DEF LdInv, Removed
<1> QED BY <1>1, <1>2, LdQuiet DEF LdInv, Cleared

LEMMA AnswerStep ==
  ASSUME LdInv, LdAnswer, UNCHANGED <<run, walk, kq>>
  PROVE  LdInv'
<1>1. UNCHANGED <<proc, host, child>> /\ ld.at = "answer" BY DEF LdAnswer
<1>2. TreeFine' /\ Unborn' = Unborn BY <1>1, LdSameTree
<1>3. DOMAIN ld = LdFields BY DEF LdInv
<1>4. CASE ld.bootout /\ ld' = [ld EXCEPT !.at = "returned", !.code = IF ld.failed THEN 125 ELSE 0]
  BY <1>1, <1>2, <1>3, <1>4, LdMoves DEF LdFields
<1>5. CASE ld' = [ld EXCEPT !.at = "bootout", !.tries = 2]
  BY <1>1, <1>2, <1>3, <1>5, LdMoves DEF LdFields
<1>6. CASE ld' = [ld EXCEPT !.at = "returned", !.code = 125]
  BY <1>1, <1>2, <1>3, <1>6, LdMoves DEF LdFields
<1> QED BY <1>4, <1>5, <1>6 DEF LdAnswer

LEMMA LdBegins ==
  ASSUME LdInit
  PROVE  LdInv
<1>1. \A p \in Pids : proc[p] = NoProc BY DEF LdInit, TreeInit
<1>2. NoProc \in ProcRecords /\ NoProc.is = "none"
  BY PidFacts, Zenon DEF NoProc, ProcRecords, ProcStates, CommandKinds
<1>3. Unborn = Pids BY <1>1, <1>2 DEF Unborn
<1>4. host = "launchd" /\ BrStart /\ LdStart BY DEF LdInit
<1>5. TreeFine
  <2>1. ProcsTyped BY <1>2 DEF LdInit, TreeInit, ProcsTyped
  <2> QED BY <1>1, <1>2, <1>4, <2>1 DEF TreeFine, PidsInOrder, ParentsAlive
<1>6. /\ DOMAIN ld = LdFields /\ ld.at = "start"
      /\ ~ld.released /\ ~ld.bootout
  BY <1>4 DEF LdStart, LdFields
<1>7. DOMAIN child = ChildKeys /\ child.at = "none" BY <1>4 DEF LdStart, ChildKeys
<1> QED BY <1>3, <1>4, <1>5, <1>6, <1>7 DEF LdInv, Cleared, Removed

LEMMA LdSound ==
  ASSUME LdInv
  PROVE  CommandsSound
<1>1. BrStart BY DEF LdInv
<1>2. run.code = 0 /\ run.polls = 0 /\ run.at = "start" BY <1>1 DEF BrStart
<1>3. walk.found = {} /\ walk.todo = {} BY <1>1, NoWalkFields DEF BrStart
<1>4. \A p \in Pids : proc[p].is \in {"none", "alive", "zombie", "gone"}
  <2>1. \A p \in Pids : proc[p] \in ProcRecords BY DEF LdInv, TreeFine, ProcsTyped
  <2>2. \A m \in ProcRecords : m.is \in ProcStates BY SMT DEF ProcRecords
  <2> QED BY <2>1, <2>2 DEF ProcStates
<1>5. RunnerSound BY <1>2, <1>3, <1>4, PollsZero DEF RunnerSound, BrTypeOK, Contained, RunPolls
<1>6. (\E p \in Pids : proc[p].is # "none") => Unborn # Pids BY DEF Unborn
<1>7. OnlyReleased BY <1>6 DEF OnlyReleased, LdInv, Cleared, Removed
<1> QED BY <1>5, <1>7 DEF CommandsSound

\* Whatever launchd, the job and the command do, for any number of processes and of looks:
\* nothing of the command exists before its coalition was found to be its own, and when
\* its runner answers with anything but 125 the job was removed.
THEOREM LaunchdTheorem == LdSpec => []CommandsSound
<1>1. LdInit => LdInv BY LdBegins
<1>2. LdInv /\ [LdNext /\ UNCHANGED <<run, walk, kq>>]_ldVars => LdInv'
  <2>1. SUFFICES ASSUME LdInv, [LdNext /\ UNCHANGED <<run, walk, kq>>]_ldVars PROVE LdInv'
    OBVIOUS
  <2>2. CASE UNCHANGED ldVars BY <2>1, <2>2, ScanStep DEF ldVars, brVars
  <2>3. CASE LdNext /\ UNCHANGED <<run, walk, kq>>
    <3>1. CASE ChildStep
      BY <2>1, <2>3, <3>1, ChildQuiet, ChildRunsStep, ChildReportsStep DEF ChildStep
    <3>2. CASE LdStep
      <4>1. CASE ListPids \/ \E p \in scan.todo : AskPid(p)
        BY <2>1, <2>3, <4>1, ScanStep DEF ListPids, AskPid
      <4> QED BY <2>1, <2>3, <3>2, <4>1, BootstrapStep, TurnStep, LdSignalledStep, BootoutStep,
                 TerminateStep, AnswerStep DEF LdStep
    <3>3. CASE LdCommand BY <2>1, <2>3, <3>3, LdCommandStep
    <3>4. CASE LdSignalled BY <2>1, <2>3, <3>4, LdSignalledStep
    <3> QED BY <2>3, <3>1, <3>2, <3>3, <3>4 DEF LdNext
  <2> QED BY <2>1, <2>2, <2>3
<1>3. LdInv => CommandsSound BY LdSound
<1> QED BY <1>1, <1>2, <1>3, PTL DEF LdSpec
===============================================================================
