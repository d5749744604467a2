---------------------------- MODULE EndpointProofs ----------------------------
(*****************************************************************************)
(* The endpoints of the HTTP server that have state of their own, the OAuth  *)
(* server and the MCP endpoint, and the agent bridge as a client: the        *)
(* credentials it keeps and the workers of its stdio servers. OAuthSound     *)
(* holds in every state of OAuthSpec, McpSound in every state of McpSpec,    *)
(* WorkersSound in every state of AgentSpec, and CredentialsSound in every   *)
(* state of CredSpec, whose steps keep CredentialsKept, for every finite set *)
(* of requests and every limit. The invariant of the first follows a code    *)
(* from the request that draws it, through the store, to the request that    *)
(* redeems it: exactly one of them can turn it into a token. For the clients *)
(* it says what the file, the memory and the holder of client_lock know of   *)
(* each approval. The invariant of the second says which flags of a request  *)
(* its place implies. That of the third relates the file, the draft of a     *)
(* command under way and what each session has read of them. That of the     *)
(* fourth says what each call knows of the worker it uses: a request under   *)
(* way is at the head of the line of a worker that runs, and whoever closes  *)
(* a worker holds the barrier.                                               *)
(*****************************************************************************)
EXTENDS OAuth, McpSessions, AgentCredentials, AgentWorkers, FiniteSetTheorems, TLAPS

(*****************************************************************************)
(* The OAuth server.                                                         *)
(*****************************************************************************)

States == {"none", "pending", "stale", "approved"}
CodeStates == {"none", "live", "stale"}
Steps == {"idle", "validated", "given", "persist", "store", "token"}
Request == [pc : Steps, client : Clients \cup {NoOne}, code : Codes \cup {NoOne}]

Typed ==
  /\ client \in [Clients -> States] /\ code \in [Codes -> CodeStates]
  /\ codeFor \in [Codes -> Clients \cup {NoOne}] /\ title \in [Clients -> Titles \cup {NoOne}]
  /\ stored \subseteq Clients /\ phase \in {"open", "stopping", "closed", "down"}
  /\ codeLock \in Callers \cup {"close", NoOne} /\ clientLock \in Callers \cup {"close", NoOne}
  /\ call \in [Callers -> Request] /\ tokens \in [Codes -> Nat]

\* A registration key belongs to one client, in memory and in the file, and the
\* file lags behind the memory by the approval that is being written.
OneTitle == \A c, d \in Known \cup stored : title[c] = title[d] => c = d
Running == phase \in {"open", "stopping"}
Writing(c) == clientLock \in Callers /\ call[clientLock].pc = "persist" /\ call[clientLock].client = c
ClientsHold ==
  /\ IsFiniteSet(Known) /\ IsFiniteSet(stored) /\ Known \cup stored \subseteq given
  /\ Cardinality(Pending) <= MaxPending /\ OneTitle
  /\ Running => stored \subseteq Approved
  /\ \A c \in Approved : c \in stored \/ Writing(c)

\* A code that can be redeemed has no token yet, and its client is in the file.
CodesHold ==
  /\ IsFiniteSet(Stored) /\ Stored \subseteq given /\ Cardinality(Stored) <= MaxCodes
  /\ \A k \in Codes \ given : tokens[k] = 0
  /\ \A k \in Stored : codeFor[k] \in stored /\ tokens[k] = 0
  /\ CodeUsedOnce

\* A request that issues a code holds code_lock; it and the one that redeems the
\* code own it alone.
Issuing(a) == call[a].pc \in {"given", "persist", "store"}
Owns(a) == Issuing(a) \/ call[a].pc = "token"
Issues(a) ==
  /\ Owns(a) => /\ call[a].code \in Codes /\ call[a].code \in given
                /\ code[call[a].code] = "none" /\ tokens[call[a].code] = 0
  /\ Issuing(a) => codeLock = a /\ Running /\ Cardinality(Stored) < MaxCodes
  /\ Issuing(a) \/ call[a].pc = "validated" => call[a].client \in Clients
Approves(a) ==
  /\ call[a].pc = "persist" => /\ clientLock = a /\ client[call[a].client] = "approved"
                               /\ call[a].client \notin stored
                               /\ Cardinality(Pending) < MaxPending
  /\ call[a].pc = "store" => call[a].client \in stored
OwnCodes == \A a, b \in Callers : a # b /\ Owns(a) /\ Owns(b) => call[a].code # call[b].code

OAuthInv ==
  /\ Typed /\ ClientsHold /\ CodesHold /\ ClosedHasNothing
  /\ (\A a \in Callers : Issues(a) /\ Approves(a)) /\ OwnCodes

--------------------------------------------------------------------------------
\* Finite sets: a part of one is within its bound, and so is one element more.
LEMMA Part ==
  ASSUME NEW S, IsFiniteSet(S), NEW T, T \subseteq S
  PROVE  /\ IsFiniteSet(T) /\ Cardinality(T) \in Nat /\ Cardinality(S) \in Nat
         /\ Cardinality(T) <= Cardinality(S)
<1>1. T \in SUBSET S OBVIOUS
<1> QED BY <1>1, FS_Subset, FS_CardinalityType

LEMMA OneMore ==
  ASSUME NEW S, IsFiniteSet(S), NEW x, NEW n \in Nat, Cardinality(S) < n
  PROVE  IsFiniteSet(S \cup {x}) /\ Cardinality(S \cup {x}) <= n
<1>1. Cardinality(S) \in Nat BY FS_CardinalityType
<1>2. IsFiniteSet(S \cup {x})
      /\ Cardinality(S \cup {x}) = IF x \in S THEN Cardinality(S) ELSE Cardinality(S) + 1
  BY FS_AddElement
<1> QED BY <1>1, <1>2

LEMMA OneFewer ==
  ASSUME NEW S, IsFiniteSet(S), NEW x \in S, NEW n \in Nat, Cardinality(S) <= n
  PROVE  Cardinality(S \ {x}) < n
<1>1. Cardinality(S) \in Nat BY FS_CardinalityType
<1>2. Cardinality(S \ {x}) = Cardinality(S) - 1 BY FS_RemoveElement
<1> QED BY <1>1, <1>2

\* What a step leaves of the clients when it only forgets some that are not
\* approved.
LEMMA KeepClients ==
  ASSUME OAuthInv, Known' \subseteq Known, Pending' \subseteq Pending, Approved' = Approved,
         title' = title, stored' = stored, given \subseteq given', Running' => Running,
         \A c \in Clients : Writing(c) => Writing(c)'
  PROVE  ClientsHold'
<1> USE DEF OAuthInv, ClientsHold
<1>1. IsFiniteSet(Known') /\ IsFiniteSet(stored') BY Part
<1>2. Cardinality(Pending') <= MaxPending
  <2>1. IsFiniteSet(Pending) BY Part DEF Pending, Known
  <2> QED BY <2>1, Part, OAuthAssumption
<1>3. OneTitle' BY DEF OneTitle
<1>4. (Running => stored \subseteq Approved)' OBVIOUS
<1>5. \A c \in Approved' : c \in stored' \/ Writing(c)' BY DEF Approved
<1>6. Known' \cup stored' \subseteq given' OBVIOUS
<1> QED BY <1>1, <1>2, <1>3, <1>4, <1>5, <1>6

\* What a step leaves of the codes when it only drops some.
LEMMA KeepCodes ==
  ASSUME OAuthInv, Stored' \subseteq Stored, codeFor' = codeFor, stored \subseteq stored',
         given \subseteq given', tokens' = tokens
  PROVE  CodesHold'
<1> USE DEF OAuthInv, CodesHold
<1>1. IsFiniteSet(Stored') /\ Cardinality(Stored') <= MaxCodes BY Part, OAuthAssumption
<1>2. \A k \in Codes \ given' : tokens'[k] = 0 OBVIOUS
<1>3. \A k \in Stored' : codeFor'[k] \in stored' /\ tokens'[k] = 0 OBVIOUS
<1>4. CodeUsedOnce' BY DEF CodeUsedOnce
<1> QED BY <1>1, <1>2, <1>3, <1>4

\* What a step leaves of a request that is not its own.
LEMMA KeepCall ==
  ASSUME OAuthInv, NEW b \in Callers, call'[b] = call[b], given \subseteq given',
         stored \subseteq stored',
         Owns(b) => /\ code'[call[b].code] = "none"
                    /\ tokens'[call[b].code] = tokens[call[b].code],
         Issuing(b) => codeLock' = codeLock /\ Running' /\ Cardinality(Stored') < MaxCodes,
         call[b].pc = "persist" => /\ clientLock' = clientLock /\ stored' = stored
                                   /\ client'[call[b].client] = "approved"
                                   /\ Cardinality(Pending') < MaxPending
  PROVE  Issues(b)' /\ Approves(b)'
<1>1. Issues(b) /\ Approves(b) BY DEF OAuthInv
<1>2. (Issuing(b)' <=> Issuing(b)) /\ (Owns(b)' <=> Owns(b)) BY DEF Owns, Issuing
<1>3. Issues(b)' BY <1>1, <1>2 DEF Issues
<1>4. Approves(b)' BY <1>1 DEF Approves
<1> QED BY <1>3, <1>4

\* A request that has ended, or owns nothing yet.
LEMMA NoCall ==
  ASSUME NEW b \in Callers, call'[b].pc \in {"idle", "validated"},
         call'[b].pc = "validated" => call'[b].client \in Clients
  PROVE  Issues(b)' /\ Approves(b)' /\ ~Owns(b)'
BY DEF Issues, Approves, Owns, Issuing

LEMMA KeepOwn ==
  ASSUME OAuthInv, \A b \in Callers : Owns(b)' => Owns(b) /\ call'[b].code = call[b].code
  PROVE  OwnCodes'
BY DEF OAuthInv, OwnCodes

--------------------------------------------------------------------------------
\* Pruning forgets what is stale, and nothing else.
LEMMA Prune ==
  ASSUME Typed
  PROVE  /\ FreshClients \in [Clients -> States] /\ FreshCodes \in [Codes -> CodeStates]
         /\ \A c \in Clients : /\ FreshClients[c] = "none" \/ FreshClients[c] = client[c]
                               /\ client[c] = "approved" => FreshClients[c] = "approved"
                               /\ FreshClients[c] # "stale"
         /\ \A k \in Codes : /\ FreshCodes[k] = "none" \/ FreshCodes[k] = code[k]
                             /\ FreshCodes[k] = "live" <=> code[k] = "live"
                             /\ FreshCodes[k] # "stale"
BY DEF Typed, FreshClients, FreshCodes, States, CodeStates

LEMMA RestingIsOne == Resting \in Request /\ Resting.pc = "idle"
BY DEF Resting, Request, Steps

\* What a step of one request leaves of the other requests.
Others(a) == \A b \in Callers : b # a => call'[b] = call[b]

--------------------------------------------------------------------------------
\* A registration gives out one new client, and only when no known client and no
\* client of the file has its key.
LEMMA RegisterStep ==
  ASSUME OAuthInv, NEW a \in Callers, NEW t \in Titles, Register(a, t)
  PROVE  OAuthInv'
<1> USE DEF Register
<1>0. Typed /\ phase = "open" BY DEF OAuthInv, Begins
<1>1. UNCHANGED <<code, codeFor, stored, phase, codeLock, clientLock, call, tokens>>
  OBVIOUS
<1>2. given \subseteq given' OBVIOUS
<1>3. \/ client' = FreshClients /\ title' = title
      \/ /\ Matching(t) = {}
         /\ Cardinality({c \in Clients : FreshClients[c] = "pending"}) < MaxPending
         /\ \E c \in Clients \ given :
              /\ title' = [title EXCEPT ![c] = t] /\ given' = given \cup {c}
              /\ client' = [FreshClients EXCEPT ![c] = "pending"]
  OBVIOUS
<1> HIDE DEF Register
<1>4. Typed'
  <2>1. client' \in [Clients -> States] BY <1>0, <1>3, Prune DEF States
  <2>2. title' \in [Clients -> Titles \cup {NoOne}] BY <1>0, <1>3 DEF Typed
  <2> QED BY <1>0, <1>1, <2>1, <2>2 DEF Typed
<1>5. ClientsHold'
  <2>1. CASE client' = FreshClients /\ title' = title
    <3>1. Known' \subseteq Known /\ Pending' \subseteq Pending /\ Approved' = Approved
      BY <1>0, <2>1, Prune DEF Known, Pending, Approved
    <3> QED BY <1>1, <1>2, <2>1, <3>1, KeepClients DEF Running, Writing
  <2>2. ASSUME NEW c \in Clients \ given, Matching(t) = {},
               Cardinality({d \in Clients : FreshClients[d] = "pending"}) < MaxPending,
               title' = [title EXCEPT ![c] = t], given' = given \cup {c},
               client' = [FreshClients EXCEPT ![c] = "pending"]
        PROVE  ClientsHold'
    <3> DEFINE Kept == {d \in Clients : FreshClients[d] = "pending"}
    <3>1. ClientsHold /\ c \notin Known \cup stored BY DEF OAuthInv, ClientsHold
    <3>2. Known' \subseteq Known \cup {c} /\ Pending' = Kept \cup {c} /\ Approved' = Approved
      <4>1. \A d \in Clients : client'[d] = IF d = c THEN "pending" ELSE FreshClients[d]
        BY <1>0, <2>2, Prune
      <4>2. c \notin Approved BY <3>1 DEF Approved, Known
      <4> QED BY <1>0, <4>1, <4>2, Prune DEF Known, Pending, Approved
    <3>3. IsFiniteSet(Known') /\ IsFiniteSet(stored')
      BY <1>1, <3>1, <3>2, Part, FS_AddElement DEF ClientsHold
    <3>4. Cardinality(Pending') <= MaxPending
      <4>1. Kept \subseteq Known BY <1>0, Prune DEF Known
      <4>2. IsFiniteSet(Kept) BY <3>1, <4>1, Part DEF ClientsHold
      <4> QED BY <2>2, <3>2, <4>2, OneMore, OAuthAssumption
    <3>5. OneTitle'
      <4>1. \A d \in Known' \cup stored' : d # c => d \in Known \cup stored /\ title'[d] # t
        <5> SUFFICES ASSUME NEW d \in Known' \cup stored', d # c
                     PROVE  d \in Known \cup stored /\ title'[d] # t
          OBVIOUS
        <5>1. d \in Clients /\ d \in Known \cup stored
          BY <1>0, <1>1, <3>2 DEF Known, Typed
        <5>2. FreshClients[d] # "none"
          <6>1. CASE d \in stored
            BY <1>0, <3>1, <6>1, Prune DEF ClientsHold, Running, Approved
          <6>2. CASE d \in Known'
            BY <1>0, <2>2, <5>1, <6>2, Prune DEF Known
          <6> QED BY <1>1, <6>1, <6>2
        <5>3. title[d] # t BY <2>2, <5>1, <5>2 DEF Matching
        <5> QED BY <1>0, <2>2, <5>1, <5>3 DEF Typed
      <4>2. \A d \in Known \cup stored : d # c => title'[d] = title[d]
        BY <1>0, <2>2 DEF Typed, Known
      <4>3. title'[c] = t BY <1>0, <2>2 DEF Typed
      <4> QED BY <3>1, <4>1, <4>2, <4>3 DEF OneTitle, ClientsHold
    <3>6. (Running => stored \subseteq Approved)' BY <1>1, <3>1, <3>2 DEF ClientsHold, Running
    <3>7. \A d \in Approved' : d \in stored' \/ Writing(d)'
      BY <1>1, <3>1, <3>2 DEF ClientsHold, Writing
    <3>8. Known' \cup stored' \subseteq given' BY <1>1, <2>2, <3>1, <3>2 DEF ClientsHold
    <3> QED BY <3>3, <3>4, <3>5, <3>6, <3>7, <3>8 DEF ClientsHold
  <2> QED BY <1>3, <2>1, <2>2
<1>6. CodesHold' BY <1>1, <1>2, KeepCodes DEF Stored
<1>7. ClosedHasNothing' BY <1>0, <1>1 DEF ClosedHasNothing
<1>8. \A b \in Callers : Issues(b)' /\ Approves(b)'
  <2> SUFFICES ASSUME NEW b \in Callers PROVE Issues(b)' /\ Approves(b)'
    OBVIOUS
  <2>1. Issues(b) /\ Approves(b) /\ b # NoOne BY OAuthAssumption DEF OAuthInv
  <2>2. clientLock = NoOne BY DEF Register
  <2>3. call[b].pc # "persist" BY <2>1, <2>2 DEF Approves
  <2>4. Stored' = Stored BY <1>1 DEF Stored
  <2>5. Owns(b) => code'[call[b].code] = "none" BY <1>1, <2>1 DEF Issues
  <2>6. Issuing(b) => Running' /\ Cardinality(Stored') < MaxCodes
    BY <1>1, <2>1, <2>4 DEF Issues, Running
  <2> QED BY <1>1, <1>2, <2>3, <2>5, <2>6, KeepCall
<1>9. OwnCodes' BY <1>1, KeepOwn DEF Owns, Issuing
<1> QED BY <1>4, <1>5, <1>6, <1>7, <1>8, <1>9 DEF OAuthInv

\* A step of a request outside the two critical sections: it prunes, and it begins
\* a request or ends one.
LEMMA PlainStep ==
  ASSUME OAuthInv, NEW a \in Callers, Others(a), Typed',
         UNCHANGED <<title, codeFor, stored, phase, codeLock, clientLock, given, tokens>>,
         call[a].pc \in {"idle", "validated"}, call'[a].pc \in {"idle", "validated"},
         call'[a].pc = "validated" => call'[a].client \in Clients,
         \A c \in Clients : client'[c] # client[c] => client[c] = "stale" /\ client'[c] = "none",
         \A k \in Codes : code'[k] # code[k] => code'[k] = "none"
  PROVE  OAuthInv'
<1> USE DEF OAuthInv
<1>1. Known' \subseteq Known /\ Pending' \subseteq Pending /\ Approved' = Approved
  BY DEF Known, Pending, Approved
<1>2. Stored' \subseteq Stored BY DEF Stored
<1>3. \A c \in Clients : Writing(c) => Writing(c)' BY DEF Writing, Others
<1>4. ClientsHold' BY <1>1, <1>3, KeepClients DEF Running
<1>5. CodesHold' BY <1>2, KeepCodes
<1>6. ClosedHasNothing' BY <1>1, <1>2 DEF ClosedHasNothing
<1>7. Issues(a)' /\ Approves(a)' /\ ~Owns(a)' BY NoCall
<1>8. ASSUME NEW b \in Callers, b # a PROVE Issues(b)' /\ Approves(b)'
  <2>1. Issues(b) /\ Approves(b) /\ call'[b] = call[b] BY <1>8 DEF Others
  <2>2. Owns(b) => code'[call[b].code] = "none" BY <2>1 DEF Issues
  <2>3. Cardinality(Stored') <= Cardinality(Stored) /\ Cardinality(Stored') \in Nat
        /\ Cardinality(Stored) \in Nat
    BY <1>2, Part DEF CodesHold
  <2>4. Issuing(b) => Running' /\ Cardinality(Stored') < MaxCodes
    BY <2>1, <2>3, OAuthAssumption DEF Issues, Running
  <2>5. Cardinality(Pending') <= Cardinality(Pending) /\ Cardinality(Pending') \in Nat
        /\ Cardinality(Pending) \in Nat
    <3>1. IsFiniteSet(Pending) BY Part DEF Pending, Known, ClientsHold
    <3> QED BY <1>1, <3>1, Part
  <2>6. call[b].pc = "persist" => /\ client'[call[b].client] = "approved"
                                  /\ Cardinality(Pending') < MaxPending
    <3>1. call[b].pc = "persist" => call[b].client \in Clients BY <2>1 DEF Issues, Issuing
    <3> QED BY <2>1, <2>5, <3>1, OAuthAssumption DEF Approves
  <2> QED BY <2>1, <2>2, <2>4, <2>6, KeepCall
<1>9. OwnCodes'
  <2>1. \A b \in Callers : b # a /\ Owns(b)' => Owns(b) /\ call'[b].code = call[b].code
    BY DEF Others, Owns, Issuing
  <2> QED BY <1>7, <2>1, KeepOwn
<1> HIDE DEF OAuthInv
<1> QED BY <1>4, <1>5, <1>6, <1>7, <1>8, <1>9 DEF OAuthInv

LEMMA ValidateStep ==
  ASSUME OAuthInv, NEW a \in Callers, NEW c \in Clients, Validate(a, c)
  PROVE  OAuthInv'
<1> DEFINE r == [Resting EXCEPT !.pc = "validated", !.client = c]
<1>1. Typed /\ call[a].pc = "idle" BY DEF OAuthInv, Validate, Begins
<1>2. r \in Request /\ r.pc = "validated" /\ r.client = c
  BY DEF Request, Resting, Steps
<1>3. client' = FreshClients /\ (call' = call \/ call' = [call EXCEPT ![a] = r])
  BY DEF Validate
<1>4. UNCHANGED <<title, code, codeFor, stored, phase, codeLock, clientLock, given, tokens>>
  BY DEF Validate
<1> HIDE DEF r
<1>5. call' \in [Callers -> Request] /\ Others(a) /\ (call'[a] = call[a] \/ call'[a] = r)
  BY <1>1, <1>2, <1>3 DEF Typed, Others
<1>6. Typed' BY <1>1, <1>3, <1>4, <1>5, Prune DEF Typed
<1>7. \A d \in Clients : client'[d] # client[d] => client[d] = "stale" /\ client'[d] = "none"
  BY <1>1, <1>3 DEF Typed, FreshClients
<1> QED BY <1>1, <1>2, <1>4, <1>5, <1>6, <1>7, PlainStep

LEMMA DrawRefusedStep ==
  ASSUME OAuthInv, NEW a \in Callers, DrawRefused(a)
  PROVE  OAuthInv'
<1>1. Typed /\ call[a].pc = "validated" BY DEF OAuthInv, DrawRefused
<1>2. /\ code' = FreshCodes \/ code' = code
      /\ call' = [call EXCEPT ![a] = Resting]
      /\ UNCHANGED <<client, title, codeFor, stored, phase, codeLock, clientLock, given, tokens>>
  BY DEF DrawRefused, Returns
<1>3. call' \in [Callers -> Request] /\ Others(a) /\ call'[a].pc = "idle"
  BY <1>1, <1>2, RestingIsOne DEF Typed, Others
<1>4. Typed' BY <1>1, <1>2, <1>3, Prune DEF Typed
<1>5. \A k \in Codes : code'[k] # code[k] => code'[k] = "none" BY <1>1, <1>2, Prune
<1> QED BY <1>1, <1>2, <1>3, <1>4, <1>5, PlainStep

\* The step of nobody: a client or a code ages, the close begins.
LEMMA QuietStep ==
  ASSUME OAuthInv, UNCHANGED <<title, codeFor, stored, clientLock, given, tokens, call>>,
         Typed', Running' <=> Running, phase' # "closed" \/ phase' = phase,
         codeLock' = codeLock \/ codeLock = NoOne,
         \A c \in Clients : client'[c] # client[c] => client[c] = "pending" /\ client'[c] = "stale",
         \A k \in Codes : code'[k] # code[k] => code[k] = "live"
  PROVE  OAuthInv'
<1> USE DEF OAuthInv
<1>1. Known' = Known /\ Pending' = Pending /\ Approved' = Approved
  BY DEF Known, Pending, Approved, Typed
<1>2. Stored' \subseteq Stored BY DEF Stored
<1>3. \A c \in Clients : Writing(c) => Writing(c)' BY DEF Writing
<1>4. ClientsHold' BY <1>1, <1>3, KeepClients
<1>5. CodesHold' BY <1>2, KeepCodes
<1>6. ClosedHasNothing' BY <1>1, <1>2 DEF ClosedHasNothing
<1>7. ASSUME NEW b \in Callers PROVE Issues(b)' /\ Approves(b)'
  <2>1. Issues(b) /\ Approves(b) /\ b # NoOne BY OAuthAssumption
  <2>2. Owns(b) => code'[call[b].code] = "none" BY <2>1 DEF Issues
  <2>3. Cardinality(Stored') <= Cardinality(Stored) /\ Cardinality(Stored') \in Nat
        /\ Cardinality(Stored) \in Nat
    BY <1>2, Part DEF CodesHold
  <2>4. Issuing(b) => codeLock' = codeLock /\ Running' /\ Cardinality(Stored') < MaxCodes
    BY <2>1, <2>3, OAuthAssumption DEF Issues
  <2>5. call[b].pc = "persist" => client'[call[b].client] = "approved"
    BY <2>1 DEF Approves, Issues, Issuing
  <2>6. call[b].pc = "persist" => Cardinality(Pending') < MaxPending
    BY <1>1, <2>1 DEF Approves
  <2> QED BY <2>1, <2>2, <2>4, <2>5, <2>6, KeepCall
<1>8. OwnCodes' BY KeepOwn DEF Owns, Issuing
<1> HIDE DEF OAuthInv
<1> QED BY <1>4, <1>5, <1>6, <1>7, <1>8 DEF OAuthInv

LEMMA AgesStep ==
  ASSUME OAuthInv,
         \/ \E c \in Clients : ClientAges(c)
         \/ \E k \in Codes : CodeAges(k)
         \/ StopAdmission \/ CloseFirst \/ UNCHANGED oaVars
  PROVE  OAuthInv'
<1>1. Typed BY DEF OAuthInv
<1>2. ASSUME NEW c \in Clients, ClientAges(c) PROVE OAuthInv'
  <2>1. client' = [client EXCEPT ![c] = "stale"] /\ client[c] = "pending"
        /\ UNCHANGED <<title, code, codeFor, stored, phase, codeLock, clientLock, call,
                       given, tokens>>
    BY <1>2 DEF ClientAges
  <2>2. Typed' BY <1>1, <2>1 DEF Typed, States
  <2>3. \A d \in Clients : client'[d] # client[d] => client[d] = "pending" /\ client'[d] = "stale"
    BY <1>1, <2>1 DEF Typed
  <2> QED BY <2>1, <2>2, <2>3, QuietStep DEF Running
<1>3. ASSUME NEW k \in Codes, CodeAges(k) PROVE OAuthInv'
  <2>1. code' = [code EXCEPT ![k] = "stale"] /\ code[k] = "live"
        /\ UNCHANGED <<client, title, codeFor, stored, phase, codeLock, clientLock, call,
                       given, tokens>>
    BY <1>3 DEF CodeAges
  <2>2. Typed' BY <1>1, <2>1 DEF Typed, CodeStates
  <2>3. \A j \in Codes : code'[j] # code[j] => code[j] = "live" BY <1>1, <2>1 DEF Typed
  <2> QED BY <2>1, <2>2, <2>3, QuietStep DEF Running
<1>4. CASE StopAdmission
  <2>1. Typed' BY <1>1, <1>4 DEF Typed, StopAdmission
  <2> QED BY <1>4, <2>1, QuietStep DEF StopAdmission, Running
<1>5. CASE CloseFirst
  <2>1. Typed' BY <1>1, <1>5 DEF Typed, CloseFirst
  <2> QED BY <1>5, <2>1, QuietStep DEF CloseFirst, Running
<1>6. CASE UNCHANGED oaVars
  <2>1. Typed' BY <1>1, <1>6 DEF Typed, oaVars
  <2> QED BY <1>6, <2>1, QuietStep DEF oaVars, Running
<1> QED BY <1>2, <1>3, <1>4, <1>5, <1>6

--------------------------------------------------------------------------------
Drawing(a, k) == [call[a] EXCEPT !.pc = "given", !.code = k]

\* A request draws a code that nobody was given: code_lock was free, so no other
\* request is issuing one.
LEMMA DrawStep ==
  ASSUME OAuthInv, NEW a \in Callers, Draw(a)
  PROVE  OAuthInv'
<1>1. /\ Typed /\ ClientsHold /\ CodesHold /\ Issues(a) /\ Approves(a)
      /\ call[a].pc = "validated" /\ codeLock = NoOne /\ phase = "open"
      /\ Cardinality({k \in Codes : code[k] = "live"}) < MaxCodes
      /\ code' = FreshCodes /\ codeLock' = a
      /\ UNCHANGED <<client, title, codeFor, stored, phase, clientLock, tokens>>
  BY DEF OAuthInv, Draw, Admitted
<1>2. PICK k \in Codes \ given :
         given' = given \cup {k} /\ call' = [call EXCEPT ![a] = Drawing(a, k)]
  BY DEF Draw, Drawing
<1> DEFINE r == Drawing(a, k)
<1>3. call' = [call EXCEPT ![a] = r] /\ call[a] \in Request BY <1>1, <1>2 DEF Typed
<1>4. r.pc = "given" /\ r.code = k /\ r.client = call[a].client /\ r \in Request
  BY <1>3 DEF Request, Steps, Drawing
<1> HIDE DEF r
<1>5. call' \in [Callers -> Request] /\ Others(a) /\ call'[a] = r
  BY <1>1, <1>3, <1>4 DEF Typed, Others
<1>6. Typed' BY <1>1, <1>5, Prune DEF Typed
<1>7. Known' = Known /\ Pending' = Pending /\ Approved' = Approved
  BY <1>1 DEF Known, Pending, Approved
<1>8. \A c \in Clients : Writing(c) => Writing(c)'
  <2>1. \A c \in Clients : Writing(c) => clientLock # a BY <1>1 DEF Writing
  <2> QED BY <1>1, <1>5, <2>1 DEF Writing, Others
<1>9. ClientsHold' BY <1>1, <1>2, <1>7, <1>8, KeepClients DEF Running
<1>10. Stored' = {j \in Codes : code[j] = "live"} /\ Stored' \subseteq Stored
  <2>1. \A j \in Codes : code'[j] # "none" <=> code[j] = "live"
    BY <1>1 DEF FreshCodes, Typed, CodeStates
  <2> QED BY <2>1 DEF Stored
<1>11. CodesHold' BY <1>1, <1>2, <1>10, KeepCodes
<1>12. ClosedHasNothing' BY <1>1 DEF ClosedHasNothing
<1>13. Issues(a)' /\ Approves(a)'
  <2>1. k \notin Stored /\ tokens[k] = 0 BY <1>1, <1>2 DEF CodesHold
  <2>2. code'[k] = "none" /\ k \in given' /\ k \in Codes
    BY <1>1, <1>2, <1>10, <2>1 DEF Stored
  <2>3. call[a].client \in Clients BY <1>1 DEF Issues
  <2> QED BY <1>1, <1>4, <1>5, <1>10, <2>1, <2>2, <2>3 DEF Issues, Approves, Issuing, Owns, Running
<1>14. ASSUME NEW b \in Callers, b # a PROVE Issues(b)' /\ Approves(b)'
  <2>1. Issues(b) /\ Approves(b) /\ b # NoOne /\ call'[b] = call[b]
    BY <1>5, <1>14, OAuthAssumption DEF OAuthInv, Others
  <2>2. ~Issuing(b) /\ call[b].pc # "persist" BY <1>1, <2>1 DEF Issues, Issuing
  <2>3. Owns(b) => code'[call[b].code] = "none" BY <1>1, <2>1, Prune DEF Issues
  <2> QED BY <1>1, <1>2, <2>1, <2>2, <2>3, KeepCall
<1>15. OwnCodes'
  <2> SUFFICES ASSUME NEW b \in Callers, NEW d \in Callers, b # d, Owns(b)', Owns(d)'
               PROVE  call'[b].code # call'[d].code
    BY DEF OwnCodes
  <2>1. \A e \in Callers : e # a /\ Owns(e)' =>
          Owns(e) /\ call'[e].code = call[e].code /\ call[e].code \in given
    BY <1>5 DEF Others, Owns, Issuing, OAuthInv, Issues
  <2>2. call'[a].code \notin given BY <1>2, <1>4, <1>5
  <2> QED BY <2>1, <2>2 DEF OwnCodes, OAuthInv
<1> QED BY <1>6, <1>9, <1>11, <1>12, <1>13, <1>14, <1>15 DEF OAuthInv

--------------------------------------------------------------------------------
\* A request that issues a code goes on, or gives up: it keeps its code or loses it.
LEMMA OwnsOn ==
  ASSUME OAuthInv, NEW a \in Callers, Others(a),
         Owns(a)' => Owns(a) /\ call'[a].code = call[a].code
  PROVE  OwnCodes'
<1>1. \A b \in Callers : Owns(b)' => Owns(b) /\ call'[b].code = call[b].code
  BY DEF Others, Owns, Issuing
<1> QED BY <1>1, KeepOwn

\* While a holds code_lock nobody else issues; while it holds client_lock, or
\* nobody does, nobody else persists.
LEMMA AloneIssuing ==
  ASSUME OAuthInv, NEW a \in Callers, codeLock \in {a, NoOne}, NEW b \in Callers, b # a
  PROVE  ~Issuing(b) /\ call[b].pc # "persist"
BY OAuthAssumption DEF OAuthInv, Issues, Issuing

LEMMA OthersOn ==
  ASSUME OAuthInv, NEW a \in Callers, Others(a), codeLock \in {a, NoOne},
         given \subseteq given', stored \subseteq stored',
         \A b \in Callers : b # a /\ Owns(b) => /\ code'[call[b].code] = "none"
                                              /\ tokens'[call[b].code] = tokens[call[b].code]
  PROVE  \A b \in Callers : b # a => Issues(b)' /\ Approves(b)'
<1> SUFFICES ASSUME NEW b \in Callers, b # a PROVE Issues(b)' /\ Approves(b)'
  OBVIOUS
<1>1. call'[b] = call[b] /\ ~Issuing(b) /\ call[b].pc # "persist" BY AloneIssuing DEF Others
<1> QED BY <1>1, KeepCall

\* What a step of the request that issues starts from.
LEMMA IssuingHolds ==
  ASSUME OAuthInv, NEW a \in Callers, Issuing(a)
  PROVE  /\ Typed /\ ClientsHold /\ CodesHold /\ Issues(a) /\ Approves(a) /\ OwnCodes
         /\ codeLock = a /\ Running /\ Owns(a) /\ call[a] \in Request
         /\ call[a].client \in Clients /\ call[a].code \in Codes /\ call[a].code \in given
         /\ code[call[a].code] = "none" /\ tokens[call[a].code] = 0
         /\ Cardinality(Stored) < MaxCodes /\ NoOne \notin Callers
         /\ \A b \in Callers : Owns(b) => code[call[b].code] = "none"
BY OAuthAssumption DEF OAuthInv, Issues, Owns, Typed

LEMMA GoesTo ==
  ASSUME Typed, NEW a \in Callers, NEW p \in Steps, Goes(a, p)
  PROVE  /\ call' \in [Callers -> Request] /\ Others(a)
         /\ call'[a].pc = p /\ call'[a].client = call[a].client /\ call'[a].code = call[a].code
<1>1. call[a] \in Request BY DEF Typed
<1> DEFINE r == [call[a] EXCEPT !.pc = p]
<1>2. r \in Request /\ r.pc = p /\ r.client = call[a].client /\ r.code = call[a].code
  BY <1>1 DEF Request
<1>3. call' = [call EXCEPT ![a] = r] BY DEF Goes
<1> HIDE DEF r
<1> QED BY <1>2, <1>3 DEF Typed, Others

LEMMA ReturnsTo ==
  ASSUME Typed, NEW a \in Callers, Returns(a)
  PROVE  call' \in [Callers -> Request] /\ Others(a) /\ call'[a].pc = "idle"
BY RestingIsOne DEF Typed, Others, Returns

\* A request that issues gives up before anything became visible.
LEMMA ApproveRefusedStep ==
  ASSUME OAuthInv, NEW a \in Callers, ApproveRefused(a)
  PROVE  OAuthInv'
<1>0. Issuing(a) BY DEF Issuing, ApproveRefused
<1>1. /\ call[a].pc = "given" /\ Returns(a) /\ codeLock' = NoOne
      /\ UNCHANGED <<client, title, code, codeFor, stored, phase, clientLock, given, tokens>>
  BY DEF ApproveRefused
<1>2. /\ Typed /\ ClientsHold /\ CodesHold /\ codeLock = a
      /\ \A b \in Callers : Owns(b) => code[call[b].code] = "none"
  BY <1>0, IssuingHolds
<1>3. call' \in [Callers -> Request] /\ Others(a) /\ call'[a].pc = "idle"
  BY <1>1, <1>2, ReturnsTo
<1>4. Typed' BY <1>1, <1>2, <1>3 DEF Typed
<1>5. Known' = Known /\ Pending' = Pending /\ Approved' = Approved /\ Stored' = Stored
  BY <1>1 DEF Known, Pending, Approved, Stored
<1>6. \A c \in Clients : Writing(c) => Writing(c)'
  <2>1. \A c \in Clients : Writing(c) => clientLock # a BY <1>1 DEF Writing
  <2> QED BY <1>1, <1>3, <2>1 DEF Writing, Others
<1>7. ClientsHold' BY <1>1, <1>5, <1>6, KeepClients DEF Running
<1>8. CodesHold' BY <1>1, <1>5, KeepCodes
<1>9. ClosedHasNothing' BY <1>1, <1>5 DEF ClosedHasNothing, OAuthInv
<1>10. \A b \in Callers : b # a => Issues(b)' /\ Approves(b)' BY <1>1, <1>2, <1>3, OthersOn
<1>11. Issues(a)' /\ Approves(a)' /\ ~Owns(a)' BY <1>3, NoCall
<1>12. OwnCodes' BY <1>3, <1>11, OwnsOn
<1> QED BY <1>4, <1>7, <1>8, <1>9, <1>10, <1>11, <1>12 DEF OAuthInv

\* The approval: the client becomes durable, or already was, in one section of
\* client_lock that the writing of the file ends.
LEMMA ApproveStep ==
  ASSUME OAuthInv, NEW a \in Callers, Approve(a)
  PROVE  OAuthInv'
<1>0. Issuing(a) BY DEF Issuing, Approve
<1>c. PICK c \in Clients : c = call[a].client BY <1>0, IssuingHolds
<1>1. /\ call[a].pc = "given" /\ clientLock = NoOne /\ phase = "open" /\ client[c] # "none"
      /\ UNCHANGED <<title, code, codeFor, stored, phase, codeLock, given, tokens>>
  BY <1>c DEF Approve
<1>2. /\ Typed /\ ClientsHold /\ CodesHold /\ codeLock = a /\ c \in Clients
      /\ Issues(a) /\ Owns(a) /\ NoOne \notin Callers
      /\ \A b \in Callers : Owns(b) => code[call[b].code] = "none"
  BY <1>0, IssuingHolds
<1>3. \/ client[c] = "approved" /\ Goes(a, "store") /\ UNCHANGED <<client, clientLock>>
      \/ /\ client[c] # "approved" /\ Goes(a, "persist") /\ clientLock' = a
         /\ client' = [client EXCEPT ![c] = "approved"]
  BY <1>c DEF Approve
<1>4. /\ call' \in [Callers -> Request] /\ Others(a) /\ call'[a].client = c
      /\ call'[a].code = call[a].code
      /\ \/ client[c] = "approved" /\ client' = client /\ clientLock' = clientLock
            /\ call'[a].pc = "store"
         \/ client[c] # "approved" /\ client' = [client EXCEPT ![c] = "approved"]
            /\ clientLock' = a /\ call'[a].pc = "persist"
  BY <1>c, <1>2, <1>3, GoesTo DEF Steps
<1>5. Typed' BY <1>1, <1>2, <1>4 DEF Typed, States
<1>6. \A d \in Approved : d \in stored BY <1>1, <1>2 DEF ClientsHold, Writing
<1>7. Stored' = Stored BY <1>1 DEF Stored
<1>8. CodesHold' BY <1>1, <1>7, KeepCodes
<1>9. ClosedHasNothing' BY <1>1 DEF ClosedHasNothing
<1>10. \A b \in Callers : b # a => Issues(b)' /\ Approves(b)'
  BY <1>1, <1>2, <1>4, OthersOn
<1>11. OwnCodes' BY <1>2, <1>4, OwnsOn
<1>12. Issues(a)' BY <1>1, <1>2, <1>4, <1>7 DEF Issues, Issuing, Owns, Running
<1>13. CASE client[c] = "approved"
  <2>1. Known' = Known /\ Pending' = Pending /\ Approved' = Approved
    BY <1>4, <1>13 DEF Known, Pending, Approved
  <2>2. \A d \in Clients : ~Writing(d) BY <1>1, <1>2 DEF Writing
  <2>3. ClientsHold' BY <1>1, <2>1, <2>2, KeepClients DEF Running
  <2>4. c \in stored' BY <1>1, <1>2, <1>6, <1>13 DEF Approved
  <2>5. Approves(a)' BY <1>4, <1>13, <2>4 DEF Approves
  <2> QED BY <1>5, <1>8, <1>9, <1>10, <1>11, <1>12, <2>3, <2>5 DEF OAuthInv
<1>14. CASE client[c] # "approved"
  <2>1. /\ Known' = Known /\ Pending' = Pending \ {c} /\ Approved' = Approved \cup {c}
        /\ c \in Pending /\ c \notin stored
    <3>1. c \notin stored BY <1>1, <1>2, <1>14 DEF ClientsHold, Running, Approved
    <3>2. client[c] \in {"pending", "stale"} BY <1>1, <1>2, <1>14 DEF Typed, States
    <3>3. \A d \in Clients : client'[d] = IF d = c THEN "approved" ELSE client[d]
      BY <1>2, <1>4, <1>14 DEF Typed
    <3> QED BY <1>1, <1>2, <3>1, <3>2, <3>3 DEF Known, Pending, Approved
  <2>2. IsFiniteSet(Pending) /\ Cardinality(Pending') < MaxPending
    <3>1. IsFiniteSet(Pending) BY <1>2, Part DEF Pending, Known, ClientsHold
    <3> QED BY <1>2, <2>1, <3>1, OneFewer, OAuthAssumption DEF ClientsHold
  <2>3. Cardinality(Pending') <= MaxPending
    <3>1. Pending' \subseteq Pending BY <2>1
    <3> QED BY <1>2, <2>2, <3>1, Part, OAuthAssumption
  <2>4. Writing(c)' BY <1>4, <1>14 DEF Writing
  <2>5. ClientsHold' BY <1>1, <1>2, <1>6, <2>1, <2>3, <2>4 DEF ClientsHold, OneTitle, Running
  <2>6. Approves(a)'
    <3>1. client'[c] = "approved" BY <1>2, <1>4, <1>14 DEF Typed
    <3> QED BY <1>1, <1>4, <1>14, <2>1, <2>2, <3>1 DEF Approves
  <2> QED BY <1>5, <1>8, <1>9, <1>10, <1>11, <1>12, <2>5, <2>6 DEF OAuthInv
<1> QED BY <1>13, <1>14

\* The file catches up with the memory.
LEMMA PersistStep ==
  ASSUME OAuthInv, NEW a \in Callers, Persist(a)
  PROVE  OAuthInv'
<1>0. Issuing(a) BY DEF Issuing, Persist
<1>1. /\ call[a].pc = "persist" /\ Goes(a, "store") /\ stored' = Approved /\ clientLock' = NoOne
      /\ UNCHANGED <<client, title, code, codeFor, phase, codeLock, given, tokens>>
  BY DEF Persist
<1>2. /\ Typed /\ ClientsHold /\ CodesHold /\ codeLock = a /\ Running /\ call[a].client \in Clients
      /\ Issues(a) /\ Approves(a) /\ Owns(a) /\ NoOne \notin Callers
      /\ \A b \in Callers : Owns(b) => code[call[b].code] = "none"
  BY <1>0, IssuingHolds
<1>3. /\ call' \in [Callers -> Request] /\ Others(a) /\ call'[a].pc = "store"
      /\ call'[a].client = call[a].client /\ call'[a].code = call[a].code
  BY <1>1, <1>2, GoesTo DEF Steps
<1>4. Approved \subseteq Clients /\ Approved \subseteq Known /\ stored \subseteq stored'
  BY <1>1, <1>2 DEF Approved, Known, ClientsHold
<1>5. Typed' BY <1>1, <1>2, <1>3, <1>4 DEF Typed
<1>6. Known' = Known /\ Pending' = Pending /\ Approved' = Approved /\ Stored' = Stored
  BY <1>1 DEF Known, Pending, Approved, Stored
<1>7. ClientsHold'
  <2>1. IsFiniteSet(stored') BY <1>1, <1>2, <1>4, Part DEF ClientsHold
  <2>2. OneTitle' BY <1>1, <1>2, <1>4, <1>6 DEF OneTitle, ClientsHold
  <2> QED BY <1>1, <1>2, <1>4, <1>6, <2>1, <2>2 DEF ClientsHold
<1>8. CodesHold' BY <1>1, <1>4, <1>6, KeepCodes
<1>9. ClosedHasNothing' BY <1>1, <1>2 DEF ClosedHasNothing, Running
<1>10. \A b \in Callers : b # a => Issues(b)' /\ Approves(b)'
  BY <1>1, <1>2, <1>3, <1>4, OthersOn
<1>11. OwnCodes' BY <1>2, <1>3, OwnsOn
<1>12. Issues(a)' BY <1>1, <1>2, <1>3, <1>6 DEF Issues, Issuing, Owns, Running
<1>13. Approves(a)' BY <1>1, <1>2, <1>3 DEF Approves, Approved
<1> QED BY <1>5, <1>7, <1>8, <1>9, <1>10, <1>11, <1>12, <1>13 DEF OAuthInv

\* The approval is taken back: nothing depended on it, and the client pends again
\* within the bound that its approval had left.
LEMMA PersistFailsStep ==
  ASSUME OAuthInv, NEW a \in Callers, PersistFails(a)
  PROVE  OAuthInv'
<1>0. Issuing(a) BY DEF Issuing, PersistFails
<1>c. PICK c \in Clients : c = call[a].client BY <1>0, IssuingHolds
<1>1. /\ call[a].pc = "persist" /\ Returns(a) /\ clientLock' = NoOne /\ codeLock' = NoOne
      /\ client' = [client EXCEPT ![c] = "pending"]
      /\ UNCHANGED <<title, code, codeFor, stored, phase, given, tokens>>
  BY <1>c DEF PersistFails
<1>2. /\ Typed /\ ClientsHold /\ CodesHold /\ codeLock = a /\ Running /\ c \in Clients
      /\ Approves(a) /\ NoOne \notin Callers
      /\ \A b \in Callers : Owns(b) => code[call[b].code] = "none"
  BY <1>0, IssuingHolds
<1>3. call' \in [Callers -> Request] /\ Others(a) /\ call'[a].pc = "idle"
  BY <1>1, <1>2, ReturnsTo
<1>4. /\ clientLock = a /\ client[c] = "approved" /\ c \notin stored
      /\ Cardinality(Pending) < MaxPending
  BY <1>c, <1>1, <1>2 DEF Approves
<1>5. \A d \in Approved : d \in stored \/ d = c BY <1>c, <1>2, <1>4 DEF ClientsHold, Writing
<1>6. Typed' BY <1>1, <1>2, <1>3 DEF Typed, States
<1>7. Known' = Known /\ Pending' = Pending \cup {c} /\ Approved' = Approved \ {c}
  <2>1. \A d \in Clients : client'[d] = IF d = c THEN "pending" ELSE client[d]
    BY <1>1, <1>2 DEF Typed
  <2> QED BY <1>2, <1>4, <2>1 DEF Known, Pending, Approved
<1>8. Stored' = Stored BY <1>1 DEF Stored
<1>9. ClientsHold'
  <2>1. IsFiniteSet(Pending) BY <1>2, Part DEF Pending, Known, ClientsHold
  <2>2. Cardinality(Pending') <= MaxPending BY <1>4, <1>7, <2>1, OneMore, OAuthAssumption
  <2> QED BY <1>1, <1>2, <1>4, <1>5, <1>7, <2>2 DEF ClientsHold, OneTitle, Running
<1>10. CodesHold' BY <1>1, <1>8, KeepCodes
<1>11. ClosedHasNothing' BY <1>1, <1>2 DEF ClosedHasNothing, Running
<1>12. \A b \in Callers : b # a => Issues(b)' /\ Approves(b)' BY <1>1, <1>2, <1>3, OthersOn
<1>13. Issues(a)' /\ Approves(a)' /\ ~Owns(a)' BY <1>3, NoCall
<1>14. OwnCodes' BY <1>3, <1>13, OwnsOn
<1> QED BY <1>6, <1>9, <1>10, <1>11, <1>12, <1>13, <1>14 DEF OAuthInv

--------------------------------------------------------------------------------
\* The code becomes redeemable: no token was made of it, its client is in the file,
\* and the place it takes was free when the request took code_lock.
LEMMA StoreStep ==
  ASSUME OAuthInv, NEW a \in Callers, Store(a)
  PROVE  OAuthInv'
<1>0. Issuing(a) BY DEF Issuing, Store
<1>1. PICK k \in Codes : k = call[a].code BY <1>0, IssuingHolds
<1>2. PICK c \in Clients : c = call[a].client BY <1>0, IssuingHolds
<1>3. /\ call[a].pc = "store" /\ Returns(a) /\ codeLock' = NoOne
      /\ code' = [code EXCEPT ![k] = "live"] /\ codeFor' = [codeFor EXCEPT ![k] = c]
      /\ UNCHANGED <<client, title, stored, phase, clientLock, given, tokens>>
  BY <1>1, <1>2 DEF Store
<1>4. /\ Typed /\ ClientsHold /\ CodesHold /\ codeLock = a /\ Running /\ Approves(a) /\ OwnCodes
      /\ Owns(a) /\ k \in given /\ code[k] = "none" /\ tokens[k] = 0
      /\ Cardinality(Stored) < MaxCodes
      /\ \A b \in Callers : Owns(b) => code[call[b].code] = "none"
  BY <1>0, <1>1, IssuingHolds
<1>5. call' \in [Callers -> Request] /\ Others(a) /\ call'[a].pc = "idle"
  BY <1>3, <1>4, ReturnsTo
<1>6. Typed' BY <1>3, <1>4, <1>5 DEF Typed, CodeStates
<1>7. Known' = Known /\ Pending' = Pending /\ Approved' = Approved
  BY <1>3 DEF Known, Pending, Approved
<1>8. Stored' = Stored \cup {k}
  <2>1. \A j \in Codes : code'[j] = IF j = k THEN "live" ELSE code[j]
    BY <1>3, <1>4 DEF Typed
  <2> QED BY <2>1 DEF Stored
<1>9. \A d \in Clients : Writing(d) => Writing(d)'
  <2>1. \A d \in Clients : Writing(d) => clientLock # a BY <1>3 DEF Writing
  <2> QED BY <1>3, <1>5, <2>1 DEF Writing, Others
<1>10. ClientsHold' BY <1>3, <1>7, <1>9, KeepClients DEF Running
<1>11. CodesHold'
  <2>1. IsFiniteSet(Stored') /\ Cardinality(Stored') <= MaxCodes
    BY <1>4, <1>8, OneMore, OAuthAssumption DEF CodesHold
  <2>2. c \in stored BY <1>2, <1>3, <1>4 DEF Approves
  <2>3. \A j \in Stored' : codeFor'[j] = IF j = k THEN c ELSE codeFor[j]
    BY <1>3, <1>4 DEF Typed, Stored
  <2>4. \A j \in Stored' : codeFor'[j] \in stored' /\ tokens'[j] = 0
    BY <1>3, <1>4, <1>8, <2>2, <2>3 DEF CodesHold
  <2>5. CodeUsedOnce' BY <1>3, <1>4 DEF CodesHold, CodeUsedOnce
  <2> QED BY <1>3, <1>4, <1>8, <2>1, <2>4, <2>5 DEF CodesHold
<1>12. ClosedHasNothing' BY <1>3, <1>4 DEF ClosedHasNothing, Running
<1>13. \A b \in Callers : b # a /\ Owns(b) => code'[call[b].code] = "none"
  <2>1. \A b \in Callers : b # a /\ Owns(b) => call[b].code # k
    BY <1>1, <1>4 DEF OwnCodes
  <2> QED BY <1>3, <1>4, <2>1 DEF Typed
<1>14. \A b \in Callers : b # a => Issues(b)' /\ Approves(b)'
  BY <1>3, <1>4, <1>5, <1>13, OthersOn
<1>15. Issues(a)' /\ Approves(a)' /\ ~Owns(a)' BY <1>5, NoCall
<1>16. OwnCodes' BY <1>5, <1>15, OwnsOn
<1> QED BY <1>6, <1>10, <1>11, <1>12, <1>14, <1>15, <1>16 DEF OAuthInv

\* An exchange takes a live code out of the store: from then on this request alone
\* can turn it into a token.
Redeeming(k) == [Resting EXCEPT !.pc = "token", !.code = k]

LEMMA ExchangeStep ==
  ASSUME OAuthInv, NEW a \in Callers, NEW k \in Codes, NEW right \in BOOLEAN,
         Exchange(a, k, right)
  PROVE  OAuthInv'
<1>1. /\ call[a].pc = "idle" /\ codeLock = NoOne /\ k \in given /\ phase = "open"
      /\ UNCHANGED <<client, title, codeFor, stored, phase, codeLock, clientLock, given, tokens>>
  BY DEF Exchange, Begins
<1>2. Typed /\ ClientsHold /\ CodesHold /\ NoOne \notin Callers
  BY OAuthAssumption DEF OAuthInv
<1>3. CASE code' = FreshCodes /\ UNCHANGED call
  <2>1. Typed' BY <1>1, <1>2, <1>3, Prune DEF Typed
  <2>2. \A j \in Codes : code'[j] # code[j] => code'[j] = "none" BY <1>2, <1>3, Prune
  <2> QED BY <1>1, <1>3, <2>1, <2>2, PlainStep DEF Others
<1>4. CASE /\ FreshCodes[k] = "live" /\ code' = Redeemed(k)
           /\ call' = [call EXCEPT ![a] = Redeeming(k)]
  <2>1. /\ Redeeming(k) \in Request /\ Redeeming(k).pc = "token" /\ Redeeming(k).code = k
    BY DEF Request, Resting, Steps, Redeeming
  <2>2. call' \in [Callers -> Request] /\ Others(a) /\ call'[a] = Redeeming(k)
    BY <1>2, <1>4, <2>1 DEF Typed, Others
  <2>3. code[k] = "live" /\ k \in Stored BY <1>2, <1>4, Prune DEF Stored
  <2>4. tokens[k] = 0 /\ k \in given BY <1>1, <1>2, <2>3 DEF CodesHold
  <2>5. \A j \in Codes : /\ code'[j] \in CodeStates /\ code'[k] = "none"
                         /\ code'[j] # code[j] => code'[j] = "none"
    BY <1>2, <1>4 DEF Redeemed, FreshCodes, Typed, CodeStates
  <2>6. Typed'
    <3>1. code' \in [Codes -> CodeStates]
      BY <1>2, <1>4, Prune DEF Redeemed, CodeStates
    <3> QED BY <1>1, <1>2, <2>2, <3>1 DEF Typed
  <2>7. Known' = Known /\ Pending' = Pending /\ Approved' = Approved /\ Stored' \subseteq Stored
    BY <1>1, <2>5 DEF Known, Pending, Approved, Stored
  <2>8. \A d \in Clients : Writing(d) => Writing(d)'
    <3>1. \A d \in Clients : Writing(d) => clientLock # a BY <1>1 DEF Writing
    <3> QED BY <1>1, <2>2, <3>1 DEF Writing, Others
  <2>9. ClientsHold' BY <1>1, <2>7, <2>8, KeepClients DEF Running
  <2>10. CodesHold' BY <1>1, <2>7, KeepCodes
  <2>11. ClosedHasNothing' BY <1>1 DEF ClosedHasNothing
  <2>12. \A b \in Callers : Owns(b) => /\ code[call[b].code] = "none" /\ call[b].code \in Codes
                                       /\ call[b].code # k
    BY <2>3 DEF OAuthInv, Issues
  <2>13. \A b \in Callers : b # a => Issues(b)' /\ Approves(b)'
    BY <1>1, <2>2, <2>5, <2>12, OthersOn
  <2>14. Issues(a)' /\ Approves(a)'
    BY <1>1, <2>1, <2>2, <2>4, <2>5 DEF Issues, Approves, Issuing, Owns
  <2>15. OwnCodes'
    <3> SUFFICES ASSUME NEW b \in Callers, NEW d \in Callers, b # d, Owns(b)', Owns(d)'
                 PROVE  call'[b].code # call'[d].code
      BY DEF OwnCodes
    <3>1. \A e \in Callers : e # a /\ Owns(e)' =>
            Owns(e) /\ call'[e].code = call[e].code /\ call[e].code # k
      BY <2>2, <2>12 DEF Others, Owns, Issuing
    <3>2. call'[a].code = k BY <2>1, <2>2
    <3> QED BY <3>1, <3>2 DEF OwnCodes, OAuthInv
  <2> QED BY <2>6, <2>9, <2>10, <2>11, <2>13, <2>14, <2>15 DEF OAuthInv
<1> QED BY <1>3, <1>4 DEF Exchange, Redeeming

\* The token of a code, and the failure to make it: the code is owned by this
\* request and stored nowhere.
LEMMA TokenStep ==
  ASSUME OAuthInv, NEW a \in Callers, IssueToken(a) \/ TokenFails(a)
  PROVE  OAuthInv'
<1>1. /\ call[a].pc = "token" /\ Returns(a)
      /\ UNCHANGED <<client, title, code, codeFor, stored, phase, codeLock, clientLock, given>>
  BY DEF IssueToken, TokenFails
<1>2. Owns(a) BY <1>1 DEF Owns
<1>3. PICK k \in Codes : k = call[a].code /\ k \in given /\ code[k] = "none" /\ tokens[k] = 0
  BY <1>2 DEF OAuthInv, Issues
<1>4. tokens' = tokens \/ tokens' = [tokens EXCEPT ![k] = @ + 1]
  BY <1>3 DEF IssueToken, TokenFails
<1>5. Typed /\ ClientsHold /\ CodesHold /\ OwnCodes BY DEF OAuthInv
<1>6. /\ tokens' \in [Codes -> Nat] /\ tokens'[k] <= 1
      /\ \A j \in Codes : j # k => tokens'[j] = tokens[j]
  BY <1>3, <1>4, <1>5 DEF Typed
<1>7. call' \in [Callers -> Request] /\ Others(a) /\ call'[a].pc = "idle"
  BY <1>1, <1>5, ReturnsTo
<1>8. Typed' BY <1>1, <1>5, <1>6, <1>7 DEF Typed
<1>9. Known' = Known /\ Pending' = Pending /\ Approved' = Approved /\ Stored' = Stored
  BY <1>1 DEF Known, Pending, Approved, Stored
<1>10. \A d \in Clients : Writing(d) => Writing(d)'
  <2>1. \A d \in Clients : Writing(d) => clientLock # a BY <1>1 DEF Writing
  <2> QED BY <1>1, <1>7, <2>1 DEF Writing, Others
<1>11. ClientsHold' BY <1>1, <1>9, <1>10, KeepClients DEF Running
<1>12. CodesHold'
  <2>1. k \notin Stored BY <1>3 DEF Stored
  <2>2. \A j \in Codes : tokens'[j] <= 1 BY <1>5, <1>6 DEF CodesHold, CodeUsedOnce
  <2>3. \A j \in Stored : tokens'[j] = 0 BY <1>5, <1>6, <2>1 DEF CodesHold, Stored
  <2>4. \A j \in Codes \ given' : tokens'[j] = 0 BY <1>1, <1>3, <1>5, <1>6 DEF CodesHold
  <2> QED BY <1>1, <1>5, <1>9, <2>2, <2>3, <2>4 DEF CodesHold, CodeUsedOnce
<1>13. ClosedHasNothing' BY <1>1, <1>9 DEF ClosedHasNothing, OAuthInv
<1>14. ASSUME NEW b \in Callers, b # a PROVE Issues(b)' /\ Approves(b)'
  <2>1. Issues(b) /\ Approves(b) /\ call'[b] = call[b] BY <1>7, <1>14 DEF OAuthInv, Others
  <2>2. Owns(b) => /\ code'[call[b].code] = "none"
                   /\ tokens'[call[b].code] = tokens[call[b].code]
    <3>1. Owns(b) => call[b].code # k BY <1>2, <1>3, <1>5, <1>14 DEF OwnCodes
    <3> QED BY <1>1, <1>6, <2>1, <3>1 DEF Issues
  <2>3. Issuing(b) => Running' /\ Cardinality(Stored') < MaxCodes
    BY <1>1, <1>9, <2>1 DEF Issues, Running
  <2>4. call[b].pc = "persist" => /\ client'[call[b].client] = "approved"
                                  /\ Cardinality(Pending') < MaxPending
    BY <1>1, <1>9, <2>1 DEF Approves
  <2> QED BY <1>1, <2>1, <2>2, <2>3, <2>4, KeepCall
<1>15. Issues(a)' /\ Approves(a)' /\ ~Owns(a)' BY <1>7, NoCall
<1>16. OwnCodes' BY <1>7, <1>15, OwnsOn
<1> QED BY <1>8, <1>11, <1>12, <1>13, <1>14, <1>15, <1>16 DEF OAuthInv

--------------------------------------------------------------------------------
\* The close, the death and the start of a process: no code and no approval of the
\* memory is left, and the file is all that the next process knows.
LEMMA EmptyStep ==
  ASSUME OAuthInv, Close \/ Die
  PROVE  OAuthInv'
<1>1. /\ client' = [c \in Clients |-> "none"] /\ code' = [k \in Codes |-> "none"]
      /\ codeLock' = NoOne /\ clientLock' = NoOne /\ phase' \in {"closed", "down"}
      /\ call' = call \/ call' = [b \in Callers |-> Resting]
      /\ UNCHANGED <<title, codeFor, stored, given, tokens>>
  BY DEF Close, Die
<1>2. Typed /\ ClientsHold /\ CodesHold /\ OwnCodes BY DEF OAuthInv
<1>3. call' \in [Callers -> Request] BY <1>1, <1>2, RestingIsOne DEF Typed
<1>4. Typed' BY <1>1, <1>2, <1>3 DEF Typed, States, CodeStates
<1>5. Known' = {} /\ Pending' = {} /\ Approved' = {} /\ Stored' = {} /\ ~Running'
  BY <1>1 DEF Known, Pending, Approved, Stored, Running
<1>6. ClientsHold'
  <2>1. IsFiniteSet(Known') /\ Cardinality(Pending') <= MaxPending
    BY <1>5, FS_EmptySet, OAuthAssumption
  <2> QED BY <1>1, <1>2, <1>5, <2>1 DEF ClientsHold, OneTitle
<1>7. CodesHold'
  <2>1. Stored' \subseteq Stored BY <1>5
  <2> QED BY <1>1, <2>1, KeepCodes
<1>8. ClosedHasNothing' BY <1>5 DEF ClosedHasNothing
<1>9. CASE call' = [b \in Callers |-> Resting]
  <2>1. \A b \in Callers : call'[b].pc = "idle" BY <1>9, RestingIsOne
  <2>2. \A b \in Callers : Issues(b)' /\ Approves(b)' /\ ~Owns(b)' BY <2>1, NoCall
  <2>3. OwnCodes' BY <2>2 DEF OwnCodes
  <2> QED BY <1>4, <1>6, <1>7, <1>8, <2>2, <2>3 DEF OAuthInv
<1>10. CASE call' = call /\ Close
  <2>1. codeLock \notin Callers BY <1>10, OAuthAssumption DEF Close
  <2>2. ASSUME NEW b \in Callers PROVE Issues(b)' /\ Approves(b)'
    <3>1. Issues(b) /\ ~Issuing(b) BY <2>1 DEF OAuthInv, Issues
    <3>2. Owns(b) => code'[call[b].code] = "none" BY <1>1, <3>1 DEF Issues
    <3>3. call[b].pc # "persist" BY <3>1 DEF Issuing
    <3> QED BY <1>1, <1>10, <3>1, <3>2, <3>3, KeepCall
  <2>3. OwnCodes' BY <1>10, KeepOwn DEF Owns, Issuing
  <2> QED BY <1>4, <1>6, <1>7, <1>8, <2>2, <2>3 DEF OAuthInv
<1> QED BY <1>1, <1>9, <1>10 DEF Die

LEMMA BootStep ==
  ASSUME OAuthInv, Boot
  PROVE  OAuthInv'
<1>1. /\ client' = [c \in Clients |-> IF c \in stored THEN "approved" ELSE "none"]
      /\ phase = "down" /\ phase' = "open"
      /\ UNCHANGED <<title, code, codeFor, stored, codeLock, clientLock, call, given, tokens>>
  BY DEF Boot
<1>2. Typed /\ ClientsHold /\ CodesHold /\ OwnCodes BY DEF OAuthInv
<1>3. Typed' BY <1>1, <1>2 DEF Typed, States
<1>4. Known' = stored /\ Pending' = {} /\ Approved' = stored /\ Stored' = Stored
  BY <1>1, <1>2 DEF Known, Pending, Approved, Stored, Typed
<1>5. ClientsHold'
  <2>1. Cardinality(Pending') <= MaxPending BY <1>4, FS_EmptySet, OAuthAssumption
  <2> QED BY <1>1, <1>2, <1>4, <2>1 DEF ClientsHold, OneTitle
<1>6. CodesHold' BY <1>1, <1>4, KeepCodes
<1>7. ClosedHasNothing' BY <1>1 DEF ClosedHasNothing
<1>8. ASSUME NEW b \in Callers PROVE Issues(b)' /\ Approves(b)'
  <2>1. Issues(b) /\ ~Issuing(b) BY <1>1 DEF OAuthInv, Issues, Running
  <2>2. Owns(b) => code'[call[b].code] = "none" BY <1>1, <2>1 DEF Issues
  <2>3. call[b].pc # "persist" BY <2>1 DEF Issuing
  <2> QED BY <1>1, <2>1, <2>2, <2>3, KeepCall
<1>9. OwnCodes' BY <1>1, KeepOwn DEF Owns, Issuing
<1> QED BY <1>3, <1>5, <1>6, <1>7, <1>8, <1>9 DEF OAuthInv

--------------------------------------------------------------------------------
LEMMA OAuthStarts == OAuthInit => OAuthInv
<1> SUFFICES ASSUME OAuthInit PROVE OAuthInv
  OBVIOUS
<1>1. Typed
  <2>1. call \in [Callers -> Request] BY RestingIsOne DEF OAuthInit
  <2> QED BY <2>1 DEF OAuthInit, Typed, States, CodeStates
<1>2. Known = {} /\ Pending = {} /\ Approved = {} /\ Stored = {} /\ stored = {}
  BY DEF OAuthInit, Known, Pending, Approved, Stored
<1>3. ClientsHold /\ CodesHold /\ ClosedHasNothing
  BY <1>2, FS_EmptySet, OAuthAssumption
     DEF OAuthInit, ClientsHold, CodesHold, OneTitle, CodeUsedOnce, ClosedHasNothing
<1>4. \A a \in Callers : Issues(a) /\ Approves(a) /\ ~Owns(a)
  <2>1. \A a \in Callers : call[a].pc = "idle" BY RestingIsOne DEF OAuthInit
  <2> QED BY <2>1 DEF Issues, Approves, Owns, Issuing
<1>5. OwnCodes BY <1>4 DEF OwnCodes
<1> QED BY <1>1, <1>3, <1>4, <1>5 DEF OAuthInv

LEMMA OAuthKeeps == OAuthInv /\ [OAuthNext]_oaVars => OAuthInv'
<1> SUFFICES ASSUME OAuthInv, [OAuthNext]_oaVars PROVE OAuthInv'
  OBVIOUS
<1>1. ASSUME NEW a \in Callers, NEW t \in Titles, Register(a, t) PROVE OAuthInv'
  BY <1>1, RegisterStep
<1>2. ASSUME NEW a \in Callers, NEW c \in Clients, Validate(a, c) PROVE OAuthInv'
  BY <1>2, ValidateStep
<1>3. ASSUME NEW a \in Callers, NEW k \in Codes, NEW right \in BOOLEAN, Exchange(a, k, right)
      PROVE  OAuthInv'
  BY <1>3, ExchangeStep
<1>4. ASSUME NEW a \in Callers, RequestStep(a) PROVE OAuthInv'
  BY <1>4, DrawStep, DrawRefusedStep, ApproveStep, ApproveRefusedStep, PersistStep,
     PersistFailsStep, StoreStep, TokenStep DEF RequestStep
<1>5. ASSUME \/ \E c \in Clients : ClientAges(c)
             \/ \E k \in Codes : CodeAges(k)
             \/ StopAdmission \/ CloseFirst \/ UNCHANGED oaVars
      PROVE  OAuthInv'
  BY <1>5, AgesStep
<1>6. CASE Close \/ Die BY <1>6, EmptyStep
<1>7. CASE Boot BY <1>7, BootStep
<1> QED BY <1>1, <1>2, <1>3, <1>4, <1>5, <1>6, <1>7 DEF OAuthNext, CloseStep

\* In every reachable state of the authorization server: no code was turned into
\* two tokens, the limits on pending clients and codes hold, a registration key
\* belongs to one client, a code exists only for a client whose approval is in the
\* file, no approval shows that a restart would lose, and a closed server keeps
\* nothing (register_dynamic_client, issue_authorization_response,
\* exchange_authorization_code, aclose and start of oauth/core).
THEOREM OAuthTheorem == OAuthSpec => []OAuthSound
<1>1. OAuthInv => OAuthSound
  <2> SUFFICES ASSUME OAuthInv PROVE OAuthSound
    OBVIOUS
  <2>1. OAuthTypeOK BY DEF OAuthInv, Typed, OAuthTypeOK, States, CodeStates
  <2>2. OAuthBounded
    <3>1. \A c, d \in Known : title[c] = title[d] => c = d
      BY DEF OAuthInv, ClientsHold, OneTitle
    <3> QED BY <3>1 DEF OAuthInv, ClientsHold, CodesHold, OAuthBounded
  <2>3. ApprovedIsDurable
    <3>1. clientLock = NoOne => \A c \in Approved : ~Writing(c)
      BY OAuthAssumption DEF Writing
    <3> QED BY <3>1 DEF OAuthInv, ClientsHold, CodesHold, ApprovedIsDurable
  <2> QED BY <2>1, <2>2, <2>3 DEF OAuthInv, CodesHold, OAuthSound
<1> QED BY <1>1, OAuthStarts, OAuthKeeps, PTL DEF OAuthSpec

(*****************************************************************************)
(* The MCP endpoint.                                                         *)
(*****************************************************************************)

PostPlaces == {"new", "buffering", "asking", "rejecting", "inside", "releasing", "end"}
PostRecords == [pc : PostPlaces, body : Nat, held : BOOLEAN, started : BOOLEAN, cancel : BOOLEAN]

McpTypeOK ==
  /\ post \in [Posts -> PostRecords] /\ reserved \in Nat /\ creation \in Posts \cup {FALSE}
  /\ instances \in [Posts -> {"none", "live", "terminated"}]

\* Who has a place is inside or on its way out, and a session is created from a place.
PostInv(p) ==
  /\ post[p].held => post[p].pc \in {"inside", "releasing"}
  /\ post[p].pc = "inside" /\ ~post[p].started => post[p].held
  /\ post[p].pc = "releasing" => post[p].held
  /\ post[p].body <= BodyLimit
  /\ creation = p <=> post[p].pc = "rejecting"

McpInv ==
  McpTypeOK /\ (\A p \in Posts : PostInv(p)) /\ PlacesCounted /\ CapacityHeld

LEMMA Limits == BodyLimit \in Nat /\ BodyLimit >= 0 /\ MaxMcp \in Nat /\ MaxMcp >= 1
<1>1. BodyLimit \in Nat \ {0} /\ MaxMcp \in Nat \ {0}
  BY McpSessionsAssumption
<1> QED
  BY <1>1

LEMMA NobodyIsFalse == \A p \in Posts : p # FALSE
  BY McpSessionsAssumption

LEMMA InvariantImplies == McpInv => McpSound
<1> SUFFICES ASSUME McpInv PROVE McpSound
  OBVIOUS
<1>1. BodiesBounded
  BY DEF McpInv, PostInv, BodiesBounded
<1>2. EndedHoldsNothing
  BY DEF McpInv, PostInv, EndedHoldsNothing, PostAt, Holders
<1> QED
  BY <1>1, <1>2 DEF McpInv, McpSound

LEMMA InvariantInit == McpInit => McpInv
<1> SUFFICES ASSUME McpInit PROVE McpInv
  OBVIOUS
<1>1. NewPost \in PostRecords /\ NewPost.pc = "new" /\ NewPost.held = FALSE /\ NewPost.body = 0
  BY DEF NewPost, PostRecords, PostPlaces
<1>2. McpTypeOK
  BY <1>1 DEF McpInit, McpTypeOK
<1>3. \A p \in Posts : PostInv(p)
  <2>1. ASSUME NEW p \in Posts PROVE creation # p
    BY NobodyIsFalse DEF McpInit
  <2> QED
    BY <1>1, <2>1, Limits DEF McpInit, PostInv
<1>4. Holders = {} /\ LiveSessions = {}
  BY <1>1 DEF McpInit, Holders, LiveSessions
<1>5. PlacesCounted /\ CapacityHeld
  BY <1>4, FS_EmptySet, McpSessionsAssumption DEF McpInit, PlacesCounted, CapacityHeld
<1> QED
  BY <1>2, <1>3, <1>5 DEF McpInv

--------------------------------------------------------------------------------
LEMMA FinitePlaces ==
  /\ IsFiniteSet(Holders) /\ IsFiniteSet(LiveSessions) /\ IsFiniteSet(LiveSessions \cup Holders)
  /\ Cardinality(Holders) \in Nat /\ Cardinality(LiveSessions) \in Nat
  /\ Cardinality(LiveSessions \cup Holders) \in Nat
<1>1. Holders \subseteq Posts /\ LiveSessions \subseteq Posts
  BY DEF Holders, LiveSessions
<1>2. IsFiniteSet(Holders) /\ IsFiniteSet(LiveSessions) /\ IsFiniteSet(LiveSessions \cup Holders)
  BY <1>1, FS_Subset, McpSessionsAssumption
<1> QED
  BY <1>2, FS_CardinalityType

\* Nobody gets a place or a session.
LEMMA PlacesKept ==
  ASSUME McpInv, Holders' = Holders, reserved' = reserved, LiveSessions' \subseteq LiveSessions
  PROVE  PlacesCounted' /\ CapacityHeld'
<1>1. PlacesCounted'
  BY DEF McpInv, PlacesCounted
<1>2. (LiveSessions \cup Holders)' \subseteq LiveSessions \cup Holders
  OBVIOUS
<1>3. Cardinality((LiveSessions \cup Holders)') <= Cardinality(LiveSessions \cup Holders)
      /\ Cardinality((LiveSessions \cup Holders)') \in Nat
  BY <1>2, FinitePlaces, FS_Subset, FS_CardinalityType
<1>4. CapacityHeld'
  BY <1>3, FinitePlaces, McpSessionsAssumption DEF McpInv, CapacityHeld
<1> QED
  BY <1>1, <1>4

LEMMA PostStays ==
  ASSUME McpInv, NEW p \in Posts, UNCHANGED creation,
         \A q \in Posts \ {p} : post'[q] = post[q]
  PROVE  \A q \in Posts \ {p} : PostInv(q)'
  BY DEF McpInv, PostInv

\* The end of a request that has no place.
LEMMA Ended ==
  ASSUME McpInv, NEW p \in Posts, PostEnds(p)
  PROVE  /\ post' \in [Posts -> PostRecords]
         /\ post'[p].pc = "end" /\ post'[p].held = FALSE /\ post'[p].body = 0
         /\ \A q \in Posts \ {p} : post'[q] = post[q]
         /\ Holders' = Holders \ {p}
<1> DEFINE e == [NewPost EXCEPT !.pc = "end"]
<1>1. e \in PostRecords /\ e.pc = "end" /\ e.held = FALSE /\ e.body = 0
  BY DEF NewPost, PostRecords, PostPlaces
<1>2. post' = [post EXCEPT ![p] = e]
  BY DEF PostEnds
<1> HIDE DEF e
<1>3. /\ post' \in [Posts -> PostRecords] /\ post'[p] = e
      /\ \A q \in Posts \ {p} : post'[q] = post[q]
  BY <1>1, <1>2 DEF McpInv, McpTypeOK
<1> QED
  BY <1>1, <1>3 DEF Holders

\* A request goes to another place, and keeps what it has.
LEMMA Gone ==
  ASSUME McpInv, NEW p \in Posts, NEW pc \in PostPlaces, PostGoes(p, pc)
  PROVE  /\ post' \in [Posts -> PostRecords]
         /\ post'[p].pc = pc /\ post'[p].held = post[p].held /\ post'[p].body = post[p].body
         /\ post'[p].started = post[p].started
         /\ \A q \in Posts \ {p} : post'[q] = post[q]
         /\ Holders' = Holders
<1>1. /\ post' \in [Posts -> PostRecords]
      /\ post'[p].pc = pc /\ post'[p].held = post[p].held /\ post'[p].body = post[p].body
      /\ post'[p].started = post[p].started
      /\ \A q \in Posts \ {p} : post'[q] = post[q]
  BY DEF PostGoes, McpInv, McpTypeOK, PostRecords
<1> QED
  BY <1>1 DEF Holders

\* A step that gives nobody a place, and leaves the lock where it is or with p.
LEMMA Settled ==
  ASSUME McpInv, NEW p \in Posts,
         post' \in [Posts -> PostRecords], \A q \in Posts \ {p} : post'[q] = post[q],
         PostInv(p)',
         creation' \in Posts \cup {FALSE},
         \A q \in Posts \ {p} : creation' = q <=> creation = q,
         instances' \in [Posts -> {"none", "live", "terminated"}],
         Holders' = Holders, UNCHANGED reserved, LiveSessions' \subseteq LiveSessions
  PROVE  McpInv'
<1>1. PlacesCounted' /\ CapacityHeld'
  BY PlacesKept
<1>2. \A q \in Posts : PostInv(q)'
  BY DEF McpInv, PostInv
<1> QED
  BY <1>1, <1>2 DEF McpInv, McpTypeOK

\* A request ends that has neither a place nor the lock.
LEMMA EndsFree ==
  ASSUME McpInv, NEW p \in Posts, PostEnds(p), ~post[p].held, post[p].pc # "rejecting",
         UNCHANGED <<reserved, creation, instances>>
  PROVE  McpInv'
<1>1. Holders' = Holders
  BY Ended DEF Holders
<1>2. PostInv(p)'
  <2>1. /\ post'[p].pc = "end" /\ post'[p].held = FALSE /\ post'[p].body = 0
    BY Ended
  <2>2. creation' # p
    BY DEF McpInv, PostInv
  <2> QED
    BY <2>1, <2>2, Limits DEF PostInv
<1> QED
  BY <1>1, <1>2, Ended, Settled DEF McpInv, McpTypeOK, LiveSessions

\* A rejected request ends, and gives the lock up.
LEMMA UnlocksAndEnds ==
  ASSUME McpInv, NEW p \in Posts, post[p].pc = "rejecting", PostEnds(p), creation' = FALSE,
         UNCHANGED <<reserved, instances>>
  PROVE  McpInv'
<1>1. ~post[p].held /\ creation = p
  BY DEF McpInv, PostInv
<1>2. Holders' = Holders
  BY <1>1, Ended DEF Holders
<1>3. PostInv(p)'
  <2>1. /\ post'[p].pc = "end" /\ post'[p].held = FALSE /\ post'[p].body = 0
    BY Ended
  <2>2. creation' # p
    BY NobodyIsFalse
  <2> QED
    BY <2>1, <2>2, Limits DEF PostInv
<1>4. \A q \in Posts \ {p} : creation' = q <=> creation = q
  BY <1>1, McpSessionsAssumption
<1> QED
  BY <1>2, <1>3, <1>4, Ended, Settled DEF McpInv, McpTypeOK, LiveSessions

LEMMA Advances ==
  ASSUME McpInv, NEW p \in Posts, NEW pc \in {"buffering", "asking", "releasing"},
         PostGoes(p, pc), pc = "releasing" <=> post[p].held, post[p].pc # "rejecting",
         UNCHANGED <<reserved, creation, instances>>
  PROVE  McpInv'
<1>1. PostInv(p)'
  BY Gone DEF PostInv, McpInv, PostPlaces
<1> QED
  BY <1>1, Gone, Settled DEF McpInv, McpTypeOK, LiveSessions, PostPlaces

LEMMA Leaves ==
  ASSUME McpInv, NEW p \in Posts, post[p].pc = "inside", LeaveInside(p),
         UNCHANGED <<reserved, creation, instances>>
  PROVE  McpInv'
<1>1. CASE post[p].held
  BY <1>1, Advances DEF LeaveInside
<1>2. CASE ~post[p].held
  BY <1>2, EndsFree DEF LeaveInside
<1> QED
  BY <1>1, <1>2

\* The place of a request is counted with the lock held, and given back once.
LEMMA StepOfPlace ==
  ASSUME McpInv, NEW p \in Posts, AskForPlace(p) \/ Rejected(p) \/ Release(p)
  PROVE  McpInv'
<1> USE DEF PostAt
<1>1. CASE AskForPlace(p)
  <2>1. /\ post[p].pc = "asking" /\ creation = FALSE /\ ~post[p].held
    BY <1>1 DEF AskForPlace, McpInv, PostInv
  <2>2. instances' \in [Posts -> {"none", "live", "terminated"}] /\ LiveSessions' = LiveSessions
    BY <1>1 DEF AskForPlace, WithoutTerminated, LiveSessions, McpInv, McpTypeOK
  <2>3. CASE Occupied >= MaxMcp
    <3>1. PostGoes(p, "rejecting") /\ creation' = p /\ UNCHANGED reserved
      BY <1>1, <2>3 DEF AskForPlace
    <3>2. PostInv(p)'
      BY <2>1, <3>1, Gone DEF PostInv, McpInv, PostPlaces
    <3>3. \A q \in Posts \ {p} : creation' = q <=> creation = q
      BY <2>1, <3>1, McpSessionsAssumption
    <3> QED
      BY <2>2, <3>1, <3>2, <3>3, Gone, Settled DEF PostPlaces
  <2>4. CASE ~(Occupied >= MaxMcp)
    <3>1. /\ post' = [post EXCEPT ![p].pc = "inside", ![p].held = TRUE]
          /\ reserved' = reserved + 1 /\ UNCHANGED creation
      BY <1>1, <2>4 DEF AskForPlace
    <3> DEFINE mid == [post[p] EXCEPT !.pc = "inside"]
               new == [mid EXCEPT !.held = TRUE]
    <3>2. mid \in PostRecords /\ mid.pc = "inside" /\ mid.body = post[p].body
      BY DEF McpInv, McpTypeOK, PostRecords, PostPlaces
    <3>3. new \in PostRecords /\ new.pc = "inside" /\ new.held = TRUE /\ new.body = post[p].body
      <4> HIDE DEF mid
      <4> QED
        BY <3>2 DEF PostRecords
    <3>4. post' = [post EXCEPT ![p] = new]
      BY <3>1 DEF McpInv, McpTypeOK
    <3> HIDE DEF new, mid
    <3>5. /\ post' \in [Posts -> PostRecords] /\ post'[p] = new
          /\ \A q \in Posts \ {p} : post'[q] = post[q]
      BY <3>3, <3>4 DEF McpInv, McpTypeOK
    <3>6. Holders' = Holders \cup {p} /\ p \notin Holders
      BY <2>1, <3>3, <3>5 DEF Holders
    <3>7. Cardinality(Holders') = Cardinality(Holders) + 1
      BY <3>6, FinitePlaces, FS_AddElement
    <3>8. PlacesCounted'
      BY <3>1, <3>7 DEF PlacesCounted, McpInv
    <3>9. CapacityHeld'
      <4>1. (LiveSessions \cup Holders)' = (LiveSessions \cup Holders) \cup {p}
        BY <2>2, <3>6
      <4>2. Cardinality((LiveSessions \cup Holders)') <= Cardinality(LiveSessions \cup Holders) + 1
        <5>1. Cardinality((LiveSessions \cup Holders) \cup {p})
                <= Cardinality(LiveSessions \cup Holders) + 1
          BY FinitePlaces, FS_AddElement
        <5> QED
          BY <4>1, <5>1
      <4>3. Cardinality(LiveSessions \cup Holders) <= Cardinality(LiveSessions) + Cardinality(Holders)
        <5>1. Cardinality(LiveSessions \cup Holders)
                = Cardinality(LiveSessions) + Cardinality(Holders) - Cardinality(LiveSessions \cap Holders)
          BY FinitePlaces, FS_Union
        <5>2. Cardinality(LiveSessions \cap Holders) \in Nat
          BY FinitePlaces, FS_Intersection, FS_CardinalityType
        <5> QED
          BY <5>1, <5>2, FinitePlaces
      <4>4. Cardinality(LiveSessions) + Cardinality(Holders) < MaxMcp
        BY <2>4, FinitePlaces, McpSessionsAssumption DEF Occupied, McpInv, PlacesCounted
      <4>5. Cardinality((LiveSessions \cup Holders)') \in Nat
        BY <4>1, FinitePlaces, FS_AddElement, FS_CardinalityType
      <4> QED
        BY <4>2, <4>3, <4>4, <4>5, FinitePlaces, McpSessionsAssumption DEF CapacityHeld
    <3>10. ASSUME NEW q \in Posts PROVE PostInv(q)'
      <4>1. CASE q = p
        <5>1. creation' # p
          BY <2>1, <3>1, NobodyIsFalse
        <5> QED
          BY <3>3, <3>5, <4>1, <5>1 DEF PostInv, McpInv
      <4>2. CASE q # p
        BY <3>1, <3>5, <4>2 DEF PostInv, McpInv
      <4> QED
        BY <4>1, <4>2
    <3>11. McpTypeOK'
      <4>1. reserved' \in Nat
        BY <3>1 DEF McpInv, McpTypeOK
      <4> QED
        BY <2>2, <3>1, <3>5, <4>1, Zenon DEF McpInv, McpTypeOK
    <3> QED
      BY <3>8, <3>9, <3>10, <3>11 DEF McpInv
  <2> QED
    BY <2>3, <2>4
<1>2. CASE Rejected(p)
  BY <1>2, UnlocksAndEnds DEF Rejected
<1>3. CASE Release(p)
  <2>1. post[p].held /\ p \in Holders /\ post[p].pc = "releasing" /\ creation = FALSE
        /\ UNCHANGED <<creation, instances>>
    BY <1>3 DEF Release, McpInv, PostInv, Holders
  <2>2. /\ post' \in [Posts -> PostRecords] /\ ~post'[p].held
        /\ post'[p].pc \in {"end", "inside"} /\ post'[p].body \in {0, post[p].body}
        /\ post'[p].pc = "inside" => post'[p].started
        /\ \A q \in Posts \ {p} : post'[q] = post[q]
    <3>1. CASE PostEnds(p)
      BY <3>1, Ended
    <3>2. CASE post[p].started /\ post' = [post EXCEPT ![p].pc = "inside", ![p].held = FALSE]
      <4> DEFINE mid == [post[p] EXCEPT !.pc = "inside"]
                 new == [mid EXCEPT !.held = FALSE]
      <4>1. mid \in PostRecords /\ mid.pc = "inside" /\ mid.body = post[p].body /\ mid.started = post[p].started
        BY DEF McpInv, McpTypeOK, PostRecords, PostPlaces
      <4>2. new \in PostRecords /\ new.pc = "inside" /\ new.held = FALSE /\ new.body = post[p].body
            /\ new.started = post[p].started
        <5> HIDE DEF mid
        <5> QED
          BY <4>1 DEF PostRecords
      <4>3. post' = [post EXCEPT ![p] = new]
        BY <3>2 DEF McpInv, McpTypeOK
      <4> HIDE DEF new, mid
      <4> QED
        BY <3>2, <4>2, <4>3 DEF McpInv, McpTypeOK
    <3> QED
      BY <1>3, <3>1, <3>2 DEF Release
  <2>3. Holders' = Holders \ {p}
    BY <2>2 DEF Holders
  <2>4. Cardinality(Holders') = Cardinality(Holders) - 1 /\ Cardinality(Holders) >= 1
        /\ Cardinality(Holders') \in Nat
    <3>1. Cardinality(Holders') = Cardinality(Holders) - 1 /\ IsFiniteSet(Holders')
      BY <2>1, <2>3, FinitePlaces, FS_RemoveElement
    <3> QED
      BY <3>1, FinitePlaces, FS_CardinalityType
  <2>5. reserved' = reserved - 1
    BY <1>3, <2>4 DEF Release, McpInv, PlacesCounted
  <2>6. PlacesCounted' /\ reserved' \in Nat
    BY <2>4, <2>5 DEF McpInv, PlacesCounted
  <2>7. CapacityHeld'
    <3>1. (LiveSessions \cup Holders)' \subseteq LiveSessions \cup Holders
      BY <2>1, <2>3 DEF LiveSessions
    <3>2. Cardinality((LiveSessions \cup Holders)') <= Cardinality(LiveSessions \cup Holders)
          /\ Cardinality((LiveSessions \cup Holders)') \in Nat
      BY <3>1, FinitePlaces, FS_Subset, FS_CardinalityType
    <3> QED
      BY <3>2, FinitePlaces, McpSessionsAssumption DEF McpInv, CapacityHeld
  <2>8. \A q \in Posts : PostInv(q)'
    BY <2>1, <2>2, McpSessionsAssumption DEF PostInv, McpInv
  <2>9. McpTypeOK'
    BY <2>1, <2>2, <2>6 DEF McpInv, McpTypeOK
  <2> QED
    BY <2>6, <2>7, <2>8, <2>9 DEF McpInv
<1> QED
  BY <1>1, <1>2, <1>3

LEMMA StepOfRequest ==
  ASSUME McpInv, NEW p \in Posts,
         Arrive(p) \/ BodyChunk(p) \/ Buffered(p) \/ SdkAnswers(p) \/ SdkReturns(p) \/ CancelPost(p)
  PROVE  McpInv'
<1> USE DEF PostAt
<1>1. CASE Arrive(p)
  <2>1. post[p].pc = "new" /\ ~post[p].held
    BY <1>1 DEF Arrive, McpInv, PostInv
  <2> QED
    BY <1>1, <2>1, Advances, EndsFree DEF Arrive
<1>2. CASE BodyChunk(p)
  <2>1. post[p].pc = "buffering" /\ ~post[p].held /\ UNCHANGED <<reserved, creation, instances>>
    BY <1>2 DEF BodyChunk, McpInv, PostInv
  <2>2. CASE Within(post[p].body + 1)
    <3> DEFINE new == [post[p] EXCEPT !.body = @ + 1]
    <3>1. post' = [post EXCEPT ![p] = new]
      BY <1>2, <2>2 DEF BodyChunk, McpInv, McpTypeOK
    <3>2. new \in PostRecords /\ new.pc = "buffering" /\ ~new.held /\ new.body <= BodyLimit
      BY <2>1, <2>2 DEF McpInv, McpTypeOK, PostRecords, Within
    <3> HIDE DEF new
    <3>3. /\ post' \in [Posts -> PostRecords] /\ post'[p] = new
          /\ \A q \in Posts \ {p} : post'[q] = post[q]
      BY <3>1, <3>2 DEF McpInv, McpTypeOK
    <3>4. Holders' = Holders
      BY <2>1, <3>2, <3>3 DEF Holders
    <3>5. PostInv(p)'
      BY <2>1, <3>2, <3>3 DEF PostInv, McpInv
    <3> QED
      BY <2>1, <3>3, <3>4, <3>5, Settled DEF McpInv, McpTypeOK, LiveSessions
  <2> QED
    BY <1>2, <2>1, <2>2, EndsFree DEF BodyChunk
<1>3. CASE Buffered(p)
  <2>1. post[p].pc = "buffering" /\ ~post[p].held
    BY <1>3 DEF Buffered, McpInv, PostInv
  <2> QED
    BY <1>3, <2>1, Advances DEF Buffered
<1>4. CASE SdkAnswers(p)
  <2>1. post[p].pc = "inside" /\ post[p].held /\ UNCHANGED <<reserved, creation, instances>>
    BY <1>4 DEF SdkAnswers, McpInv, PostInv
  <2> DEFINE mid == [post[p] EXCEPT !.pc = "releasing"]
             new == [mid EXCEPT !.started = TRUE]
  <2>2. mid \in PostRecords /\ mid.pc = "releasing" /\ mid.body = post[p].body /\ mid.held
    BY <2>1 DEF McpInv, McpTypeOK, PostRecords, PostPlaces
  <2>3. new \in PostRecords /\ new.pc = "releasing" /\ new.held /\ new.body = post[p].body
    <3> HIDE DEF mid
    <3> QED
      BY <2>2 DEF PostRecords
  <2>4. post' = [post EXCEPT ![p] = new]
    BY <1>4 DEF SdkAnswers, McpInv, McpTypeOK
  <2> HIDE DEF new, mid
  <2>5. /\ post' \in [Posts -> PostRecords] /\ post'[p] = new
        /\ \A q \in Posts \ {p} : post'[q] = post[q]
    BY <2>3, <2>4 DEF McpInv, McpTypeOK
  <2>6. Holders' = Holders
    BY <2>1, <2>3, <2>5 DEF Holders
  <2>7. PostInv(p)'
    BY <2>1, <2>3, <2>5 DEF PostInv, McpInv
  <2> QED
    BY <2>1, <2>5, <2>6, <2>7, Settled DEF McpInv, McpTypeOK, LiveSessions
<1>5. CASE SdkReturns(p)
  BY <1>5, Leaves DEF SdkReturns
<1>6. CASE CancelPost(p)
  <2>1. UNCHANGED <<reserved, instances>>
    BY <1>6 DEF CancelPost
  <2>2. CASE post[p].pc = "inside"
    BY <1>6, <2>2, Leaves DEF CancelPost
  <2>3. CASE post[p].pc = "releasing"
    <3> DEFINE new == [post[p] EXCEPT !.cancel = TRUE]
    <3>1. post' = [post EXCEPT ![p] = new] /\ creation' = creation
      BY <1>6, <2>3 DEF CancelPost, McpInv, McpTypeOK
    <3>2. new \in PostRecords /\ new.pc = post[p].pc /\ new.held = post[p].held /\ new.body = post[p].body
      BY DEF McpInv, McpTypeOK, PostRecords
    <3> HIDE DEF new
    <3>3. /\ post' \in [Posts -> PostRecords] /\ post'[p] = new
          /\ \A q \in Posts \ {p} : post'[q] = post[q]
      BY <3>1, <3>2 DEF McpInv, McpTypeOK
    <3>4. Holders' = Holders
      BY <3>2, <3>3 DEF Holders
    <3>5. PostInv(p)'
      BY <2>3, <3>1, <3>2, <3>3 DEF PostInv, McpInv
    <3> QED
      BY <2>1, <3>1, <3>3, <3>4, <3>5, Settled DEF McpInv, McpTypeOK, LiveSessions
  <2>4. CASE post[p].pc = "rejecting"
    BY <1>6, <2>4, UnlocksAndEnds DEF CancelPost
  <2>5. CASE post[p].pc \in {"buffering", "asking"}
    <3>1. PostEnds(p) /\ creation' = creation
      BY <1>6, <2>5 DEF CancelPost
    <3>2. ~post[p].held
      BY <2>5 DEF McpInv, PostInv
    <3> QED
      BY <2>1, <2>5, <3>1, <3>2, EndsFree
  <2>6. post[p].pc \in PostPlaces
    BY DEF McpInv, McpTypeOK, PostRecords
  <2> QED
    BY <1>6, <2>2, <2>3, <2>4, <2>5, <2>6 DEF CancelPost, PostPlaces
<1> QED
  BY <1>1, <1>2, <1>3, <1>4, <1>5, <1>6

\* A session is created where its request has a place.
LEMMA StepOfSdk ==
  ASSUME McpInv, NEW p \in Posts, SdkCreates(p) \/ SdkTerminates(p)
  PROVE  McpInv'
<1>1. UNCHANGED <<post, reserved, creation>> /\ Holders' = Holders
      /\ instances' \in [Posts -> {"none", "live", "terminated"}]
  BY DEF SdkCreates, SdkTerminates, Holders, McpInv, McpTypeOK
<1>2. PlacesCounted' /\ CapacityHeld'
  <2>1. CASE SdkCreates(p)
    <3>1. p \in Holders
      BY <2>1 DEF SdkCreates, PostAt, McpInv, PostInv, Holders
    <3>2. LiveSessions' = LiveSessions \cup {p}
      BY <2>1 DEF SdkCreates, LiveSessions, McpInv, McpTypeOK
    <3>3. (LiveSessions \cup Holders)' = LiveSessions \cup Holders
      BY <1>1, <3>1, <3>2
    <3> QED
      BY <1>1, <3>3 DEF McpInv, PlacesCounted, CapacityHeld
  <2>2. CASE SdkTerminates(p)
    <3>1. LiveSessions' \subseteq LiveSessions
      BY <2>2 DEF SdkTerminates, LiveSessions, McpInv, McpTypeOK
    <3> QED
      BY <1>1, <3>1, PlacesKept
  <2> QED
    BY <2>1, <2>2
<1>3. \A q \in Posts : PostInv(q)'
  BY <1>1 DEF McpInv, PostInv
<1> QED
  BY <1>1, <1>2, <1>3 DEF McpInv, McpTypeOK

LEMMA InvariantStep == McpInv /\ [McpNext]_msVars => McpInv'
<1> SUFFICES ASSUME McpInv, [McpNext]_msVars PROVE McpInv'
  OBVIOUS
<1>1. CASE UNCHANGED msVars
  BY <1>1 DEF msVars, McpInv, McpTypeOK, PostInv, PlacesCounted, CapacityHeld, Holders, LiveSessions
<1> QED
  BY <1>1, StepOfPlace, StepOfRequest, StepOfSdk DEF McpNext, PostStep

\* Places are counted once from admission to release, no more sessions run or are being
\* created than are allowed, no body is over the limit, and a request that ended has
\* nothing, wherever requests fail or are cancelled.
THEOREM McpTheorem == McpSpec => []McpSound
<1>1. McpSpec => []McpInv
  BY InvariantInit, InvariantStep, PTL DEF McpSpec
<1> QED
  BY <1>1, InvariantImplies, PTL

(*****************************************************************************)
(* The agent's credentials.                                                  *)
(*****************************************************************************)

\* What the file, a draft, a session and a command can be.
CredStores == [damaged : BOOLEAN, secrets : SUBSET CredSecrets, tokens : TokenPairs,
               expires : Nat, client : BOOLEAN, metadata : BOOLEAN]
FlowKinds == {"set_tokens", "set_client_info", "set_metadata", "clear_tokens"}
AdminKinds == {"set_secret", "delete_secret", "clear_oauth"}
CredEdits == [op : FlowKinds \cup AdminKinds \cup {"none"}, tokens : TokenPairs,
              secret : CredSecrets \cup {0}]
FlowPlaces == {"new", "check", "tokens", "expiry", "ready", "refresh", "stored", "sent",
               "asked", "consent", "edit", "end"}
CredSessions ==
  [kind : {"call", "login"}, at : FlowPlaces, tokens : TokenPairs, expires : Nat,
   client : BOOLEAN, metadata : BOOLEAN, callback : {"open", "code", "error", "used"},
   consent : BOOLEAN, edit : CredEdits, next : {"stored", "sent", "asked", "end"}]
CredCommands == [at : {"idle", "revoke", "edit"}, edit : CredEdits, left : Nat]

\* A session edits tokens, client and metadata only, and a code in its hands is its user's.
FlowFine(m) ==
  /\ m \in CredSessions
  /\ m.at = "edit" => m.edit.op \in FlowKinds
  /\ m.callback = "code" => m.consent
\* The administrator edits secrets that exist, or removes what OAuth stored.
CommandFine(c) ==
  /\ c \in CredCommands
  /\ c.at = "edit" => /\ c.edit.op \in AdminKinds
                      /\ c.edit.op # "clear_oauth" => c.edit.secret \in CredSecrets
\* Under the lock, what was read is what is there.
DraftsAgree ==
  \A a \in Writers : draft[a] # NoDraft =>
    /\ draft[a] = creds /\ ~creds.damaged
    /\ \A b \in Writers : b # a => draft[b] = NoDraft
CredFile ==
  /\ creds \in CredStores /\ draft \in [Writers -> CredStores] /\ kept \in SUBSET CredSecrets
  /\ DraftsAgree /\ ExpiryOfToken /\ SecretsKept
CredPeople ==
  /\ flow \in [CredFlows -> CredSessions] /\ \A f \in CredFlows : FlowFine(flow[f])
  /\ CommandFine(cmd)
CredServer ==
  server \in [issued : 0..MaxTokens, unasked : BOOLEAN] /\ OnlyConsented
CredInv == CredFile /\ CredPeople /\ CredServer

LEMMA CredConstants ==
  /\ MaxFlows \in Nat /\ MaxTokens \in Nat \ {0} /\ Admin \notin CredFlows
  /\ Writers = CredFlows \cup {Admin} /\ Admin = 0
BY CredentialsAssumption, SMT DEF CredentialsAssumption, CredFlows, Writers, Admin

\* The values that definitions give are typed.
LEMMA CredValues ==
  /\ NoTokens \in TokenPairs /\ NoOp \in CredEdits /\ NoOp.op = "none"
  /\ EmptyStore \in CredStores /\ ~EmptyStore.damaged
  /\ NoDraft \in CredStores /\ NoDraft.damaged
<1>1. MaxTokens \in Nat BY CredConstants
<1>2. NoTokens \in TokenPairs BY <1>1, SMT DEF NoTokens, TokenPairs
<1>3. NoOp \in CredEdits /\ NoOp.op = "none" BY <1>2, SMT DEF NoOp, CredEdits
<1>4. EmptyStore \in CredStores /\ ~EmptyStore.damaged BY <1>2, SMT DEF EmptyStore, CredStores
<1>5. NoDraft = [damaged |-> TRUE, secrets |-> {}, tokens |-> NoTokens, expires |-> 0,
                 client |-> FALSE, metadata |-> FALSE]
  <2>1. ASSUME NEW v \in BOOLEAN, NEW w \in BOOLEAN, v = TRUE, w = FALSE,
               NEW p
        PROVE  [[damaged |-> w, secrets |-> {}, tokens |-> p, expires |-> 0, client |-> w,
                 metadata |-> w] EXCEPT !.damaged = v]
               = [damaged |-> v, secrets |-> {}, tokens |-> p, expires |-> 0, client |-> w,
                  metadata |-> w]
    BY SMT
  <2> QED BY <2>1, Zenon DEF NoDraft, EmptyStore
<1>6. NoDraft.damaged BY <1>5
<1>7. NoDraft \in CredStores BY <1>2, <1>5, SMT DEF CredStores
<1> QED BY <1>2, <1>3, <1>4, <1>6, <1>7

\* Operations are typed, and those with no tokens or secret keep those of NoOp.
LEMMA OpFine ==
  ASSUME NEW k \in FlowKinds \cup AdminKinds
  PROVE  Op(k) \in CredEdits /\ Op(k).op = k
BY CredValues, SMT DEF Op, NoOp, CredEdits, FlowKinds, AdminKinds

LEMMA NewFlowFine ==
  ASSUME NEW k \in {"call", "login"}
  PROVE  NewFlow(k) \in CredSessions /\ NewFlow(k).callback = "open" /\ NewFlow(k).at = "new"
<1>1. NoTokens \in TokenPairs /\ NoOp \in CredEdits BY CredValues
<1> QED BY <1>1, SMT DEF NewFlow, CredSessions, FlowPlaces

\* One or two fields of a file are changed, the others kept.
LEMMA StoreFlags ==
  ASSUME NEW s \in CredStores, NEW v \in BOOLEAN
  PROVE  /\ [s EXCEPT !.client = v] \in CredStores /\ [s EXCEPT !.metadata = v] \in CredStores
         /\ [s EXCEPT !.client = v].client = v /\ [s EXCEPT !.client = v].metadata = s.metadata
         /\ [s EXCEPT !.metadata = v].metadata = v /\ [s EXCEPT !.metadata = v].client = s.client
         /\ [s EXCEPT !.client = v].damaged = s.damaged
         /\ [s EXCEPT !.metadata = v].damaged = s.damaged
<1>1. [s EXCEPT !.client = v] \in CredStores BY SMT DEF CredStores
<1>2. [s EXCEPT !.metadata = v] \in CredStores BY SMT DEF CredStores
<1>3. [s EXCEPT !.client = v].client = v BY SMT DEF CredStores
<1>4. [s EXCEPT !.client = v].metadata = s.metadata BY SMT DEF CredStores
<1>5. [s EXCEPT !.metadata = v].metadata = v BY SMT DEF CredStores
<1>6. [s EXCEPT !.metadata = v].client = s.client BY SMT DEF CredStores
<1>7. [s EXCEPT !.client = v].damaged = s.damaged BY SMT DEF CredStores
<1>8. [s EXCEPT !.metadata = v].damaged = s.damaged BY SMT DEF CredStores
<1> QED BY <1>1, <1>2, <1>3, <1>4, <1>5, <1>6, <1>7, <1>8

LEMMA StoreDamage ==
  ASSUME NEW s \in CredStores, NEW v \in BOOLEAN
  PROVE  [s EXCEPT !.damaged = v] \in CredStores
BY SMT DEF CredStores

WithTokens(s, p, e) == [s EXCEPT !.tokens = p, !.expires = e]
LEMMA StoreTokens ==
  ASSUME NEW s \in CredStores, NEW p \in TokenPairs, NEW e \in Nat,
         NEW t, t = WithTokens(s, p, e)
  PROVE  /\ t \in CredStores /\ t.tokens = p /\ t.expires = e /\ t.secrets = s.secrets
         /\ t.client = s.client /\ t.metadata = s.metadata /\ t.damaged = s.damaged
<1>1. [s EXCEPT !.tokens = p] \in CredStores BY SMT DEF CredStores
<1>2. PICK u \in CredStores : u = [s EXCEPT !.tokens = p] BY <1>1
<1>3. [u EXCEPT !.expires = e] \in CredStores BY SMT DEF CredStores
<1>4. t = [u EXCEPT !.expires = e] BY <1>2, Zenon DEF WithTokens
<1>5. t.tokens = p /\ t.expires = e /\ t.secrets = s.secrets BY SMT DEF CredStores, WithTokens
<1>6. t.client = s.client BY SMT DEF CredStores, WithTokens
<1>7. t.metadata = s.metadata BY SMT DEF CredStores, WithTokens
<1>8. t.damaged = s.damaged BY SMT DEF CredStores, WithTokens
<1> QED BY <1>3, <1>4, <1>5, <1>6, <1>7, <1>8

LEMMA StoreSecrets ==
  ASSUME NEW s \in CredStores, NEW n \in SUBSET CredSecrets,
         NEW t, t = [s EXCEPT !.secrets = n]
  PROVE  /\ t \in CredStores /\ t.tokens = s.tokens /\ t.expires = s.expires /\ t.secrets = n
         /\ t.client = s.client /\ t.metadata = s.metadata /\ t.damaged = s.damaged
<1>1. t \in CredStores BY SMT DEF CredStores
<1>2. t.tokens = s.tokens /\ t.expires = s.expires /\ t.secrets = n BY SMT DEF CredStores
<1>3. t.client = s.client BY SMT DEF CredStores
<1>4. t.metadata = s.metadata BY SMT DEF CredStores
<1>5. t.damaged = s.damaged BY SMT DEF CredStores
<1> QED BY <1>1, <1>2, <1>3, <1>4, <1>5

\* What each edit of a session makes of a readable file: its expiry remains that of its
\* token, its secrets remain, and only a refused refresh takes its refresh token.
LEMMA FlowEdits ==
  ASSUME NEW s \in CredStores, NEW o \in CredEdits, o.op \in FlowKinds, ~s.damaged,
         s.expires = s.tokens.access
  PROVE  /\ Apply(o, s) \in CredStores /\ Apply(o, s).expires = Apply(o, s).tokens.access
         /\ Apply(o, s).secrets = s.secrets /\ ~Apply(o, s).damaged
         /\ s.client => Apply(o, s).client
         /\ s.metadata => Apply(o, s).metadata
         /\ s.tokens.refresh # 0 /\ Apply(o, s).tokens.refresh = 0 => o.op = "clear_tokens"
<1>0. /\ NoTokens \in TokenPairs /\ NoTokens.access = 0 /\ 0 \in Nat
      /\ TRUE \in BOOLEAN /\ s.damaged \in BOOLEAN /\ s.client \in BOOLEAN /\ s.metadata \in BOOLEAN
  BY CredValues, SMT DEF NoTokens, CredStores
<1>1. CASE o.op = "set_tokens"
  <2> DEFINE pair == [o.tokens EXCEPT !.refresh = IF @ = 0 THEN s.tokens.refresh ELSE @]
  <2>1. o.tokens \in TokenPairs /\ s.tokens \in TokenPairs BY SMT DEF CredEdits, CredStores
  <2>2. /\ pair \in TokenPairs /\ pair.access = o.tokens.access
        /\ s.tokens.refresh # 0 => pair.refresh # 0
        /\ o.tokens.access \in Nat
    BY <2>1, CredConstants, SMT DEF TokenPairs
  <2>3. PICK t : t = Apply(o, s) OBVIOUS
  <2>4. t = [s EXCEPT !.tokens = pair, !.expires = o.tokens.access]
    BY <1>1, <2>3 DEF Apply, SetTokens
  <2> HIDE DEF pair
  <2>5. PICK p \in TokenPairs, e \in Nat : p = pair /\ e = o.tokens.access BY <2>2
  <2>6. t = WithTokens(s, p, e) BY <2>4, <2>5 DEF WithTokens
  <2>7. /\ t \in CredStores /\ t.tokens = p /\ t.expires = e /\ t.secrets = s.secrets
        /\ t.client = s.client /\ t.metadata = s.metadata /\ t.damaged = s.damaged
    BY <2>5, <2>6, StoreTokens
  <2> QED BY <2>2, <2>3, <2>5, <2>7
<1>2. CASE o.op = "set_client_info"
  <2>1. PICK t : t = Apply(o, s) OBVIOUS
  <2>2. t = [s EXCEPT !.client = TRUE] BY <1>2, <2>1 DEF Apply, SetClientInfo
  <2>3. /\ t \in CredStores /\ t.client = TRUE /\ t.metadata = s.metadata /\ t.damaged = s.damaged
    BY <2>2, <1>0, StoreFlags
  <2>4. t.tokens = s.tokens /\ t.expires = s.expires /\ t.secrets = s.secrets
    BY <2>2, SMT DEF CredStores
  <2> QED BY <2>1, <2>3, <2>4
<1>3. CASE o.op = "set_metadata"
  <2>1. PICK t : t = Apply(o, s) OBVIOUS
  <2>2. t = [s EXCEPT !.metadata = TRUE] BY <1>3, <2>1 DEF Apply, SetMetadata
  <2>3. /\ t \in CredStores /\ t.metadata = TRUE /\ t.client = s.client /\ t.damaged = s.damaged
    BY <2>2, <1>0, StoreFlags
  <2>4. t.tokens = s.tokens /\ t.expires = s.expires /\ t.secrets = s.secrets
    BY <2>2, SMT DEF CredStores
  <2> QED BY <2>1, <2>3, <2>4
<1>4. CASE o.op = "clear_tokens"
  <2>1. PICK t : t = Apply(o, s) OBVIOUS
  <2>2. t = [s EXCEPT !.tokens = NoTokens, !.expires = 0] BY <1>4, <2>1 DEF Apply, ClearTokens
  <2>4. PICK p \in TokenPairs, e \in Nat : p = NoTokens /\ e = 0 BY <1>0
  <2>5. t = WithTokens(s, p, e) BY <2>2, <2>4 DEF WithTokens
  <2>3. /\ t \in CredStores /\ t.tokens = p /\ t.expires = e /\ t.secrets = s.secrets
        /\ t.client = s.client /\ t.metadata = s.metadata /\ t.damaged = s.damaged
    BY <2>4, <2>5, StoreTokens
  <2> QED BY <2>1, <2>3, <2>4, <1>0, <1>4
<1> QED BY <1>1, <1>2, <1>3, <1>4 DEF FlowKinds

\* What each edit of the administrator makes of it.
LEMMA AdminEdits ==
  ASSUME NEW s \in CredStores, NEW o \in CredEdits, o.op \in AdminKinds, ~s.damaged,
         o.op # "clear_oauth" => o.secret \in CredSecrets, s.expires = s.tokens.access
  PROVE  /\ Apply(o, s) \in CredStores /\ Apply(o, s).expires = Apply(o, s).tokens.access
         /\ ~Apply(o, s).damaged
         /\ Apply(o, s).secrets = CASE o.op = "set_secret" -> s.secrets \union {o.secret}
                                    [] o.op = "delete_secret" -> s.secrets \ {o.secret}
                                    [] OTHER -> s.secrets
         /\ o.op # "clear_oauth" => /\ s.client => Apply(o, s).client
                                    /\ s.metadata => Apply(o, s).metadata
                                    /\ Apply(o, s).tokens = s.tokens
<1>1. CASE o.op = "set_secret"
  <2>1. PICK t : t = Apply(o, s) OBVIOUS
  <2>2. t = [s EXCEPT !.secrets = s.secrets \union {o.secret}] BY <1>1, <2>1 DEF Apply, SetSecret
  <2>3. PICK n : n = s.secrets \union {o.secret} OBVIOUS
  <2>4. n \in SUBSET CredSecrets BY <1>1, <2>3, SMT DEF CredStores
  <2>5. /\ t \in CredStores /\ t.tokens = s.tokens /\ t.expires = s.expires /\ t.secrets = n
        /\ t.client = s.client /\ t.metadata = s.metadata /\ t.damaged = s.damaged
    BY <2>2, <2>3, <2>4, StoreSecrets
  <2> QED BY <2>1, <2>3, <2>5, <1>1
<1>2. CASE o.op = "delete_secret"
  <2>1. PICK t : t = Apply(o, s) OBVIOUS
  <2>2. t = [s EXCEPT !.secrets = s.secrets \ {o.secret}] BY <1>2, <2>1 DEF Apply, DeleteSecret
  <2>3. PICK n : n = s.secrets \ {o.secret} OBVIOUS
  <2>4. n \in SUBSET CredSecrets BY <2>3, SMT DEF CredStores
  <2>5. /\ t \in CredStores /\ t.tokens = s.tokens /\ t.expires = s.expires /\ t.secrets = n
        /\ t.client = s.client /\ t.metadata = s.metadata /\ t.damaged = s.damaged
    BY <2>2, <2>3, <2>4, StoreSecrets
  <2> QED BY <2>1, <2>3, <2>5, <1>2
<1>3. CASE o.op = "clear_oauth"
  <2>1. PICK t : t = Apply(o, s) OBVIOUS
  <2>2. t = [EmptyStore EXCEPT !.secrets = s.secrets] BY <1>3, <2>1 DEF Apply, ClearOauth
  <2>3. s.secrets \in SUBSET CredSecrets BY SMT DEF CredStores
  <2>4. /\ t \in CredStores /\ t.tokens = EmptyStore.tokens /\ t.expires = EmptyStore.expires
        /\ t.secrets = s.secrets /\ t.damaged = EmptyStore.damaged
    BY <2>2, <2>3, CredValues, StoreSecrets
  <2>5. EmptyStore.tokens = NoTokens /\ NoTokens.access = 0 /\ EmptyStore.expires = 0
    BY SMT DEF EmptyStore, NoTokens
  <2> QED BY <2>1, <2>4, <2>5, CredValues, <1>3
<1> QED BY <1>1, <1>2, <1>3 DEF AdminKinds
\* The fields of a session, changed one after the other.
LEMMA SessionAt ==
  ASSUME NEW m, FlowFine(m), NEW p \in FlowPlaces \ {"edit"}
  PROVE  FlowFine([m EXCEPT !.at = p]) /\ [m EXCEPT !.at = p].at = p
<1>1. m \in CredSessions BY DEF FlowFine
<1>2. [m EXCEPT !.at = p] \in CredSessions BY <1>1, SMT DEF CredSessions
<1>3. [m EXCEPT !.at = p].at = p BY <1>1, SMT DEF CredSessions
<1>4. [m EXCEPT !.at = p].callback = m.callback BY <1>1, SMT DEF CredSessions
<1>5. [m EXCEPT !.at = p].consent = m.consent BY <1>1, SMT DEF CredSessions
<1> QED BY <1>2, <1>3, <1>4, <1>5 DEF FlowFine

LEMMA SessionTokens ==
  ASSUME NEW m, FlowFine(m), NEW t \in TokenPairs
  PROVE  FlowFine([m EXCEPT !.tokens = t]) /\ [m EXCEPT !.tokens = t].at = m.at
<1>1. m \in CredSessions BY DEF FlowFine
<1>2. [m EXCEPT !.tokens = t] \in CredSessions BY <1>1, SMT DEF CredSessions
<1>3. [m EXCEPT !.tokens = t].at = m.at BY <1>1, SMT DEF CredSessions
<1>4. [m EXCEPT !.tokens = t].callback = m.callback BY <1>1, SMT DEF CredSessions
<1>5. [m EXCEPT !.tokens = t].consent = m.consent BY <1>1, SMT DEF CredSessions
<1>6. [m EXCEPT !.tokens = t].edit = m.edit BY <1>1, SMT DEF CredSessions
<1> QED BY <1>2, <1>3, <1>4, <1>5, <1>6 DEF FlowFine

LEMMA SessionExpires ==
  ASSUME NEW m, FlowFine(m), NEW e \in Nat
  PROVE  FlowFine([m EXCEPT !.expires = e]) /\ [m EXCEPT !.expires = e].at = m.at
<1>1. m \in CredSessions BY DEF FlowFine
<1>2. [m EXCEPT !.expires = e] \in CredSessions BY <1>1, SMT DEF CredSessions
<1>3. [m EXCEPT !.expires = e].at = m.at BY <1>1, SMT DEF CredSessions
<1>4. [m EXCEPT !.expires = e].callback = m.callback BY <1>1, SMT DEF CredSessions
<1>5. [m EXCEPT !.expires = e].consent = m.consent BY <1>1, SMT DEF CredSessions
<1>6. [m EXCEPT !.expires = e].edit = m.edit BY <1>1, SMT DEF CredSessions
<1> QED BY <1>2, <1>3, <1>4, <1>5, <1>6 DEF FlowFine

LEMMA SessionClient ==
  ASSUME NEW m, FlowFine(m), NEW v \in BOOLEAN
  PROVE  FlowFine([m EXCEPT !.client = v]) /\ [m EXCEPT !.client = v].at = m.at
<1>1. m \in CredSessions BY DEF FlowFine
<1>2. [m EXCEPT !.client = v] \in CredSessions BY <1>1, SMT DEF CredSessions
<1>3. [m EXCEPT !.client = v].at = m.at BY <1>1, SMT DEF CredSessions
<1>4. [m EXCEPT !.client = v].callback = m.callback BY <1>1, SMT DEF CredSessions
<1>5. [m EXCEPT !.client = v].consent = m.consent BY <1>1, SMT DEF CredSessions
<1>6. [m EXCEPT !.client = v].edit = m.edit BY <1>1, SMT DEF CredSessions
<1> QED BY <1>2, <1>3, <1>4, <1>5, <1>6 DEF FlowFine

LEMMA SessionMetadata ==
  ASSUME NEW m, FlowFine(m), NEW v \in BOOLEAN
  PROVE  FlowFine([m EXCEPT !.metadata = v]) /\ [m EXCEPT !.metadata = v].at = m.at
<1>1. m \in CredSessions BY DEF FlowFine
<1>2. [m EXCEPT !.metadata = v] \in CredSessions BY <1>1, SMT DEF CredSessions
<1>3. [m EXCEPT !.metadata = v].at = m.at BY <1>1, SMT DEF CredSessions
<1>4. [m EXCEPT !.metadata = v].callback = m.callback BY <1>1, SMT DEF CredSessions
<1>5. [m EXCEPT !.metadata = v].consent = m.consent BY <1>1, SMT DEF CredSessions
<1>6. [m EXCEPT !.metadata = v].edit = m.edit BY <1>1, SMT DEF CredSessions
<1> QED BY <1>2, <1>3, <1>4, <1>5, <1>6 DEF FlowFine

LEMMA SessionConsentField ==
  ASSUME NEW m \in CredSessions, NEW v \in BOOLEAN
  PROVE  [m EXCEPT !.consent = v] \in CredSessions
BY SMT DEF CredSessions

LEMMA SessionCallback ==
  ASSUME NEW m, FlowFine(m), NEW r \in {"open", "code", "error", "used"},
         NEW v \in BOOLEAN, r = "code" => v
  PROVE  FlowFine([m EXCEPT !.callback = r, !.consent = v])
<1>1. m \in CredSessions BY DEF FlowFine
<1>2. [m EXCEPT !.callback = r] \in CredSessions BY <1>1, SMT DEF CredSessions
<1>3. PICK u \in CredSessions : u = [m EXCEPT !.callback = r] BY <1>2
<1>4. u.callback = r /\ u.at = m.at /\ u.edit = m.edit BY <1>1, <1>3, SMT DEF CredSessions
<1>5. [u EXCEPT !.consent = v] \in CredSessions BY <1>3, SessionConsentField
<1>6. PICK w \in CredSessions : w = [u EXCEPT !.consent = v] BY <1>5
<1>7. w.callback = u.callback /\ w.at = u.at /\ w.edit = u.edit BY <1>3, <1>6, SMT DEF CredSessions
<1>8. w.consent = v BY <1>3, <1>6, SMT DEF CredSessions
<1>9. FlowFine(w) BY <1>1, <1>4, <1>6, <1>7, <1>8 DEF FlowFine
<1>10. w = [m EXCEPT !.callback = r, !.consent = v] BY <1>3, <1>6, Zenon
<1> QED BY <1>9, <1>10

LEMMA SessionEditField ==
  ASSUME NEW m \in CredSessions, NEW o \in CredEdits
  PROVE  [m EXCEPT !.edit = o] \in CredSessions
BY SMT DEF CredSessions

LEMMA SessionNextField ==
  ASSUME NEW m \in CredSessions, NEW n \in {"stored", "sent", "asked", "end"}
  PROVE  [m EXCEPT !.next = n] \in CredSessions
BY SMT DEF CredSessions

LEMMA SessionEdits ==
  ASSUME NEW m, FlowFine(m), NEW o \in CredEdits, o.op \in FlowKinds,
         NEW n \in {"stored", "sent", "asked", "end"}
  PROVE  FlowFine([m EXCEPT !.at = "edit", !.edit = o, !.next = n])
<1>1. m \in CredSessions BY DEF FlowFine
<1>2. [m EXCEPT !.at = "edit"] \in CredSessions BY <1>1, SMT DEF CredSessions, FlowPlaces
<1>3. PICK u \in CredSessions : u = [m EXCEPT !.at = "edit"] BY <1>2
<1>4. u.callback = m.callback BY <1>1, <1>3, SMT DEF CredSessions
<1>5. u.consent = m.consent BY <1>1, <1>3, SMT DEF CredSessions
<1>6. PICK w \in CredSessions : w = [u EXCEPT !.edit = o]
  <2>1. [u EXCEPT !.edit = o] \in CredSessions BY <1>3, SessionEditField
  <2> QED BY <2>1
<1>7. w.callback = u.callback /\ w.edit = o BY <1>3, <1>6, SMT DEF CredSessions
<1>8. w.consent = u.consent BY <1>3, <1>6, SMT DEF CredSessions
<1>9. PICK x \in CredSessions : x = [w EXCEPT !.next = n]
  <2>1. [w EXCEPT !.next = n] \in CredSessions BY <1>6, SessionNextField
  <2> QED BY <2>1
<1>10. x.callback = w.callback /\ x.edit = w.edit BY <1>6, <1>9, SMT DEF CredSessions
<1>11. x.consent = w.consent BY <1>6, <1>9, SMT DEF CredSessions
<1>12. x = [m EXCEPT !.at = "edit", !.edit = o, !.next = n] BY <1>3, <1>6, <1>9, Zenon
<1>13. FlowFine(x) BY <1>1, <1>4, <1>5, <1>7, <1>8, <1>9, <1>10, <1>11 DEF FlowFine
<1> QED BY <1>12, <1>13

LEMMA NewFine == NewFlow("call") \in CredSessions /\ FlowFine(NewFlow("call"))
                 /\ NewFlow("login") \in CredSessions /\ FlowFine(NewFlow("login"))
BY NewFlowFine DEF FlowFine
\* A step of one session that leaves the file, the drafts and the commands alone.
LEMMA SessionStep ==
  ASSUME CredInv, UNCHANGED CredRest, NEW f \in CredFlows, NEW m, FlowFine(m),
         flow' = [flow EXCEPT ![f] = m],
         server'.issued \in 0..MaxTokens, server' \in [issued : 0..MaxTokens, unasked : BOOLEAN],
         ~server'.unasked
  PROVE  CredInv'
<1>1. CredFile'
  BY DEF CredInv, CredRest, CredFile, DraftsAgree, ExpiryOfToken, SecretsKept
<1>2. m \in CredSessions BY DEF FlowFine
<1>3. flow \in [CredFlows -> CredSessions] /\ \A g \in CredFlows : FlowFine(flow[g])
  BY DEF CredInv, CredPeople
<1>4. flow' \in [CredFlows -> CredSessions] BY <1>2, <1>3
<1>5. \A g \in CredFlows : FlowFine(flow'[g]) BY <1>3
<1>6. CommandFine(cmd') BY DEF CredInv, CredPeople, CredRest
<1>7. CredPeople' BY <1>4, <1>5, <1>6 DEF CredPeople, CommandFine, FlowFine
<1>8. CredServer' BY DEF CredServer, OnlyConsented
<1> QED BY <1>1, <1>7, <1>8 DEF CredInv

\* The steps of a session up to its edits.
LEMMA SessionActions ==
  ASSUME CredInv, NEW f \in CredFlows, NEW r \in {"code", "error"}, NEW k \in {"call", "login"},
         \/ ResolveMaps(f, k) \/ CheckStatus(f) \/ LoadTokens(f) \/ LoadOthers(f) \/ Depart(f)
         \/ TokensRefreshed(f) \/ RefreshFails(f) \/ PersistMetadata(f)
         \/ Served(f) \/ Unauthorized(f) \/ RegisterClient(f) \/ Redirect(f)
         \/ Callback(f, r) \/ CallbackFails(f) \/ ExchangeCode(f)
  PROVE  CredInv'
<1>1. /\ flow \in [CredFlows -> CredSessions] /\ FlowFine(flow[f]) /\ flow[f] \in CredSessions
      /\ creds \in CredStores /\ server \in [issued : 0..MaxTokens, unasked : BOOLEAN]
      /\ ~server.unasked /\ MaxTokens \in Nat
  BY CredConstants DEF CredInv, CredPeople, CredFile, CredServer, OnlyConsented
<1>2. /\ flow[f].metadata \in BOOLEAN /\ flow[f].client \in BOOLEAN /\ flow[f].expires \in Nat
      /\ flow[f].tokens \in TokenPairs /\ flow[f].consent \in BOOLEAN
      /\ creds.tokens \in TokenPairs /\ creds.expires \in Nat
      /\ creds.client \in BOOLEAN /\ creds.metadata \in BOOLEAN
      /\ server.issued \in 0..MaxTokens
  BY <1>1, SMT DEF CredSessions, CredStores
<1>3. NoTokens \in TokenPairs /\ 0 \in Nat BY CredValues
<1>4. ASSUME UNCHANGED <<CredRest, server>>, NEW m, FlowFine(m), flow' = [flow EXCEPT ![f] = m]
      PROVE  CredInv'
  BY <1>1, <1>2, <1>4, SessionStep
<1>5. ASSUME FlowOver(f), UNCHANGED <<CredRest, server>> PROVE CredInv'
  <2>1. PICK n : n = NewFlow("call") /\ FlowFine(n) BY NewFine
  <2>2. PICK m : m = [n EXCEPT !.at = "end"] OBVIOUS
  <2>3. FlowFine(m) BY <2>1, <2>2, SessionAt DEF FlowPlaces
  <2>4. flow' = [flow EXCEPT ![f] = m] BY <1>5, <2>1, <2>2 DEF FlowOver
  <2> QED BY <2>3, <2>4, <1>4, <1>5
<1>6. ASSUME NEW p \in FlowPlaces \ {"edit"}, FlowGoes(f, p), UNCHANGED <<CredRest, server>>
      PROVE  CredInv'
  <2>1. PICK m : m = [flow[f] EXCEPT !.at = p] OBVIOUS
  <2>2. FlowFine(m) BY <2>1, <1>1, SessionAt
  <2>3. flow' = [flow EXCEPT ![f] = m] BY <1>1, <1>6, <2>1, SMT DEF FlowGoes
  <2> QED BY <2>2, <2>3, <1>4, <1>6
<1>7. ASSUME Sends(f), UNCHANGED <<CredRest, server>> PROVE CredInv'
  <2>1. PICK u : u = [flow[f] EXCEPT !.at = "sent"] /\ FlowFine(u)
    BY <1>1, SessionAt DEF FlowPlaces
  <2>2. PICK v : v = [u EXCEPT !.tokens = NoTokens] /\ FlowFine(v) BY <2>1, <1>3, SessionTokens
  <2>3. PICK m : m = [v EXCEPT !.expires = 0] /\ FlowFine(m) BY <2>2, <1>3, SessionExpires
  <2>4. m = Sent(flow[f]) BY <2>1, <2>2, <2>3, Zenon DEF Sent
  <2>5. flow' = [flow EXCEPT ![f] = m] BY <1>7, <2>4 DEF Sends
  <2> QED BY <2>3, <2>5, <1>4, <1>7
<1>8. ASSUME NEW m, FlowFine(m), NEW o \in CredEdits, o.op \in FlowKinds,
             NEW n \in {"stored", "sent", "asked", "end"}, Edits(f, m, o, n), UNCHANGED CredRest,
             server' \in [issued : 0..MaxTokens, unasked : BOOLEAN], ~server'.unasked
      PROVE  CredInv'
  <2>1. PICK w : w = [m EXCEPT !.at = "edit", !.edit = o, !.next = n] /\ FlowFine(w)
    BY <1>8, SessionEdits
  <2>2. flow' = [flow EXCEPT ![f] = w] BY <1>8, <2>1 DEF Edits
  <2>3. server'.issued \in 0..MaxTokens BY <1>8
  <2> QED BY <2>1, <2>2, <2>3, <1>8, SessionStep
<1>9. ASSUME NEW m, FlowFine(m), NEW b \in BOOLEAN, Gains(f, m, Issued(b)), UNCHANGED CredRest,
             server.issued < MaxTokens, NEW g \in BOOLEAN, ~g,
             server' = [issued |-> server.issued + 1, unasked |-> g]
      PROVE  CredInv'
  <2>1. PICK t : t = Issued(b) /\ t \in TokenPairs
    <3>1. server.issued + 1 \in 0..MaxTokens BY <1>1, <1>2, <1>9, SMT
    <3>2. Issued(b) = [access |-> server.issued + 1, refresh |-> IF b THEN server.issued + 1 ELSE 0]
      BY DEF Issued
    <3>3. Issued(b) \in TokenPairs BY <1>1, <3>1, <3>2, SMT DEF TokenPairs
    <3> QED BY <3>3
  <2>2. PICK u : u = [m EXCEPT !.tokens = NoTokens] /\ FlowFine(u) BY <1>3, <1>9, SessionTokens
  <2>3. PICK v : v = [u EXCEPT !.expires = 0] /\ FlowFine(v) BY <1>3, <2>2, SessionExpires
  <2>4. v = [m EXCEPT !.tokens = NoTokens, !.expires = 0] BY <2>2, <2>3, Zenon
  <2>5. PICK o : o = Op("set_tokens") /\ o \in CredEdits /\ o.op = "set_tokens"
    BY OpFine DEF FlowKinds
  <2>6. PICK q : q = [o EXCEPT !.tokens = t] OBVIOUS
  <2>7. q \in CredEdits /\ q.op = "set_tokens" BY <2>1, <2>5, <2>6, SMT DEF CredEdits
  <2>8. Edits(f, v, q, "stored") BY <1>9, <2>1, <2>4, <2>5, <2>6 DEF Gains
  <2>9. server' \in [issued : 0..MaxTokens, unasked : BOOLEAN] /\ server'.unasked = g
    <3>1. server.issued + 1 \in 0..MaxTokens BY <1>1, <1>2, <1>9, SMT
    <3> QED BY <3>1, <1>9
  <2> QED BY <2>3, <2>7, <2>8, <2>9, <1>9, <1>8 DEF FlowKinds
<1>10. CASE ResolveMaps(f, k)
  <2>1. CASE CredSecrets \subseteq creds.secrets
    <3>1. PICK n : n = NewFlow(k) /\ FlowFine(n) BY NewFine
    <3>2. PICK m : m = [n EXCEPT !.at = "check"] OBVIOUS
    <3>3. FlowFine(m) BY <3>1, <3>2, SessionAt DEF FlowPlaces
    <3>4. flow' = [flow EXCEPT ![f] = m] /\ UNCHANGED <<CredRest, server>>
      BY <1>10, <2>1, <3>1, <3>2 DEF ResolveMaps
    <3> QED BY <3>3, <3>4, <1>4
  <2>2. CASE ~(CredSecrets \subseteq creds.secrets)
    BY <1>5, <1>10, <2>2 DEF ResolveMaps
  <2> QED BY <2>1, <2>2
<1>11. CASE CheckStatus(f)
  <2>1. (FlowGoes(f, "tokens") \/ FlowOver(f)) /\ UNCHANGED <<CredRest, server>>
    BY <1>11 DEF CheckStatus
  <2> QED BY <2>1, <1>5, <1>6 DEF FlowPlaces
<1>12. CASE LoadTokens(f)
  <2>1. PICK u : u = [flow[f] EXCEPT !.at = "expiry"] /\ FlowFine(u)
    BY <1>1, SessionAt DEF FlowPlaces
  <2>2. PICK m : m = [u EXCEPT !.tokens = creds.tokens] /\ FlowFine(m)
    BY <1>2, <2>1, SessionTokens
  <2>3. m = [flow[f] EXCEPT !.at = "expiry", !.tokens = creds.tokens] BY <2>1, <2>2, Zenon
  <2>4. flow' = [flow EXCEPT ![f] = [flow[f] EXCEPT !.at = "expiry", !.tokens = creds.tokens]]
    BY <1>1, <1>12, Zenon DEF LoadTokens
  <2> QED BY <2>2, <2>3, <2>4, <1>4, <1>12 DEF LoadTokens
<1>13. CASE LoadOthers(f)
  <2>1. PICK u : u = [flow[f] EXCEPT !.at = "ready"] /\ FlowFine(u)
    BY <1>1, SessionAt DEF FlowPlaces
  <2>2. PICK v : v = [u EXCEPT !.client = creds.client] /\ FlowFine(v)
    BY <1>2, <2>1, SessionClient
  <2>3. PICK w : w = [v EXCEPT !.expires = creds.expires] /\ FlowFine(w)
    BY <1>2, <2>2, SessionExpires
  <2>4. PICK m : m = [w EXCEPT !.metadata = creds.metadata] /\ FlowFine(m)
    BY <1>2, <2>3, SessionMetadata
  <2>5. m = [flow[f] EXCEPT !.at = "ready", !.client = creds.client,
                            !.expires = creds.expires, !.metadata = creds.metadata]
    BY <2>1, <2>2, <2>3, <2>4, Zenon
  <2>6. flow' = [flow EXCEPT ![f] = [flow[f] EXCEPT !.at = "ready", !.client = creds.client,
                            !.expires = creds.expires, !.metadata = creds.metadata]]
    BY <1>1, <1>13, Zenon DEF LoadOthers
  <2> QED BY <2>4, <2>5, <2>6, <1>4, <1>13 DEF LoadOthers
<1>14. CASE Depart(f)
  <2>1. (FlowGoes(f, "refresh") \/ Sends(f)) /\ UNCHANGED <<CredRest, server>>
    BY <1>14 DEF Depart
  <2> QED BY <2>1, <1>6, <1>7 DEF FlowPlaces
<1>15. CASE TokensRefreshed(f)
  <2>1. PICK b \in BOOLEAN : Gains(f, flow[f], Issued(b)) BY <1>15 DEF TokensRefreshed
  <2>2. server.issued < MaxTokens /\ UNCHANGED CredRest /\ server' = [server EXCEPT !.issued = @ + 1]
    BY <1>15 DEF TokensRefreshed
  <2>3. PICK g \in BOOLEAN : g = server.unasked BY <1>1
  <2>4. server' = [issued |-> server.issued + 1, unasked |-> g] BY <1>1, <2>2, <2>3, SMT
  <2>5. ~g BY <1>1, <2>3
  <2> QED BY <2>1, <2>2, <2>4, <2>5, <1>1, <1>9
<1>16. CASE RefreshFails(f)
  <2>1. PICK u : u = [flow[f] EXCEPT !.tokens = NoTokens] /\ FlowFine(u)
    BY <1>1, <1>3, SessionTokens
  <2>2. PICK v : v = [u EXCEPT !.expires = 0] /\ FlowFine(v) BY <1>3, <2>1, SessionExpires
  <2>3. v = [flow[f] EXCEPT !.tokens = NoTokens, !.expires = 0] BY <2>1, <2>2, Zenon
  <2>4. Edits(f, v, Op("clear_tokens"), "sent") BY <1>16, <2>3 DEF RefreshFails
  <2>5. Op("clear_tokens") \in CredEdits /\ Op("clear_tokens").op = "clear_tokens"
    BY OpFine DEF FlowKinds
  <2>6. UNCHANGED <<CredRest, server>> BY <1>16 DEF RefreshFails
  <2> QED BY <2>2, <2>4, <2>5, <2>6, <1>1, <1>8 DEF FlowKinds
<1>17. CASE PersistMetadata(f)
  <2>1. (Edits(f, flow[f], Op("set_metadata"), "sent") \/ Sends(f)) /\ UNCHANGED <<CredRest, server>>
    BY <1>17 DEF PersistMetadata
  <2>2. Op("set_metadata") \in CredEdits /\ Op("set_metadata").op = "set_metadata"
    BY OpFine DEF FlowKinds
  <2> QED BY <2>1, <2>2, <1>1, <1>7, <1>8 DEF FlowKinds
<1>18. CASE Served(f) BY <1>5, <1>18 DEF Served
<1>19. CASE Unauthorized(f)
  <2>1. PICK found \in {flow[f].metadata, TRUE} :
          flow' = [flow EXCEPT ![f].at = "asked", ![f].metadata = found]
    BY <1>19 DEF Unauthorized
  <2>2. found \in BOOLEAN BY <1>2, <2>1
  <2>3. PICK u : u = [flow[f] EXCEPT !.at = "asked"] /\ FlowFine(u)
    BY <1>1, SessionAt DEF FlowPlaces
  <2>4. PICK m : m = [u EXCEPT !.metadata = found] /\ FlowFine(m)
    BY <2>2, <2>3, SessionMetadata
  <2>5. m = [flow[f] EXCEPT !.at = "asked", !.metadata = found] BY <2>3, <2>4, Zenon
  <2>6. flow' = [flow EXCEPT ![f] = [flow[f] EXCEPT !.at = "asked", !.metadata = found]]
    BY <1>1, <2>1, Zenon
  <2> QED BY <2>4, <2>5, <2>6, <1>4, <1>19 DEF Unauthorized
<1>20. CASE RegisterClient(f)
  <2>1. PICK v \in BOOLEAN : v = TRUE OBVIOUS
  <2>2. PICK u : u = [flow[f] EXCEPT !.client = v] /\ FlowFine(u) BY <1>1, <2>1, SessionClient
  <2>3. Edits(f, u, Op("set_client_info"), "asked") BY <1>20, <2>1, <2>2 DEF RegisterClient
  <2>4. Op("set_client_info") \in CredEdits /\ Op("set_client_info").op = "set_client_info"
    BY OpFine DEF FlowKinds
  <2>5. UNCHANGED <<CredRest, server>> BY <1>20 DEF RegisterClient
  <2> QED BY <2>2, <2>3, <2>4, <2>5, <1>1, <1>8 DEF FlowKinds
<1>21. CASE Redirect(f)
  <2>1. (FlowGoes(f, "consent") \/ FlowOver(f)) /\ UNCHANGED <<CredRest, server>>
    BY <1>21 DEF Redirect
  <2> QED BY <2>1, <1>5, <1>6 DEF FlowPlaces
<1>22. CASE Callback(f, r)
  <2>1. PICK v \in BOOLEAN : v = (r = "code") BY Zenon
  <2>2. PICK m : m = [flow[f] EXCEPT !.callback = r, !.consent = v] /\ FlowFine(m)
    BY <1>1, <2>1, SessionCallback
  <2>3. flow' = [flow EXCEPT ![f].callback = r, ![f].consent = v] BY <1>22, <2>1, Zenon DEF Callback
  <2>4. flow' = [flow EXCEPT ![f] = [flow[f] EXCEPT !.callback = r, !.consent = v]]
    BY <1>1, <2>3, Zenon
  <2> QED BY <2>2, <2>4, <1>4, <1>22 DEF Callback
<1>23. CASE CallbackFails(f) BY <1>5, <1>23 DEF CallbackFails
<1>24. CASE ExchangeCode(f)
  <2>1. PICK b \in BOOLEAN :
          Gains(f, [flow[f] EXCEPT !.callback = "used", !.consent = FALSE], Issued(b))
    BY <1>24 DEF ExchangeCode
  <2>2. PICK v \in BOOLEAN : v = FALSE OBVIOUS
  <2>3. PICK m : m = [flow[f] EXCEPT !.callback = "used", !.consent = v] /\ FlowFine(m)
    BY <1>1, <2>2, SessionCallback
  <2>4. Gains(f, m, Issued(b)) BY <2>1, <2>2, <2>3
  <2>5. /\ server.issued < MaxTokens /\ UNCHANGED CredRest /\ flow[f].callback = "code"
        /\ server' = [server EXCEPT !.issued = @ + 1, !.unasked = @ \/ ~flow[f].consent]
    BY <1>24 DEF ExchangeCode
  <2>6. flow[f].consent BY <1>1, <2>5 DEF FlowFine
  <2>7. (server.unasked \/ ~flow[f].consent) = FALSE BY <1>1, <2>6
  <2>8. PICK g \in BOOLEAN : g = (server.unasked \/ ~flow[f].consent) BY Zenon
  <2>9. server' = [server EXCEPT !.issued = @ + 1, !.unasked = g] BY <2>5, <2>8, Zenon
  <2>10. server' = [issued |-> server.issued + 1, unasked |-> g]
    <3>1. PICK h \in BOOLEAN : h = server.unasked BY <1>1
    <3>2. PICK u : u = [server EXCEPT !.issued = @ + 1] OBVIOUS
    <3>3. u = [issued |-> server.issued + 1, unasked |-> h] BY <1>1, <3>1, <3>2, SMT
    <3>4. server' = [u EXCEPT !.unasked = g] BY <2>9, <3>2, Zenon
    <3> QED BY <3>3, <3>4, SMT
  <2>11. ~g BY <2>7, <2>8
  <2> QED BY <2>3, <2>4, <2>5, <2>10, <2>11, <1>1, <1>9
<1> QED BY <1>10, <1>11, <1>12, <1>13, <1>14, <1>15, <1>16, <1>17, <1>18, <1>19, <1>20, <1>21,
           <1>22, <1>23, <1>24
\* The file is replaced by what an edit made of its contents.
LEMMA EditStep ==
  ASSUME CredFile, NEW a \in Writers, NEW o, CommitEdit(a, o),
         Apply(o, creds) \in CredStores, ~Apply(o, creds).damaged,
         Apply(o, creds).expires = Apply(o, creds).tokens.access,
         Apply(o, creds).secrets = kept'
  PROVE  CredFile' /\ creds' = Apply(o, creds)
<1>1. draft[a] = creds /\ \A b \in Writers : b # a => draft[b] = NoDraft
  BY DEF CredFile, DraftsAgree, CommitEdit
<1>2. creds' = Apply(o, creds) BY <1>1 DEF CommitEdit
<1>3. draft \in [Writers -> CredStores] /\ draft' = [draft EXCEPT ![a] = NoDraft]
  BY DEF CredFile, CommitEdit
<1>4. draft' \in [Writers -> CredStores] BY <1>3, CredValues
<1>5. \A b \in Writers : draft'[b] = NoDraft BY <1>1, <1>3
<1>6. DraftsAgree' BY <1>5 DEF DraftsAgree
<1>7. ExpiryOfToken' /\ SecretsKept' BY <1>2 DEF ExpiryOfToken, SecretsKept
<1>8. kept' \in SUBSET CredSecrets BY DEF CredStores
<1> QED BY <1>2, <1>4, <1>6, <1>7, <1>8 DEF CredFile

LEMMA LockStep ==
  ASSUME CredFile, NEW a \in Writers, BeginEdit(a) \/ LetGo(a), UNCHANGED kept
  PROVE  CredFile'
<1>1. /\ creds \in CredStores /\ draft \in [Writers -> CredStores] /\ UNCHANGED creds
      /\ DraftsAgree
  BY DEF CredFile, BeginEdit, LetGo
<1>2. CASE BeginEdit(a)
  <2>1. /\ \A b \in Writers : draft[b] = NoDraft
        /\ ~creds.damaged /\ draft' = [draft EXCEPT ![a] = creds]
    BY <1>2 DEF BeginEdit, CredReads, CredUnlocked
  <2>2. draft' \in [Writers -> CredStores] BY <1>1, <2>1
  <2>3. \A b \in Writers : b # a => draft'[b] = NoDraft BY <1>1, <2>1
  <2>4. draft'[a] = creds' BY <1>1, <2>1
  <2>5. DraftsAgree' BY <1>1, <2>1, <2>3, <2>4 DEF DraftsAgree
  <2> QED BY <1>1, <2>2, <2>5 DEF CredFile, ExpiryOfToken, SecretsKept
<1>3. CASE LetGo(a)
  <2>1. draft' = [draft EXCEPT ![a] = NoDraft] BY <1>3 DEF LetGo
  <2>2. draft' \in [Writers -> CredStores] BY <1>1, <2>1, CredValues
  <2>3. \A b \in Writers : draft'[b] = draft[b] \/ draft'[b] = NoDraft BY <1>1, <2>1
  <2>5. DraftsAgree' BY <1>1, <2>3 DEF DraftsAgree
  <2> QED BY <1>1, <2>2, <2>5 DEF CredFile, ExpiryOfToken, SecretsKept
<1> QED BY <1>2, <1>3

\* The edits of a session.
LEMMA SessionEditsFile ==
  ASSUME CredInv, NEW f \in CredFlows, FlowBegins(f) \/ FlowCommits(f) \/ FlowEnds(f)
  PROVE  CredInv'
<1>1. /\ flow \in [CredFlows -> CredSessions] /\ FlowFine(flow[f]) /\ flow[f] \in CredSessions
      /\ \A g \in CredFlows : FlowFine(flow[g])
      /\ CredFile /\ CommandFine(cmd) /\ CredServer /\ f \in Writers
  BY CredConstants DEF CredInv, CredPeople
<1>2. ASSUME NEW m, FlowFine(m), flow' = [flow EXCEPT ![f] = m], UNCHANGED <<cmd, server>>, CredFile'
      PROVE  CredInv'
  <2>1. m \in CredSessions BY <1>2 DEF FlowFine
  <2>2. flow' \in [CredFlows -> CredSessions] BY <1>1, <1>2, <2>1
  <2>3. \A g \in CredFlows : FlowFine(flow'[g]) BY <1>1, <1>2
  <2>4. CommandFine(cmd') BY <1>1, <1>2
  <2>5. CredPeople' BY <2>2, <2>3, <2>4 DEF CredPeople, FlowFine, CommandFine
  <2>6. CredServer' BY <1>1, <1>2 DEF CredServer, OnlyConsented
  <2> QED BY <1>2, <2>5, <2>6 DEF CredInv
<1>3. CASE FlowBegins(f)
  <2>1. CredFile' BY <1>1, <1>3, LockStep DEF FlowBegins
  <2>2. UNCHANGED <<flow, cmd, server>> BY <1>3 DEF FlowBegins
  <2>3. flow' = [flow EXCEPT ![f] = flow[f]] BY <1>1, <2>2
  <2> QED BY <1>1, <1>2, <2>1, <2>2, <2>3
<1>4. CASE FlowCommits(f)
  <2>1. PICK o : o = flow[f].edit OBVIOUS
  <2>2. /\ CommitEdit(f, o) /\ o \in CredEdits /\ o.op \in FlowKinds
        /\ UNCHANGED <<cmd, server, kept>>
        /\ flow' = [flow EXCEPT ![f].at = flow[f].next, ![f].edit = NoOp]
    BY <1>1, <1>4, <2>1, SMT DEF FlowCommits, FlowFine, Flows, CredSessions
  <2>3. /\ creds \in CredStores /\ creds.expires = creds.tokens.access /\ creds.secrets = kept
        /\ ~creds.damaged
    BY <1>1, <2>2 DEF CredFile, ExpiryOfToken, SecretsKept, DraftsAgree, CommitEdit
  <2>4. CredFile'
    <3>1. /\ Apply(o, creds) \in CredStores /\ Apply(o, creds).expires = Apply(o, creds).tokens.access
          /\ Apply(o, creds).secrets = creds.secrets /\ ~Apply(o, creds).damaged
      BY <2>2, <2>3, FlowEdits
    <3> QED BY <1>1, <2>2, <2>3, <3>1, EditStep
  <2>5. flow[f].next \in FlowPlaces \ {"edit"} BY <1>1, SMT DEF CredSessions, FlowPlaces
  <2>6. PICK u : u = [flow[f] EXCEPT !.at = flow[f].next] /\ FlowFine(u) /\ u.at # "edit"
    BY <1>1, <2>5, SessionAt
  <2>7. PICK m : m = [u EXCEPT !.edit = NoOp] OBVIOUS
  <2>8. u \in CredSessions BY <2>6 DEF FlowFine
  <2>9. m \in CredSessions BY <2>7, <2>8, CredValues, SessionEditField
  <2>10. m.at = u.at /\ m.callback = u.callback BY <2>7, <2>8, SMT DEF CredSessions
  <2>11. m.consent = u.consent BY <2>7, <2>8, SMT DEF CredSessions
  <2>12. FlowFine(m) BY <2>6, <2>9, <2>10, <2>11 DEF FlowFine
  <2>13. m = [flow[f] EXCEPT !.at = flow[f].next, !.edit = NoOp] BY <2>6, <2>7, Zenon
  <2>14. flow' = [flow EXCEPT ![f] = [flow[f] EXCEPT !.at = flow[f].next, !.edit = NoOp]]
    BY <1>1, <2>2, Zenon
  <2> QED BY <1>2, <2>2, <2>4, <2>12, <2>13, <2>14
<1>5. CASE FlowEnds(f)
  <2>1. LetGo(f) /\ FlowOver(f) /\ UNCHANGED <<cmd, server, kept>> BY <1>5 DEF FlowEnds
  <2>2. CredFile' BY <1>1, <2>1, LockStep
  <2>3. PICK n : n = NewFlow("call") /\ FlowFine(n) BY NewFine
  <2>4. PICK m : m = [n EXCEPT !.at = "end"] OBVIOUS
  <2>5. FlowFine(m) BY <2>3, <2>4, SessionAt DEF FlowPlaces
  <2>6. flow' = [flow EXCEPT ![f] = m] BY <2>1, <2>3, <2>4 DEF FlowOver
  <2> QED BY <1>2, <2>1, <2>2, <2>5, <2>6
<1> QED BY <1>3, <1>4, <1>5

\* A command with some of its fields changed.
LEMMA CommandRecord ==
  ASSUME NEW a, NEW e, NEW n, NEW v
  PROVE  /\ [[at |-> a, edit |-> e, left |-> n] EXCEPT !.at = v] = [at |-> v, edit |-> e, left |-> n]
         /\ [[at |-> a, edit |-> e, left |-> n] EXCEPT !.edit = v] = [at |-> a, edit |-> v, left |-> n]
         /\ [[at |-> a, edit |-> e, left |-> n] EXCEPT !.left = v] = [at |-> a, edit |-> e, left |-> v]
<1>1. [[at |-> a, edit |-> e, left |-> n] EXCEPT !.at = v] = [at |-> v, edit |-> e, left |-> n]
  BY SMT
<1>2. [[at |-> a, edit |-> e, left |-> n] EXCEPT !.edit = v] = [at |-> a, edit |-> v, left |-> n]
  BY SMT
<1>3. [[at |-> a, edit |-> e, left |-> n] EXCEPT !.left = v] = [at |-> a, edit |-> e, left |-> v]
  BY SMT
<1> QED BY <1>1, <1>2, <1>3

LEMMA CommandFields ==
  ASSUME NEW c \in CredCommands, NEW p, NEW o, NEW l
  PROVE  /\ [c EXCEPT !.at = p, !.edit = o] = [at |-> p, edit |-> o, left |-> c.left]
         /\ [c EXCEPT !.at = p, !.left = l] = [at |-> p, edit |-> c.edit, left |-> l]
<1>1. PICK a, e, n : c = [at |-> a, edit |-> e, left |-> n] BY SMT DEF CredCommands
<1>2. c.edit = e /\ c.left = n BY <1>1
<1>3. PICK u : u = [c EXCEPT !.at = p] OBVIOUS
<1>4. u = [at |-> p, edit |-> e, left |-> n] BY <1>1, <1>3, CommandRecord
<1>5. PICK w : w = [u EXCEPT !.edit = o] OBVIOUS
<1>6. w = [at |-> p, edit |-> o, left |-> n] BY <1>4, <1>5, CommandRecord
<1>8. [u EXCEPT !.left = l] = [at |-> p, edit |-> e, left |-> l] BY <1>4, CommandRecord
<1>9. [c EXCEPT !.at = p, !.edit = o] = w BY <1>3, <1>5, Zenon
<1>11. [c EXCEPT !.at = p, !.left = l] = [u EXCEPT !.left = l] BY <1>3, Zenon
<1> QED BY <1>2, <1>6, <1>8, <1>9, <1>11

LEMMA CommandTyped ==
  ASSUME NEW p \in {"idle", "revoke", "edit"}, NEW o \in CredEdits, NEW l \in Nat,
         NEW d, d = [at |-> p, edit |-> o, left |-> l]
  PROVE  d \in CredCommands /\ d.at = p /\ d.edit = o
BY SMT DEF CredCommands

\* The commands of the administrator.
LEMMA CommandSteps ==
  ASSUME CredInv,
         \/ \E k \in {"set_secret", "delete_secret"}, n \in CredSecrets : SecretCommand(k, n)
         \/ BeginLogout \/ RevokeStored \/ CommandBegins \/ CommandCommits \/ CommandEnds
  PROVE  CredInv'
<1>1. /\ CredFile /\ CredPeople /\ CredServer /\ CommandFine(cmd) /\ cmd \in CredCommands
      /\ Admin \in Writers
  BY CredConstants DEF CredInv, CredPeople, CommandFine
<1>2. ASSUME CommandFine(cmd'), UNCHANGED <<flow, server>>, CredFile' PROVE CredInv'
  <2>1. CredPeople' BY <1>1, <1>2 DEF CredPeople, FlowFine
  <2>2. CredServer' BY <1>1, <1>2 DEF CredServer, OnlyConsented
  <2> QED BY <1>2, <2>1, <2>2 DEF CredInv
<1>3. ASSUME UNCHANGED <<creds, draft, kept>> PROVE CredFile'
  BY <1>1, <1>3 DEF CredFile, DraftsAgree, ExpiryOfToken, SecretsKept
<1>11. cmd.edit \in CredEdits /\ cmd.left \in Nat BY <1>1, SMT DEF CredCommands
<1>4. ASSUME NEW k \in {"set_secret", "delete_secret"}, NEW n \in CredSecrets,
             SecretCommand(k, n)
      PROVE  CredInv'
  <2>1. PICK q : q = Op(k) /\ q \in CredEdits /\ q.op = k BY OpFine DEF AdminKinds
  <2>2. PICK o : o = [q EXCEPT !.secret = n] OBVIOUS
  <2>3. o \in CredEdits /\ o.op = k /\ o.secret = n BY <2>1, <2>2, SMT DEF CredEdits
  <2>10. cmd.left > 0 BY <1>4 DEF SecretCommand
  <2>4. cmd.left - 1 \in Nat BY <1>11, <2>10, SMT
  <2>9. PICK l \in Nat : l = cmd.left - 1 BY <2>4
  <2>5. cmd' = [cmd EXCEPT !.at = "edit", !.edit = o, !.left = l]
    BY <1>4, <2>1, <2>2, <2>9, Zenon DEF SecretCommand
  <2>11. PICK u : u = [cmd EXCEPT !.at = "edit", !.edit = o] OBVIOUS
  <2>12. u = [at |-> "edit", edit |-> o, left |-> cmd.left] BY <1>1, <2>11, CommandFields
  <2>13. cmd' = [u EXCEPT !.left = l] BY <2>5, <2>11, Zenon
  <2>8. cmd' = [at |-> "edit", edit |-> o, left |-> l] BY <2>12, <2>13, CommandRecord
  <2>6. cmd' \in CredCommands /\ cmd'.edit = o BY <2>3, <2>8, <2>9, CommandTyped
  <2>7. CommandFine(cmd') BY <2>3, <2>6 DEF CommandFine, AdminKinds
  <2> QED BY <1>2, <1>3, <1>4, <2>7 DEF SecretCommand
<1>5. CASE BeginLogout
  <2>1. cmd.left - 1 \in Nat BY <1>1, <1>5, SMT DEF BeginLogout, CredCommands
  <2>2. cmd' = [cmd EXCEPT !.at = "revoke", !.left = cmd.left - 1]
    BY <1>5, Zenon DEF BeginLogout
  <2>5. cmd' = [at |-> "revoke", edit |-> cmd.edit, left |-> cmd.left - 1]
    BY <1>1, <1>11, <2>1, <2>2, CommandFields
  <2>3. cmd' \in CredCommands /\ cmd'.at = "revoke" BY <1>11, <2>1, <2>5, CommandTyped
  <2>4. CommandFine(cmd') BY <2>3 DEF CommandFine
  <2> QED BY <1>2, <1>3, <1>5, <2>4 DEF BeginLogout
<1>6. CASE RevokeStored
  <2>1. PICK o : o = Op("clear_oauth") /\ o \in CredEdits /\ o.op = "clear_oauth"
    BY OpFine DEF AdminKinds
  <2>2. cmd' = [cmd EXCEPT !.at = "edit", !.edit = o] BY <1>6, <2>1 DEF RevokeStored, Commands
  <2>5. cmd' = [at |-> "edit", edit |-> o, left |-> cmd.left] BY <1>1, <2>2, CommandFields
  <2>3. cmd' \in CredCommands /\ cmd'.edit = o BY <1>11, <2>1, <2>5, CommandTyped
  <2>4. CommandFine(cmd') BY <2>1, <2>3 DEF CommandFine, AdminKinds
  <2> QED BY <1>2, <1>3, <1>6, <2>4 DEF RevokeStored
<1>7. CASE CommandBegins
  <2>1. CredFile' BY <1>1, <1>7, LockStep DEF CommandBegins
  <2>2. CommandFine(cmd') BY <1>1, <1>7 DEF CommandBegins
  <2> QED BY <1>2, <1>7, <2>1, <2>2 DEF CommandBegins
<1>8. ASSUME Commands("idle", NoOp) PROVE CommandFine(cmd')
  <2>1. cmd' = [cmd EXCEPT !.at = "idle", !.edit = NoOp] BY <1>8 DEF Commands
  <2>3. cmd' = [at |-> "idle", edit |-> NoOp, left |-> cmd.left]
    BY <1>1, <1>11, <2>1, CredValues, CommandFields
  <2>2. cmd' \in CredCommands /\ cmd'.at = "idle" BY <1>11, <2>3, CredValues, CommandTyped
  <2> QED BY <2>2 DEF CommandFine
<1>9. CASE CommandCommits
  <2>1. PICK o : o = cmd.edit OBVIOUS
  <2>2. /\ CommitEdit(Admin, o) /\ o \in CredEdits /\ o.op \in AdminKinds
        /\ o.op # "clear_oauth" => o.secret \in CredSecrets
        /\ UNCHANGED <<flow, server>> /\ Commands("idle", NoOp)
        /\ kept' = CASE o.op = "set_secret" -> kept \union {o.secret}
                      [] o.op = "delete_secret" -> kept \ {o.secret}
                      [] OTHER -> kept
    BY <1>1, <1>9, <2>1 DEF CommandCommits, CommandFine, CredCommands
  <2>3. /\ creds \in CredStores /\ creds.expires = creds.tokens.access /\ creds.secrets = kept
        /\ ~creds.damaged
    BY <1>1, <2>2 DEF CredFile, ExpiryOfToken, SecretsKept, DraftsAgree, CommitEdit
  <2>4. /\ Apply(o, creds) \in CredStores /\ Apply(o, creds).expires = Apply(o, creds).tokens.access
        /\ ~Apply(o, creds).damaged
        /\ Apply(o, creds).secrets = CASE o.op = "set_secret" -> creds.secrets \union {o.secret}
                                       [] o.op = "delete_secret" -> creds.secrets \ {o.secret}
                                       [] OTHER -> creds.secrets
    BY <2>2, <2>3, AdminEdits
  <2>5. Apply(o, creds).secrets = kept' BY <2>2, <2>3, <2>4
  <2>6. CredFile' BY <1>1, <2>2, <2>4, <2>5, EditStep
  <2> QED BY <1>2, <1>8, <2>2, <2>6
<1>10. CASE CommandEnds
  <2>1. CredFile' BY <1>1, <1>10, LockStep DEF CommandEnds
  <2> QED BY <1>2, <1>8, <1>10, <2>1 DEF CommandEnds
<1> QED BY <1>4, <1>5, <1>6, <1>7, <1>9, <1>10
LEMMA CredFirst == ASSUME CredInit PROVE CredInv
<1>1. /\ NoTokens \in TokenPairs /\ NoOp \in CredEdits /\ EmptyStore \in CredStores
      /\ ~EmptyStore.damaged /\ NoDraft \in CredStores /\ MaxTokens \in Nat \ {0}
  BY CredValues, CredConstants
<1>2. /\ creds \in CredStores /\ ExpiryOfToken
      /\ server.issued \in 0..MaxTokens /\ ~server.unasked
      /\ server \in [issued : 0..MaxTokens, unasked : BOOLEAN]
  <2>1. CASE creds = EmptyStore /\ server = [issued |-> 0, unasked |-> FALSE]
    <3>1. EmptyStore.expires = 0 /\ EmptyStore.tokens.access = 0 BY SMT DEF EmptyStore, NoTokens
    <3>2. 0 \in 0..MaxTokens BY <1>1
    <3> QED BY <1>1, <2>1, <3>1, <3>2 DEF ExpiryOfToken
  <2>2. CASE /\ \E damaged \in BOOLEAN : creds = [StoredBefore EXCEPT !.damaged = damaged]
             /\ server = [issued |-> 1, unasked |-> FALSE]
    <3>1. PICK d \in BOOLEAN : creds = [StoredBefore EXCEPT !.damaged = d] BY <2>2
    <3>2. PICK t : t = [access |-> 1, refresh |-> 1] OBVIOUS
    <3>3. t \in TokenPairs /\ t.access = 1 BY <1>1, <3>2, SMT DEF TokenPairs
    <3>4. PICK yes \in BOOLEAN : yes = TRUE OBVIOUS
    <3>5. PICK s1 : s1 = [EmptyStore EXCEPT !.secrets = CredSecrets] OBVIOUS
    <3>6. s1 \in CredStores BY <1>1, <3>5, StoreSecrets
    <3>7. PICK s2 : s2 = WithTokens(s1, t, 1) OBVIOUS
    <3>8. s2 \in CredStores /\ s2.tokens = t /\ s2.expires = 1
      BY <3>3, <3>6, <3>7, StoreTokens
    <3>9. PICK s3 : s3 = [s2 EXCEPT !.client = yes] OBVIOUS
    <3>10. s3 \in CredStores BY <3>4, <3>8, <3>9, StoreFlags
    <3>11. s3.tokens = t /\ s3.expires = 1 BY <3>8, <3>9, SMT DEF CredStores
    <3>12. PICK s4 : s4 = [s3 EXCEPT !.metadata = yes] OBVIOUS
    <3>13. s4 \in CredStores BY <3>4, <3>10, <3>12, StoreFlags
    <3>14. s4.tokens = t /\ s4.expires = 1 BY <3>10, <3>11, <3>12, SMT DEF CredStores
    <3>15. s4 = StoredBefore
      BY <3>2, <3>4, <3>5, <3>7, <3>9, <3>12, Zenon DEF StoredBefore, WithTokens
    <3>16. creds = [s4 EXCEPT !.damaged = d] BY <3>1, <3>15
    <3>17. creds \in CredStores BY <3>1, <3>13, <3>16, StoreDamage
    <3>18. creds.tokens = t /\ creds.expires = 1 BY <3>13, <3>14, <3>16, SMT DEF CredStores
    <3>19. 1 \in 0..MaxTokens BY <1>1, SMT
    <3> QED BY <2>2, <3>3, <3>17, <3>18, <3>19 DEF ExpiryOfToken
  <2> QED BY <2>1, <2>2 DEF CredInit
<1>3. CredFile
  <2>1. draft = [a \in Writers |-> NoDraft] /\ kept = creds.secrets BY DEF CredInit
  <2>2. draft \in [Writers -> CredStores] BY <1>1, <2>1
  <2>3. DraftsAgree BY <2>1 DEF DraftsAgree
  <2>4. kept \in SUBSET CredSecrets BY <1>2, <2>1, SMT DEF CredStores
  <2> QED BY <1>2, <2>1, <2>2, <2>3, <2>4 DEF CredFile, SecretsKept
<1>4. CredPeople
  <2>1. PICK n : n = NewFlow("call") /\ n \in CredSessions /\ FlowFine(n) BY NewFine
  <2>2. flow = [f \in CredFlows |-> n] BY <2>1 DEF CredInit
  <2>3. flow \in [CredFlows -> CredSessions] /\ \A f \in CredFlows : FlowFine(flow[f])
    BY <2>1, <2>2
  <2>4. cmd = [at |-> "idle", edit |-> NoOp, left |-> MaxCredCommands] BY DEF CredInit
  <2>5. MaxCredCommands \in Nat BY CredentialsAssumption DEF CredentialsAssumption
  <2>6. cmd \in CredCommands /\ cmd.at = "idle" BY <1>1, <2>4, <2>5, CommandTyped
  <2>7. CommandFine(cmd) BY <2>6 DEF CommandFine
  <2> QED BY <2>3, <2>7 DEF CredPeople
<1>5. CredServer BY <1>2 DEF CredServer, OnlyConsented
<1> QED BY <1>3, <1>4, <1>5 DEF CredInv

LEMMA CredStep == ASSUME CredInv, [CredNext]_acVars PROVE CredInv'
<1>1. ASSUME NEW f \in CredFlows, NEW r \in {"code", "error"}, NEW k \in {"call", "login"},
         \/ ResolveMaps(f, k) \/ CheckStatus(f) \/ LoadTokens(f) \/ LoadOthers(f) \/ Depart(f)
         \/ TokensRefreshed(f) \/ RefreshFails(f) \/ PersistMetadata(f)
         \/ Served(f) \/ Unauthorized(f) \/ RegisterClient(f) \/ Redirect(f)
         \/ Callback(f, r) \/ CallbackFails(f) \/ ExchangeCode(f)
      PROVE CredInv'
  BY <1>1, SessionActions
<1>2. ASSUME NEW f \in CredFlows, FlowBegins(f) \/ FlowCommits(f) \/ FlowEnds(f) PROVE CredInv'
  BY <1>2, SessionEditsFile
<1>3. CASE \/ \E k \in {"set_secret", "delete_secret"}, n \in CredSecrets : SecretCommand(k, n)
           \/ BeginLogout \/ RevokeStored \/ CommandBegins \/ CommandCommits \/ CommandEnds
  BY <1>3, CommandSteps
<1>5. CASE UNCHANGED acVars
  <2>1. CredFile' BY <1>5 DEF acVars, CredInv, CredFile, DraftsAgree, ExpiryOfToken, SecretsKept
  <2>2. CredPeople' BY <1>5 DEF acVars, CredInv, CredPeople, FlowFine, CommandFine
  <2>3. CredServer' BY <1>5 DEF acVars, CredInv, CredServer, OnlyConsented
  <2> QED BY <2>1, <2>2, <2>3 DEF CredInv
<1> QED BY <1>1, <1>2, <1>3, <1>5 DEF CredNext

\* In every state of CredSpec the expiry in the file is its access token's, the secrets in
\* it are those that were stored last, and no token was granted without consent.
THEOREM CredentialsTheorem == CredSpec => []CredentialsSound
<1>1. CredInit => CredInv BY CredFirst
<1>2. CredInv /\ [CredNext]_acVars => CredInv' BY CredStep
<1>3. CredInv => CredentialsSound
  <2> SUFFICES ASSUME CredInv PROVE CredentialsSound OBVIOUS
  <2>1. server.issued \in 0..MaxTokens BY SMT DEF CredInv, CredServer
  <2> QED BY <2>1 DEF CredInv, CredFile, CredServer, CredStores, CredentialsSound, CredTypeOK
<1> QED BY <1>1, <1>2, <1>3, PTL DEF CredSpec
\* No session takes a refresh token that was not refused, a registration or metadata, only
\* a logout does, and a damaged file stays as it is.
THEOREM CredentialsKeptTheorem == CredSpec => CredentialsKept
<1> DEFINE Keeps ==
      /\ creds.tokens.refresh # 0 /\ creds'.tokens.refresh = 0 =>
           WriteOf("clear_tokens") \/ WriteOf("clear_oauth")
      /\ creds.client /\ ~creds'.client => WriteOf("clear_oauth")
      /\ creds.metadata /\ ~creds'.metadata => WriteOf("clear_oauth")
      /\ creds.damaged => creds' = creds
<1>1. ASSUME UNCHANGED creds PROVE Keeps BY <1>1
<1>2. ASSUME CredInv, NEW f \in CredFlows, FlowCommits(f) PROVE Keeps
  <2>1. PICK o : o = flow[f].edit OBVIOUS
  <2>2. /\ CommitEdit(f, o) /\ o \in CredEdits /\ o.op \in FlowKinds /\ CredFile /\ f \in Writers
    BY <1>2, <2>1, CredConstants, SMT
    DEF FlowCommits, FlowFine, Flows, CredSessions, CredInv, CredPeople
  <2>3. /\ creds \in CredStores /\ creds.expires = creds.tokens.access /\ ~creds.damaged
        /\ draft[f] = creds /\ draft[f] # NoDraft
    BY <2>2 DEF CredFile, ExpiryOfToken, DraftsAgree, CommitEdit
  <2>4. creds' = Apply(o, creds) BY <2>2, <2>3 DEF CommitEdit
  <2>5. /\ creds.client => creds'.client
        /\ creds.metadata => creds'.metadata
        /\ creds.tokens.refresh # 0 /\ creds'.tokens.refresh = 0 => o.op = "clear_tokens"
    BY <2>2, <2>3, <2>4, FlowEdits
  <2>6. o.op = "clear_tokens" => WriteOf("clear_tokens") BY <2>1, <2>3 DEF WriteOf
  <2> QED BY <2>3, <2>5, <2>6
<1>3. ASSUME CredInv, CommandCommits PROVE Keeps
  <2>1. PICK o : o = cmd.edit OBVIOUS
  <2>2. /\ CommitEdit(Admin, o) /\ o \in CredEdits /\ o.op \in AdminKinds /\ CredFile
        /\ o.op # "clear_oauth" => o.secret \in CredSecrets
        /\ Admin \in Writers
    BY <1>3, <2>1, CredConstants
    DEF CommandCommits, CommandFine, CredCommands, CredInv, CredPeople
  <2>3. /\ creds \in CredStores /\ creds.expires = creds.tokens.access /\ ~creds.damaged
        /\ draft[Admin] = creds /\ draft[Admin] # NoDraft
    BY <2>2 DEF CredFile, ExpiryOfToken, DraftsAgree, CommitEdit
  <2>4. creds' = Apply(o, creds) BY <2>2, <2>3 DEF CommitEdit
  <2>5. o.op # "clear_oauth" => /\ creds.client => creds'.client
                                /\ creds.metadata => creds'.metadata
                                /\ creds'.tokens = creds.tokens
    BY <2>2, <2>3, <2>4, AdminEdits
  <2>6. o.op = "clear_oauth" => WriteOf("clear_oauth") BY <2>1, <2>3 DEF WriteOf
  <2> QED BY <2>3, <2>5, <2>6
<1>4. ASSUME CredInv, [CredNext]_acVars PROVE Keeps
  <2>1. ASSUME NEW f \in CredFlows, NEW r \in {"code", "error"}, NEW k \in {"call", "login"},
           \/ ResolveMaps(f, k) \/ CheckStatus(f) \/ LoadTokens(f) \/ LoadOthers(f) \/ Depart(f)
           \/ TokensRefreshed(f) \/ RefreshFails(f) \/ PersistMetadata(f)
           \/ Served(f) \/ Unauthorized(f) \/ RegisterClient(f) \/ Redirect(f)
           \/ Callback(f, r) \/ CallbackFails(f) \/ ExchangeCode(f)
        PROVE UNCHANGED creds
    BY <2>1 DEF ResolveMaps, CheckStatus, LoadTokens, LoadOthers, Depart, TokensRefreshed,
      RefreshFails, PersistMetadata, Served, Unauthorized, RegisterClient, Redirect, Callback,
      CallbackFails, ExchangeCode, CredRest
  <2>2. ASSUME NEW f \in CredFlows, FlowBegins(f) \/ FlowEnds(f) PROVE UNCHANGED creds
    BY <2>2 DEF FlowBegins, FlowEnds, BeginEdit, LetGo
  <2>3. ASSUME NEW k, NEW n, SecretCommand(k, n) PROVE UNCHANGED creds
    BY <2>3 DEF SecretCommand
  <2>4. CASE BeginLogout \/ RevokeStored \/ CommandBegins \/ CommandEnds \/ UNCHANGED acVars
    <3>1. UNCHANGED creds
      BY <2>4 DEF BeginLogout, RevokeStored, CommandBegins, CommandEnds, BeginEdit, LetGo, acVars
    <3> QED BY <3>1, <1>1
  <2> HIDE DEF Keeps
  <2> QED BY <2>1, <2>2, <2>3, <2>4, <1>1, <1>2, <1>3, <1>4 DEF CredNext
<1>5. CredInit => CredInv BY CredFirst
<1>6. CredInv /\ [CredNext]_acVars => CredInv' BY CredStep
<1>7. CredInv /\ [CredNext]_acVars => [Keeps]_acVars BY <1>4
<1> QED BY <1>5, <1>6, <1>7, PTL DEF CredSpec, CredentialsKept

(*****************************************************************************)
(* The workers of agent servers.                                             *)
(*****************************************************************************)
WorkerFields == {"at", "config", "up", "close", "asked", "line"}
AgentCallFields == {"pc", "worker", "config", "sent", "result"}
InLine == AgentCalls \cup {Stopper}

WorkersShaped ==
  /\ DOMAIN mcp = AgentCalls
  /\ \A w \in AgentCalls : DOMAIN mcp[w] = WorkerFields /\ mcp[w].line \in Seq(InLine)
CallsShaped ==
  /\ DOMAIN agentCall = AgentCalls
  /\ \A c \in AgentCalls :
       DOMAIN agentCall[c] = AgentCallFields /\ agentCall[c].worker \in InLine

\* The call c, of which m is known, with the workers mm: what it began under the barrier
\* is about the registered worker, and a request that is under way is at the head of the
\* line of a worker that runs.
CallFine(m, c, mm, registered, holder) ==
  /\ m.pc \in {"new", "replacing"} => mm[c].at = "none"
  /\ m.pc = "new" => m.worker = 0
  /\ m.worker # 0 => mm[m.worker].at # "none"
  /\ m.pc = "failed" => m.worker # 0
  /\ m.pc \in {"replacing", "retiring"} => holder = c /\ registered = m.worker /\ m.worker # 0
  /\ m.pc \in {"waiting", "posted"} \/ m.result = "ok" =>
       m.worker # 0 /\ mm[m.worker].config = m.config
  /\ m.pc \in {"new", "replacing", "waiting", "posted"} => m.result = "none"
  /\ m.pc \in {"new", "replacing", "waiting"} => m.sent = "no"
  /\ m.result = "cut" => m.sent # "running"
  /\ m.pc = "posted" /\ m.sent = "running" =>
       mm[m.worker].at = "running" /\ mm[m.worker].line # <<>> /\ Head(mm[m.worker].line) = c
CallsFine == \A c \in AgentCalls : CallFine(agentCall[c], c, mcp, current, barrier)

AgentInv ==
  /\ WorkersShaped /\ CallsShaped /\ current \in InLine /\ barrier \in InLine
  /\ current # 0 => mcp[current].at # "none"
  /\ OneProcess /\ CallsFine

LEMMA AgentFacts == AgentCalls \subseteq Nat \ {0} /\ 0 \notin AgentCalls /\ 0 \in InLine
BY AgentWorkersAssumption DEF AgentCalls, InLine, Stopper

\* What the workers are to the calls other than those that a step is about.
WorkersCarry(mm, nn) ==
  \A w \in AgentCalls : mm[w].at # "none" => nn[w].at # "none" /\ nn[w].config = mm[w].config
\* The request of call c, if it is under way at w, still is.
HeadStays(mm, nn, c, w) ==
  mm[w].at = "running" /\ mm[w].line # <<>> /\ Head(mm[w].line) = c =>
    nn[w].at = "running" /\ nn[w].line # <<>> /\ Head(nn[w].line) = c

LEMMA CallCarried ==
  ASSUME NEW m, NEW c \in AgentCalls, NEW mm, NEW nn, NEW r, NEW h, NEW r2, NEW h2,
         m.worker \in InLine, CallFine(m, c, mm, r, h), WorkersCarry(mm, nn),
         m.pc \in {"new", "replacing"} => nn[c].at = "none",
         m.pc \in {"replacing", "retiring"} => h2 = h /\ r2 = r,
         m.pc = "posted" /\ m.sent = "running" => HeadStays(mm, nn, c, m.worker)
  PROVE  CallFine(m, c, nn, r2, h2)
<1>1. m.worker # 0 => m.worker \in AgentCalls BY DEF InLine, Stopper
<1>2. m.worker # 0 => nn[m.worker].at # "none" /\ nn[m.worker].config = mm[m.worker].config
  BY <1>1 DEF WorkersCarry, CallFine
<1>3. m.pc = "posted" /\ m.sent = "running" =>
        nn[m.worker].at = "running" /\ nn[m.worker].line # <<>> /\ Head(nn[m.worker].line) = c
  BY DEF CallFine, HeadStays
<1> QED BY <1>2, <1>3 DEF CallFine

\* A step of one worker.
WorkerMoves(w, n) == mcp' = [mcp EXCEPT ![w] = n]

LEMMA WorkerStep ==
  ASSUME AgentInv, NEW w \in AgentCalls, NEW n, WorkerMoves(w, n),
         UNCHANGED <<current, barrier, agentCall>>,
         DOMAIN n = WorkerFields, n.line \in Seq(InLine), n.config = mcp[w].config,
         n.at = "none" <=> mcp[w].at = "none",
         n.at \notin {"none", "closed"} => Living(w),
         \A c \in AgentCalls : Calls(c, "posted") /\ agentCall[c].sent = "running" =>
           (mcp[w].at = "running" /\ mcp[w].line # <<>> /\ Head(mcp[w].line) = c =>
              n.at = "running" /\ n.line # <<>> /\ Head(n.line) = c)
  PROVE  AgentInv'
<1>1. /\ DOMAIN mcp' = AgentCalls /\ mcp'[w] = n
      /\ \A u \in AgentCalls \ {w} : mcp'[u] = mcp[u]
  BY DEF AgentInv, WorkersShaped, WorkerMoves
<1>2. WorkersShaped' BY <1>1 DEF AgentInv, WorkersShaped
<1>3. CallsShaped' BY DEF AgentInv, CallsShaped
<1>4. OneProcess' BY <1>1 DEF AgentInv, OneProcess, Living
<1>5. WorkersCarry(mcp, mcp') BY <1>1 DEF WorkersCarry
<1>6. CallsFine'
  <2>1. SUFFICES ASSUME NEW c \in AgentCalls
        PROVE  CallFine(agentCall[c], c, mcp', current, barrier)
    BY DEF CallsFine
  <2>2. CallFine(agentCall[c], c, mcp, current, barrier) /\ agentCall[c].worker \in InLine
    BY DEF AgentInv, CallsFine, CallsShaped
  <2>3. agentCall[c].pc \in {"new", "replacing"} => mcp'[c].at = "none" BY <1>1, <2>2 DEF CallFine
  <2>4. agentCall[c].pc = "posted" /\ agentCall[c].sent = "running" =>
          HeadStays(mcp, mcp', c, agentCall[c].worker)
    BY <1>1, <2>2 DEF CallFine, HeadStays, Calls, InLine, Stopper
  <2> QED BY <1>5, <2>2, <2>3, <2>4, CallCarried
<1>7. current # 0 => mcp'[current].at # "none" BY <1>1 DEF AgentInv, InLine, Stopper
<1> QED BY <1>2, <1>3, <1>4, <1>6, <1>7 DEF AgentInv

LEMMA WorkerShape ==
  ASSUME AgentInv, NEW w \in AgentCalls
  PROVE  DOMAIN mcp[w] = WorkerFields /\ mcp[w].line \in Seq(InLine)
BY DEF AgentInv, WorkersShaped

LEMMA LoopRunsStep ==
  ASSUME AgentInv, NEW w \in AgentCalls, LoopRuns(w) \/ Initialized(w) \/ StartFails(w)
  PROVE  AgentInv'
<1>1. /\ mcp[w].at \in {"new", "starting"} /\ w # 0 /\ UNCHANGED <<current, barrier, agentCall>>
  BY DEF LoopRuns, Initialized, StartFails, ThreadIs
<1>2. DOMAIN mcp[w] = WorkerFields /\ mcp[w].line \in Seq(InLine) BY WorkerShape
<1>3. Living(w) BY <1>1 DEF Living
<1>4. ASSUME NEW at \in {"starting", "running", "retiring"}, NEW n,
             n = [mcp[w] EXCEPT !.at = at] \/ \E up : n = [mcp[w] EXCEPT !.at = at, !.up = up],
             WorkerMoves(w, n)
      PROVE  AgentInv'
  <2>1. DOMAIN n = WorkerFields /\ n.line = mcp[w].line /\ n.config = mcp[w].config /\ n.at = at
    BY <1>2, <1>4 DEF WorkerFields
  <2>2. n.at # "none" /\ mcp[w].at # "none" /\ mcp[w].at # "running" BY <1>1, <1>4, <2>1
  <2> QED BY <1>1, <1>2, <1>3, <1>4, <2>1, <2>2, WorkerStep
<1>5. CASE LoopRuns(w)
  <2>1. PICK at \in {"starting", "retiring"} : at = IF mcp[w].close THEN "retiring" ELSE "starting"
    OBVIOUS
  <2>2. WorkerMoves(w, [mcp[w] EXCEPT !.at = at]) BY <1>5, <2>1 DEF LoopRuns, WorkerMoves
  <2> QED BY <1>4, <2>2
<1>6. CASE Initialized(w)
  <2>1. PICK at \in {"running", "retiring"} : at = IF mcp[w].close THEN "retiring" ELSE "running"
    OBVIOUS
  <2>2. PICK up : up = ~mcp[w].close OBVIOUS
  <2>3. WorkerMoves(w, [mcp[w] EXCEPT !.at = at, !.up = up])
    BY <1>6, <2>1, <2>2 DEF Initialized, WorkerMoves
  <2> QED BY <1>4, <2>3
<1>7. CASE StartFails(w)
  <2>1. WorkerMoves(w, [mcp[w] EXCEPT !.at = "retiring"]) BY <1>7 DEF StartFails, WorkerMoves
  <2> QED BY <1>4, <2>1
<1> QED BY <1>5, <1>6, <1>7

\* A step of the loop, or of an operation that is taken away: the head of the line
\* that is the request under way stays.
LEMMA NoRequest ==
  ASSUME AgentInv, NEW w \in AgentCalls, mcp[w].line # <<>>,
         Head(mcp[w].line) = Stopper \/
           \E d \in AgentCalls : Head(mcp[w].line) = d /\ ~(Calls(d, "posted") /\ agentCall[d].sent = "running")
  PROVE  \A c \in AgentCalls : Calls(c, "posted") /\ agentCall[c].sent = "running" =>
           Head(mcp[w].line) # c
BY AgentFacts DEF Stopper

LEMMA LineGrows ==
  ASSUME NEW s \in Seq(InLine), NEW x \in InLine
  PROVE  /\ Append(s, x) \in Seq(InLine) /\ Append(s, x) # <<>>
         /\ s # <<>> => Head(Append(s, x)) = Head(s)
<1>1. PICK t : t = Append(s, x) OBVIOUS
<1>2. t \in Seq(InLine) /\ Len(t) = Len(s) + 1 /\ Len(s) \in Nat BY <1>1
<1>3. t # <<>> BY <1>2
<1>4. ASSUME s # <<>> PROVE Head(t) = Head(s)
  <2>1. 1 \in 1..Len(s) BY <1>4
  <2>2. t[1] = s[1] BY <1>1, <2>1
  <2> QED BY <1>2, <1>3, <1>4, <2>2
<1> QED BY <1>1, <1>2, <1>3, <1>4

LEMMA OnLoopStep == ASSUME AgentInv, NEW w \in AgentCalls, OnLoop(w) PROVE AgentInv'
<1>1. DOMAIN mcp[w] = WorkerFields /\ mcp[w].line \in Seq(InLine) BY WorkerShape
<1>2. Living(w) /\ UNCHANGED <<current, barrier, agentCall>> BY DEF OnLoop
<1>3. PICK n : n = [Stopped(mcp[w]) EXCEPT !.asked = FALSE] OBVIOUS
<1>4. WorkerMoves(w, n) BY <1>3 DEF OnLoop, WorkerMoves
<1>5. CASE mcp[w].at = "starting"
  <2>1. n = [[mcp[w] EXCEPT !.at = "retiring"] EXCEPT !.asked = FALSE] BY <1>3, <1>5 DEF Stopped
  <2>2. DOMAIN n = WorkerFields /\ n.line = mcp[w].line /\ n.config = mcp[w].config
        /\ n.at = "retiring"
    BY <1>1, <2>1 DEF WorkerFields
  <2> QED BY <1>1, <1>2, <1>4, <1>5, <2>2, WorkerStep
<1>6. CASE mcp[w].at = "running"
  <2>1. n = [[mcp[w] EXCEPT !.line = Append(@, Stopper)] EXCEPT !.asked = FALSE]
    BY <1>3, <1>6 DEF Stopped
  <2>2. DOMAIN n = WorkerFields /\ n.line = Append(mcp[w].line, Stopper)
        /\ n.config = mcp[w].config /\ n.at = "running"
    BY <1>1, <1>6, <2>1 DEF WorkerFields
  <2>3. n.line \in Seq(InLine) /\ n.line # <<>>
        /\ (mcp[w].line # <<>> => Head(n.line) = Head(mcp[w].line))
    BY <1>1, <2>2, LineGrows, AgentFacts DEF Stopper
  <2> QED BY <1>1, <1>2, <1>4, <1>6, <2>2, <2>3, WorkerStep
<1>7. CASE mcp[w].at \notin {"starting", "running"}
  <2>1. n = [mcp[w] EXCEPT !.asked = FALSE] BY <1>3, <1>7 DEF Stopped
  <2>2. DOMAIN n = WorkerFields /\ n.line = mcp[w].line /\ n.config = mcp[w].config
        /\ n.at = mcp[w].at
    BY <1>1, <2>1 DEF WorkerFields
  <2> QED BY <1>1, <1>2, <1>4, <1>7, <2>2, WorkerStep
<1> QED BY <1>5, <1>6, <1>7

LEMMA StopStep == ASSUME AgentInv, NEW w \in AgentCalls, Stop(w) PROVE AgentInv'
<1>1. DOMAIN mcp[w] = WorkerFields /\ mcp[w].line \in Seq(InLine) BY WorkerShape
<1>2. PICK n : n = [[mcp[w] EXCEPT !.line = Tail(@)] EXCEPT !.at = "retiring"] OBVIOUS
<1>3. WorkerMoves(w, n) /\ UNCHANGED <<current, barrier, agentCall>>
      /\ mcp[w].at \in {"running", "retiring"}
      /\ mcp[w].line # <<>> /\ Head(mcp[w].line) = Stopper
  BY <1>2 DEF Stop, WorkerMoves
<1>4. DOMAIN n = WorkerFields /\ n.line = Tail(mcp[w].line) /\ n.config = mcp[w].config
      /\ n.at = "retiring"
  BY <1>1, <1>2 DEF WorkerFields
<1>5. n.line \in Seq(InLine) BY <1>1, <1>3, <1>4
<1>6. Living(w) BY <1>3 DEF Living
<1>7. \A c \in AgentCalls : Calls(c, "posted") /\ agentCall[c].sent = "running" => Head(mcp[w].line) # c
  BY <1>3, NoRequest
<1> QED BY <1>3, <1>4, <1>5, <1>6, <1>7, WorkerStep

LEMMA LineShortened ==
  ASSUME NEW s \in Seq(InLine), NEW i \in DOMAIN s
  PROVE  /\ LineWithout(s, i) \in Seq(InLine)
         /\ i # 1 => LineWithout(s, i) # <<>> /\ Head(LineWithout(s, i)) = Head(s)
<1>1. Len(s) \in Nat /\ DOMAIN s = 1..Len(s) /\ Len(s) - 1 \in Nat OBVIOUS
<1>2. PICK n \in Nat : n = Len(s) - 1 BY <1>1
<1>3. LineWithout(s, i) = [j \in 1..n |-> s[IF j < i THEN j ELSE j + 1]]
  BY <1>2 DEF LineWithout
<1>4. \A j \in 1..n : s[IF j < i THEN j ELSE j + 1] \in InLine BY <1>1, <1>2
<1>5. LineWithout(s, i) \in Seq(InLine) /\ Len(LineWithout(s, i)) = n BY <1>3, <1>4
<1>6. ASSUME i # 1 PROVE LineWithout(s, i) # <<>> /\ Head(LineWithout(s, i)) = Head(s)
  <2>1. 1 \in 1..n /\ 1 < i BY <1>1, <1>2, <1>6
  <2>2. LineWithout(s, i)[1] = s[1] BY <1>3, <2>1
  <2>3. LineWithout(s, i) # <<>> BY <1>5, <2>1
  <2> QED BY <1>1, <1>5, <2>1, <2>2, <2>3
<1> QED BY <1>5, <1>6

LEMMA AbandonedStep == ASSUME AgentInv, NEW c \in AgentCalls, Abandoned(c) PROVE AgentInv'
<1>1. PICK w : w = agentCall[c].worker OBVIOUS
<1>2. w \in AgentCalls /\ agentCall[c].result = "gave up"
  BY <1>1 DEF Abandoned, AgentInv, CallsShaped, InLine, Stopper
<1>3. PICK i \in DOMAIN mcp[w].line :
        mcp[w].line[i] = c /\ mcp' = [mcp EXCEPT ![w].line = LineWithout(@, i)]
  BY <1>1 DEF Abandoned
<1>4. DOMAIN mcp[w] = WorkerFields /\ mcp[w].line \in Seq(InLine) BY <1>2, WorkerShape
<1>5. PICK n : n = [mcp[w] EXCEPT !.line = LineWithout(@, i)] OBVIOUS
<1>6. WorkerMoves(w, n) /\ UNCHANGED <<current, barrier, agentCall>>
  BY <1>3, <1>5 DEF Abandoned, WorkerMoves
<1>7. PICK s : s = LineWithout(mcp[w].line, i) OBVIOUS
<1>8. s \in Seq(InLine) /\ (i # 1 => s # <<>> /\ Head(s) = Head(mcp[w].line))
  BY <1>3, <1>4, <1>7, LineShortened
<1>9. DOMAIN n = WorkerFields /\ n.line = s /\ n.config = mcp[w].config /\ n.at = mcp[w].at
  BY <1>4, <1>5, <1>7 DEF WorkerFields
<1>10. ~Calls(c, "posted")
  BY <1>2 DEF AgentInv, CallsFine, CallFine, Calls
<1>11. i = 1 => \A d \in AgentCalls : Calls(d, "posted") /\ agentCall[d].sent = "running" =>
                  Head(mcp[w].line) # d
  <2>1. i = 1 => Head(mcp[w].line) = c BY <1>3, <1>4
  <2> QED BY <1>10, <2>1
<1>12. \A d \in AgentCalls : Calls(d, "posted") /\ agentCall[d].sent = "running" =>
         (mcp[w].at = "running" /\ mcp[w].line # <<>> /\ Head(mcp[w].line) = d =>
            n.at = "running" /\ n.line # <<>> /\ Head(n.line) = d)
  BY <1>8, <1>9, <1>11
<1>13. n.at \notin {"none", "closed"} => Living(w) BY <1>9 DEF Living
<1> QED BY <1>2, <1>6, <1>8, <1>9, <1>12, <1>13, WorkerStep

\* A step of one call.
OthersStay(c) ==
  /\ DOMAIN agentCall' = AgentCalls /\ DOMAIN agentCall'[c] = AgentCallFields
  /\ agentCall'[c].worker \in InLine
  /\ \A d \in AgentCalls \ {c} : agentCall'[d] = agentCall[d]

LEMMA CallStep ==
  ASSUME AgentInv, NEW c \in AgentCalls, OthersStay(c),
         WorkersShaped', current' \in InLine, barrier' \in InLine,
         current' # 0 => mcp'[current'].at # "none", OneProcess',
         WorkersCarry(mcp, mcp'), CallFine(agentCall'[c], c, mcp', current', barrier'),
         \A d \in AgentCalls \ {c} :
           /\ agentCall[d].pc \in {"new", "replacing"} => mcp'[d].at = "none"
           /\ agentCall[d].pc \in {"replacing", "retiring"} =>
                barrier' = barrier /\ current' = current
           /\ agentCall[d].pc = "posted" /\ agentCall[d].sent = "running" =>
                HeadStays(mcp, mcp', d, agentCall[d].worker)
  PROVE  AgentInv'
<1>1. CallsShaped' BY DEF AgentInv, CallsShaped, OthersStay
<1>2. CallsFine'
  <2>1. SUFFICES ASSUME NEW d \in AgentCalls
        PROVE  CallFine(agentCall'[d], d, mcp', current', barrier')
    BY DEF CallsFine
  <2>2. CASE d # c
    <3>1. agentCall'[d] = agentCall[d] BY <2>2 DEF OthersStay
    <3>2. CallFine(agentCall[d], d, mcp, current, barrier) /\ agentCall[d].worker \in InLine
      BY DEF AgentInv, CallsFine, CallsShaped
    <3>3. CallFine(agentCall[d], d, mcp', current', barrier') BY <2>2, <3>2, CallCarried
    <3> QED BY <3>1, <3>3
  <2> QED BY <2>2
<1> QED BY <1>1, <1>2 DEF AgentInv

\* A step of one call that leaves the workers and the barrier alone.
LEMMA CallAlone ==
  ASSUME AgentInv, NEW c \in AgentCalls, OthersStay(c), UNCHANGED <<mcp, current, barrier>>,
         CallFine(agentCall'[c], c, mcp, current, barrier)
  PROVE  AgentInv'
<1>1. /\ WorkersShaped' /\ OneProcess' /\ WorkersCarry(mcp, mcp')
      /\ current' # 0 => mcp'[current'].at # "none"
  BY DEF AgentInv, WorkersShaped, OneProcess, Living, WorkersCarry
<1>2. current' \in InLine /\ barrier' \in InLine
      /\ CallFine(agentCall'[c], c, mcp', current', barrier')
  BY DEF AgentInv
<1>3. ASSUME NEW d \in AgentCalls \ {c}
      PROVE  /\ agentCall[d].pc \in {"new", "replacing"} => mcp'[d].at = "none"
             /\ agentCall[d].pc \in {"replacing", "retiring"} =>
                  barrier' = barrier /\ current' = current
             /\ agentCall[d].pc = "posted" /\ agentCall[d].sent = "running" =>
                  HeadStays(mcp, mcp', d, agentCall[d].worker)
  BY <1>3 DEF AgentInv, CallsFine, CallFine, HeadStays
<1> QED BY <1>1, <1>2, <1>3, CallStep

LEMMA ReuseStep ==
  ASSUME AgentInv, NEW c \in AgentCalls, NEW k, Reuse(c, k) PROVE AgentInv'
<1>1. /\ UNCHANGED <<mcp, current, barrier>> /\ agentCall[c].pc = "new"
      /\ current # 0 /\ mcp[current].config = k /\ mcp[current].at # "none"
      /\ agentCall' = [agentCall EXCEPT ![c].pc = "waiting", ![c].worker = current,
                                        ![c].config = k]
  BY DEF Reuse, NextCall, Calls, Usable, Living
<1>2. OthersStay(c) /\ agentCall'[c].pc = "waiting" /\ agentCall'[c].worker = current
      /\ agentCall'[c].config = k /\ agentCall'[c].sent = agentCall[c].sent
      /\ agentCall'[c].result = agentCall[c].result
  BY <1>1 DEF OthersStay, AgentInv, CallsShaped, AgentCallFields
<1>3. agentCall[c].sent = "no" /\ agentCall[c].result = "none"
  BY <1>1 DEF AgentInv, CallsFine, CallFine
<1>4. CallFine(agentCall'[c], c, mcp, current, barrier) BY <1>1, <1>2, <1>3 DEF CallFine
<1> QED BY <1>1, <1>2, <1>4, CallAlone

LEMMA BeginRetireStep ==
  ASSUME AgentInv, NEW c \in AgentCalls, BeginRetire(c) PROVE AgentInv'
<1>1. /\ UNCHANGED <<mcp, current, barrier>> /\ agentCall[c].pc = "new" /\ current # 0
      /\ agentCall' = [agentCall EXCEPT ![c].pc = "failed", ![c].worker = current]
  BY DEF BeginRetire, NextCall, Calls
<1>2. OthersStay(c) /\ agentCall'[c].pc = "failed" /\ agentCall'[c].worker = current
      /\ agentCall'[c].sent = agentCall[c].sent /\ agentCall'[c].result = agentCall[c].result
  BY <1>1 DEF OthersStay, AgentInv, CallsShaped, AgentCallFields
<1>3. agentCall[c].sent = "no" /\ agentCall[c].result = "none" /\ mcp[current].at # "none"
  BY <1>1 DEF AgentInv, CallsFine, CallFine
<1>4. CallFine(agentCall'[c], c, mcp, current, barrier) BY <1>1, <1>2, <1>3 DEF CallFine
<1> QED BY <1>1, <1>2, <1>4, CallAlone

LEMMA AgentGivesUpStep ==
  ASSUME AgentInv, NEW c \in AgentCalls, AgentGivesUp(c) PROVE AgentInv'
<1>1. /\ UNCHANGED <<mcp, current, barrier>> /\ agentCall[c].pc \in {"waiting", "posted"}
      /\ agentCall' = [agentCall EXCEPT ![c].pc = "failed", ![c].result = "gave up"]
  BY DEF AgentGivesUp, Results
<1>2. OthersStay(c) /\ agentCall'[c].pc = "failed" /\ agentCall'[c].result = "gave up"
      /\ agentCall'[c].worker = agentCall[c].worker
  BY <1>1 DEF OthersStay, AgentInv, CallsShaped, AgentCallFields
<1>3. CallFine(agentCall[c], c, mcp, current, barrier) BY DEF AgentInv, CallsFine
<1>4. CallFine(agentCall'[c], c, mcp, current, barrier) BY <1>1, <1>2, <1>3 DEF CallFine
<1> QED BY <1>1, <1>2, <1>4, CallAlone

LEMMA SendRequestStep ==
  ASSUME AgentInv, NEW c \in AgentCalls, SendRequest(c) PROVE AgentInv'
<1>1. PICK how \in {"running", "late"} :
        /\ how = "running" => mcp[agentCall[c].worker].at = "running"
        /\ agentCall' = [agentCall EXCEPT ![c].sent = how]
  BY DEF SendRequest, ThreadIs
<1>. UNCHANGED <<mcp, current, barrier>> /\ agentCall[c].pc = "posted" /\ Holds(c)
  BY DEF SendRequest, Calls
<1>2. OthersStay(c) /\ agentCall'[c].sent = how /\ agentCall'[c].pc = agentCall[c].pc
      /\ agentCall'[c].result = agentCall[c].result /\ agentCall'[c].worker = agentCall[c].worker
      /\ agentCall'[c].config = agentCall[c].config
  BY <1>1 DEF OthersStay, AgentInv, CallsShaped, AgentCallFields
<1>3. CallFine(agentCall[c], c, mcp, current, barrier) BY DEF AgentInv, CallsFine
<1>4. agentCall[c].result = "none" BY <1>1, <1>3 DEF CallFine
<1>5. CallFine(agentCall'[c], c, mcp, current, barrier)
  BY <1>1, <1>2, <1>3, <1>4 DEF CallFine, Holds
<1> QED BY <1>1, <1>2, <1>5, CallAlone

\* Worker w becomes n while call c changes.
WorkerIs(w, n) ==
  /\ DOMAIN mcp' = AgentCalls /\ mcp'[w] = n
  /\ \A u \in AgentCalls \ {w} : mcp'[u] = mcp[u]

LEMMA BothStep ==
  ASSUME AgentInv, NEW c \in AgentCalls, NEW w \in AgentCalls, NEW n, WorkerIs(w, n),
         DOMAIN n = WorkerFields, n.line \in Seq(InLine), n.config = mcp[w].config,
         n.at = mcp[w].at, mcp[w].at # "none", OthersStay(c),
         CallFine(agentCall'[c], c, mcp', current', barrier'),
         current' = current, barrier' \in InLine,
         \A d \in AgentCalls \ {c} :
           /\ agentCall[d].pc \in {"replacing", "retiring"} => barrier' = barrier
           /\ agentCall[d].pc = "posted" /\ agentCall[d].sent = "running" =>
                HeadStays(mcp, mcp', d, w)
  PROVE  AgentInv'
<1>1. WorkersShaped' BY DEF AgentInv, WorkersShaped, WorkerIs
<1>2. WorkersCarry(mcp, mcp') BY DEF WorkerIs, WorkersCarry
<1>3. OneProcess' BY DEF AgentInv, OneProcess, Living, WorkerIs
<1>4. current' \in InLine /\ (current' # 0 => mcp'[current'].at # "none")
  BY DEF AgentInv, InLine, Stopper, WorkerIs
<1>5. ASSUME NEW d \in AgentCalls \ {c}
      PROVE  /\ agentCall[d].pc \in {"new", "replacing"} => mcp'[d].at = "none"
             /\ agentCall[d].pc \in {"replacing", "retiring"} =>
                  barrier' = barrier /\ current' = current
             /\ agentCall[d].pc = "posted" /\ agentCall[d].sent = "running" =>
                  HeadStays(mcp, mcp', d, agentCall[d].worker)
  <2>1. CallFine(agentCall[d], d, mcp, current, barrier) /\ agentCall[d].worker \in InLine
    BY DEF AgentInv, CallsFine, CallsShaped
  <2>2. agentCall[d].pc \in {"new", "replacing"} => mcp'[d].at = "none"
    BY <2>1 DEF CallFine, WorkerIs
  <2>3. agentCall[d].pc = "posted" /\ agentCall[d].sent = "running" =>
          HeadStays(mcp, mcp', d, agentCall[d].worker)
    BY <2>1 DEF CallFine, HeadStays, WorkerIs, InLine, Stopper
  <2> QED BY <2>2, <2>3
<1> QED BY <1>1, <1>2, <1>3, <1>4, <1>5, CallStep

LEMMA OperationPosted == ASSUME AgentInv, NEW c \in AgentCalls, Post(c) PROVE AgentInv'
<1>1. PICK w : w = agentCall[c].worker OBVIOUS
<1>2. UNCHANGED <<current, barrier>> /\ agentCall[c].pc = "waiting"
  BY DEF Post, Calls
<1>3. CallFine(agentCall[c], c, mcp, current, barrier) /\ w \in InLine
  BY <1>1 DEF AgentInv, CallsFine, CallsShaped
<1>4. w \in AgentCalls /\ mcp[w].at # "none" /\ agentCall[c].result = "none"
      /\ agentCall[c].sent = "no" /\ mcp[w].config = agentCall[c].config
  BY <1>1, <1>2, <1>3 DEF CallFine, InLine, Stopper
<1>5. CASE ThreadIs(w, "closed")
  <2>1. /\ UNCHANGED mcp
        /\ agentCall' = [agentCall EXCEPT ![c].pc = "failed", ![c].result = "error"]
    BY <1>1, <1>5 DEF Post, Results
  <2>2. OthersStay(c) /\ agentCall'[c].pc = "failed" /\ agentCall'[c].result = "error"
        /\ agentCall'[c].worker = w
    BY <1>1, <2>1 DEF OthersStay, AgentInv, CallsShaped, AgentCallFields
  <2>3. CallFine(agentCall'[c], c, mcp, current, barrier) BY <1>4, <2>2, AgentFacts DEF CallFine
  <2> QED BY <1>2, <2>1, <2>2, <2>3, CallAlone
<1>6. CASE ~ThreadIs(w, "closed")
  <2>1. /\ agentCall' = [agentCall EXCEPT ![c].pc = "posted"]
        /\ mcp' = [mcp EXCEPT ![w].line = Append(@, c)]
    BY <1>1, <1>6 DEF Post, AgentGoes
  <2>2. OthersStay(c) /\ agentCall'[c].pc = "posted" /\ agentCall'[c].worker = w
        /\ agentCall'[c].result = "none" /\ agentCall'[c].sent = "no"
        /\ agentCall'[c].config = agentCall[c].config
    BY <1>1, <1>4, <2>1 DEF OthersStay, AgentInv, CallsShaped, AgentCallFields
  <2>3. DOMAIN mcp[w] = WorkerFields /\ mcp[w].line \in Seq(InLine) BY <1>4, WorkerShape
  <2>4. PICK n : n = [mcp[w] EXCEPT !.line = Append(@, c)] OBVIOUS
  <2>5. WorkerIs(w, n) BY <1>4, <2>1, <2>4 DEF WorkerIs, AgentInv, WorkersShaped
  <2>6. DOMAIN n = WorkerFields /\ n.line = Append(mcp[w].line, c) /\ n.at = mcp[w].at
        /\ n.config = mcp[w].config
    BY <2>3, <2>4 DEF WorkerFields
  <2>7. n.line \in Seq(InLine) /\ n.line # <<>>
        /\ (mcp[w].line # <<>> => Head(n.line) = Head(mcp[w].line))
    BY <2>3, <2>6, LineGrows DEF InLine
  <2>8. \A d \in AgentCalls : HeadStays(mcp, mcp', d, w) BY <2>5, <2>6, <2>7 DEF HeadStays, WorkerIs
  <2>9. CallFine(agentCall'[c], c, mcp', current', barrier')
    BY <1>4, <2>2, <2>5, <2>6, AgentFacts DEF CallFine, WorkerIs
  <2>10. barrier' \in InLine /\ barrier' = barrier /\ current' = current BY <1>2 DEF AgentInv
  <2> QED BY <1>4, <2>2, <2>5, <2>6, <2>7, <2>8, <2>9, <2>10, BothStep
<1> QED BY <1>5, <1>6

LEMMA ServerAnswersStep ==
  ASSUME AgentInv, NEW c \in AgentCalls, ServerAnswers(c) PROVE AgentInv'
<1>1. PICK w : w = agentCall[c].worker OBVIOUS
<1>2. UNCHANGED <<current, barrier>> /\ agentCall[c].pc = "posted" /\ mcp[w].line # <<>>
      /\ Head(mcp[w].line) = c /\ w # 0
      /\ mcp' = [mcp EXCEPT ![w].line = Tail(@)]
  BY <1>1 DEF ServerAnswers, Calls, Holds
<1>3. CallFine(agentCall[c], c, mcp, current, barrier) /\ w \in AgentCalls
  BY <1>1, <1>2 DEF AgentInv, CallsFine, CallsShaped, InLine, Stopper
<1>4. mcp[w].at # "none" /\ mcp[w].config = agentCall[c].config
  BY <1>1, <1>2, <1>3 DEF CallFine
<1>5. PICK pc \in {"end", "failed"}, r \in {"ok", "error"} :
        agentCall' = [agentCall EXCEPT ![c].pc = pc, ![c].result = r]
  BY DEF ServerAnswers, Results
<1>6. OthersStay(c) /\ agentCall'[c].pc \in {"end", "failed"} /\ agentCall'[c].worker = w
      /\ agentCall'[c].result \in {"ok", "error"} /\ agentCall'[c].config = agentCall[c].config
  BY <1>1, <1>5 DEF OthersStay, AgentInv, CallsShaped, AgentCallFields
<1>7. DOMAIN mcp[w] = WorkerFields /\ mcp[w].line \in Seq(InLine) BY <1>3, WorkerShape
<1>8. PICK n : n = [mcp[w] EXCEPT !.line = Tail(@)] OBVIOUS
<1>9. WorkerIs(w, n) BY <1>2, <1>3, <1>8 DEF WorkerIs, AgentInv, WorkersShaped
<1>10. DOMAIN n = WorkerFields /\ n.line = Tail(mcp[w].line) /\ n.at = mcp[w].at
       /\ n.config = mcp[w].config
  BY <1>7, <1>8 DEF WorkerFields
<1>11. n.line \in Seq(InLine) BY <1>2, <1>7, <1>10
<1>12. \A d \in AgentCalls \ {c} : HeadStays(mcp, mcp', d, w) BY <1>2 DEF HeadStays
<1>13. CallFine(agentCall'[c], c, mcp', current', barrier')
  BY <1>3, <1>4, <1>6, <1>9, <1>10, AgentFacts DEF CallFine, WorkerIs
<1>14. barrier' \in InLine /\ barrier' = barrier /\ current' = current BY <1>2 DEF AgentInv
<1> QED BY <1>3, <1>4, <1>6, <1>9, <1>10, <1>11, <1>12, <1>13, <1>14, BothStep

LEMMA ClosingKeeps ==
  ASSUME NEW v, DOMAIN v = WorkerFields
  PROVE  DOMAIN ClosingOf(v) = WorkerFields /\ ClosingOf(v).line = v.line
         /\ ClosingOf(v).at = v.at /\ ClosingOf(v).config = v.config
BY DEF ClosingOf, WorkerFields

\* Call c takes the barrier and asks the registered worker to close.
LEMMA ClosingStep ==
  ASSUME AgentInv, NEW c \in AgentCalls, OthersStay(c), current # 0, barrier = 0,
         RequestClose(current), current' = current, barrier' = c,
         agentCall'[c].worker = current, agentCall'[c].pc \in {"replacing", "retiring"},
         agentCall'[c].pc = "replacing" =>
           mcp[c].at = "none" /\ agentCall'[c].result = "none" /\ agentCall'[c].sent = "no",
         agentCall'[c].result = "ok" => mcp[current].config = agentCall'[c].config,
         agentCall'[c].result = "cut" => agentCall'[c].sent # "running"
  PROVE  AgentInv'
<1>1. current \in AgentCalls /\ mcp[current].at # "none" BY DEF AgentInv, InLine, Stopper
<1>2. DOMAIN mcp[current] = WorkerFields /\ mcp[current].line \in Seq(InLine)
  BY <1>1, WorkerShape
<1>3. PICK n : n = ClosingOf(mcp[current]) OBVIOUS
<1>4. WorkerIs(current, n)
  BY <1>1, <1>3 DEF WorkerIs, RequestClose, AgentInv, WorkersShaped
<1>5. PICK v : v = mcp[current] OBVIOUS
<1>6. DOMAIN n = WorkerFields /\ n.line = v.line /\ n.at = v.at /\ n.config = v.config
  BY <1>2, <1>3, <1>5, ClosingKeeps
<1>7. \A d \in AgentCalls : HeadStays(mcp, mcp', d, current)
  BY <1>4, <1>5, <1>6 DEF HeadStays, WorkerIs
<1>8. CallFine(agentCall'[c], c, mcp', current', barrier')
  BY <1>1, <1>4, <1>5, <1>6, AgentFacts DEF CallFine, WorkerIs
<1>9. \A d \in AgentCalls \ {c} : agentCall[d].pc \notin {"replacing", "retiring"}
  BY AgentFacts DEF AgentInv, CallsFine, CallFine
<1>10. barrier' \in InLine BY DEF InLine
<1> QED BY <1>1, <1>2, <1>4, <1>5, <1>6, <1>7, <1>8, <1>9, <1>10, BothStep

LEMMA BeginReplaceStep ==
  ASSUME AgentInv, NEW c \in AgentCalls, NEW k, BeginReplace(c, k) PROVE AgentInv'
<1>1. /\ agentCall[c].pc = "new" /\ barrier = 0 /\ current # 0 /\ RequestClose(current)
      /\ barrier' = c /\ current' = current
      /\ agentCall' = [agentCall EXCEPT ![c].pc = "replacing", ![c].worker = current,
                                        ![c].config = k]
  BY DEF BeginReplace, NextCall, Calls
<1>2. OthersStay(c) /\ agentCall'[c].pc = "replacing" /\ agentCall'[c].worker = current
      /\ agentCall'[c].sent = agentCall[c].sent /\ agentCall'[c].result = agentCall[c].result
  BY <1>1 DEF OthersStay, AgentInv, CallsShaped, AgentCallFields
<1>3. agentCall[c].sent = "no" /\ agentCall[c].result = "none" /\ mcp[c].at = "none"
  BY <1>1 DEF AgentInv, CallsFine, CallFine
<1> QED BY <1>1, <1>2, <1>3, ClosingStep

LEMMA RetireStep == ASSUME AgentInv, NEW c \in AgentCalls, Retire(c) PROVE AgentInv'
<1>1. agentCall[c].pc = "failed" /\ barrier = 0 /\ current' = current BY DEF Retire, Calls
<1>2. CallFine(agentCall[c], c, mcp, current, barrier) /\ agentCall[c].worker # 0
  BY <1>1 DEF AgentInv, CallsFine, CallFine
<1>3. CASE current = agentCall[c].worker
  <2>1. /\ agentCall' = [agentCall EXCEPT ![c].pc = "retiring"] /\ barrier' = c
        /\ RequestClose(current)
    BY <1>1, <1>3 DEF Retire, AgentGoes
  <2>2. OthersStay(c) /\ agentCall'[c].pc = "retiring" /\ agentCall'[c].worker = current
        /\ agentCall'[c].sent = agentCall[c].sent /\ agentCall'[c].result = agentCall[c].result
        /\ agentCall'[c].config = agentCall[c].config
    BY <1>3, <2>1 DEF OthersStay, AgentInv, CallsShaped, AgentCallFields
  <2>3. /\ agentCall'[c].result = "ok" => mcp[current].config = agentCall'[c].config
        /\ agentCall'[c].result = "cut" => agentCall'[c].sent # "running"
    BY <1>2, <1>3, <2>2 DEF CallFine
  <2> QED BY <1>1, <1>2, <1>3, <2>1, <2>2, <2>3, ClosingStep
<1>4. CASE current # agentCall[c].worker
  <2>1. UNCHANGED <<mcp, current, barrier>> /\ agentCall' = [agentCall EXCEPT ![c].pc = "end"]
    BY <1>1, <1>4 DEF Retire, AgentGoes
  <2>2. OthersStay(c) /\ agentCall'[c] = [agentCall[c] EXCEPT !.pc = "end"]
    BY <2>1 DEF OthersStay, AgentInv, CallsShaped, AgentCallFields
  <2>3. CallFine(agentCall'[c], c, mcp, current, barrier)
    BY <1>2, <2>2 DEF CallFine, AgentInv, CallsShaped, AgentCallFields
  <2> QED BY <2>1, <2>2, <2>3, CallAlone
<1> QED BY <1>3, <1>4

LEMMA RetiredStep == ASSUME AgentInv, NEW c \in AgentCalls, Retired(c) PROVE AgentInv'
<1>1. /\ agentCall[c].pc = "retiring" /\ mcp[agentCall[c].worker].at = "closed"
      /\ mcp' = mcp /\ current' = 0 /\ barrier' = 0
      /\ agentCall' = [agentCall EXCEPT ![c].pc = "end"]
  BY DEF Retired, Joined, ThreadIs, Calls, AgentGoes
<1>2. CallFine(agentCall[c], c, mcp, current, barrier) /\ current = agentCall[c].worker
      /\ barrier = c
  BY <1>1 DEF AgentInv, CallsFine, CallFine
<1>3. OthersStay(c) /\ agentCall'[c] = [agentCall[c] EXCEPT !.pc = "end"]
  BY <1>1 DEF OthersStay, AgentInv, CallsShaped, AgentCallFields
<1>4. CallFine(agentCall'[c], c, mcp', current', barrier')
  BY <1>1, <1>2, <1>3 DEF CallFine, AgentInv, CallsShaped, AgentCallFields
<1>5. WorkersShaped' /\ OneProcess' /\ WorkersCarry(mcp, mcp')
  BY <1>1, <1>2 DEF AgentInv, WorkersShaped, OneProcess, Living, WorkersCarry
<1>6. ASSUME NEW d \in AgentCalls \ {c}
      PROVE  /\ agentCall[d].pc \in {"new", "replacing"} => mcp'[d].at = "none"
             /\ agentCall[d].pc \in {"replacing", "retiring"} =>
                  barrier' = barrier /\ current' = current
             /\ agentCall[d].pc = "posted" /\ agentCall[d].sent = "running" =>
                  HeadStays(mcp, mcp', d, agentCall[d].worker)
  BY <1>1, <1>2 DEF AgentInv, CallsFine, CallFine, HeadStays
<1> QED BY <1>1, <1>3, <1>4, <1>5, <1>6, CallStep, AgentFacts

LEMMA JoinTimesOutStep ==
  ASSUME AgentInv, NEW c \in AgentCalls, JoinTimesOut(c) PROVE AgentInv'
<1>1. /\ agentCall[c].pc \in {"replacing", "retiring"}
      /\ mcp' = mcp /\ current' = current /\ barrier' = 0
      /\ agentCall' = [agentCall EXCEPT ![c].pc = "end"]
  BY DEF JoinTimesOut, AgentGoes
<1>2. CallFine(agentCall[c], c, mcp, current, barrier) /\ barrier = c
  BY <1>1 DEF AgentInv, CallsFine, CallFine
<1>3. OthersStay(c) /\ agentCall'[c] = [agentCall[c] EXCEPT !.pc = "end"]
  BY <1>1 DEF OthersStay, AgentInv, CallsShaped, AgentCallFields
<1>4. CallFine(agentCall'[c], c, mcp', current', barrier')
  BY <1>1, <1>2, <1>3 DEF CallFine, AgentInv, CallsShaped, AgentCallFields
<1>5. /\ WorkersShaped' /\ OneProcess' /\ WorkersCarry(mcp, mcp')
      /\ current' \in InLine /\ (current' # 0 => mcp'[current'].at # "none")
  BY <1>1 DEF AgentInv, WorkersShaped, OneProcess, Living, WorkersCarry
<1>6. ASSUME NEW d \in AgentCalls \ {c}
      PROVE  /\ agentCall[d].pc \in {"new", "replacing"} => mcp'[d].at = "none"
             /\ agentCall[d].pc \in {"replacing", "retiring"} =>
                  barrier' = barrier /\ current' = current
             /\ agentCall[d].pc = "posted" /\ agentCall[d].sent = "running" =>
                  HeadStays(mcp, mcp', d, agentCall[d].worker)
  BY <1>1, <1>2 DEF AgentInv, CallsFine, CallFine, HeadStays
<1> QED BY <1>1, <1>3, <1>4, <1>5, <1>6, CallStep, AgentFacts

\* A worker is started for call c when no worker lives and nobody else holds the barrier.
LEMMA StartForStep ==
  ASSUME AgentInv, NEW c \in AgentCalls, NEW k, StartFor(c, k), mcp[c].at = "none",
         agentCall[c].result = "none", agentCall[c].sent = "no",
         \A w \in AgentCalls : ~Living(w),
         \A d \in AgentCalls \ {c} : agentCall[d].pc \notin {"replacing", "retiring"}
  PROVE  AgentInv'
<1>1. PICK n : n = NewWorker(k) OBVIOUS
<1>2. WorkerIs(c, n) BY <1>1 DEF StartFor, WorkerIs, AgentInv, WorkersShaped
<1>3. DOMAIN n = WorkerFields /\ n.at = "new" /\ n.config = k /\ n.line = <<>>
  BY <1>1 DEF NewWorker, WorkerFields
<1>4. n.line \in Seq(InLine) BY <1>3
<1>5. /\ current' = c /\ barrier' = 0
      /\ agentCall' = [agentCall EXCEPT ![c].pc = "waiting", ![c].worker = c, ![c].config = k]
  BY DEF StartFor
<1>6. OthersStay(c) /\ agentCall'[c].pc = "waiting" /\ agentCall'[c].worker = c
      /\ agentCall'[c].config = k /\ agentCall'[c].sent = agentCall[c].sent
      /\ agentCall'[c].result = agentCall[c].result
  BY <1>5 DEF OthersStay, AgentInv, CallsShaped, AgentCallFields, InLine
<1>7. WorkersShaped' BY <1>2, <1>3, <1>4 DEF AgentInv, WorkersShaped, WorkerIs
<1>8. WorkersCarry(mcp, mcp') BY <1>2 DEF WorkersCarry, WorkerIs
<1>9. OneProcess' BY <1>2, <1>5 DEF OneProcess, Living, WorkerIs
<1>10. current' \in InLine /\ barrier' \in InLine /\ mcp'[current'].at # "none"
  BY <1>2, <1>3, <1>5, AgentFacts DEF WorkerIs, InLine
<1>11. CallFine(agentCall'[c], c, mcp', current', barrier')
  BY <1>2, <1>3, <1>6, AgentFacts DEF CallFine, WorkerIs
<1>12. ASSUME NEW d \in AgentCalls \ {c}
       PROVE  /\ agentCall[d].pc \in {"new", "replacing"} => mcp'[d].at = "none"
              /\ agentCall[d].pc = "posted" /\ agentCall[d].sent = "running" =>
                   HeadStays(mcp, mcp', d, agentCall[d].worker)
  <2>1. CallFine(agentCall[d], d, mcp, current, barrier) /\ agentCall[d].worker \in InLine
    BY DEF AgentInv, CallsFine, CallsShaped
  <2>2. agentCall[d].pc \in {"new", "replacing"} => mcp'[d].at = "none"
    BY <1>2, <2>1 DEF CallFine, WorkerIs
  <2>3. agentCall[d].pc = "posted" /\ agentCall[d].sent = "running" =>
          HeadStays(mcp, mcp', d, agentCall[d].worker)
    BY <1>2, <2>1 DEF CallFine, HeadStays, WorkerIs, InLine, Stopper
  <2> QED BY <2>2, <2>3
<1> QED BY <1>6, <1>7, <1>8, <1>9, <1>10, <1>11, <1>12, CallStep

LEMMA StartFirstStep ==
  ASSUME AgentInv, NEW c \in AgentCalls, NEW k, StartFirst(c, k) PROVE AgentInv'
<1>1. agentCall[c].pc = "new" /\ barrier = 0 /\ current = 0 /\ StartFor(c, k)
  BY DEF StartFirst, NextCall, Calls
<1>2. mcp[c].at = "none" /\ agentCall[c].result = "none" /\ agentCall[c].sent = "no"
  BY <1>1 DEF AgentInv, CallsFine, CallFine
<1>3. \A w \in AgentCalls : ~Living(w) BY <1>1, AgentFacts DEF AgentInv, OneProcess
<1>4. \A d \in AgentCalls \ {c} : agentCall[d].pc \notin {"replacing", "retiring"}
  BY <1>1, AgentFacts DEF AgentInv, CallsFine, CallFine
<1> QED BY <1>1, <1>2, <1>3, <1>4, StartForStep

LEMMA ReplaceStep == ASSUME AgentInv, NEW c \in AgentCalls, Replace(c) PROVE AgentInv'
<1>1. /\ agentCall[c].pc = "replacing" /\ mcp[agentCall[c].worker].at = "closed"
      /\ StartFor(c, agentCall[c].config)
  BY DEF Replace, Joined, ThreadIs, Calls
<1>2. /\ mcp[c].at = "none" /\ agentCall[c].result = "none" /\ agentCall[c].sent = "no"
      /\ current = agentCall[c].worker /\ barrier = c
  BY <1>1 DEF AgentInv, CallsFine, CallFine
<1>3. \A w \in AgentCalls : ~Living(w) BY <1>1, <1>2 DEF AgentInv, OneProcess, Living
<1>4. \A d \in AgentCalls \ {c} : agentCall[d].pc \notin {"replacing", "retiring"}
  BY <1>2 DEF AgentInv, CallsFine, CallFine
<1> QED BY <1>1, <1>2, <1>3, <1>4, StartForStep

\* ThreadEnds cuts the posted calls of the worker; none of them was sent.
LEMMA ThreadEndsStep == ASSUME AgentInv, NEW w \in AgentCalls, ThreadEnds(w) PROVE AgentInv'
<1>1. mcp[w].at = "retiring" /\ UNCHANGED <<current, barrier>> BY DEF ThreadEnds, ThreadIs
<1>2. PICK n : n = [NewWorker(mcp[w].config) EXCEPT !.at = "closed"] OBVIOUS
<1>3. WorkerIs(w, n) BY <1>2 DEF ThreadEnds, WorkerIs, AgentInv, WorkersShaped
<1>4. DOMAIN n = WorkerFields /\ n.at = "closed" /\ n.config = mcp[w].config /\ n.line = <<>>
  BY <1>2 DEF NewWorker, WorkerFields
<1>5. n.line \in Seq(InLine) BY <1>4
<1>6. WorkersShaped' BY <1>3, <1>4, <1>5 DEF AgentInv, WorkersShaped, WorkerIs
<1>7. OneProcess' BY <1>1, <1>3, <1>4 DEF AgentInv, OneProcess, Living, WorkerIs
<1>8. current' \in InLine /\ barrier' \in InLine /\ (current' # 0 => mcp'[current'].at # "none")
  BY <1>1, <1>3, <1>4 DEF AgentInv, WorkerIs, InLine, Stopper
<1>9. WorkersCarry(mcp, mcp') BY <1>1, <1>3, <1>4 DEF WorkersCarry, WorkerIs
<1>10. ASSUME NEW d \in AgentCalls
       PROVE  DOMAIN agentCall'[d] = AgentCallFields /\ agentCall'[d].worker \in InLine
              /\ CallFine(agentCall'[d], d, mcp', current', barrier')
  <2>1. CallFine(agentCall[d], d, mcp, current, barrier) /\ agentCall[d].worker \in InLine
        /\ DOMAIN agentCall[d] = AgentCallFields
    BY DEF AgentInv, CallsFine, CallsShaped
  <2>2. agentCall[d].pc \in {"new", "replacing"} => mcp'[d].at = "none"
    BY <1>1, <1>3, <2>1 DEF CallFine, WorkerIs
  <2>3. CASE agentCall[d].worker = w /\ agentCall[d].pc = "posted"
    <3>1. PICK m : m = [agentCall[d] EXCEPT !.pc = "failed", !.result = "cut"] OBVIOUS
    <3>2. agentCall'[d] = m BY <2>3, <3>1 DEF ThreadEnds, Calls
    <3>3. DOMAIN m = AgentCallFields /\ m.pc = "failed" /\ m.result = "cut"
          /\ m.worker = w /\ m.sent = agentCall[d].sent
      BY <2>1, <2>3, <3>1 DEF AgentCallFields
    <3>4. agentCall[d].sent # "running" BY <1>1, <2>1, <2>3 DEF CallFine
    <3>5. CallFine(m, d, mcp', current', barrier')
      BY <1>3, <1>4, <3>3, <3>4, AgentFacts DEF CallFine, WorkerIs
    <3> QED BY <2>1, <2>3, <3>2, <3>3, <3>5
  <2>4. CASE ~(agentCall[d].worker = w /\ agentCall[d].pc = "posted")
    <3>1. agentCall'[d] = agentCall[d] BY <2>4 DEF ThreadEnds, Calls
    <3>2. agentCall[d].pc = "posted" /\ agentCall[d].sent = "running" =>
            HeadStays(mcp, mcp', d, agentCall[d].worker)
      BY <1>3, <2>1, <2>4 DEF CallFine, HeadStays, WorkerIs, InLine, Stopper
    <3>3. CallFine(agentCall[d], d, mcp', current', barrier')
      BY <1>1, <1>9, <2>1, <2>2, <3>2, CallCarried
    <3> QED BY <2>1, <3>1, <3>3
  <2> QED BY <2>3, <2>4
<1>11. DOMAIN agentCall' = AgentCalls BY DEF ThreadEnds
<1>12. CallsShaped' BY <1>10, <1>11 DEF CallsShaped
<1>13. CallsFine' BY <1>10 DEF CallsFine
<1> QED BY <1>6, <1>7, <1>8, <1>12, <1>13 DEF AgentInv

--------------------------------------------------------------------------------
LEMMA AgentStarts == ASSUME AgentInit PROVE AgentInv
<1>1. PICK n : n = NoWorker OBVIOUS
<1>2. DOMAIN n = WorkerFields /\ n.at = "none" /\ n.line = <<>>
  BY <1>1 DEF NoWorker, NewWorker, WorkerFields
<1>3. n.line \in Seq(InLine) BY <1>2
<1>4. DOMAIN mcp = AgentCalls /\ \A w \in AgentCalls : mcp[w] = n BY <1>1 DEF AgentInit
<1>5. WorkersShaped BY <1>2, <1>3, <1>4 DEF WorkersShaped
<1>6. PICK m : m = NewCall OBVIOUS
<1>7. DOMAIN m = AgentCallFields /\ m.pc = "new" /\ m.worker = 0 /\ m.sent = "no" /\ m.result = "none"
  BY <1>6 DEF NewCall, AgentCallFields
<1>8. DOMAIN agentCall = AgentCalls /\ \A c \in AgentCalls : agentCall[c] = m
  BY <1>6 DEF AgentInit
<1>9. CallsShaped BY <1>7, <1>8, AgentFacts DEF CallsShaped
<1>10. OneProcess BY <1>2, <1>4 DEF OneProcess, Living
<1>11. CallsFine BY <1>2, <1>4, <1>7, <1>8 DEF CallsFine, CallFine
<1> QED BY <1>5, <1>9, <1>10, <1>11, AgentFacts DEF AgentInv, AgentInit

LEMMA AgentStep == ASSUME AgentInv, AgentNext PROVE AgentInv'
<1>1. PICK c \in AgentCalls :
        \/ \E k \in ServerConfigs : Reuse(c, k) \/ StartFirst(c, k) \/ BeginReplace(c, k)
        \/ BeginRetire(c) \/ JoinTimesOut(c)
        \/ AgentCallStep(c) \/ AgentAnswerStep(c) \/ AgentLoopStep(c) \/ AgentStartStep(c)
  BY DEF AgentNext
<1>2. ASSUME NEW k \in ServerConfigs, Reuse(c, k) \/ StartFirst(c, k) \/ BeginReplace(c, k)
      PROVE  AgentInv'
  BY <1>2, ReuseStep, StartFirstStep, BeginReplaceStep
<1>3. CASE BeginRetire(c) \/ JoinTimesOut(c) BY <1>3, BeginRetireStep, JoinTimesOutStep
<1>4. CASE AgentCallStep(c)
  BY <1>4, ReplaceStep, OperationPosted, AbandonedStep, SendRequestStep, RetireStep, RetiredStep
     DEF AgentCallStep
<1>5. CASE AgentAnswerStep(c)
  BY <1>5, ServerAnswersStep, AgentGivesUpStep DEF AgentAnswerStep
<1>6. CASE AgentLoopStep(c) \/ AgentStartStep(c)
  BY <1>6, LoopRunsStep, OnLoopStep, StopStep, ThreadEndsStep DEF AgentLoopStep, AgentStartStep
<1> QED BY <1>1, <1>2, <1>3, <1>4, <1>5, <1>6

LEMMA WorkersSoundFollows == ASSUME AgentInv PROVE WorkersSound
<1>1. AwTypeOK
  <2>1. current \in AgentCalls \cup {0} /\ barrier \in AgentCalls \cup {0}
    BY DEF AgentInv, InLine, Stopper
  <2>2. ASSUME NEW w \in AgentCalls, NEW i \in DOMAIN mcp[w].line
        PROVE  mcp[w].line[i] \in AgentCalls \cup {Stopper}
    <3>1. PICK s \in Seq(InLine) : s = mcp[w].line BY WorkerShape
    <3>2. s[i] \in InLine BY <2>2, <3>1
    <3> QED BY <3>1, <3>2 DEF InLine
  <2> QED BY <2>1, <2>2 DEF AwTypeOK
<1>2. GracefulStop BY DEF AgentInv, CallsFine, CallFine, GracefulStop
<1>3. RightConfig BY DEF AgentInv, CallsFine, CallFine, RightConfig
<1> QED BY <1>1, <1>2, <1>3 DEF AgentInv, WorkersSound

\* However calls, reloads, timeouts and changes of configuration interleave, a server
\* never has two child processes, a stop cuts no request that was sent, and a call is
\* served with the configuration it asked for.
THEOREM WorkersTheorem == AgentSpec => []WorkersSound
<1>1. AgentInit => AgentInv BY AgentStarts
<1>2. AgentInv /\ [AgentNext]_awVars => AgentInv'
  <2>1. ASSUME AgentInv, UNCHANGED awVars PROVE AgentInv'
    BY <2>1 DEF awVars, AgentInv, WorkersShaped, CallsShaped, OneProcess, Living, CallsFine
  <2> QED BY <2>1, AgentStep
<1>3. AgentInv => WorkersSound BY WorkersSoundFollows
<1> QED BY <1>1, <1>2, <1>3, PTL DEF AgentSpec
================================================================================
