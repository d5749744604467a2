--------------------------------- MODULE OAuth ---------------------------------
(*****************************************************************************)
(* The authorization server (oauth/core): dynamic registration, the         *)
(* approval that makes a client durable, one-time codes and their exchange. *)
(* Requests are threads that meet at the two locks of OAuthState, which nest *)
(* as code_lock, then client_lock; the stored clients survive a restart.    *)
(*****************************************************************************)
EXTENDS Naturals, FiniteSets

CONSTANTS Clients,      \* client ids, drawn at random: never the same one twice
          Titles,       \* registration keys: a name and its redirect URIs
          Codes,        \* authorization codes, drawn likewise
          Callers,      \* requests that may run at a time
          MaxPending,   \* oauth_max_dynamic_clients
          MaxCodes,     \* oauth_max_pending_codes
          MaxCalls,     \* bound on requests
          NoOne

ASSUME OAuthAssumption ==
  /\ MaxPending \in Nat \ {0} /\ MaxCodes \in Nat \ {0} /\ MaxCalls \in Nat
  /\ NoOne \notin Callers \cup {"close"} /\ "close" \notin Callers

VARIABLES
  client,      \* OAuthState.clients: each id's state here
  title,       \* the registration key an id was given for
  code,        \* OAuthState.codes
  codeFor,     \* the client of a code
  stored,      \* the approved clients in oauth-clients.json
  phase,       \* open, stopping (admission stopped), closed, down
  codeLock, clientLock,
  call,        \* what each request does
  given,       \* ids and codes that were given out
  tokens,      \* how many tokens a code was exchanged for
  calls        \* requests so far

oaVars == <<client, title, code, codeFor, stored, phase, codeLock, clientLock,
            call, given, tokens, calls>>

Resting == [pc |-> "idle", client |-> NoOne, code |-> NoOne]
Known == {c \in Clients : client[c] # "none"}
Pending == {c \in Clients : client[c] \in {"pending", "stale"}}
Approved == {c \in Clients : client[c] = "approved"}
Stored == {k \in Codes : code[k] # "none"}

OAuthInit ==
  /\ client = [c \in Clients |-> "none"] /\ title = [c \in Clients |-> NoOne]
  /\ code = [k \in Codes |-> "none"] /\ codeFor = [k \in Codes |-> NoOne]
  /\ stored = {} /\ phase = "open"
  /\ codeLock = NoOne /\ clientLock = NoOne
  /\ call = [a \in Callers |-> Resting]
  /\ given = {} /\ tokens = [k \in Codes |-> 0]
  /\ calls = 0

Begins(a) ==
  /\ call[a].pc = "idle" /\ phase = "open" /\ calls < MaxCalls
  /\ calls' = calls + 1

Goes(a, pc) == call' = [call EXCEPT ![a].pc = pc]
Returns(a) == call' = [call EXCEPT ![a] = Resting]

\* _prune_clients, _prune_codes: with either lock held.
FreshClients == [c \in Clients |-> IF client[c] = "stale" THEN "none" ELSE client[c]]
FreshCodes == [k \in Codes |-> IF code[k] = "stale" THEN "none" ELSE code[k]]

--------------------------------------------------------------------------------
\* register_dynamic_client: prune, reuse a matching client, else allocate one if
\* the pending clients leave room.  One critical section of client_lock.
Matching(t) == {c \in Clients : FreshClients[c] # "none" /\ title[c] = t}

\* A registration that looks for a match before it takes the lock.
RegisterTwice(a, t) ==
  /\ Begins(a) /\ clientLock = NoOne
  /\ \E c \in Clients \ given :
       /\ title' = [title EXCEPT ![c] = t]
       /\ Cardinality(Pending) < MaxPending
       /\ client' = [FreshClients EXCEPT ![c] = "pending"]
       /\ given' = given \cup {c}
  /\ UNCHANGED <<code, codeFor, stored, phase, codeLock, clientLock, call,
                 tokens>>

Register(a, t) ==
  /\ Begins(a) /\ clientLock = NoOne
  /\ \/ /\ \/ Matching(t) # {}
           \/ Cardinality({c \in Clients : FreshClients[c] = "pending"}) >= MaxPending
        /\ client' = FreshClients /\ UNCHANGED <<given, title>>
     \/ /\ Matching(t) = {}
        /\ Cardinality({c \in Clients : FreshClients[c] = "pending"}) < MaxPending
        /\ \E c \in Clients \ given :
             /\ title' = [title EXCEPT ![c] = t]
             /\ client' = [FreshClients EXCEPT ![c] = "pending"]
             /\ given' = given \cup {c}
  /\ UNCHANGED <<code, codeFor, stored, phase, codeLock, clientLock, call,
                 tokens>>

\* validate_authorization_request.  The PIN is checked and the code issued after
\* client_lock has been released.  (Bound: there is a code left to draw.)
Validate(a, c) ==
  /\ Begins(a) /\ clientLock = NoOne
  /\ Cardinality(Codes \ given) > Cardinality({b \in Callers : call[b].pc = "validated"})
  /\ client' = FreshClients
  /\ IF FreshClients[c] # "none"
       THEN call' = [call EXCEPT ![a] = [Resting EXCEPT !.pc = "validated", !.client = c]]
       ELSE UNCHANGED call
  /\ UNCHANGED <<title, code, codeFor, stored, phase, codeLock, clientLock, given,
                 tokens>>

--------------------------------------------------------------------------------
\* issue_authorization_response, under code_lock: shutdown is checked again, codes
\* are pruned, capacity is checked and a code is given.
Admitted == phase = "open" /\ Cardinality({k \in Codes : code[k] = "live"}) < MaxCodes

\* The capacity is checked before the lock is taken.
DrawUnlocked(a) ==
  /\ call[a].pc = "validated" /\ Admitted
  /\ \E k \in Codes \ given :
       /\ call' = [call EXCEPT ![a].pc = "given", ![a].code = k]
       /\ given' = given \cup {k}
  /\ UNCHANGED codeLock /\ code' = FreshCodes
  /\ UNCHANGED <<client, title, codeFor, stored, phase, clientLock, tokens, calls>>

Draw(a) ==
  /\ call[a].pc = "validated" /\ codeLock = NoOne /\ Admitted
  /\ \E k \in Codes \ given :
       /\ call' = [call EXCEPT ![a].pc = "given", ![a].code = k]
       /\ given' = given \cup {k}
  /\ codeLock' = a /\ code' = FreshCodes
  /\ UNCHANGED <<client, title, codeFor, stored, phase, clientLock, tokens, calls>>

DrawRefused(a) ==
  /\ call[a].pc = "validated" /\ codeLock = NoOne /\ ~Admitted
  /\ code' = (IF phase = "open" THEN FreshCodes ELSE code) /\ Returns(a)
  /\ UNCHANGED <<client, title, codeFor, stored, phase, codeLock, clientLock, given,
                 tokens, calls>>

\* _approve_client.  The client may have been pruned since it was validated, and
\* the shutdown may have begun.
Approve(a) ==
  LET c == call[a].client IN
  /\ call[a].pc = "given" /\ clientLock = NoOne
  /\ phase = "open" /\ client[c] # "none"
  /\ IF client[c] = "approved"
       THEN Goes(a, "store") /\ UNCHANGED <<client, clientLock>>
       ELSE /\ Goes(a, "persist") /\ clientLock' = a
            /\ client' = [client EXCEPT ![c] = "approved"]
  /\ UNCHANGED <<title, code, codeFor, stored, phase, codeLock, given, tokens, calls>>

ApproveRefused(a) ==
  /\ call[a].pc = "given" /\ clientLock = NoOne
  /\ phase # "open" \/ client[call[a].client] = "none"
  /\ Returns(a) /\ codeLock' = NoOne
  /\ UNCHANGED <<client, title, code, codeFor, stored, phase, clientLock, given, tokens,
                 calls>>

\* persist_approved_clients replaces the file by what this process knows.
Persist(a) ==
  /\ call[a].pc = "persist"
  /\ stored' = Approved /\ clientLock' = NoOne /\ Goes(a, "store")
  /\ UNCHANGED <<client, title, code, codeFor, phase, codeLock, given, tokens, calls>>

\* The rollback of the approval is forgotten.
PersistFailsKept(a) ==
  /\ call[a].pc = "persist"
  /\ clientLock' = NoOne /\ codeLock' = NoOne /\ Returns(a)
  /\ UNCHANGED <<client, title, code, codeFor, stored, phase, given, tokens, calls>>

\* It cannot be written: the approval is taken back and no code is stored.
PersistFails(a) ==
  /\ call[a].pc = "persist"
  /\ client' = [client EXCEPT ![call[a].client] = "pending"]
  /\ clientLock' = NoOne /\ codeLock' = NoOne /\ Returns(a)
  /\ UNCHANGED <<title, code, codeFor, stored, phase, given, tokens, calls>>

Store(a) ==
  /\ call[a].pc = "store"
  /\ code' = [code EXCEPT ![call[a].code] = "live"]
  /\ codeFor' = [codeFor EXCEPT ![call[a].code] = call[a].client]
  /\ codeLock' = NoOne /\ Returns(a)
  /\ UNCHANGED <<client, title, stored, phase, clientLock, given, tokens, calls>>

--------------------------------------------------------------------------------
\* exchange_authorization_code.  A wrong client, redirect, resource or verifier
\* does not consume the code; the token is made after code_lock was released.
\* The code is marked used after its token was made.
RedeemedLater(k) == FreshCodes
Redeemed(k) == [FreshCodes EXCEPT ![k] = "none"]

Exchange(a, k, right) ==
  /\ Begins(a) /\ codeLock = NoOne /\ k \in given
  /\ IF FreshCodes[k] = "live" /\ right
       THEN /\ code' = Redeemed(k)
            /\ call' = [call EXCEPT ![a] = [Resting EXCEPT !.pc = "token", !.code = k]]
       ELSE code' = FreshCodes /\ UNCHANGED call
  /\ UNCHANGED <<client, title, codeFor, stored, phase, codeLock, clientLock, given,
                 tokens>>

\* issue_access_token reads the signing secret from its file, which may fail: the
\* code is spent all the same.
IssueToken(a) ==
  /\ call[a].pc = "token"
  /\ tokens' = [tokens EXCEPT ![call[a].code] = @ + 1] /\ Returns(a)
  /\ UNCHANGED <<client, title, code, codeFor, stored, phase, codeLock, clientLock,
                 given, calls>>
TokenFails(a) ==
  /\ call[a].pc = "token" /\ Returns(a)
  /\ UNCHANGED <<client, title, code, codeFor, stored, phase, codeLock, clientLock,
                 given, tokens, calls>>

--------------------------------------------------------------------------------
\* oauth_client_ttl_s and oauth_code_ttl_s pass.
ClientAges(c) ==
  /\ phase = "open" /\ client[c] = "pending"
  /\ client' = [client EXCEPT ![c] = "stale"]
  /\ UNCHANGED <<title, code, codeFor, stored, phase, codeLock, clientLock, call, given,
                 tokens, calls>>
CodeAges(k) ==
  /\ phase = "open" /\ code[k] = "live"
  /\ code' = [code EXCEPT ![k] = "stale"]
  /\ UNCHANGED <<client, title, codeFor, stored, phase, codeLock, clientLock, call,
                 given, tokens, calls>>

\* A close that takes client_lock first.
CloseFirstClients ==
  /\ phase = "stopping" /\ clientLock = NoOne
  /\ clientLock' = "close"
  /\ UNCHANGED <<client, title, code, codeFor, stored, phase, codeLock, call, given,
                 tokens, calls>>
\* stop_admission, then aclose with both locks in the order of an issue.
StopAdmission ==
  /\ phase = "open" /\ phase' = "stopping"
  /\ UNCHANGED <<client, title, code, codeFor, stored, codeLock, clientLock, call, given,
                 tokens, calls>>
CloseFirst ==
  /\ phase = "stopping" /\ codeLock = NoOne
  /\ codeLock' = "close"
  /\ UNCHANGED <<client, title, code, codeFor, stored, phase, clientLock, call, given,
                 tokens, calls>>
Close ==
  /\ phase = "stopping"
  /\ "close" \in {codeLock, clientLock} /\ {codeLock, clientLock} \subseteq {"close", NoOne}
  /\ client' = [c \in Clients |-> "none"] /\ code' = [k \in Codes |-> "none"]
  /\ phase' = "closed" /\ codeLock' = NoOne /\ clientLock' = NoOne
  /\ UNCHANGED <<title, codeFor, stored, call, given, tokens, calls>>

\* The process dies, and OAuthState.start of the next one loads the file.
Die ==
  /\ phase # "down" /\ phase' = "down"
  /\ client' = [c \in Clients |-> "none"] /\ code' = [k \in Codes |-> "none"]
  /\ codeLock' = NoOne /\ clientLock' = NoOne /\ call' = [a \in Callers |-> Resting]
  /\ UNCHANGED <<title, codeFor, stored, given, tokens, calls>>
Boot ==
  /\ phase = "down" /\ phase' = "open"
  /\ client' = [c \in Clients |-> IF c \in stored THEN "approved" ELSE "none"]
  /\ UNCHANGED <<title, code, codeFor, stored, codeLock, clientLock, call, given, tokens,
                 calls>>

RequestStep(a) ==
  \/ Draw(a) \/ DrawRefused(a) \/ Approve(a) \/ ApproveRefused(a)
  \/ Persist(a) \/ PersistFails(a) \/ Store(a) \/ IssueToken(a) \/ TokenFails(a)
CloseStep == CloseFirst \/ Close

OAuthNext ==
  \/ \E a \in Callers :
       \/ \E t \in Titles : Register(a, t)
       \/ \E c \in Clients : Validate(a, c)
       \/ \E k \in Codes, right \in BOOLEAN : Exchange(a, k, right)
       \/ RequestStep(a)
  \/ (\E c \in Clients : ClientAges(c)) \/ (\E k \in Codes : CodeAges(k))
  \/ StopAdmission \/ CloseStep \/ Die \/ Boot

OAuthSpec == OAuthInit /\ [][OAuthNext]_oaVars

--------------------------------------------------------------------------------
OAuthTypeOK ==
  /\ client \in [Clients -> {"none", "pending", "stale", "approved"}]
  /\ code \in [Codes -> {"none", "live", "stale"}]
  /\ stored \subseteq Clients /\ phase \in {"open", "stopping", "closed", "down"}
  /\ codeLock \in Callers \cup {"close", NoOne} /\ clientLock \in Callers \cup {"close", NoOne}

\* docs/security.md: codes are one-time.  No interleaving of exchanges makes two
\* tokens of one code.
CodeUsedOnce == \A k \in Codes : tokens[k] <= 1

\* Neither concurrent registrations nor concurrent approvals exceed the limits,
\* and matching registrations share one client.
OAuthBounded ==
  /\ Cardinality(Pending) <= MaxPending /\ Cardinality(Stored) <= MaxCodes
  /\ \A c, d \in Known : title[c] = title[d] /\ "stale" \notin {client[c], client[d]} => c = d

\* A code exists only for a client whose approval is on disk, and no approval is
\* visible that would not survive a restart.
ApprovedIsDurable ==
  /\ \A k \in Stored : codeFor[k] \in stored
  /\ clientLock = NoOne => Approved \subseteq stored

\* After the close nothing is left, and nothing late brings it back.
ClosedHasNothing == phase = "closed" => Known = {} /\ Stored = {}

OAuthSound == OAuthTypeOK /\ CodeUsedOnce /\ OAuthBounded /\ ApprovedIsDurable /\ ClosedHasNothing
================================================================================
