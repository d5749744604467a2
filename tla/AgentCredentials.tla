---------------------------- MODULE AgentCredentials ----------------------------
(*****************************************************************************)
(* The credential file of the agent bridge (agent_bridge/auth_store.py) and  *)
(* its users: the OAuth sessions with an upstream server, opened by a tool   *)
(* call or by `workgate mcp auth` (agent_bridge/auth.py, cli.py), and the    *)
(* administrator's other commands. Each of them may be a process of its own. *)
(* The entry of one server is modelled; that of another server is, to its    *)
(* writers, one more secret.                                                 *)
(*****************************************************************************)
EXTENDS Naturals, FiniteSets

CONSTANTS MaxFlows,         \* bound on the OAuth sessions of a behaviour
          CredSecrets,      \* names of secrets; the configuration refers to all of them
          MaxTokens,        \* bound on the tokens that the authorization server issues
          MaxCredCommands   \* bound on the administrator's commands

ASSUME CredentialsAssumption ==
  /\ MaxFlows \in Nat /\ MaxTokens \in Nat \ {0} /\ MaxCredCommands \in Nat

VARIABLES
  creds,      \* credentials.json
  draft,       \* [Writers -> what the writer read under the lock, to write it back changed]
  flow,       \* [CredFlows -> the session]
  cmd,        \* the administrator's command
  server,     \* external: the number of tokens issued, and whether one was ever granted
              \* to which no user had consented
  kept       \* the secrets whose last command to write stored them
acVars == <<creds, draft, flow, cmd, server, kept>>

CredFlows == 1..MaxFlows
Admin == 0                  \* the administrator, as a writer of the file
Writers == CredFlows \union {Admin}
\* Token n is an access token, with a refresh token of the same number, or without. 0 is an
\* absent token. expires names the access token whose expiry is stored.
NoTokens == [access |-> 0, refresh |-> 0]
TokenPairs == [access : 0..MaxTokens, refresh : 0..MaxTokens]
EmptyStore == [damaged |-> FALSE, secrets |-> {}, tokens |-> NoTokens, expires |-> 0,
               client |-> FALSE, metadata |-> FALSE]
NoOp == [op |-> "none", tokens |-> NoTokens, secret |-> 0]
Op(kind) == [NoOp EXCEPT !.op = kind]
\* A damaged file is never read into a draft of its next contents.
NoDraft == [EmptyStore EXCEPT !.damaged = TRUE]

\* tokens, expires, client, metadata: what the SDK's provider holds in memory. callback:
\* the result of the loopback listener; consent: that it is a user's. next: where the
\* session goes on after its edit.
NewFlow(kind) ==
  [kind |-> kind, at |-> "new", tokens |-> NoTokens, expires |-> 0, client |-> FALSE,
   metadata |-> FALSE, callback |-> "open", consent |-> FALSE, edit |-> NoOp, next |-> "end"]

\* A file that was never written, one that an earlier login and its secrets left, and one
\* that was damaged since.
StoredBefore ==
  [EmptyStore EXCEPT !.secrets = CredSecrets, !.tokens = [access |-> 1, refresh |-> 1],
                     !.expires = 1, !.client = TRUE, !.metadata = TRUE]
CredInit ==
  /\ \/ /\ creds = EmptyStore
        /\ server = [issued |-> 0, unasked |-> FALSE]
     \/ /\ \E damaged \in BOOLEAN : creds = [StoredBefore EXCEPT !.damaged = damaged]
        /\ server = [issued |-> 1, unasked |-> FALSE]
  /\ draft = [a \in Writers |-> NoDraft] /\ kept = creds.secrets
  /\ flow = [f \in CredFlows |-> NewFlow("call")]
  /\ cmd = [at |-> "idle", edit |-> NoOp, left |-> MaxCredCommands]

--------------------------------------------------------------------------------
(* The file. Every access holds the lock; a write is a read, a change of the *)
(* copy, and a replacement of the file.                                      *)

\* set_tokens keeps the stored refresh token when the answer brings none (the slip does not).
SetTokensAsGiven(s, t) == [s EXCEPT !.tokens = t, !.expires = t.access]
SetTokens(s, t) ==
  [s EXCEPT !.tokens = [t EXCEPT !.refresh = IF @ = 0 THEN s.tokens.refresh ELSE @],
            !.expires = t.access]
SetClientInfo(s) == [s EXCEPT !.client = TRUE]
SetMetadata(s) == [s EXCEPT !.metadata = TRUE]
\* Slips: the expiry stays; the client's registration goes as well.
ClearTokensOnly(s) == [s EXCEPT !.tokens = NoTokens]
ClearAll(s) == [EmptyStore EXCEPT !.secrets = s.secrets]
ClearTokens(s) == [s EXCEPT !.tokens = NoTokens, !.expires = 0]
ClearOauth(s) == [EmptyStore EXCEPT !.secrets = s.secrets]
SetSecret(s, n) == [s EXCEPT !.secrets = @ \union {n}]
DeleteSecret(s, n) == [s EXCEPT !.secrets = @ \ {n}]

Apply(o, s) ==
  CASE o.op = "set_tokens" -> SetTokens(s, o.tokens)
    [] o.op = "set_client_info" -> SetClientInfo(s)
    [] o.op = "set_metadata" -> SetMetadata(s)
    [] o.op = "clear_tokens" -> ClearTokens(s)
    [] o.op = "clear_oauth" -> ClearOauth(s)
    [] o.op = "set_secret" -> SetSecret(s, o.secret)
    [] OTHER -> DeleteSecret(s, o.secret)

\* Slip: no lock.
AnyTime == TRUE
CredUnlocked == \A a \in Writers : draft[a] = NoDraft
\* _read: a damaged file is an error, never an empty store (as for the slip).
CredReads == CredUnlocked /\ ~creds.damaged
BeginEditAnyway(a) ==
  /\ CredUnlocked /\ UNCHANGED creds
  /\ draft' = [draft EXCEPT ![a] = IF creds.damaged THEN EmptyStore ELSE creds]
BeginEdit(a) == CredReads /\ draft' = [draft EXCEPT ![a] = creds] /\ UNCHANGED creds
CommitEdit(a, o) ==
  draft[a] # NoDraft /\ creds' = Apply(o, draft[a]) /\ draft' = [draft EXCEPT ![a] = NoDraft]
\* An error, of a full disk or an oversized store, or the end of the process leaves the file.
LetGo(a) == draft' = [draft EXCEPT ![a] = NoDraft] /\ UNCHANGED creds

--------------------------------------------------------------------------------
(* A session.                                                                *)

Flows(f, at) == flow[f].at = at
FlowGoes(f, at) == flow' = [flow EXCEPT ![f].at = at]
\* Sessions that are over are alike.
FlowOver(f) == flow' = [flow EXCEPT ![f] = [NewFlow("call") EXCEPT !.at = "end"]]
Edits(f, fields, o, next) ==
  flow' = [flow EXCEPT ![f] = [fields EXCEPT !.at = "edit", !.edit = o, !.next = next]]
CredRest == <<creds, draft, cmd, kept>>

\* A tool call or a login opens the next session: resolve_config_mapping reads the secrets,
\* and a missing one ends it.
Opens(f) == Flows(f, "new") /\ \A n \in CredFlows : n < f => ~Flows(n, "new")
ResolveMaps(f, kind) ==
  /\ Opens(f) /\ CredReads
  /\ IF CredSecrets \subseteq creds.secrets
       THEN flow' = [flow EXCEPT ![f] = [NewFlow(kind) EXCEPT !.at = "check"]]
       ELSE FlowOver(f)
  /\ UNCHANGED <<CredRest, server>>

\* oauth_status, for a tool call; the command that authorizes asks nothing. Time is not
\* modelled: an expiry may be past whenever it is looked at.
Past(expires) == {FALSE, expires # 0}
Authorized(s, past) == s.tokens.access # 0 /\ (~past \/ s.tokens.refresh # 0)
CheckStatus(f) ==
  /\ Flows(f, "check")
  /\ \/ flow[f].kind = "login" /\ FlowGoes(f, "tokens")
     \/ /\ flow[f].kind = "call" /\ CredReads
        /\ \E past \in Past(creds.expires) :
             IF Authorized(creds, past) THEN FlowGoes(f, "tokens") ELSE FlowOver(f)
  /\ UNCHANGED <<CredRest, server>>

\* _initialize reads the tokens and then, in three reads that are one here, the client, the
\* expiry and the metadata; others may write between.
LoadTokens(f) ==
  /\ Flows(f, "tokens") /\ CredReads
  /\ flow' = [flow EXCEPT ![f].at = "expiry", ![f].tokens = creds.tokens]
  /\ UNCHANGED <<CredRest, server>>
LoadOthers(f) ==
  /\ Flows(f, "expiry") /\ CredReads
  /\ flow' = [flow EXCEPT ![f].at = "ready", ![f].client = creds.client,
                          ![f].expires = creds.expires, ![f].metadata = creds.metadata]
  /\ UNCHANGED <<CredRest, server>>

\* The SDK refreshes an expired token it can refresh, and sends the request.
\* What the request carries is not told apart: the tokens in memory end here.
Sent(m) == [m EXCEPT !.at = "sent", !.tokens = NoTokens, !.expires = 0]
Sends(f) == flow' = [flow EXCEPT ![f] = Sent(@)]
Depart(f) ==
  LET m == flow[f]
      Refreshable == m.tokens.refresh # 0 /\ m.client
  IN
  /\ Flows(f, "ready")
  /\ \E past \in Past(m.expires) :
       IF (m.tokens.access = 0 \/ past) /\ Refreshable THEN FlowGoes(f, "refresh") ELSE Sends(f)
  /\ UNCHANGED <<CredRest, server>>

\* The answer to a refresh may bring a new refresh token. Which tokens the server still
\* takes, after the answers that were lost, the refreshes of peers and revocations, is its own
\* affair: it may refuse any.
Issued(refreshable) ==
  LET n == server.issued + 1 IN [access |-> n, refresh |-> IF refreshable THEN n ELSE 0]
Gains(f, fields, t) ==
  Edits(f, [fields EXCEPT !.tokens = NoTokens, !.expires = 0],
        [Op("set_tokens") EXCEPT !.tokens = t], "stored")
TokensRefreshed(f) ==
  /\ Flows(f, "refresh") /\ server.issued < MaxTokens
  /\ \E rotates \in BOOLEAN : Gains(f, flow[f], Issued(rotates))
  /\ server' = [server EXCEPT !.issued = @ + 1]
  /\ UNCHANGED CredRest
\* _handle_refresh_response: any other answer clears the tokens, here and in the store.
RefreshFails(f) ==
  /\ Flows(f, "refresh")
  /\ Edits(f, [flow[f] EXCEPT !.tokens = NoTokens, !.expires = 0], Op("clear_tokens"), "sent")
  /\ UNCHANGED <<CredRest, server>>
\* _persist_authorization_metadata, after the tokens.
PersistMetadata(f) ==
  /\ Flows(f, "stored")
  /\ IF flow[f].metadata THEN Edits(f, flow[f], Op("set_metadata"), "sent") ELSE Sends(f)
  /\ UNCHANGED <<CredRest, server>>

\* The server answers; to 401 the SDK replies with a new authorization: it discovers the
\* metadata, registers a client if it has none, and asks for a redirect.
Served(f) == Flows(f, "sent") /\ FlowOver(f) /\ UNCHANGED <<CredRest, server>>
Unauthorized(f) ==
  /\ Flows(f, "sent")
  /\ \E found \in {flow[f].metadata, TRUE} :
       flow' = [flow EXCEPT ![f].at = "asked", ![f].metadata = found]
  /\ UNCHANGED <<CredRest, server>>
RegisterClient(f) ==
  /\ Flows(f, "asked") /\ ~flow[f].client
  /\ Edits(f, [flow[f] EXCEPT !.client = TRUE], Op("set_client_info"), "asked")
  /\ UNCHANGED <<CredRest, server>>
\* deny_redirect ends a tool call, which the slip lets go on; the command waits for its callback.
RedirectAll(f) ==
  /\ Flows(f, "asked") /\ flow[f].client
  /\ flow' = [flow EXCEPT ![f].at = "consent",
                          ![f].callback = IF flow[f].kind = "login" THEN @ ELSE "code"]
  /\ UNCHANGED <<CredRest, server>>
Redirect(f) ==
  /\ Flows(f, "asked") /\ flow[f].client
  /\ IF flow[f].kind = "login" THEN FlowGoes(f, "consent") ELSE FlowOver(f)
  /\ UNCHANGED <<CredRest, server>>

\* The listener takes one result. A code with the right state comes from the user; anything
\* else that connects, now or earlier, ends the authorization.
Callback(f, result) ==
  /\ Flows(f, "consent") /\ flow[f].callback = "open"
  /\ flow' = [flow EXCEPT ![f].callback = result, ![f].consent = (result = "code")]
  /\ UNCHANGED <<CredRest, server>>
\* A second authorization of the session finds the first one's result, with its old state.
CallbackFails(f) ==
  /\ Flows(f, "consent") /\ flow[f].callback \in {"error", "used"}
  /\ FlowOver(f) /\ UNCHANGED <<CredRest, server>>
ExchangeCode(f) ==
  /\ Flows(f, "consent") /\ flow[f].callback = "code" /\ server.issued < MaxTokens
  /\ \E refreshable \in BOOLEAN :
       Gains(f, [flow[f] EXCEPT !.callback = "used", !.consent = FALSE], Issued(refreshable))
  /\ server' = [server EXCEPT !.issued = @ + 1, !.unasked = @ \/ ~flow[f].consent]
  /\ UNCHANGED CredRest

FlowBegins(f) == Flows(f, "edit") /\ BeginEdit(f) /\ UNCHANGED <<flow, cmd, server, kept>>
FlowCommits(f) ==
  /\ Flows(f, "edit") /\ CommitEdit(f, flow[f].edit)
  /\ flow' = [flow EXCEPT ![f].at = flow[f].next, ![f].edit = NoOp]
  /\ UNCHANGED <<cmd, server, kept>>
\* A timeout, an error of the network or of the store, or the end of the process.
FlowEnds(f) ==
  /\ flow[f].at \notin {"new", "end"} /\ LetGo(f) /\ FlowOver(f)
  /\ UNCHANGED <<cmd, server, kept>>

--------------------------------------------------------------------------------
(* The administrator's commands, one after another.                          *)

Commands(at, o) == cmd' = [cmd EXCEPT !.at = at, !.edit = o]
SecretCommand(kind, n) ==
  /\ cmd.at = "idle" /\ cmd.left > 0
  /\ cmd' = [cmd EXCEPT !.at = "edit", !.edit = [Op(kind) EXCEPT !.secret = n], !.left = @ - 1]
  /\ UNCHANGED <<creds, draft, flow, server, kept>>
\* --logout: the stored token is revoked, if it can be, and the OAuth state removed anyway.
BeginLogout ==
  /\ cmd.at = "idle" /\ cmd.left > 0 /\ CredReads
  /\ cmd' = [cmd EXCEPT !.at = "revoke", !.left = @ - 1]
  /\ UNCHANGED <<creds, draft, flow, server, kept>>
RevokeStored ==
  /\ cmd.at = "revoke" /\ Commands("edit", Op("clear_oauth"))
  /\ UNCHANGED <<creds, draft, flow, server, kept>>
CommandBegins == cmd.at = "edit" /\ BeginEdit(Admin) /\ UNCHANGED <<flow, cmd, server, kept>>
CommandCommits ==
  /\ cmd.at = "edit" /\ CommitEdit(Admin, cmd.edit) /\ Commands("idle", NoOp)
  /\ kept' = CASE cmd.edit.op = "set_secret" -> kept \union {cmd.edit.secret}
                [] cmd.edit.op = "delete_secret" -> kept \ {cmd.edit.secret}
                [] OTHER -> kept
  /\ UNCHANGED <<flow, server>>
CommandEnds ==
  /\ cmd.at # "idle" /\ LetGo(Admin) /\ Commands("idle", NoOp)
  /\ UNCHANGED <<flow, server, kept>>

--------------------------------------------------------------------------------
CredNext ==
  \/ \E f \in CredFlows :
       \/ (\E kind \in {"call", "login"} : ResolveMaps(f, kind)) \/ CheckStatus(f)
       \/ LoadTokens(f) \/ LoadOthers(f) \/ Depart(f)
       \/ TokensRefreshed(f) \/ RefreshFails(f) \/ PersistMetadata(f)
       \/ Served(f) \/ Unauthorized(f) \/ RegisterClient(f) \/ Redirect(f)
       \/ (\E r \in {"code", "error"} : Callback(f, r)) \/ CallbackFails(f) \/ ExchangeCode(f)
       \/ FlowBegins(f) \/ FlowCommits(f) \/ FlowEnds(f)
  \/ \E k \in {"set_secret", "delete_secret"}, n \in CredSecrets : SecretCommand(k, n)
  \/ BeginLogout \/ RevokeStored \/ CommandBegins \/ CommandCommits \/ CommandEnds

CredSpec == CredInit /\ [][CredNext]_acVars

--------------------------------------------------------------------------------
CredTypeOK ==
  /\ creds \in [damaged : BOOLEAN, secrets : SUBSET CredSecrets, tokens : TokenPairs,
               expires : Nat, client : BOOLEAN, metadata : BOOLEAN]
  /\ server.issued \in 0..MaxTokens

\* The expiry in the file is that of the access token in the file, whatever writes and
\* removals of other processes came between.
ExpiryOfToken == creds.expires = creds.tokens.access
\* A secret is in the file exactly if the last command about it that wrote to the file stored
\* it: no session that stores tokens meanwhile, and no crash, loses or restores one.
SecretsKept == creds.secrets = kept
\* Every grant is one to which the user of that very session consented: a tool call
\* refreshes what was granted before, or fails.
OnlyConsented == ~server.unasked
CredentialsSound == CredTypeOK /\ ExpiryOfToken /\ SecretsKept /\ OnlyConsented

\* What a session's write never takes from the file: the refresh token, unless a refresh of
\* it was refused, and the registration of the client with the discovered metadata, which
\* only a logout removes. So a session can neither undo what a peer refreshed nor make the
\* next login register anew. And nothing overwrites a file that cannot be read.
WriteOf(kind) ==
  \/ \E f \in CredFlows : draft[f] # NoDraft /\ flow[f].edit.op = kind
  \/ draft[Admin] # NoDraft /\ cmd.edit.op = kind
CredentialsKept ==
  [][/\ creds.tokens.refresh # 0 /\ creds'.tokens.refresh = 0 =>
          WriteOf("clear_tokens") \/ WriteOf("clear_oauth")
     /\ creds.client /\ ~creds'.client => WriteOf("clear_oauth")
     /\ creds.metadata /\ ~creds'.metadata => WriteOf("clear_oauth")
     /\ creds.damaged => creds' = creds]_acVars

================================================================================
