------------------------------- MODULE CodexOAuth -------------------------------
(****************************************************************************)
(* A request through the LLM gateway (llmgateway/gateway.go) and the OAuth  *)
(* tokens of a Codex provider (llmgateway/oauth_codex.go), with the console *)
(* handlers that write the same row (handlers/providers.go).                *)
(*                                                                          *)
(* The tokens live on the provider's row. A request that finds the access   *)
(* token expired exchanges the refresh token, under a mutex of the          *)
(* provider, and writes the new tokens back. The handlers take no mutex:    *)
(* they read the whole row, may wait for a slow answer from the net, and    *)
(* save the whole row.                                                      *)
(*                                                                          *)
(* The row is one provider's, made by CreateProvider with the tokens of a   *)
(* login. The tokens of one answer of the authorization server have one     *)
(* number. A refresh token works until the server replaces it: which        *)
(* answers replace it is the server's choice, and the code handles both.    *)
(****************************************************************************)
EXTENDS Naturals, FiniteSets

CONSTANTS
  GwRequests,  \* requests of agents
  Edits,       \* requests of the console
  MaxAnswers,  \* bound on the answers of the authorization server
  MaxLosses    \* bound on lost answers, database errors and crashes

Unheld == "unheld"

ASSUME OAuthAssumption ==
  /\ Unheld \notin GwRequests
  /\ MaxAnswers \in Nat /\ MaxLosses \in Nat

VARIABLES
  row,       \* the provider's row: is it there, its API type, its tokens
  mutex,     \* providerOAuthLocks: the request that holds it, or Unheld
  req,       \* the requests of agents
  edit,      \* the requests of the console
  accepted,  \* the refresh tokens the authorization server accepts
  answers,   \* its answers so far
  outdated,   \* the access tokens up to this number have expired
  losses,
  sent, unkept, expiries,  \* refreshes sent, those whose answer was not kept, expiries
  spoiled    \* an answer that replaced the refresh token was not stored, or a
             \* copy of the row was saved over newer tokens

oauthVars == <<row, mutex, req, edit, accepted, answers, outdated, losses,
               sent, unkept, expiries, spoiled>>

NoRow == [there |-> FALSE, oauth |-> FALSE, access |-> 0, refresh |-> 0]
At(place) == [pc |-> place, old |-> 0, access |-> 0, refresh |-> 0]
NoEdit == [pc |-> "idle", seen |-> NoRow]

OAuthInit ==
  /\ row = [there |-> TRUE, oauth |-> TRUE, access |-> 1, refresh |-> 1]
  /\ mutex = Unheld
  /\ req = [r \in GwRequests |-> At("new")]
  /\ edit = [c \in Edits |-> NoEdit]
  /\ accepted = {1} /\ answers = 1
  /\ outdated = 0 /\ losses = 0
  /\ sent = 0 /\ unkept = 0 /\ expiries = 0
  /\ spoiled = FALSE

Tokens(w) == <<w.access, w.refresh>>
Counters == <<sent, unkept, expiries>>
Server == <<accepted, answers>>

--------------------------------------------------------------------------------
(* A request of an agent.                                                    *)

\* authAndResolve: the key of the request names the provider. Its keys are
\* deleted with the row (Providers); a static API key needs no more.
Authorize(r) ==
  /\ req[r].pc = "new"
  /\ req' = [req EXCEPT ![r].pc = IF ~row.there THEN "denied"
                                  ELSE IF row.oauth THEN "lock" ELSE "forward"]
  /\ UNCHANGED <<row, mutex, edit, Server, outdated, losses, Counters, spoiled>>

Fresh(w) == w.access > outdated

\* Seeded error: no mutex of the provider.
EnsureFreshOAuthToken_Unlocked(r) ==
  /\ req[r].pc = "lock"
  /\ LET stale == row.there /\ row.refresh # 0 /\ ~Fresh(row) IN
     /\ req' = [req EXCEPT ![r] = IF stale THEN [At("refresh") EXCEPT !.old = row.refresh]
                                  ELSE At(IF row.there /\ row.refresh # 0 THEN "forward" ELSE "denied")]
     /\ sent' = IF stale THEN sent + 1 ELSE sent
  /\ UNCHANGED <<row, mutex, edit, Server, outdated, losses, unkept, expiries, spoiled>>

\* EnsureFreshOAuthToken up to the call of the server: the row is read under
\* the mutex, and an answer another request has just stored serves this one.
EnsureFreshOAuthToken(r) ==
  /\ req[r].pc = "lock" /\ mutex = Unheld
  /\ LET stale == row.there /\ row.refresh # 0 /\ ~Fresh(row) IN
     /\ mutex' = IF stale THEN r ELSE Unheld
     /\ req' = [req EXCEPT ![r] = IF stale THEN [At("refresh") EXCEPT !.old = row.refresh]
                                  ELSE At(IF row.there /\ row.refresh # 0 THEN "forward" ELSE "denied")]
     /\ sent' = IF stale THEN sent + 1 ELSE sent
  /\ UNCHANGED <<row, edit, Server, outdated, losses, unkept, expiries, spoiled>>

\* The server answers a refresh token it accepts, and may replace it.
ServerRefreshes(r) ==
  /\ req[r].pc = "refresh" /\ req[r].old \in accepted
  /\ answers < MaxAnswers
  /\ answers' = answers + 1
  /\ \E rotated \in BOOLEAN :
       LET new == IF rotated THEN answers + 1 ELSE req[r].old IN
       /\ accepted' = (accepted \ {req[r].old}) \cup {new}
       /\ req' = [req EXCEPT ![r] = [pc |-> "answered", old |-> req[r].old,
                                      access |-> answers + 1, refresh |-> new]]
  /\ UNCHANGED <<row, mutex, edit, outdated, losses, Counters, spoiled>>

\* Every early return of EnsureFreshOAuthToken after the call: the deferred
\* unlock runs and the agent gets a 401.
Abandon(r) ==
  /\ req' = [req EXCEPT ![r] = At("denied")]
  /\ mutex' = IF mutex = r THEN Unheld ELSE mutex
  /\ unkept' = unkept + 1
  /\ spoiled' = (spoiled \/ req[r].pc = "answered")
  /\ UNCHANGED <<row, edit, outdated, sent, expiries>>

\* refreshCodexToken: the server refuses the token, or does not know it.
ServerRefuses(r) ==
  /\ req[r].pc = "refresh"
  /\ req[r].old \notin accepted \/ answers = MaxAnswers
  /\ Abandon(r)
  /\ UNCHANGED <<Server, losses>>

\* refreshCodexToken: the agent hangs up (the context is its request's) or the
\* client's 30 seconds pass, before the server has the request or after it.
RefreshLost(r) ==
  /\ req[r].pc \in {"refresh", "answered"} /\ losses < MaxLosses
  /\ losses' = losses + 1
  /\ Abandon(r)
  /\ UNCHANGED Server

\* Seeded error: only the access token is written back.
StoreTokens_AccessOnly(r) ==
  /\ req[r].pc = "answered"
  /\ row' = IF row.there THEN [row EXCEPT !.access = req[r].access,
                                          !.refresh = req[r].old] ELSE row
  /\ mutex' = IF mutex = r THEN Unheld ELSE mutex
  /\ req' = [req EXCEPT ![r] = At("forward")]
  /\ UNCHANGED <<edit, Server, outdated, losses, Counters, spoiled>>

\* The update of the token columns; a row deleted meanwhile matches nothing,
\* which is no error.
StoreTokens(r) ==
  /\ req[r].pc = "answered"
  /\ row' = IF row.there THEN [row EXCEPT !.access = req[r].access, !.refresh = req[r].refresh]
                         ELSE row
  /\ mutex' = IF mutex = r THEN Unheld ELSE mutex
  /\ req' = [req EXCEPT ![r] = At("forward")]
  /\ UNCHANGED <<edit, Server, outdated, losses, Counters, spoiled>>

\* ... or the database refuses it: the agent gets a 401.
StoreFails(r) ==
  /\ req[r].pc = "answered" /\ losses < MaxLosses
  /\ losses' = losses + 1
  /\ Abandon(r)
  /\ UNCHANGED Server

\* handleProxy with the credentials: the request is rebuilt and sent with a
\* context of its own, so that it outlives the agent's.
Forward(r) ==
  /\ req[r].pc = "forward"
  /\ req' = [req EXCEPT ![r].pc = "upstream"]
  /\ UNCHANGED <<row, mutex, edit, Server, outdated, losses, Counters, spoiled>>

\* The answer, or a 502, goes to the agent, and the usage log gets its record.
Respond(r) ==
  /\ req[r].pc = "upstream"
  /\ req' = [req EXCEPT ![r].pc = "served"]
  /\ UNCHANGED <<row, mutex, edit, Server, outdated, losses, Counters, spoiled>>

--------------------------------------------------------------------------------
(* The console. Each handler reads the row, may call out, and saves.         *)

\* UpdateProvider, SyncProviderModels and each round of SyncAllProviderModels
\* work on a copy of the row.
ReadRow(c) ==
  /\ edit[c].pc = "idle" /\ row.there
  /\ edit' = [edit EXCEPT ![c] = [pc |-> "read", seen |-> row]]
  /\ UNCHANGED <<row, mutex, req, Server, outdated, losses, Counters, spoiled>>

\* The copy gets another API type: body.APIType, or the catalog's format.
ChangeType(c) ==
  /\ edit[c].pc = "read"
  /\ edit' = [edit EXCEPT ![c].seen.oauth = ~@]
  /\ UNCHANGED <<row, mutex, req, Server, outdated, losses, Counters, spoiled>>

\* ExchangeCodexAuthCode: the server answers an authorization code with the
\* tokens of a new grant, and leaves the older ones alone.
NewGrant ==
  /\ answers < MaxAnswers
  /\ answers' = answers + 1 /\ accepted' = accepted \cup {answers + 1}

\* exchangeCodexOAuth: the code the user pasted is exchanged for the tokens of
\* a new grant, which go into the copy.
Relink(c) ==
  /\ edit[c].pc = "read" /\ edit[c].seen.oauth
  /\ NewGrant
  /\ edit' = [edit EXCEPT ![c] = [pc |-> "linked",
                 seen |-> [edit[c].seen EXCEPT !.access = answers + 1, !.refresh = answers + 1]]]
  /\ UNCHANGED <<row, mutex, req, outdated, losses, Counters, spoiled>>

\* The handler returns without a save: a bad body, a failed login, a catalog
\* that does not answer.
EditFails(c) ==
  /\ edit[c].pc \in {"read", "linked"} /\ losses < MaxLosses
  /\ losses' = losses + 1
  /\ edit' = [edit EXCEPT ![c] = NoEdit]
  /\ UNCHANGED <<row, mutex, req, Server, outdated, Counters, spoiled>>

\* Save writes every column. If the row is gone it inserts it again.
SaveRow(c) ==
  /\ edit[c].pc \in {"read", "linked"}
  /\ row' = edit[c].seen
  /\ spoiled' = (spoiled \/ (edit[c].pc = "read" /\ Tokens(row) # Tokens(edit[c].seen)))
  /\ edit' = [edit EXCEPT ![c] = NoEdit]
  /\ UNCHANGED <<mutex, req, Server, outdated, losses, Counters>>

\* DeleteProvider, of this row.
DeleteRow ==
  /\ row.there
  /\ row' = NoRow
  /\ UNCHANGED <<mutex, req, edit, Server, outdated, losses, Counters, spoiled>>

--------------------------------------------------------------------------------
(* Time and crashes.                                                         *)

\* The access tokens handed out so far come within codexRefreshSkew of their
\* expiry. A token lives for days and outlives the handler that stores it.
Expire ==
  /\ outdated < answers
  /\ \A r \in GwRequests : req[r].pc # "answered"
  /\ \A c \in Edits : edit[c].pc # "linked"
  /\ outdated' = answers /\ expiries' = expiries + 1
  /\ UNCHANGED <<row, mutex, req, edit, Server, losses, sent, unkept, spoiled>>

Calling == {r \in GwRequests : req[r].pc \in {"refresh", "answered"}}

\* The process ends and starts again: the mutexes and every request are gone.
Crash ==
  /\ losses < MaxLosses /\ losses' = losses + 1
  /\ mutex' = Unheld
  /\ req' = [r \in GwRequests |-> IF req[r].pc \in {"new", "served"} THEN req[r]
                                   ELSE At("denied")]
  /\ edit' = [c \in Edits |-> NoEdit]
  /\ unkept' = unkept + Cardinality(Calling)
  /\ spoiled' = (spoiled \/ \E r \in Calling : req[r].pc = "answered")
  /\ UNCHANGED <<row, Server, outdated, sent, expiries>>

--------------------------------------------------------------------------------
RequestStep(r) ==
  \/ EnsureFreshOAuthToken(r)
  \/ ServerRefreshes(r) \/ ServerRefuses(r) \/ RefreshLost(r)
  \/ StoreTokens(r) \/ StoreFails(r)
  \/ Forward(r) \/ Respond(r)

OAuthNext ==
  \/ \E r \in GwRequests : Authorize(r) \/ RequestStep(r)
  \/ \E c \in Edits : ReadRow(c) \/ ChangeType(c) \/ Relink(c) \/ EditFails(c) \/ SaveRow(c)
  \/ DeleteRow \/ Expire \/ Crash

OAuthSpec == OAuthInit /\ [][OAuthNext]_oauthVars

--------------------------------------------------------------------------------
ProviderRows == [there : BOOLEAN, oauth : BOOLEAN, access : Nat, refresh : Nat]

OAuthTypeOK ==
  /\ row \in ProviderRows
  /\ mutex \in GwRequests \cup {Unheld}
  /\ req \in [GwRequests ->
       [pc : {"new", "lock", "refresh", "answered", "forward", "upstream", "served", "denied"},
        old : Nat, access : Nat, refresh : Nat]]
  /\ edit \in [Edits -> [pc : {"idle", "read", "linked"}, seen : ProviderRows]]
  /\ answers \in Nat /\ accepted \subseteq 1..answers
  /\ outdated \in Nat /\ outdated <= answers /\ losses \in Nat
  /\ sent \in Nat /\ unkept \in Nat /\ expiries \in Nat /\ spoiled \in BOOLEAN

\* The refresh token of the row is one the authorization server accepts,
\* whichever requests refresh it and whichever handlers save the row, once no
\* answer is on its way to the row. Only an answer that was not stored and a
\* copy saved over newer tokens (UpdateProvider and the catalog syncs take no
\* mutex) lock the provider out until somebody logs in again.
LinkUsable ==
  row.there /\ ~spoiled /\ (\A r \in GwRequests : req[r].pc # "answered") => row.refresh \in accepted

\* "A burst of in-flight requests triggers only one network refresh": there
\* are no more refreshes than expiries and refreshes whose answer was not kept.
OneRefresh == ~spoiled => sent <= expiries + unkept
================================================================================
